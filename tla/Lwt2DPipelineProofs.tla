----------------------- MODULE Lwt2DPipelineProofs -----------------------
(***************************************************************************)
(* Proofs about Lwt2DPipeline for whatever a core may be given, and every  *)
(* buffering: that no circular buffer overflows, and that the handshakes   *)
(* of lwt_2d_reader.cpp and lwt_2d_writer.cpp are enough to keep the three *)
(* uses of the scratch apart; then that what is computed is exact.         *)
(***************************************************************************)
EXTENDS Lwt2DPipeline, AnySequences, TLAPS

-----------------------------------------------------------------------------
(***************************************************************************)
(* What a leg is, as far as the kernels' places depend on it.              *)
(***************************************************************************)
LegOK(n) ==
    /\ IsRoute(n) => /\ Leg(n).kind \in {"lift", "scale"} /\ Tiles(n) \in Nat \ {0}
                     /\ \A i \in 1 .. Tiles(n) : Leg(n).writes[i] \in Places
    /\ ~IsRoute(n) => /\ Len(Leg(n).results) \in Nat \ {0}
                      /\ ~IsFirst(n) /\ ~Leg(n).skips /\ n > 1 /\ IsRoute(n - 1)
    /\ IsFirst(n) => Len(Leg(n).loads) \in Nat \ {0}
    /\ IsFirst(n) <=> n = 1 \/ ~IsRoute(n - 1)
    /\ ~IsFirst(n) => Leg(n).item = Leg(n - 1).item
    /\ IsRoute(n) => n < LegCount
    /\ n > 1 /\ Leg(n - 1).skips =>
         \A i \in 1 .. Len(Leg(n).results) : "trailing" \notin Leg(n).results[i].staged

LEMMA LegsOK ==
  ASSUME legs \in Programs
  PROVE  /\ LegCount \in Nat \ {0} /\ ~IsRoute(LegCount)
         /\ \A n \in 1 .. LegCount : LegOK(n)
<1> USE DEF LegCount, Leg, IsRoute, IsFirst, Tiles
<1>1. legs \in Seq(LegType) /\ Len(legs) > 0 /\ legs[Len(legs)].kind = "results"
  BY ProgramsAssumption
<1>2. LegCount \in Nat \ {0} /\ ~IsRoute(LegCount)
  BY <1>1
<1>3. ASSUME NEW n \in 1 .. LegCount PROVE LegOK(n)
  <2>1. legs[n] \in LegType /\ n \in Nat
    BY <1>1, <1>2, <1>3
  <2>2. /\ legs[n].kind \in {"lift", "scale", "results"}
        /\ legs[n].writes \in Seq(Places) /\ legs[n].loads \in Seq(Loading)
        /\ legs[n].results \in Seq(Delivery)
    BY <2>1 DEF LegType
  <2>3. \A m \in 1 .. Len(legs) :
          /\ IF legs[m].kind = "results"
             THEN legs[m].results # <<>> /\ legs[m].loads = <<>> /\ ~legs[m].skips
             ELSE legs[m].writes # <<>> /\ Len(legs[m].staged) = Len(legs[m].writes)
          /\ legs[m].loads # <<>> <=> (m = 1 \/ legs[m - 1].kind = "results")
          /\ legs[m].loads = <<>> => legs[m].item = legs[m - 1].item
    BY ProgramsAssumption
  <2>4. n > 1 => n - 1 \in 1 .. Len(legs)
    BY <1>2, <1>3, <2>1
  <2>5. n > 1 /\ legs[n - 1].skips =>
          \A i \in 1 .. Len(legs[n].results) : "trailing" \notin legs[n].results[i].staged
    <3>1. \A m \in 1 .. Len(legs) - 1 :
            legs[m].skips =>
              \A i \in 1 .. Len(legs[m + 1].results) :
                "trailing" \notin legs[m + 1].results[i].staged
      BY SkipsAssumption
    <3>2. n > 1 => n - 1 \in 1 .. Len(legs) - 1 /\ (n - 1) + 1 = n
      BY <1>2, <1>3, <2>1
    <3>3. QED
      BY <3>1, <3>2
  <2>6. legs[n].kind # "results" => n < LegCount
    BY <1>1, <1>2, <1>3, <2>1
  <2>7. /\ legs[n].kind # "results" =>
              Len(legs[n].writes) \in Nat \ {0}
                /\ \A i \in 1 .. Len(legs[n].writes) : legs[n].writes[i] \in Places
        /\ legs[n].kind = "results" =>
              Len(legs[n].results) \in Nat \ {0} /\ legs[n].loads = <<>> /\ ~legs[n].skips
        /\ legs[n].loads # <<>> => Len(legs[n].loads) \in Nat \ {0}
    BY <1>3, <2>2, <2>3
  <2>8. /\ legs[n].loads # <<>> <=> (n = 1 \/ legs[n - 1].kind = "results")
        /\ legs[n].loads = <<>> => legs[n].item = legs[n - 1].item
    BY <1>3, <2>3
  <2>9. QED
    BY <2>1, <2>2, <2>5, <2>6, <2>7, <2>8 DEF LegOK
<1>4. QED
  BY <1>2, <1>3

-----------------------------------------------------------------------------
(***************************************************************************)
(* The inductive invariant.                                                *)
(***************************************************************************)
USE DEF rvars, staging, cvars, ring, wvars

(***************************************************************************)
(* Operands of the reader's tile that it has dealt with: of these, those   *)
(* that are not pending have been pushed.                                  *)
(***************************************************************************)
Dealt ==
    CASE rpc = "source1" -> {"source0"}
      [] rpc = "base" -> {"source0", "source1"}
      [] rpc = "barrier" -> Needs(rleg)
      [] OTHER -> {}

Gathering == rpc \in Operands \union {"barrier"}

Flowing == wleg <= LegCount /\ IsRoute(wleg)

\* Operands of the writer's leg.
Wanted == IF Flowing THEN Needs(wleg) ELSE {}

(***************************************************************************)
(* Tiles of the writer's leg: of an operand, how many the reader has       *)
(* pushed and how many are in a register; how many the compute kernel has  *)
(* packed; how many the writer has popped.                                 *)
(***************************************************************************)
Pushed ==
    [o \in Operands |->
       IF rleg > wleg THEN Tiles(wleg)
       ELSE IF rleg = wleg /\ Gathering
       THEN rtile - (IF o \in Dealt /\ o \notin pending THEN 0 ELSE 1)
       ELSE 0]

Held ==
    [o \in Operands |->
       IF Len(regs) >= (CASE o = "source0" -> 1 [] o = "source1" -> 2 [] o = "base" -> 3)
       THEN 1 ELSE 0]

Packed == IF cleg > wleg THEN Tiles(wleg) ELSE ctile - 1

Popped == IF wpc = "signal" THEN Tiles(wleg) ELSE wtile - 1

(***************************************************************************)
(* What belongs together of the places a kernel can be at, kernel by       *)
(* kernel.                                                                 *)
(***************************************************************************)
ReaderPlace ==
    /\ rpc \in {"load", "split", "pages"} =>
         rleg <= LegCount /\ IsFirst(rleg) /\ IsRoute(rleg)
    /\ rpc \in {"load", "split"} => rtile <= Len(Leg(rleg).loads)
    /\ Gathering => rleg <= LegCount /\ IsRoute(rleg) /\ rtile <= Tiles(rleg)
    /\ rpc \in {"source1", "base"} => Leg(rleg).kind = "lift"
    /\ rpc \in {"pages", "sync", "skip", "done"} => rtile = 1
    /\ rpc = "sync" => rleg > 1
    /\ rpc = "skip" =>
         rleg > 1 /\ rleg <= LegCount /\ ~IsRoute(rleg) /\ Leg(rleg - 1).skips
    /\ rpc = "done" => rleg = LegCount + 1
    /\ pending \subseteq Dealt

ComputePlace ==
    /\ cleg <= LegCount + 1
    /\ cleg <= LegCount => IsRoute(cleg) /\ ctile <= Tiles(cleg)

WriterPlace ==
    /\ wpc = "done" <=> wleg = LegCount + 1
    /\ wpc = "first" => IsFirst(wleg) /\ wtile = 1
    /\ wpc \in {"first", "take", "flush"} => IsRoute(wleg) /\ wtile <= Tiles(wleg)
    /\ wpc = "deliver" => ~IsRoute(wleg) /\ wtile <= Len(Leg(wleg).results)
    /\ wpc \in {"signal", "done"} => wtile = 1
    /\ wpc = "flush" => count >= Batch

(***************************************************************************)
(* How far apart the kernels can be: a sync page stands for every leg the  *)
(* writer has ended and the reader has not waited for.                     *)
(***************************************************************************)
Lockstep ==
    /\ sync = wleg - rleg + (IF rpc = "sync" THEN 1 ELSE 0)
    /\ rpc \in {"load", "split", "pages"} \union Operands => wleg = rleg
    /\ pending # {} => wleg = rleg
    /\ rpc = "barrier" /\ wleg # rleg => rtile = Tiles(rleg)
    /\ cleg = IF wleg > LegCount THEN wleg
              ELSE IF ~IsRoute(wleg) THEN wleg + 1
              ELSE IF cleg = wleg THEN wleg ELSE NextRoute(wleg)
    /\ cleg # wleg => ctile = 1 /\ Len(regs) = 0
    /\ wleg <= LegCount /\ IsFirst(wleg) /\ rleg <= wleg /\ ~Gathering => wpc = "first"

(***************************************************************************)
(* A tile of the writer's leg is in one place, and no others are under     *)
(* way.                                                                    *)
(***************************************************************************)
Conservation ==
    /\ count = IF Flowing THEN Packed - Popped ELSE 0
    /\ \A o \in Operands :
         Len(input[o]) = IF o \in Wanted THEN Pushed[o] - Packed - Held[o] ELSE 0
    /\ Len(regs) > 0 => "base" \in Wanted

\* The room a pending operand needs.
Reserved == \A o \in pending : Len(input[o]) < Buffering

(***************************************************************************)
(* While the reader still works on a tile, its half of the scratch has its *)
(* pages; and after the last tile that of them which it looks at next.     *)
(***************************************************************************)
PagesKept ==
    rpc = "barrier" =>
      /\ rtile < Tiles(rleg) \/ IsRoute(rleg + 1) =>
           scratch["executed"] = RoutePages(rleg) /\ scratch["trailing"] = RoutePages(rleg)
      /\ Leg(rleg).skips => scratch["trailing"] = RoutePages(rleg)

Buffers == (\A o \in Operands : IsSeq(input[o])) /\ IsSeq(regs)

IInv ==
    /\ TypeOK /\ Buffers
    /\ ReaderPlace /\ ComputePlace /\ WriterPlace
    /\ Lockstep /\ Conservation /\ Reserved
    /\ ScratchOwned /\ PagesKept

(***************************************************************************)
(* What the steps need of the legs the kernels are on, and of the next.    *)
(***************************************************************************)
Known ==
    /\ LegCount \in Nat \ {0} /\ Buffering \in Nat /\ Buffering >= 2
    /\ rleg \in Nat \ {0} /\ rleg <= LegCount + 1
    /\ wleg \in Nat \ {0} /\ wleg <= LegCount + 1
    /\ cleg \in Nat \ {0} /\ cleg <= LegCount + 1
    /\ rtile \in Nat \ {0} /\ wtile \in Nat \ {0} /\ ctile \in Nat \ {0}
    /\ rleg <= LegCount => LegOK(rleg)
    /\ wleg <= LegCount => LegOK(wleg)
    /\ cleg <= LegCount => LegOK(cleg)
    /\ rleg < LegCount => LegOK(rleg + 1)
    /\ wleg < LegCount => LegOK(wleg + 1)
    /\ rleg > 1 => LegOK(rleg - 1)
    /\ ~IsRoute(LegCount)
    /\ \A o \in Operands : Len(input[o]) \in Nat
    /\ Len(regs) \in 0 .. 3 /\ count \in Nat /\ sync \in {0, 1}

LEMMA Here == ASSUME IInv PROVE Known
<1>1. LegCount \in Nat \ {0} /\ ~IsRoute(LegCount) /\ \A n \in 1 .. LegCount : LegOK(n)
  BY LegsOK DEF IInv, TypeOK
<1>2. /\ rleg \in Nat \ {0} /\ wleg \in Nat \ {0} /\ cleg \in Nat \ {0}
      /\ rleg <= LegCount + 1 /\ wleg <= LegCount + 1 /\ cleg <= LegCount + 1
      /\ rtile \in Nat \ {0} /\ wtile \in Nat \ {0} /\ ctile \in Nat \ {0}
  <2>1. /\ {rleg, wleg} \subseteq 1 .. LegCount + 1 /\ cleg \in 1 .. LegCount + 2
        /\ {rtile, ctile, wtile} \subseteq Nat \ {0}
    BY DEF IInv, TypeOK
  <2>2. cleg <= LegCount + 1
    BY DEF IInv, ComputePlace
  <2>3. QED
    BY <1>1, <2>1, <2>2
<1>3. /\ rleg <= LegCount => LegOK(rleg)
      /\ wleg <= LegCount => LegOK(wleg)
      /\ cleg <= LegCount => LegOK(cleg)
  BY <1>1, <1>2
<1>4. /\ rleg < LegCount => LegOK(rleg + 1)
      /\ wleg < LegCount => LegOK(wleg + 1)
      /\ rleg > 1 => LegOK(rleg - 1)
  <2>1. /\ rleg < LegCount => rleg + 1 \in 1 .. LegCount
        /\ wleg < LegCount => wleg + 1 \in 1 .. LegCount
        /\ rleg > 1 => rleg - 1 \in 1 .. LegCount
    BY <1>1, <1>2
  <2>2. QED
    BY <1>1, <2>1
<1>5. /\ \A o \in Operands : Len(input[o]) \in Nat
      /\ Len(regs) \in 0 .. 3 /\ count \in Nat /\ sync \in {0, 1}
      /\ Buffering \in Nat /\ Buffering >= 2
  BY BufferingAssumption DEF IInv, TypeOK
<1>6. QED
  BY <1>1, <1>2, <1>3, <1>4, <1>5 DEF Known

(***************************************************************************)
(* Counting tiles: nothing is packed that was not pushed, nothing popped   *)
(* that was not packed; and when the writer ends a route, reader and       *)
(* compute kernel have ended it, but that the reader may still be about to *)
(* notice.                                                                 *)
(***************************************************************************)
LEMMA Flow ==
  ASSUME IInv
  PROVE  /\ Flowing => /\ Tiles(wleg) \in Nat \ {0} /\ Packed \in Nat /\ Popped \in Nat
                       /\ Packed <= Tiles(wleg) /\ Popped <= Packed
         /\ \A o \in Wanted : /\ Pushed[o] \in Nat /\ Packed <= Pushed[o]
                              /\ Pushed[o] <= Tiles(wleg)
         /\ \A o \in Operands : Len(input[o]) > 0 => o \in Wanted /\ cleg = wleg
         /\ Len(regs) > 0 => Flowing /\ "base" \in Wanted /\ cleg = wleg
         /\ count > 0 => Flowing /\ (rleg > wleg \/ (rleg = wleg /\ Gathering))
         /\ Flowing /\ wpc = "signal" =>
              /\ cleg > wleg /\ count = 0 /\ Len(regs) = 0
              /\ \A o \in Operands : Len(input[o]) = 0
              /\ \/ rleg > wleg
                 \/ /\ rleg = wleg /\ rpc = "barrier" /\ pending = {}
                    /\ rtile = Tiles(rleg)
<1>1. Known
  BY Here
<1>2. Flowing => /\ Tiles(wleg) \in Nat \ {0} /\ Leg(wleg).kind \in {"lift", "scale"}
                 /\ "source0" \in Wanted /\ Wanted \subseteq Operands
  BY <1>1 DEF Known, Flowing, Wanted, Needs, LegOK, Operands
<1>3. Wanted # {} => Flowing
  BY DEF Wanted
<1>4. Flowing => /\ Packed \in Nat /\ Popped \in Nat /\ Packed <= Tiles(wleg)
                 /\ count = Packed - Popped
  <2>1. cleg # wleg => ctile = 1 /\ Len(regs) = 0
    BY DEF IInv, Lockstep
  <2>2. cleg <= LegCount => ctile <= Tiles(cleg)
    BY DEF IInv, ComputePlace
  <2>3. Flowing => cleg = wleg \/ cleg = NextRoute(wleg)
    BY DEF IInv, Lockstep, Flowing
  <2>4. NextRoute(wleg) > wleg
    BY <1>1 DEF NextRoute, Known
  <2>5. Flowing => Packed \in Nat /\ Packed <= Tiles(wleg)
    BY <1>1, <1>2, <2>1, <2>2, <2>3, <2>4 DEF Packed, Known, Flowing
  <2>6. Flowing => Popped \in Nat
    BY <1>1, <1>2 DEF Popped, Known
  <2>7. Flowing => count = Packed - Popped
    BY DEF IInv, Conservation
  <2>8. QED
    BY <2>5, <2>6, <2>7
<1>5. ASSUME NEW o \in Wanted
      PROVE  Pushed[o] \in Nat /\ Packed <= Pushed[o] /\ Pushed[o] <= Tiles(wleg)
  <2>1. Flowing /\ o \in Operands
    BY <1>2, <1>3
  <2>2. Gathering => rtile <= Tiles(rleg)
    BY DEF IInv, ReaderPlace
  <2>3. Pushed[o] \in Nat /\ Pushed[o] <= Tiles(wleg)
    BY <1>1, <1>2, <2>1, <2>2 DEF Pushed, Known
  <2>4. Held[o] \in {0, 1}
    BY <2>1 DEF Held
  <2>5. Len(input[o]) = Pushed[o] - Packed - Held[o]
    BY <2>1 DEF IInv, Conservation
  <2>6. QED
    BY <1>1, <1>4, <2>1, <2>3, <2>4, <2>5 DEF Known
<1>6. ASSUME NEW o \in Operands, Len(input[o]) > 0 PROVE o \in Wanted /\ cleg = wleg
  <2>1. o \in Wanted
    BY <1>6 DEF IInv, Conservation
  <2>2. Len(input[o]) = Pushed[o] - Packed - Held[o]
    BY <2>1 DEF IInv, Conservation
  <2>3. Held[o] \in {0, 1}
    BY DEF Held
  <2>4. cleg > wleg => Packed = Tiles(wleg)
    BY DEF Packed
  <2>5. ~(cleg > wleg)
    BY <1>3, <1>4, <1>5, <1>6, <2>1, <2>2, <2>3, <2>4
  <2>6. cleg = wleg \/ cleg = NextRoute(wleg)
    BY <1>3, <2>1 DEF IInv, Lockstep, Flowing
  <2>7. QED
    BY <1>1, <2>1, <2>5, <2>6 DEF NextRoute, Known
<1>7. Len(regs) > 0 => Flowing /\ "base" \in Wanted /\ cleg = wleg
  <2>1. Len(regs) > 0 => "base" \in Wanted
    BY DEF IInv, Conservation
  <2>2. Len(regs) > 0 => cleg = wleg
    BY DEF IInv, Lockstep
  <2>3. "base" \in Wanted => Flowing
    BY DEF Wanted
  <2>4. QED
    BY <2>1, <2>2, <2>3
<1>8. count > 0 => Flowing /\ (rleg > wleg \/ (rleg = wleg /\ Gathering))
  <2>1. count > 0 => Flowing
    BY DEF IInv, Conservation
  <2>2. count > 0 => Pushed["source0"] > 0
    BY <1>2, <1>4, <1>5, <2>1
  <2>3. Pushed["source0"] > 0 => rleg > wleg \/ (rleg = wleg /\ Gathering)
    <3>1. "source0" \in Operands
      BY DEF Operands
    <3>2. Pushed["source0"] = IF rleg > wleg THEN Tiles(wleg)
            ELSE IF rleg = wleg /\ Gathering
            THEN rtile - (IF "source0" \in Dealt /\ "source0" \notin pending THEN 0 ELSE 1)
            ELSE 0
      BY <3>1 DEF Pushed
    <3>3. QED
      BY <3>2
  <2>4. QED
    BY <2>1, <2>2, <2>3
<1>9. ASSUME Flowing, wpc = "signal"
      PROVE  /\ cleg > wleg /\ count = 0 /\ Len(regs) = 0
             /\ \A o \in Operands : Len(input[o]) = 0
             /\ \/ rleg > wleg
                \/ rleg = wleg /\ rpc = "barrier" /\ pending = {} /\ rtile = Tiles(rleg)
  <2>1. Popped = Tiles(wleg) /\ Packed = Tiles(wleg) /\ count = 0
    <3>1. Popped = Tiles(wleg)
      BY <1>9 DEF Popped
    <3>2. QED
      BY <1>1, <1>2, <1>4, <1>9, <3>1 DEF Known
  <2>2. cleg > wleg
    <3>1. ctile <= Tiles(cleg) \/ cleg > LegCount
      BY <1>1 DEF IInv, ComputePlace, Known
    <3>2. cleg = wleg \/ cleg = NextRoute(wleg)
      BY <1>9 DEF IInv, Lockstep, Flowing
    <3>3. cleg # wleg
      BY <1>1, <1>2, <1>9, <2>1, <3>1 DEF Packed, Flowing, Known
    <3>4. QED
      BY <1>1, <3>2, <3>3 DEF NextRoute, Known
  <2>3. Len(regs) = 0 /\ \A o \in Operands : Len(input[o]) = 0
    BY <1>1, <1>6, <1>7, <2>2 DEF Known
  <2>4. \A o \in Wanted : Pushed[o] = Tiles(wleg)
    BY <1>2, <1>5, <1>9, <2>1
  <2>5. ASSUME ~(rleg > wleg)
        PROVE  rleg = wleg /\ rpc = "barrier" /\ pending = {} /\ rtile = Tiles(rleg)
    <3>1. \A o \in Wanted : o \in Operands /\ Pushed[o] > 0
      BY <1>2, <1>9, <2>4
    <3>2. rleg = wleg /\ Gathering
      <4>1. Pushed["source0"] > 0 /\ "source0" \in Operands
        BY <1>2, <1>9, <3>1
      <4>2. QED
        BY <2>5, <4>1 DEF Pushed
    <3>3. \A o \in Wanted : rtile - (IF o \in Dealt /\ o \notin pending THEN 0 ELSE 1)
                              = Tiles(wleg)
      BY <2>4, <2>5, <3>1, <3>2 DEF Pushed
    <3>4. rtile <= Tiles(wleg)
      BY <3>2 DEF IInv, ReaderPlace
    <3>5. \A o \in Wanted : o \in Dealt /\ o \notin pending
      BY <1>1, <1>2, <1>9, <3>3, <3>4 DEF Known
    <3>6. rtile = Tiles(rleg)
      BY <1>1, <1>2, <1>9, <3>2, <3>3, <3>5 DEF Known
    <3>7. Wanted = Needs(rleg)
      BY <1>9, <3>2 DEF Wanted
    <3>8. rpc = "barrier"
      <4>1. "source0" \in Wanted
        BY <1>2, <1>9
      <4>2. rpc # "source0"
        BY <3>5, <4>1 DEF Dealt
      <4>3. rpc \in {"source1", "base"} => "base" \in Wanted
        BY <3>7 DEF IInv, ReaderPlace, Needs, Operands
      <4>4. rpc \notin {"source1", "base"}
        BY <3>5, <4>3 DEF Dealt
      <4>5. QED
        BY <3>2, <4>2, <4>4 DEF Gathering, Operands
    <3>9. pending = {}
      <4>1. pending \subseteq Dealt /\ Dealt = Wanted
        BY <3>7, <3>8 DEF IInv, ReaderPlace, Dealt
      <4>2. QED
        BY <3>5, <4>1
    <3>10. QED
      BY <3>2, <3>6, <3>8, <3>9
  <2>6. QED
    BY <2>1, <2>2, <2>3, <2>5
<1>10. QED
  BY <1>2, <1>4, <1>5, <1>6, <1>7, <1>8, <1>9, <1>1 DEF Known

(***************************************************************************)
(* What is counted changes only with the places it depends on.             *)
(***************************************************************************)
LEMMA Counts ==
  ASSUME legs' = legs, wleg' = wleg
  PROVE  /\ Flowing' = Flowing /\ Wanted' = Wanted
         /\ rpc' = rpc /\ rleg' = rleg /\ rtile' = rtile /\ pending' = pending =>
              Pushed' = Pushed
         /\ cleg' = cleg /\ ctile' = ctile => Packed' = Packed
         /\ wpc' = wpc /\ wtile' = wtile => Popped' = Popped
         /\ regs' = regs => Held' = Held
<1> USE DEF LegCount, Leg, IsRoute, Tiles, Needs, Operands
<1>1. Flowing' = Flowing /\ Wanted' = Wanted
  BY DEF Flowing, Wanted
<1>2. rpc' = rpc /\ rleg' = rleg /\ rtile' = rtile /\ pending' = pending => Pushed' = Pushed
  BY DEF Pushed, Gathering, Dealt
<1>3. /\ cleg' = cleg /\ ctile' = ctile => Packed' = Packed
      /\ wpc' = wpc /\ wtile' = wtile => Popped' = Popped
      /\ regs' = regs => Held' = Held
  BY DEF Packed, Popped, Held
<1>4. QED
  BY <1>1, <1>2, <1>3

(***************************************************************************)
(* A step of the reader between tiles, and of the writer between legs of   *)
(* an item, leaves the count as it is.                                     *)
(***************************************************************************)
LEMMA Kept ==
  ASSUME Conservation, legs' = legs, wleg' = wleg, input' = input, regs' = regs,
         count' = count, Flowing => Packed' = Packed /\ Popped' = Popped,
         \A o \in Wanted : Pushed'[o] = Pushed[o]
  PROVE  Conservation'
<1>1. Flowing' = Flowing /\ Wanted' = Wanted /\ Held' = Held
  BY Counts
<1>2. Wanted # {} => Flowing
  BY DEF Wanted
<1>3. QED
  BY <1>1, <1>2 DEF Conservation

-----------------------------------------------------------------------------
LEMMA InitIInv == Init => IInv
<1> SUFFICES ASSUME Init PROVE IInv
  OBVIOUS
<1>1. /\ LegCount \in Nat \ {0} /\ LegOK(1) /\ ~IsRoute(LegCount)
      /\ Buffering \in Nat /\ Buffering >= 2 /\ legs \in Programs
  BY LegsOK, BufferingAssumption DEF Init
<1>2. IsFirst(1) /\ IsRoute(1) /\ LegCount > 1
  BY <1>1 DEF LegOK
<1>3. Tiles(1) \in Nat \ {0} /\ Len(Leg(1).loads) \in Nat \ {0}
  BY <1>1, <1>2 DEF LegOK
<1>4. /\ rpc = "load" /\ rleg = 1 /\ rtile = 1 /\ pending = {} /\ arrived = <<>>
      /\ input = [o \in Operands |-> <<>>]
      /\ cleg = 1 /\ ctile = 1 /\ regs = <<>> /\ head = 0 /\ count = 0
      /\ wpc = "first" /\ wleg = 1 /\ wtile = 1 /\ issued = {} /\ sync = 0
      /\ \A o \in Operands : input[o] = <<>>
  BY DEF Init
<1>5. TypeOK
  BY <1>1, <1>4, EmptyIsSeq DEF Init, TypeOK, Operands
<1>6. Buffers
  BY <1>4, EmptyIsSeq DEF Buffers
<1>7. ReaderPlace
  BY <1>2, <1>3, <1>4 DEF ReaderPlace, Gathering, Dealt, Operands, Leg, LegCount,
                          IsRoute, IsFirst, Tiles
<1>8. ComputePlace
  BY <1>2, <1>3, <1>4 DEF ComputePlace, Leg, LegCount, IsRoute, IsFirst, Tiles
<1>9. WriterPlace
  BY <1>1, <1>2, <1>3, <1>4 DEF WriterPlace
<1>10. Lockstep
  BY <1>2, <1>4, EmptyIsSeq DEF Lockstep, Operands
<1>11. Conservation
  <2>1. ~Gathering /\ Flowing
    BY <1>2, <1>4 DEF Gathering, Operands, Flowing, Leg, LegCount, IsRoute, IsFirst, Tiles
  <2>2. Packed = 0 /\ Popped = 0
    BY <1>4 DEF Packed, Popped
  <2>3. \A o \in Operands : Pushed[o] = 0 /\ Held[o] = 0
    BY <1>4, <2>1, EmptyIsSeq DEF Pushed, Held, Operands
  <2>4. QED
    BY <1>4, <2>1, <2>2, <2>3, EmptyIsSeq DEF Conservation
<1>12. Reserved
  BY <1>4 DEF Reserved
<1>13. ScratchOwned
  BY <1>4 DEF ScratchOwned, ReaderExecutes, ReaderSkips, WriterExecutes, Operands
<1>14. PagesKept
  BY <1>4 DEF PagesKept
<1>15. QED
  BY <1>5, <1>6, <1>7, <1>8, <1>9, <1>10, <1>11, <1>12, <1>13, <1>14 DEF IInv

LEMMA RLoadStep ==
  ASSUME IInv, RLoad
  PROVE  IInv'
<1> USE DEF IInv
<1>1. Known
  BY Here
<1>2. /\ legs' = legs /\ rpc = "load" /\ rpc' = "split"
      /\ UNCHANGED <<rleg, rtile, staging, input, cvars, ring, wvars, issued, sync,
                     memory, delivered>>
  BY DEF RLoad
<1>3. wleg = rleg /\ wpc = "first" /\ IsRoute(rleg) /\ pending = {}
  BY <1>1, <1>2 DEF Lockstep, ReaderPlace, Known, Gathering, Dealt, Operands
<1>4. DOMAIN scratch' = Parts /\ TypeOK'
  BY <1>2 DEF RLoad, TypeOK, LegCount
<1>5. Buffers' /\ Reserved'
  BY <1>2 DEF Buffers, Reserved
<1>6. ReaderPlace'
  BY <1>2, <1>3 DEF ReaderPlace, Gathering, Dealt, Operands, Leg, LegCount, IsRoute,
                    IsFirst, Tiles
<1>7. ComputePlace' /\ WriterPlace'
  BY <1>2 DEF ComputePlace, WriterPlace, Batch, Leg, LegCount, IsRoute, IsFirst, Tiles
<1>8. Lockstep'
  BY <1>2, <1>3 DEF Lockstep, NextRoute, Gathering, Operands, Leg, LegCount, IsRoute,
                    IsFirst, Tiles
<1>9. Conservation'
  <2>1. Pushed' = Pushed
    BY <1>2 DEF Pushed, Gathering, Operands, Tiles, Leg
  <2>2. QED
    BY <1>2, <2>1, Counts, Kept
<1>10. ScratchOwned'
  <2>1. Leg(rleg).loads[rtile].staged =>
          scratch' = [h \in Parts |-> Contents("input", Leg(rleg).item)]
    BY DEF RLoad
  <2>2. QED
    BY <1>2, <1>3, <2>1 DEF ScratchOwned, ReaderExecutes, ReaderSkips, WriterExecutes,
                            Operands, Contents, Leg
<1>11. PagesKept'
  BY <1>2 DEF PagesKept
<1>12. QED
  BY <1>4, <1>5, <1>6, <1>7, <1>8, <1>9, <1>10, <1>11

LEMMA RSplitStep ==
  ASSUME IInv, RSplit
  PROVE  IInv'
<1> USE DEF IInv
<1>1. Known
  BY Here
<1>2. /\ legs' = legs /\ rpc = "split"
      /\ UNCHANGED <<rleg, staging, input, cvars, ring, wvars, issued, sync, scratch,
                     delivered>>
      /\ \/ rpc' = "load" /\ rtile' = rtile + 1 /\ rtile < Len(Leg(rleg).loads)
         \/ rpc' = "pages" /\ rtile' = 1
  BY DEF RSplit
<1>3. /\ wleg = rleg /\ wpc = "first" /\ IsRoute(rleg) /\ IsFirst(rleg) /\ pending = {}
      /\ rleg <= LegCount /\ rtile \in Nat \ {0} /\ Len(Leg(rleg).loads) \in Nat
  BY <1>1, <1>2 DEF Lockstep, ReaderPlace, Known, LegOK, Gathering, Dealt, Operands
<1>4. TypeOK'
  <2>1. DOMAIN memory' = Places
    BY DEF RSplit, TypeOK
  <2>2. rtile' \in Nat \ {0} /\ rpc' \in {"load", "pages"}
    BY <1>2, <1>3
  <2>3. QED
    BY <1>2, <2>1, <2>2 DEF TypeOK, LegCount
<1>5. Buffers' /\ Reserved'
  BY <1>2 DEF Buffers, Reserved
<1>6. ReaderPlace'
  <2>1. rpc' = "load" => rtile' <= Len(Leg(rleg).loads)
    BY <1>2, <1>3
  <2>2. QED
    BY <1>2, <1>3, <2>1 DEF ReaderPlace, Gathering, Dealt, Operands, Leg, LegCount,
                            IsRoute, IsFirst, Tiles
<1>7. ComputePlace' /\ WriterPlace'
  BY <1>2 DEF ComputePlace, WriterPlace, Batch, Leg, LegCount, IsRoute, IsFirst, Tiles
<1>8. Lockstep'
  BY <1>2, <1>3 DEF Lockstep, NextRoute, Gathering, Operands, Leg, LegCount, IsRoute,
                    IsFirst, Tiles
<1>9. Conservation'
  <2>1. Pushed' = Pushed
    BY <1>2, <1>3 DEF Pushed, Gathering, Operands, Tiles, Leg
  <2>2. QED
    BY <1>2, <2>1, Counts, Kept
<1>10. ScratchOwned'
  BY <1>2, <1>3 DEF ScratchOwned, ReaderExecutes, ReaderSkips, WriterExecutes, Operands
<1>11. PagesKept'
  BY <1>2 DEF PagesKept
<1>12. QED
  BY <1>4, <1>5, <1>6, <1>7, <1>8, <1>9, <1>10, <1>11

LEMMA RPagesStep ==
  ASSUME IInv, RPages
  PROVE  IInv'
<1> USE DEF IInv
<1>1. Known
  BY Here
<1>2. /\ legs' = legs /\ rpc = "pages" /\ rpc' = "source0"
      /\ UNCHANGED <<rleg, rtile, staging, input, cvars, ring, wvars, issued, sync,
                     memory, delivered>>
      /\ scratch' = [scratch EXCEPT !["executed"] = RoutePages(rleg),
                                    !["trailing"] = RoutePages(rleg)]
  BY DEF RPages
<1>3. /\ wleg = rleg /\ wpc = "first" /\ IsRoute(rleg) /\ pending = {} /\ rtile = 1
      /\ rleg <= LegCount /\ Tiles(rleg) \in Nat \ {0}
  BY <1>1, <1>2 DEF Lockstep, ReaderPlace, Known, LegOK, Gathering, Dealt, Operands
<1>4. TypeOK'
  BY <1>2 DEF TypeOK, LegCount, Operands, Parts
<1>5. Buffers' /\ Reserved'
  BY <1>2 DEF Buffers, Reserved
<1>6. ReaderPlace'
  BY <1>2, <1>3 DEF ReaderPlace, Gathering, Dealt, Operands, Leg, LegCount, IsRoute,
                    IsFirst, Tiles
<1>7. ComputePlace' /\ WriterPlace'
  BY <1>2 DEF ComputePlace, WriterPlace, Batch, Leg, LegCount, IsRoute, IsFirst, Tiles
<1>8. Lockstep'
  BY <1>2, <1>3 DEF Lockstep, NextRoute, Gathering, Operands, Leg, LegCount, IsRoute,
                    IsFirst, Tiles
<1>9. Conservation'
  <2>1. Pushed' = Pushed
    BY <1>2, <1>3 DEF Pushed, Gathering, Dealt, Operands, Tiles, Leg
  <2>2. QED
    BY <1>2, <2>1, Counts, Kept
<1>10. ScratchOwned'
  <2>1. scratch'["executed"] = RoutePages(rleg) /\ scratch'["trailing"] = RoutePages(rleg)
    BY <1>2 DEF TypeOK, Parts
  <2>2. QED
    BY <1>2, <1>3, <2>1 DEF ScratchOwned, ReaderExecutes, ReaderSkips, WriterExecutes,
                            Operands, RoutePages, Contents, Leg
<1>11. PagesKept'
  BY <1>2 DEF PagesKept
<1>12. QED
  BY <1>4, <1>5, <1>6, <1>7, <1>8, <1>9, <1>10, <1>11

LEMMA RStageStep ==
  ASSUME IInv, NEW o \in Operands, RStage(o)
  PROVE  IInv'
<1> USE DEF IInv
<1>1. Known
  BY Here
<1>2. /\ legs' = legs /\ rpc = o /\ Len(input[o]) < Buffering
      /\ UNCHANGED <<rleg, rtile, arrived, cvars, ring, wvars, issued, sync, memory,
                     scratch, delivered>>
      /\ rpc' = IF After[o] \in Needs(rleg) THEN After[o] ELSE "barrier"
      /\ \/ pending' = pending /\ \E v : input' = [input EXCEPT ![o] = Append(@, v)]
         \/ pending' = pending \union {o} /\ input' = input
  BY DEF RStage
<1>3. /\ wleg = rleg /\ IsRoute(rleg) /\ rleg <= LegCount /\ rtile <= Tiles(rleg)
      /\ Leg(rleg).kind \in {"lift", "scale"} /\ Tiles(rleg) \in Nat \ {0}
      /\ rpc \in {"source1", "base"} => Leg(rleg).kind = "lift"
      /\ pending \subseteq Dealt
  BY <1>1, <1>2 DEF Lockstep, ReaderPlace, Known, LegOK, Gathering, Operands
<1>4. /\ o \in Needs(rleg) /\ o \notin Dealt /\ Dealt' = Dealt \union {o}
      /\ rpc' \in {"source1", "base", "barrier"}
      /\ rpc' \in {"source1", "base"} => Leg(rleg).kind = "lift"
  <2>1. CASE Leg(rleg).kind = "lift"
    BY <1>2, <2>1 DEF After, Needs, Dealt, Operands, Leg
  <2>2. CASE Leg(rleg).kind = "scale"
    <3>1. o = "source0" /\ rpc' = "barrier"
      BY <1>2, <1>3, <2>2 DEF After, Needs, Operands
    <3>2. QED
      BY <1>2, <2>2, <3>1 DEF Needs, Dealt, Leg
  <2>3. QED
    BY <1>3, <2>1, <2>2
<1>5. /\ DOMAIN input' = Operands
      /\ \A x \in Operands \ {o} : input'[x] = input[x]
      /\ IsSeq(input'[o]) /\ Len(input'[o]) \in 0 .. Buffering
      /\ Len(input'[o]) = Len(input[o]) + (IF pending' = pending THEN 1 ELSE 0)
      /\ pending' = pending \/ (pending' = pending \union {o} /\ o \notin pending)
      /\ pending' # pending => input' = input
  <2>1. CASE pending' = pending
    <3>1. pending' # pending \union {o}
      BY <1>3, <1>4, <2>1
    <3>2. PICK v : input' = [input EXCEPT ![o] = Append(@, v)]
      BY <1>2, <3>1
    <3>3. input'[o] = Append(input[o], v) /\ DOMAIN input' = Operands
      BY <3>2 DEF TypeOK
    <3>4. IsSeq(input'[o]) /\ Len(input'[o]) = Len(input[o]) + 1
      BY <3>3, AppendIsSeq DEF Buffers
    <3>5. Len(input'[o]) \in 0 .. Buffering
      BY <1>1, <1>2, <3>4 DEF Known
    <3>6. \A x \in Operands \ {o} : input'[x] = input[x]
      BY <3>2 DEF TypeOK
    <3>7. QED
      BY <2>1, <3>3, <3>4, <3>5, <3>6
  <2>2. CASE pending' # pending
    BY <1>1, <1>2, <1>3, <1>4, <2>2 DEF TypeOK, Buffers, Known
  <2>3. QED
    BY <2>1, <2>2
<1>6. TypeOK'
  <2>1. \A x \in Operands : Len(input'[x]) \in 0 .. Buffering
    BY <1>5 DEF TypeOK
  <2>2. pending' \subseteq Operands /\ DOMAIN arrived' \subseteq pending'
    BY <1>2, <1>5 DEF TypeOK
  <2>3. DOMAIN input' = Operands /\ \A x \in Operands : Len(input'[x]) \in 0 .. Buffering
    BY <1>5, <2>1
  <2>4. /\ legs' \in Programs /\ {rleg', wleg'} \subseteq 1 .. LegCount' + 1
        /\ cleg' \in 1 .. LegCount' + 2 /\ {rtile', ctile', wtile'} \subseteq Nat \ {0}
    BY <1>2 DEF TypeOK, LegCount
  <2>5. rpc' \in {"barrier"} \union Operands
    BY <1>4 DEF Operands
  <2>6. QED
    BY <1>2, <2>2, <2>3, <2>4, <2>5 DEF TypeOK
<1>7. Buffers'
  BY <1>2, <1>5 DEF Buffers
<1>8. ReaderPlace'
  <2>1. pending' \subseteq Dealt'
    BY <1>3, <1>4, <1>5
  <2>2. QED
    BY <1>2, <1>3, <1>4, <2>1 DEF ReaderPlace, Operands, Leg, LegCount, IsRoute,
                                  IsFirst, Tiles
<1>9. ComputePlace' /\ WriterPlace'
  BY <1>2 DEF ComputePlace, WriterPlace, Batch, Leg, LegCount, IsRoute, IsFirst, Tiles
<1>10. Lockstep'
  <2>1. Gathering /\ Gathering'
    BY <1>2, <1>4 DEF Gathering, Operands
  <2>2. rpc # "sync" /\ rpc' # "sync"
    BY <1>2, <1>4 DEF Operands
  <2>3. QED
    BY <1>2, <1>3, <2>1, <2>2 DEF Lockstep, NextRoute, Leg, LegCount, IsRoute, IsFirst,
                                  Tiles
<1>11. Conservation'
  <2>1. /\ Flowing' = Flowing /\ Wanted' = Wanted /\ Packed' = Packed /\ Popped' = Popped
        /\ Held' = Held /\ count' = count /\ regs' = regs
    BY <1>2, Counts
  <2>2. Gathering /\ Gathering'
    BY <1>2, <1>4 DEF Gathering, Operands
  <2>3. \A x \in Operands : Pushed'[x] - Pushed[x] =
          IF x = o /\ pending' = pending THEN 1 ELSE 0
    BY <1>1, <1>2, <1>3, <1>4, <1>5, <2>2 DEF Pushed, Known
  <2>4. o \in Wanted
    BY <1>3, <1>4 DEF Wanted, Flowing
  <2>5. \A x \in Wanted : Pushed[x] \in Nat /\ Packed \in Nat
    BY Flow DEF Wanted
  <2>6. ASSUME NEW x \in Operands
        PROVE  Len(input'[x]) =
                 IF x \in Wanted THEN Pushed'[x] - Packed - Held[x] ELSE 0
    <3>1. Len(input[x]) = IF x \in Wanted THEN Pushed[x] - Packed - Held[x] ELSE 0
      BY DEF Conservation
    <3>2. Held[x] \in {0, 1}
      BY DEF Held
    <3>3. Pushed[x] \in Int /\ Pushed'[x] \in Int
      BY <1>1, <1>2, <1>3, <2>2 DEF Pushed, Known
    <3>4. CASE x = o
      <4>1. Len(input'[o]) - Len(input[o]) = Pushed'[o] - Pushed[o]
        BY <1>1, <1>5, <2>3 DEF Known
      <4>2. Len(input[o]) = Pushed[o] - Packed - Held[o] /\ Packed \in Nat
        BY <2>4, <2>5, <3>1, <3>4
      <4>3. Len(input[o]) \in Int /\ Len(input'[o]) \in Int
        BY <1>1, <1>5 DEF Known
      <4>4. Held[o] \in Int /\ Pushed[o] \in Int /\ Pushed'[o] \in Int
        BY <3>2, <3>3, <3>4
      <4>5. Len(input'[o]) = Pushed'[o] - Packed - Held[o]
        <5> DEFINE l == Len(input[o])
                   m == Len(input'[o])
        <5>1. m - l = Pushed'[o] - Pushed[o] /\ l = Pushed[o] - Packed - Held[o]
          BY <4>1, <4>2
        <5>2. l \in Int /\ m \in Int /\ Packed \in Int
          BY <4>2, <4>3
        <5> HIDE DEF l, m
        <5>3. m = Pushed'[o] - Packed - Held[o]
          BY <4>4, <5>1, <5>2
        <5>4. QED
          BY <5>3 DEF m
      <4>6. QED
        BY <2>4, <3>4, <4>5
    <3>5. CASE x # o
      BY <1>5, <2>3, <2>5, <3>1, <3>2, <3>3, <3>5
    <3>6. QED
      BY <3>4, <3>5
  <2>7. QED
    BY <2>1, <2>6 DEF Conservation
<1>12. Reserved'
  BY <1>2, <1>3, <1>4, <1>5 DEF Reserved, TypeOK
<1>13. /\ scratch["executed"] = RoutePages(rleg) /\ scratch["trailing"] = RoutePages(rleg)
       /\ RoutePages(rleg)' = RoutePages(rleg) /\ RoutePages(wleg)' = RoutePages(wleg)
  <2>1. ReaderExecutes
    BY <1>2 DEF ReaderExecutes
  <2>2. QED
    BY <1>2, <2>1 DEF ScratchOwned, RoutePages, Contents, Leg
<1>14. ScratchOwned'
  <2>1. ~ReaderSkips'
    BY <1>4 DEF ReaderSkips
  <2>2. rpc' # "split"
    BY <1>4
  <2>3. WriterExecutes' = WriterExecutes
    BY <1>2 DEF WriterExecutes, IsRoute, Leg
  <2>4. QED
    BY <1>2, <1>13, <2>1, <2>2, <2>3 DEF ScratchOwned
<1>15. PagesKept'
  BY <1>2, <1>13 DEF PagesKept
<1>16. QED
  BY <1>6, <1>7, <1>8, <1>9, <1>10, <1>11, <1>12, <1>14, <1>15


LEMMA RPushStep ==
  ASSUME IInv, RPush
  PROVE  IInv'
<1> USE DEF IInv
<1>1. Known
  BY Here
<1>2. /\ legs' = legs /\ rpc = "barrier" /\ pending' = {} /\ arrived' = <<>>
      /\ UNCHANGED <<cvars, ring, wvars, issued, sync, memory, scratch, delivered>>
      /\ \/ rpc' = "source0" /\ rleg' = rleg /\ rtile' = rtile + 1 /\ rtile < Tiles(rleg)
         \/ rpc' = "sync" /\ rleg' = rleg + 1 /\ rtile' = 1 /\ ~(rtile < Tiles(rleg))
      /\ DOMAIN input' = Operands
      /\ \A x \in Operands : IF x \in pending THEN \E v : input'[x] = Append(input[x], v)
                                              ELSE input'[x] = input[x]
  BY DEF RPush
<1>3. /\ IsRoute(rleg) /\ rleg < LegCount /\ rtile <= Tiles(rleg)
      /\ Leg(rleg).kind \in {"lift", "scale"} /\ Tiles(rleg) \in Nat \ {0}
      /\ pending \subseteq Needs(rleg) /\ LegOK(rleg + 1)
      /\ sync = wleg - rleg
      /\ wleg # rleg => rtile = Tiles(rleg) /\ pending = {} /\ wleg = rleg + 1
  <2>1. IsRoute(rleg) /\ rleg <= LegCount /\ rtile <= Tiles(rleg) /\ pending \subseteq Dealt
    BY <1>2 DEF ReaderPlace, Gathering
  <2>2. Dealt = Needs(rleg)
    BY <1>2 DEF Dealt
  <2>3. LegOK(rleg) /\ rleg < LegCount
    BY <1>1, <2>1 DEF Known, LegOK
  <2>4. Leg(rleg).kind \in {"lift", "scale"} /\ Tiles(rleg) \in Nat \ {0}
    BY <2>1, <2>3 DEF LegOK
  <2>5. sync = wleg - rleg
    BY <1>1, <1>2 DEF Lockstep, Known
  <2>6. wleg # rleg => rtile = Tiles(rleg) /\ pending = {}
    BY <1>2 DEF Lockstep
  <2>7. wleg # rleg => wleg = rleg + 1
    BY <1>1, <2>5 DEF Known
  <2>8. QED
    BY <1>1, <2>1, <2>2, <2>3, <2>4, <2>5, <2>6, <2>7 DEF Known
<1>4. ASSUME NEW x \in Operands
      PROVE  /\ IsSeq(input'[x]) /\ Len(input'[x]) \in 0 .. Buffering
             /\ Len(input'[x]) = Len(input[x]) + (IF x \in pending THEN 1 ELSE 0)
  <2>1. CASE x \in pending
    <3>1. PICK v : input'[x] = Append(input[x], v)
      BY <1>2, <2>1
    <3>2. IsSeq(input'[x]) /\ Len(input'[x]) = Len(input[x]) + 1
      BY <3>1, AppendIsSeq DEF Buffers
    <3>3. Len(input[x]) < Buffering
      BY <2>1 DEF Reserved
    <3>4. QED
      BY <1>1, <2>1, <3>2, <3>3 DEF Known
  <2>2. CASE x \notin pending
    BY <1>1, <1>2, <2>2 DEF TypeOK, Buffers, Known
  <2>3. QED
    BY <2>1, <2>2
<1>5. TypeOK'
  <2>1. /\ legs' \in Programs /\ rleg' \in 1 .. LegCount' + 1 /\ wleg' \in 1 .. LegCount' + 1
        /\ cleg' \in 1 .. LegCount' + 2
    BY <1>1, <1>2, <1>3 DEF TypeOK, LegCount, Known
  <2>2. rtile' \in Nat \ {0} /\ ctile' \in Nat \ {0} /\ wtile' \in Nat \ {0}
    BY <1>1, <1>2 DEF Known
  <2>3. rpc' \in {"sync"} \union Operands
    BY <1>2 DEF Operands
  <2>4. QED
    BY <1>2, <1>4, <2>1, <2>2, <2>3 DEF TypeOK
<1>6. Buffers' /\ Reserved'
  BY <1>2, <1>4 DEF Buffers, Reserved
<1>7. ReaderPlace'
  <2>1. rpc' = "source0" => rtile' <= Tiles(rleg) /\ rleg' = rleg
    BY <1>1, <1>2, <1>3 DEF Known
  <2>2. rpc' = "sync" => rtile' = 1 /\ rleg' > 1
    BY <1>1, <1>2 DEF Known
  <2>3. QED
    BY <1>1, <1>2, <1>3, <2>1, <2>2
       DEF ReaderPlace, Gathering, Operands, Known, Leg, LegCount, IsRoute, IsFirst,
           Tiles
<1>8. ComputePlace' /\ WriterPlace'
  BY <1>2 DEF ComputePlace, WriterPlace, Batch, Leg, LegCount, IsRoute, IsFirst, Tiles
<1>9. Lockstep'
  <2>1. CASE rpc' = "source0"
    <3>1. wleg = rleg /\ rleg' = rleg /\ Gathering'
      BY <1>2, <1>3, <2>1 DEF Gathering, Operands
    <3>2. QED
      BY <1>1, <1>2, <1>3, <2>1, <3>1
         DEF Lockstep, NextRoute, Known, Leg, LegCount, IsRoute, IsFirst, Tiles
  <2>2. CASE rpc' = "sync"
    <3>1. rleg' <= wleg => ~IsFirst(wleg)
      <4>1. rleg' <= wleg => wleg = rleg + 1
        BY <1>1, <1>2, <1>3, <2>2 DEF Known
      <4>2. ~IsFirst(rleg + 1)
        BY <1>1, <1>3 DEF LegOK, Known
      <4>3. QED
        BY <4>1, <4>2
    <3>2. sync' = wleg' - rleg' + 1
      BY <1>1, <1>2, <1>3, <2>2 DEF Known
    <3>3. QED
      BY <1>2, <2>2, <3>1, <3>2
         DEF Lockstep, NextRoute, Operands, Leg, LegCount, IsRoute, IsFirst, Tiles
  <2>3. QED
    BY <1>2, <2>1, <2>2
<1>10. Conservation'
  <2>1. /\ Flowing' = Flowing /\ Wanted' = Wanted /\ Packed' = Packed /\ Popped' = Popped
        /\ Held' = Held
    BY <1>2, Counts
  <2>2. wleg = rleg => Wanted = Needs(rleg)
    BY <1>1, <1>3 DEF Wanted, Flowing, Known
  <2>3. ASSUME NEW x \in Operands
        PROVE  Len(input'[x]) = IF x \in Wanted THEN Pushed'[x] - Packed - Held[x] ELSE 0
    <3>1. Len(input[x]) = IF x \in Wanted THEN Pushed[x] - Packed - Held[x] ELSE 0
      BY DEF Conservation
    <3>2. CASE wleg = rleg /\ x \in Wanted
      <4>1. Pushed[x] = rtile - (IF x \in pending THEN 1 ELSE 0)
        BY <1>1, <1>2, <2>2, <3>2 DEF Pushed, Gathering, Dealt, Known
      <4>2. Pushed'[x] = rtile
        <5>1. CASE rpc' = "source0"
          BY <1>1, <1>2, <3>2, <5>1 DEF Pushed, Gathering, Dealt, Operands, Known
        <5>2. CASE rpc' = "sync"
          <6>1. Pushed'[x] = Tiles(wleg)'
            BY <1>1, <1>2, <3>2, <5>2 DEF Pushed, Known
          <6>2. rtile = Tiles(rleg)
            BY <1>1, <1>2, <1>3, <5>2 DEF Known
          <6>3. QED
            BY <1>2, <3>2, <6>1, <6>2 DEF Tiles, Leg
        <5>3. QED
          BY <1>2, <5>1, <5>2
      <4>3. Packed \in Int /\ Held[x] \in Int
        BY <3>2, Flow DEF Wanted, Held
      <4> DEFINE l == Len(input[x])
                 m == Len(input'[x])
      <4>4. /\ l = Pushed[x] - Packed - Held[x] /\ m = l + (IF x \in pending THEN 1 ELSE 0)
            /\ l \in Int /\ m \in Int
        <5>1. l = Pushed[x] - Packed - Held[x]
          BY <3>1, <3>2
        <5>2. m = l + (IF x \in pending THEN 1 ELSE 0)
          BY <1>4
        <5>3. l \in Int /\ m \in Int
          BY <1>1, <1>4 DEF Known
        <5>4. QED
          BY <5>1, <5>2, <5>3
      <4> HIDE DEF l, m
      <4>5. m = Pushed'[x] - Packed - Held[x]
        BY <1>1, <4>1, <4>2, <4>3, <4>4 DEF Known
      <4>6. QED
        BY <3>2, <4>5 DEF m
    <3>3. CASE wleg = rleg /\ x \notin Wanted
      BY <1>2, <1>3, <2>2, <3>1, <3>3
    <3>4. CASE wleg # rleg
      <4>1. Pushed[x] = 0 /\ Pushed'[x] = 0
        <5>1. rpc' = "sync" /\ rleg' = wleg /\ rleg < wleg
          BY <1>1, <1>2, <1>3, <3>4 DEF Known
        <5>2. ~Gathering'
          BY <5>1 DEF Gathering, Operands
        <5>3. QED
          BY <1>1, <1>2, <5>1, <5>2 DEF Pushed, Known
      <4>2. input'[x] = input[x]
        BY <1>2, <1>3, <3>4
      <4>3. QED
        BY <3>1, <4>1, <4>2
    <3>5. QED
      BY <3>2, <3>3, <3>4
  <2>4. QED
    BY <1>2, <2>1, <2>3 DEF Conservation
<1>11. ScratchOwned'
  <2>1. WriterExecutes' = WriterExecutes /\ RoutePages(wleg)' = RoutePages(wleg)
    BY <1>2 DEF WriterExecutes, RoutePages, IsRoute, Leg
  <2>2. ReaderExecutes' =>
          /\ scratch["executed"] = RoutePages(rleg) /\ scratch["trailing"] = RoutePages(rleg)
          /\ RoutePages(rleg)' = RoutePages(rleg)
    <3>1. CASE rpc' = "source0"
      BY <1>2, <3>1 DEF PagesKept, RoutePages, Leg, Contents
    <3>2. CASE rpc' = "sync"
      <4>1. ReaderExecutes' => IsRoute(rleg + 1) /\ ~IsFirst(rleg + 1)
        BY <1>2, <3>2 DEF ReaderExecutes, IsRoute, IsFirst, Leg, Operands
      <4>2. ~IsFirst(rleg + 1) => Leg(rleg + 1).item = Leg(rleg).item
        BY <1>1, <1>3 DEF LegOK, Known
      <4>3. QED
        BY <1>2, <3>2, <4>1, <4>2 DEF PagesKept, RoutePages, Leg, Contents
    <3>3. QED
      BY <1>2, <3>1, <3>2
  <2>3. ReaderSkips' => scratch["trailing"] = RoutePages(rleg)
                        /\ RoutePages(rleg - 1)' = RoutePages(rleg)
    <3>1. ReaderSkips' => rleg' - 1 = rleg /\ Leg(rleg).skips
      BY <1>1, <1>2 DEF ReaderSkips, Leg, Known
    <3>2. QED
      BY <1>2, <3>1 DEF PagesKept, RoutePages, Leg
  <2>4. rpc' # "split"
    BY <1>2
  <2>5. QED
    BY <1>2, <2>1, <2>2, <2>3, <2>4 DEF ScratchOwned
<1>12. PagesKept'
  BY <1>2 DEF PagesKept
<1>13. QED
  BY <1>5, <1>6, <1>7, <1>8, <1>9, <1>10, <1>11, <1>12

(***************************************************************************)
(* Going on to the next leg, from the last sync page or the last pages.    *)
(***************************************************************************)
LEMMA ContinueCases ==
  ASSUME IInv, rpc \in {"sync", "skip"}, Continue
  PROVE  /\ rtile = 1 /\ rleg > 1 /\ pending = {} /\ rleg - 1 \in Nat \ {0}
         /\ \/ rleg = LegCount + 1 /\ rpc' = "done" /\ rleg' = rleg
            \/ /\ rleg <= LegCount /\ IsRoute(rleg) /\ rpc = "sync" /\ rleg' = rleg
               /\ rpc' = IF IsFirst(rleg) THEN "load" ELSE "source0"
            \/ /\ rleg <= LegCount /\ ~IsRoute(rleg) /\ rpc = "sync"
               /\ rpc' = "skip" /\ rleg' = rleg /\ Leg(rleg - 1).skips
            \/ /\ rleg <= LegCount /\ ~IsRoute(rleg) /\ rpc' = "sync" /\ rleg' = rleg + 1
               /\ ~Leg(rleg).skips /\ (rleg < LegCount => IsFirst(rleg + 1))
<1>1. Known
  BY Here
<1>2. /\ rtile = 1 /\ pending \subseteq Dealt /\ rleg > 1
      /\ rpc = "skip" => rleg <= LegCount /\ ~IsRoute(rleg)
  BY DEF IInv, ReaderPlace
<1>3. pending = {} /\ rleg - 1 \in Nat \ {0}
  BY <1>1, <1>2 DEF Dealt, Known
<1>4. rleg <= LegCount /\ ~IsRoute(rleg) =>
        ~Leg(rleg).skips /\ (rleg < LegCount => IsFirst(rleg + 1))
  <2>1. rleg <= LegCount /\ ~IsRoute(rleg) => ~Leg(rleg).skips
    BY <1>1 DEF Known, LegOK
  <2>2. rleg < LegCount /\ ~IsRoute(rleg) => IsFirst(rleg + 1)
    <3>1. rleg < LegCount => (IsFirst(rleg + 1) <=> rleg + 1 = 1 \/ ~IsRoute((rleg + 1) - 1))
      BY <1>1 DEF Known, LegOK
    <3>2. (rleg + 1) - 1 = rleg
      BY <1>1 DEF Known
    <3>3. QED
      BY <3>1, <3>2
  <2>3. QED
    BY <2>1, <2>2
<1>5. CASE rleg > LegCount
  BY <1>1, <1>2, <1>3, <1>5 DEF Continue, Known
<1>6. CASE ~(rleg > LegCount)
  <2>1. rleg <= LegCount
    BY <1>1, <1>6 DEF Known
  <2>2. QED
    BY <1>2, <1>3, <1>4, <1>6, <2>1 DEF Continue
<1>7. QED
  BY <1>5, <1>6

(***************************************************************************)
(* Wherever it goes on to, it has its pages and nothing pushed.            *)
(***************************************************************************)
LEMMA ContinueKeeps ==
  ASSUME IInv, rpc \in {"sync", "skip"}, Continue,
         UNCHANGED <<legs, rtile, staging, input, cvars, ring, wvars, issued, memory,
                     scratch, delivered>>,
         rpc = "sync" => wleg = rleg,
         sync' \in {0, 1}, sync' = wleg - rleg' + (IF rpc' = "sync" THEN 1 ELSE 0)
  PROVE  IInv'
<1> USE DEF IInv
<1>1. Known
  BY Here
<1>2. /\ rtile = 1 /\ rleg > 1 /\ pending = {} /\ rleg - 1 \in Nat \ {0}
      /\ \/ rleg = LegCount + 1 /\ rpc' = "done" /\ rleg' = rleg
         \/ /\ rleg <= LegCount /\ IsRoute(rleg) /\ rpc = "sync" /\ rleg' = rleg
            /\ rpc' = IF IsFirst(rleg) THEN "load" ELSE "source0"
         \/ /\ rleg <= LegCount /\ ~IsRoute(rleg) /\ rpc = "sync"
            /\ rpc' = "skip" /\ rleg' = rleg /\ Leg(rleg - 1).skips
         \/ /\ rleg <= LegCount /\ ~IsRoute(rleg) /\ rpc' = "sync" /\ rleg' = rleg + 1
            /\ ~Leg(rleg).skips /\ (rleg < LegCount => IsFirst(rleg + 1))
  BY ContinueCases
<1>3. rleg' \in 1 .. LegCount + 1 /\ rpc' \in {"load", "source0", "skip", "sync", "done"}
  BY <1>1, <1>2 DEF Known
<1>4. ~Gathering
  BY DEF Gathering, Operands
<1>5. TypeOK'
  BY <1>3 DEF TypeOK, LegCount, Operands
<1>6. Buffers' /\ Reserved'
  BY DEF Buffers, Reserved
<1>7. ReaderPlace'
  <2>1. rleg <= LegCount /\ IsRoute(rleg) => 1 <= Tiles(rleg)
    BY <1>1 DEF Known, LegOK
  <2>2. rleg <= LegCount /\ IsFirst(rleg) => 1 <= Len(Leg(rleg).loads)
    BY <1>1 DEF Known, LegOK
  <2>3. rleg' > 1
    BY <1>1, <1>2 DEF Known
  <2>4. rleg' = LegCount + 1 \/ rpc' # "done"
    BY <1>2
  <2>5. rpc' = "load" => rleg' = rleg /\ rleg <= LegCount /\ IsRoute(rleg) /\ IsFirst(rleg)
    BY <1>2
  <2>6. rpc' = "source0" => rleg' = rleg /\ rleg <= LegCount /\ IsRoute(rleg)
    BY <1>2
  <2>7. rpc' = "skip" => /\ rleg' = rleg /\ rleg <= LegCount /\ ~IsRoute(rleg)
                         /\ Leg(rleg - 1).skips
    BY <1>2
  <2>8. QED
    BY <1>2, <1>3, <2>1, <2>2, <2>3, <2>4, <2>5, <2>6, <2>7
       DEF ReaderPlace, Gathering, Operands, Leg, LegCount, IsRoute, IsFirst, Tiles
<1>8. ComputePlace' /\ WriterPlace'
  BY DEF ComputePlace, WriterPlace, Batch, Leg, LegCount, IsRoute, IsFirst, Tiles
<1>9. Lockstep'
  <2>1. rpc' \in {"load", "source0"} => wleg = rleg'
    BY <1>2
  <2>2. rleg' <= wleg => rleg <= wleg
    BY <1>1, <1>2 DEF Known
  <2>3. /\ cleg = IF wleg > LegCount THEN wleg
                  ELSE IF ~IsRoute(wleg) THEN wleg + 1
                  ELSE IF cleg = wleg THEN wleg ELSE NextRoute(wleg)
        /\ cleg # wleg => ctile = 1 /\ Len(regs) = 0
        /\ wleg <= LegCount /\ IsFirst(wleg) /\ rleg <= wleg => wpc = "first"
    BY <1>4 DEF Lockstep
  <2>4. QED
    BY <1>2, <1>3, <2>1, <2>2, <2>3
       DEF Lockstep, NextRoute, Operands, Leg, LegCount, IsRoute, IsFirst, Tiles
<1>10. Conservation'
  <2>1. ASSUME NEW x \in Wanted PROVE Pushed'[x] = Pushed[x]
    <3>1. x \in Operands /\ Flowing
      BY <2>1 DEF Wanted, Needs, Operands
    <3>2. rleg > wleg <=> rleg' > wleg
      BY <1>1, <1>2, <3>1 DEF Known, Flowing, Lockstep
    <3>3. Gathering' => rtile' - (IF x \in Dealt' /\ x \notin pending' THEN 0 ELSE 1) = 0
      <4>1. Gathering' => rpc' = "source0"
        BY <1>3 DEF Gathering, Operands
      <4>2. rpc' = "source0" => Dealt' = {}
        BY DEF Dealt
      <4>3. QED
        BY <1>2, <4>1, <4>2
    <3>4. Pushed[x] = IF rleg > wleg THEN Tiles(wleg) ELSE 0
      BY <1>4, <3>1 DEF Pushed
    <3>5. Pushed'[x] = IF rleg' > wleg THEN Tiles(wleg)' ELSE 0
      BY <3>1, <3>3 DEF Pushed
    <3>6. QED
      BY <3>2, <3>4, <3>5 DEF Tiles, Leg
  <2>2. QED
    BY <2>1, Counts, Kept
<1>11. ScratchOwned'
  <2>1. WriterExecutes' = WriterExecutes /\ RoutePages(wleg)' = RoutePages(wleg)
    BY DEF WriterExecutes, RoutePages, IsRoute, Leg
  <2>2. ReaderExecutes' => ReaderExecutes /\ rleg' = rleg
    <3>1. rpc' = "sync" => ~ReaderExecutes'
      <4>1. rpc' = "sync" => rleg' = rleg + 1 /\ (rleg < LegCount => IsFirst(rleg + 1))
        BY <1>2
      <4>2. rleg + 1 <= LegCount => rleg < LegCount
        BY <1>1 DEF Known
      <4>3. QED
        BY <1>2, <4>1, <4>2 DEF ReaderExecutes, LegCount, IsFirst, IsRoute, Leg, Operands
    <3>2. rpc' = "source0" => ReaderExecutes /\ rleg' = rleg
      BY <1>2 DEF ReaderExecutes
    <3>3. rpc' \notin {"source0", "sync"} => ~ReaderExecutes'
      BY <1>2, <1>3 DEF ReaderExecutes, Operands
    <3>4. QED
      BY <3>1, <3>2, <3>3
  <2>3. ReaderSkips' => ReaderSkips /\ rleg' = rleg
    <3>1. rpc' = "sync" => ~ReaderSkips'
      BY <1>1, <1>2 DEF ReaderSkips, Leg, Known
    <3>2. rpc' = "skip" => ReaderSkips /\ rleg' = rleg
      BY <1>2 DEF ReaderSkips
    <3>3. QED
      BY <3>1, <3>2 DEF ReaderSkips
  <2>4. RoutePages(rleg)' = Contents("pages", Leg(rleg').item)
        /\ RoutePages(rleg - 1)' = Contents("pages", Leg(rleg' - 1).item)
    BY DEF RoutePages, Contents, Leg
  <2>5. QED
    BY <1>3, <2>1, <2>2, <2>3, <2>4 DEF ScratchOwned, RoutePages
<1>12. PagesKept'
  BY <1>3 DEF PagesKept
<1>13. QED
  BY <1>5, <1>6, <1>7, <1>8, <1>9, <1>10, <1>11, <1>12

LEMMA RSyncStep ==
  ASSUME IInv, RSync
  PROVE  IInv'
<1>1. Known
  BY Here
<1>2. /\ rpc = "sync" /\ sync = 1 /\ sync' = 0 /\ Continue
      /\ UNCHANGED <<legs, rtile, staging, input, cvars, ring, wvars, issued, memory,
                     scratch, delivered>>
  BY DEF RSync
<1>3. wleg = rleg
  BY <1>1, <1>2 DEF IInv, Lockstep, Known
<1>4. sync' = wleg - rleg' + (IF rpc' = "sync" THEN 1 ELSE 0)
  BY <1>1, <1>2, <1>3, ContinueCases DEF Known
<1>5. QED
  BY <1>2, <1>3, <1>4, ContinueKeeps

LEMMA RSkipStep ==
  ASSUME IInv, RSkip
  PROVE  IInv'
<1>1. Known
  BY Here
<1>2. /\ rpc = "skip" /\ sync' = sync /\ Continue
      /\ UNCHANGED <<legs, rtile, staging, input, cvars, ring, wvars, issued, memory,
                     scratch, delivered>>
  BY DEF RSkip
<1>3. sync = wleg - rleg /\ sync \in {0, 1} /\ rleg <= LegCount
  BY <1>1, <1>2 DEF IInv, Lockstep, ReaderPlace, Known
<1>4. sync' = wleg - rleg' + (IF rpc' = "sync" THEN 1 ELSE 0)
  BY <1>1, <1>2, <1>3, ContinueCases DEF Known
<1>5. QED
  BY <1>2, <1>3, <1>4, ContinueKeeps

(***************************************************************************)
(* An emitted tile: the compute kernel stays on the writer's leg or goes   *)
(* on to the next with something to compute.                               *)
(***************************************************************************)
LEMMA EmitCounts ==
  ASSUME IInv, Flowing, cleg = wleg, NEW v, Emit(v),
         UNCHANGED <<legs, rvars, staging, wvars>>
  PROVE  /\ count < Buffering /\ count' = count + 1 /\ head' = head
         /\ DOMAIN page' = DOMAIN page
         /\ Packed \in Nat /\ Popped \in Nat /\ Packed' = Packed + 1
         /\ cleg' \in Nat \ {0} /\ ctile' \in Nat \ {0}
         /\ cleg' \in {wleg, NextRoute(wleg)}
         /\ cleg' # wleg => ctile' = 1
         /\ cleg' <= LegCount + 1
         /\ cleg' <= LegCount => IsRoute(cleg') /\ ctile' <= Tiles(cleg')
<1> USE DEF IInv
<1>1. Known
  BY Here
<1>2. /\ count < Buffering /\ count' = count + 1 /\ head' = head
      /\ DOMAIN page' = DOMAIN page
      /\ \/ ctile < Tiles(cleg) /\ ctile' = ctile + 1 /\ cleg' = cleg
         \/ ~(ctile < Tiles(cleg)) /\ ctile' = 1 /\ cleg' = NextRoute(cleg)
  BY DEF Emit
<1>3. /\ Tiles(wleg) \in Nat \ {0} /\ Packed \in Nat /\ Popped \in Nat
      /\ wleg <= LegCount /\ IsRoute(wleg)
  BY Flow DEF Flowing
<1>4. ctile <= Tiles(wleg)
  BY <1>3 DEF ComputePlace
<1>5. wleg < LegCount
  BY <1>1, <1>3 DEF Known
<1>6. /\ NextRoute(wleg) \in Nat \ {0} /\ wleg < NextRoute(wleg)
      /\ NextRoute(wleg) <= LegCount + 1
      /\ NextRoute(wleg) <= LegCount => IsRoute(NextRoute(wleg)) /\ 1 <= Tiles(NextRoute(wleg))
  <2>1. NextRoute(wleg) = IF IsRoute(wleg + 1) THEN wleg + 1 ELSE wleg + 2
    BY <1>5 DEF NextRoute
  <2>2. wleg + 1 \in 1 .. LegCount /\ (wleg + 2 <= LegCount => wleg + 2 \in 1 .. LegCount)
    BY <1>1, <1>5 DEF Known
  <2>3. LegOK(wleg + 1) /\ (wleg + 2 <= LegCount => LegOK(wleg + 2))
    BY <2>2, LegsOK DEF TypeOK
  <2>4. wleg + 2 <= LegCount /\ ~IsRoute(wleg + 1) => IsRoute(wleg + 2)
    <3>1. wleg + 2 <= LegCount /\ ~IsRoute(wleg + 2) => IsRoute((wleg + 2) - 1)
      BY <2>3 DEF LegOK
    <3>2. (wleg + 2) - 1 = wleg + 1
      BY <1>1 DEF Known
    <3>3. QED
      BY <3>1, <3>2
  <2>5. \A n \in {wleg + 1, wleg + 2} : n <= LegCount /\ IsRoute(n) => 1 <= Tiles(n)
    BY <1>1, <2>2, <2>3 DEF LegOK, Known
  <2>6. QED
    BY <1>1, <1>5, <2>1, <2>2, <2>4, <2>5 DEF Known
<1>7. Packed' = Packed + 1
  <2>1. Packed = ctile - 1
    BY <1>1 DEF Packed, Known
  <2>2. CASE ctile < Tiles(cleg)
    BY <1>1, <1>2, <2>1, <2>2 DEF Packed, Known
  <2>3. CASE ~(ctile < Tiles(cleg))
    <3>1. Packed' = Tiles(wleg)'
      BY <1>2, <1>6, <2>3 DEF Packed
    <3>2. Tiles(wleg) = ctile
      BY <1>1, <1>3, <1>4, <2>3 DEF Known
    <3>3. QED
      BY <1>1, <2>1, <3>1, <3>2 DEF Tiles, Leg, Known
  <2>4. QED
    BY <2>2, <2>3
<1>8. /\ cleg' \in Nat \ {0} /\ ctile' \in Nat \ {0}
      /\ cleg' \in {wleg, NextRoute(wleg)} /\ (cleg' # wleg => ctile' = 1)
      /\ cleg' <= LegCount + 1
      /\ cleg' <= LegCount => IsRoute(cleg') /\ ctile' <= Tiles(cleg')
  BY <1>1, <1>2, <1>3, <1>4, <1>6 DEF Known
<1>9. QED
  BY <1>2, <1>3, <1>7, <1>8

(***************************************************************************)
(* What a step of the compute kernel has to see to besides the count.      *)
(***************************************************************************)
LEMMA ComputeKeeps ==
  ASSUME IInv, Flowing, cleg = wleg,
         UNCHANGED <<legs, rvars, staging, wvars, issued, sync, memory, scratch,
            delivered>>,
         Buffers', DOMAIN input' = Operands,
         \A o \in Operands : Len(input'[o]) \in Nat /\ Len(input'[o]) <= Len(input[o]),
         Len(regs') \in 0 .. 3, DOMAIN page' = DOMAIN page, head' = head,
         count' \in 0 .. Buffering, wpc = "flush" => count <= count',
         cleg' \in Nat \ {0}, ctile' \in Nat \ {0},
         cleg' \in {wleg, NextRoute(wleg)}, cleg' # wleg => ctile' = 1 /\ Len(regs') = 0,
         cleg' <= LegCount + 1,
         cleg' <= LegCount => IsRoute(cleg') /\ ctile' <= Tiles(cleg'),
         Conservation'
  PROVE  IInv'
<1> USE DEF IInv
<1>1. Known
  BY Here
<1>2. TypeOK'
  <2>1. \A o \in Operands : Len(input'[o]) \in 0 .. Buffering
    <3>1. ASSUME NEW o \in Operands PROVE Len(input'[o]) \in 0 .. Buffering
      <4>1. Len(input[o]) \in 0 .. Buffering
        BY DEF TypeOK
      <4>2. QED
        BY <1>1, <4>1 DEF Known
    <3>2. QED
      BY <3>1
  <2>2. cleg' \in 1 .. LegCount + 2
    <3>1. cleg' \in Nat \ {0} /\ cleg' <= LegCount + 1
      OBVIOUS
    <3>2. QED
      BY <1>1, <3>1 DEF Known
  <2>3. /\ legs' \in Programs /\ {rleg', wleg'} \subseteq 1 .. LegCount' + 1
        /\ cleg' \in 1 .. LegCount' + 2 /\ {rtile', ctile', wtile'} \subseteq Nat \ {0}
    BY <2>2 DEF TypeOK, LegCount
  <2>4. QED
    BY <2>1, <2>3 DEF TypeOK
<1>3. ReaderPlace' /\ PagesKept' /\ ScratchOwned'
  BY DEF ReaderPlace, Gathering, Dealt, PagesKept, ScratchOwned, ReaderExecutes,
         ReaderSkips, WriterExecutes, RoutePages, Needs, Leg, LegCount, IsRoute,
            IsFirst, Tiles
<1>4. ComputePlace'
  BY DEF ComputePlace, Leg, LegCount, IsRoute, IsFirst, Tiles
<1>5. WriterPlace'
  <2>1. Batch' = Batch /\ Batch \in Int
    BY DEF Batch, Tiles, Leg
  <2>2. wpc = "flush" => count' >= Batch'
    BY <1>1, <2>1 DEF WriterPlace, Known
  <2>3. QED
    BY <2>2 DEF WriterPlace, Leg, LegCount, IsRoute, IsFirst, Tiles
<1>6. Lockstep'
  <2>1. wleg <= LegCount /\ IsRoute(wleg)
    BY DEF Flowing
  <2>2. /\ ~(wleg > LegCount)
        /\ LegCount' = LegCount /\ IsRoute(wleg)' = IsRoute(wleg)
        /\ IsFirst(wleg)' = IsFirst(wleg) /\ Tiles(rleg)' = Tiles(rleg)
        /\ NextRoute(wleg)' = NextRoute(wleg) /\ Gathering' = Gathering
    BY <1>1, <2>1 DEF NextRoute, Gathering, Known, LegCount, IsRoute, IsFirst, Tiles, Leg
  <2>3. cleg' = IF cleg' = wleg THEN wleg ELSE NextRoute(wleg)
    OBVIOUS
  <2>4. /\ cleg' = IF wleg' > LegCount' THEN wleg'
                   ELSE IF ~IsRoute(wleg)' THEN wleg' + 1
                   ELSE IF cleg' = wleg' THEN wleg' ELSE NextRoute(wleg)'
        /\ cleg' # wleg' => ctile' = 1 /\ Len(regs') = 0
    BY <2>1, <2>2, <2>3
  <2>5. QED
    BY <2>2, <2>4 DEF Lockstep
<1>7. Reserved'
  <2>1. ASSUME NEW o \in pending PROVE Len(input'[o]) < Buffering
    <3>1. o \in Operands /\ Len(input[o]) < Buffering
      BY DEF TypeOK, Reserved
    <3>2. QED
      BY <1>1, <3>1 DEF Known
  <2>2. \A o \in pending' : Len(input'[o]) < Buffering
    BY <2>1
  <2>3. QED
    BY <2>2 DEF Reserved
<1>8. QED
  BY <1>2, <1>3, <1>4, <1>5, <1>6, <1>7

LEMMA CTakeStep ==
  ASSUME IInv, CTake
  PROVE  IInv'
<1> USE DEF IInv
<1>1. Known
  BY Here
<1> DEFINE o == Register[Len(regs) + 1]
<1>2. /\ legs' = legs /\ Computes("lift") /\ Len(regs) < 3 /\ input[o] # <<>>
      /\ \E v : regs' = Append(regs, v)
      /\ input' = [input EXCEPT ![o] = Tail(@)]
      /\ UNCHANGED <<rvars, staging, cleg, ctile, ring, wvars, issued, sync, memory,
                     scratch, delivered>>
  BY DEF CTake
<1>3. Len(regs) \in 0 .. 2 /\ o \in Operands
      /\ o = IF Len(regs) = 0 THEN "source0" ELSE IF Len(regs) = 1 THEN "source1" ELSE "base"
  <2>1. Len(regs) \in 0 .. 2
    BY <1>1, <1>2 DEF Known
  <2>2. /\ Register[1] = "source0" /\ Register[2] = "source1" /\ Register[3] = "base"
        /\ Operands = {"source0", "source1", "base"}
    BY DEF Register, Operands
  <2>3. CASE Len(regs) = 0
    BY <2>1, <2>2, <2>3
  <2>4. CASE Len(regs) = 1
    BY <2>1, <2>2, <2>4
  <2>5. CASE Len(regs) = 2
    BY <2>1, <2>2, <2>5
  <2>6. QED
    BY <2>1, <2>3, <2>4, <2>5
<1> HIDE DEF o
<1>4. /\ IsSeq(input[o]) /\ Len(input[o]) > 0
      /\ o \in Wanted /\ cleg = wleg /\ Flowing /\ Wanted = Operands
  <2>1. IsSeq(input[o])
    BY <1>3 DEF Buffers
  <2>2. Len(input[o]) > 0
    BY <1>1, <1>2, <1>3, <2>1, ZeroLength DEF Known
  <2>3. o \in Wanted /\ cleg = wleg
    BY <1>3, <2>2, Flow
  <2>4. Flowing /\ Wanted = Operands
    BY <1>2, <2>3 DEF Wanted, Computes, Needs
  <2>5. QED
    BY <2>1, <2>2, <2>3, <2>4
<1>5. /\ DOMAIN input' = Operands /\ \A x \in Operands \ {o} : input'[x] = input[x]
      /\ IsSeq(input'[o]) /\ Len(input'[o]) = Len(input[o]) - 1
  <2>1. input'[o] = Tail(input[o])
    BY <1>2, <1>3 DEF TypeOK
  <2>2. input[o] # <<>>
    BY <1>2
  <2>3. IsSeq(input'[o]) /\ Len(input'[o]) = Len(input[o]) - 1
    BY <1>4, <2>1, <2>2, TailIsSeq
  <2>4. QED
    BY <1>2, <2>3 DEF TypeOK
<1>6. IsSeq(regs') /\ Len(regs') = Len(regs) + 1
  BY <1>2, AppendIsSeq DEF Buffers
<1>7. Buffers' /\ Len(regs') \in 0 .. 3
  <2>1. \A x \in Operands : IsSeq(input'[x])
    BY <1>5 DEF Buffers
  <2>2. Len(regs') \in 0 .. 3
    <3> DEFINE k == Len(regs)
               k1 == Len(regs')
    <3>1. k \in 0 .. 2 /\ k1 = k + 1
      BY <1>3, <1>6
    <3> HIDE DEF k, k1
    <3>2. k1 \in 0 .. 3
      BY <3>1
    <3>3. QED
      BY <3>2 DEF k1
  <2>3. QED
    BY <1>6, <2>1, <2>2 DEF Buffers
<1>8. \A x \in Operands : Len(input'[x]) \in Nat /\ Len(input'[x]) <= Len(input[x])
  BY <1>1, <1>4, <1>5 DEF Known
<1>9. Conservation'
  <2>1. /\ Flowing' = Flowing /\ Wanted' = Wanted /\ Packed' = Packed /\ Popped' = Popped
        /\ Pushed' = Pushed
    BY <1>2, Counts
  <2>2. \A x \in Operands : Held'[x] = Held[x] + (IF x = o THEN 1 ELSE 0) /\ Held[x] \in Int
    <3> DEFINE k == Len(regs)
               k1 == Len(regs')
               Place(x) == CASE x = "source0" -> 1 [] x = "source1" -> 2 [] x = "base" -> 3
    <3>1. k \in 0 .. 2 /\ k1 = k + 1
      BY <1>3, <1>6
    <3>2. \A x \in Operands : /\ Held[x] = IF k >= Place(x) THEN 1 ELSE 0
                             /\ Held'[x] = IF k1 >= Place(x) THEN 1 ELSE 0
      BY DEF Held
    <3>3. o = IF k = 0 THEN "source0" ELSE IF k = 1 THEN "source1" ELSE "base"
      BY <1>3
    <3> HIDE DEF k, k1
    <3>4. QED
      BY <3>1, <3>2, <3>3 DEF Operands
  <2>3. ASSUME NEW x \in Operands
        PROVE  Len(input'[x]) = Pushed'[x] - Packed' - Held'[x]
    <3> DEFINE l == Len(input[x])
               m == Len(input'[x])
    <3>1. l = Pushed[x] - Packed - Held[x]
      BY <1>4 DEF Conservation
    <3>2. m = l - (IF x = o THEN 1 ELSE 0) /\ l \in Int /\ m \in Int
      BY <1>1, <1>5, <1>8 DEF Known
    <3>3. Pushed[x] \in Int /\ Packed \in Int
      BY <1>4, Flow
    <3> HIDE DEF l, m
    <3>4. m = Pushed'[x] - Packed' - Held'[x]
      BY <2>1, <2>2, <3>1, <3>2, <3>3
    <3>5. QED
      BY <3>4 DEF m
  <2>4. "base" \in Wanted
    BY <1>4 DEF Operands
  <2>5. QED
    BY <1>2, <1>4, <2>1, <2>3, <2>4 DEF Conservation
<1>10. ComputePlace /\ TypeOK /\ cleg' = cleg /\ ctile' = ctile
  BY <1>2
<1>11. QED
  BY <1>1, <1>2, <1>4, <1>5, <1>7, <1>8, <1>9, <1>10, ComputeKeeps
     DEF Known, TypeOK, ComputePlace

LEMMA CPackStep ==
  ASSUME IInv, CPack
  PROVE  IInv'
<1> USE DEF IInv
<1>1. Known
  BY Here
<1>2. /\ legs' = legs /\ Len(regs) = 3 /\ regs' = <<>> /\ \E v : Emit(v)
      /\ UNCHANGED <<rvars, staging, input, wvars, issued, sync, memory, scratch, delivered>>
  BY DEF CPack
<1>3. PICK v : Emit(v)
  BY <1>2
<1>4. Flowing /\ "base" \in Wanted /\ cleg = wleg /\ Wanted = Operands
  <2>1. Flowing /\ "base" \in Wanted /\ cleg = wleg
    BY <1>2, Flow
  <2>2. QED
    BY <2>1 DEF Wanted, Needs
<1>5. /\ count < Buffering /\ count' = count + 1 /\ head' = head
      /\ DOMAIN page' = DOMAIN page
      /\ Packed \in Nat /\ Popped \in Nat /\ Packed' = Packed + 1
      /\ cleg' \in Nat \ {0} /\ ctile' \in Nat \ {0}
      /\ cleg' \in {wleg, NextRoute(wleg)}
      /\ cleg' # wleg => ctile' = 1
      /\ cleg' <= LegCount + 1
      /\ cleg' <= LegCount => IsRoute(cleg') /\ ctile' <= Tiles(cleg')
  BY <1>2, <1>3, <1>4, EmitCounts
<1>6. IsSeq(regs') /\ Len(regs') = 0
  BY <1>2, EmptyIsSeq
<1>7. Buffers' /\ Len(regs') \in 0 .. 3
  BY <1>2, <1>6 DEF Buffers
<1>8. /\ DOMAIN input' = Operands
      /\ \A x \in Operands : Len(input'[x]) \in Nat /\ Len(input'[x]) <= Len(input[x])
  BY <1>1, <1>2 DEF Known, TypeOK
<1>9. Conservation'
  <2>1. /\ Flowing' = Flowing /\ Wanted' = Wanted /\ Popped' = Popped /\ Pushed' = Pushed
    BY <1>2, Counts
  <2>2. \A x \in Operands : Held'[x] = 0 /\ Held[x] = 1
    BY <1>2, <1>6 DEF Held, Operands
  <2>3. ASSUME NEW x \in Operands
        PROVE  Len(input'[x]) = Pushed'[x] - Packed' - Held'[x]
    <3>1. Len(input[x]) = Pushed[x] - Packed - Held[x] /\ Pushed[x] \in Int
      BY <1>4, Flow DEF Conservation
    <3>2. Pushed[x] - Packed - Held[x] = Pushed'[x] - Packed' - Held'[x]
      BY <1>5, <2>1, <2>2, <3>1
    <3>3. QED
      BY <1>2, <3>1, <3>2
  <2>4. count' = Packed' - Popped'
    <3>1. count = Packed - Popped
      BY <1>4 DEF Conservation
    <3>2. QED
      BY <1>1, <1>5, <2>1, <3>1 DEF Known
  <2>5. QED
    BY <1>4, <1>6, <2>1, <2>3, <2>4 DEF Conservation
<1>10. count' \in 0 .. Buffering /\ count <= count'
  BY <1>1, <1>5 DEF Known
<1>11. QED
  BY <1>2, <1>4, <1>5, <1>6, <1>7, <1>8, <1>9, <1>10, ComputeKeeps

LEMMA CScaleStep ==
  ASSUME IInv, CScale
  PROVE  IInv'
<1> USE DEF IInv
<1>1. Known
  BY Here
<1>2. /\ legs' = legs /\ Computes("scale") /\ input["source0"] # <<>> /\ \E v : Emit(v)
      /\ input' = [input EXCEPT !["source0"] = Tail(@)]
      /\ UNCHANGED <<rvars, staging, regs, wvars, issued, sync, memory, scratch, delivered>>
  BY DEF CScale
<1>3. PICK v : Emit(v)
  BY <1>2
<1>4. /\ IsSeq(input["source0"]) /\ Len(input["source0"]) > 0 /\ "source0" \in Operands
      /\ cleg = wleg /\ Flowing /\ Wanted = {"source0"} /\ Len(regs) = 0
  <2>1. "source0" \in Operands /\ "base" \notin {"source0"}
    BY DEF Operands
  <2>2. IsSeq(input["source0"])
    BY <2>1 DEF Buffers
  <2>3. Len(input["source0"]) > 0
    BY <1>1, <1>2, <2>1, <2>2, ZeroLength DEF Known
  <2>4. "source0" \in Wanted /\ cleg = wleg
    BY <2>1, <2>3, Flow
  <2>5. Flowing /\ Wanted = {"source0"}
    BY <1>2, <2>4 DEF Wanted, Computes, Needs
  <2>6. Len(regs) = 0
    BY <1>1, <2>1, <2>5, Flow DEF Known
  <2>7. QED
    BY <2>1, <2>2, <2>3, <2>4, <2>5, <2>6
<1>5. /\ count < Buffering /\ count' = count + 1 /\ head' = head
      /\ DOMAIN page' = DOMAIN page
      /\ Packed \in Nat /\ Popped \in Nat /\ Packed' = Packed + 1
      /\ cleg' \in Nat \ {0} /\ ctile' \in Nat \ {0}
      /\ cleg' \in {wleg, NextRoute(wleg)}
      /\ cleg' # wleg => ctile' = 1
      /\ cleg' <= LegCount + 1
      /\ cleg' <= LegCount => IsRoute(cleg') /\ ctile' <= Tiles(cleg')
  BY <1>2, <1>3, <1>4, EmitCounts
<1>6. /\ DOMAIN input' = Operands
      /\ \A x \in Operands \ {"source0"} : input'[x] = input[x]
      /\ IsSeq(input'["source0"]) /\ Len(input'["source0"]) = Len(input["source0"]) - 1
  <2>1. input'["source0"] = Tail(input["source0"])
    BY <1>2, <1>4 DEF TypeOK
  <2>2. IsSeq(input'["source0"]) /\ Len(input'["source0"]) = Len(input["source0"]) - 1
    BY <1>2, <1>4, <2>1, TailIsSeq
  <2>3. QED
    BY <1>2, <2>2 DEF TypeOK
<1>7. Buffers' /\ Len(regs') \in 0 .. 3 /\ Len(regs') = 0
  BY <1>2, <1>4, <1>6 DEF Buffers
<1>8. \A x \in Operands : Len(input'[x]) \in Nat /\ Len(input'[x]) <= Len(input[x])
  BY <1>1, <1>4, <1>6 DEF Known
<1>9. Conservation'
  <2>1. /\ Flowing' = Flowing /\ Wanted' = Wanted /\ Popped' = Popped /\ Pushed' = Pushed
        /\ Held' = Held
    BY <1>2, Counts
  <2>2. Held["source0"] = 0
    BY <1>4 DEF Held, Operands
  <2>3. Len(input'["source0"]) = Pushed'["source0"] - Packed' - Held'["source0"]
    <3> DEFINE l == Len(input["source0"])
               m == Len(input'["source0"])
    <3>1. l = Pushed["source0"] - Packed - Held["source0"]
      BY <1>4 DEF Conservation
    <3>2. m = l - 1 /\ l \in Int /\ m \in Int
      BY <1>1, <1>4, <1>6, <1>8 DEF Known
    <3>3. Pushed["source0"] \in Int
      BY <1>4, Flow
    <3> HIDE DEF l, m
    <3>4. m = Pushed'["source0"] - Packed' - Held'["source0"]
      BY <1>5, <2>1, <2>2, <3>1, <3>2, <3>3
    <3>5. QED
      BY <3>4 DEF m
  <2>4. \A x \in Operands \ {"source0"} : Len(input'[x]) = 0
    BY <1>4, <1>6 DEF Conservation
  <2>5. count' = Packed' - Popped'
    <3>1. count = Packed - Popped
      BY <1>4 DEF Conservation
    <3>2. QED
      BY <1>1, <1>5, <2>1, <3>1 DEF Known
  <2>6. QED
    BY <1>4, <1>7, <2>1, <2>3, <2>4, <2>5 DEF Conservation
<1>10. count' \in 0 .. Buffering /\ count <= count'
  BY <1>1, <1>5 DEF Known
<1>11. QED
  BY <1>2, <1>4, <1>5, <1>6, <1>7, <1>8, <1>9, <1>10, ComputeKeeps

-----------------------------------------------------------------------------
LEMMA WFirstStep ==
  ASSUME IInv, WFirst
  PROVE  IInv'
<1> USE DEF IInv
<1>1. Known
  BY Here
<1>2. /\ legs' = legs /\ wpc = "first" /\ wpc' = "take" /\ count > 0
      /\ scratch' = [scratch EXCEPT !["writer"] = RoutePages(wleg)]
      /\ UNCHANGED <<rvars, staging, input, cvars, ring, wleg, wtile, issued, sync,
                     memory, delivered>>
  BY DEF WFirst
<1>3. Flowing /\ (rleg > wleg \/ (rleg = wleg /\ Gathering))
  BY <1>2, Flow
<1>4. TypeOK'
  BY <1>2 DEF TypeOK, LegCount, Parts
<1>5. Buffers' /\ Reserved'
  BY <1>2 DEF Buffers, Reserved
<1>6. ReaderPlace' /\ ComputePlace'
  BY <1>2 DEF ReaderPlace, ComputePlace, Gathering, Dealt, Needs, Leg, LegCount,
              IsRoute, IsFirst, Tiles
<1>7. WriterPlace'
  <2>1. wleg # LegCount + 1 /\ IsRoute(wleg) /\ wtile <= Tiles(wleg)
    BY <1>2 DEF WriterPlace
  <2>2. QED
    BY <1>2, <2>1 DEF WriterPlace, Leg, LegCount, IsRoute, IsFirst, Tiles
<1>8. Lockstep'
  <2>1. ~(rleg <= wleg /\ ~Gathering)
    BY <1>1, <1>3 DEF Known
  <2>2. QED
    BY <1>2, <2>1 DEF Lockstep, NextRoute, Gathering, Leg, LegCount, IsRoute, IsFirst, Tiles
<1>9. Conservation'
  <2>1. Popped' = Popped
    BY <1>2 DEF Popped
  <2>2. QED
    BY <1>2, <2>1, Counts, Kept
<1>10. /\ scratch'["executed"] = scratch["executed"] /\ scratch'["trailing"] = scratch["trailing"]
       /\ scratch'["writer"] = RoutePages(wleg)
       /\ \A n : RoutePages(n)' = RoutePages(n)
  BY <1>2 DEF TypeOK, Parts, RoutePages, Contents, Leg
<1>11. ScratchOwned'
  <2>1. rpc # "split"
    <3>1. rpc = "split" => wleg = rleg /\ ~Gathering
      BY DEF Lockstep, Gathering, Operands
    <3>2. QED
      BY <1>1, <1>3, <3>1 DEF Known
  <2>2. ReaderExecutes' = ReaderExecutes /\ ReaderSkips' = ReaderSkips
    BY <1>2 DEF ReaderExecutes, ReaderSkips, Leg, LegCount, IsRoute, IsFirst, Tiles
  <2>3. QED
    BY <1>2, <1>10, <2>1, <2>2 DEF ScratchOwned
<1>12. PagesKept'
  <2>1. Tiles(rleg)' = Tiles(rleg) /\ IsRoute(rleg + 1)' = IsRoute(rleg + 1)
        /\ (Leg(rleg).skips)' = Leg(rleg).skips
    BY <1>2 DEF Tiles, IsRoute, Leg
  <2>2. QED
    BY <1>2, <1>10, <2>1 DEF PagesKept
<1>13. QED
  BY <1>4, <1>5, <1>6, <1>7, <1>8, <1>9, <1>11, <1>12

(***************************************************************************)
(* What a batch of the writer is.                                          *)
(***************************************************************************)
LEMMA BatchFits ==
  ASSUME IInv, wpc \in {"take", "flush"}
  PROVE  /\ Batch \in {1, 2} /\ head + Batch <= Buffering
         /\ wtile + Batch <= Tiles(wleg) + 1
         /\ Tiles(wleg) \in Nat \ {0} /\ wtile <= Tiles(wleg)
         /\ Flowing /\ \A i \in 1 .. Tiles(wleg) : Leg(wleg).writes[i] \in Places
<1>1. Known
  BY Here
<1>2. wleg <= LegCount /\ IsRoute(wleg) /\ wtile <= Tiles(wleg)
  BY <1>1 DEF IInv, WriterPlace, Known
<1>3. /\ Tiles(wleg) \in Nat \ {0}
      /\ \A i \in 1 .. Tiles(wleg) : Leg(wleg).writes[i] \in Places
  BY <1>1, <1>2 DEF Known, LegOK
<1>4. head \in 0 .. Buffering - 1
  BY DEF IInv, TypeOK
<1>5. Batch \in {1, 2} /\ head + Batch <= Buffering /\ wtile + Batch <= Tiles(wleg) + 1
  BY <1>1, <1>2, <1>3, <1>4 DEF Batch, Known
<1>6. QED
  BY <1>2, <1>3, <1>5 DEF Flowing

(***************************************************************************)
(* What a step of the writer within a leg has to see to.                   *)
(***************************************************************************)
LEMMA WriterKeeps ==
  ASSUME IInv, Flowing,
         UNCHANGED <<legs, rvars, staging, input, cvars, wleg, sync, memory, scratch,
                     delivered>>,
         wpc \in {"take", "flush"}, wpc' \in {"take", "flush", "signal"},
         WriterPlace', Conservation', wtile' \in Nat \ {0},
         head' \in 0 .. Buffering - 1, count' \in 0 .. Buffering, page' = page,
         issued' \subseteq [page : 0 .. Buffering - 1, place : Places]
  PROVE  IInv'
<1> USE DEF IInv
<1>1. Known
  BY Here
<1>2. TypeOK'
  BY DEF TypeOK, LegCount
<1>3. Buffers' /\ Reserved'
  BY DEF Buffers, Reserved
<1>4. ReaderPlace' /\ ComputePlace' /\ PagesKept'
  BY DEF ReaderPlace, ComputePlace, PagesKept, Gathering, Dealt, Needs, RoutePages,
         Leg, LegCount, IsRoute, IsFirst, Tiles
<1>5. Lockstep'
  <2>1. Gathering' = Gathering /\ ~(wleg <= LegCount /\ IsFirst(wleg) /\ rleg <= wleg /\ ~Gathering)
    BY DEF Lockstep, Gathering, Operands
  <2>2. QED
    BY <2>1 DEF Lockstep, NextRoute, Leg, LegCount, IsRoute, IsFirst, Tiles
<1>6. ScratchOwned'
  <2>1. ReaderExecutes' = ReaderExecutes /\ ReaderSkips' = ReaderSkips /\ WriterExecutes
        /\ \A n : RoutePages(n)' = RoutePages(n)
    BY DEF ReaderExecutes, ReaderSkips, WriterExecutes, RoutePages, Contents, Leg,
           LegCount, IsRoute, IsFirst, Tiles
  <2>2. QED
    BY <2>1 DEF ScratchOwned, Leg
<1>7. QED
  BY <1>2, <1>3, <1>4, <1>5, <1>6

LEMMA WIssueStep ==
  ASSUME IInv, WIssue
  PROVE  IInv'
<1> USE DEF IInv
<1>1. Known
  BY Here
<1>2. /\ legs' = legs /\ wpc = "take" /\ wpc' = "flush" /\ count >= Batch
      /\ issued' = {[page |-> head + i, place |-> Leg(wleg).writes[wtile + i]] :
                      i \in 0 .. Batch - 1}
      /\ UNCHANGED <<rvars, staging, input, cvars, ring, wleg, wtile, sync, memory,
                     scratch, delivered>>
  BY DEF WIssue
<1>3. /\ Batch \in {1, 2} /\ head + Batch <= Buffering
      /\ wtile + Batch <= Tiles(wleg) + 1
      /\ Tiles(wleg) \in Nat \ {0} /\ wtile <= Tiles(wleg)
      /\ Flowing /\ \A i \in 1 .. Tiles(wleg) : Leg(wleg).writes[i] \in Places
  BY <1>2, BatchFits
<1>4. head \in 0 .. Buffering - 1 /\ count \in 0 .. Buffering /\ wtile \in Nat \ {0}
  BY <1>1 DEF TypeOK, Known
<1>5. issued' \subseteq [page : 0 .. Buffering - 1, place : Places]
  <2>1. ASSUME NEW i \in 0 .. Batch - 1
        PROVE  head + i \in 0 .. Buffering - 1 /\ wtile + i \in 1 .. Tiles(wleg)
    BY <1>1, <1>3, <1>4 DEF Known
  <2>2. QED
    BY <1>2, <1>3, <2>1
<1>6. WriterPlace'
  <2>1. Batch' = Batch /\ wleg # LegCount + 1 /\ IsRoute(wleg) /\ wtile <= Tiles(wleg)
    BY <1>2 DEF WriterPlace, Batch, Tiles, Leg
  <2>2. QED
    BY <1>2, <2>1 DEF WriterPlace, Leg, LegCount, IsRoute, IsFirst, Tiles
<1>7. Conservation'
  <2>1. Popped' = Popped
    BY <1>2 DEF Popped
  <2>2. QED
    BY <1>2, <2>1, Counts, Kept
<1>8. QED
  BY <1>2, <1>3, <1>4, <1>5, <1>6, <1>7, WriterKeeps

LEMMA WPopStep ==
  ASSUME IInv, WPop
  PROVE  IInv'
<1> USE DEF IInv
<1>1. Known
  BY Here
<1>2. /\ legs' = legs /\ wpc = "flush" /\ issued = {}
      /\ head' = (head + Batch) % Buffering /\ count' = count - Batch /\ page' = page
      /\ \/ wtile + Batch <= Tiles(wleg) /\ wtile' = wtile + Batch /\ wpc' = "take"
         \/ ~(wtile + Batch <= Tiles(wleg)) /\ wtile' = 1 /\ wpc' = "signal"
      /\ UNCHANGED <<rvars, staging, input, cvars, wleg, issued, sync, memory, scratch,
                     delivered>>
  BY DEF WPop
<1>3. /\ Batch \in {1, 2} /\ head + Batch <= Buffering
      /\ wtile + Batch <= Tiles(wleg) + 1
      /\ Tiles(wleg) \in Nat \ {0} /\ wtile <= Tiles(wleg) /\ Flowing
  BY <1>2, BatchFits
<1>4. head \in 0 .. Buffering - 1 /\ count \in 0 .. Buffering /\ count >= Batch
  BY <1>2 DEF TypeOK, WriterPlace
<1>5. /\ head' \in 0 .. Buffering - 1 /\ count' \in 0 .. Buffering /\ count' \in Nat
      /\ wtile' \in Nat \ {0}
  <2>1. head + Batch \in Nat /\ Buffering \in Nat \ {0}
    BY <1>1, <1>3, <1>4 DEF Known
  <2>2. head' \in 0 .. Buffering - 1
    BY <1>2, <2>1
  <2>3. QED
    BY <1>1, <1>2, <1>3, <1>4, <2>2 DEF Known
<1>6. WriterPlace'
  <2>1. wleg # LegCount + 1 /\ IsRoute(wleg)
    BY <1>2 DEF WriterPlace
  <2>2. QED
    BY <1>2, <2>1 DEF WriterPlace, Leg, LegCount, IsRoute, IsFirst, Tiles
<1>7. Conservation'
  <2>1. /\ Flowing' = Flowing /\ Wanted' = Wanted /\ Packed' = Packed /\ Pushed' = Pushed
        /\ Held' = Held
    BY <1>2, Counts
  <2>2. Popped' = Popped + Batch
    <3>1. Popped = wtile - 1
      BY <1>2 DEF Popped
    <3>2. CASE wpc' = "take"
      BY <1>1, <1>2, <1>3, <3>1, <3>2 DEF Popped, Known
    <3>3. CASE wpc' = "signal"
      <4>1. Popped' = Tiles(wleg)
        BY <1>2, <3>3 DEF Popped, Tiles, Leg
      <4>2. wtile + Batch = Tiles(wleg) + 1
        BY <1>1, <1>2, <1>3, <3>3 DEF Known
      <4>3. QED
        BY <1>1, <1>3, <3>1, <4>1, <4>2 DEF Known
    <3>4. QED
      BY <1>2, <3>2, <3>3
  <2>3. count = Packed - Popped /\ Packed \in Nat /\ Popped \in Nat
    BY <1>3, Flow DEF Conservation
  <2>4. count' = Packed - Popped'
    BY <1>2, <1>3, <2>2, <2>3
  <2>5. QED
    BY <1>2, <1>3, <2>1, <2>4 DEF Conservation
<1>8. issued' \subseteq [page : 0 .. Buffering - 1, place : Places]
  BY <1>2
<1>9. QED
  BY <1>2, <1>3, <1>5, <1>6, <1>7, <1>8, WriterKeeps

(***************************************************************************)
(* Where the reader is while results are delivered: past its last tile,    *)
(* at most about to read pages that are not executed, and then the         *)
(* results leave them alone.                                               *)
(***************************************************************************)
LEMMA Delivering ==
  ASSUME IInv, wpc = "deliver"
  PROVE  /\ wleg <= LegCount /\ ~IsRoute(wleg) /\ ~ReaderExecutes /\ rpc # "split"
         /\ ReaderSkips => rleg = wleg /\ rleg > 1 /\ Leg(rleg - 1).skips
         /\ rpc = "barrier" =>
              rleg + 1 = wleg /\ rtile = Tiles(rleg) /\ Tiles(rleg) \in Nat
<1> USE DEF IInv
<1>1. Known
  BY Here
<1>2. wleg <= LegCount /\ ~IsRoute(wleg) /\ wtile <= Len(Leg(wleg).results)
  BY <1>1 DEF WriterPlace, Known
<1>3. rpc \in {"load", "split", "pages"} \union Operands => IsRoute(rleg) /\ wleg = rleg
  BY DEF ReaderPlace, Lockstep, Gathering
<1>4. pending = {}
  <2>1. pending # {} => wleg = rleg
    BY DEF Lockstep
  <2>2. pending # {} => Gathering
    BY DEF ReaderPlace, Dealt, Gathering, Operands
  <2>3. Gathering => IsRoute(rleg)
    BY DEF ReaderPlace
  <2>4. QED
    BY <1>2, <2>1, <2>2, <2>3
<1>5. sync = wleg - rleg + (IF rpc = "sync" THEN 1 ELSE 0)
  BY DEF Lockstep
<1>6. rpc = "sync" => wleg = rleg \/ (wleg = rleg - 1 /\ rleg > 1)
  BY <1>1, <1>5 DEF Known
<1>7. wleg = rleg - 1 /\ rleg > 1 /\ rleg <= LegCount => IsFirst(rleg)
  BY <1>1, <1>2 DEF LegOK, Known
<1>8. wleg = rleg - 1 /\ rleg > 1 => ~Leg(rleg - 1).skips
  BY <1>1, <1>2 DEF LegOK, Known
<1>9. ~ReaderExecutes
  BY <1>2, <1>3, <1>4, <1>6, <1>7 DEF ReaderExecutes
<1>10. rpc # "split"
  BY <1>2, <1>3
<1>11. ReaderSkips => rleg = wleg /\ rleg > 1 /\ Leg(rleg - 1).skips
  <2>1. rpc = "skip" => rleg > 1 /\ rleg <= LegCount /\ ~IsRoute(rleg) /\ Leg(rleg - 1).skips
    BY DEF ReaderPlace
  <2>2. rpc = "skip" => wleg = rleg \/ (wleg = rleg + 1 /\ rleg < LegCount)
    BY <1>1, <1>2, <1>5, <2>1 DEF Known
  <2>3. wleg = rleg + 1 => IsRoute(wleg - 1) /\ wleg - 1 = rleg
    BY <1>1, <1>2 DEF LegOK, Known
  <2>4. rpc = "skip" => rleg = wleg
    BY <2>1, <2>2, <2>3
  <2>5. rpc = "sync" /\ Leg(rleg - 1).skips => rleg = wleg
    BY <1>6, <1>8
  <2>6. rpc = "sync" => rleg > 1
    BY DEF ReaderPlace
  <2>7. QED
    BY <2>1, <2>4, <2>5, <2>6 DEF ReaderSkips
<1>12. rpc = "barrier" =>
         rleg + 1 = wleg /\ rtile = Tiles(rleg) /\ Tiles(rleg) \in Nat
  <2>1. rpc = "barrier" => IsRoute(rleg) /\ rleg <= LegCount
    BY DEF ReaderPlace, Gathering
  <2>2. rpc = "barrier" /\ wleg # rleg => rtile = Tiles(rleg)
    BY DEF Lockstep
  <2>3. rpc = "barrier" => Tiles(rleg) \in Nat
    BY <1>1, <2>1 DEF LegOK, Known
  <2>4. QED
    BY <1>1, <1>2, <1>5, <2>1, <2>2, <2>3 DEF Known
<1>13. QED
  BY <1>2, <1>9, <1>10, <1>11, <1>12

LEMMA WDeliverStep ==
  ASSUME IInv, WDeliver
  PROVE  IInv'
<1> USE DEF IInv
<1>1. Known
  BY Here
<1>2. /\ legs' = legs /\ wpc = "deliver"
      /\ scratch' = [h \in Parts |->
                       IF h \in Leg(wleg).results[wtile].staged
                       THEN Contents("result", Leg(wleg).item) ELSE scratch[h]]
      /\ \/ /\ wtile < Len(Leg(wleg).results)
            /\ wtile' = wtile + 1 /\ wpc' = "deliver"
         \/ wtile' = 1 /\ wpc' = "signal"
      /\ UNCHANGED <<rvars, staging, input, cvars, ring, wleg, issued, sync, memory>>
  BY DEF WDeliver
<1>3. /\ wleg <= LegCount /\ ~IsRoute(wleg) /\ ~ReaderExecutes /\ rpc # "split"
      /\ ReaderSkips => rleg = wleg /\ rleg > 1 /\ Leg(rleg - 1).skips
      /\ rpc = "barrier" =>
           rleg + 1 = wleg /\ rtile = Tiles(rleg) /\ Tiles(rleg) \in Nat
  BY <1>2, Delivering
<1>4. /\ wtile \in 1 .. Len(Leg(wleg).results) /\ Len(Leg(wleg).results) \in Nat
      /\ ~IsFirst(wleg)
  <2>1. wtile <= Len(Leg(wleg).results)
    BY <1>2 DEF WriterPlace
  <2>2. Len(Leg(wleg).results) \in Nat /\ ~IsFirst(wleg)
    BY <1>1, <1>3 DEF LegOK, Known
  <2>3. QED
    BY <1>1, <2>1, <2>2 DEF Known
<1>5. wleg > 1 /\ Leg(wleg - 1).skips => scratch'["trailing"] = scratch["trailing"]
  <2>1. wleg > 1 /\ Leg(wleg - 1).skips =>
          \A i \in 1 .. Len(Leg(wleg).results) : "trailing" \notin Leg(wleg).results[i].staged
    BY <1>1, <1>3 DEF LegOK, Known
  <2>2. QED
    BY <1>2, <1>4, <2>1 DEF Parts
<1>6. TypeOK'
  <2>1. wtile' \in Nat \ {0} /\ wpc' \in {"deliver", "signal"} /\ DOMAIN scratch' = Parts
    BY <1>1, <1>2 DEF Known
  <2>2. QED
    BY <1>2, <2>1 DEF TypeOK, LegCount
<1>7. Buffers' /\ Reserved'
  BY <1>2 DEF Buffers, Reserved
<1>8. ReaderPlace' /\ ComputePlace'
  BY <1>2 DEF ReaderPlace, ComputePlace, Gathering, Dealt, Needs, Leg, LegCount,
              IsRoute, IsFirst, Tiles
<1>9. WriterPlace'
  <2>1. wleg # LegCount + 1
    BY <1>1, <1>3 DEF Known
  <2>2. wpc' = "deliver" => wtile' <= Len(Leg(wleg).results)
    BY <1>1, <1>2, <1>4 DEF Known
  <2>3. QED
    BY <1>2, <1>3, <2>1, <2>2 DEF WriterPlace, Leg, LegCount, IsRoute, IsFirst, Tiles
<1>10. Lockstep'
  BY <1>2, <1>4 DEF Lockstep, NextRoute, Gathering, Leg, LegCount, IsRoute, IsFirst, Tiles
<1>11. Conservation'
  BY <1>2, <1>3, Counts, Kept DEF Flowing
<1>12. ScratchOwned'
  <2>1. ~ReaderExecutes' /\ ReaderSkips' = ReaderSkips
    BY <1>2, <1>3 DEF ReaderExecutes, ReaderSkips, Leg, LegCount, IsRoute, IsFirst, Tiles
  <2>2. ~WriterExecutes'
    BY <1>1, <1>2, <1>3 DEF WriterExecutes, IsRoute, Leg, Known
  <2>3. ReaderSkips => scratch'["trailing"] = scratch["trailing"]
    BY <1>3, <1>5
  <2>4. RoutePages(rleg - 1)' = RoutePages(rleg - 1)
    BY <1>2 DEF RoutePages, Contents, Leg
  <2>5. QED
    BY <1>2, <1>3, <2>1, <2>2, <2>3, <2>4 DEF ScratchOwned
<1>13. PagesKept'
  <2>1. rpc = "barrier" => ~(rtile < Tiles(rleg)) /\ ~IsRoute(rleg + 1)
    BY <1>3
  <2>2. rpc = "barrier" /\ Leg(rleg).skips => scratch'["trailing"] = RoutePages(rleg)
    <3>1. rpc = "barrier" => wleg - 1 = rleg /\ wleg > 1
      BY <1>1, <1>3 DEF Known
    <3>2. QED
      BY <1>5, <3>1 DEF PagesKept
  <2>3. QED
    BY <1>2, <2>1, <2>2 DEF PagesKept, RoutePages, Contents, IsRoute, Tiles, Leg
<1>14. QED
  BY <1>6, <1>7, <1>8, <1>9, <1>10, <1>11, <1>12, <1>13

(***************************************************************************)
(* Where the other kernels are when the writer lets the reader go on: with *)
(* the writer's leg, and nothing of it is left in a circular buffer.       *)
(***************************************************************************)
LEMMA Signalling ==
  ASSUME IInv, wpc = "signal", sync = 0
  PROVE  /\ wleg <= LegCount /\ wtile = 1 /\ count = 0 /\ Len(regs) = 0 /\ pending = {}
         /\ \A o \in Operands : Len(input[o]) = 0
         /\ \/ rleg = wleg + 1 /\ rpc = "sync"
            \/ rleg = wleg /\ rpc = "barrier" /\ rtile = Tiles(rleg)
            \/ rleg = wleg /\ rpc \in {"skip", "done"}
         /\ cleg = (IF IsRoute(wleg) THEN NextRoute(wleg) ELSE wleg + 1)
         /\ cleg # wleg /\ ctile = 1
<1> USE DEF IInv
<1>1. Known
  BY Here
<1>2. wleg <= LegCount /\ wtile = 1
  BY <1>1 DEF WriterPlace, Known
<1>3. wleg = rleg - (IF rpc = "sync" THEN 1 ELSE 0)
  BY <1>1 DEF Lockstep, Known
<1>4. cleg # wleg => ctile = 1 /\ Len(regs) = 0
  BY DEF Lockstep
<1>5. pending # {} => wleg = rleg /\ Gathering
  BY DEF Lockstep, ReaderPlace, Dealt, Gathering, Operands
<1>6. CASE IsRoute(wleg)
  <2>1. Flowing
    BY <1>2, <1>6 DEF Flowing
  <2>2. /\ cleg > wleg /\ count = 0 /\ Len(regs) = 0
        /\ \A o \in Operands : Len(input[o]) = 0
        /\ \/ rleg > wleg
           \/ rleg = wleg /\ rpc = "barrier" /\ pending = {} /\ rtile = Tiles(rleg)
    BY <2>1, Flow
  <2>3. rleg > wleg => rleg = wleg + 1 /\ rpc = "sync" /\ pending = {}
    BY <1>1, <1>3, <1>5 DEF Known
  <2>4. cleg # wleg
    BY <1>1, <2>2 DEF Known
  <2>5. cleg = NextRoute(wleg)
    BY <1>1, <1>2, <1>6, <2>4 DEF Lockstep, Known
  <2>6. QED
    BY <1>2, <1>4, <1>6, <2>2, <2>3, <2>4, <2>5
<1>7. CASE ~IsRoute(wleg)
  <2>1. cleg = wleg + 1 /\ cleg # wleg
    BY <1>1, <1>2, <1>7 DEF Lockstep, Known
  <2>2. ctile = 1 /\ Len(regs) = 0
    BY <1>4, <2>1
  <2>3. Wanted = {} /\ ~Flowing
    BY <1>7 DEF Wanted, Flowing
  <2>4. count = 0 /\ \A o \in Operands : Len(input[o]) = 0
    BY <2>3 DEF Conservation
  <2>5. pending = {}
    BY <1>5, <1>7 DEF ReaderPlace
  <2>6. rleg = wleg =>
          rpc \notin {"load", "split", "pages", "barrier"} \union Operands
    BY <1>7 DEF ReaderPlace, Gathering
  <2>7. rpc \in {"load", "split", "pages", "barrier", "sync", "skip", "done"} \union Operands
    BY DEF TypeOK
  <2>8. (rleg = wleg + 1 /\ rpc = "sync") \/ (rleg = wleg /\ rpc # "sync")
    BY <1>1, <1>3 DEF Known
  <2>9. (rleg = wleg + 1 /\ rpc = "sync") \/ (rleg = wleg /\ rpc \in {"skip", "done"})
    BY <2>6, <2>7, <2>8
  <2>10. QED
    BY <1>2, <1>7, <2>1, <2>2, <2>4, <2>5, <2>9
<1>8. QED
  BY <1>6, <1>7

LEMMA WSignalStep ==
  ASSUME IInv, WSignal
  PROVE  IInv'
<1> USE DEF IInv
<1>1. Known
  BY Here
<1>2. /\ legs' = legs /\ wpc = "signal" /\ sync = 0 /\ sync' = 1 /\ wleg' = wleg + 1
      /\ wpc' = IF wleg' > LegCount THEN "done"
                ELSE IF ~IsRoute(wleg') THEN "deliver"
                ELSE IF IsFirst(wleg') THEN "first" ELSE "take"
      /\ UNCHANGED <<rvars, staging, input, cvars, ring, wtile, issued, memory, scratch,
                     delivered>>
  BY DEF WSignal
<1>3. /\ wleg <= LegCount /\ wtile = 1 /\ count = 0 /\ Len(regs) = 0 /\ pending = {}
      /\ \A o \in Operands : Len(input[o]) = 0
      /\ \/ rleg = wleg + 1 /\ rpc = "sync"
         \/ rleg = wleg /\ rpc = "barrier" /\ rtile = Tiles(rleg)
         \/ rleg = wleg /\ rpc \in {"skip", "done"}
      /\ cleg = (IF IsRoute(wleg) THEN NextRoute(wleg) ELSE wleg + 1)
      /\ cleg # wleg /\ ctile = 1
  BY <1>2, Signalling
<1> DEFINE n == wleg + 1
<1>4. /\ n \in Nat /\ n > 1 /\ n <= LegCount + 1 /\ n - 1 = wleg
      /\ n <= LegCount => wleg < LegCount
  BY <1>1, <1>3 DEF Known
<1>5. /\ n <= LegCount /\ IsRoute(n) => 1 <= Tiles(n)
      /\ n <= LegCount /\ ~IsRoute(n) => 1 <= Len(Leg(n).results) /\ IsRoute(wleg)
      /\ n <= LegCount /\ ~IsRoute(n) => ~IsFirst(n)
      /\ n <= LegCount => (IsFirst(n) <=> ~IsRoute(wleg))
      /\ n <= LegCount /\ ~IsFirst(n) => Leg(n).item = Leg(wleg).item
  <2>1. n <= LegCount => LegOK(n)
    BY <1>1, <1>4 DEF Known
  <2>2. n # 1
    BY <1>4
  <2>3. /\ n <= LegCount /\ IsRoute(n) => Tiles(n) \in Nat \ {0}
        /\ n <= LegCount /\ ~IsRoute(n) =>
             Len(Leg(n).results) \in Nat \ {0} /\ IsRoute(n - 1) /\ ~IsFirst(n)
        /\ n <= LegCount => (IsFirst(n) <=> ~IsRoute(n - 1))
        /\ n <= LegCount /\ ~IsFirst(n) => Leg(n).item = Leg(n - 1).item
    BY <2>1, <2>2 DEF LegOK
  <2>4. \A k \in Nat \ {0} : 1 <= k
    OBVIOUS
  <2>5. QED
    BY <1>4, <2>3, <2>4
<1>6. /\ wleg' = n /\ \A k : IsRoute(k)' = IsRoute(k) /\ IsFirst(k)' = IsFirst(k)
      /\ \A k : Tiles(k)' = Tiles(k) /\ Leg(k)' = Leg(k)
      /\ LegCount' = LegCount /\ Gathering' = Gathering /\ Dealt' = Dealt
      /\ \A k : RoutePages(k)' = RoutePages(k)
  BY <1>2 DEF IsRoute, IsFirst, Tiles, Leg, LegCount, Gathering, Dealt, Needs, RoutePages
<1>7. /\ n > LegCount => wpc' = "done" /\ n = LegCount + 1
      /\ n <= LegCount => n # LegCount + 1
      /\ n <= LegCount /\ ~IsRoute(n) => wpc' = "deliver"
      /\ n <= LegCount /\ IsRoute(n) /\ IsFirst(n) => wpc' = "first"
      /\ n <= LegCount /\ IsRoute(n) /\ ~IsFirst(n) => wpc' = "take"
      /\ n > LegCount \/ n <= LegCount
  <2>1. n > LegCount \/ (n <= LegCount /\ ~(n > LegCount))
    BY <1>1, <1>4 DEF Known
  <2>2. n > LegCount => n = LegCount + 1
    BY <1>1, <1>4 DEF Known
  <2>3. n <= LegCount => n # LegCount + 1
    BY <1>1, <1>4 DEF Known
  <2>4. QED
    BY <1>2, <2>1, <2>2, <2>3
<1>8. TypeOK'
  <2>1. wleg' \in 1 .. LegCount + 1 /\ wpc' \in {"first", "take", "deliver", "done"}
    BY <1>1, <1>2, <1>4, <1>7 DEF Known
  <2>2. QED
    BY <1>2, <2>1 DEF TypeOK, LegCount
<1>9. Buffers' /\ Reserved'
  BY <1>2 DEF Buffers, Reserved
<1>10. ReaderPlace' /\ ComputePlace'
  BY <1>2, <1>6 DEF ReaderPlace, ComputePlace
<1>11. WriterPlace'
  <2>1. wpc' # "flush" /\ wpc' # "signal"
    BY <1>7
  <2>2. wtile' = 1
    BY <1>2, <1>3
  <2>3. QED
    BY <1>5, <1>6, <1>7, <2>1, <2>2 DEF WriterPlace
<1>12. Lockstep'
  <2>1. sync' = n - rleg + (IF rpc = "sync" THEN 1 ELSE 0)
    BY <1>1, <1>2, <1>3 DEF Known
  <2>2. rpc \notin {"load", "split", "pages"} \union Operands
    BY <1>3 DEF Operands
  <2>3. rpc = "barrier" => rtile = Tiles(rleg)
    BY <1>3
  <2>4. /\ cleg = IF n > LegCount THEN n
                  ELSE IF ~IsRoute(n) THEN n + 1
                  ELSE IF cleg = n THEN n ELSE NextRoute(n)
        /\ (n <= LegCount /\ ~IsRoute(n)) \/ cleg = n
    <3>1. IsRoute(wleg) => wleg < LegCount
      BY <1>1, <1>3 DEF Known
    <3>2. CASE n <= LegCount /\ ~IsRoute(n)
      BY <1>1, <1>3, <1>4, <1>5, <3>2 DEF NextRoute, Known
    <3>3. CASE ~(n <= LegCount /\ ~IsRoute(n))
      <4>1. cleg = n
        BY <1>1, <1>3, <1>4, <3>1, <3>3 DEF NextRoute, Known
      <4>2. QED
        BY <1>1, <1>4, <3>3, <4>1 DEF Known
    <3>4. QED
      BY <3>2, <3>3
  <2>5. ctile = 1 /\ Len(regs) = 0
    BY <1>3
  <2>6. n <= LegCount /\ IsFirst(n) => wpc' = "first"
    BY <1>5, <1>7
  <2>7. \A k : NextRoute(k)' = NextRoute(k)
    BY <1>6 DEF NextRoute
  <2>8. rpc' = rpc /\ rleg' = rleg /\ rtile' = rtile /\ cleg' = cleg /\ ctile' = ctile
        /\ regs' = regs /\ pending' = {}
    BY <1>2, <1>3
  <2>9. QED
    BY <1>6, <2>1, <2>2, <2>3, <2>4, <2>5, <2>6, <2>7, <2>8 DEF Lockstep
<1>13. Conservation'
  <2>1. \A o \in Operands : Pushed'[o] = 0
    <3>1. ~(rleg > n) /\ ~(rleg = n /\ Gathering)
      BY <1>1, <1>3 DEF Gathering, Operands, Known
    <3>2. QED
      BY <1>2, <1>6, <3>1 DEF Pushed
  <2>2. \A o \in Operands : Held'[o] = 0
    BY <1>2, <1>3 DEF Held, Operands
  <2>3. Flowing' => Packed' = 0
    <3>1. Flowing' => IsRoute(n) /\ n <= LegCount
      BY <1>6 DEF Flowing
    <3>2. IsRoute(n) /\ n <= LegCount => cleg = n
      BY <1>1, <1>3, <1>4 DEF NextRoute, Known
    <3>3. cleg = n => Packed' = 0
      BY <1>1, <1>2, <1>3, <1>6 DEF Packed, Known
    <3>4. QED
      BY <3>1, <3>2, <3>3
  <2>4. Popped' = 0
    BY <1>2, <1>3, <1>7 DEF Popped
  <2>5. count' = 0 /\ Len(regs') = 0 /\ \A o \in Operands : Len(input'[o]) = 0
    BY <1>2, <1>3
  <2>6. Wanted' # {} => Flowing'
    BY DEF Wanted
  <2>7. QED
    BY <2>1, <2>2, <2>3, <2>4, <2>5, <2>6 DEF Conservation
<1>14. ScratchOwned'
  <2>1. ReaderExecutes' = ReaderExecutes /\ ReaderSkips' = ReaderSkips
    BY <1>2 DEF ReaderExecutes, ReaderSkips, Leg, LegCount, IsRoute, IsFirst, Tiles
  <2>2. WriterExecutes' => WriterExecutes /\ RoutePages(n) = RoutePages(wleg)
    <3>1. WriterExecutes' => n <= LegCount /\ ~IsFirst(n) /\ IsRoute(wleg)
      BY <1>5, <1>7 DEF WriterExecutes
    <3>2. QED
      BY <1>2, <1>5, <3>1 DEF WriterExecutes, RoutePages
  <2>3. QED
    BY <1>2, <1>6, <2>1, <2>2 DEF ScratchOwned
<1>15. PagesKept'
  BY <1>2, <1>6 DEF PagesKept
<1>16. QED
  BY <1>8, <1>9, <1>10, <1>11, <1>12, <1>13, <1>14, <1>15

-----------------------------------------------------------------------------
LEMMA IdleStep ==
  ASSUME IInv, UNCHANGED <<legs, rvars, pending, input, cvars, ring, wvars, sync, scratch>>,
         DOMAIN arrived' \subseteq pending, DOMAIN memory' = Places,
         issued' \subseteq [page : 0 .. Buffering - 1, place : Places]
  PROVE  IInv'
<1> USE DEF IInv
<1>1. TypeOK' /\ Buffers' /\ Reserved'
  BY DEF TypeOK, Buffers, Reserved, LegCount
<1>2. ReaderPlace' /\ ComputePlace' /\ WriterPlace' /\ PagesKept'
  BY DEF ReaderPlace, ComputePlace, WriterPlace, PagesKept, Batch, Gathering, Dealt, Needs,
         RoutePages, Leg, LegCount, IsRoute, IsFirst, Tiles
<1>3. Lockstep'
  BY DEF Lockstep, NextRoute, Gathering, Leg, LegCount, IsRoute, IsFirst, Tiles
<1>4. Conservation'
  BY Counts, Kept
<1>5. ScratchOwned'
  BY DEF ScratchOwned, ReaderExecutes, ReaderSkips, WriterExecutes, RoutePages, Leg,
         LegCount, IsRoute, IsFirst, Tiles
<1>6. QED
  BY <1>1, <1>2, <1>3, <1>4, <1>5

LEMMA NocReadStep == ASSUME IInv, NocRead PROVE IInv'
<1>1. PICK o \in Exact \ DOMAIN arrived :
        /\ arrived' = [a \in DOMAIN arrived \union {o} |->
                         IF a = o THEN View(o) ELSE arrived[a]]
        /\ UNCHANGED <<legs, rvars, pending, input, cvars, ring, wvars, issued, sync,
                       memory, scratch, delivered>>
  BY DEF NocRead
<1>2. DOMAIN arrived' \subseteq pending
  BY <1>1 DEF Exact, IInv, TypeOK
<1>3. DOMAIN memory' = Places
      /\ issued' \subseteq [page : 0 .. Buffering - 1, place : Places]
  BY <1>1 DEF IInv, TypeOK
<1>4. QED
  BY <1>1, <1>2, <1>3, IdleStep

LEMMA NocLandStep == ASSUME IInv, NocLand PROVE IInv'
<1>1. PICK w \in issued :
        /\ issued' = issued \ {w}
        /\ memory' = [memory EXCEPT ![w.place] = page[w.page]]
        /\ UNCHANGED <<legs, rvars, staging, input, cvars, ring, wvars, sync, scratch,
                       delivered>>
  BY DEF NocLand
<1>2. DOMAIN memory' = Places
      /\ issued' \subseteq [page : 0 .. Buffering - 1, place : Places]
  BY <1>1 DEF IInv, TypeOK
<1>3. DOMAIN arrived' \subseteq pending
  BY <1>1 DEF IInv, TypeOK
<1>4. QED
  BY <1>1, <1>2, <1>3, IdleStep

LEMMA StepIInv == IInv /\ [Next]_vars => IInv'
<1> SUFFICES ASSUME IInv, [Next]_vars PROVE IInv'
  OBVIOUS
<1>1. CASE RLoad
  BY <1>1, RLoadStep
<1>2. CASE RSplit
  BY <1>2, RSplitStep
<1>3. CASE RPages
  BY <1>3, RPagesStep
<1>4. CASE \E o \in Operands : RStage(o)
  BY <1>4, RStageStep
<1>5. CASE RPush
  BY <1>5, RPushStep
<1>6. CASE RSync
  BY <1>6, RSyncStep
<1>7. CASE RSkip
  BY <1>7, RSkipStep
<1>8. CASE CTake
  BY <1>8, CTakeStep
<1>9. CASE CPack
  BY <1>9, CPackStep
<1>10. CASE CScale
  BY <1>10, CScaleStep
<1>11. CASE WFirst
  BY <1>11, WFirstStep
<1>12. CASE WIssue
  BY <1>12, WIssueStep
<1>13. CASE WPop
  BY <1>13, WPopStep
<1>14. CASE WDeliver
  BY <1>14, WDeliverStep
<1>15. CASE WSignal
  BY <1>15, WSignalStep
<1>16. CASE NocRead
  BY <1>16, NocReadStep
<1>17. CASE NocLand
  BY <1>17, NocLandStep
<1>18. CASE UNCHANGED vars
  <2>1. UNCHANGED <<legs, rvars, pending, input, cvars, ring, wvars, sync, scratch>>
        /\ arrived' = arrived /\ memory' = memory /\ issued' = issued
    BY <1>18 DEF vars
  <2>2. /\ DOMAIN arrived' \subseteq pending /\ DOMAIN memory' = Places
        /\ issued' \subseteq [page : 0 .. Buffering - 1, place : Places]
    BY <2>1 DEF IInv, TypeOK
  <2>3. QED
    BY <2>1, <2>2, IdleStep
<1>19. QED
  BY <1>1, <1>2, <1>3, <1>4, <1>5, <1>6, <1>7, <1>8, <1>9, <1>10, <1>11, <1>12, <1>13,
     <1>14, <1>15, <1>16, <1>17, <1>18 DEF Next, Reader, Compute, Writer

-----------------------------------------------------------------------------
(***************************************************************************)
(* The inductive invariant holds in every behaviour of the three kernels.  *)
(***************************************************************************)
THEOREM Inductive == Spec => []IInv
<1>1. Init => IInv
  BY InitIInv
<1>2. IInv /\ [Next]_vars => IInv'
  BY StepIInv
<1>3. QED
  BY <1>1, <1>2, PTL DEF Spec

(***************************************************************************)
(* Whatever a core is given, and however its kernels interleave, every     *)
(* variable of the 2D kernels keeps its type: no circular buffer           *)
(* overflows, every NoC write of lwt_2d_writer.cpp is to a tile of a       *)
(* plane, and no kernel runs past the last of its legs.                    *)
(***************************************************************************)
THEOREM TypeCorrect == Spec => []TypeOK
<1>1. IInv => TypeOK
  BY DEF IInv
<1>2. QED
  BY <1>1, Inductive, PTL

(***************************************************************************)
(* Whatever a core is given, every user of the scratch finds there what it *)
(* put there: neither the input that lwt_2d_reader.cpp splits, nor the     *)
(* pages of its routes, those that it does not execute included, nor those *)
(* of lwt_2d_writer.cpp are overwritten before they have been used.        *)
(***************************************************************************)
THEOREM ScratchNeverShared == Spec => []ScratchOwned
<1>1. IInv => ScratchOwned
  BY DEF IInv
<1>2. QED
  BY <1>1, Inductive, PTL

-----------------------------------------------------------------------------
(***************************************************************************)
(* The planes and the results are those of the legs carried out one after  *)
(* the other, for whatever a core may be given, every buffering and every  *)
(* arithmetic.                                                             *)
(***************************************************************************)
USE DEF rvars, staging, cvars, ring, wvars

-----------------------------------------------------------------------------
(***************************************************************************)
(* Sequential, whose definition is recursive, satisfies its equation.      *)
(***************************************************************************)
LEMMA SequentialUnfolds ==
  ASSUME LegCount \in Nat
  PROVE  Sequential =
           [n \in 0 .. LegCount |->
              IF n = 0 THEN [planes |-> [q \in Places |-> Junk], results |-> <<>>]
              ELSE IF IsRoute(n)
              THEN [planes |-> Routed(n, LoadedBefore(n, Sequential[n - 1].planes)),
                    results |-> Sequential[n - 1].results]
              ELSE [planes |-> Sequential[n - 1].planes,
                    results |-> Sequential[n - 1].results
                                  \o Delivered(n, Sequential[n - 1].planes)]]
<1> DEFINE Zero == [planes |-> [q \in Places |-> Junk], results |-> <<>>]
           After1(n, before) ==
             IF IsRoute(n)
             THEN [planes |-> Routed(n, LoadedBefore(n, before.planes)),
                   results |-> before.results]
             ELSE [planes |-> before.planes,
                   results |-> before.results \o Delivered(n, before.planes)]
           Up(m) == \E f : f = [n \in 0 .. m |->
                                  IF n = 0 THEN Zero ELSE After1(n, f[n - 1])]
           Bad == {m \in 0 .. LegCount : ~Up(m)}
<1> HIDE DEF Zero, After1
<1>1. Up(LegCount)
  <2>1. SUFFICES ASSUME Bad # {} PROVE FALSE
    OBVIOUS
  <2>2. PICK m \in Bad : \A x \in Bad : m <= x
    <3> HIDE DEF Bad
    <3>1. Bad \subseteq 0 .. LegCount
      BY DEF Bad
    <3>2. 0 \in Int /\ LegCount \in Int
      OBVIOUS
    <3>3. QED
      BY ONLY <2>1, <3>1, <3>2, HasLeast
  <2>3. m \in 0 .. LegCount /\ ~Up(m)
    BY <2>2
  <2>4. CASE m = 0
    <3>1. [n \in 0 .. 0 |-> Zero] = [n \in 0 .. 0 |->
             IF n = 0 THEN Zero ELSE After1(n, [k \in 0 .. 0 |-> Zero][n - 1])]
      OBVIOUS
    <3>2. QED
      BY <2>3, <2>4, <3>1
  <2>5. CASE m # 0
    <3>1. m - 1 \in 0 .. LegCount /\ ~(m <= m - 1) /\ m \in Nat
      BY <2>3, <2>5
    <3>2. PICK f : f = [n \in 0 .. m - 1 |-> IF n = 0 THEN Zero ELSE After1(n, f[n - 1])]
      BY <2>2, <3>1
    <3> DEFINE g == [n \in 0 .. m |-> IF n < m THEN f[n] ELSE After1(n, f[n - 1])]
    <3>3. \A n \in 0 .. m : g[n] = IF n = 0 THEN Zero ELSE After1(n, g[n - 1])
      <4>1. TAKE n \in 0 .. m
      <4>2. CASE n = 0
        BY <2>5, <3>1, <3>2, <4>2
      <4>3. CASE n # 0 /\ n < m
        <5>1. n \in 0 .. m - 1 /\ n - 1 \in 0 .. m /\ n - 1 < m
          BY <3>1, <4>3
        <5>2. g[n] = f[n] /\ g[n - 1] = f[n - 1]
          BY <4>3, <5>1
        <5>3. f[n] = After1(n, f[n - 1])
          BY <3>2, <4>3, <5>1
        <5>4. QED
          BY <4>3, <5>2, <5>3
      <4>4. CASE n = m
        <5>1. n - 1 \in 0 .. m /\ n - 1 < m
          BY <2>5, <3>1, <4>4
        <5>2. g[n] = After1(n, f[n - 1]) /\ g[n - 1] = f[n - 1]
          BY <3>1, <4>4, <5>1
        <5>3. QED
          BY <2>5, <4>4, <5>2
      <4>5. QED
        BY <3>1, <4>2, <4>3, <4>4
    <3>4. g = [n \in 0 .. m |-> IF n = 0 THEN Zero ELSE After1(n, g[n - 1])]
      BY <3>3
    <3> HIDE DEF g
    <3>5. QED
      BY <2>3, <3>4
  <2>6. QED
    BY <2>4, <2>5
<1>2. Sequential = CHOOSE f : f = [n \in 0 .. LegCount |->
                                     IF n = 0 THEN Zero ELSE After1(n, f[n - 1])]
  BY DEF Sequential, Zero, After1
<1>3. Sequential = [n \in 0 .. LegCount |->
                      IF n = 0 THEN Zero ELSE After1(n, Sequential[n - 1])]
  BY ONLY <1>1, <1>2
<1>4. QED
  BY ONLY <1>3 DEF Zero, After1

LEMMA SequentialKept ==
  ASSUME legs' = legs
  PROVE  Sequential' = Sequential
  BY DEF Sequential, LegCount, IsRoute, Leg, Routed, LoadedBefore, Delivered, Tiles,
         ValueOf, OperandOf

-----------------------------------------------------------------------------
(***************************************************************************)
(* The inductive invariant: what is in the planes, what has been           *)
(* delivered, and what is on its way through the kernels, are those of the *)
(* legs carried out one after the other.                                   *)
(***************************************************************************)
\* The planes before the writer's leg, and once it is loaded.
Before == Sequential[wleg - 1].planes

Started == LoadedBefore(wleg, Before)

Expected(t, o) == OperandOf(wleg, t, o, Started)

Produced(t) == ValueOf(wleg, t, Started)

\* Loads of the writer's leg that have been split.
LoadsDone ==
    IF rleg > wleg \/ (rleg = wleg /\ rpc \notin {"load", "split", "sync"})
    THEN Len(Leg(wleg).loads)
    ELSE IF rpc \in {"load", "split"} THEN rtile - 1
    ELSE 0

LoadedSoFar(q) ==
    IF \E i \in 1 .. LoadsDone : q \in Leg(wleg).loads[i].places
    THEN Image(Leg(wleg).item, q) ELSE Before[q]

\* Tile t of the writer's leg has been written.
Landed(t) ==
    \/ t <= Popped
    \/ /\ wpc = "flush" /\ t < wtile + Batch
       /\ \A w \in issued : w.place # Leg(wleg).writes[t]

LandedAt(q) ==
    Flowing /\ \E t \in 1 .. Tiles(wleg) : Landed(t) /\ Leg(wleg).writes[t] = q

MemoryOK ==
    wleg <= LegCount =>
      /\ memory = [q \in Places |-> memory[q]]
      /\ \A q \in Places : ~LandedAt(q) => memory[q] = LoadedSoFar(q)
      /\ Flowing => \A t \in 1 .. Tiles(wleg) :
                      Landed(t) => memory[Leg(wleg).writes[t]] = Produced(t)

ResultsDone ==
    IF IsRoute(wleg) THEN 0
    ELSE IF wpc = "signal" THEN Len(Leg(wleg).results) ELSE wtile - 1

ResultsOf(n) == [i \in 1 .. n |-> [q \in Leg(wleg).results[i].places |-> Before[q]]]

DeliveredOK ==
    wleg <= LegCount =>
      delivered = Sequential[wleg - 1].results \o ResultsOf(ResultsDone)

SequentialOK ==
    wleg <= LegCount =>
      /\ Before = [q \in Places |-> Before[q]]
      /\ IsSeq(Sequential[wleg - 1].results)

InputsOK ==
    \A o \in Wanted : \A j \in 1 .. Len(input[o]) :
      input[o][j] = Expected(Packed + Held[o] + j, o)

ArrivedOK == \A o \in DOMAIN arrived : arrived[o] = Expected(rtile, o)

RegistersOK == \A j \in 1 .. Len(regs) : regs[j] = Expected(ctile, Register[j])

RingOK ==
    \A i \in 0 .. count - 1 :
      page[(head + i) % Buffering] = Produced(Popped + 1 + i)

IssuedOK ==
    \A w \in issued :
      /\ wpc = "flush"
      /\ \E i \in 0 .. Batch - 1 :
           w.page = head + i /\ w.place = Leg(wleg).writes[wtile + i]

CInv ==
    /\ SequentialOK /\ MemoryOK /\ DeliveredOK
    /\ InputsOK /\ ArrivedOK /\ RegistersOK /\ RingOK /\ IssuedOK

LEMMA InitCInv == Init => CInv
<1> SUFFICES ASSUME Init PROVE CInv
  OBVIOUS
<1>1. /\ legs \in Programs /\ rpc = "load" /\ rleg = 1 /\ rtile = 1
      /\ arrived = <<>> /\ input = [o \in Operands |-> <<>>] /\ regs = <<>>
      /\ count = 0 /\ wpc = "first" /\ wleg = 1 /\ wtile = 1 /\ issued = {}
      /\ memory = [q \in Places |-> Junk] /\ delivered = <<>>
  BY DEF Init
<1>2. LegCount \in Nat \ {0} /\ LegOK(1)
  BY <1>1, LegsOK
<1>3. Sequential[0] = [planes |-> [q \in Places |-> Junk], results |-> <<>>]
  BY <1>2, SequentialUnfolds
<1>4. Before = memory /\ Sequential[wleg - 1].results = <<>>
  BY <1>1, <1>3 DEF Before
<1>5. IsRoute(1) /\ Flowing
  BY <1>1, <1>2 DEF LegOK, Flowing
<1>6. SequentialOK
  BY <1>1, <1>4, EmptyIsSeq DEF SequentialOK
<1>7. MemoryOK
  <2>1. LoadsDone = 0 /\ Popped = 0
    BY <1>1 DEF LoadsDone, Popped
  <2>2. \A t \in 1 .. Tiles(wleg) : ~Landed(t)
    BY <1>1, <2>1 DEF Landed
  <2>3. \A q \in Places : LoadedSoFar(q) = memory[q]
    BY <1>4, <2>1 DEF LoadedSoFar
  <2>4. memory = [q \in Places |-> memory[q]]
    BY <1>1
  <2>5. QED
    BY <2>2, <2>3, <2>4 DEF MemoryOK
<1>8. DeliveredOK
  <2>1. ResultsDone = 0
    BY <1>1, <1>5 DEF ResultsDone
  <2>2. ResultsOf(0) = <<>>
    BY DEF ResultsOf
  <2>3. <<>> \o <<>> = <<>>
    BY EmptyIsSeq, ConcatNothing
  <2>4. QED
    BY <1>1, <1>4, <2>1, <2>2, <2>3 DEF DeliveredOK
<1>9. InputsOK
  BY <1>1, EmptyIsSeq DEF InputsOK, Wanted, Needs, Operands
<1>10. ArrivedOK /\ RegistersOK /\ RingOK /\ IssuedOK
  BY <1>1, EmptyIsSeq DEF ArrivedOK, RegistersOK, RingOK, IssuedOK
<1>11. QED
  BY <1>6, <1>7, <1>8, <1>9, <1>10 DEF CInv

-----------------------------------------------------------------------------
(***************************************************************************)
(* Facts about the legs and the state.                                     *)
(***************************************************************************)
LEMMA RouteTiles ==
  ASSUME IInv, NEW n \in 1 .. LegCount, IsRoute(n)
  PROVE  /\ \A t \in 1 .. Tiles(n), o \in Needs(n) :
              Leg(n).staged[t][o].places \subseteq Places
         /\ \A t, u \in 1 .. Tiles(n) :
              /\ t # u => Leg(n).writes[t] # Leg(n).writes[u]
              /\ t < u => \A o \in Needs(n) :
                            Leg(n).writes[t] \notin Leg(n).staged[u][o].places
<1> USE DEF LegCount, Leg, IsRoute, Tiles, Needs
<1>1. legs \in Programs
  BY DEF IInv, TypeOK
<1>2. legs \in Seq(LegType) /\ Len(legs[n].staged) = Len(legs[n].writes)
  BY <1>1, ProgramsAssumption
<1>3. legs[n] \in LegType
  BY <1>2
<1>4. legs[n].staged \in Seq([Operands -> [class : Classes, places : SUBSET Places]])
      /\ legs[n].writes \in Seq(Places)
  BY <1>3 DEF LegType
<1>5. \A t \in 1 .. Tiles(n), o \in Needs(n) :
        Leg(n).staged[t][o].places \subseteq Places
  <2>1. TAKE t \in 1 .. Tiles(n), o \in Needs(n)
  <2>2. legs[n].staged[t] \in [Operands -> [class : Classes, places : SUBSET Places]]
    BY <1>2, <1>4
  <2>3. o \in Operands
    BY DEF Operands
  <2>4. QED
    BY <2>2, <2>3
<1>6. \A t, u \in 1 .. Tiles(n) : t < u =>
        /\ Leg(n).writes[t] # Leg(n).writes[u]
        /\ \A o \in Needs(n) : Leg(n).writes[t] \notin Leg(n).staged[u][o].places
  BY <1>1, TilesAssumption
<1>7. \A t, u \in 1 .. Tiles(n) : t # u => t < u \/ u < t
  OBVIOUS
<1>8. QED
  BY <1>5, <1>6, <1>7

\* What has landed has been packed.
LEMMA LandedPacked ==
  ASSUME IInv, Flowing, NEW t \in 1 .. Tiles(wleg), Landed(t)
  PROVE  t <= Packed
<1>1. Packed \in Nat /\ Popped \in Nat /\ Popped <= Packed /\ count = Packed - Popped
  BY Flow DEF IInv, Conservation
<1>2. CASE t <= Popped
  BY <1>1, <1>2
<1>3. CASE wpc = "flush" /\ t < wtile + Batch
  <2>1. Batch \in {1, 2} /\ count >= Batch /\ Popped = wtile - 1 /\ wtile \in Nat
    BY <1>3, BatchFits, Here DEF IInv, WriterPlace, Popped, Known
  <2>2. QED
    BY <1>1, <1>3, <2>1
<1>4. QED
  BY <1>2, <1>3 DEF Landed

\* Once its reader is past the loads, a leg is loaded.
LEMMA AllLoaded ==
  ASSUME IInv, CInv, wleg <= LegCount, LoadsDone = Len(Leg(wleg).loads)
  PROVE  /\ \A q \in Places : LoadedSoFar(q) = Started[q]
         /\ DOMAIN Started = Places
<1>1. DOMAIN Before = Places
  BY DEF CInv, SequentialOK
<1>2. \A q : q \in UNION {Leg(wleg).loads[i].places : i \in 1 .. Len(Leg(wleg).loads)}
             <=> \E i \in 1 .. Len(Leg(wleg).loads) : q \in Leg(wleg).loads[i].places
  OBVIOUS
<1>3. QED
  BY <1>1, <1>2 DEF Started, LoadedBefore, LoadedSoFar

(***************************************************************************)
(* What the reader reads for a tile is what its leg found in the planes:   *)
(* the tiles that have landed since are not among it.                      *)
(***************************************************************************)
LEMMA ReadsExpected ==
  ASSUME IInv, CInv, rleg = wleg, Gathering, NEW o \in Needs(rleg),
         Pushed[o] = rtile - 1
  PROVE  View(o) = Expected(rtile, o)
<1>1. Known
  BY Here
<1>2. /\ wleg <= LegCount /\ IsRoute(wleg) /\ rtile <= Tiles(wleg) /\ Flowing
      /\ o \in Wanted /\ wleg \in 1 .. LegCount /\ rtile \in 1 .. Tiles(wleg)
  BY <1>1, LegsOK DEF IInv, ReaderPlace, Flowing, Wanted, Known, LegOK
<1>3. LoadsDone = Len(Leg(wleg).loads)
  BY DEF Gathering, Operands, LoadsDone
<1>4. \A q \in Places : LoadedSoFar(q) = Started[q]
  BY <1>2, <1>3, AllLoaded
<1>5. Packed \in Nat /\ Packed <= rtile - 1
  BY <1>2, Flow
<1>6. ASSUME NEW q \in StagedTile(o).places PROVE memory[q] = Started[q]
  <2>1. q \in Places
    BY <1>2, <1>6, RouteTiles DEF StagedTile
  <2>2. ASSUME LandedAt(q) PROVE FALSE
    <3>1. PICK t \in 1 .. Tiles(wleg) : Landed(t) /\ Leg(wleg).writes[t] = q
      BY <2>2 DEF LandedAt
    <3>2. t <= Packed
      BY <1>2, <3>1, LandedPacked
    <3>3. t < rtile
      BY <1>1, <1>5, <3>2 DEF Known
    <3>4. Leg(wleg).writes[t] \notin Leg(wleg).staged[rtile][o].places
      BY <1>2, <3>3, RouteTiles
    <3>5. QED
      BY <1>6, <3>1, <3>4 DEF StagedTile
  <2>3. QED
    BY <1>2, <1>4, <2>1, <2>2 DEF CInv, MemoryOK
<1>7. QED
  BY <1>6 DEF View, Expected, OperandOf, StagedTile

(***************************************************************************)
(* What a step leaves as it is while the writer stays on its leg.          *)
(***************************************************************************)
LEMMA SameLeg ==
  ASSUME legs' = legs, wleg' = wleg
  PROVE  /\ LegCount' = LegCount /\ Leg(wleg)' = Leg(wleg)
         /\ Tiles(wleg)' = Tiles(wleg) /\ Sequential' = Sequential
         /\ Before' = Before /\ Started' = Started
         /\ Flowing' = Flowing /\ Wanted' = Wanted
         /\ IsRoute(wleg)' = IsRoute(wleg)
         /\ \A t, o : Expected(t, o)' = Expected(t, o)
         /\ \A t : Produced(t)' = Produced(t)
         /\ \A n : ResultsOf(n)' = ResultsOf(n)
<1> USE DEF LegCount, Leg, IsRoute, Tiles, Needs
<1>1. Sequential' = Sequential
  BY SequentialKept
<1>2. Before' = Before
  BY <1>1 DEF Before
<1>3. Started' = Started
  BY <1>2 DEF Started, LoadedBefore
<1>4. Flowing' = Flowing /\ Wanted' = Wanted
  BY DEF Flowing, Wanted
<1>5. \A t, o : Expected(t, o)' = Expected(t, o)
  BY <1>3 DEF Expected, OperandOf
<1>6. \A t : Produced(t)' = Produced(t)
  BY <1>3 DEF Produced, ValueOf, OperandOf
<1>7. \A n : ResultsOf(n)' = ResultsOf(n)
  BY <1>2 DEF ResultsOf
<1>8. QED
  BY <1>1, <1>2, <1>3, <1>4, <1>5, <1>6, <1>7

\* Neither planes nor writer move.
LEMMA PlanesIdle ==
  ASSUME CInv, UNCHANGED <<legs, wvars, issued, head, memory, delivered>>,
         wleg <= LegCount => LoadsDone' = LoadsDone
  PROVE  SequentialOK' /\ MemoryOK' /\ DeliveredOK' /\ IssuedOK'
<1> USE DEF CInv
<1>1. /\ LegCount' = LegCount /\ Leg(wleg)' = Leg(wleg)
      /\ Tiles(wleg)' = Tiles(wleg) /\ Sequential' = Sequential
      /\ Before' = Before /\ Flowing' = Flowing /\ IsRoute(wleg)' = IsRoute(wleg)
      /\ \A t : Produced(t)' = Produced(t)
      /\ \A n : ResultsOf(n)' = ResultsOf(n)
  BY SameLeg
<1>2. Popped' = Popped /\ Batch' = Batch
  BY <1>1 DEF Popped, Batch
<1>3. \A t : Landed(t)' <=> Landed(t)
  BY <1>1, <1>2 DEF Landed
<1>4. \A q : LandedAt(q)' <=> LandedAt(q)
  BY <1>1, <1>3 DEF LandedAt
<1>5. wleg <= LegCount => \A q : LoadedSoFar(q)' = LoadedSoFar(q)
  BY <1>1 DEF LoadedSoFar
<1>6. SequentialOK'
  BY <1>1 DEF SequentialOK
<1>7. MemoryOK'
  BY <1>1, <1>3, <1>4, <1>5 DEF MemoryOK
<1>8. DeliveredOK'
  <2>1. ResultsDone' = ResultsDone
    BY <1>1 DEF ResultsDone
  <2>2. QED
    BY <1>1, <2>1 DEF DeliveredOK
<1>9. IssuedOK'
  BY <1>1, <1>2 DEF IssuedOK
<1>10. QED
  BY <1>6, <1>7, <1>8, <1>9

\* The compute kernel does not move, and nothing enters or leaves its buffers.
LEMMA ComputeIdle ==
  ASSUME CInv, UNCHANGED <<legs, wleg, cvars, input>>
  PROVE  InputsOK' /\ RegistersOK'
<1>1. /\ Wanted' = Wanted /\ \A t, o : Expected(t, o)' = Expected(t, o)
      /\ Tiles(wleg)' = Tiles(wleg)
  BY SameLeg
<1>2. Packed' = Packed /\ Held' = Held
  BY <1>1 DEF Packed, Held
<1>3. QED
  BY <1>1, <1>2 DEF CInv, InputsOK, RegistersOK

LEMMA RingIdle ==
  ASSUME CInv, UNCHANGED <<legs, wvars, ring>>
  PROVE  RingOK'
<1>1. Tiles(wleg)' = Tiles(wleg) /\ \A t : Produced(t)' = Produced(t)
  BY SameLeg
<1>2. Popped' = Popped
  BY <1>1 DEF Popped
<1>3. QED
  BY <1>1, <1>2 DEF CInv, RingOK

LEMMA ArrivedIdle ==
  ASSUME CInv, UNCHANGED <<legs, wleg, rtile, arrived>>
  PROVE  ArrivedOK'
  BY SameLeg DEF CInv, ArrivedOK

LEMMA NothingArrived ==
  ASSUME IInv, pending = {}
  PROVE  DOMAIN arrived = {}
  BY DEF IInv, TypeOK

-----------------------------------------------------------------------------
(***************************************************************************)
(* Reader.                                                                 *)
(***************************************************************************)
LEMMA RLoadExact ==
  ASSUME IInv, CInv, RLoad
  PROVE  CInv'
<1>1. /\ rpc = "load" /\ rpc' = "split"
      /\ UNCHANGED <<legs, rleg, rtile, staging, input, cvars, ring, wvars, issued,
                     memory, delivered>>
  BY DEF RLoad
<1>2. LoadsDone' = LoadsDone
  BY <1>1 DEF LoadsDone, Leg
<1>3. QED
  BY <1>1, <1>2, PlanesIdle, ComputeIdle, RingIdle, ArrivedIdle DEF CInv

LEMMA RPagesExact ==
  ASSUME IInv, CInv, RPages
  PROVE  CInv'
<1>1. /\ rpc = "pages" /\ rpc' = "source0"
      /\ UNCHANGED <<legs, rleg, rtile, staging, input, cvars, ring, wvars, issued,
                     memory, delivered>>
  BY DEF RPages
<1>2. LoadsDone' = LoadsDone
  BY <1>1 DEF LoadsDone, Leg
<1>3. QED
  BY <1>1, <1>2, PlanesIdle, ComputeIdle, RingIdle, ArrivedIdle DEF CInv

LEMMA RSplitExact ==
  ASSUME IInv, CInv, RSplit
  PROVE  CInv'
<1>1. Known
  BY Here
<1>2. /\ rpc = "split" /\ rleg' = rleg
      /\ memory' = [q \in DOMAIN memory |->
                      IF q \in Leg(rleg).loads[rtile].places
                      THEN Image(Leg(rleg).item, q) ELSE memory[q]]
      /\ IF rtile < Len(Leg(rleg).loads)
         THEN rtile' = rtile + 1 /\ rpc' = "load"
         ELSE rtile' = 1 /\ rpc' = "pages"
      /\ UNCHANGED <<legs, staging, input, cvars, ring, wvars, issued, delivered>>
  BY DEF RSplit
<1>3. /\ wleg = rleg /\ rleg <= LegCount /\ IsFirst(rleg) /\ IsRoute(rleg)
      /\ rtile <= Len(Leg(rleg).loads) /\ pending = {}
      /\ wpc = "first" /\ wtile = 1 /\ DOMAIN memory = Places
  BY <1>2 DEF IInv, ReaderPlace, Lockstep, Gathering, Operands, Dealt, WriterPlace, TypeOK
<1>4. /\ LegCount' = LegCount /\ Leg(wleg)' = Leg(wleg)
      /\ Tiles(wleg)' = Tiles(wleg) /\ Sequential' = Sequential
      /\ Before' = Before /\ Flowing' = Flowing /\ IsRoute(wleg)' = IsRoute(wleg)
      /\ \A n : ResultsOf(n)' = ResultsOf(n)
  BY <1>2, SameLeg
<1>5. LoadsDone = rtile - 1 /\ LoadsDone' = rtile
  <2>1. rtile < Len(Leg(rleg).loads) => LoadsDone' = rtile
    BY <1>1, <1>2, <1>3 DEF LoadsDone, Known
  <2>2. ~(rtile < Len(Leg(rleg).loads)) => LoadsDone' = rtile
    <3>1. Len(Leg(rleg).loads) \in Nat
      BY <1>1, <1>3 DEF Known, LegOK
    <3>2. ~(rtile < Len(Leg(rleg).loads)) => rtile = Len(Leg(rleg).loads)
      BY <1>1, <1>3, <3>1 DEF Known
    <3>3. ~(rtile < Len(Leg(rleg).loads)) => LoadsDone' = Len(Leg(rleg).loads)
      BY <1>2, <1>3, <1>4 DEF LoadsDone
    <3>4. QED
      BY <3>2, <3>3
  <2>3. QED
    BY <1>1, <1>2, <1>3, <2>1, <2>2 DEF LoadsDone, Known
<1>6. /\ \A t \in 1 .. Tiles(wleg) : ~Landed(t) /\ ~Landed(t)'
      /\ \A q : ~LandedAt(q) /\ ~LandedAt(q)'
  <2>1. Popped = 0 /\ Popped' = 0 /\ wpc' = "first"
    BY <1>2, <1>3 DEF Popped
  <2>2. \A t \in 1 .. Tiles(wleg) : ~Landed(t) /\ ~Landed(t)'
    BY <1>3, <2>1 DEF Landed
  <2>3. QED
    BY <1>4, <2>2 DEF LandedAt
<1>7. \A q \in Places : memory'[q] = LoadedSoFar(q)'
  <2>1. TAKE q \in Places
  <2>2. memory[q] = LoadedSoFar(q)
    BY <1>3, <1>6 DEF CInv, MemoryOK
  <2>3. \A i : i \in 1 .. rtile <=> i \in 1 .. rtile - 1 \/ i = rtile
    BY <1>1 DEF Known
  <2>4. LoadedSoFar(q)' = IF \E i \in 1 .. rtile : q \in Leg(wleg).loads[i].places
                          THEN Image(Leg(wleg).item, q) ELSE Before[q]
    BY <1>4, <1>5 DEF LoadedSoFar
  <2>5. QED
    BY <1>2, <1>3, <1>5, <2>2, <2>3, <2>4 DEF LoadedSoFar
<1>8. MemoryOK'
  <2>1. memory' = [q \in Places |-> memory'[q]]
    BY <1>2, <1>3
  <2>2. QED
    BY <1>2, <1>4, <1>6, <1>7, <2>1 DEF MemoryOK
<1>9. SequentialOK' /\ DeliveredOK'
  <2>1. ResultsDone' = ResultsDone
    BY <1>2, <1>4 DEF ResultsDone
  <2>2. QED
    BY <1>2, <1>4, <2>1 DEF CInv, SequentialOK, DeliveredOK
<1>10. IssuedOK'
  BY <1>2, <1>3 DEF CInv, IssuedOK
<1>11. ArrivedOK'
  BY <1>2, <1>3, NothingArrived DEF ArrivedOK
<1>12. QED
  BY <1>2, <1>8, <1>9, <1>10, <1>11, ComputeIdle, RingIdle DEF CInv

LEMMA ContinueExact ==
  ASSUME IInv, CInv, rpc \in {"sync", "skip"}, Continue, rpc = "sync" => wleg = rleg,
         UNCHANGED <<legs, rtile, staging, input, cvars, ring, wvars, issued, memory,
                     delivered>>
  PROVE  CInv'
<1>1. Known
  BY Here
<1>2. /\ rtile = 1
      /\ \/ rleg = LegCount + 1 /\ rpc' = "done" /\ rleg' = rleg
         \/ /\ rleg <= LegCount /\ IsRoute(rleg) /\ rpc = "sync" /\ rleg' = rleg
            /\ rpc' = IF IsFirst(rleg) THEN "load" ELSE "source0"
         \/ /\ rleg <= LegCount /\ ~IsRoute(rleg) /\ rpc = "sync"
            /\ rpc' = "skip" /\ rleg' = rleg
         \/ /\ rleg <= LegCount /\ ~IsRoute(rleg) /\ rpc' = "sync" /\ rleg' = rleg + 1
  BY ContinueCases
<1>3. wleg <= LegCount => LoadsDone' = LoadsDone
  <2>1. SUFFICES ASSUME wleg <= LegCount PROVE LoadsDone' = LoadsDone
    OBVIOUS
  <2>2. wleg \in {rleg, rleg + 1} /\ Leg(wleg)' = Leg(wleg)
    BY <1>1 DEF IInv, Lockstep, Known, Leg
  <2>3. ~IsFirst(wleg) => Len(Leg(wleg).loads) = 0
    BY EmptyIsSeq DEF IsFirst
  <2>4. CASE rleg <= LegCount /\ IsRoute(rleg) /\ rpc = "sync" /\ rleg' = rleg
             /\ rpc' = IF IsFirst(rleg) THEN "load" ELSE "source0"
    <3>1. wleg = rleg /\ LoadsDone = 0
      BY <1>1, <2>4 DEF LoadsDone, Known
    <3>2. LoadsDone' = 0
      <4>1. CASE IsFirst(rleg)
        BY <1>1, <1>2, <2>4, <3>1, <4>1 DEF LoadsDone, Known
      <4>2. CASE ~IsFirst(rleg)
        BY <1>1, <2>2, <2>3, <2>4, <3>1, <4>2 DEF LoadsDone, Known
      <4>3. QED
        BY <4>1, <4>2
    <3>3. QED
      BY <3>1, <3>2
  <2>5. CASE rleg <= LegCount /\ ~IsRoute(rleg)
    <3>1. ~IsFirst(rleg)
      BY <1>1, <2>5 DEF Known, LegOK
    <3>2. CASE wleg = rleg
      <4>1. Len(Leg(wleg).loads) = 0
        BY <2>3, <3>1, <3>2
      <4>2. LoadsDone = 0
        BY <1>1, <3>2, <4>1 DEF LoadsDone, Known
      <4>3. rpc' \notin {"load", "split"} /\ rleg' \in {rleg, rleg + 1}
        BY <1>2, <2>5
      <4>4. LoadsDone' = 0
        BY <1>1, <2>2, <3>2, <4>1, <4>3 DEF LoadsDone, Known
      <4>5. QED
        BY <4>2, <4>4
    <3>3. CASE wleg = rleg + 1
      <4>1. rpc = "skip" /\ LoadsDone = 0
        BY <1>1, <3>3 DEF LoadsDone, Known
      <4>2. rpc' = "sync" /\ rleg' = rleg + 1
        BY <1>1, <1>2, <2>5, <4>1 DEF Known
      <4>3. LoadsDone' = 0
        BY <1>1, <3>3, <4>2 DEF LoadsDone, Known
      <4>4. QED
        BY <4>1, <4>3
    <3>4. QED
      BY <2>2, <3>2, <3>3
  <2>6. rleg <= LegCount
    BY <1>1, <2>1, <2>2 DEF Known
  <2>7. QED
    BY <1>1, <1>2, <2>4, <2>5, <2>6 DEF Known
<1>4. QED
  BY <1>3, PlanesIdle, ComputeIdle, RingIdle, ArrivedIdle DEF CInv

LEMMA RSyncExact ==
  ASSUME IInv, CInv, RSync
  PROVE  CInv'
<1>1. Known
  BY Here
<1>2. /\ rpc = "sync" /\ sync = 1 /\ Continue
      /\ UNCHANGED <<legs, rtile, staging, input, cvars, ring, wvars, issued, memory,
                     delivered>>
  BY DEF RSync
<1>3. wleg = rleg
  BY <1>1, <1>2 DEF IInv, Lockstep, Known
<1>4. QED
  BY <1>2, <1>3, ContinueExact

LEMMA RSkipExact ==
  ASSUME IInv, CInv, RSkip
  PROVE  CInv'
<1>1. /\ rpc = "skip" /\ Continue
      /\ UNCHANGED <<legs, rtile, staging, input, cvars, ring, wvars, issued, memory,
                     delivered>>
  BY DEF RSkip
<1>2. QED
  BY <1>1, ContinueExact

(***************************************************************************)
(* An operand that the reader still has to push is that of its tile.       *)
(***************************************************************************)
LEMMA PendingPlace ==
  ASSUME IInv, NEW o \in pending
  PROVE  /\ rleg = wleg /\ wleg <= LegCount /\ Flowing /\ Gathering
         /\ o \in Needs(rleg) /\ o \in Wanted /\ o \in Operands
         /\ Pushed[o] = rtile - 1
<1>1. Known
  BY Here
<1>2. rleg = wleg /\ o \in Dealt
  BY DEF IInv, Lockstep, ReaderPlace
<1>3. Gathering
  BY <1>2 DEF Dealt, Gathering, Operands
<1>4. rleg <= LegCount /\ IsRoute(rleg)
  BY <1>3 DEF IInv, ReaderPlace
<1>5. rpc \in {"source1", "base"} => Leg(rleg).kind = "lift"
  BY DEF IInv, ReaderPlace
<1>6. o \in Needs(rleg) /\ o \in Operands
  BY <1>2, <1>5 DEF Dealt, Needs, Operands
<1>7. Pushed[o] = rtile - 1
  BY <1>1, <1>2, <1>3, <1>6 DEF Pushed, Known
<1>8. QED
  BY <1>2, <1>3, <1>4, <1>6, <1>7 DEF Flowing, Wanted

\* A tile pushed to a buffer is the one after those there and those taken.
LEMMA PushedElement ==
  ASSUME IInv, InputsOK, NEW o \in Wanted, NEW v, Pushed[o] = rtile - 1,
         v = Expected(rtile, o), NEW q, q = Append(input[o], v)
  PROVE  \A j \in 1 .. Len(q) : q[j] = Expected(Packed + Held[o] + j, o)
<1>1. Known
  BY Here
<1>2. o \in Operands /\ Flowing
  BY DEF Wanted, Needs, Operands
<1>3. Len(input[o]) = Pushed[o] - Packed - Held[o] /\ Packed \in Nat
  BY <1>2, Flow DEF IInv, Conservation
<1>4. Held[o] \in {0, 1}
  BY <1>2 DEF Held
<1>5. IsSeq(input[o])
  BY <1>2 DEF IInv, Buffers
<1>6. /\ Len(q) = Len(input[o]) + 1 /\ q[Len(input[o]) + 1] = v
      /\ \A j \in 1 .. Len(input[o]) : q[j] = input[o][j]
  BY <1>5, AppendIsSeq, AppendElements
<1>7. Packed + Held[o] + (Len(input[o]) + 1) = rtile
  BY <1>1, <1>3, <1>4 DEF Known
<1>8. TAKE j \in 1 .. Len(q)
<1>9. CASE j \in 1 .. Len(input[o])
  BY <1>6, <1>9 DEF InputsOK
<1>10. CASE j = Len(input[o]) + 1
  BY <1>6, <1>7, <1>10
<1>11. QED
  BY <1>1, <1>2, <1>6, <1>9, <1>10 DEF Known

LEMMA RStageExact ==
  ASSUME IInv, CInv, NEW o \in Operands, RStage(o)
  PROVE  CInv'
<1>1. Known
  BY Here
<1>2. /\ rpc = o
      /\ IF StagedTile(o).class = "shifted"
         THEN input' = [input EXCEPT ![o] = Append(@, View(o))] /\ pending' = pending
         ELSE pending' = pending \union {o} /\ input' = input
      /\ rpc' \in Operands \union {"barrier"}
      /\ UNCHANGED <<legs, rleg, rtile, arrived, cvars, ring, wvars, issued,
                     memory, delivered>>
  BY DEF RStage, After, Operands
<1>3. /\ wleg = rleg /\ rleg <= LegCount /\ IsRoute(rleg) /\ Gathering
      /\ rpc \in {"source1", "base"} => Leg(rleg).kind = "lift"
      /\ DOMAIN input = Operands /\ pending \subseteq Dealt
  BY <1>2 DEF IInv, Lockstep, ReaderPlace, Gathering, TypeOK
<1>4. o \in Needs(rleg) /\ o \in Wanted /\ o \notin Dealt
  BY <1>2, <1>3 DEF Needs, Operands, Wanted, Flowing, Dealt
<1>5. Pushed[o] = rtile - 1
  BY <1>1, <1>3, <1>4 DEF Pushed, Known
<1>6. View(o) = Expected(rtile, o)
  BY <1>3, <1>4, <1>5, ReadsExpected
<1>7. LoadsDone' = LoadsDone
  BY <1>2 DEF LoadsDone, Leg, Operands
<1>8. InputsOK' /\ RegistersOK'
  <2>1. CASE input' = input
    BY <1>2, <2>1, ComputeIdle
  <2>2. CASE input' = [input EXCEPT ![o] = Append(@, View(o))]
    <3>1. /\ Wanted' = Wanted /\ \A t, x : Expected(t, x)' = Expected(t, x)
          /\ Tiles(wleg)' = Tiles(wleg)
      BY <1>2, SameLeg
    <3>2. Packed' = Packed /\ Held' = Held
      BY <1>2, <3>1 DEF Packed, Held
    <3>3. input'[o] = Append(input[o], View(o))
          /\ \A x \in Operands : x # o => input'[x] = input[x]
      BY <1>3, <2>2
    <3>4. \A j \in 1 .. Len(input'[o]) : input'[o][j] = Expected(Packed + Held[o] + j, o)
      BY <1>4, <1>5, <1>6, <3>3, PushedElement DEF CInv
    <3>5. \A x \in Wanted : x \in Operands
      BY DEF Wanted, Needs, Operands
    <3>6. \A x \in Wanted : \A j \in 1 .. Len(input'[x]) :
            input'[x][j] = Expected(Packed + Held[x] + j, x)
      BY <3>3, <3>4, <3>5 DEF CInv, InputsOK
    <3>7. RegistersOK'
      BY <1>2, <3>1 DEF CInv, RegistersOK
    <3>8. QED
      BY <3>1, <3>2, <3>6, <3>7 DEF InputsOK
  <2>3. QED
    BY <1>2, <2>1, <2>2
<1>9. QED
  BY <1>2, <1>7, <1>8, PlanesIdle, RingIdle, ArrivedIdle DEF CInv

LEMMA NocReadExact ==
  ASSUME IInv, CInv, NocRead
  PROVE  CInv'
<1>1. PICK o \in Exact \ DOMAIN arrived :
        /\ arrived' = [a \in DOMAIN arrived \union {o} |->
                         IF a = o THEN View(o) ELSE arrived[a]]
        /\ UNCHANGED <<legs, rvars, pending, input, cvars, ring, wvars, issued,
                       memory, delivered>>
  BY DEF NocRead
<1>2. o \in pending
  BY <1>1 DEF Exact
<1>3. View(o) = Expected(rtile, o)
  BY <1>2, PendingPlace, ReadsExpected
<1>4. ArrivedOK'
  <2>1. \A t, x : Expected(t, x)' = Expected(t, x)
    BY <1>1, SameLeg
  <2>2. \A x \in DOMAIN arrived' : arrived'[x] = Expected(rtile, x)
    BY <1>1, <1>3 DEF CInv, ArrivedOK
  <2>3. QED
    BY <1>1, <2>1, <2>2 DEF ArrivedOK
<1>5. LoadsDone' = LoadsDone
  BY <1>1 DEF LoadsDone, Leg
<1>6. QED
  BY <1>1, <1>4, <1>5, PlanesIdle, ComputeIdle, RingIdle DEF CInv

LEMMA RPushExact ==
  ASSUME IInv, CInv, RPush
  PROVE  CInv'
<1>1. Known
  BY Here
<1>2. /\ rpc = "barrier" /\ Exact \subseteq DOMAIN arrived
      /\ input' = [o \in Operands |->
                     IF o \in pending
                     THEN Append(input[o], IF o \in Exact THEN arrived[o] ELSE View(o))
                     ELSE input[o]]
      /\ arrived' = <<>>
      /\ IF rtile < Tiles(rleg)
         THEN rtile' = rtile + 1 /\ rpc' = "source0" /\ rleg' = rleg
         ELSE rtile' = 1 /\ rpc' = "sync" /\ rleg' = rleg + 1
      /\ UNCHANGED <<legs, cvars, ring, wvars, issued, memory, delivered>>
  BY DEF RPush
<1>3. wleg \in {rleg, rleg + 1} /\ (wleg # rleg => rtile = Tiles(rleg))
      /\ rleg <= LegCount /\ Tiles(rleg) \in Nat
  BY <1>1, <1>2 DEF IInv, Lockstep, ReaderPlace, Gathering, Known, LegOK
<1>4. LoadsDone' = LoadsDone
  <2>1. Leg(wleg)' = Leg(wleg)
    BY <1>2, SameLeg
  <2>2. CASE wleg = rleg
    <3>1. LoadsDone = Len(Leg(wleg).loads)
      BY <1>2, <2>2 DEF LoadsDone
    <3>2. LoadsDone' = Len(Leg(wleg).loads)
      BY <1>1, <1>2, <2>1, <2>2 DEF LoadsDone, Known
    <3>3. QED
      BY <3>1, <3>2
  <2>3. CASE wleg = rleg + 1
    <3>1. LoadsDone = 0
      BY <1>1, <1>2, <2>3 DEF LoadsDone, Known
    <3>2. rleg' = wleg /\ rpc' = "sync" /\ wleg' = wleg
      BY <1>1, <1>2, <1>3, <2>3 DEF Known
    <3>3. LoadsDone' = 0
      BY <1>1, <3>2 DEF LoadsDone, Known
    <3>4. QED
      BY <3>1, <3>3
  <2>4. QED
    BY <1>3, <2>2, <2>3
<1>5. InputsOK' /\ RegistersOK'
  <2>1. /\ Wanted' = Wanted /\ \A t, x : Expected(t, x)' = Expected(t, x)
        /\ Tiles(wleg)' = Tiles(wleg)
    BY <1>2, SameLeg
  <2>2. Packed' = Packed /\ Held' = Held
    BY <1>2, <2>1 DEF Packed, Held
  <2>3. ASSUME NEW o \in Wanted
        PROVE  \A j \in 1 .. Len(input'[o]) :
                 input'[o][j] = Expected(Packed + Held[o] + j, o)
    <3>1. o \in Operands
      BY DEF Wanted, Needs, Operands
    <3>2. CASE o \notin pending
      BY <1>2, <3>1, <3>2 DEF CInv, InputsOK
    <3>3. CASE o \in pending
      <4>1. Pushed[o] = rtile - 1 /\ View(o) = Expected(rtile, o)
        BY <3>3, PendingPlace, ReadsExpected
      <4>2. o \in Exact => arrived[o] = Expected(rtile, o)
        BY <1>2 DEF CInv, ArrivedOK
      <4> DEFINE v == IF o \in Exact THEN arrived[o] ELSE View(o)
      <4>3. v = Expected(rtile, o)
        BY <4>1, <4>2
      <4>4. input'[o] = Append(input[o], v)
        BY <1>2, <3>1, <3>3
      <4> HIDE DEF v
      <4>5. QED
        BY <4>1, <4>3, <4>4, PushedElement DEF CInv
    <3>4. QED
      BY <3>2, <3>3
  <2>4. RegistersOK'
    BY <1>2, <2>1 DEF CInv, RegistersOK
  <2>5. QED
    BY <2>1, <2>2, <2>3, <2>4 DEF InputsOK
<1>6. ArrivedOK'
  <2>1. DOMAIN arrived' = {}
    BY <1>2
  <2>2. QED
    BY <2>1 DEF ArrivedOK
<1>7. QED
  BY <1>2, <1>4, <1>5, <1>6, PlanesIdle, RingIdle DEF CInv

-----------------------------------------------------------------------------
(***************************************************************************)
(* Compute.                                                                *)
(***************************************************************************)
LEMMA CTakeExact ==
  ASSUME IInv, CInv, CTake
  PROVE  CInv'
<1>1. Known
  BY Here
<1> DEFINE o == Register[Len(regs) + 1]
<1>2. /\ Len(regs) < 3 /\ input[o] # <<>>
      /\ regs' = Append(regs, Head(input[o]))
      /\ input' = [input EXCEPT ![o] = Tail(@)]
      /\ UNCHANGED <<legs, rvars, staging, cleg, ctile, ring, wvars, issued,
                     memory, delivered>>
  BY DEF CTake
<1>3. /\ o \in Operands /\ DOMAIN input = Operands
      /\ IsSeq(input[o]) /\ IsSeq(regs) /\ Len(regs) \in Nat
      /\ \/ Len(regs) = 0 /\ o = "source0"
         \/ Len(regs) = 1 /\ o = "source1"
         \/ Len(regs) = 2 /\ o = "base"
  <2>1. Len(regs) \in 0 .. 3
    BY <1>1 DEF Known
  <2>2. Len(regs) = 0 \/ Len(regs) = 1 \/ Len(regs) = 2
    BY <1>2, <2>1
  <2>3. Register[1] = "source0" /\ Register[2] = "source1" /\ Register[3] = "base"
    BY DEF Register
  <2>4. \/ Len(regs) = 0 /\ o = "source0"
        \/ Len(regs) = 1 /\ o = "source1"
        \/ Len(regs) = 2 /\ o = "base"
    <3>1. CASE Len(regs) = 0
      BY <2>3, <3>1
    <3>2. CASE Len(regs) = 1
      BY <2>3, <3>2
    <3>3. CASE Len(regs) = 2
      BY <2>3, <3>3
    <3>4. QED
      BY <2>2, <3>1, <3>2, <3>3
  <2> HIDE DEF o
  <2>5. o \in Operands
    BY <2>4 DEF Operands
  <2>6. Len(regs) \in Nat
    BY <2>1
  <2>7. DOMAIN input = Operands /\ IsSeq(input[o]) /\ IsSeq(regs)
    BY <2>5 DEF IInv, Buffers, TypeOK
  <2>8. QED
    BY <2>4, <2>5, <2>6, <2>7
<1>4. Register[Len(regs) + 1] = o
  OBVIOUS
<1> HIDE DEF o
<1>5. Len(input[o]) > 0 /\ o \in Wanted /\ cleg = wleg /\ Len(input[o]) \in Nat
  BY <1>1, <1>2, <1>3, TailIsSeq, Flow DEF Known
<1>6. Packed = ctile - 1 /\ ctile \in Nat
  BY <1>1, <1>5 DEF Packed, Known
<1>7. Held[o] = 0
  <2>1. CASE Len(regs) = 0 /\ o = "source0"
    BY <2>1 DEF Held, Operands
  <2>2. CASE Len(regs) = 1 /\ o = "source1"
    BY <2>2 DEF Held, Operands
  <2>3. CASE Len(regs) = 2 /\ o = "base"
    BY <2>3 DEF Held, Operands
  <2>4. QED
    BY <1>3, <2>1, <2>2, <2>3
<1>8. Head(input[o]) = Expected(ctile, o)
  <2>1. Head(input[o]) = input[o][1]
    BY <1>2, <1>3, TailElements
  <2>2. 1 \in 1 .. Len(input[o])
    BY <1>5
  <2>3. input[o][1] = Expected(Packed + Held[o] + 1, o)
    BY <1>5, <2>2 DEF CInv, InputsOK
  <2>4. Packed + Held[o] + 1 = ctile
    BY <1>6, <1>7
  <2>5. QED
    BY <2>1, <2>3, <2>4
<1>9. /\ Wanted' = Wanted /\ \A t, x : Expected(t, x)' = Expected(t, x)
      /\ Tiles(wleg)' = Tiles(wleg)
  BY <1>2, SameLeg
<1>10. /\ Len(regs') = Len(regs) + 1 /\ regs'[Len(regs) + 1] = Head(input[o])
       /\ \A j \in 1 .. Len(regs) : regs'[j] = regs[j]
  BY <1>2, <1>3, AppendIsSeq, AppendElements
<1>11. RegistersOK'
  <2>1. SUFFICES ASSUME NEW j \in 1 .. Len(regs')
                 PROVE  regs'[j] = Expected(ctile, Register[j])
    BY <1>2, <1>9 DEF RegistersOK
  <2>2. CASE j \in 1 .. Len(regs)
    BY <1>10, <2>2 DEF CInv, RegistersOK
  <2>3. CASE j = Len(regs) + 1
    BY <1>4, <1>8, <1>10, <2>3
  <2>4. QED
    BY <1>3, <1>10, <2>2, <2>3
<1>12. Held'[o] = 1 /\ \A x \in Operands : x # o => Held'[x] = Held[x]
  <2>1. CASE Len(regs) = 0 /\ o = "source0"
    BY <1>10, <2>1 DEF Held, Operands
  <2>2. CASE Len(regs) = 1 /\ o = "source1"
    BY <1>10, <2>2 DEF Held, Operands
  <2>3. CASE Len(regs) = 2 /\ o = "base"
    BY <1>10, <2>3 DEF Held, Operands
  <2>4. QED
    BY <1>3, <2>1, <2>2, <2>3
<1>13. InputsOK'
  <2>1. Packed' = Packed
    BY <1>2, <1>9 DEF Packed
  <2>2. input'[o] = Tail(input[o]) /\ \A x \in Operands : x # o => input'[x] = input[x]
    BY <1>2, <1>3
  <2>3. ASSUME NEW x \in Wanted, NEW j \in 1 .. Len(input'[x])
        PROVE  input'[x][j] = Expected(Packed + Held'[x] + j, x)
    <3>1. x \in Operands
      BY DEF Wanted, Needs, Operands
    <3>2. CASE x # o
      BY <1>12, <2>2, <2>3, <3>1, <3>2 DEF CInv, InputsOK
    <3>3. CASE x = o
      <4>1. Len(input'[o]) = Len(input[o]) - 1
            /\ \A i \in 1 .. Len(input[o]) - 1 : input'[o][i] = input[o][i + 1]
        BY <1>2, <1>3, <2>2, TailIsSeq, TailElements
      <4>2. j \in 1 .. Len(input[o]) - 1 /\ j + 1 \in 1 .. Len(input[o]) /\ j \in Nat
        BY <1>5, <2>3, <3>3, <4>1
      <4>3. input'[o][j] = Expected(Packed + Held[o] + (j + 1), o)
        BY <1>5, <4>1, <4>2 DEF CInv, InputsOK
      <4>4. Packed + Held[o] + (j + 1) = Packed + Held'[o] + j
        BY <1>6, <1>7, <1>12, <4>2
      <4>5. QED
        BY <3>3, <4>3, <4>4
    <3>4. QED
      BY <3>2, <3>3
  <2>4. QED
    BY <1>9, <2>1, <2>3 DEF InputsOK
<1>14. LoadsDone' = LoadsDone
  BY <1>2 DEF LoadsDone, Leg
<1>15. QED
  BY <1>2, <1>11, <1>13, <1>14, PlanesIdle, RingIdle, ArrivedIdle DEF CInv

(***************************************************************************)
(* What the compute kernel packs is put behind what the ring holds.        *)
(***************************************************************************)
LEMMA EmitExact ==
  ASSUME IInv, CInv, Flowing, cleg = wleg, NEW v, Emit(v), v = Produced(ctile),
         UNCHANGED <<legs, rvars, staging, wvars, issued, memory, delivered>>
  PROVE  /\ SequentialOK' /\ MemoryOK' /\ DeliveredOK' /\ IssuedOK'
         /\ RingOK' /\ ArrivedOK'
         /\ Packed \in Nat /\ Packed' = Packed + 1 /\ Packed = ctile - 1
<1>1. Known
  BY Here
<1>2. /\ count < Buffering /\ head' = head /\ count' = count + 1
      /\ Packed \in Nat /\ Popped \in Nat /\ Packed' = Packed + 1
  BY EmitCounts
<1>3. page' = [page EXCEPT ![(head + count) % Buffering] = v]
  BY DEF Emit
<1>4. Packed = ctile - 1
  BY <1>1 DEF Packed, Known
<1>5. SequentialOK' /\ MemoryOK' /\ DeliveredOK' /\ IssuedOK'
  <2>1. LoadsDone' = LoadsDone
    BY DEF LoadsDone, Leg
  <2>2. QED
    BY <1>2, <2>1, PlanesIdle
<1>6. ArrivedOK'
  BY ArrivedIdle
<1>7. RingOK'
  <2>1. Tiles(wleg)' = Tiles(wleg) /\ \A t : Produced(t)' = Produced(t)
    BY SameLeg
  <2>2. Popped' = Popped
    BY <2>1 DEF Popped
  <2>3. /\ Buffering \in Nat \ {0} /\ head \in 0 .. Buffering - 1
        /\ count \in 0 .. Buffering /\ DOMAIN page = 0 .. Buffering - 1
    BY <1>1 DEF IInv, TypeOK, Known
  <2>4. Popped + 1 + count = ctile
    <3>1. count = Packed - Popped
      BY DEF IInv, Conservation
    <3>2. QED
      BY <1>1, <1>2, <1>4, <3>1 DEF Known
  <2>5. ASSUME NEW i \in 0 .. count
        PROVE  page'[(head + i) % Buffering] = Produced(Popped + 1 + i)
    <3>1. (head + i) % Buffering \in DOMAIN page
      BY <2>3
    <3>2. CASE i = count
      BY <1>3, <2>4, <3>1, <3>2
    <3>3. CASE i # count
      <4>1. i \in 0 .. count - 1 /\ i \in 0 .. Buffering /\ count \in 0 .. Buffering
        BY <1>2, <2>3, <3>3
      <4>2. (head + i) % Buffering # (head + count) % Buffering
        <5>1. (head + i) % Buffering
                = IF head + i < Buffering THEN head + i ELSE head + i - Buffering
          BY <2>3, <4>1, RingIndex
        <5>2. (head + count) % Buffering
                = IF head + count < Buffering THEN head + count
                                              ELSE head + count - Buffering
          BY <2>3, RingIndex
        <5> DEFINE a == (head + i) % Buffering
                   b == (head + count) % Buffering
        <5>3. a = (IF head + i < Buffering THEN head + i ELSE head + i - Buffering)
              /\ b = IF head + count < Buffering THEN head + count
                                                 ELSE head + count - Buffering
          BY <5>1, <5>2
        <5> HIDE DEF a, b
        <5>4. a # b
          BY <1>2, <2>3, <4>1, <5>3
        <5>5. QED
          BY <5>4 DEF a, b
      <4>3. page'[(head + i) % Buffering] = page[(head + i) % Buffering]
        BY <1>3, <3>1, <4>2
      <4>4. QED
        BY <4>1, <4>3 DEF CInv, RingOK
    <3>4. QED
      BY <3>2, <3>3
  <2>6. \A i \in 0 .. count' - 1 : i \in 0 .. count
    BY <1>2, <2>3
  <2>7. QED
    BY <1>2, <2>1, <2>2, <2>5, <2>6 DEF RingOK
<1>8. QED
  BY <1>2, <1>4, <1>5, <1>6, <1>7

LEMMA CPackExact ==
  ASSUME IInv, CInv, CPack
  PROVE  CInv'
<1>1. Known
  BY Here
<1>2. /\ Len(regs) = 3 /\ Emit(Lift(cleg, ctile, regs[1], regs[2], regs[3]))
      /\ regs' = <<>>
      /\ UNCHANGED <<legs, rvars, staging, input, wvars, issued, memory, delivered>>
  BY DEF CPack
<1>3. Flowing /\ "base" \in Wanted /\ cleg = wleg
  BY <1>2, Flow
<1>4. Leg(wleg).kind = "lift" /\ Wanted = Operands
  BY <1>3 DEF Wanted, Needs
<1>5. Lift(cleg, ctile, regs[1], regs[2], regs[3]) = Produced(ctile)
  <2>1. \A j \in 1 .. 3 : regs[j] = Expected(ctile, Register[j])
    BY <1>2 DEF CInv, RegistersOK
  <2>2. regs[1] = Expected(ctile, "source0") /\ regs[2] = Expected(ctile, "source1")
        /\ regs[3] = Expected(ctile, "base")
    <3>1. Register[1] = "source0" /\ Register[2] = "source1" /\ Register[3] = "base"
      BY DEF Register
    <3>2. 1 \in 1 .. 3 /\ 2 \in 1 .. 3 /\ 3 \in 1 .. 3
      OBVIOUS
    <3>3. QED
      BY <2>1, <3>1, <3>2
  <2>3. QED
    BY <1>3, <1>4, <2>2 DEF Produced, ValueOf, Expected
<1>6. /\ SequentialOK' /\ MemoryOK' /\ DeliveredOK' /\ IssuedOK'
      /\ RingOK' /\ ArrivedOK' /\ Packed \in Nat /\ Packed' = Packed + 1
  BY <1>2, <1>3, <1>5, EmitExact
<1>7. Len(regs') = 0
  BY <1>2, EmptyIsSeq
<1>8. InputsOK'
  <2>1. Wanted' = Wanted /\ \A t, x : Expected(t, x)' = Expected(t, x)
    BY <1>2, SameLeg
  <2>2. \A x \in Operands : Held'[x] = 0 /\ Held[x] = 1
    BY <1>2, <1>7 DEF Held, Operands
  <2>3. ASSUME NEW x \in Wanted, NEW j \in 1 .. Len(input[x])
        PROVE  input[x][j] = Expected(Packed' + Held'[x] + j, x)
    <3>1. input[x][j] = Expected(Packed + Held[x] + j, x)
      BY DEF CInv, InputsOK
    <3>2. j \in Nat /\ x \in Operands
      BY <1>1, <1>4 DEF Known
    <3>3. Packed + Held[x] + j = Packed' + Held'[x] + j
      BY <1>6, <2>2, <3>2
    <3>4. QED
      BY <3>1, <3>3
  <2>4. QED
    BY <1>2, <2>1, <2>3 DEF InputsOK
<1>9. RegistersOK'
  BY <1>7 DEF RegistersOK
<1>10. QED
  BY <1>6, <1>8, <1>9 DEF CInv

LEMMA CScaleExact ==
  ASSUME IInv, CInv, CScale
  PROVE  CInv'
<1>1. Known
  BY Here
<1>2. /\ Computes("scale") /\ input["source0"] # <<>>
      /\ Emit(Scale(cleg, ctile, Head(input["source0"])))
      /\ input' = [input EXCEPT !["source0"] = Tail(@)]
      /\ UNCHANGED <<legs, rvars, staging, regs, wvars, issued, memory, delivered>>
  BY DEF CScale
<1>3. /\ IsSeq(input["source0"]) /\ Len(input["source0"]) \in Nat
      /\ "source0" \in Operands /\ DOMAIN input = Operands
  BY <1>1 DEF IInv, Buffers, Operands, Known, TypeOK
<1>4. /\ Len(input["source0"]) > 0 /\ cleg = wleg /\ Flowing
      /\ Wanted = {"source0"} /\ Leg(wleg).kind = "scale" /\ Len(regs) = 0
  <2>1. Len(input["source0"]) > 0
    BY <1>2, <1>3, TailIsSeq
  <2>2. "source0" \in Wanted /\ cleg = wleg
    BY <1>3, <2>1, Flow
  <2>3. Flowing /\ Wanted = {"source0"} /\ Leg(wleg).kind = "scale"
    BY <1>2, <2>2 DEF Wanted, Computes, Needs
  <2>4. Len(regs) = 0
    BY <1>1, <2>3, Flow DEF Known
  <2>5. QED
    BY <2>1, <2>2, <2>3, <2>4
<1>5. Packed = ctile - 1 /\ Packed \in Nat /\ Held["source0"] = 0
  BY <1>1, <1>4, Flow DEF Packed, Held, Operands, Known
<1>6. Head(input["source0"]) = Expected(ctile, "source0")
  <2>1. Head(input["source0"]) = input["source0"][1]
    BY <1>2, <1>3, TailElements
  <2>2. 1 \in 1 .. Len(input["source0"])
    BY <1>3, <1>4
  <2>3. input["source0"][1] = Expected(Packed + Held["source0"] + 1, "source0")
    BY <1>4, <2>2 DEF CInv, InputsOK
  <2>4. Packed + Held["source0"] + 1 = ctile
    BY <1>1, <1>5 DEF Known
  <2>5. QED
    BY <2>1, <2>3, <2>4
<1>7. Scale(cleg, ctile, Head(input["source0"])) = Produced(ctile)
  BY <1>4, <1>6 DEF Produced, ValueOf, Expected
<1>8. /\ SequentialOK' /\ MemoryOK' /\ DeliveredOK' /\ IssuedOK'
      /\ RingOK' /\ ArrivedOK' /\ Packed' = Packed + 1
  BY <1>2, <1>4, <1>7, EmitExact
<1>9. InputsOK'
  <2>1. Wanted' = Wanted /\ \A t, x : Expected(t, x)' = Expected(t, x)
    BY <1>2, SameLeg
  <2>2. Held' = Held
    BY <1>2 DEF Held
  <2>3. input'["source0"] = Tail(input["source0"])
    BY <1>2, <1>3
  <2>4. /\ Len(input'["source0"]) = Len(input["source0"]) - 1
        /\ \A i \in 1 .. Len(input["source0"]) - 1 :
             input'["source0"][i] = input["source0"][i + 1]
    BY <1>2, <1>3, <2>3, TailIsSeq, TailElements
  <2>5. ASSUME NEW j \in 1 .. Len(input'["source0"])
        PROVE  input'["source0"][j] = Expected(Packed' + Held'["source0"] + j, "source0")
    <3>1. j \in 1 .. Len(input["source0"]) - 1 /\ j + 1 \in 1 .. Len(input["source0"])
          /\ j \in Nat
      BY <1>3, <2>4, <2>5
    <3>2. input["source0"][j + 1] = Expected(Packed + Held["source0"] + (j + 1), "source0")
      BY <1>4, <3>1 DEF CInv, InputsOK
    <3>3. Packed + Held["source0"] + (j + 1) = Packed' + Held'["source0"] + j
      BY <1>5, <1>8, <2>2, <3>1
    <3>4. QED
      BY <2>4, <3>1, <3>2, <3>3
  <2>6. QED
    BY <1>4, <2>1, <2>5 DEF InputsOK
<1>10. RegistersOK'
  BY <1>2, <1>4 DEF RegistersOK
<1>11. QED
  BY <1>8, <1>9, <1>10 DEF CInv

-----------------------------------------------------------------------------
(***************************************************************************)
(* Writer.                                                                 *)
(***************************************************************************)
LEMMA WFirstExact ==
  ASSUME IInv, CInv, WFirst
  PROVE  CInv'
<1>1. /\ wpc = "first" /\ wpc' = "take"
      /\ UNCHANGED <<legs, rvars, staging, input, cvars, ring, wleg, wtile, issued,
                     memory, delivered>>
  BY DEF WFirst
<1>2. /\ LegCount' = LegCount /\ Leg(wleg)' = Leg(wleg)
      /\ Tiles(wleg)' = Tiles(wleg) /\ Sequential' = Sequential
      /\ Before' = Before /\ Flowing' = Flowing /\ IsRoute(wleg)' = IsRoute(wleg)
      /\ \A t : Produced(t)' = Produced(t)
      /\ \A n : ResultsOf(n)' = ResultsOf(n)
  BY <1>1, SameLeg
<1>3. Popped' = Popped /\ LoadsDone' = LoadsDone /\ ResultsDone' = ResultsDone
  BY <1>1, <1>2 DEF Popped, LoadsDone, ResultsDone
<1>4. \A t : Landed(t)' <=> Landed(t)
  BY <1>1, <1>2, <1>3 DEF Landed
<1>5. \A q : LandedAt(q)' <=> LandedAt(q)
  BY <1>2, <1>4 DEF LandedAt
<1>6. \A q : LoadedSoFar(q)' = LoadedSoFar(q)
  BY <1>1, <1>2, <1>3 DEF LoadedSoFar
<1>7. MemoryOK'
  BY <1>1, <1>2, <1>4, <1>5, <1>6 DEF CInv, MemoryOK
<1>8. SequentialOK' /\ DeliveredOK'
  BY <1>1, <1>2, <1>3 DEF CInv, SequentialOK, DeliveredOK
<1>9. IssuedOK'
  BY <1>1 DEF CInv, IssuedOK
<1>10. RingOK'
  BY <1>1, <1>2, <1>3 DEF CInv, RingOK
<1>11. QED
  BY <1>1, <1>7, <1>8, <1>9, <1>10, ComputeIdle, ArrivedIdle DEF CInv

LEMMA WIssueExact ==
  ASSUME IInv, CInv, WIssue
  PROVE  CInv'
<1>1. /\ wpc = "take" /\ wpc' = "flush"
      /\ issued' = {[page |-> head + i, place |-> Leg(wleg).writes[wtile + i]] :
                      i \in 0 .. Batch - 1}
      /\ UNCHANGED <<legs, rvars, staging, input, cvars, ring, wleg, wtile, memory,
                     delivered>>
  BY DEF WIssue
<1>2. /\ Batch \in {1, 2} /\ wtile + Batch <= Tiles(wleg) + 1 /\ Flowing
      /\ Tiles(wleg) \in Nat
  BY <1>1, BatchFits
<1>3. Known
  BY Here
<1>4. /\ LegCount' = LegCount /\ Leg(wleg)' = Leg(wleg)
      /\ Tiles(wleg)' = Tiles(wleg) /\ Sequential' = Sequential
      /\ Before' = Before /\ Flowing' = Flowing /\ IsRoute(wleg)' = IsRoute(wleg)
      /\ \A t : Produced(t)' = Produced(t)
      /\ \A n : ResultsOf(n)' = ResultsOf(n)
  BY <1>1, SameLeg
<1>5. /\ Popped' = Popped /\ Popped = wtile - 1
      /\ LoadsDone' = LoadsDone /\ ResultsDone' = ResultsDone /\ Batch' = Batch
  BY <1>1, <1>4 DEF Popped, LoadsDone, ResultsDone, Batch
<1>6. ASSUME NEW t \in 1 .. Tiles(wleg) PROVE Landed(t)' <=> Landed(t)
  <2>1. Landed(t) <=> t <= Popped
    BY <1>1 DEF Landed
  <2>2. t <= Popped => Landed(t)'
    BY <1>5 DEF Landed
  <2>3. ASSUME ~(t <= Popped), t < wtile + Batch
        PROVE  \E w \in issued' : w.place = Leg(wleg).writes[t]
    <3>1. t - wtile \in 0 .. Batch - 1 /\ wtile + (t - wtile) = t
      BY <1>2, <1>3, <1>5, <2>3 DEF Known
    <3>2. [page |-> head + (t - wtile), place |-> Leg(wleg).writes[wtile + (t - wtile)]]
            \in issued'
      BY <1>1, <3>1
    <3>3. QED
      BY <3>1, <3>2
  <2>4. Landed(t)' => t <= Popped
    BY <1>1, <1>4, <1>5, <2>3 DEF Landed
  <2>5. QED
    BY <2>1, <2>2, <2>4
<1>7. \A q : LandedAt(q)' <=> LandedAt(q)
  BY <1>4, <1>6 DEF LandedAt
<1>8. \A q : LoadedSoFar(q)' = LoadedSoFar(q)
  BY <1>1, <1>4, <1>5 DEF LoadedSoFar
<1>9. MemoryOK'
  BY <1>1, <1>4, <1>6, <1>7, <1>8 DEF CInv, MemoryOK
<1>10. SequentialOK' /\ DeliveredOK'
  BY <1>1, <1>4, <1>5 DEF CInv, SequentialOK, DeliveredOK
<1>11. IssuedOK'
  <2>1. ASSUME NEW w \in issued'
        PROVE  \E i \in 0 .. Batch - 1 :
                 w.page = head + i /\ w.place = Leg(wleg).writes[wtile + i]
    BY <1>1, <2>1
  <2>2. QED
    BY <1>1, <1>4, <1>5, <2>1 DEF IssuedOK
<1>12. RingOK'
  BY <1>1, <1>4, <1>5 DEF CInv, RingOK
<1>13. QED
  BY <1>1, <1>9, <1>10, <1>11, <1>12, ComputeIdle, ArrivedIdle DEF CInv

LEMMA NocLandExact ==
  ASSUME IInv, CInv, NocLand
  PROVE  CInv'
<1>1. PICK w \in issued :
        /\ issued' = issued \ {w}
        /\ memory' = [memory EXCEPT ![w.place] = page[w.page]]
        /\ UNCHANGED <<legs, rvars, staging, input, cvars, ring, wvars, delivered>>
  BY DEF NocLand
<1>2. Known
  BY Here
<1>3. wpc = "flush"
  BY DEF CInv, IssuedOK
<1>4. PICK i \in 0 .. Batch - 1 :
        w.page = head + i /\ w.place = Leg(wleg).writes[wtile + i]
  BY DEF CInv, IssuedOK
<1>5. /\ Batch \in {1, 2} /\ head + Batch <= Buffering
      /\ wtile + Batch <= Tiles(wleg) + 1 /\ Tiles(wleg) \in Nat \ {0}
      /\ Flowing /\ wleg <= LegCount /\ IsRoute(wleg) /\ count >= Batch
      /\ wleg \in 1 .. LegCount
  BY <1>2, <1>3, BatchFits DEF Flowing, IInv, WriterPlace, Known
<1> DEFINE t == wtile + i
<1>6. t \in 1 .. Tiles(wleg) /\ wtile <= t /\ t < wtile + Batch /\ i \in Nat
  BY <1>2, <1>5 DEF Known
<1>7. /\ LegCount' = LegCount /\ Leg(wleg)' = Leg(wleg)
      /\ Tiles(wleg)' = Tiles(wleg) /\ Sequential' = Sequential
      /\ Before' = Before /\ Flowing' = Flowing /\ IsRoute(wleg)' = IsRoute(wleg)
      /\ \A u : Produced(u)' = Produced(u)
      /\ \A n : ResultsOf(n)' = ResultsOf(n)
  BY <1>1, SameLeg
<1>8. /\ Popped' = Popped /\ Popped = wtile - 1
      /\ LoadsDone' = LoadsDone /\ ResultsDone' = ResultsDone /\ Batch' = Batch
  BY <1>1, <1>3, <1>7 DEF Popped, LoadsDone, ResultsDone, Batch
<1>9. \A u, v \in 1 .. Tiles(wleg) : u # v => Leg(wleg).writes[u] # Leg(wleg).writes[v]
  BY <1>5, RouteTiles
<1>10. page[w.page] = Produced(t)
  <2>1. head \in 0 .. Buffering - 1 /\ count \in 0 .. Buffering
    BY DEF IInv, TypeOK
  <2>2. i \in 0 .. count - 1 /\ i \in 0 .. Buffering /\ head + i < Buffering
        /\ Buffering \in Nat \ {0}
    BY <1>2, <1>5, <2>1 DEF Known
  <2>3. (head + i) % Buffering = head + i
    BY <2>1, <2>2, RingIndex
  <2>4. page[(head + i) % Buffering] = Produced(Popped + 1 + i)
    BY <2>2 DEF CInv, RingOK
  <2>5. Popped + 1 + i = t
    BY <1>2, <1>6, <1>8 DEF Known
  <2>6. QED
    BY <1>4, <2>3, <2>4, <2>5
<1>11. ASSUME NEW v \in issued, v.place = w.place PROVE v = w
  <2>1. PICK j \in 0 .. Batch - 1 :
          v.page = head + j /\ v.place = Leg(wleg).writes[wtile + j]
    BY DEF CInv, IssuedOK
  <2>2. wtile + j \in 1 .. Tiles(wleg) /\ j \in Nat
    BY <1>2, <1>5, <2>1 DEF Known
  <2>3. wtile + j = t
    BY <1>4, <1>6, <1>9, <1>11, <2>1, <2>2
  <2>4. j = i
    BY <1>2, <1>6, <2>2, <2>3 DEF Known
  <2>5. v \in [page : 0 .. Buffering - 1, place : Places]
        /\ w \in [page : 0 .. Buffering - 1, place : Places]
    BY DEF IInv, TypeOK
  <2>6. QED
    BY <1>4, <1>11, <2>1, <2>4, <2>5
<1>12. w.place = Leg(wleg).writes[t]
  BY <1>4
<1> HIDE DEF t
<1>13. ASSUME NEW u \in 1 .. Tiles(wleg)
       PROVE  Landed(u)' <=> (Landed(u) \/ u = t)
  <2>1. CASE u = t
    <3>1. \A v \in issued \ {w} : v.place # Leg(wleg).writes[u]
      BY <1>11, <1>12, <2>1
    <3>2. QED
      BY <1>1, <1>3, <1>6, <1>7, <1>8, <2>1, <3>1 DEF Landed
  <2>2. CASE u # t
    <3>1. w.place # Leg(wleg).writes[u]
      BY <1>6, <1>9, <1>12, <2>2
    <3>2. (\A v \in issued \ {w} : v.place # Leg(wleg).writes[u])
            <=> (\A v \in issued : v.place # Leg(wleg).writes[u])
      BY <3>1
    <3>3. QED
      BY <1>1, <1>3, <1>7, <1>8, <2>2, <3>2 DEF Landed
  <2>3. QED
    BY <2>1, <2>2
<1>14. \A q : LandedAt(q)' <=> (LandedAt(q) \/ q = w.place)
  BY <1>5, <1>6, <1>7, <1>12, <1>13 DEF LandedAt
<1>15. \A q : LoadedSoFar(q)' = LoadedSoFar(q)
  BY <1>1, <1>7, <1>8 DEF LoadedSoFar
<1>16. memory = [q \in Places |-> memory[q]] /\ w.place \in Places
  BY <1>5 DEF CInv, MemoryOK, IInv, TypeOK
<1>17. memory'[w.place] = page[w.page]
       /\ \A q \in Places : q # w.place => memory'[q] = memory[q]
  BY <1>1, <1>16
<1>18. memory' = [q \in Places |-> memory'[q]]
  BY <1>1, <1>16
<1>19. MemoryOK'
  <2>1. ASSUME NEW q \in Places, ~LandedAt(q)' PROVE memory'[q] = LoadedSoFar(q)
    <3>1. ~LandedAt(q) /\ q # w.place
      BY <1>14, <2>1
    <3>2. QED
      BY <1>5, <1>17, <3>1 DEF CInv, MemoryOK
  <2>2. ASSUME NEW u \in 1 .. Tiles(wleg), Landed(u)'
        PROVE  memory'[Leg(wleg).writes[u]] = Produced(u)
    <3>1. CASE u = t
      BY <1>10, <1>12, <1>17, <3>1
    <3>2. CASE u # t
      <4>1. Landed(u)
        BY <1>13, <2>2, <3>2
      <4>2. Leg(wleg).writes[u] # w.place
        BY <1>6, <1>9, <1>12, <3>2
      <4>3. Leg(wleg).writes[u] \in Places
        BY <1>2, <1>5 DEF Known, LegOK
      <4>4. QED
        BY <1>5, <1>17, <4>1, <4>2, <4>3 DEF CInv, MemoryOK
    <3>3. QED
      BY <3>1, <3>2
  <2>3. QED
    BY <1>1, <1>7, <1>15, <1>18, <2>1, <2>2 DEF MemoryOK
<1>20. SequentialOK' /\ DeliveredOK'
  BY <1>1, <1>7, <1>8 DEF CInv, SequentialOK, DeliveredOK
<1>21. IssuedOK'
  BY <1>1, <1>7, <1>8 DEF CInv, IssuedOK
<1>22. QED
  BY <1>1, <1>19, <1>20, <1>21, ComputeIdle, RingIdle, ArrivedIdle DEF CInv

LEMMA WPopExact ==
  ASSUME IInv, CInv, WPop
  PROVE  CInv'
<1>1. Known
  BY Here
<1>2. /\ wpc = "flush" /\ issued = {}
      /\ head' = (head + Batch) % Buffering /\ count' = count - Batch
      /\ \/ wtile + Batch <= Tiles(wleg) /\ wtile' = wtile + Batch /\ wpc' = "take"
         \/ ~(wtile + Batch <= Tiles(wleg)) /\ wtile' = 1 /\ wpc' = "signal"
      /\ UNCHANGED <<legs, rvars, staging, input, cvars, page, wleg, issued, memory,
                     delivered>>
  BY DEF WPop
<1>3. /\ Batch \in {1, 2} /\ head + Batch <= Buffering
      /\ wtile + Batch <= Tiles(wleg) + 1 /\ Tiles(wleg) \in Nat \ {0}
      /\ Flowing /\ wleg <= LegCount /\ IsRoute(wleg) /\ count >= Batch
  BY <1>2, BatchFits DEF Flowing, IInv, WriterPlace
<1>4. /\ LegCount' = LegCount /\ Leg(wleg)' = Leg(wleg)
      /\ Tiles(wleg)' = Tiles(wleg) /\ Sequential' = Sequential
      /\ Before' = Before /\ Flowing' = Flowing /\ IsRoute(wleg)' = IsRoute(wleg)
      /\ \A u : Produced(u)' = Produced(u)
      /\ \A n : ResultsOf(n)' = ResultsOf(n)
  BY <1>2, SameLeg
<1>5. LoadsDone' = LoadsDone /\ ResultsDone' = ResultsDone /\ Popped = wtile - 1
  BY <1>2, <1>3, <1>4 DEF LoadsDone, ResultsDone, Popped
<1>6. Popped' = Popped + Batch
  <2>1. CASE wpc' = "take"
    BY <1>1, <1>2, <1>3, <1>5, <2>1 DEF Popped, Known
  <2>2. CASE wpc' = "signal"
    <3>1. Popped' = Tiles(wleg)
      BY <1>4, <2>2 DEF Popped
    <3>2. wtile + Batch = Tiles(wleg) + 1
      BY <1>1, <1>2, <1>3, <2>2 DEF Known
    <3>3. QED
      BY <1>1, <1>3, <1>5, <3>1, <3>2 DEF Known
  <2>3. QED
    BY <1>2, <2>1, <2>2
<1>7. ASSUME NEW t \in 1 .. Tiles(wleg) PROVE Landed(t)' <=> Landed(t)
  <2>1. Landed(t) <=> t <= Popped \/ t < wtile + Batch
    BY <1>2 DEF Landed
  <2>2. Landed(t)' <=> t <= Popped + Batch
    BY <1>2, <1>6 DEF Landed
  <2>3. QED
    BY <1>1, <1>3, <1>5, <2>1, <2>2 DEF Known
<1>8. \A q : LandedAt(q)' <=> LandedAt(q)
  BY <1>4, <1>7 DEF LandedAt
<1>9. \A q : LoadedSoFar(q)' = LoadedSoFar(q)
  BY <1>2, <1>4, <1>5 DEF LoadedSoFar
<1>10. MemoryOK'
  BY <1>2, <1>4, <1>7, <1>8, <1>9 DEF CInv, MemoryOK
<1>11. SequentialOK' /\ DeliveredOK'
  BY <1>2, <1>4, <1>5 DEF CInv, SequentialOK, DeliveredOK
<1>12. IssuedOK'
  BY <1>2 DEF IssuedOK
<1>13. RingOK'
  <2>1. head \in 0 .. Buffering - 1 /\ count \in 0 .. Buffering
        /\ Buffering \in Nat \ {0}
    BY <1>1 DEF IInv, TypeOK, Known
  <2>2. ASSUME NEW i \in 0 .. count' - 1
        PROVE  page[(head' + i) % Buffering] = Produced(Popped' + 1 + i)
    <3>1. /\ Batch + i \in 0 .. count - 1 /\ Batch + i \in 0 .. Buffering
          /\ i \in 0 .. Buffering /\ Batch \in 0 .. Buffering
      BY <1>2, <1>3, <2>1, <2>2
    <3>2. page[(head + (Batch + i)) % Buffering] = Produced(Popped + 1 + (Batch + i))
      BY <3>1 DEF CInv, RingOK
    <3>3. Popped + 1 + (Batch + i) = Popped' + 1 + i
      BY <1>1, <1>3, <1>5, <1>6, <2>2, <3>1 DEF Known
    <3>4. (head + (Batch + i)) % Buffering = (head' + i) % Buffering
      <4>1. CASE head + Batch < Buffering
        <5>1. head' = head + Batch
          BY <1>2, <2>1, <3>1, <4>1, RingIndex
        <5>2. head + (Batch + i) = head' + i
          BY <1>3, <2>1, <3>1, <5>1
        <5>3. QED
          BY <5>2
      <4>2. CASE head + Batch = Buffering
        <5>1. head' = 0
          <6>1. head + Batch - Buffering = 0 /\ ~(head + Batch < Buffering)
            BY <1>3, <2>1, <4>2
          <6>2. QED
            BY <1>2, <2>1, <3>1, <6>1, RingIndex
        <5>2. (head + (Batch + i)) % Buffering = i
          <6>1. head + (Batch + i) - Buffering = i /\ ~(head + (Batch + i) < Buffering)
            BY <1>3, <2>1, <3>1, <4>2
          <6>2. QED
            BY <2>1, <3>1, <6>1, RingIndex
        <5>3. (0 + i) % Buffering = i
          <6>1. 0 \in 0 .. Buffering - 1 /\ 0 + i = i /\ i < Buffering
            BY <1>3, <2>1, <3>1
          <6>2. QED
            BY <2>1, <3>1, <6>1, RingIndex
        <5>4. QED
          BY <5>1, <5>2, <5>3
      <4>3. QED
        BY <1>1, <1>3, <2>1, <4>1, <4>2 DEF Known
    <3>5. QED
      BY <3>2, <3>3, <3>4
  <2>3. QED
    BY <1>2, <1>4, <2>2 DEF RingOK
<1>14. QED
  BY <1>2, <1>10, <1>11, <1>12, <1>13, ComputeIdle, ArrivedIdle DEF CInv

\* The leg of a delivery loads nothing, and finds the planes as they are.
LEMMA NothingLoaded ==
  ASSUME IInv, CInv, wleg <= LegCount, ~IsRoute(wleg)
  PROVE  memory = Before
<1>1. Known
  BY Here
<1>2. ~IsFirst(wleg)
  BY <1>1 DEF Known, LegOK
<1>3. Len(Leg(wleg).loads) = 0
  BY <1>2, EmptyIsSeq DEF IsFirst
<1>4. rleg = wleg => rpc \notin {"load", "split"}
  BY <1>2 DEF IInv, ReaderPlace
<1>5. rpc \in {"load", "split"} => rleg = wleg
  BY DEF IInv, Lockstep
<1>6. LoadsDone = 0
  BY <1>3, <1>4, <1>5 DEF LoadsDone
<1>7. \A q \in Places : ~LandedAt(q) /\ LoadedSoFar(q) = Before[q]
  BY <1>6 DEF LandedAt, Flowing, LoadedSoFar
<1>8. memory = [q \in Places |-> memory[q]] /\ Before = [q \in Places |-> Before[q]]
      /\ \A q \in Places : memory[q] = Before[q]
  BY <1>7 DEF CInv, MemoryOK, SequentialOK
<1>9. QED
  BY <1>8

LEMMA ResultsOfLength ==
  ASSUME NEW n \in Nat
  PROVE  IsSeq(ResultsOf(n)) /\ Len(ResultsOf(n)) = n
<1> DEFINE f == ResultsOf(n)
<1>1. f = [i \in 1 .. n |-> f[i]]
  BY DEF ResultsOf
<1> HIDE DEF f
<1>2. IsSeq(f) /\ Len(f) = n
  BY <1>1, FunctionIsSeq
<1>3. QED
  BY <1>2 DEF f

LEMMA WDeliverExact ==
  ASSUME IInv, CInv, WDeliver
  PROVE  CInv'
<1>1. Known
  BY Here
<1> DEFINE x == [q \in Leg(wleg).results[wtile].places |-> memory[q]]
<1>2. /\ wpc = "deliver" /\ delivered' = Append(delivered, x)
      /\ IF wtile < Len(Leg(wleg).results)
         THEN wtile' = wtile + 1 /\ wpc' = "deliver"
         ELSE wtile' = 1 /\ wpc' = "signal"
      /\ UNCHANGED <<legs, rvars, staging, input, cvars, ring, wleg, issued, memory>>
  BY DEF WDeliver
<1>3. /\ wleg <= LegCount /\ ~IsRoute(wleg) /\ ~Flowing
      /\ wtile <= Len(Leg(wleg).results)
  BY <1>2, Delivering DEF Flowing, IInv, WriterPlace
<1>4. Len(Leg(wleg).results) \in Nat
  BY <1>1, <1>3 DEF Known, LegOK
<1>5. /\ LegCount' = LegCount /\ Leg(wleg)' = Leg(wleg)
      /\ Tiles(wleg)' = Tiles(wleg) /\ Sequential' = Sequential
      /\ Before' = Before /\ Flowing' = Flowing /\ IsRoute(wleg)' = IsRoute(wleg)
      /\ \A n : ResultsOf(n)' = ResultsOf(n)
  BY <1>2, SameLeg
<1>6. memory = Before
  BY <1>3, NothingLoaded
<1>7. ResultsDone = wtile - 1 /\ ResultsDone' = wtile /\ wtile \in Nat \ {0}
  <2>1. ResultsDone = wtile - 1 /\ wtile \in Nat \ {0}
    BY <1>1, <1>2, <1>3 DEF ResultsDone, Known
  <2>2. CASE wtile < Len(Leg(wleg).results)
    BY <1>2, <1>3, <1>5, <2>1, <2>2 DEF ResultsDone
  <2>3. CASE ~(wtile < Len(Leg(wleg).results))
    <3>1. wtile = Len(Leg(wleg).results)
      BY <1>3, <1>4, <2>1, <2>3
    <3>2. ResultsDone' = Len(Leg(wleg).results)
      BY <1>2, <1>3, <1>5, <2>3 DEF ResultsDone
    <3>3. QED
      BY <2>1, <3>1, <3>2
  <2>4. QED
    BY <2>1, <2>2, <2>3
<1>8. DeliveredOK'
  <2> DEFINE p == Sequential[wleg - 1].results
             r == ResultsOf(wtile - 1)
  <2>1. delivered = p \o r /\ IsSeq(p)
    BY <1>3, <1>7 DEF CInv, DeliveredOK, SequentialOK
  <2>2. IsSeq(r) /\ Len(r) = wtile - 1
    BY <1>7, ResultsOfLength
  <2>3. Append(r, x) = ResultsOf(wtile)
    <3>1. x = [q \in Leg(wleg).results[wtile].places |-> Before[q]]
      BY <1>6
    <3> DEFINE a == Append(r, x)
               f == ResultsOf(wtile)
    <3>2. IsSeq(a) /\ Len(a) = wtile
      <4> HIDE DEF r, x
      <4>1. IsSeq(Append(r, x)) /\ Len(Append(r, x)) = Len(r) + 1
        BY <2>2, AppendIsSeq
      <4>2. QED
        BY <1>7, <2>2, <4>1
    <3>3. IsSeq(f) /\ Len(f) = wtile
      BY <1>7, ResultsOfLength
    <3>4. \A j \in 1 .. wtile : a[j] = f[j]
      <4>1. \A j \in 1 .. wtile - 1 : r[j] = f[j]
        BY <1>7 DEF ResultsOf
      <4>2. f[wtile] = x
        BY <1>7, <3>1 DEF ResultsOf
      <4> HIDE DEF r, x, f
      <4>3. /\ Append(r, x)[Len(r) + 1] = x
            /\ \A j \in 1 .. Len(r) : Append(r, x)[j] = r[j]
        BY <2>2, AppendElements
      <4>4. QED
        BY <1>7, <2>2, <4>1, <4>2, <4>3
    <3> HIDE DEF a, f
    <3>5. a = f
      BY <3>2, <3>3, <3>4, SameElements
    <3>6. QED
      BY <3>5 DEF a, f
  <2>4. Append(p \o r, x) = p \o Append(r, x)
    <3> HIDE DEF p, r, x
    <3>1. IsSeq(p) /\ IsSeq(r)
      BY ONLY <2>1, <2>2
    <3>2. QED
      BY ONLY <3>1, ConcatAppend
  <2>5. delivered' = p \o ResultsOf(wtile)
    <3>1. delivered' = Append(delivered, x) /\ delivered = p \o r
      BY <1>2, <2>1
    <3> HIDE DEF p, r, x
    <3>2. QED
      BY ONLY <2>3, <2>4, <3>1
  <2>6. QED
    BY <1>2, <1>5, <1>7, <2>5 DEF DeliveredOK
<1>9. SequentialOK'
  BY <1>2, <1>5 DEF CInv, SequentialOK
<1>10. MemoryOK'
  <2>1. \A q : ~LandedAt(q)'
    BY <1>3, <1>5 DEF LandedAt
  <2>2. \A q : LoadedSoFar(q)' = LoadedSoFar(q) /\ ~LandedAt(q)
    <3>1. LoadsDone' = LoadsDone
      BY <1>2, <1>5 DEF LoadsDone
    <3>2. QED
      BY <1>2, <1>3, <1>5, <3>1 DEF LoadedSoFar, LandedAt
  <2>3. QED
    BY <1>2, <1>3, <1>5, <2>1, <2>2 DEF CInv, MemoryOK
<1>11. IssuedOK'
  BY <1>2 DEF CInv, IssuedOK
<1>12. RingOK'
  <2>1. count = 0
    BY <1>3 DEF IInv, Conservation
  <2>2. QED
    BY <1>2, <2>1 DEF RingOK
<1>13. QED
  BY <1>2, <1>8, <1>9, <1>10, <1>11, <1>12, ComputeIdle, ArrivedIdle DEF CInv

(***************************************************************************)
(* At the end of its leg the writer leaves what the leg does to the planes *)
(* and to the results.                                                     *)
(***************************************************************************)
LEMMA LegEnds ==
  ASSUME IInv, CInv, wpc = "signal"
  PROVE  /\ wleg \in 1 .. LegCount
         /\ memory = Sequential[wleg].planes /\ delivered = Sequential[wleg].results
         /\ IsSeq(Sequential[wleg].results)
<1>1. Known
  BY Here
<1>2. wleg <= LegCount /\ wleg \in 1 .. LegCount /\ wleg # 0
  BY <1>1 DEF IInv, WriterPlace, Known
<1>3. Sequential[wleg] =
        IF IsRoute(wleg)
        THEN [planes |-> Routed(wleg, LoadedBefore(wleg, Sequential[wleg - 1].planes)),
              results |-> Sequential[wleg - 1].results]
        ELSE [planes |-> Sequential[wleg - 1].planes,
              results |-> Sequential[wleg - 1].results
                            \o Delivered(wleg, Sequential[wleg - 1].planes)]
  <2>1. LegCount \in Nat /\ wleg \in 0 .. LegCount
    BY <1>1, <1>2 DEF Known
  <2>2. QED
    BY <1>2, <2>1, SequentialUnfolds
<1> DEFINE p == Sequential[wleg - 1].results
<1>4. IsSeq(p) /\ delivered = p \o ResultsOf(ResultsDone)
  BY <1>2 DEF CInv, SequentialOK, DeliveredOK
<1>5. CASE IsRoute(wleg)
  <2>1. Flowing
    BY <1>2, <1>5 DEF Flowing
  <2>2. LoadsDone = Len(Leg(wleg).loads)
    <3>1. rleg > wleg \/ (rleg = wleg /\ rpc = "barrier")
      BY <2>1, Flow
    <3>2. QED
      BY <3>1 DEF LoadsDone
  <2>3. /\ \A q \in Places : LoadedSoFar(q) = Started[q]
        /\ DOMAIN Started = Places
    BY <1>2, <2>2, AllLoaded
  <2>4. \A t \in 1 .. Tiles(wleg) : Landed(t)
    <3>1. Popped = Tiles(wleg) /\ Tiles(wleg) \in Nat
      BY <1>1, <1>2, <1>5 DEF Popped, Known, LegOK
    <3>2. QED
      BY <3>1 DEF Landed
  <2>5. memory = [q \in Places |-> memory[q]]
    BY <1>2 DEF CInv, MemoryOK
  <2>6. ASSUME NEW q \in Places PROVE memory[q] = Routed(wleg, Started)[q]
    <3>1. CASE \E t \in 1 .. Tiles(wleg) : Leg(wleg).writes[t] = q
      <4> DEFINE u == CHOOSE t \in 1 .. Tiles(wleg) : Leg(wleg).writes[t] = q
      <4>1. u \in 1 .. Tiles(wleg) /\ Leg(wleg).writes[u] = q
        BY <3>1
      <4>2. Routed(wleg, Started)[q] = Produced(u)
        BY <2>3, <3>1 DEF Routed, Produced
      <4> HIDE DEF u
      <4>3. memory[Leg(wleg).writes[u]] = Produced(u)
        BY <1>2, <2>1, <2>4, <4>1 DEF CInv, MemoryOK
      <4>4. QED
        BY <4>1, <4>2, <4>3
    <3>2. CASE ~(\E t \in 1 .. Tiles(wleg) : Leg(wleg).writes[t] = q)
      <4>1. ~LandedAt(q)
        BY <3>2 DEF LandedAt
      <4>2. memory[q] = LoadedSoFar(q)
        BY <1>2, <4>1 DEF CInv, MemoryOK
      <4>3. Routed(wleg, Started)[q] = Started[q]
        BY <2>3, <3>2 DEF Routed
      <4>4. QED
        BY <2>3, <4>2, <4>3
    <3>3. QED
      BY <3>1, <3>2
  <2>7. Routed(wleg, Started) = [q \in Places |-> Routed(wleg, Started)[q]]
    BY <2>3 DEF Routed
  <2>8. memory = Routed(wleg, Started)
    BY <2>5, <2>6, <2>7
  <2>9. delivered = p
    <3>1. ResultsDone = 0
      BY <1>5 DEF ResultsDone
    <3>2. IsSeq(ResultsOf(0)) /\ Len(ResultsOf(0)) = 0
      BY ResultsOfLength
    <3> HIDE DEF p
    <3>3. p \o ResultsOf(0) = p
      BY <1>4, <3>2, ConcatNothing
    <3>4. QED
      BY <1>4, <3>1, <3>3
  <2>10. QED
    BY <1>2, <1>3, <1>4, <1>5, <2>8, <2>9 DEF Started, Before
<1>6. CASE ~IsRoute(wleg)
  <2>1. memory = Before
    BY <1>2, <1>6, NothingLoaded
  <2>2. ResultsDone = Len(Leg(wleg).results) /\ Len(Leg(wleg).results) \in Nat
    BY <1>1, <1>2, <1>6 DEF ResultsDone, Known, LegOK
  <2>3. ResultsOf(Len(Leg(wleg).results)) = Delivered(wleg, Before)
    BY DEF ResultsOf, Delivered
  <2>4. IsSeq(p \o ResultsOf(Len(Leg(wleg).results)))
    <3> HIDE DEF p
    <3>1. IsSeq(ResultsOf(Len(Leg(wleg).results)))
      BY <2>2, ResultsOfLength
    <3>2. QED
      BY <1>4, <3>1, ConcatElements
  <2>5. delivered = p \o ResultsOf(Len(Leg(wleg).results))
    <3> HIDE DEF p
    <3>1. QED
      BY ONLY <1>4, <2>2
  <2>6. /\ Sequential[wleg].planes = Before
        /\ Sequential[wleg].results = p \o ResultsOf(Len(Leg(wleg).results))
    <3>1. Sequential[wleg] = [planes |-> Before, results |-> p \o Delivered(wleg, Before)]
      BY <1>3, <1>6 DEF Before
    <3> HIDE DEF p
    <3>2. QED
      BY ONLY <2>3, <3>1
  <2>7. IsSeq(Sequential[wleg].results) /\ delivered = Sequential[wleg].results
    <3> HIDE DEF p
    <3>1. QED
      BY ONLY <2>4, <2>5, <2>6
  <2>8. QED
    BY <1>2, <2>1, <2>6, <2>7
<1>7. QED
  BY <1>5, <1>6

LEMMA WSignalExact ==
  ASSUME IInv, CInv, WSignal
  PROVE  CInv'
<1>1. Known
  BY Here
<1>2. /\ wpc = "signal" /\ sync = 0 /\ wleg' = wleg + 1
      /\ wpc' = IF wleg' > LegCount THEN "done"
                ELSE IF ~IsRoute(wleg') THEN "deliver"
                ELSE IF IsFirst(wleg') THEN "first" ELSE "take"
      /\ UNCHANGED <<legs, rvars, staging, input, cvars, ring, wtile, issued, memory,
                     delivered>>
  BY DEF WSignal
<1>3. /\ wleg <= LegCount /\ wtile = 1 /\ count = 0 /\ Len(regs) = 0 /\ pending = {}
      /\ \A o \in Operands : Len(input[o]) = 0
      /\ \/ rleg = wleg + 1 /\ rpc = "sync"
         \/ rleg = wleg /\ rpc = "barrier" /\ rtile = Tiles(rleg)
         \/ rleg = wleg /\ rpc \in {"skip", "done"}
  BY <1>2, Signalling
<1>4. /\ wleg \in 1 .. LegCount
      /\ memory = Sequential[wleg].planes /\ delivered = Sequential[wleg].results
      /\ IsSeq(Sequential[wleg].results)
  BY <1>2, LegEnds
<1>5. /\ Sequential' = Sequential /\ LegCount' = LegCount /\ wleg' - 1 = wleg
      /\ \A n : IsRoute(n)' = IsRoute(n)
  BY <1>1, <1>2, SequentialKept DEF LegCount, IsRoute, Leg, Known
<1>6. Before' = memory
  BY <1>4, <1>5 DEF Before
<1>7. wpc' \notin {"flush", "signal"}
  BY <1>2
<1>8. memory = [q \in Places |-> memory[q]]
  BY <1>3 DEF CInv, MemoryOK
<1>9. SequentialOK'
  BY <1>4, <1>5, <1>6, <1>8 DEF SequentialOK
<1>10. MemoryOK'
  <2>1. LoadsDone' = 0
    BY <1>1, <1>2, <1>3 DEF LoadsDone, Known
  <2>2. Popped' = 0
    BY <1>2, <1>3, <1>7 DEF Popped
  <2>3. \A t \in Nat \ {0} : ~Landed(t)'
    BY <1>7, <2>2 DEF Landed
  <2>4. \A t \in 1 .. Tiles(wleg)' : t \in Nat \ {0}
    OBVIOUS
  <2>5. \A q : ~LandedAt(q)'
    BY <2>3, <2>4 DEF LandedAt
  <2>6. \A q : LoadedSoFar(q)' = memory[q]
    BY <1>6, <2>1 DEF LoadedSoFar
  <2>7. \A t \in 1 .. Tiles(wleg)' : ~Landed(t)'
    BY <2>3, <2>4
  <2>8. QED
    BY <1>2, <1>8, <2>5, <2>6, <2>7 DEF MemoryOK
<1>11. DeliveredOK'
  <2>1. wleg' <= LegCount => ResultsDone' = 0
    BY <1>2, <1>3, <1>5 DEF ResultsDone
  <2>2. IsSeq(ResultsOf(0)') /\ Len(ResultsOf(0)') = 0
    <3>1. ResultsOf(0)' = <<>>
      BY DEF ResultsOf
    <3>2. QED
      BY <3>1, EmptyIsSeq
  <2> DEFINE p == Sequential[wleg].results
             r == ResultsOf(0)'
  <2>3. p \o r = p
    <3> HIDE DEF p, r
    <3>1. IsSeq(p) /\ IsSeq(r) /\ Len(r) = 0
      BY <1>4, <2>2 DEF p, r
    <3>2. QED
      BY <3>1, ConcatNothing
  <2>4. QED
    BY <1>2, <1>4, <1>5, <2>1, <2>3 DEF DeliveredOK
<1>12. InputsOK'
  <2>1. Wanted' \subseteq Operands
    BY DEF Wanted, Needs, Operands
  <2>2. QED
    BY <1>2, <1>3, <2>1 DEF InputsOK
<1>13. ArrivedOK'
  BY <1>2, <1>3, NothingArrived DEF ArrivedOK
<1>14. RegistersOK' /\ RingOK'
  BY <1>2, <1>3 DEF RegistersOK, RingOK
<1>15. IssuedOK'
  BY <1>2 DEF CInv, IssuedOK
<1>16. QED
  BY <1>9, <1>10, <1>11, <1>12, <1>13, <1>14, <1>15 DEF CInv

-----------------------------------------------------------------------------
LEMMA StepCInv == IInv /\ CInv /\ [Next]_vars => CInv'
<1> SUFFICES ASSUME IInv, CInv, [Next]_vars PROVE CInv'
  OBVIOUS
<1>1. CASE RLoad
  BY <1>1, RLoadExact
<1>2. CASE RSplit
  BY <1>2, RSplitExact
<1>3. CASE RPages
  BY <1>3, RPagesExact
<1>4. CASE \E o \in Operands : RStage(o)
  BY <1>4, RStageExact
<1>5. CASE RPush
  BY <1>5, RPushExact
<1>6. CASE RSync
  BY <1>6, RSyncExact
<1>7. CASE RSkip
  BY <1>7, RSkipExact
<1>8. CASE CTake
  BY <1>8, CTakeExact
<1>9. CASE CPack
  BY <1>9, CPackExact
<1>10. CASE CScale
  BY <1>10, CScaleExact
<1>11. CASE WFirst
  BY <1>11, WFirstExact
<1>12. CASE WIssue
  BY <1>12, WIssueExact
<1>13. CASE WPop
  BY <1>13, WPopExact
<1>14. CASE WDeliver
  BY <1>14, WDeliverExact
<1>15. CASE WSignal
  BY <1>15, WSignalExact
<1>16. CASE NocRead
  BY <1>16, NocReadExact
<1>17. CASE NocLand
  BY <1>17, NocLandExact
<1>18. CASE UNCHANGED vars
  <2>1. UNCHANGED <<legs, rvars, staging, input, cvars, ring, wvars, issued, memory,
                    delivered>>
    BY <1>18 DEF vars
  <2>2. LoadsDone' = LoadsDone
    BY <2>1 DEF LoadsDone, Leg
  <2>3. QED
    BY <2>1, <2>2, PlanesIdle, ComputeIdle, RingIdle, ArrivedIdle DEF CInv
<1>19. QED
  BY <1>1, <1>2, <1>3, <1>4, <1>5, <1>6, <1>7, <1>8, <1>9, <1>10, <1>11, <1>12, <1>13,
     <1>14, <1>15, <1>16, <1>17, <1>18 DEF Next, Reader, Compute, Writer

(***************************************************************************)
(* Whatever a core is given, however its kernels and its NoC transactions  *)
(* interleave, and whatever the arithmetic is: whenever lwt_2d_writer.cpp  *)
(* ends a leg, the five planes and the results in DRAM are those of the    *)
(* legs carried out one after the other, although a route may overwrite a  *)
(* plane that lwt_2d_reader.cpp still reads for its next tiles.            *)
(***************************************************************************)
THEOREM ExactAfterEveryLeg == Spec => []LegsExact
<1>1. Init => CInv
  BY InitCInv
<1>2. IInv /\ CInv /\ [Next]_vars => CInv'
  BY StepCInv
<1>3. IInv /\ CInv => LegsExact
  <2>1. SUFFICES ASSUME IInv, CInv PROVE LegsExact
    OBVIOUS
  <2>2. QED
    BY <2>1, LegEnds DEF LegsExact
<1>4. QED
  BY <1>1, <1>2, <1>3, Inductive, PTL DEF Spec
=============================================================================
