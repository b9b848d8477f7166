---------------------------- MODULE SlicerProofs ----------------------------
(***************************************************************************)
(* The cutting of a document into sheets, for every display list, every    *)
(* height of the sheet and every limit on the slices.                      *)
(***************************************************************************)
EXTENDS Slicer, SequenceTheorems, WellFoundedInduction, TLAPS

LEMMA Content ==
  ASSUME NEW c \in DisplayLists
  PROVE  /\ c.blocks \in Seq([top : Int, bottom : Int])
         /\ Len(c.blocks) \in Nat
         /\ DOMAIN c.blocks = 1 .. Len(c.blocks)
         /\ \A i \in 1 .. Len(c.blocks) :
              /\ c.blocks[i] \in Range(c.blocks)
              /\ c.blocks[i].top \in Int /\ c.blocks[i].bottom \in Int
         /\ \A b \in Range(c.blocks) : \E i \in 1 .. Len(c.blocks) : b = c.blocks[i]
<1>1. c.blocks \in Seq([top : Int, bottom : Int])
  BY DEF DisplayLists
<1>2. Len(c.blocks) \in Nat /\ DOMAIN c.blocks = 1 .. Len(c.blocks)
  BY <1>1
<1>3. ASSUME NEW i \in 1 .. Len(c.blocks)
      PROVE  c.blocks[i] \in [top : Int, bottom : Int]
  BY <1>1, ElementOfSeq
<1> QED
  BY <1>1, <1>2, <1>3 DEF Range

(* Ends of a display list are integers. *)
LEMMA EndsAreIntegers == ASSUME NEW c \in DisplayLists PROVE Ends(c) \subseteq Int
<1>1. c.reserved \in Int /\ c.baselines \in Seq(Int)
  BY DEF DisplayLists
<1>2. \A b \in Range(c.blocks) : b.bottom \in Int
  BY Content
<1>3. Range(c.baselines) \subseteq Int
  <2>1. \A i \in 1 .. Len(c.baselines) : c.baselines[i] \in Int
    BY <1>1, ElementOfSeq
  <2>2. DOMAIN c.baselines = 1 .. Len(c.baselines)
    BY <1>1
  <2> QED
    BY <2>1, <2>2 DEF Range
<1> QED
  BY <1>1, <1>2, <1>3 DEF Ends

-----------------------------------------------------------------------------
(* Types, and the progress of the loop: while it runs the sheet has room,  *)
(* the limit is not reached, and the cut stays within the next page.       *)

LoopInv ==
  /\ TypeOK
  /\ phase # "done" => usable > 0 /\ Len(slices) <= MaxSlices
  /\ slices # << >> => usable > 0
  /\ phase = "pulling" => start < cut /\ cut <= start + usable

LEMMA AppendedSlice ==
  ASSUME LoopInv, Cut
  PROVE  /\ slices' \in Seq([start : Int, end : Int])
         /\ Len(slices') = Len(slices) + 1
         /\ Len(slices) \in Nat
         /\ slices'[Len(slices) + 1] = Slice(start, cut)
         /\ \A k \in 1 .. Len(slices) : slices'[k] = slices[k]
         /\ start < cut /\ cut <= start + usable
         /\ start' = cut
         /\ usable > 0
<1>1. start < cut /\ cut <= start + usable /\ usable > 0 /\ start' = cut
  BY DEF LoopInv, TypeOK, Cut
<1>2. Slice(start, cut) \in [start : Int, end : Int]
  BY DEF LoopInv, TypeOK, Slice
<1> QED
  BY <1>1, <1>2 DEF LoopInv, TypeOK, Cut

LEMMA SpecLoopInv == Spec => []LoopInv
<1>1. Init => LoopInv
  <2>. SUFFICES ASSUME Init PROVE LoopInv
    OBVIOUS
  <2>1. content \in DisplayLists /\ usable \in Int /\ total \in Int
    BY SlicerConstants, EndsAreIntegers DEF Init
  <2>2. Len(blocks) \in Nat
    BY <2>1, Content DEF blocks
  <2> QED
    BY <2>1, <2>2, SlicerConstants DEF Init, LoopInv, TypeOK
<1>2. ASSUME LoopInv, Next PROVE LoopInv'
  <2>0. Len(blocks) \in Nat /\ content \in DisplayLists
    BY <1>2, Content DEF LoopInv, TypeOK, blocks
  <2>1. CASE Propose
    BY <1>2, <2>0, <2>1 DEF Propose, LoopInv, TypeOK, input, blocks
  <2>2. CASE PullBack
    <3>1. next \in 1 .. Len(blocks)
      BY <1>2, <2>0, <2>2 DEF PullBack, LoopInv, TypeOK
    <3>2. blocks[next].top \in Int
      BY <2>0, <3>1, Content DEF blocks
    <3> QED
      BY <1>2, <2>0, <2>2, <3>1, <3>2 DEF PullBack, Straddles, LoopInv, TypeOK, input, blocks
  <2>3. CASE Cut
    <3>1. slices' # << >>
      BY <1>2, <2>3, AppendedSlice
    <3> QED
      BY <1>2, <2>0, <2>3, <3>1, AppendedSlice, SlicerConstants
      DEF Cut, LoopInv, TypeOK, input, blocks
  <2> QED
    BY <1>2, <2>1, <2>2, <2>3 DEF Next
<1>3. LoopInv /\ UNCHANGED vars => LoopInv'
  BY DEF vars, LoopInv, TypeOK, blocks
<1> QED
  BY <1>1, <1>2, <1>3, PTL DEF Spec

(* The state of the loop stays well formed, and the limit on the slices is *)
(* kept.                                                                   *)
THEOREM SlicerTypes == Spec => []TypeOK
<1>1. LoopInv => TypeOK
  BY DEF LoopInv
<1> QED
  BY <1>1, SpecLoopInv, PTL

-----------------------------------------------------------------------------
(* The slices tile the document from its top down to where the next starts.*)

TilingInv ==
  /\ SlicesFitTheSheet
  /\ start >= 0
  /\ \A k \in DOMAIN slices : slices[k].end <= start
  /\ \A j, k \in DOMAIN slices : j < k => slices[j].end <= slices[k].start
  /\ \A y \in Int : 0 <= y /\ y < start => \E k \in DOMAIN slices : Holds(slices[k], y)
  /\ Finished => total <= start

LEMMA CutKeepsTiling == ASSUME LoopInv, TilingInv, Cut PROVE TilingInv'
<1>0. /\ slices \in Seq([start : Int, end : Int])
      /\ Len(slices) \in Nat /\ DOMAIN slices = 1 .. Len(slices)
      /\ DOMAIN slices' = 1 .. Len(slices) + 1
      /\ start \in Int /\ cut \in Int /\ usable \in Int
      /\ UNCHANGED usable
  BY AppendedSlice DEF LoopInv, TypeOK, Cut, input
<1>1. \A k \in 1 .. Len(slices) :
        /\ slices'[k] = slices[k]
        /\ slices[k].start \in Int /\ slices[k].end \in Int
  <2>1. ASSUME NEW k \in 1 .. Len(slices) PROVE slices[k] \in [start : Int, end : Int]
    BY <1>0, ElementOfSeq
  <2> QED
    BY <2>1, AppendedSlice
<1>2. /\ slices'[Len(slices) + 1].start = start
      /\ slices'[Len(slices) + 1].end = cut
      /\ start < cut /\ cut <= start + usable /\ start' = cut
  BY AppendedSlice DEF Slice
<1>3. SlicesFitTheSheet'
  <2>1. ASSUME NEW k \in DOMAIN slices'
        PROVE  slices'[k].start < slices'[k].end /\ slices'[k].end <= slices'[k].start + usable'
    <3>1. CASE k \in 1 .. Len(slices)
      BY <1>0, <1>1, <3>1 DEF TilingInv, SlicesFitTheSheet
    <3>2. CASE k = Len(slices) + 1
      BY <1>0, <1>2, <3>2
    <3> QED
      BY <1>0, <3>1, <3>2
  <2> QED
    BY <2>1 DEF SlicesFitTheSheet
<1>4. start' >= 0
  BY <1>0, <1>2 DEF TilingInv
<1>5. ASSUME NEW k \in DOMAIN slices' PROVE slices'[k].end <= start'
  <2>1. CASE k \in 1 .. Len(slices)
    <3>1. slices[k].end <= start
      BY <1>0, <2>1 DEF TilingInv
    <3> QED
      BY <1>0, <1>1, <1>2, <2>1, <3>1
  <2>2. CASE k = Len(slices) + 1
    BY <1>0, <1>2, <2>2
  <2> QED
    BY <1>0, <2>1, <2>2
<1>6. ASSUME NEW j \in DOMAIN slices', NEW k \in DOMAIN slices', j < k
      PROVE  slices'[j].end <= slices'[k].start
  <2>1. j \in 1 .. Len(slices)
    BY <1>0, <1>6
  <2>2. CASE k \in 1 .. Len(slices)
    BY <1>0, <1>1, <1>6, <2>1, <2>2 DEF TilingInv
  <2>3. CASE k = Len(slices) + 1
    BY <1>0, <1>1, <1>2, <2>1, <2>3 DEF TilingInv
  <2> QED
    BY <1>0, <2>2, <2>3
<1>7. ASSUME NEW y \in Int, 0 <= y, y < start'
      PROVE  \E k \in DOMAIN slices' : Holds(slices'[k], y)
  <2>1. CASE y < start
    <3>1. PICK k \in DOMAIN slices : Holds(slices[k], y)
      BY <1>7, <2>1 DEF TilingInv
    <3>2. k \in DOMAIN slices' /\ slices'[k] = slices[k]
      BY <1>0, <1>1, <3>1
    <3> QED
      BY <3>1, <3>2
  <2>2. CASE start <= y
    <3>1. Holds(slices'[Len(slices) + 1], y)
      BY <1>2, <1>7, <2>2 DEF Holds
    <3>2. Len(slices) + 1 \in DOMAIN slices'
      BY <1>0
    <3> QED
      BY <3>1, <3>2
  <2> QED
    BY <1>0, <1>7, <2>1, <2>2
<1>8. ~ Finished'
  <2>1. CASE phase' = "done"
    <3>1. Len(slices') > MaxSlices
      BY <1>0, <1>2, <2>1 DEF Cut
    <3>2. Len(slices') \in Nat
      BY <1>0, AppendedSlice
    <3> QED
      BY <3>1, <3>2, SlicerConstants DEF Finished
  <2>2. CASE phase' # "done"
    BY <2>2 DEF Finished
  <2> QED
    BY <2>1, <2>2
<1> QED
  BY <1>3, <1>4, <1>5, <1>6, <1>7, <1>8 DEF TilingInv

LEMMA SpecTilingInv == Spec => []TilingInv
<1>1. Init => TilingInv
  <2>. SUFFICES ASSUME Init PROVE TilingInv
    OBVIOUS
  <2>1. usable \in Int /\ slices = << >> /\ start = 0
        /\ phase = IF usable <= 0 THEN "done" ELSE "slicing"
    BY SlicerConstants DEF Init
  <2>2. ~ Finished
    BY <2>1 DEF Finished
  <2>3. DOMAIN slices = {}
    BY <2>1
  <2> QED
    BY <2>1, <2>2, <2>3 DEF TilingInv, SlicesFitTheSheet
<1>2. ASSUME LoopInv, TilingInv, Next PROVE TilingInv'
  <2>1. CASE Propose
    <3>1. UNCHANGED <<slices, start, total, usable>>
      BY <2>1 DEF Propose, input
    <3>2. Finished' => total' <= start'
      BY <1>2, <2>1, <3>1 DEF Propose, Finished, LoopInv, TypeOK
    <3> QED
      BY <1>2, <3>1, <3>2 DEF TilingInv, SlicesFitTheSheet
  <2>2. CASE PullBack
    BY <1>2, <2>2 DEF PullBack, TilingInv, SlicesFitTheSheet, Finished, input
  <2>3. CASE Cut
    BY <1>2, <2>3, CutKeepsTiling
  <2> QED
    BY <1>2, <2>1, <2>2, <2>3 DEF Next
<1>3. TilingInv /\ UNCHANGED vars => TilingInv'
  BY DEF vars, TilingInv, SlicesFitTheSheet, Finished
<1> QED
  BY <1>1, <1>2, <1>3, SpecLoopInv, PTL DEF Spec

(* No slice is empty or taller than the band between the margins.          *)
THEOREM SlicesFit == Spec => []SlicesFitTheSheet
<1>1. TilingInv => SlicesFitTheSheet
  BY DEF TilingInv
<1> QED
  BY <1>1, SpecTilingInv, PTL

(* Every item that starts inside the document is on one page and one only. *)
THEOREM ItemsLandOnce == Spec => []EveryItemLandsOnce
<1>1. ASSUME LoopInv, TilingInv PROVE EveryItemLandsOnce
  <2>. SUFFICES ASSUME Finished, NEW y \in Tops, 0 <= y, y < total
                PROVE  \E k \in DOMAIN slices :
                         /\ Holds(slices[k], y)
                         /\ \A j \in DOMAIN slices : Holds(slices[j], y) => j = k
    BY DEF EveryItemLandsOnce
  <2>1. y \in Int
    <3>1. content \in DisplayLists
      BY <1>1 DEF LoopInv, TypeOK
    <3>2. \A b \in Range(blocks) : b.top \in Int
      BY <3>1, Content DEF blocks
    <3>3. Range(content.baselines) \subseteq Int
      BY <3>1, EndsAreIntegers DEF Ends
    <3> QED
      BY <3>2, <3>3 DEF Tops
  <2>2. total <= start /\ total \in Int /\ start \in Int
    BY <1>1 DEF TilingInv, LoopInv, TypeOK
  <2>3. PICK k \in DOMAIN slices : Holds(slices[k], y)
    BY <1>1, <2>1, <2>2 DEF TilingInv
  <2>4. ASSUME NEW j \in DOMAIN slices, Holds(slices[j], y) PROVE j = k
    <3>1. /\ \A i \in DOMAIN slices : slices[i].start \in Int /\ slices[i].end \in Int
          /\ DOMAIN slices \subseteq Nat
      <4>1. slices \in Seq([start : Int, end : Int])
        BY <1>1 DEF LoopInv, TypeOK
      <4>2. DOMAIN slices = 1 .. Len(slices) /\ Len(slices) \in Nat
        BY <4>1
      <4>3. ASSUME NEW i \in 1 .. Len(slices)
            PROVE  slices[i] \in [start : Int, end : Int]
        BY <4>1, ElementOfSeq
      <4> QED
        BY <4>2, <4>3
    <3>2. ~ j < k /\ ~ k < j
      BY <1>1, <2>1, <2>3, <2>4, <3>1 DEF TilingInv, Holds
    <3> QED
      BY <3>1, <3>2
  <2> QED
    BY <2>3, <2>4
<1> QED
  BY <1>1, SpecLoopInv, SpecTilingInv, PTL

-----------------------------------------------------------------------------
(* In a linear flow the pass over the blocks leaves none straddling the    *)
(* cut.  A block already passed can be cut into by a later pull only if    *)
(* the later block starts inside it; then it lies inside it, so the earlier*)
(* one straddled the cut before, which the pass had excluded.  A block     *)
(* that starts the page is never passed by the cut at all.                 *)

PassInv ==
  phase = "pulling" =>
    /\ \A i \in 1 .. next - 1 : ~ Straddles(blocks[i], cut)
    /\ \A i \in 1 .. Len(blocks) :
         blocks[i].top = start /\ blocks[i].bottom - blocks[i].top <= usable
           => blocks[i].bottom <= cut

SplitInv == IsLinearFlow => PassInv /\ LinearFlowIsNotSplit

LEMMA PullKeepsPass ==
  ASSUME LoopInv, IsLinearFlow, PassInv, PullBack
  PROVE  PassInv'
<1>0. /\ Len(blocks) \in Nat /\ next \in 1 .. Len(blocks)
      /\ \A i \in 1 .. Len(blocks) :
           /\ blocks[i] \in Range(blocks)
           /\ blocks[i].top \in Int /\ blocks[i].bottom \in Int
      /\ start \in Int /\ cut \in Int /\ usable \in Int
  BY Content DEF LoopInv, TypeOK, PullBack, blocks
<1>1. /\ UNCHANGED <<start, usable, content>> /\ next' = next + 1 /\ phase = "pulling"
      /\ cut' = IF Straddles(blocks[next], cut) THEN blocks[next].top ELSE cut
  BY DEF PullBack, input
<1>2. blocks' = blocks
  BY <1>1 DEF blocks
<1>3. ASSUME NEW i \in 1 .. next PROVE ~ Straddles(blocks[i], cut')
  <2>1. CASE ~ Straddles(blocks[next], cut)
    BY <1>0, <1>1, <1>3, <2>1 DEF PassInv
  <2>2. CASE Straddles(blocks[next], cut) /\ i = next
    BY <1>0, <1>1, <2>2 DEF Straddles
  <2>3. CASE Straddles(blocks[next], cut) /\ i # next
    <3>1. i \in 1 .. next - 1 /\ i \in 1 .. Len(blocks)
      BY <1>0, <1>3, <2>3
    <3>2. ~ Straddles(blocks[i], cut)
      BY <1>1, <3>1 DEF PassInv
    <3>3. \/ Below(blocks[i], blocks[next]) \/ Below(blocks[next], blocks[i])
          \/ Inside(blocks[i], blocks[next]) \/ Inside(blocks[next], blocks[i])
      BY <1>0, <3>1 DEF IsLinearFlow
    <3> QED
      BY <1>0, <1>1, <2>3, <3>1, <3>2, <3>3 DEF Straddles, Below, Inside
  <2> QED
    BY <2>1, <2>2, <2>3
<1>4. ASSUME NEW i \in 1 .. Len(blocks), blocks[i].top = start,
             blocks[i].bottom - blocks[i].top <= usable
      PROVE  blocks[i].bottom <= cut'
  <2>1. blocks[i].bottom <= cut
    BY <1>1, <1>4 DEF PassInv
  <2>2. \/ Below(blocks[i], blocks[next]) \/ Below(blocks[next], blocks[i])
        \/ Inside(blocks[i], blocks[next]) \/ Inside(blocks[next], blocks[i])
    BY <1>0 DEF IsLinearFlow
  <2> QED
    BY <1>0, <1>1, <1>4, <2>1, <2>2 DEF Straddles, Below, Inside
<1>5. \A i \in 1 .. next' - 1 : ~ Straddles(blocks[i], cut)'
  <2>1. next' - 1 = next
    BY <1>0, <1>1
  <2> QED
    BY <1>1, <1>2, <1>3, <2>1 DEF Straddles
<1> QED
  BY <1>1, <1>2, <1>4, <1>5 DEF PassInv

LEMMA CutSplitsNothing ==
  ASSUME LoopInv, IsLinearFlow, PassInv, LinearFlowIsNotSplit, Cut
  PROVE  LinearFlowIsNotSplit'
<1>0. /\ Len(blocks) \in Nat
      /\ \A i \in 1 .. Len(blocks) : blocks[i].top \in Int /\ blocks[i].bottom \in Int
      /\ \A b \in Range(blocks) : \E i \in 1 .. Len(blocks) : b = blocks[i]
      /\ start \in Int /\ cut \in Int /\ usable \in Int /\ next \in Int
      /\ DOMAIN slices = 1 .. Len(slices) /\ Len(slices) \in Nat
      /\ DOMAIN slices' = 1 .. Len(slices) + 1
  <2>1. content \in DisplayLists
    BY DEF LoopInv, TypeOK
  <2>2. /\ Len(blocks) \in Nat
        /\ \A i \in 1 .. Len(blocks) : blocks[i].top \in Int /\ blocks[i].bottom \in Int
        /\ \A b \in Range(blocks) : \E i \in 1 .. Len(blocks) : b = blocks[i]
    BY <2>1, Content DEF blocks
  <2>3. start \in Int /\ cut \in Int /\ usable \in Int /\ next \in Int
    BY <2>2 DEF LoopInv, TypeOK
  <2>4. slices \in Seq([start : Int, end : Int]) /\ slices' \in Seq([start : Int, end : Int])
    BY AppendedSlice DEF LoopInv, TypeOK
  <2>5. DOMAIN slices = 1 .. Len(slices) /\ Len(slices) \in Nat
    BY <2>4
  <2>6. DOMAIN slices' = 1 .. Len(slices) + 1
    BY <2>4, AppendedSlice
  <2> QED
    BY <2>2, <2>3, <2>5, <2>6
<1>1. UNCHANGED <<usable, content>> /\ phase = "pulling" /\ next > Len(blocks)
  BY DEF Cut, input
<1>2. blocks' = blocks
  BY <1>1 DEF blocks
<1>3. ASSUME NEW i \in 1 .. Len(blocks), blocks[i].bottom - blocks[i].top <= usable
      PROVE  ~ Splits(Slice(start, cut), blocks[i])
  <2>1. ~ Straddles(blocks[i], cut)
    BY <1>0, <1>1 DEF PassInv
  <2>2. blocks[i].top = start => blocks[i].bottom <= cut
    BY <1>1, <1>3 DEF PassInv
  <2> QED
    BY <1>0, <2>1, <2>2 DEF Straddles, Splits, Holds, Slice
<1>4. ASSUME NEW k \in DOMAIN slices', NEW b \in Range(blocks), b.bottom - b.top <= usable
      PROVE  ~ Splits(slices'[k], b)
  <2>1. CASE k \in 1 .. Len(slices)
    <3>1. slices'[k] = slices[k]
      BY <2>1, AppendedSlice
    <3> QED
      BY <1>0, <1>4, <2>1, <3>1 DEF LinearFlowIsNotSplit
  <2>2. CASE k = Len(slices) + 1
    <3>1. slices'[k] = Slice(start, cut)
      BY <2>2, AppendedSlice
    <3>2. PICK i \in 1 .. Len(blocks) : b = blocks[i]
      BY <1>0
    <3> QED
      BY <1>3, <1>4, <3>1, <3>2
  <2> QED
    BY <1>0, <2>1, <2>2
<1> QED
  BY <1>1, <1>2, <1>4 DEF LinearFlowIsNotSplit

LEMMA SpecSplitInv == Spec => []SplitInv
<1>1. Init => SplitInv
  BY DEF Init, SplitInv, PassInv, LinearFlowIsNotSplit
<1>2. ASSUME LoopInv, SplitInv, Next PROVE SplitInv'
  <2>1. UNCHANGED <<content, usable>>
    BY <1>2 DEF Next, Propose, PullBack, Cut, input
  <2>2. IsLinearFlow' <=> IsLinearFlow
    BY <2>1 DEF IsLinearFlow, blocks
  <2>. SUFFICES ASSUME IsLinearFlow, PassInv, LinearFlowIsNotSplit
                PROVE  PassInv' /\ LinearFlowIsNotSplit'
    BY <1>2, <2>2 DEF SplitInv
  <2>3. CASE Propose
    <3>0. /\ Len(blocks) \in Nat /\ start \in Int /\ usable \in Int
          /\ \A i \in 1 .. Len(blocks) : blocks[i].top \in Int /\ blocks[i].bottom \in Int
      BY <1>2, Content DEF LoopInv, TypeOK, blocks
    <3>1. PassInv'
      BY <2>1, <2>3, <3>0 DEF Propose, PassInv, blocks
    <3>2. LinearFlowIsNotSplit'
      BY <2>1, <2>3 DEF Propose, LinearFlowIsNotSplit, blocks
    <3> QED
      BY <3>1, <3>2
  <2>4. CASE PullBack
    <3>1. LinearFlowIsNotSplit'
      BY <2>1, <2>4 DEF PullBack, LinearFlowIsNotSplit, blocks
    <3> QED
      BY <1>2, <2>4, <3>1, PullKeepsPass
  <2>5. CASE Cut
    <3>1. PassInv'
      BY <2>5 DEF Cut, PassInv
    <3> QED
      BY <1>2, <2>5, <3>1, CutSplitsNothing
  <2> QED
    BY <1>2, <2>3, <2>4, <2>5 DEF Next
<1>3. SplitInv /\ UNCHANGED vars => SplitInv'
  BY DEF vars, SplitInv, PassInv, LinearFlowIsNotSplit, IsLinearFlow, blocks, Straddles
<1> QED
  BY <1>1, <1>2, <1>3, SpecLoopInv, PTL DEF Spec

(* In a document whose boxes are stacked or nested, whatever fits on a     *)
(* page is printed whole.                                                  *)
THEOREM LinearFlowIsKeptWhole == Spec => []LinearFlowIsNotSplit
<1>1. SplitInv => LinearFlowIsNotSplit
  BY DEF SplitInv, LinearFlowIsNotSplit
<1> QED
  BY <1>1, SpecSplitInv, PTL
-----------------------------------------------------------------------------
(* The end of the loop.  Tuples of numbers, the first place counting most. *)
Precedes(m, n) ==
  \E k \in DOMAIN n : m[k] < n[k] /\ \A j \in 1 .. k - 1 : m[j] = n[j]

(* There is no endless way down through them. *)
LEMMA PrecedingEnds ==
  ASSUME NEW n \in Nat
  PROVE  IsWellFoundedOn({pair \in [1 .. n -> Nat] \X [1 .. n -> Nat] : Precedes(pair[1], pair[2])},
                         [1 .. n -> Nat])
<1> DEFINE R == {pair \in Nat \X Nat : pair[1] < pair[2]}
           T == [1 .. n -> Nat]
<1>1. IsWellFoundedOn(R, Nat)
  BY NatLessThanWellFounded DEF OpToRel
<1>2. IsWellFoundedOn(LexProductOrdering(R, Nat, n), T)
  BY <1>1, WFLexProductOrdering
<1>3. {pair \in T \X T : Precedes(pair[1], pair[2])} \subseteq LexProductOrdering(R, Nat, n)
  <2>1. ASSUME NEW p \in T, NEW q \in T, Precedes(p, q)
        PROVE  \E j \in 1 .. n : (\A i \in 1 .. j - 1 : p[i] = q[i]) /\ <<p[j], q[j]>> \in R
    <3>1. PICK k \in 1 .. n : p[k] < q[k] /\ \A j \in 1 .. k - 1 : p[j] = q[j]
      BY <2>1 DEF Precedes
    <3>2. <<p[k], q[k]>> \in R
      BY <3>1
    <3> QED
      BY <3>1, <3>2
  <2> HIDE DEF R
  <2> QED
    BY <2>1 DEF LexProductOrdering
<1> HIDE DEF R, T
<1> QED
  BY <1>2, <1>3, IsWellFoundedOnSubrelation DEF T

(* What is left to do: the document below, and in the pass over it.        *)
Ahead == (IF start < total THEN total - start ELSE 0) + (IF slices = << >> THEN 1 ELSE 0)

ToGo ==
  CASE phase = "slicing" -> <<Ahead, Len(blocks) + 2>>
    [] phase = "pulling" -> <<Ahead, Len(blocks) + 1 - next>>
    [] phase = "done"    -> <<0, 0>>

EndInv == phase = "pulling" => Ahead > 0

Parts(ahead, left) == ToGo \in [1 .. 2 -> Nat] /\ ToGo[1] = ahead /\ ToGo[2] = left

ToGoParts ==
  /\ Ahead \in Nat
  /\ phase = "slicing" => Parts(Ahead, Len(blocks) + 2)
  /\ phase = "pulling" => Parts(Ahead, Len(blocks) + 1 - next)
  /\ phase = "done" => Parts(0, 0)

LEMMA ToGoIs == LoopInv => ToGoParts
<1> SUFFICES ASSUME LoopInv PROVE ToGoParts
  OBVIOUS
<1>1. Ahead \in Nat
  BY DEF Ahead, LoopInv, TypeOK
<1>2. Len(blocks) \in Nat
  BY Content DEF LoopInv, TypeOK, blocks
<1>3. next \in 1 .. Len(blocks) + 1
  BY DEF LoopInv, TypeOK
<1>4. \A a, b \in Nat : <<a, b>> \in [1 .. 2 -> Nat] /\ <<a, b>>[1] = a /\ <<a, b>>[2] = b
  OBVIOUS
<1>5. Len(blocks) + 2 \in Nat /\ Len(blocks) + 1 - next \in Nat
  BY <1>2, <1>3
<1>6. phase = "slicing" => Parts(Ahead, Len(blocks) + 2)
  BY <1>1, <1>4, <1>5 DEF ToGo, Parts
<1>7. phase = "pulling" => Parts(Ahead, Len(blocks) + 1 - next)
  BY <1>1, <1>4, <1>5 DEF ToGo, Parts
<1>8. phase = "done" => Parts(0, 0)
  BY <1>4 DEF ToGo, Parts
<1> QED
  BY <1>1, <1>6, <1>7, <1>8 DEF ToGoParts

LEMMA FirstFalls ==
  ASSUME NEW m, NEW n \in [1 .. 2 -> Nat], m[1] < n[1] PROVE Precedes(m, n)
  BY DEF Precedes

LEMMA SecondFalls ==
  ASSUME NEW m, NEW n \in [1 .. 2 -> Nat], m[1] = n[1], m[2] < n[2] PROVE Precedes(m, n)
  BY DEF Precedes

LEMMA SlicingStep == ASSUME LoopInv, LoopInv', EndInv, Next PROVE EndInv' /\ Precedes(ToGo', ToGo)
<1>1. ToGoParts /\ ToGoParts'
  <2>1. ToGoParts
    BY ToGoIs
  <2>2. (LoopInv => ToGoParts)'
    BY ToGoIs, PTL
  <2> QED
    BY <2>1, <2>2
<1>2. Len(blocks) \in Nat /\ start \in Int /\ total \in Int /\ next \in 1 .. Len(blocks) + 1
      /\ UNCHANGED <<content, total>> /\ blocks' = blocks
  <2>1. UNCHANGED <<content, total>>
    BY DEF Next, Propose, PullBack, Cut, input
  <2> QED
    BY <2>1, Content DEF LoopInv, TypeOK, blocks
<1>3. CASE Propose
  <2>1. Ahead' = Ahead
    BY <1>2, <1>3 DEF Propose, Ahead
  <2>2. CASE phase' = "pulling"
    <3>1. (start < total \/ slices = << >>) /\ next' = 1 /\ phase = "slicing"
      BY <1>3, <2>2 DEF Propose
    <3>2. Ahead > 0
      BY <1>2, <3>1 DEF Ahead
    <3> QED
      BY <1>1, <1>2, <2>1, <2>2, <3>1, <3>2, SecondFalls DEF ToGoParts, Parts, EndInv
  <2>3. CASE phase' = "done"
    <3>1. phase = "slicing"
      BY <1>3 DEF Propose
    <3>2. CASE Ahead = 0
      BY <1>1, <1>2, <2>3, <3>1, <3>2, SecondFalls DEF ToGoParts, Parts, EndInv
    <3>3. CASE Ahead > 0
      BY <1>1, <1>2, <2>3, <3>1, <3>3, FirstFalls DEF ToGoParts, Parts, EndInv
    <3> QED
      BY <1>1, <3>2, <3>3 DEF ToGoParts
  <2> QED
    BY <1>3, <2>2, <2>3 DEF Propose
<1>4. CASE PullBack
  <2>1. phase = "pulling" /\ phase' = "pulling" /\ next' = next + 1 /\ Ahead' = Ahead
    BY <1>2, <1>4 DEF PullBack, Ahead
  <2> QED
    BY <1>1, <1>2, <2>1, SecondFalls DEF ToGoParts, Parts, EndInv
<1>5. CASE Cut
  <2>1. phase = "pulling" /\ phase' \in {"slicing", "done"} /\ Ahead > 0
    BY <1>5 DEF Cut, EndInv
  <2>2. start' > start /\ start' \in Int /\ slices' # << >>
    BY <1>2, <1>5, AppendedSlice DEF LoopInv, TypeOK
  <2>3. Ahead' < Ahead
    <3>1. \A x, y, z \in Int : y > x =>
            (IF y < z THEN z - y ELSE 0) + 0 < (IF x < z THEN z - x ELSE 0) + 1
      OBVIOUS
    <3>2. \A x, y, z \in Int : y > x /\ x < z =>
            (IF y < z THEN z - y ELSE 0) + 0 < (IF x < z THEN z - x ELSE 0) + 0
      OBVIOUS
    <3>3. Ahead' = (IF start' < total THEN total - start' ELSE 0) + 0
      BY <1>2, <2>2 DEF Ahead
    <3>4. CASE slices = << >>
      BY <1>2, <2>2, <3>1, <3>3, <3>4 DEF Ahead
    <3>5. CASE slices # << >>
      <4>1. start < total
        BY <1>2, <2>1, <3>5 DEF Ahead
      <4> QED
        BY <1>2, <2>2, <3>2, <3>3, <3>5, <4>1 DEF Ahead
    <3> QED
      BY <3>4, <3>5
  <2> QED
    BY <1>1, <2>1, <2>3, FirstFalls DEF ToGoParts, Parts, EndInv
<1> QED
  BY <1>3, <1>4, <1>5 DEF Next

LEMMA SpecEndInv == Spec => []EndInv
<1>1. Init => EndInv
  BY DEF Init, EndInv
<1>2. EndInv /\ UNCHANGED vars => EndInv'
  BY DEF EndInv, vars, Ahead
<1>3. LoopInv /\ LoopInv' /\ EndInv /\ [Next]_vars => EndInv'
  BY <1>2, SlicingStep
<1> QED
  BY <1>1, <1>3, SpecLoopInv, PTL DEF Spec

(* For every display list, sheet and cap: every step of the loop, and of   *)
(* the pass in it, leaves less to do, whether or not the cap on the slices *)
(* is ever reached.  With PrecedingEnds: compute_slices comes to its end.  *)
THEOREM SlicingGetsOn == Spec => [](ToGo \in [1 .. 2 -> Nat]) /\ [][Precedes(ToGo', ToGo)]_vars
<1>1. LoopInv /\ LoopInv' /\ EndInv /\ [Next]_vars => [Precedes(ToGo', ToGo)]_vars
  BY SlicingStep
<1>2. LoopInv => ToGo \in [1 .. 2 -> Nat]
  BY ToGoIs DEF ToGoParts, Parts, LoopInv, TypeOK
<1> QED
  BY <1>1, <1>2, SpecLoopInv, SpecEndInv, PTL DEF Spec
=============================================================================
