------------------------------- MODULE Slicer -------------------------------
(***************************************************************************)
(* Cutting a continuous document into sheets (paginate/src/slicer.rs).     *)
(* `compute_slices` advances one slice at a time; for each it proposes a   *)
(* cut one page further down and, in one pass over the boxes and then the  *)
(* images, pulls the cut back to the top of any that straddles it.         *)
(* `paginate` then puts an item on the page whose slice holds its top, or  *)
(* its baseline for a text.                                                *)
(*                                                                         *)
(* Only the vertical axis matters.  Coordinates are whole pixels: the code *)
(* adds and compares f32, which is exact for them up to 2^24.              *)
(*                                                                         *)
(* A definition that stands before another and bears its name with an      *)
(* addition, as HoldsToItsEnd beside Holds, is that code with a plausible  *)
(* slip. No action uses it: it tells which property would notice (README,  *)
(* Slips).                                                                 *)
(***************************************************************************)
EXTENDS Integers, Sequences, Functions

CONSTANTS
  Contents,   \* display lists: blocks, baselines and the height reserved
  Usables,    \* heights left between the margins
  MaxSlices   \* the slices beyond which the loop gives up, 10_000

(* Boxes and images count alike, in the order the code visits them. *)
DisplayLists ==
  [blocks : Seq([top : Int, bottom : Int]), baselines : Seq(Int), reserved : Nat]

ASSUME SlicerConstants ==
  /\ Contents \subseteq DisplayLists
  /\ Usables \subseteq Int
  /\ MaxSlices \in Nat

VARIABLES
  content,
  usable,
  total,     \* content_height
  slices,    \* the slices computed so far
  start,     \* where the next one starts
  cut,       \* the cut proposed for it
  next,      \* the block the pass over the blocks is at
  phase

vars == <<content, usable, total, slices, start, cut, next, phase>>
input == <<content, usable, total>>

blocks == content.blocks

(* `content_height`: the lowest of the ends of everything painted and of   *)
(* the height the layout reserved.                                         *)
Ends(c) == {c.reserved} \cup {b.bottom : b \in Range(c.blocks)} \cup Range(c.baselines)

IsContentHeight(h, c) == h \in Ends(c) /\ \A e \in Ends(c) : e <= h

(* Where an item is filed: the top of a block, the baseline of a text.     *)
Tops == {b.top : b \in Range(blocks)} \cup Range(content.baselines)

Init ==
  /\ content \in Contents
  /\ usable \in Usables
  /\ total \in Ends(content) /\ IsContentHeight(total, content)
  /\ slices = << >>
  /\ start = 0
  /\ cut = 0
  /\ next = 1
  /\ phase = IF usable <= 0 THEN "done" ELSE "slicing"

(* The loop condition, and the natural end of the next slice. *)
Propose ==
  /\ phase = "slicing"
  /\ IF start < total \/ slices = << >>
     THEN /\ phase' = "pulling"
          /\ cut' = start + usable
          /\ next' = 1
     ELSE /\ phase' = "done"
          /\ UNCHANGED <<cut, next>>
  /\ UNCHANGED <<input, slices, start>>

StraddlesOrStarts(b, y) == b.top >= start /\ b.top < y /\ b.bottom > y

Straddles(b, y) == b.top > start /\ b.top < y /\ b.bottom > y

PullBackFromNaturalEnd ==
  /\ phase = "pulling" /\ next <= Len(blocks)
  /\ cut' = IF Straddles(blocks[next], start + usable) THEN blocks[next].top ELSE cut
  /\ next' = next + 1
  /\ UNCHANGED <<input, slices, start, phase>>

PullBackAndRescan ==
  /\ phase = "pulling" /\ next <= Len(blocks)
  /\ IF Straddles(blocks[next], cut + 1)
     THEN cut' = blocks[next].top /\ next' = 1
     ELSE cut' = cut /\ next' = next + 1
  /\ UNCHANGED <<input, slices, start, phase>>

(* One block of `pull_back_to_box_edge`. *)
PullBack ==
  /\ phase = "pulling" /\ next <= Len(blocks)
  /\ cut' = IF Straddles(blocks[next], cut) THEN blocks[next].top ELSE cut
  /\ next' = next + 1
  /\ UNCHANGED <<input, slices, start, phase>>

Slice(from, to) == [start |-> from, end |-> to]

CutWithoutLimit ==
  /\ phase = "pulling" /\ next > Len(blocks)
  /\ slices' = Append(slices, Slice(start, cut))
  /\ start' = cut
  /\ phase' = IF cut <= start THEN "done" ELSE "slicing"
  /\ UNCHANGED <<input, cut, next>>

Cut ==
  /\ phase = "pulling" /\ next > Len(blocks)
  /\ slices' = Append(slices, Slice(start, cut))
  /\ start' = IF cut <= start THEN start ELSE cut
  /\ phase' = IF cut <= start \/ Len(slices') > MaxSlices THEN "done" ELSE "slicing"
  /\ UNCHANGED <<input, cut, next>>

Next == Propose \/ PullBack \/ Cut

Spec == Init /\ [][Next]_vars

(* Plain code that runs to its end. *)
FairSpec == Spec /\ WF_vars(Next)

HoldsToItsEnd(slice, y) == slice.start <= y /\ y <= slice.end

(* Which slice an item is put on. *)
Holds(slice, y) == slice.start <= y /\ y < slice.end

-----------------------------------------------------------------------------
TypeOK ==
  /\ content \in DisplayLists
  /\ usable \in Int /\ total \in Int /\ start \in Int /\ cut \in Int
  /\ slices \in Seq([start : Int, end : Int]) /\ Len(slices) <= MaxSlices + 1
  /\ next \in 1 .. Len(blocks) + 1
  /\ phase \in {"slicing", "pulling", "done"}

(* The loop ran to the end of the document. *)
Finished == phase = "done" /\ usable > 0 /\ Len(slices) <= MaxSlices

(* Nothing inside the document is lost or printed twice: every item that   *)
(* starts between its top and its height is on exactly one page, wherever  *)
(* the cuts were pulled to.                                                *)
EveryItemLandsOnce ==
  Finished =>
    \A y \in Tops : 0 <= y /\ y < total =>
      \E k \in DOMAIN slices :
        /\ Holds(slices[k], y)
        /\ \A j \in DOMAIN slices : Holds(slices[j], y) => j = k

(* No slice is taller than the band between the margins, so what starts on *)
(* a page starts inside its band and not in the footer or off the sheet;   *)
(* and none is empty, so pages never repeat.                               *)
SlicesFitTheSheet ==
  \A k \in DOMAIN slices :
    slices[k].start < slices[k].end /\ slices[k].end <= slices[k].start + usable

(* The content is a linear flow: two blocks are one below the other or one *)
(* inside the other, as the boxes of a rich-text editor are.               *)
Below(a, b) == a.bottom <= b.top
Inside(a, b) == b.top <= a.top /\ a.bottom <= b.bottom
IsLinearFlow ==
  \A a, b \in Range(blocks) : Below(a, b) \/ Below(b, a) \/ Inside(a, b) \/ Inside(b, a)

Splits(slice, b) == Holds(slice, b.top) /\ slice.end < b.bottom

(* In a linear flow no block that fits on a page is split by a cut, in     *)
(* whatever order the blocks are visited and however they nest (slicer.rs: *)
(* "enough for the linear flow of a rich-text editor").                    *)
LinearFlowIsNotSplit ==
  IsLinearFlow =>
    \A k \in DOMAIN slices : \A b \in Range(blocks) :
      b.bottom - b.top <= usable => ~ Splits(slices[k], b)

(* The loop ends: every slice makes progress. *)
Terminates == <>(phase = "done")

(* slicer.rs:78: "pulling a cut back so it does not split a box", and the  *)
(* test a_cut_never_splits_a_box_in_half.  A block that fits on a page and *)
(* starts below the top of one is not split there: the cut could have been *)
(* pulled back to it.                                                      *)
ACutNeverSplitsABox ==
  \A k \in DOMAIN slices : \A b \in Range(blocks) :
    b.bottom - b.top <= usable /\ b.top > slices[k].start => ~ Splits(slices[k], b)
=============================================================================
