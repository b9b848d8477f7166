--------------------------- MODULE PaginateProofs ---------------------------
(***************************************************************************)
(* The printing of a document, for every job: it slices as Slicer does,    *)
(* what is drawn lies where, in the order and with the font and bitmap it  *)
(* should, and every step leaves less to do.                               *)
(***************************************************************************)
EXTENDS Paginate, SequenceTheorems, TLAPS

P == INSTANCE SlicerProofs WITH
       Contents <- Flows,
       Usables <- Heights,
       content <- Flow(document),
       usable <- ContentHeight(geometry)

(* What is known of every job. *)
LEMMA JobFacts ==
  ASSUME job \in Jobs
  PROVE  /\ Extracted(document) /\ Extracted(header) /\ Extracted(footer)
         /\ document \in DisplayLists /\ header \in DisplayLists /\ footer \in DisplayLists
         /\ geometry \in Geometries
BY PaginateConstants DEF Extracted, document, header, footer, geometry

(* The slicing sees a display list of its own kind. *)
LEMMA FlowIsContent ==
  ASSUME NEW list \in DisplayLists PROVE Flow(list) \in P!DisplayLists
<1>1. list.boxes \in Seq(Boxes) /\ list.images \in Seq(Images) /\ list.texts \in Seq(Texts)
      /\ list.reserved \in Nat
  BY DEF DisplayLists
<1>2. ASSUME NEW items, NEW Kind, items \in Seq(Kind),
             \A item \in Kind : item.top \in Int /\ item.bottom \in Int
      PROVE  Extents(items) \in Seq([top : Int, bottom : Int])
  <2>1. items = [k \in 1 .. Len(items) |-> items[k]] /\ Len(items) \in Nat
        /\ DOMAIN items = 1 .. Len(items)
    BY <1>2
  <2>2. \A k \in 1 .. Len(items) : Extent(items[k]) \in [top : Int, bottom : Int]
    BY <1>2, ElementOfSeq DEF Extent
  <2> QED
    BY <2>1, <2>2, IsASeq DEF Extents
<1>3. Extents(list.boxes) \in Seq([top : Int, bottom : Int])
  BY <1>1, <1>2 DEF Boxes
<1>4. Extents(list.images) \in Seq([top : Int, bottom : Int])
  BY <1>1, <1>2 DEF Images
<1>5. [k \in DOMAIN list.texts |-> list.texts[k].baseline] \in Seq(Int)
  <2>1. DOMAIN list.texts = 1 .. Len(list.texts) /\ Len(list.texts) \in Nat
    BY <1>1
  <2>2. \A k \in 1 .. Len(list.texts) : list.texts[k].baseline \in Int
    <3>1. ASSUME NEW k \in 1 .. Len(list.texts) PROVE list.texts[k] \in Texts
      BY <1>1, ElementOfSeq
    <3> QED
      BY <3>1 DEF Texts
  <2> QED
    BY <2>1, <2>2, IsASeq
<1> QED
  BY <1>1, <1>3, <1>4, <1>5 DEF Flow, P!DisplayLists

LEMMA SlicingConstants == P!SlicerConstants
<1>1. Flows \subseteq P!DisplayLists
  BY PaginateConstants, FlowIsContent DEF Flows, Extracted
<1>2. Heights \subseteq Int
  BY PaginateConstants DEF Heights, ContentHeight, Geometries
<1> QED
  BY <1>1, <1>2, PaginateConstants DEF P!SlicerConstants

-----------------------------------------------------------------------------
(* Printing slices as the slicing alone does, so what is proved of the     *)
(* slices holds here.                                                      *)
LEMMA PrintingSlices == Spec => P!Spec
<1>1. Init => P!Init
  BY DEF Init, P!Init, S!Init, P!Ends, S!Ends, P!IsContentHeight, S!IsContentHeight,
         P!Range, S!Range,
         Flows, Heights, document, geometry
<1>2. [Next]_vars => [P!Next]_(P!vars)
  <2>1. Slicing => P!Next
    BY DEF Slicing, S!Next, P!Next, S!Propose, P!Propose, S!PullBack, P!PullBack,
           S!Cut, P!Cut, S!blocks, P!blocks, S!Straddles, P!Straddles, S!Slice, P!Slice,
           S!input, P!input
  <2>2. Page \/ Draw \/ UNCHANGED vars => UNCHANGED <<job, slicing>>
    BY DEF Page, GiveUp, OpenPage, FileBox, FileText, FileImage, ClosePage,
           Draw, DrawBox, DrawImage, DrawText, NextSheet, vars
  <2>3. UNCHANGED <<job, slicing>> => UNCHANGED P!vars
    BY DEF slicing, P!vars, document, geometry
  <2> QED
    BY <2>1, <2>2, <2>3 DEF Next
<1> QED
  BY <1>1, <1>2, PTL DEF Spec, P!Spec

LEMMA SlicesAreSound == Spec => []P!TypeOK /\ []P!SlicesFitTheSheet
BY SlicingConstants, PrintingSlices, P!SlicerTypes, P!SlicesFit, PTL
-----------------------------------------------------------------------------
(* The lists that move between documents and pages. *)

LEMMA ElementsOf ==
  ASSUME NEW Kind, NEW items \in Seq(Kind)
  PROVE  /\ Len(items) \in Nat /\ DOMAIN items = 1 .. Len(items)
         /\ \A k \in 1 .. Len(items) : items[k] \in Kind
BY ElementOfSeq

LEMMA ShiftedBox ==
  ASSUME NEW box \in Boxes, NEW dy \in Int
  PROVE  /\ Shift(box, dy) \in Boxes
         /\ Shift(box, dy).top = box.top + dy /\ Shift(box, dy).order = box.order
<1>1. box.top + dy \in Int /\ box.bottom + dy \in Int
  BY DEF Boxes
<1>2. ASSUME NEW a \in Int, NEW b \in Int
      PROVE  [box EXCEPT !.top = a, !.bottom = b] \in Boxes
  BY DEF Boxes
<1>3. Shift(box, dy) \in Boxes
  BY <1>1, <1>2 DEF Shift
<1>4. Shift(box, dy).top = box.top + dy /\ Shift(box, dy).order = box.order
  BY DEF Shift, Boxes
<1> QED
  BY <1>3, <1>4

LEMMA ShiftedImage ==
  ASSUME NEW image \in Images, NEW dy \in Int
  PROVE  /\ Shift(image, dy) \in Images
         /\ Shift(image, dy).top = image.top + dy /\ Shift(image, dy).order = image.order
<1>1. image.top + dy \in Int /\ image.bottom + dy \in Int
  BY DEF Images
<1>2. ASSUME NEW a \in Int, NEW b \in Int
      PROVE  [image EXCEPT !.top = a, !.bottom = b] \in Images
  BY DEF Images
<1>3. Shift(image, dy) \in Images
  BY <1>1, <1>2 DEF Shift
<1>4. Shift(image, dy).top = image.top + dy /\ Shift(image, dy).order = image.order
  BY DEF Shift, Images
<1> QED
  BY <1>3, <1>4

LEMMA ShiftedText ==
  ASSUME NEW text \in Texts, NEW dy \in Int, NEW offset \in Nat
  PROVE  /\ ShiftText(text, dy, offset) \in Texts
         /\ ShiftText(text, dy, offset).baseline = text.baseline + dy
         /\ ShiftText(text, dy, offset).font = text.font + offset
         /\ ShiftText(text, dy, offset).glyphs = text.glyphs
<1>1. text.baseline + dy \in Int /\ text.font + offset \in Nat
  BY DEF Texts
<1>2. ASSUME NEW a \in Int, NEW b \in Nat
      PROVE  [text EXCEPT !.baseline = a, !.font = b] \in Texts
  BY DEF Texts
<1>3. ShiftText(text, dy, offset) \in Texts
  BY <1>1, <1>2 DEF ShiftText
<1>4. /\ ShiftText(text, dy, offset).baseline = text.baseline + dy
      /\ ShiftText(text, dy, offset).font = text.font + offset
      /\ ShiftText(text, dy, offset).glyphs = text.glyphs
  BY DEF ShiftText, Texts
<1> QED
  BY <1>3, <1>4

(* What appending a list to a page makes of each of the three lists. *)
LEMMA AppendedLists ==
  ASSUME NEW p \in Pages, NEW source \in DisplayLists, NEW dy \in Int, NEW offset \in Nat
  PROVE  LET q == AppendShifted(p, source, dy, offset) IN
         /\ q \in Pages
         /\ Len(q.boxes) = Len(p.boxes) + Len(source.boxes)
         /\ Len(q.images) = Len(p.images) + Len(source.images)
         /\ Len(q.texts) = Len(p.texts) + Len(source.texts)
         /\ \A k \in 1 .. Len(p.texts) : q.texts[k] = p.texts[k]
         /\ \A k \in 1 .. Len(source.texts) :
              q.texts[Len(p.texts) + k] = ShiftText(source.texts[k], dy, offset)
<1> DEFINE B == [k \in DOMAIN source.boxes |-> Shift(source.boxes[k], dy)]
           I == [k \in DOMAIN source.images |-> Shift(source.images[k], dy)]
           T == [k \in DOMAIN source.texts |-> ShiftText(source.texts[k], dy, offset)]
           q == AppendShifted(p, source, dy, offset)
<1>1. /\ source.boxes \in Seq(Boxes) /\ source.images \in Seq(Images)
      /\ source.texts \in Seq(Texts)
      /\ p.boxes \in Seq(Boxes) /\ p.images \in Seq(Images) /\ p.texts \in Seq(Texts)
  BY DEF DisplayLists, Pages
<1>2. B \in Seq(Boxes) /\ Len(B) = Len(source.boxes)
  <2>1. \A k \in 1 .. Len(source.boxes) : Shift(source.boxes[k], dy) \in Boxes
    BY <1>1, ElementsOf, ShiftedBox
  <2>2. B = [k \in 1 .. Len(source.boxes) |-> Shift(source.boxes[k], dy)]
        /\ Len(source.boxes) \in Nat
    BY <1>1
  <2> QED
    BY <2>1, <2>2
<1>3. I \in Seq(Images) /\ Len(I) = Len(source.images)
  <2>1. \A k \in 1 .. Len(source.images) : Shift(source.images[k], dy) \in Images
    BY <1>1, ElementsOf, ShiftedImage
  <2>2. I = [k \in 1 .. Len(source.images) |-> Shift(source.images[k], dy)]
        /\ Len(source.images) \in Nat
    BY <1>1
  <2> QED
    BY <2>1, <2>2
<1>4. T \in Seq(Texts) /\ Len(T) = Len(source.texts)
  <2>1. \A k \in 1 .. Len(source.texts) : ShiftText(source.texts[k], dy, offset) \in Texts
    BY <1>1, ElementsOf, ShiftedText
  <2>2. T = [k \in 1 .. Len(source.texts) |-> ShiftText(source.texts[k], dy, offset)]
        /\ Len(source.texts) \in Nat
    BY <1>1
  <2> QED
    BY <2>1, <2>2
<1>5. q = [boxes |-> p.boxes \o B, images |-> p.images \o I, texts |-> p.texts \o T]
  BY DEF AppendShifted
<1> HIDE DEF B, I, T, q
<1>6. q.boxes \in Seq(Boxes) /\ Len(q.boxes) = Len(p.boxes) + Len(source.boxes)
  <2>1. q.boxes = p.boxes \o B
    BY <1>5
  <2>2. p.boxes \o B \in Seq(Boxes) /\ Len(p.boxes \o B) = Len(p.boxes) + Len(B)
    BY <1>1, <1>2, ConcatProperties
  <2> QED
    BY <1>2, <2>1, <2>2
<1>7. q.images \in Seq(Images) /\ Len(q.images) = Len(p.images) + Len(source.images)
  <2>1. q.images = p.images \o I
    BY <1>5
  <2>2. p.images \o I \in Seq(Images) /\ Len(p.images \o I) = Len(p.images) + Len(I)
    BY <1>1, <1>3, ConcatProperties
  <2> QED
    BY <1>3, <2>1, <2>2
<1>8. q.texts \in Seq(Texts) /\ Len(q.texts) = Len(p.texts) + Len(source.texts)
  <2>1. q.texts = p.texts \o T
    BY <1>5
  <2>2. p.texts \o T \in Seq(Texts) /\ Len(p.texts \o T) = Len(p.texts) + Len(T)
    BY <1>1, <1>4, ConcatProperties
  <2> QED
    BY <1>4, <2>1, <2>2
<1>9. \A k \in 1 .. Len(p.texts) : q.texts[k] = p.texts[k]
  BY <1>1, <1>4, <1>5
<1>10. ASSUME NEW k \in 1 .. Len(source.texts)
       PROVE  q.texts[Len(p.texts) + k] = ShiftText(source.texts[k], dy, offset)
  <2>1. T[k] = ShiftText(source.texts[k], dy, offset)
    BY <1>1, ElementsOf DEF T
  <2>2. q.texts[Len(p.texts) + k] = T[k]
    BY <1>1, <1>4, <1>5
  <2> QED
    BY <2>1, <2>2
<1>11. q \in Pages
  BY <1>5, <1>6, <1>7, <1>8 DEF Pages
<1> QED
  BY <1>6, <1>7, <1>8, <1>9, <1>10, <1>11 DEF q

LEMMA Refilled ==
  ASSUME NEW p \in Pages, pages \in Seq(Pages), Len(pages) # 0, Fill(p)
  PROVE  /\ pages' \in Seq(Pages) /\ Len(pages') = Len(pages)
         /\ pages'[Len(pages)] = p
         /\ \A k \in 1 .. Len(pages) - 1 : pages'[k] = pages[k]
BY DEF Fill

(* Extending one list of a page, and taking the first item of the rest. *)
LEMMA ExtendedPage ==
  ASSUME NEW p \in Pages
  PROVE  /\ \A box \in Boxes : [p EXCEPT !.boxes = Append(@, box)] \in Pages
         /\ \A image \in Images : [p EXCEPT !.images = Append(@, image)] \in Pages
         /\ \A text \in Texts : [p EXCEPT !.texts = Append(@, text)] \in Pages
         /\ p.boxes # << >> => [p EXCEPT !.boxes = Tail(@)] \in Pages
         /\ p.images # << >> => [p EXCEPT !.images = Tail(@)] \in Pages
         /\ p.texts # << >> => [p EXCEPT !.texts = Tail(@)] \in Pages
<1>1. p.boxes \in Seq(Boxes) /\ p.images \in Seq(Images) /\ p.texts \in Seq(Texts)
  BY DEF Pages
<1>2. /\ \A items \in Seq(Boxes) : [p EXCEPT !.boxes = items] \in Pages
      /\ \A items \in Seq(Images) : [p EXCEPT !.images = items] \in Pages
      /\ \A items \in Seq(Texts) : [p EXCEPT !.texts = items] \in Pages
  BY DEF Pages
<1>3. /\ \A box \in Boxes : Append(p.boxes, box) \in Seq(Boxes)
      /\ p.boxes # << >> => Tail(p.boxes) \in Seq(Boxes)
  BY <1>1
<1>4. /\ \A image \in Images : Append(p.images, image) \in Seq(Images)
      /\ p.images # << >> => Tail(p.images) \in Seq(Images)
  BY <1>1
<1>5. /\ \A text \in Texts : Append(p.texts, text) \in Seq(Texts)
      /\ p.texts # << >> => Tail(p.texts) \in Seq(Texts)
  BY <1>1
<1> QED
  BY <1>2, <1>3, <1>4, <1>5

LEMMA FirstOfTheRest ==
  ASSUME rest \in Pages
  PROVE  /\ rest.boxes # << >> => Head(rest.boxes) \in Boxes
         /\ rest.images # << >> => Head(rest.images) \in Images
         /\ rest.texts # << >> => Head(rest.texts) \in Texts
BY DEF Pages

-----------------------------------------------------------------------------
(* Types. *)

LEMMA SameSlicingTypes == S!TypeOK <=> P!TypeOK
BY DEF S!TypeOK, P!TypeOK, S!DisplayLists, P!DisplayLists, S!blocks, P!blocks

LEMMA FillingFacts ==
  ASSUME TypeOK, stage = "filing"
  PROVE  /\ Len(pages) \in Nat \ {0} /\ filling \in Pages
         /\ slice \in [start : Int, end : Int] /\ ToPage \in Int
<1>1. Len(pages) \in 1 .. Len(slices) /\ slices \in Seq([start : Int, end : Int])
  BY DEF TypeOK, S!TypeOK
<1>2. filling \in Pages
  BY <1>1, ElementOfSeq DEF TypeOK, filling
<1>3. slice \in [start : Int, end : Int]
  BY <1>1, ElementOfSeq DEF slice
<1>4. geometry.top \in Int
  BY JobFacts DEF TypeOK, Geometries
<1> QED
  BY <1>1, <1>2, <1>3, <1>4 DEF ToPage

LEMMA Advanced ==
  ASSUME at \in Positions
  PROVE  /\ [at EXCEPT !.boxes = @ + 1] \in Positions
         /\ [at EXCEPT !.images = @ + 1] \in Positions
         /\ [at EXCEPT !.texts = @ + 1] \in Positions
<1>1. /\ at.boxes + 1 \in Nat \ {0} /\ at.images + 1 \in Nat \ {0}
      /\ at.texts + 1 \in Nat \ {0}
  BY DEF Positions
<1>2. \A n \in Nat \ {0} :
        /\ [at EXCEPT !.boxes = n] \in Positions /\ [at EXCEPT !.images = n] \in Positions
        /\ [at EXCEPT !.texts = n] \in Positions
  BY DEF Positions
<1> QED
  BY <1>1, <1>2

LEMMA DrawingFacts ==
  ASSUME TypeOK, stage = "drawing"
  PROVE  /\ page \in Pages /\ sheet \in 1 .. Len(pages)
         /\ at.boxes \in Nat \ {0} /\ at.images \in Nat \ {0} /\ at.texts \in Nat \ {0}
<1>1. sheet \in 1 .. Len(pages)
  BY DEF TypeOK
<1> QED
  BY <1>1, ElementOfSeq DEF TypeOK, Positions, page

LEMMA TableFacts ==
  ASSUME job \in Jobs
  PROVE  /\ Table \in Seq(Fonts) /\ DOMAIN Table = 1 .. Len(Table)
         /\ Len(document.fonts) \in Nat /\ Len(header.fonts) \in Nat
         /\ HeaderOffset \in Nat /\ FooterOffset \in Nat
<1>1. document.fonts \in Seq(Fonts) /\ header.fonts \in Seq(Fonts) /\ footer.fonts \in Seq(Fonts)
  BY JobFacts DEF DisplayLists
<1>2. document.fonts \o header.fonts \in Seq(Fonts)
  BY <1>1, ConcatProperties
<1>3. Table \in Seq(Fonts)
  BY <1>1, <1>2, ConcatProperties DEF Table
<1>4. DOMAIN Table = 1 .. Len(Table)
  BY <1>3
<1>5. Len(document.fonts) \in Nat /\ Len(header.fonts) \in Nat
  BY <1>1
<1>6. HeaderOffset \in Nat
  BY <1>5, Zenon DEF HeaderOffset
<1>7. \A m, n \in Nat : m + n \in Nat
  OBVIOUS
<1>8. FooterOffset \in Nat
  BY <1>5, <1>6, <1>7, Zenon DEF FooterOffset
<1> QED
  BY <1>3, <1>4, <1>5, <1>6, <1>8

LEMMA BannerLengths ==
  ASSUME job \in Jobs
  PROVE  /\ Len(header.boxes) \in Nat /\ Len(header.images) \in Nat /\ Len(header.texts) \in Nat
         /\ Len(footer.boxes) \in Nat /\ Len(footer.images) \in Nat /\ Len(footer.texts) \in Nat
<1>1. \A list \in DisplayLists :
        Len(list.boxes) \in Nat /\ Len(list.images) \in Nat /\ Len(list.texts) \in Nat
  BY DEF DisplayLists
<1> QED
  BY <1>1, JobFacts

(* A page before anything of the document is filed on it.                 *)
LEMMA OpenedPage ==
  ASSUME TypeOK
  PROVE  /\ Opened \in Pages
         /\ Len(Opened.boxes) = Len(header.boxes) + Len(footer.boxes)
         /\ Len(Opened.images) = Len(header.images) + Len(footer.images)
         /\ Len(Opened.texts) = Len(header.texts) + Len(footer.texts)
         /\ \A k \in 1 .. Len(header.texts) :
              Opened.texts[k] = ShiftText(header.texts[k], 0, HeaderOffset)
         /\ \A k \in 1 .. Len(footer.texts) :
              Opened.texts[Len(header.texts) + k] =
                ShiftText(footer.texts[k], geometry.sheet_height - geometry.bottom, FooterOffset)
<1>1. EmptyPage \in Pages /\ Len(EmptyPage.boxes) = 0 /\ Len(EmptyPage.images) = 0
      /\ Len(EmptyPage.texts) = 0
  BY DEF EmptyPage, Pages
<1>2. /\ header \in DisplayLists /\ footer \in DisplayLists
      /\ geometry.sheet_height - geometry.bottom \in Int
  BY JobFacts DEF TypeOK, Geometries
<1>3. HeaderOffset \in Nat /\ FooterOffset \in Nat /\ 0 \in Int
  BY TableFacts DEF TypeOK
<1> DEFINE q == AppendShifted(EmptyPage, header, 0, HeaderOffset)
<1>4. /\ q \in Pages
      /\ Len(q.boxes) = Len(EmptyPage.boxes) + Len(header.boxes)
      /\ Len(q.images) = Len(EmptyPage.images) + Len(header.images)
      /\ Len(q.texts) = Len(EmptyPage.texts) + Len(header.texts)
      /\ \A k \in 1 .. Len(header.texts) :
           q.texts[Len(EmptyPage.texts) + k] = ShiftText(header.texts[k], 0, HeaderOffset)
  BY <1>1, <1>2, <1>3, AppendedLists
<1> HIDE DEF q
<1>5. LET r == AppendShifted(q, footer, geometry.sheet_height - geometry.bottom, FooterOffset) IN
      /\ r \in Pages
      /\ Len(r.boxes) = Len(q.boxes) + Len(footer.boxes)
      /\ Len(r.images) = Len(q.images) + Len(footer.images)
      /\ Len(r.texts) = Len(q.texts) + Len(footer.texts)
      /\ \A k \in 1 .. Len(q.texts) : r.texts[k] = q.texts[k]
      /\ \A k \in 1 .. Len(footer.texts) :
           r.texts[Len(q.texts) + k] =
             ShiftText(footer.texts[k], geometry.sheet_height - geometry.bottom, FooterOffset)
  BY <1>2, <1>3, <1>4, AppendedLists
<1>6. Opened = AppendShifted(q, footer, geometry.sheet_height - geometry.bottom, FooterOffset)
  BY DEF Opened, q
<1>7. /\ Len(header.boxes) \in Nat /\ Len(header.images) \in Nat /\ Len(header.texts) \in Nat
  BY BannerLengths DEF TypeOK
<1>8. /\ Len(q.boxes) = Len(header.boxes) /\ Len(q.images) = Len(header.images)
      /\ Len(q.texts) = Len(header.texts)
  BY <1>1, <1>4, <1>7
<1>9. \A k \in 1 .. Len(header.texts) :
        q.texts[k] = ShiftText(header.texts[k], 0, HeaderOffset)
  BY <1>1, <1>4, <1>7
<1> QED
  BY <1>5, <1>6, <1>8, <1>9

(* The pages stay pages while they are filled. *)
LEMMA PageKeepsTypes == ASSUME TypeOK, S!TypeOK', Page PROVE TypeOK'
<1>1. CASE GiveUp
  <2>1. EmptyPage \in Pages
    BY DEF EmptyPage, Pages
  <2> QED
    BY <1>1, <2>1 DEF GiveUp, Sliced, TypeOK, drawing, slicing
<1>2. CASE OpenPage
  <2>1. pages' \in Seq(Pages) /\ Len(pages') = Len(pages) + 1 /\ Len(pages) \in Nat
    <3>1. pages \in Seq(Pages) /\ Opened \in Pages /\ pages' = Append(pages, Opened)
      BY <1>2, OpenedPage DEF OpenPage, TypeOK
    <3> QED
      BY <3>1
  <2>2. rest' \in Pages
    BY <1>2, JobFacts DEF OpenPage, DisplayLists, Pages, TypeOK
  <2>3. Len(pages) < Len(slices) /\ slices' = slices /\ phase' = "done"
        /\ Len(slices) \in Nat /\ DOMAIN slices = 1 .. Len(slices)
    BY <1>2 DEF OpenPage, Sliced, slicing, TypeOK, S!TypeOK
  <2>4. Len(pages') \in DOMAIN slices'
    BY <2>1, <2>3
  <2> QED
    BY <1>2, <2>1, <2>2, <2>3, <2>4 DEF OpenPage, Sliced, TypeOK, drawing
<1>3. CASE FileBox
  <2>1. Head(rest.boxes) \in Boxes /\ Shift(Head(rest.boxes), ToPage) \in Boxes
    BY <1>3, FirstOfTheRest, FillingFacts, ShiftedBox DEF FileBox, TypeOK
  <2>2. rest' \in Pages
    BY <1>3, ExtendedPage DEF FileBox, TypeOK
  <2>3. pages' \in Seq(Pages) /\ Len(pages') = Len(pages)
    <3>1. [filling EXCEPT !.boxes = Append(@, Shift(Head(rest.boxes), ToPage))] \in Pages
      BY <1>3, <2>1, FillingFacts, ExtendedPage DEF FileBox
    <3> QED
      BY <1>3, <3>1, FillingFacts, Refilled DEF FileBox, TypeOK
  <2> QED
    BY <1>3, <2>2, <2>3 DEF FileBox, TypeOK, drawing, slicing
<1>4. CASE FileText
  <2>1. Head(rest.texts) \in Texts /\ ShiftText(Head(rest.texts), ToPage, 0) \in Texts
    BY <1>4, FirstOfTheRest, FillingFacts, ShiftedText DEF FileText, TypeOK
  <2>2. rest' \in Pages
    BY <1>4, ExtendedPage DEF FileText, TypeOK
  <2>3. pages' \in Seq(Pages) /\ Len(pages') = Len(pages)
    <3>1. [filling EXCEPT !.texts = Append(@, ShiftText(Head(rest.texts), ToPage, 0))] \in Pages
      BY <1>4, <2>1, FillingFacts, ExtendedPage DEF FileText
    <3> QED
      BY <1>4, <3>1, FillingFacts, Refilled DEF FileText, TypeOK
  <2> QED
    BY <1>4, <2>2, <2>3 DEF FileText, TypeOK, drawing, slicing
<1>5. CASE FileImage
  <2>1. Head(rest.images) \in Images /\ Shift(Head(rest.images), ToPage) \in Images
    BY <1>5, FirstOfTheRest, FillingFacts, ShiftedImage DEF FileImage, TypeOK
  <2>2. rest' \in Pages
    BY <1>5, ExtendedPage DEF FileImage, TypeOK
  <2>3. pages' \in Seq(Pages) /\ Len(pages') = Len(pages)
    <3>1. [filling EXCEPT !.images = Append(@, Shift(Head(rest.images), ToPage))] \in Pages
      BY <1>5, <2>1, FillingFacts, ExtendedPage DEF FileImage
    <3> QED
      BY <1>5, <3>1, FillingFacts, Refilled DEF FileImage, TypeOK
  <2> QED
    BY <1>5, <2>2, <2>3 DEF FileImage, TypeOK, drawing, slicing
<1>6. CASE ClosePage
  BY <1>6 DEF ClosePage, TypeOK, paging, drawing, slicing
<1> QED
  BY <1>1, <1>2, <1>3, <1>4, <1>5, <1>6 DEF Page

(* So do the operations while they are drawn. *)
LEMMA DrawKeepsTypes == ASSUME TypeOK, S!TypeOK', Draw PROVE TypeOK'
<1>1. CASE DrawBox
  <2>1. Drawn("box", at.boxes, 0) \in Operations
    BY <1>1, DrawingFacts DEF DrawBox, Drawn, Operations
  <2>2. ops' \in Seq(Operations)
    BY <1>1, <2>1 DEF DrawBox, TypeOK
  <2>3. at' \in Positions
    BY <1>1, Advanced DEF DrawBox, TypeOK
  <2> QED
    BY <1>1, <2>1, <2>2, <2>3 DEF DrawBox, TypeOK, paging, slicing
<1>2. CASE DrawImage
  <2> DEFINE bitmap == page.images[at.images].bitmap
  <2>1. bitmap \in Bitmaps
    <3>1. at.images \in 1 .. Len(page.images) /\ page.images \in Seq(Images)
      BY <1>2, DrawingFacts DEF DrawImage, ImageIsNext, Pages
    <3>2. page.images[at.images] \in Images
      BY <3>1, ElementOfSeq
    <3> QED
      BY <3>2 DEF Images
  <2>2. embedded' \in Seq(Bitmaps)
    <3>1. embedded' = embedded \/ embedded' = Append(embedded, bitmap)
      BY <1>2 DEF DrawImage
    <3>2. embedded \in Seq(Bitmaps)
      BY DEF TypeOK
    <3> HIDE DEF bitmap
    <3> QED
      BY <2>1, <3>1, <3>2
  <2>3. \A id \in Nat : Drawn("image", at.images, id) \in Operations
    BY <1>2, DrawingFacts DEF DrawImage, Drawn, Operations
  <2>4. DOMAIN embedded \subseteq Nat /\ Len(embedded) + 1 \in Nat
    BY DEF TypeOK
  <2>5. ops' \in Seq(Operations)
    <3>1. ops' = ops \/ \E id \in Nat : ops' = Append(ops, Drawn("image", at.images, id))
      BY <1>2, <2>4 DEF DrawImage
    <3>2. ops \in Seq(Operations)
      BY DEF TypeOK
    <3> QED
      BY <2>3, <3>1, <3>2
  <2>6. at' \in Positions
    BY <1>2, Advanced DEF DrawImage, TypeOK
  <2> QED
    BY <1>2, <2>2, <2>5, <2>6 DEF DrawImage, TypeOK, paging, slicing
<1>3. CASE DrawText
  <2>1. \A id \in Nat : Drawn("text", at.texts, id) \in Operations
    BY <1>3, DrawingFacts DEF DrawText, Drawn, Operations
  <2>2. \A k \in DOMAIN FontIds : FontIds[k] \in Nat
    BY TableFacts DEF FontIds, TypeOK
  <2>3. ops' \in Seq(Operations)
    BY <1>3, <2>1, <2>2 DEF DrawText, HasId, TypeOK
  <2>4. at' \in Positions
    BY <1>3, Advanced DEF DrawText, TypeOK
  <2> QED
    BY <1>3, <2>3, <2>4 DEF DrawText, TypeOK, paging, slicing
<1>4. CASE NextSheet
  <2>1. sheet \in 1 .. Len(pages) /\ Len(pages) \in Nat /\ DOMAIN pages = 1 .. Len(pages)
    BY <1>4, DrawingFacts DEF NextSheet, TypeOK
  <2>2. Start \in Positions /\ << >> \in Seq(Operations)
    BY DEF Start, Positions
  <2>3. sheet' \in DOMAIN pages /\ stage' \in {"drawing", "done"} /\ pages' = pages
    BY <1>4, <2>1 DEF NextSheet, paging
  <2>4. at' \in Positions /\ ops' \in Seq(Operations)
    BY <1>4, <2>2 DEF NextSheet, TypeOK
  <2> QED
    BY <1>4, <2>3, <2>4 DEF NextSheet, TypeOK, paging, slicing
<1> QED
  BY <1>1, <1>2, <1>3, <1>4 DEF Draw

(* Jobs, pages, operations and what is embedded stay well formed.          *)
THEOREM PrintTypes == Spec => []TypeOK
<1>1. Init /\ P!TypeOK => TypeOK
  BY SameSlicingTypes DEF Init, TypeOK, EmptyPage, Pages, Positions, Start
<1>2. ASSUME TypeOK, P!TypeOK', [Next]_vars PROVE TypeOK'
  <2>1. S!TypeOK'
    BY <1>2 DEF S!TypeOK, P!TypeOK, S!DisplayLists, P!DisplayLists, S!blocks, P!blocks
  <2>2. CASE Slicing
    BY <1>2, <2>1, <2>2 DEF Slicing, TypeOK, paging, drawing
  <2>3. CASE UNCHANGED vars
    BY <1>2, <2>1, <2>3 DEF vars, TypeOK, paging, drawing, slicing
  <2> QED
    BY <1>2, <2>1, <2>2, <2>3, PageKeepsTypes, DrawKeepsTypes DEF Next
<1> QED
  BY <1>1, <1>2, SlicesAreSound, PTL DEF Spec

-----------------------------------------------------------------------------
(* The document between the margins. *)

StaysInBand(p) ==
  /\ \A box \in FromDocument(p.boxes, header.boxes, footer.boxes) : InBand(box.top)
  /\ \A image \in FromDocument(p.images, header.images, footer.images) : InBand(image.top)
  /\ \A text \in FromDocument(p.texts, header.texts, footer.texts) : InBand(text.baseline)

LEMMA GrownFromDocument ==
  ASSUME NEW Kind, NEW items \in Seq(Kind), NEW x \in Kind, NEW h, NEW f,
         Len(h) \in Nat, Len(f) \in Nat
  PROVE  FromDocument(Append(items, x), h, f) \subseteq FromDocument(items, h, f) \cup {x}
<1>1. Len(Append(items, x)) = Len(items) + 1 /\ Len(items) \in Nat
  OBVIOUS
<1>2. Append(items, x)[Len(items) + 1] = x
      /\ \A k \in 1 .. Len(items) : Append(items, x)[k] = items[k]
  OBVIOUS
<1>3. ASSUME NEW k \in Len(h) + Len(f) + 1 .. Len(items) + 1
      PROVE  Append(items, x)[k] \in FromDocument(items, h, f) \cup {x}
  <2>1. CASE k = Len(items) + 1
    BY <1>2, <2>1
  <2>2. CASE k # Len(items) + 1
    <3>1. k \in Len(h) + Len(f) + 1 .. Len(items) /\ k \in 1 .. Len(items)
      BY <1>1, <2>2
    <3> QED
      BY <1>2, <3>1 DEF FromDocument
  <2> QED
    BY <2>1, <2>2
<1> QED
  BY <1>1, <1>3 DEF FromDocument

LEMMA NothingFromDocument ==
  ASSUME NEW items, NEW h, NEW f, Len(h) \in Nat, Len(f) \in Nat,
         Len(items) = 0 \/ Len(items) = Len(h) + Len(f)
  PROVE  FromDocument(items, h, f) = {}
<1>1. \A m, n, l \in Nat : l = 0 \/ l = m + n => m + n + 1 .. l = {}
  OBVIOUS
<1>2. Len(items) \in Nat
  <2>1. 0 \in Nat /\ \A m, n \in Nat : m + n \in Nat
    OBVIOUS
  <2> QED
    BY <2>1, Zenon
<1>3. Len(h) + Len(f) + 1 .. Len(items) = {}
  BY <1>1, <1>2, Zenon
<1> QED
  BY <1>3 DEF FromDocument

(* An item of the slice moves between the margins.                         *)
LEMMA FiledInBand ==
  ASSUME TypeOK, P!SlicesFitTheSheet, stage = "filing", NEW y \in Int, S!Holds(slice, y)
  PROVE  InBand(y + ToPage)
<1>1. /\ geometry.top \in Int /\ geometry.bottom \in Int /\ geometry.sheet_height \in Int
  BY JobFacts DEF TypeOK, Geometries
<1>2. slice.end <= slice.start + ContentHeight(geometry)
  BY DEF P!SlicesFitTheSheet, TypeOK, slice
<1>3. slice.start \in Int /\ slice.end \in Int
  BY FillingFacts
<1> QED
  BY <1>1, <1>2, <1>3 DEF S!Holds, InBand, ToPage, ContentHeight

BandInv == \A k \in 1 .. Len(pages) : StaysInBand(pages[k])

LEMMA FillKeepsBand ==
  ASSUME TypeOK, BandInv, UNCHANGED job, stage = "filing",
         NEW p \in Pages, StaysInBand(p), Fill(p)
  PROVE  BandInv'
<1>1. \A k \in 1 .. Len(pages') : StaysInBand(pages'[k])
  <2>1. /\ Len(pages) \in Nat \ {0} /\ Len(pages') = Len(pages) /\ pages'[Len(pages)] = p
        /\ \A k \in 1 .. Len(pages) - 1 : pages'[k] = pages[k]
    BY FillingFacts, Refilled DEF TypeOK
  <2>2. ASSUME NEW k \in 1 .. Len(pages) PROVE k = Len(pages) \/ k \in 1 .. Len(pages) - 1
    BY <2>1
  <2> QED
    BY <2>1, <2>2 DEF BandInv
<1> QED
  BY <1>1 DEF BandInv, StaysInBand, InBand, header, footer, geometry

LEMMA PageKeepsBand ==
  ASSUME TypeOK, P!SlicesFitTheSheet, BandInv, Page PROVE BandInv'
<1> USE DEF BandInv
<1>0. header' = header /\ footer' = footer /\ geometry' = geometry /\ job' = job
  BY DEF Page, GiveUp, OpenPage, FileBox, FileText, FileImage, ClosePage,
         header, footer, geometry
<1>1. CASE GiveUp
  <2>0. /\ Len(header.boxes) \in Nat /\ Len(header.images) \in Nat /\ Len(header.texts) \in Nat
        /\ Len(footer.boxes) \in Nat /\ Len(footer.images) \in Nat /\ Len(footer.texts) \in Nat
    BY BannerLengths DEF TypeOK
  <2>1. StaysInBand(EmptyPage)
    <3>1. Len(EmptyPage.boxes) = 0 /\ Len(EmptyPage.images) = 0 /\ Len(EmptyPage.texts) = 0
      BY DEF EmptyPage
    <3>2. /\ FromDocument(EmptyPage.boxes, header.boxes, footer.boxes) = {}
          /\ FromDocument(EmptyPage.images, header.images, footer.images) = {}
          /\ FromDocument(EmptyPage.texts, header.texts, footer.texts) = {}
      BY <2>0, <3>1, NothingFromDocument
    <3> QED
      BY <3>2 DEF StaysInBand
  <2>2. Len(pages') = 1 /\ pages'[1] = EmptyPage
    BY <1>1 DEF GiveUp
  <2> QED
    BY <1>0, <2>1, <2>2 DEF StaysInBand, InBand
<1>2. CASE OpenPage
  <2>0. /\ Len(header.boxes) \in Nat /\ Len(header.images) \in Nat /\ Len(header.texts) \in Nat
        /\ Len(footer.boxes) \in Nat /\ Len(footer.images) \in Nat /\ Len(footer.texts) \in Nat
    BY BannerLengths DEF TypeOK
  <2>1. StaysInBand(Opened)
    <3>1. /\ FromDocument(Opened.boxes, header.boxes, footer.boxes) = {}
          /\ FromDocument(Opened.images, header.images, footer.images) = {}
          /\ FromDocument(Opened.texts, header.texts, footer.texts) = {}
      BY <2>0, OpenedPage, NothingFromDocument
    <3> QED
      BY <3>1 DEF StaysInBand
  <2>2. \A k \in 1 .. Len(pages') : StaysInBand(pages'[k])
    BY <1>2, <2>1, OpenedPage DEF OpenPage, TypeOK
  <2> QED
    BY <1>0, <2>2 DEF StaysInBand, InBand
<1>3. CASE FileBox
  <2> DEFINE box == Head(rest.boxes)
             p == [filling EXCEPT !.boxes = Append(@, Shift(box, ToPage))]
  <2>1. stage = "filing" /\ box \in Boxes /\ box.top \in Int /\ filling \in Pages
        /\ filling.boxes \in Seq(Boxes) /\ ToPage \in Int
    BY <1>3, FirstOfTheRest, FillingFacts DEF FileBox, TypeOK, Boxes, Pages
  <2>2. CASE S!Holds(slice, box.top)
    <3>1. Shift(box, ToPage) \in Boxes /\ InBand(Shift(box, ToPage).top)
      BY <2>1, <2>2, ShiftedBox, FiledInBand
    <3>2. p \in Pages /\ p.boxes = Append(filling.boxes, Shift(box, ToPage))
          /\ p.images = filling.images /\ p.texts = filling.texts
      BY <2>1, <3>1, ExtendedPage DEF Pages
    <3>3. StaysInBand(filling)
      BY <2>1, FillingFacts DEF filling
    <3>4. FromDocument(p.boxes, header.boxes, footer.boxes) \subseteq
            FromDocument(filling.boxes, header.boxes, footer.boxes) \cup {Shift(box, ToPage)}
      BY <2>1, <3>1, <3>2, GrownFromDocument, BannerLengths DEF TypeOK
    <3>5. StaysInBand(p)
      BY <3>1, <3>2, <3>3, <3>4 DEF StaysInBand
    <3>6. Fill(p)
      BY <1>3, <2>2 DEF FileBox
    <3> QED
      BY <1>0, <2>1, <3>2, <3>5, <3>6, FillKeepsBand
  <2>3. CASE ~ S!Holds(slice, box.top)
    BY <1>0, <1>3, <2>3 DEF FileBox, StaysInBand, InBand
  <2> QED
    BY <2>2, <2>3
<1>4. CASE FileText
  <2> DEFINE text == Head(rest.texts)
             p == [filling EXCEPT !.texts = Append(@, ShiftText(text, ToPage, 0))]
  <2>1. stage = "filing" /\ text \in Texts /\ text.baseline \in Int /\ filling \in Pages
        /\ filling.texts \in Seq(Texts) /\ ToPage \in Int
    BY <1>4, FirstOfTheRest, FillingFacts DEF FileText, TypeOK, Texts, Pages
  <2>2. CASE S!Holds(slice, text.baseline)
    <3>1. ShiftText(text, ToPage, 0) \in Texts /\ InBand(ShiftText(text, ToPage, 0).baseline)
      BY <2>1, <2>2, ShiftedText, FiledInBand
    <3>2. p \in Pages /\ p.texts = Append(filling.texts, ShiftText(text, ToPage, 0))
          /\ p.images = filling.images /\ p.boxes = filling.boxes
      BY <2>1, <3>1, ExtendedPage DEF Pages
    <3>3. StaysInBand(filling)
      BY <2>1, FillingFacts DEF filling
    <3>4. FromDocument(p.texts, header.texts, footer.texts) \subseteq
            FromDocument(filling.texts, header.texts, footer.texts)
              \cup {ShiftText(text, ToPage, 0)}
      BY <2>1, <3>1, <3>2, GrownFromDocument, BannerLengths DEF TypeOK
    <3>5. StaysInBand(p)
      BY <3>1, <3>2, <3>3, <3>4 DEF StaysInBand
    <3>6. Fill(p)
      BY <1>4, <2>2 DEF FileText
    <3> QED
      BY <1>0, <2>1, <3>2, <3>5, <3>6, FillKeepsBand
  <2>3. CASE ~ S!Holds(slice, text.baseline)
    BY <1>0, <1>4, <2>3 DEF FileText, StaysInBand, InBand
  <2> QED
    BY <2>2, <2>3
<1>5. CASE FileImage
  <2> DEFINE image == Head(rest.images)
             p == [filling EXCEPT !.images = Append(@, Shift(image, ToPage))]
  <2>1. stage = "filing" /\ image \in Images /\ image.top \in Int /\ filling \in Pages
        /\ filling.images \in Seq(Images) /\ ToPage \in Int
    BY <1>5, FirstOfTheRest, FillingFacts DEF FileImage, TypeOK, Images, Pages
  <2>2. CASE S!Holds(slice, image.top)
    <3>1. Shift(image, ToPage) \in Images /\ InBand(Shift(image, ToPage).top)
      BY <2>1, <2>2, ShiftedImage, FiledInBand
    <3>2. p \in Pages /\ p.images = Append(filling.images, Shift(image, ToPage))
          /\ p.boxes = filling.boxes /\ p.texts = filling.texts
      BY <2>1, <3>1, ExtendedPage DEF Pages
    <3>3. StaysInBand(filling)
      BY <2>1, FillingFacts DEF filling
    <3>4. FromDocument(p.images, header.images, footer.images) \subseteq
            FromDocument(filling.images, header.images, footer.images) \cup {Shift(image, ToPage)}
      BY <2>1, <3>1, <3>2, GrownFromDocument, BannerLengths DEF TypeOK
    <3>5. StaysInBand(p)
      BY <3>1, <3>2, <3>3, <3>4 DEF StaysInBand
    <3>6. Fill(p)
      BY <1>5, <2>2 DEF FileImage
    <3> QED
      BY <1>0, <2>1, <3>2, <3>5, <3>6, FillKeepsBand
  <2>3. CASE ~ S!Holds(slice, image.top)
    BY <1>0, <1>5, <2>3 DEF FileImage, StaysInBand, InBand
  <2> QED
    BY <2>2, <2>3
<1>6. CASE ClosePage
  BY <1>0, <1>6 DEF ClosePage, paging, StaysInBand, InBand
<1> QED
  BY <1>1, <1>2, <1>3, <1>4, <1>5, <1>6 DEF Page

(* What the document puts on a page starts between the margins. *)
THEOREM DocumentInItsBand == Spec => []DocumentStaysInItsBand
<1>1. Init => BandInv
  BY DEF Init, BandInv
<1>2. TypeOK /\ P!SlicesFitTheSheet /\ BandInv /\ [Next]_vars => BandInv'
  <2>1. UNCHANGED <<job, pages>> => (BandInv => BandInv')
    BY DEF BandInv, StaysInBand, InBand, header, footer, geometry
  <2>2. Slicing \/ Draw \/ UNCHANGED vars => UNCHANGED <<job, pages>>
    BY DEF Slicing, Draw, DrawBox, DrawImage, DrawText, NextSheet, vars, paging
  <2> QED
    BY <2>1, <2>2, PageKeepsBand DEF Next
<1>3. TypeOK /\ BandInv => DocumentStaysInItsBand
  <2>1. TypeOK => DOMAIN pages = 1 .. Len(pages)
    BY DEF TypeOK
  <2> QED
    BY <2>1 DEF BandInv, StaysInBand, DocumentStaysInItsBand, Range
<1> QED
  BY <1>1, <1>2, <1>3, PrintTypes, SlicesAreSound, PTL DEF Spec

-----------------------------------------------------------------------------
(* Fonts. *)

(* Where each list's fonts are in the table. *)
LEMMA TableParts ==
  ASSUME job \in Jobs
  PROVE  /\ \A k \in DOMAIN document.fonts :
              k + 0 \in DOMAIN Table /\ Table[k + 0] = document.fonts[k]
         /\ \A k \in DOMAIN header.fonts :
              k + HeaderOffset \in DOMAIN Table /\ Table[k + HeaderOffset] = header.fonts[k]
         /\ \A k \in DOMAIN footer.fonts :
              k + FooterOffset \in DOMAIN Table /\ Table[k + FooterOffset] = footer.fonts[k]
<1>1. /\ document.fonts \in Seq(Fonts) /\ header.fonts \in Seq(Fonts)
      /\ footer.fonts \in Seq(Fonts)
  BY JobFacts DEF DisplayLists
<1>2. ASSUME NEW d \in Seq(Fonts), NEW h \in Seq(Fonts), NEW f \in Seq(Fonts)
      PROVE  /\ \A k \in DOMAIN d :
                  k + 0 \in DOMAIN (d \o h \o f) /\ (d \o h \o f)[k + 0] = d[k]
             /\ \A k \in DOMAIN h : /\ k + Len(d) \in DOMAIN (d \o h \o f)
                                    /\ (d \o h \o f)[k + Len(d)] = h[k]
             /\ \A k \in DOMAIN f : /\ k + (Len(d) + Len(h)) \in DOMAIN (d \o h \o f)
                                    /\ (d \o h \o f)[k + (Len(d) + Len(h))] = f[k]
  OBVIOUS
<1> QED
  BY <1>1, <1>2 DEF Table, HeaderOffset, FooterOffset

(* A run moved into the table stays in its font. *)
LEMMA MovedRun ==
  ASSUME NEW text \in Texts, NEW fonts, NEW dy \in Int, NEW offset \in Nat,
         text.font \in DOMAIN fonts, fonts[text.font] = text.glyphs,
         \A k \in DOMAIN fonts : k + offset \in DOMAIN Table /\ Table[k + offset] = fonts[k]
  PROVE  LET moved == ShiftText(text, dy, offset) IN
         moved.font \in DOMAIN Table /\ Table[moved.font] = moved.glyphs
BY ShiftedText

LEMMA OpenedInFonts ==
  ASSUME TypeOK PROVE InFonts(Opened.texts, Table)
<1>0. job \in Jobs
  BY DEF TypeOK
<1>1. /\ InFonts(header.texts, header.fonts) /\ InFonts(footer.texts, footer.fonts)
      /\ header.texts \in Seq(Texts) /\ footer.texts \in Seq(Texts)
      /\ geometry.sheet_height - geometry.bottom \in Int
  <2>1. InFonts(header.texts, header.fonts) /\ InFonts(footer.texts, footer.fonts)
    BY <1>0, JobFacts DEF Extracted
  <2>2. header.texts \in Seq(Texts) /\ footer.texts \in Seq(Texts)
    BY <1>0, JobFacts DEF DisplayLists
  <2>3. geometry.sheet_height - geometry.bottom \in Int
    BY <1>0, JobFacts DEF Geometries
  <2> QED
    BY <2>1, <2>2, <2>3
<1>2. HeaderOffset \in Nat /\ FooterOffset \in Nat /\ 0 \in Int
  BY <1>0, TableFacts
<1>9. /\ \A k \in DOMAIN header.fonts :
           k + HeaderOffset \in DOMAIN Table /\ Table[k + HeaderOffset] = header.fonts[k]
      /\ \A k \in DOMAIN footer.fonts :
           k + FooterOffset \in DOMAIN Table /\ Table[k + FooterOffset] = footer.fonts[k]
  BY <1>0, TableParts
<1>3. ASSUME NEW k \in 1 .. Len(header.texts)
      PROVE  Opened.texts[k].font \in DOMAIN Table
             /\ Table[Opened.texts[k].font] = Opened.texts[k].glyphs
  <2>1. header.texts[k] \in Texts /\ header.texts[k].font \in DOMAIN header.fonts
        /\ header.fonts[header.texts[k].font] = header.texts[k].glyphs
    BY <1>1, ElementsOf DEF InFonts
  <2>2. Opened.texts[k] = ShiftText(header.texts[k], 0, HeaderOffset)
    BY OpenedPage
  <2> QED
    <3>1. LET moved == ShiftText(header.texts[k], 0, HeaderOffset) IN
          moved.font \in DOMAIN Table /\ Table[moved.font] = moved.glyphs
      BY <1>2, <1>9, <2>1, MovedRun
    <3> QED
      BY <2>2, <3>1
<1>4. ASSUME NEW k \in 1 .. Len(footer.texts)
      PROVE  LET l == Len(header.texts) + k IN
             Opened.texts[l].font \in DOMAIN Table
             /\ Table[Opened.texts[l].font] = Opened.texts[l].glyphs
  <2>1. footer.texts[k] \in Texts /\ footer.texts[k].font \in DOMAIN footer.fonts
        /\ footer.fonts[footer.texts[k].font] = footer.texts[k].glyphs
    BY <1>1, ElementsOf DEF InFonts
  <2>2. Opened.texts[Len(header.texts) + k] =
          ShiftText(footer.texts[k], geometry.sheet_height - geometry.bottom, FooterOffset)
    BY OpenedPage
  <2> QED
    <3>1. LET moved == ShiftText(footer.texts[k],
                         geometry.sheet_height - geometry.bottom, FooterOffset) IN
          moved.font \in DOMAIN Table /\ Table[moved.font] = moved.glyphs
      BY <1>1, <1>2, <1>9, <2>1, MovedRun
    <3> QED
      BY <2>2, <3>1
<1>5. DOMAIN Opened.texts = 1 .. Len(header.texts) + Len(footer.texts)
  <2>1. Opened.texts \in Seq(Texts)
    BY OpenedPage DEF Pages
  <2>2. DOMAIN Opened.texts = 1 .. Len(Opened.texts)
    BY <2>1
  <2>3. Len(Opened.texts) = Len(header.texts) + Len(footer.texts)
    BY OpenedPage
  <2> QED
    BY <2>2, <2>3, Zenon
<1>6. \A m, n \in Nat : \A l \in 1 .. m + n :
        l \in 1 .. m \/ \E k \in 1 .. n : l = m + k
  <2> SUFFICES ASSUME NEW m \in Nat, NEW n \in Nat, NEW l \in 1 .. m + n, l > m
               PROVE  \E k \in 1 .. n : l = m + k
    OBVIOUS
  <2>1. l - m \in 1 .. n /\ l = m + (l - m)
    OBVIOUS
  <2> QED
    BY <2>1
<1>7. Len(header.texts) \in Nat /\ Len(footer.texts) \in Nat
  BY <1>1
<1> QED
  <2> SUFFICES ASSUME NEW l \in 1 .. Len(header.texts) + Len(footer.texts)
               PROVE  /\ Opened.texts[l].font \in DOMAIN Table
                      /\ Table[Opened.texts[l].font] = Opened.texts[l].glyphs
    BY <1>5, Zenon DEF InFonts
  <2>1. l \in 1 .. Len(header.texts) \/ \E k \in 1 .. Len(footer.texts) : l = Len(header.texts) + k
    BY <1>6, <1>7, Zenon
  <2> QED
    BY <1>3, <1>4, <2>1, Zenon

LEMMA InFontsGrown ==
  ASSUME NEW items \in Seq(Texts), NEW x \in Texts, NEW fonts, InFonts(items, fonts),
         x.font \in DOMAIN fonts, fonts[x.font] = x.glyphs
  PROVE  InFonts(Append(items, x), fonts)
<1>1. ASSUME NEW k \in 1 .. Len(items) + 1
      PROVE  Append(items, x)[k] = x \/ (k \in DOMAIN items /\ Append(items, x)[k] = items[k])
  OBVIOUS
<1>2. DOMAIN Append(items, x) = 1 .. Len(items) + 1
  OBVIOUS
<1> QED
  BY <1>1, <1>2, Zenon DEF InFonts

LEMMA InFontsRest ==
  ASSUME NEW items \in Seq(Texts), items # << >>, NEW fonts, InFonts(items, fonts)
  PROVE  /\ InFonts(Tail(items), fonts)
         /\ Head(items).font \in DOMAIN fonts /\ fonts[Head(items).font] = Head(items).glyphs
<1>1. Len(items) \in Nat \ {0} /\ DOMAIN items = 1 .. Len(items)
  OBVIOUS
<1>2. DOMAIN Tail(items) = 1 .. Len(items) - 1
      /\ \A k \in 1 .. Len(items) - 1 : Tail(items)[k] = items[k + 1]
  OBVIOUS
<1>3. \A k \in 1 .. Len(items) - 1 : k + 1 \in 1 .. Len(items)
  BY <1>1
<1>4. Head(items) = items[1] /\ 1 \in 1 .. Len(items)
  BY <1>1
<1> QED
  BY <1>1, <1>2, <1>3, <1>4 DEF InFonts

FontInv ==
  /\ \A k \in 1 .. Len(pages) : InFonts(pages[k].texts, Table)
  /\ stage = "filing" => InFonts(rest.texts, document.fonts)

LEMMA PageKeepsFonts == ASSUME TypeOK, FontInv, Page PROVE FontInv'
<1>0. Table' = Table /\ document' = document
  BY DEF Page, GiveUp, OpenPage, FileBox, FileText, FileImage, ClosePage,
         Table, document, header, footer
<1>1. CASE GiveUp
  BY <1>0, <1>1 DEF GiveUp, FontInv, EmptyPage, InFonts
<1>2. CASE OpenPage
  <2>1. pages \in Seq(Pages) /\ Opened \in Pages /\ pages' = Append(pages, Opened)
    BY <1>2, OpenedPage DEF OpenPage, TypeOK
  <2>2. \A k \in 1 .. Len(pages') :
          (k \in 1 .. Len(pages) /\ pages'[k] = pages[k]) \/ pages'[k] = Opened
    BY <2>1
  <2>3. InFonts(document.texts, document.fonts) /\ rest'.texts = document.texts
    BY <1>2, JobFacts DEF Extracted, OpenPage, TypeOK
  <2> QED
    BY <1>0, <2>2, <2>3, OpenedInFonts DEF FontInv
<1>3. CASE FileBox \/ FileImage
  <2>1. stage = "filing" /\ stage' = "filing" /\ rest'.texts = rest.texts /\ rest \in Pages
        /\ pages \in Seq(Pages)
    BY <1>3 DEF FileBox, FileImage, TypeOK, Pages
  <2>2. \A k \in 1 .. Len(pages') : k \in 1 .. Len(pages) /\ pages'[k].texts = pages[k].texts
    <3>1. CASE UNCHANGED pages
      BY <3>1
    <3>2. CASE \E p \in Pages : Fill(p) /\ p.texts = filling.texts
      <4>1. PICK p \in Pages : Fill(p) /\ p.texts = filling.texts
        BY <3>2
      <4>2. Len(pages) \in Nat \ {0}
        BY <2>1, FillingFacts
      <4> QED
        BY <2>1, <4>1, <4>2 DEF Fill, filling
    <3>3. CASE FileBox
      <4> DEFINE p == [filling EXCEPT !.boxes = Append(@, Shift(Head(rest.boxes), ToPage))]
      <4>1. p \in Pages /\ p.texts = filling.texts
        <5>1. filling \in Pages /\ Shift(Head(rest.boxes), ToPage) \in Boxes
          BY <2>1, <3>3, FillingFacts, FirstOfTheRest, ShiftedBox DEF FileBox
        <5> QED
          BY <5>1, ExtendedPage DEF Pages
      <4>2. Fill(p) \/ UNCHANGED pages
        BY <3>3 DEF FileBox
      <4> QED
        BY <3>1, <3>2, <4>1, <4>2
    <3>4. CASE FileImage
      <4> DEFINE p == [filling EXCEPT !.images = Append(@, Shift(Head(rest.images), ToPage))]
      <4>1. p \in Pages /\ p.texts = filling.texts
        <5>1. filling \in Pages /\ Shift(Head(rest.images), ToPage) \in Images
          BY <2>1, <3>4, FillingFacts, FirstOfTheRest, ShiftedImage DEF FileImage
        <5> QED
          BY <5>1, ExtendedPage DEF Pages
      <4>2. Fill(p) \/ UNCHANGED pages
        BY <3>4 DEF FileImage
      <4> QED
        BY <3>1, <3>2, <4>1, <4>2
    <3> QED
      BY <1>3, <3>3, <3>4
  <2> QED
    BY <1>0, <2>1, <2>2 DEF FontInv
<1>4. CASE FileText
  <2> DEFINE text == Head(rest.texts)
             moved == ShiftText(text, ToPage, 0)
             p == [filling EXCEPT !.texts = Append(@, moved)]
  <2>1. stage = "filing" /\ rest.texts # << >> /\ rest.texts \in Seq(Texts) /\ text \in Texts
        /\ filling \in Pages /\ filling.texts \in Seq(Texts) /\ ToPage \in Int /\ 0 \in Nat
    BY <1>4, FirstOfTheRest, FillingFacts DEF FileText, TypeOK, Pages
  <2>2. InFonts(Tail(rest.texts), document.fonts) /\ text.font \in DOMAIN document.fonts
        /\ document.fonts[text.font] = text.glyphs
    BY <2>1, InFontsRest DEF FontInv
  <2>3. rest'.texts = Tail(rest.texts)
    BY <1>4 DEF FileText, TypeOK, Pages
  <2>4. moved.font \in DOMAIN Table /\ Table[moved.font] = moved.glyphs /\ moved \in Texts
    <3>1. \A k \in DOMAIN document.fonts :
            k + 0 \in DOMAIN Table /\ Table[k + 0] = document.fonts[k]
      BY TableParts DEF TypeOK
    <3> QED
      BY <2>1, <2>2, <3>1, MovedRun, ShiftedText
  <2>5. p \in Pages /\ InFonts(p.texts, Table)
    <3>1. p.texts = Append(filling.texts, moved)
      BY <2>1 DEF Pages
    <3>2. InFonts(filling.texts, Table)
      BY <2>1, FillingFacts DEF FontInv, filling
    <3> QED
      BY <2>1, <2>4, <3>1, <3>2, InFontsGrown, ExtendedPage
  <2>6. \A k \in 1 .. Len(pages') : InFonts(pages'[k].texts, Table)
    <3>1. CASE UNCHANGED pages
      BY <3>1 DEF FontInv
    <3>2. CASE Fill(p)
      <4>1. \A k \in 1 .. Len(pages') :
              (k \in 1 .. Len(pages) /\ pages'[k] = pages[k]) \/ pages'[k] = p
        BY <2>1, <2>5, <3>2, FillingFacts DEF Fill, TypeOK
      <4> QED
        BY <2>5, <4>1 DEF FontInv
    <3> QED
      BY <1>4, <3>1, <3>2 DEF FileText
  <2> QED
    BY <1>0, <2>2, <2>3, <2>6 DEF FontInv
<1>5. CASE ClosePage
  BY <1>0, <1>5 DEF ClosePage, paging, FontInv
<1> QED
  BY <1>1, <1>2, <1>3, <1>4, <1>5 DEF Page

(* Nothing is drawn before the pages are made; then each text up to the    *)
(* one being drawn is drawn in the font of its index, or has none.         *)
TextOpsInv ==
  /\ stage \in {"paging", "filing"} => ops = << >> /\ at = Start /\ embedded = << >>
  /\ stage \in {"drawing", "done"} =>
       /\ \A k \in 1 .. at.texts - 1 : k \in 1 .. Len(page.texts)
       /\ \A l \in 1 .. Len(ops) : ops[l].kind = "text" =>
            /\ ops[l].index \in 1 .. at.texts - 1
            /\ ops[l].resource = page.texts[ops[l].index].font
       /\ \A k \in 1 .. at.texts - 1 : page.texts[k].glyphs \notin Unreadable =>
            \E l \in 1 .. Len(ops) : ops[l].kind = "text" /\ ops[l].index = k

LEMMA Appended ==
  ASSUME TypeOK, NEW op \in Operations, ops' = Append(ops, op)
  PROVE  /\ Len(ops) \in Nat /\ Len(ops') = Len(ops) + 1 /\ ops'[Len(ops) + 1] = op
         /\ \A l \in 1 .. Len(ops) : l \in 1 .. Len(ops') /\ ops'[l] = ops[l]
         /\ \A l \in 1 .. Len(ops') : \/ l \in 1 .. Len(ops) /\ ops'[l] = ops[l]
                                      \/ l = Len(ops) + 1 /\ ops'[l] = op
<1>1. ops \in Seq(Operations)
  BY DEF TypeOK
<1>2. Len(ops) \in Nat /\ Len(ops') = Len(ops) + 1 /\ ops'[Len(ops) + 1] = op
  BY <1>1
<1>3. \A l \in 1 .. Len(ops) : ops'[l] = ops[l]
  BY <1>1
<1>4. \A n \in Nat : \A l \in 1 .. n : l \in 1 .. n + 1
  OBVIOUS
<1>5. \A n \in Nat : \A l \in 1 .. n + 1 : l \in 1 .. n \/ l = n + 1
  OBVIOUS
<1>6. \A l \in 1 .. Len(ops) : l \in 1 .. Len(ops') /\ ops'[l] = ops[l]
  BY <1>2, <1>3, <1>4
<1>7. ASSUME NEW l \in 1 .. Len(ops')
      PROVE  (l \in 1 .. Len(ops) /\ ops'[l] = ops[l]) \/ (l = Len(ops) + 1 /\ ops'[l] = op)
  <2>1. l \in 1 .. Len(ops) \/ l = Len(ops) + 1
    BY <1>2, <1>5
  <2> QED
    BY <1>2, <1>3, <2>1
<1> QED
  BY <1>2, <1>6, <1>7

LEMMA DrawnIsOperation ==
  ASSUME NEW index \in Nat \ {0}, NEW id \in Nat, NEW kind \in {"box", "image", "text"}
  PROVE  /\ Drawn(kind, index, id) \in Operations
         /\ Drawn(kind, index, id).kind = kind /\ Drawn(kind, index, id).index = index
         /\ Drawn(kind, index, id).resource = id
BY DEF Drawn, Operations

LEMMA DrawKeepsTextOps == ASSUME TypeOK, FontInv, TextOpsInv, Draw PROVE TextOpsInv'
<1>0. stage = "drawing" /\ pages' = pages /\ Table' = Table
  BY DEF Draw, DrawBox, DrawImage, DrawText, NextSheet, paging, Table, document, header, footer
<1>1. CASE DrawBox \/ DrawImage
  <2>1. at'.texts = at.texts /\ page' = page /\ stage' = stage
    BY <1>1 DEF DrawBox, DrawImage, TypeOK, Positions, page, paging
  <2>2. ops' = ops \/ \E op \in Operations : ops' = Append(ops, op) /\ op.kind # "text"
    <3>1. ops' = ops \/ (\E id \in Nat : ops' = Append(ops, Drawn("image", at.images, id)))
          \/ ops' = Append(ops, Drawn("box", at.boxes, 0))
      <4>1. DOMAIN embedded \subseteq Nat /\ Len(embedded) + 1 \in Nat
        BY DEF TypeOK
      <4> QED
        BY <1>1, <4>1 DEF DrawBox, DrawImage
    <3>2. at.boxes \in Nat \ {0} /\ at.images \in Nat \ {0} /\ 0 \in Nat
      BY <1>0, DrawingFacts
    <3>3. Drawn("box", at.boxes, 0) \in Operations /\ Drawn("box", at.boxes, 0).kind # "text"
      BY <3>2, DrawnIsOperation
    <3>4. \A id \in Nat : Drawn("image", at.images, id) \in Operations
                         /\ Drawn("image", at.images, id).kind # "text"
      BY <3>2, DrawnIsOperation
    <3> QED
      BY <3>1, <3>3, <3>4, Zenon
  <2>3. CASE ops' = ops
    BY <1>0, <2>1, <2>3 DEF TextOpsInv
  <2>4. CASE \E op \in Operations : ops' = Append(ops, op) /\ op.kind # "text"
    <3>1. PICK op \in Operations : ops' = Append(ops, op) /\ op.kind # "text"
      BY <2>4
    <3> QED
      BY <1>0, <2>1, <3>1, Appended DEF TextOpsInv
  <2> QED
    BY <2>2, <2>3, <2>4
<1>2. CASE DrawText
  <2> DEFINE t == at.texts
             text == page.texts[t]
  <2>1. t \in 1 .. Len(page.texts) /\ at'.texts = t + 1 /\ page' = page /\ stage' = stage
    BY <1>2, DrawingFacts DEF DrawText, TypeOK, Positions, page, paging
  <2>2. \A k \in 1 .. at'.texts - 1 : k = t \/ k \in 1 .. t - 1
    BY <2>1
  <2>3. t \in 1 .. at'.texts - 1 /\ \A k \in 1 .. t - 1 : k \in 1 .. at'.texts - 1
    BY <2>1
  <2>4. text.font \in DOMAIN Table /\ Table[text.font] = text.glyphs
    <3>1. InFonts(page.texts, Table)
      BY <1>0, DrawingFacts DEF FontInv, page
    <3>2. DOMAIN page.texts = 1 .. Len(page.texts)
      BY <1>0, DrawingFacts DEF Pages
    <3> QED
      BY <2>1, <3>1, <3>2 DEF InFonts
  <2>5. /\ text.font \in DOMAIN FontIds
        /\ text.glyphs \notin Unreadable => FontIds[text.font] = text.font /\ text.font # 0
        /\ text.glyphs \in Unreadable => FontIds[text.font] = 0
    <3>1. DOMAIN Table \subseteq Nat \ {0}
      BY TableFacts DEF TypeOK
    <3> QED
      BY <2>4, <3>1 DEF FontIds
  <2>6. CASE text.glyphs \in Unreadable
    <3>1. ops' = ops
      BY <1>2, <2>5, <2>6 DEF DrawText, HasId
    <3> QED
      BY <1>0, <2>1, <2>2, <2>3, <2>6, <3>1 DEF TextOpsInv
  <2>7. CASE text.glyphs \notin Unreadable
    <3>1. ops' = Append(ops, Drawn("text", t, text.font))
      BY <1>2, <2>5, <2>7 DEF DrawText, HasId
    <3>2. /\ Drawn("text", t, text.font) \in Operations
          /\ Drawn("text", t, text.font).kind = "text" /\ Drawn("text", t, text.font).index = t
          /\ Drawn("text", t, text.font).resource = text.font
      <4>1. t \in Nat \ {0} /\ text.font \in Nat
        BY <1>0, <2>4, DrawingFacts, TableFacts DEF TypeOK
      <4> QED
        BY <4>1, DrawnIsOperation
    <3>3. \A l \in 1 .. Len(ops') : ops'[l].kind = "text" =>
            /\ ops'[l].index \in 1 .. at'.texts - 1
            /\ ops'[l].resource = page.texts[ops'[l].index].font
      BY <1>0, <2>3, <3>1, <3>2, Appended DEF TextOpsInv
    <3>4. \A k \in 1 .. at'.texts - 1 : page.texts[k].glyphs \notin Unreadable =>
            \E l \in 1 .. Len(ops') : ops'[l].kind = "text" /\ ops'[l].index = k
      <4>1. Len(ops) + 1 \in 1 .. Len(ops') /\ ops'[Len(ops) + 1] = Drawn("text", t, text.font)
        BY <3>1, <3>2, Appended
      <4> QED
        BY <1>0, <2>2, <3>1, <3>2, <4>1, Appended DEF TextOpsInv
    <3>5. \A k \in 1 .. at'.texts - 1 : k \in 1 .. Len(page.texts)
      BY <1>0, <2>1, <2>2 DEF TextOpsInv
    <3> QED
      BY <1>0, <2>1, <3>3, <3>4, <3>5 DEF TextOpsInv
  <2> QED
    BY <2>6, <2>7
<1>3. CASE NextSheet
  <2>1. CASE sheet < Len(pages)
    BY <1>3, <2>1 DEF NextSheet, TextOpsInv, Start
  <2>2. CASE ~ (sheet < Len(pages))
    <3>1. at' = at /\ ops' = ops /\ page' = page /\ stage' = "done"
      BY <1>3, <2>2 DEF NextSheet, page, paging
    <3> QED
      BY <1>0, <3>1 DEF TextOpsInv
  <2> QED
    BY <2>1, <2>2
<1> QED
  BY <1>1, <1>2, <1>3 DEF Draw

LEMMA PageKeepsTextOps == ASSUME TypeOK, TextOpsInv, Page PROVE TextOpsInv'
<1>1. stage \in {"paging", "filing"} /\ ops' = ops /\ at' = at /\ embedded' = embedded
      /\ stage' \in {"paging", "filing", "drawing"}
  BY DEF Page, GiveUp, OpenPage, FileBox, FileText, FileImage, ClosePage, Sliced, drawing
<1> QED
  BY <1>1 DEF TextOpsInv, Start

LEMMA SpecTextOps == Spec => [](FontInv /\ TextOpsInv)
<1>1. Init => FontInv /\ TextOpsInv
  BY DEF Init, FontInv, TextOpsInv
<1>2. TypeOK /\ FontInv /\ TextOpsInv /\ [Next]_vars => FontInv' /\ TextOpsInv'
  <2> SUFFICES ASSUME TypeOK, FontInv, TextOpsInv, [Next]_vars
               PROVE  FontInv' /\ TextOpsInv'
    OBVIOUS
  <2>1. UNCHANGED <<job, paging, stage, drawing>> => FontInv' /\ TextOpsInv'
    BY DEF FontInv, TextOpsInv, paging, drawing, page, Table, document, header, footer
  <2>2. Slicing \/ UNCHANGED vars => UNCHANGED <<job, paging, stage, drawing>>
    BY DEF Slicing, vars
  <2>3. Draw => UNCHANGED <<job, paging>> /\ stage' # "filing"
    BY DEF Draw, DrawBox, DrawImage, DrawText, NextSheet
  <2>4. Draw => FontInv'
    BY <2>3 DEF FontInv, paging, Table, document, header, footer
  <2> QED
    BY <2>1, <2>2, <2>4, PageKeepsFonts, PageKeepsTextOps, DrawKeepsTextOps DEF Next
<1> QED
  BY <1>1, <1>2, PrintTypes, PTL DEF Spec

(* Every run whose font can be parsed is drawn in the font it was shaped   *)
(* in.                                                                     *)
THEOREM TextsInTheirFont == Spec => []DrawnInItsFont
<1>1. TypeOK /\ FontInv /\ TextOpsInv => DrawnInItsFont
  <2> SUFFICES ASSUME TypeOK, FontInv, TextOpsInv PROVE DrawnInItsFont
    OBVIOUS
  <2>1. DOMAIN ops = 1 .. Len(ops) /\ Len(ops) \in Nat
    BY DEF TypeOK
  <2>2. ASSUME NEW l \in 1 .. Len(ops), ops[l].kind = "text"
        PROVE  Table[ops[l].resource] = Item(ops[l]).glyphs
    <3>1. stage \in {"drawing", "done"}
      BY <2>2 DEF TypeOK, TextOpsInv
    <3>2. /\ ops[l].index \in 1 .. Len(page.texts)
          /\ ops[l].resource = page.texts[ops[l].index].font
      BY <2>2, <3>1 DEF TextOpsInv
    <3>3. sheet \in 1 .. Len(pages) /\ page \in Pages
      BY <3>1, ElementsOf DEF TypeOK, page
    <3>4. InFonts(page.texts, Table) /\ DOMAIN page.texts = 1 .. Len(page.texts)
      BY <3>3 DEF FontInv, page, Pages
    <3> QED
      BY <2>2, <3>2, <3>4 DEF InFonts, Item
  <2> QED
    BY <2>1, <2>2 DEF DrawnInItsFont, TextOpsInv, Range
<1> QED
  BY <1>1, PrintTypes, SpecTextOps, PTL

-----------------------------------------------------------------------------
(* Bitmaps. *)

BitmapInv ==
  /\ stage \in {"drawing", "done"} =>
       \A l \in 1 .. Len(ops) : ops[l].kind = "image" =>
         /\ ops[l].resource \in 1 .. Len(embedded)
         /\ embedded[ops[l].resource] = page.images[ops[l].index].bitmap
  /\ \A k, l \in 1 .. Len(embedded) : embedded[k] = embedded[l] => k = l

(* The dimensions and the buffer tell bitmaps apart. *)
LEMMA KeyTellsApart ==
  ASSUME NEW a \in Bitmaps, NEW b \in Bitmaps, Key(a) = Key(b) PROVE a = b
BY PaginateConstants DEF Key

LEMMA DrawKeepsBitmaps == ASSUME TypeOK, BitmapInv, Draw PROVE BitmapInv'
<1>0. stage = "drawing" /\ pages' = pages /\ embedded \in Seq(Bitmaps)
  BY DEF Draw, DrawBox, DrawImage, DrawText, NextSheet, paging, TypeOK
<1>1. CASE DrawBox \/ DrawText
  <2>1. page' = page /\ stage' = stage /\ embedded' = embedded
    BY <1>1 DEF DrawBox, DrawText, page, paging
  <2>2. ops' = ops \/ \E op \in Operations : ops' = Append(ops, op) /\ op.kind # "image"
    <3>1. at.boxes \in Nat \ {0} /\ at.texts \in Nat \ {0} /\ 0 \in Nat
      BY <1>0, DrawingFacts
    <3>2. \/ ops' = ops
          \/ ops' = Append(ops, Drawn("box", at.boxes, 0))
          \/ \E id \in Nat : ops' = Append(ops, Drawn("text", at.texts, id))
      <4>1. \A k \in DOMAIN FontIds : FontIds[k] \in Nat
        BY TableFacts DEF FontIds, TypeOK
      <4> QED
        BY <1>1, <4>1 DEF DrawBox, DrawText, HasId
    <3>3. Drawn("box", at.boxes, 0) \in Operations /\ Drawn("box", at.boxes, 0).kind # "image"
      BY <3>1, DrawnIsOperation
    <3>4. \A id \in Nat : Drawn("text", at.texts, id) \in Operations
                         /\ Drawn("text", at.texts, id).kind # "image"
      BY <3>1, DrawnIsOperation
    <3> QED
      BY <3>2, <3>3, <3>4, Zenon
  <2>3. CASE ops' = ops
    BY <1>0, <2>1, <2>3 DEF BitmapInv
  <2>4. CASE \E op \in Operations : ops' = Append(ops, op) /\ op.kind # "image"
    <3>1. PICK op \in Operations : ops' = Append(ops, op) /\ op.kind # "image"
      BY <2>4
    <3> QED
      BY <1>0, <2>1, <3>1, Appended DEF BitmapInv
  <2> QED
    BY <2>2, <2>3, <2>4
<1>2. CASE DrawImage
  <2> DEFINE i == at.images
             bitmap == page.images[i].bitmap
  <2>1. page' = page /\ stage' = stage /\ i \in Nat \ {0}
    BY <1>0, <1>2, DrawingFacts DEF DrawImage, page, paging
  <2>2. bitmap \in Bitmaps
    <3>1. i \in 1 .. Len(page.images) /\ page.images \in Seq(Images)
      BY <1>2, DrawingFacts DEF DrawImage, ImageIsNext, Pages
    <3>2. page.images[i] \in Images
      BY <3>1, ElementOfSeq
    <3> QED
      BY <3>2 DEF Images
  <2>3. CASE UNCHANGED <<ops, embedded>>
    BY <1>0, <2>1, <2>3 DEF BitmapInv
  <2>4. ASSUME NEW id \in 1 .. Len(embedded'), ops' = Append(ops, Drawn("image", i, id)),
               embedded'[id] = bitmap,
               \A k \in 1 .. Len(embedded) :
                 k \in 1 .. Len(embedded') /\ embedded'[k] = embedded[k],
               \A k, l \in 1 .. Len(embedded') : embedded'[k] = embedded'[l] => k = l,
               Len(embedded') \in Nat
        PROVE  BitmapInv'
    <3>1. /\ Drawn("image", i, id) \in Operations
          /\ Drawn("image", i, id).index = i /\ Drawn("image", i, id).resource = id
      BY <2>1, <2>4, DrawnIsOperation
    <3>2. \A l \in 1 .. Len(ops') : ops'[l].kind = "image" =>
            /\ ops'[l].resource \in 1 .. Len(embedded')
            /\ embedded'[ops'[l].resource] = page.images[ops'[l].index].bitmap
      BY <1>0, <2>4, <3>1, Appended DEF BitmapInv
    <3> QED
      BY <2>1, <2>4, <3>2 DEF BitmapInv
  <2>5. CASE \E id \in DOMAIN embedded :
               /\ IsEmbeddedAs(bitmap, id)
               /\ ops' = Append(ops, Drawn("image", i, id))
               /\ UNCHANGED embedded
    <3>1. PICK id \in DOMAIN embedded :
            /\ IsEmbeddedAs(bitmap, id)
            /\ ops' = Append(ops, Drawn("image", i, id))
            /\ UNCHANGED embedded
      BY <2>5
    <3>2. id \in 1 .. Len(embedded) /\ embedded[id] \in Bitmaps /\ Len(embedded) \in Nat
      BY <1>0, <3>1, ElementsOf
    <3>3. embedded[id] = bitmap
      BY <2>2, <3>1, <3>2, KeyTellsApart DEF IsEmbeddedAs
    <3> QED
      BY <2>4, <3>1, <3>2, <3>3 DEF BitmapInv
  <2>6. CASE /\ \A id \in DOMAIN embedded : ~ IsEmbeddedAs(bitmap, id)
             /\ ops' = Append(ops, Drawn("image", i, Len(embedded) + 1))
             /\ embedded' = Append(embedded, bitmap)
    <3> HIDE DEF bitmap
    <3>1. /\ Len(embedded) \in Nat /\ Len(embedded') = Len(embedded) + 1
          /\ embedded'[Len(embedded) + 1] = bitmap
          /\ \A k \in 1 .. Len(embedded) : embedded'[k] = embedded[k]
      BY <1>0, <2>2, <2>6
    <3>2. \A k \in 1 .. Len(embedded) : embedded[k] # bitmap
      BY <1>0, <2>6 DEF IsEmbeddedAs
    <3>3. \A k \in 1 .. Len(embedded') : k \in 1 .. Len(embedded) \/ k = Len(embedded) + 1
      BY <3>1
    <3>4. \A k, l \in 1 .. Len(embedded') : embedded'[k] = embedded'[l] => k = l
      BY <3>1, <3>2, <3>3 DEF BitmapInv
    <3>5. Len(embedded) + 1 \in 1 .. Len(embedded') /\ Len(embedded') \in Nat
          /\ \A k \in 1 .. Len(embedded) : k \in 1 .. Len(embedded')
      BY <3>1
    <3> QED
      BY <2>4, <2>6, <3>1, <3>4, <3>5
  <2> QED
    BY <1>2, <2>3, <2>5, <2>6 DEF DrawImage
<1>3. CASE NextSheet
  <2>1. CASE sheet < Len(pages)
    BY <1>3, <2>1 DEF NextSheet, BitmapInv
  <2>2. CASE ~ (sheet < Len(pages))
    <3>1. ops' = ops /\ page' = page /\ embedded' = embedded
      BY <1>3, <2>2 DEF NextSheet, page, paging
    <3> QED
      BY <1>0, <3>1 DEF BitmapInv
  <2> QED
    BY <2>1, <2>2
<1> QED
  BY <1>1, <1>2, <1>3 DEF Draw

(* An image shows its own bitmap, which is in the PDF once. *)
THEOREM ImagesShowTheirs == Spec => []ImagesShowTheirBitmap
<1>1. Init => TextOpsInv /\ BitmapInv
  BY DEF Init, TextOpsInv, BitmapInv
<1>2. TypeOK /\ TextOpsInv /\ BitmapInv /\ [Next]_vars => BitmapInv'
  <2> SUFFICES ASSUME TypeOK, TextOpsInv, BitmapInv, [Next]_vars PROVE BitmapInv'
    OBVIOUS
  <2>1. Slicing \/ UNCHANGED vars => UNCHANGED <<paging, stage, drawing>>
    BY DEF Slicing, vars
  <2>2. UNCHANGED <<paging, stage, drawing>> => BitmapInv'
    BY DEF BitmapInv, paging, drawing, page
  <2>3. Page => ops' = << >> /\ embedded' = << >>
    BY DEF Page, GiveUp, OpenPage, FileBox, FileText, FileImage, ClosePage, Sliced, drawing,
           TextOpsInv
  <2>4. Page => BitmapInv'
    BY <2>3 DEF BitmapInv
  <2> QED
    BY <2>1, <2>2, <2>4, DrawKeepsBitmaps DEF Next
<1>3. TypeOK /\ TextOpsInv /\ BitmapInv => ImagesShowTheirBitmap
  <2> SUFFICES ASSUME TypeOK, TextOpsInv, BitmapInv PROVE ImagesShowTheirBitmap
    OBVIOUS
  <2>1. DOMAIN ops = 1 .. Len(ops) /\ Len(ops) \in Nat
        /\ DOMAIN embedded = 1 .. Len(embedded)
    BY DEF TypeOK
  <2>2. ASSUME NEW l \in 1 .. Len(ops), ops[l].kind = "image"
        PROVE  embedded[ops[l].resource] = Item(ops[l]).bitmap
    <3>1. stage \in {"drawing", "done"}
      BY <2>2 DEF TypeOK, TextOpsInv
    <3> QED
      BY <2>2, <3>1 DEF BitmapInv, Item
  <2> QED
    BY <2>1, <2>2 DEF ImagesShowTheirBitmap, BitmapInv, Range
<1> QED
  BY <1>1, <1>2, <1>3, PrintTypes, SpecTextOps, PTL DEF Spec

-----------------------------------------------------------------------------
(* Paint order: both lists of a page ascend, and so does their merge.      *)

NotAfter(items, others) ==
  \A k \in 1 .. Len(items), l \in 1 .. Len(others) : items[k].order <= others[l].order

LEMMA AscendingGrown ==
  ASSUME NEW Kind, NEW items \in Seq(Kind), NEW others \in Seq(Kind), others # << >>,
         NEW x \in Kind, x.order = Head(others).order,
         \A item \in Kind : item.order \in Nat,
         Ascending(items), Ascending(others), NotAfter(items, others)
  PROVE  /\ Ascending(Append(items, x))
         /\ Ascending(Tail(others))
         /\ NotAfter(items, Tail(others)) /\ NotAfter(Append(items, x), Tail(others))
<1>1. /\ Len(items) \in Nat /\ DOMAIN items = 1 .. Len(items)
      /\ Len(others) \in Nat \ {0} /\ DOMAIN others = 1 .. Len(others)
  OBVIOUS
<1>2. /\ Len(Tail(others)) = Len(others) - 1 /\ DOMAIN Tail(others) = 1 .. Len(others) - 1
      /\ \A l \in 1 .. Len(others) - 1 : Tail(others)[l] = others[l + 1]
      /\ Head(others) = others[1]
  OBVIOUS
<1>3. /\ Len(Append(items, x)) = Len(items) + 1 /\ DOMAIN Append(items, x) = 1 .. Len(items) + 1
      /\ Append(items, x)[Len(items) + 1] = x
      /\ \A k \in 1 .. Len(items) : Append(items, x)[k] = items[k]
  OBVIOUS
<1>4. /\ 1 \in 1 .. Len(others)
      /\ \A l \in 1 .. Len(others) - 1 : l + 1 \in 1 .. Len(others) /\ 1 <= l + 1
      /\ \A k, l \in 1 .. Len(others) - 1 : k <= l => k + 1 <= l + 1
  BY <1>1
<1>5. \A k \in 1 .. Len(items) + 1 : k \in 1 .. Len(items) \/ k = Len(items) + 1
  BY <1>1
<1>6. \A k \in 1 .. Len(items) : ~ (Len(items) + 1 <= k)
  BY <1>1
<1>7. x.order \in Nat /\ \A k \in 1 .. Len(items) : items[k].order <= x.order
  BY <1>1, <1>2, <1>4 DEF NotAfter
<1>8. Ascending(Append(items, x))
  <2> SUFFICES ASSUME NEW k \in 1 .. Len(items) + 1, NEW l \in 1 .. Len(items) + 1, k <= l
               PROVE  Append(items, x)[k].order <= Append(items, x)[l].order
    BY <1>3 DEF Ascending
  <2>1. CASE k \in 1 .. Len(items) /\ l \in 1 .. Len(items)
    BY <1>1, <1>3, <2>1 DEF Ascending
  <2>2. CASE k \in 1 .. Len(items) /\ l = Len(items) + 1
    BY <1>3, <1>7, <2>2
  <2>3. CASE k = Len(items) + 1 /\ l = Len(items) + 1
    BY <1>3, <1>7, <2>3
  <2> QED
    BY <1>5, <1>6, <2>1, <2>2, <2>3
<1>9. Ascending(Tail(others))
  BY <1>1, <1>2, <1>4 DEF Ascending
<1>10. NotAfter(items, Tail(others))
  BY <1>2, <1>4 DEF NotAfter
<1>11. \A l \in 1 .. Len(others) - 1 : x.order <= Tail(others)[l].order
  BY <1>1, <1>2, <1>4 DEF Ascending
<1>12. NotAfter(Append(items, x), Tail(others))
  <2> SUFFICES ASSUME NEW k \in 1 .. Len(items) + 1, NEW l \in 1 .. Len(others) - 1
               PROVE  Append(items, x)[k].order <= Tail(others)[l].order
    BY <1>2, <1>3 DEF NotAfter
  <2> QED
    BY <1>2, <1>3, <1>5, <1>10, <1>11 DEF NotAfter
<1> QED
  BY <1>8, <1>9, <1>10, <1>12

OnlyTextAround == OnlyText(header) /\ OnlyText(footer)

PageOrderInv ==
  OnlyTextAround =>
    /\ \A k \in 1 .. Len(pages) : Ascending(pages[k].boxes) /\ Ascending(pages[k].images)
    /\ stage = "filing" =>
         /\ Ascending(rest.boxes) /\ NotAfter(filling.boxes, rest.boxes)
         /\ Ascending(rest.images) /\ NotAfter(filling.images, rest.images)

LEMMA FillKeepsOrder ==
  ASSUME TypeOK, PageOrderInv, OnlyTextAround, stage = "filing", NEW p \in Pages, Fill(p),
         Ascending(p.boxes), Ascending(p.images)
  PROVE  /\ \A k \in 1 .. Len(pages') : Ascending(pages'[k].boxes) /\ Ascending(pages'[k].images)
         /\ filling' = p
<1>1. /\ Len(pages) \in Nat \ {0} /\ Len(pages') = Len(pages) /\ pages'[Len(pages)] = p
      /\ \A k \in 1 .. Len(pages) - 1 : pages'[k] = pages[k]
  BY FillingFacts, Refilled DEF TypeOK
<1>2. \A k \in 1 .. Len(pages) : k = Len(pages) \/ k \in 1 .. Len(pages) - 1
  BY <1>1
<1>3. filling' = p
  BY <1>1 DEF filling
<1> QED
  BY <1>1, <1>2, <1>3 DEF PageOrderInv

LEMMA PageKeepsOrder == ASSUME TypeOK, PageOrderInv, Page PROVE PageOrderInv'
<1>0. OnlyTextAround' <=> OnlyTextAround
  BY DEF Page, GiveUp, OpenPage, FileBox, FileText, FileImage, ClosePage,
         OnlyTextAround, OnlyText, header, footer
<1> SUFFICES ASSUME OnlyTextAround PROVE PageOrderInv'
  BY <1>0 DEF PageOrderInv
<1>1. CASE GiveUp
  BY <1>1 DEF GiveUp, PageOrderInv, EmptyPage, Ascending
<1>2. CASE OpenPage
  <2>1. pages \in Seq(Pages) /\ Opened \in Pages /\ pages' = Append(pages, Opened)
    BY <1>2, OpenedPage DEF OpenPage, TypeOK
  <2>2. /\ Len(pages) \in Nat /\ Len(pages') = Len(pages) + 1 /\ pages'[Len(pages')] = Opened
        /\ \A k \in 1 .. Len(pages') :
             (k \in 1 .. Len(pages) /\ pages'[k] = pages[k]) \/ pages'[k] = Opened
    BY <2>1
  <2>3. Len(Opened.boxes) = 0 /\ Len(Opened.images) = 0
    <3>1. /\ Len(header.boxes) = 0 /\ Len(footer.boxes) = 0
          /\ Len(header.images) = 0 /\ Len(footer.images) = 0
      BY DEF OnlyTextAround, OnlyText
    <3> QED
      BY <3>1, OpenedPage
  <2>4. DOMAIN Opened.boxes = {} /\ DOMAIN Opened.images = {}
    BY <2>1, <2>3 DEF Pages
  <2>5. Ascending(Opened.boxes) /\ Ascending(Opened.images)
    BY <2>4 DEF Ascending
  <2>6. Ascending(document.boxes) /\ Ascending(document.images)
    BY JobFacts DEF Extracted, TypeOK
  <2>7. rest'.boxes = document.boxes /\ rest'.images = document.images
    BY <1>2 DEF OpenPage
  <2>8. filling' = Opened
    BY <2>2 DEF filling
  <2>9. NotAfter(Opened.boxes, document.boxes) /\ NotAfter(Opened.images, document.images)
    BY <2>3 DEF NotAfter
  <2> QED
    BY <2>2, <2>5, <2>6, <2>7, <2>8, <2>9 DEF PageOrderInv
<1>3. CASE FileBox
  <2> DEFINE box == Shift(Head(rest.boxes), ToPage)
             p == [filling EXCEPT !.boxes = Append(@, box)]
  <2>1. stage = "filing" /\ stage' = "filing" /\ rest.boxes # << >> /\ rest.boxes \in Seq(Boxes)
        /\ filling \in Pages /\ filling.boxes \in Seq(Boxes)
    BY <1>3, FillingFacts DEF FileBox, TypeOK, Pages
  <2>2. box \in Boxes /\ box.order = Head(rest.boxes).order
    BY <2>1, FillingFacts, FirstOfTheRest, ShiftedBox DEF TypeOK
  <2>3. rest'.boxes = Tail(rest.boxes) /\ rest'.images = rest.images
    BY <1>3 DEF FileBox, TypeOK, Pages
  <2>4. p \in Pages /\ p.boxes = Append(filling.boxes, box) /\ p.images = filling.images
    BY <2>1, <2>2, ExtendedPage DEF Pages
  <2>5. Ascending(filling.boxes) /\ Ascending(filling.images)
    BY <2>1, FillingFacts DEF PageOrderInv, filling
  <2>6. \A item \in Boxes : item.order \in Nat
    BY DEF Boxes
  <2>7. Ascending(rest.boxes) /\ NotAfter(filling.boxes, rest.boxes)
        /\ Ascending(rest.images) /\ NotAfter(filling.images, rest.images)
    BY <2>1 DEF PageOrderInv
  <2>8. /\ Ascending(Append(filling.boxes, box)) /\ Ascending(Tail(rest.boxes))
        /\ NotAfter(filling.boxes, Tail(rest.boxes))
        /\ NotAfter(Append(filling.boxes, box), Tail(rest.boxes))
    <3> HIDE DEF box
    <3> QED
      BY <2>1, <2>2, <2>5, <2>6, <2>7, AscendingGrown
  <2>9. CASE UNCHANGED pages
    BY <2>1, <2>3, <2>7, <2>8, <2>9 DEF PageOrderInv, filling
  <2>10. CASE Fill(p)
    <3>1. filling' = p
          /\ \A k \in 1 .. Len(pages') :
               Ascending(pages'[k].boxes) /\ Ascending(pages'[k].images)
      BY <2>1, <2>4, <2>5, <2>8, <2>10, FillKeepsOrder
    <3> HIDE DEF p
    <3> QED
      BY <2>3, <2>4, <2>7, <2>8, <3>1 DEF PageOrderInv
  <2> QED
    BY <1>3, <2>9, <2>10 DEF FileBox
<1>4. CASE FileImage
  <2> DEFINE image == Shift(Head(rest.images), ToPage)
             p == [filling EXCEPT !.images = Append(@, image)]
  <2>1. stage = "filing" /\ stage' = "filing" /\ rest.images # << >>
        /\ rest.images \in Seq(Images)
        /\ filling \in Pages /\ filling.images \in Seq(Images)
    BY <1>4, FillingFacts DEF FileImage, TypeOK, Pages
  <2>2. image \in Images /\ image.order = Head(rest.images).order
    BY <2>1, FillingFacts, FirstOfTheRest, ShiftedImage DEF TypeOK
  <2>3. rest'.images = Tail(rest.images) /\ rest'.boxes = rest.boxes
    BY <1>4 DEF FileImage, TypeOK, Pages
  <2>4. p \in Pages /\ p.images = Append(filling.images, image) /\ p.boxes = filling.boxes
    BY <2>1, <2>2, ExtendedPage DEF Pages
  <2>5. Ascending(filling.boxes) /\ Ascending(filling.images)
    BY <2>1, FillingFacts DEF PageOrderInv, filling
  <2>6. \A item \in Images : item.order \in Nat
    BY DEF Images
  <2>7. Ascending(rest.boxes) /\ NotAfter(filling.boxes, rest.boxes)
        /\ Ascending(rest.images) /\ NotAfter(filling.images, rest.images)
    BY <2>1 DEF PageOrderInv
  <2>8. /\ Ascending(Append(filling.images, image)) /\ Ascending(Tail(rest.images))
        /\ NotAfter(filling.images, Tail(rest.images))
        /\ NotAfter(Append(filling.images, image), Tail(rest.images))
    <3> HIDE DEF image
    <3> QED
      BY <2>1, <2>2, <2>5, <2>6, <2>7, AscendingGrown
  <2>9. CASE UNCHANGED pages
    BY <2>1, <2>3, <2>7, <2>8, <2>9 DEF PageOrderInv, filling
  <2>10. CASE Fill(p)
    <3>1. filling' = p
          /\ \A k \in 1 .. Len(pages') :
               Ascending(pages'[k].boxes) /\ Ascending(pages'[k].images)
      BY <2>1, <2>4, <2>5, <2>8, <2>10, FillKeepsOrder
    <3> HIDE DEF p
    <3> QED
      BY <2>3, <2>4, <2>7, <2>8, <3>1 DEF PageOrderInv
  <2> QED
    BY <1>4, <2>9, <2>10 DEF FileImage
<1>5. CASE FileText
  <2> DEFINE p == [filling EXCEPT !.texts = Append(@, ShiftText(Head(rest.texts), ToPage, 0))]
  <2>1. stage = "filing" /\ filling \in Pages /\ rest.texts # << >>
    BY <1>5, FillingFacts DEF FileText
  <2>2. rest'.images = rest.images /\ rest'.boxes = rest.boxes
    BY <1>5 DEF FileText, TypeOK, Pages
  <2>3. p \in Pages /\ p.images = filling.images /\ p.boxes = filling.boxes
    <3>1. ShiftText(Head(rest.texts), ToPage, 0) \in Texts
      BY <2>1, FillingFacts, FirstOfTheRest, ShiftedText DEF TypeOK
    <3> QED
      BY <2>1, <3>1, ExtendedPage DEF Pages
  <2>4. Ascending(filling.boxes) /\ Ascending(filling.images)
    BY <2>1, FillingFacts DEF PageOrderInv, filling
  <2>5. CASE UNCHANGED pages
    BY <2>1, <2>2, <2>5 DEF PageOrderInv, filling
  <2>6. CASE Fill(p)
    <3>1. filling' = p
          /\ \A k \in 1 .. Len(pages') :
               Ascending(pages'[k].boxes) /\ Ascending(pages'[k].images)
      BY <2>1, <2>3, <2>4, <2>6, FillKeepsOrder
    <3> HIDE DEF p
    <3> QED
      BY <2>1, <2>2, <2>3, <3>1 DEF PageOrderInv
  <2> QED
    BY <1>5, <2>5, <2>6 DEF FileText
<1>6. CASE ClosePage
  BY <1>6 DEF ClosePage, paging, PageOrderInv
<1> QED
  BY <1>1, <1>2, <1>3, <1>4, <1>5, <1>6 DEF Page

Layered(k, l) == ops[l].kind # "text" => ops[k].kind # "text" /\ Under(ops[k], ops[l])

(* What is drawn lies under what is still to come.                         *)
BoxOpInv(l) ==
  /\ ops[l].index \in 1 .. Len(page.boxes) /\ ops[l].index < at.boxes
  /\ \A k \in 1 .. Len(page.images) : at.images <= k =>
       page.boxes[ops[l].index].order <= page.images[k].order

ImageOpInv(l) ==
  /\ ops[l].index \in 1 .. Len(page.images) /\ ops[l].index < at.images
  /\ \A k \in 1 .. Len(page.boxes) : at.boxes <= k =>
       page.images[ops[l].index].order < page.boxes[k].order

TextOpInv == at.boxes > Len(page.boxes) /\ at.images > Len(page.images)

PaintInv ==
  OnlyTextAround /\ stage \in {"drawing", "done"} =>
    /\ \A l \in 1 .. Len(ops) :
         /\ ops[l].kind = "box" => BoxOpInv(l)
         /\ ops[l].kind = "image" => ImageOpInv(l)
         /\ ops[l].kind = "text" => TextOpInv
    /\ \A k, l \in 1 .. Len(ops) : k < l => Layered(k, l)

LEMMA SameItem ==
  ASSUME page' = page, NEW l, ops'[l] \in Operations PROVE Item(ops[l])' = Item(ops'[l])
<1>1. ops'[l].kind \in {"box", "image", "text"}
  BY DEF Operations
<1>2. CASE ops'[l].kind = "box"
  BY <1>2 DEF Item
<1>3. CASE ops'[l].kind = "image"
  BY <1>3 DEF Item
<1>4. CASE ops'[l].kind = "text"
  BY <1>4 DEF Item
<1> QED
  BY <1>1, <1>2, <1>3, <1>4

LEMMA SameLayers ==
  ASSUME page' = page, ops' \in Seq(Operations), NEW k \in 1 .. Len(ops'),
         NEW l \in 1 .. Len(ops')
  PROVE  Layered(k, l)' <=>
           (ops'[l].kind # "text" => ops'[k].kind # "text" /\ Under(ops'[k], ops'[l]))
<1>1. ops'[k] \in Operations /\ ops'[l] \in Operations
  BY ElementOfSeq
<1>2. Item(ops[k])' = Item(ops'[k]) /\ Item(ops[l])' = Item(ops'[l])
  BY <1>1, SameItem
<1> QED
  BY <1>2, Zenon DEF Layered, Under

LEMMA SameOps ==
  ASSUME TypeOK, page' = page, ops' = ops, \A k, l \in 1 .. Len(ops) : k < l => Layered(k, l)
  PROVE  \A k, l \in 1 .. Len(ops') : k < l => Layered(k, l)'
<1> SUFFICES ASSUME NEW k \in 1 .. Len(ops), NEW l \in 1 .. Len(ops), k < l
             PROVE  Layered(k, l)'
  OBVIOUS
<1>1. ops' \in Seq(Operations)
  BY DEF TypeOK
<1>2. Layered(k, l)' <=>
        (ops'[l].kind # "text" => ops'[k].kind # "text" /\ Under(ops'[k], ops'[l]))
  BY <1>1, SameLayers
<1>3. ops[l].kind # "text" => ops[k].kind # "text" /\ Under(ops[k], ops[l])
  BY DEF Layered
<1> QED
  BY <1>2, <1>3, Zenon

(* An operation over all the others. *)
LEMMA DrawnOnTop ==
  ASSUME TypeOK, PaintInv, OnlyTextAround, stage = "drawing", page' = page,
         NEW op \in Operations, ops' = Append(ops, op),
         op.kind # "text" =>
           \A l \in 1 .. Len(ops) : ops[l].kind # "text" /\ Under(ops[l], op)
  PROVE  \A k, l \in 1 .. Len(ops') : k < l => Layered(k, l)'
<1> SUFFICES ASSUME NEW k \in 1 .. Len(ops'), NEW l \in 1 .. Len(ops'), k < l,
                    ops'[l].kind # "text"
             PROVE  ops'[k].kind # "text" /\ Under(ops'[k], ops'[l])
  <2>1. ops' \in Seq(Operations)
    BY DEF TypeOK
  <2> QED
    BY <2>1, SameLayers
<1>1. \/ k \in 1 .. Len(ops) /\ l \in 1 .. Len(ops) /\ ops'[k] = ops[k] /\ ops'[l] = ops[l]
      \/ k \in 1 .. Len(ops) /\ ops'[k] = ops[k] /\ ops'[l] = op
  BY Appended
<1> QED
  BY <1>1 DEF PaintInv, Layered

LEMMA DrawKeepsPaint == ASSUME TypeOK, PageOrderInv, PaintInv, Draw PROVE PaintInv'
<1>0. stage = "drawing" /\ pages' = pages /\ (OnlyTextAround' <=> OnlyTextAround)
  BY DEF Draw, DrawBox, DrawImage, DrawText, NextSheet, paging,
         OnlyTextAround, OnlyText, header, footer
<1> SUFFICES ASSUME OnlyTextAround PROVE PaintInv'
  BY <1>0 DEF PaintInv
<1>a. /\ page.boxes \in Seq(Boxes) /\ page.images \in Seq(Images)
      /\ at.boxes \in Nat \ {0} /\ at.images \in Nat \ {0} /\ at.texts \in Nat \ {0}
  BY <1>0, DrawingFacts DEF Pages
<1>b. /\ \A k \in 1 .. Len(page.boxes) : page.boxes[k].order \in Nat
      /\ \A k \in 1 .. Len(page.images) : page.images[k].order \in Nat
      /\ Len(page.boxes) \in Nat /\ Len(page.images) \in Nat
  <2>1. ASSUME NEW k \in 1 .. Len(page.boxes) PROVE page.boxes[k].order \in Nat
    <3>1. page.boxes[k] \in Boxes
      BY <1>a, ElementOfSeq
    <3> QED
      BY <3>1 DEF Boxes
  <2>2. ASSUME NEW k \in 1 .. Len(page.images) PROVE page.images[k].order \in Nat
    <3>1. page.images[k] \in Images
      BY <1>a, ElementOfSeq
    <3> QED
      BY <3>1 DEF Images
  <2>3. Len(page.boxes) \in Nat /\ Len(page.images) \in Nat
    BY <1>a
  <2> QED
    BY <2>1, <2>2, <2>3
<1>c. /\ \A k, l \in 1 .. Len(page.boxes) :
           k <= l => page.boxes[k].order <= page.boxes[l].order
      /\ \A k, l \in 1 .. Len(page.images) :
           k <= l => page.images[k].order <= page.images[l].order
  <2>1. Ascending(page.boxes) /\ Ascending(page.images)
    BY <1>0, DrawingFacts DEF PageOrderInv, page
  <2> QED
    BY <1>a, <2>1 DEF Ascending
<1>d. \A l \in 1 .. Len(ops) :
        /\ ops[l].kind \in {"box", "image", "text"}
        /\ ops[l].kind = "box" => BoxOpInv(l)
        /\ ops[l].kind = "image" => ImageOpInv(l)
        /\ ops[l].kind = "text" => TextOpInv
  <2>1. ASSUME NEW l \in 1 .. Len(ops) PROVE ops[l] \in Operations
    BY ElementOfSeq DEF TypeOK
  <2>2. \A l \in 1 .. Len(ops) : ops[l].kind \in {"box", "image", "text"}
    BY <2>1 DEF Operations
  <2> QED
    BY <1>0, <2>2 DEF PaintInv
<1>e. \A n \in Nat : n < n + 1 /\ (\A k \in Int : n + 1 <= k => n <= k)
                     /\ (\A k \in Int : k < n => k < n + 1)
  OBVIOUS
<1>1. CASE DrawBox
  <2> DEFINE b == at.boxes
             op == Drawn("box", b, 0)
  <2>1. /\ b \in 1 .. Len(page.boxes) /\ ops' = Append(ops, op) /\ page' = page
        /\ at'.boxes = b + 1 /\ at'.images = at.images /\ stage' = stage
        /\ at.images <= Len(page.images) =>
             page.boxes[b].order <= page.images[at.images].order
    BY <1>1, <1>a DEF DrawBox, BoxIsNext, BoxBefore, TypeOK, Positions, page, paging
  <2>2. op \in Operations /\ op.kind = "box" /\ op.index = b
    BY <1>a, DrawnIsOperation
  <2> HIDE DEF op
  <2>3. \A k \in 1 .. Len(page.images) : at.images <= k =>
          page.boxes[b].order <= page.images[k].order
    <3> SUFFICES ASSUME NEW k \in 1 .. Len(page.images), at.images <= k
                 PROVE  page.boxes[b].order <= page.images[k].order
      OBVIOUS
    <3>1. at.images \in 1 .. Len(page.images)
      BY <1>a, <1>b
    <3>2. page.boxes[b].order <= page.images[at.images].order
          /\ page.images[at.images].order <= page.images[k].order
      BY <1>c, <2>1, <3>1
    <3>3. /\ page.boxes[b].order \in Nat /\ page.images[at.images].order \in Nat
          /\ page.images[k].order \in Nat
      BY <1>b, <2>1, <3>1
    <3> QED
      BY <3>2, <3>3
  <2>4. ASSUME NEW l \in 1 .. Len(ops) PROVE ops[l].kind # "text" /\ Under(ops[l], op)
    <3>1. ops[l].kind # "text"
      BY <1>a, <1>b, <1>d, <2>1 DEF TextOpInv
    <3>2. Item(op) = page.boxes[b]
      BY <2>2 DEF Item
    <3>3. CASE ops[l].kind = "box"
      <4>1. Item(ops[l]) = page.boxes[ops[l].index]
            /\ ops[l].index \in 1 .. Len(page.boxes) /\ ops[l].index < b
        BY <1>d, <3>3 DEF Item, BoxOpInv
      <4> QED
        BY <1>c, <2>1, <2>2, <3>2, <3>3, <4>1 DEF Under
    <3>4. CASE ops[l].kind = "image"
      <4>1. Item(ops[l]) = page.images[ops[l].index]
            /\ ops[l].index \in 1 .. Len(page.images)
            /\ page.images[ops[l].index].order < page.boxes[b].order
        BY <1>a, <1>d, <2>1, <3>4 DEF Item, ImageOpInv
      <4>2. page.images[ops[l].index].order \in Nat /\ page.boxes[b].order \in Nat
        BY <1>b, <2>1, <4>1
      <4>3. /\ page.images[ops[l].index].order <= page.boxes[b].order
            /\ page.images[ops[l].index].order # page.boxes[b].order
        BY <4>1, <4>2
      <4>4. Item(ops[l]).order <= Item(op).order /\ Item(ops[l]).order # Item(op).order
        BY <3>2, <4>1, <4>3
      <4> QED
        BY <3>1, <4>4, Zenon DEF Under
    <3> QED
      BY <1>d, <3>1, <3>3, <3>4
  <2>5. \A k, l \in 1 .. Len(ops') : k < l => Layered(k, l)'
    BY <1>0, <2>1, <2>2, <2>4, DrawnOnTop
  <2>6. ASSUME NEW l \in 1 .. Len(ops')
        PROVE  /\ ops'[l].kind = "box" => BoxOpInv(l)'
               /\ ops'[l].kind = "image" => ImageOpInv(l)'
               /\ ops'[l].kind = "text" => TextOpInv'
    <3>1. CASE l \in 1 .. Len(ops) /\ ops'[l] = ops[l]
      <4>1. ops[l].kind # "text"
        BY <2>4, <3>1
      <4>2. ops[l].kind = "box" => BoxOpInv(l)'
        BY <1>a, <1>d, <2>1, <3>1 DEF BoxOpInv
      <4>3. ops[l].kind = "image" => ImageOpInv(l)'
        BY <1>a, <1>d, <1>e, <2>1, <3>1 DEF ImageOpInv
      <4> QED
        BY <3>1, <4>1, <4>2, <4>3
    <3>2. CASE ops'[l] = op
      <4>1. BoxOpInv(l)'
        BY <1>a, <1>e, <2>1, <2>2, <2>3, <3>2 DEF BoxOpInv
      <4> QED
        BY <2>2, <3>2, <4>1
    <3> QED
      BY <2>1, <2>2, <3>1, <3>2, Appended
  <2> QED
    BY <2>5, <2>6 DEF PaintInv
<1>2. CASE DrawImage
  <2> DEFINE i == at.images
  <2>1. /\ i \in 1 .. Len(page.images) /\ page' = page /\ stage' = stage
        /\ at'.images = i + 1 /\ at'.boxes = at.boxes
        /\ at.boxes <= Len(page.boxes) =>
             ~ (page.boxes[at.boxes].order <= page.images[i].order)
    BY <1>2, <1>a DEF DrawImage, ImageIsNext, BoxIsNext, BoxBefore, TypeOK, Positions, page,
                      paging
  <2>2. \A k \in 1 .. Len(page.boxes) : at.boxes <= k =>
          page.images[i].order < page.boxes[k].order
    <3> SUFFICES ASSUME NEW k \in 1 .. Len(page.boxes), at.boxes <= k
                 PROVE  page.images[i].order < page.boxes[k].order
      OBVIOUS
    <3>1. at.boxes \in 1 .. Len(page.boxes)
      BY <1>a, <1>b
    <3>2. ~ (page.boxes[at.boxes].order <= page.images[i].order)
          /\ page.boxes[at.boxes].order <= page.boxes[k].order
      BY <1>c, <2>1, <3>1
    <3>3. /\ page.boxes[at.boxes].order \in Nat /\ page.images[i].order \in Nat
          /\ page.boxes[k].order \in Nat
      BY <1>b, <2>1, <3>1
    <3> QED
      BY <3>2, <3>3
  <2>3. ASSUME NEW l \in 1 .. Len(ops), ops'[l] = ops[l]
        PROVE  /\ ops[l].kind # "text"
               /\ ops'[l].kind = "box" => BoxOpInv(l)'
               /\ ops'[l].kind = "image" => ImageOpInv(l)'
    <3>1. ops[l].kind # "text"
      BY <1>a, <1>b, <1>d, <2>1 DEF TextOpInv
    <3>2. ops[l].kind = "box" => BoxOpInv(l)'
      BY <1>a, <1>d, <1>e, <2>1, <2>3 DEF BoxOpInv
    <3>3. ops[l].kind = "image" => ImageOpInv(l)'
      BY <1>a, <1>d, <1>e, <2>1, <2>3 DEF ImageOpInv
    <3> QED
      BY <2>3, <3>1, <3>2, <3>3
  <2>4. CASE ops' = ops
    <3>1. \A k, l \in 1 .. Len(ops') : k < l => Layered(k, l)'
      BY <1>0, <2>1, <2>4, SameOps DEF PaintInv
    <3> QED
      BY <2>3, <2>4, <3>1 DEF PaintInv
  <2>5. ASSUME NEW id \in Nat, ops' = Append(ops, Drawn("image", i, id)) PROVE PaintInv'
    <3> DEFINE op == Drawn("image", i, id)
    <3>1. op \in Operations /\ op.kind = "image" /\ op.index = i
      BY <1>a, DrawnIsOperation
    <3>2. ops' = Append(ops, op)
      BY <2>5
    <3> HIDE DEF op
    <3>3. ASSUME NEW l \in 1 .. Len(ops) PROVE ops[l].kind # "text" /\ Under(ops[l], op)
      <4>1. ops[l].kind # "text"
        BY <1>a, <1>b, <1>d, <2>1 DEF TextOpInv
      <4>2. Item(op) = page.images[i]
        BY <3>1 DEF Item
      <4>3. CASE ops[l].kind = "image"
        <5>1. Item(ops[l]) = page.images[ops[l].index]
              /\ ops[l].index \in 1 .. Len(page.images) /\ ops[l].index < i
          BY <1>d, <4>3 DEF Item, ImageOpInv
        <5> QED
          BY <1>c, <2>1, <3>1, <4>2, <4>3, <5>1 DEF Under
      <4>4. CASE ops[l].kind = "box"
        <5>1. Item(ops[l]) = page.boxes[ops[l].index]
          BY <4>4 DEF Item
        <5>2. \A k \in 1 .. Len(page.images) : at.images <= k =>
                page.boxes[ops[l].index].order <= page.images[k].order
          BY <1>d, <4>4 DEF BoxOpInv
        <5>3. page.boxes[ops[l].index].order <= page.images[i].order
          BY <1>a, <2>1, <5>2
        <5> QED
          BY <3>1, <4>2, <4>4, <5>1, <5>3 DEF Under
      <4> QED
        BY <1>d, <4>1, <4>3, <4>4
    <3>4. \A k, l \in 1 .. Len(ops') : k < l => Layered(k, l)'
      BY <1>0, <2>1, <3>1, <3>2, <3>3, DrawnOnTop
    <3>5. ASSUME NEW l \in 1 .. Len(ops'), ops'[l] = op PROVE ImageOpInv(l)'
      BY <1>a, <1>e, <2>1, <2>2, <3>1, <3>5 DEF ImageOpInv
    <3>6. ASSUME NEW l \in 1 .. Len(ops')
          PROVE  /\ ops'[l].kind = "box" => BoxOpInv(l)'
                 /\ ops'[l].kind = "image" => ImageOpInv(l)'
                 /\ ops'[l].kind = "text" => TextOpInv'
      <4>1. (l \in 1 .. Len(ops) /\ ops'[l] = ops[l]) \/ ops'[l] = op
        BY <3>1, <3>2, Appended
      <4>2. CASE l \in 1 .. Len(ops) /\ ops'[l] = ops[l]
        BY <2>3, <4>2
      <4>3. CASE ops'[l] = op
        BY <3>1, <3>5, <4>3
      <4> QED
        BY <4>1, <4>2, <4>3
    <3> QED
      BY <3>4, <3>6 DEF PaintInv
  <2>6. ops' = ops \/ \E id \in Nat : ops' = Append(ops, Drawn("image", i, id))
    <3>1. DOMAIN embedded \subseteq Nat /\ Len(embedded) + 1 \in Nat
      BY DEF TypeOK
    <3> QED
      BY <1>2, <3>1 DEF DrawImage
  <2> QED
    BY <2>4, <2>5, <2>6
<1>3. CASE DrawText
  <2>1. /\ page' = page /\ stage' = stage /\ at'.boxes = at.boxes /\ at'.images = at.images
        /\ TextOpInv
    BY <1>3, <1>a, <1>b
       DEF DrawText, ImageIsNext, BoxIsNext, TypeOK, Positions, page, paging, TextOpInv
  <2>2. ASSUME NEW l \in 1 .. Len(ops), ops'[l] = ops[l]
        PROVE  /\ ops'[l].kind = "box" => BoxOpInv(l)'
               /\ ops'[l].kind = "image" => ImageOpInv(l)'
    BY <1>d, <2>1, <2>2 DEF BoxOpInv, ImageOpInv
  <2>3. TextOpInv'
    BY <2>1 DEF TextOpInv
  <2>4. CASE ops' = ops
    <3>1. \A k, l \in 1 .. Len(ops') : k < l => Layered(k, l)'
      BY <1>0, <2>1, <2>4, SameOps DEF PaintInv
    <3> QED
      BY <2>2, <2>3, <2>4, <3>1 DEF PaintInv
  <2>5. ASSUME NEW op \in Operations, op.kind = "text", ops' = Append(ops, op) PROVE PaintInv'
    <3>1. \A k, l \in 1 .. Len(ops') : k < l => Layered(k, l)'
      BY <1>0, <2>1, <2>5, DrawnOnTop
    <3>2. ASSUME NEW l \in 1 .. Len(ops')
          PROVE  /\ ops'[l].kind = "box" => BoxOpInv(l)'
                 /\ ops'[l].kind = "image" => ImageOpInv(l)'
                 /\ ops'[l].kind = "text" => TextOpInv'
      <4>1. (l \in 1 .. Len(ops) /\ ops'[l] = ops[l]) \/ ops'[l] = op
        BY <2>5, Appended
      <4> QED
        BY <2>2, <2>3, <2>5, <4>1
    <3> QED
      BY <3>1, <3>2 DEF PaintInv
  <2>6. ops' = ops \/ \E op \in Operations : ops' = Append(ops, op) /\ op.kind = "text"
    <3>1. ops' = ops \/ \E id \in Nat : ops' = Append(ops, Drawn("text", at.texts, id))
      <4>1. \A k \in DOMAIN FontIds : FontIds[k] \in Nat
        BY TableFacts DEF FontIds, TypeOK
      <4> QED
        BY <1>3, <4>1 DEF DrawText, HasId
    <3>2. \A id \in Nat : Drawn("text", at.texts, id) \in Operations
                         /\ Drawn("text", at.texts, id).kind = "text"
      BY <1>a, DrawnIsOperation
    <3> QED
      BY <3>1, <3>2, Zenon
  <2> QED
    BY <2>4, <2>5, <2>6
<1>4. CASE NextSheet
  <2>1. CASE sheet < Len(pages)
    <3>1. ops' = << >>
      BY <1>4, <2>1 DEF NextSheet
    <3>2. \A k \in 1 .. Len(ops') : FALSE
      BY <3>1
    <3> QED
      BY <3>2 DEF PaintInv
  <2>2. CASE ~ (sheet < Len(pages))
    <3>1. at' = at /\ ops' = ops /\ page' = page
      BY <1>4, <2>2 DEF NextSheet, page, paging
    <3>2. \A k, l \in 1 .. Len(ops') : k < l => Layered(k, l)'
      BY <1>0, <3>1, SameOps DEF PaintInv
    <3>3. ASSUME NEW l \in 1 .. Len(ops')
          PROVE  /\ ops'[l].kind = "box" => BoxOpInv(l)'
                 /\ ops'[l].kind = "image" => ImageOpInv(l)'
                 /\ ops'[l].kind = "text" => TextOpInv'
      BY <1>d, <3>1 DEF BoxOpInv, ImageOpInv, TextOpInv
    <3> QED
      BY <3>2, <3>3 DEF PaintInv
  <2> QED
    BY <2>1, <2>2
<1> QED
  BY <1>1, <1>2, <1>3, <1>4 DEF Draw

(* Where header and footer bring texts only, every page is painted in      *)
(* document order, the texts last.                                         *)
THEOREM PaintOrder == Spec => []PaintedInOrder
<1>1. Init => PageOrderInv /\ PaintInv
  BY DEF Init, PageOrderInv, PaintInv
<1>2. TypeOK /\ TextOpsInv /\ PageOrderInv /\ PaintInv /\ [Next]_vars
        => PageOrderInv' /\ PaintInv'
  <2> SUFFICES ASSUME TypeOK, TextOpsInv, PageOrderInv, PaintInv, [Next]_vars
               PROVE  PageOrderInv' /\ PaintInv'
    OBVIOUS
  <2>1. Slicing \/ UNCHANGED vars => UNCHANGED <<job, paging, stage, drawing>>
    BY DEF Slicing, vars
  <2>2. UNCHANGED <<job, paging, stage, drawing>> => PageOrderInv' /\ PaintInv'
    <3> SUFFICES ASSUME UNCHANGED <<job, paging, stage, drawing>>
                 PROVE  PageOrderInv' /\ PaintInv'
      OBVIOUS
    <3>1. /\ OnlyTextAround' <=> OnlyTextAround
          /\ page' = page /\ ops' = ops /\ at' = at /\ stage' = stage
      BY DEF OnlyTextAround, header, footer, paging, drawing, page
    <3>2. PageOrderInv'
      BY DEF PageOrderInv, OnlyTextAround, header, footer, paging, drawing, filling
    <3>3. (\A k, l \in 1 .. Len(ops) : k < l => Layered(k, l)) =>
            \A k, l \in 1 .. Len(ops') : k < l => Layered(k, l)'
      BY <3>1, SameOps
    <3> QED
      BY <3>1, <3>2, <3>3 DEF PaintInv, BoxOpInv, ImageOpInv, TextOpInv
  <2>3. Page => ops' = << >>
    BY DEF Page, GiveUp, OpenPage, FileBox, FileText, FileImage, ClosePage, Sliced, drawing,
           TextOpsInv
  <2>4. Page => PaintInv'
    BY <2>3 DEF PaintInv
  <2>5. Draw => UNCHANGED <<job, paging>> /\ stage' # "filing"
    BY DEF Draw, DrawBox, DrawImage, DrawText, NextSheet
  <2>6. Draw => PageOrderInv'
    BY <2>5 DEF PageOrderInv, paging, OnlyTextAround, header, footer
  <2> QED
    BY <2>1, <2>2, <2>4, <2>6, PageKeepsOrder, DrawKeepsPaint DEF Next
<1>3. TypeOK /\ TextOpsInv /\ PaintInv => PaintedInOrder
  <2> SUFFICES ASSUME TypeOK, TextOpsInv, PaintInv, OnlyTextAround,
                      NEW k \in DOMAIN ops, NEW l \in DOMAIN ops, k < l, ops[l].kind # "text"
               PROVE  ops[k].kind # "text" /\ Under(ops[k], ops[l])
    BY DEF PaintedInOrder, OnlyTextAround
  <2>1. k \in 1 .. Len(ops) /\ l \in 1 .. Len(ops)
    BY DEF TypeOK
  <2>2. stage \in {"drawing", "done"}
    BY <2>1 DEF TypeOK, TextOpsInv
  <2> QED
    BY <2>1, <2>2 DEF PaintInv, Layered
<1> QED
  BY <1>1, <1>2, <1>3, PrintTypes, SpecTextOps, PTL DEF Spec
-----------------------------------------------------------------------------
(* The end of the printing.  What is left to do: to slice; to file, of the *)
(* pages to come and of the items for this one; to draw, of the sheets to  *)
(* come and of the lists of this one.                                      *)
LeftOf(items, n) == IF n <= Len(items) THEN Len(items) + 1 - n ELSE 0

LeftToFile == Len(rest.boxes) + Len(rest.images) + Len(rest.texts)

LeftToDraw ==
  LeftOf(page.boxes, at.boxes) + LeftOf(page.images, at.images) + LeftOf(page.texts, at.texts)

ToGo ==
  CASE stage = "paging" /\ phase # "done" -> <<3, P!ToGo[1], P!ToGo[2]>>
    [] stage = "paging" /\ phase = "done" -> <<2, Len(slices) - Len(pages), 0>>
    [] stage = "filing"  -> <<2, Len(slices) - Len(pages), LeftToFile + 1>>
    [] stage = "drawing" -> <<1, Len(pages) - sheet, LeftToDraw>>
    [] stage = "done"    -> <<0, 0, 0>>

(* A page is opened for each slice, once all are there.                    *)
EndInv ==
  /\ phase # "done" => stage = "paging" /\ pages = << >>
  /\ stage \in {"paging", "filing"} => Len(pages) <= Len(slices)

ToGoIs(a, b, c) == ToGo \in [1 .. 3 -> Nat] /\ ToGo[1] = a /\ ToGo[2] = b /\ ToGo[3] = c

ToGoParts ==
  /\ stage = "paging" /\ phase # "done" => ToGoIs(3, P!ToGo[1], P!ToGo[2])
  /\ stage = "paging" /\ phase = "done" => ToGoIs(2, Len(slices) - Len(pages), 0)
  /\ stage = "filing" => ToGoIs(2, Len(slices) - Len(pages), LeftToFile + 1)
  /\ stage = "drawing" => ToGoIs(1, Len(pages) - sheet, LeftToDraw)
  /\ stage = "done" => ToGoIs(0, 0, 0)

LEMMA LeftOfType ==
  ASSUME NEW Kind, NEW items \in Seq(Kind), NEW n \in Nat
  PROVE  /\ LeftOf(items, n) \in Nat /\ LeftOf(items, n + 1) \in Nat
         /\ n <= Len(items) => LeftOf(items, n + 1) < LeftOf(items, n)
  BY DEF LeftOf

LEMMA OneLess ==
  ASSUME NEW x \in Nat, NEW y \in Nat, NEW z \in Nat
  PROVE  /\ x + y + z \in Nat
         /\ \A w \in Int : w < x => w + y + z < x + y + z
         /\ \A w \in Int : w < y => x + w + z < x + y + z
         /\ \A w \in Int : w < z => x + y + w < x + y + z
  OBVIOUS

LEMMA LeftTypes ==
  ASSUME TypeOK
  PROVE  /\ LeftToFile \in Nat
         /\ stage = "drawing" =>
              /\ LeftOf(page.boxes, at.boxes) \in Nat
              /\ LeftOf(page.images, at.images) \in Nat
              /\ LeftOf(page.texts, at.texts) \in Nat
<1>1. LeftToFile \in Nat
  <2>1. rest.boxes \in Seq(Boxes) /\ rest.images \in Seq(Images) /\ rest.texts \in Seq(Texts)
    BY DEF TypeOK, Pages
  <2>2. Len(rest.boxes) \in Nat /\ Len(rest.images) \in Nat /\ Len(rest.texts) \in Nat
    BY <2>1
  <2> QED
    BY <2>2, OneLess DEF LeftToFile
<1>2. ASSUME stage = "drawing"
      PROVE  /\ LeftOf(page.boxes, at.boxes) \in Nat
             /\ LeftOf(page.images, at.images) \in Nat
             /\ LeftOf(page.texts, at.texts) \in Nat
  <2>1. page.boxes \in Seq(Boxes) /\ page.images \in Seq(Images) /\ page.texts \in Seq(Texts)
    BY <1>2, DrawingFacts DEF Pages
  <2>2. at.boxes \in Nat /\ at.images \in Nat /\ at.texts \in Nat
    BY <1>2, DrawingFacts
  <2> QED
    BY <2>1, <2>2, LeftOfType
<1> QED
  BY <1>1, <1>2

LEMMA TripleIs ==
  ASSUME NEW a \in Nat, NEW b \in Nat, NEW c \in Nat
  PROVE  /\ <<a, b, c>> \in [1 .. 3 -> Nat]
         /\ <<a, b, c>>[1] = a /\ <<a, b, c>>[2] = b /\ <<a, b, c>>[3] = c
  OBVIOUS

LEMMA Falling ==
  ASSUME NEW m, NEW n \in [1 .. 3 -> Nat],
         \/ m[1] < n[1]
         \/ m[1] = n[1] /\ m[2] < n[2]
         \/ m[1] = n[1] /\ m[2] = n[2] /\ m[3] < n[3]
  PROVE  P!Precedes(m, n)
<1>1. CASE m[1] < n[1]
  BY <1>1 DEF P!Precedes
<1>2. CASE m[1] = n[1] /\ m[2] < n[2]
  BY <1>2 DEF P!Precedes
<1>3. CASE m[1] = n[1] /\ m[2] = n[2] /\ m[3] < n[3]
  BY <1>3 DEF P!Precedes
<1> QED
  BY <1>1, <1>2, <1>3

LEMMA PairFalls ==
  ASSUME NEW m, NEW n \in [1 .. 2 -> Nat], P!Precedes(m, n)
  PROVE  m[1] < n[1] \/ (m[1] = n[1] /\ m[2] < n[2])
<1>1. PICK k \in DOMAIN n : m[k] < n[k] /\ \A j \in 1 .. k - 1 : m[j] = n[j]
  BY Zenon DEF P!Precedes
<1>2. CASE k = 1
  BY <1>1, <1>2
<1>3. CASE k = 2
  <2>1. 1 \in 1 .. k - 1
    BY <1>3
  <2> QED
    BY <1>1, <1>3, <2>1
<1>4. k \in 1 .. 2
  BY <1>1
<1> QED
  BY <1>2, <1>3, <1>4

LEMMA PrintToGo == TypeOK /\ P!ToGo \in [1 .. 2 -> Nat] /\ EndInv => ToGoParts
<1> SUFFICES ASSUME TypeOK, P!ToGo \in [1 .. 2 -> Nat], EndInv PROVE ToGoParts
  OBVIOUS
<1>1. P!ToGo[1] \in Nat /\ P!ToGo[2] \in Nat
  OBVIOUS
<1>2. stage = "paging" /\ phase # "done" => ToGoIs(3, P!ToGo[1], P!ToGo[2])
  BY <1>1, TripleIs DEF ToGo, ToGoIs
<1>3. Len(slices) \in Nat /\ Len(pages) \in Nat
  BY DEF TypeOK, S!TypeOK
<1>4. stage = "paging" /\ phase = "done" => ToGoIs(2, Len(slices) - Len(pages), 0)
  BY <1>3, TripleIs DEF ToGo, ToGoIs, EndInv
<1>8. LeftToFile \in Nat /\ LeftToFile + 1 \in Nat
  <2>1. LeftToFile \in Nat
    BY LeftTypes
  <2> QED
    BY <2>1
<1>5. stage = "filing" => ToGoIs(2, Len(slices) - Len(pages), LeftToFile + 1)
  BY <1>3, <1>8, TripleIs DEF ToGo, ToGoIs, EndInv
<1>6. stage = "drawing" => ToGoIs(1, Len(pages) - sheet, LeftToDraw)
  <2>1. stage = "drawing" => LeftToDraw \in Nat
    BY LeftTypes DEF LeftToDraw
  <2>2. stage = "drawing" => Len(pages) - sheet \in Nat
    BY <1>3, DrawingFacts
  <2> QED
    BY <2>1, <2>2, TripleIs DEF ToGo, ToGoIs
<1>7. stage = "done" => ToGoIs(0, 0, 0)
  BY TripleIs DEF ToGo, ToGoIs
<1> QED
  BY <1>2, <1>4, <1>5, <1>6, <1>7 DEF ToGoParts

LEMMA FileLess ==
  ASSUME TypeOK, FileBox \/ FileText \/ FileImage
  PROVE  LeftToFile' < LeftToFile
<1>1. rest.boxes \in Seq(Boxes) /\ rest.images \in Seq(Images) /\ rest.texts \in Seq(Texts)
  BY DEF TypeOK, Pages
<1>2. Len(rest.boxes) \in Nat /\ Len(rest.images) \in Nat /\ Len(rest.texts) \in Nat
  BY <1>1
<1>3. \A Kind : \A s \in Seq(Kind) : s # << >> => Len(Tail(s)) = Len(s) - 1
  OBVIOUS
<1>4. \A t : /\ [rest EXCEPT !.boxes = t].boxes = t
             /\ [rest EXCEPT !.boxes = t].images = rest.images
             /\ [rest EXCEPT !.boxes = t].texts = rest.texts
  BY DEF TypeOK, Pages
<1>5. \A t : /\ [rest EXCEPT !.images = t].images = t
             /\ [rest EXCEPT !.images = t].boxes = rest.boxes
             /\ [rest EXCEPT !.images = t].texts = rest.texts
  BY DEF TypeOK, Pages
<1>6. \A t : /\ [rest EXCEPT !.texts = t].texts = t
             /\ [rest EXCEPT !.texts = t].images = rest.images
             /\ [rest EXCEPT !.texts = t].boxes = rest.boxes
  BY DEF TypeOK, Pages
<1>7. CASE FileBox
  <2>1. rest.boxes # << >> /\ rest' = [rest EXCEPT !.boxes = Tail(rest.boxes)]
    BY <1>7 DEF FileBox
  <2>2. Len(rest'.boxes) \in Int /\ Len(rest'.boxes) < Len(rest.boxes) /\ rest'.images = rest.images /\ rest'.texts = rest.texts
    BY <1>1, <1>2, <1>3, <1>4, <2>1
  <2> QED
    BY <1>2, <2>2, OneLess DEF LeftToFile
<1>8. CASE FileText
  <2>1. rest.texts # << >> /\ rest' = [rest EXCEPT !.texts = Tail(rest.texts)]
    BY <1>8 DEF FileText
  <2>2. Len(rest'.texts) \in Int /\ Len(rest'.texts) < Len(rest.texts) /\ rest'.images = rest.images /\ rest'.boxes = rest.boxes
    BY <1>1, <1>2, <1>3, <1>6, <2>1
  <2> QED
    BY <1>2, <2>2, OneLess DEF LeftToFile
<1>9. CASE FileImage
  <2>1. rest.images # << >> /\ rest' = [rest EXCEPT !.images = Tail(rest.images)]
    BY <1>9 DEF FileImage
  <2>2. Len(rest'.images) \in Int /\ Len(rest'.images) < Len(rest.images) /\ rest'.boxes = rest.boxes /\ rest'.texts = rest.texts
    BY <1>1, <1>2, <1>3, <1>5, <2>1
  <2> QED
    BY <1>2, <2>2, OneLess DEF LeftToFile
<1> QED
  BY <1>7, <1>8, <1>9

LEMMA DrawLess ==
  ASSUME TypeOK, DrawBox \/ DrawImage \/ DrawText
  PROVE  LeftToDraw' < LeftToDraw
<1>1. stage = "drawing" /\ page' = page
  BY DEF DrawBox, DrawImage, DrawText, paging, page
<1>2. page.boxes \in Seq(Boxes) /\ page.images \in Seq(Images) /\ page.texts \in Seq(Texts)
  BY <1>1, DrawingFacts DEF Pages
<1>3. at \in Positions /\ at.boxes \in Nat /\ at.images \in Nat /\ at.texts \in Nat
  BY <1>1, DrawingFacts DEF TypeOK
<1>4. /\ LeftOf(page.boxes, at.boxes) \in Nat
      /\ LeftOf(page.images, at.images) \in Nat
      /\ LeftOf(page.texts, at.texts) \in Nat
  BY <1>1, LeftTypes
<1>5. CASE DrawBox
  <2>1. at'.boxes = at.boxes + 1 /\ at'.images = at.images /\ at'.texts = at.texts
    BY <1>3, <1>5 DEF DrawBox, Positions
  <2>2. LeftOf(page.boxes, at.boxes + 1) < LeftOf(page.boxes, at.boxes)
        /\ LeftOf(page.boxes, at.boxes + 1) \in Nat
    <3>1. at.boxes <= Len(page.boxes)
      BY <1>5 DEF DrawBox, BoxIsNext
    <3> QED
      BY <1>2, <1>3, <3>1, LeftOfType
  <2>3. LeftToDraw' = LeftOf(page.boxes, at.boxes + 1) + LeftOf(page.images, at.images) + LeftOf(page.texts, at.texts)
    BY <1>1, <2>1 DEF LeftToDraw
  <2> QED
    BY <1>4, <2>2, <2>3, OneLess DEF LeftToDraw
<1>6. CASE DrawImage
  <2>1. at'.images = at.images + 1 /\ at'.boxes = at.boxes /\ at'.texts = at.texts
    BY <1>3, <1>6 DEF DrawImage, Positions
  <2>2. LeftOf(page.images, at.images + 1) < LeftOf(page.images, at.images)
        /\ LeftOf(page.images, at.images + 1) \in Nat
    <3>1. at.images <= Len(page.images)
      BY <1>6 DEF DrawImage, ImageIsNext
    <3> QED
      BY <1>2, <1>3, <3>1, LeftOfType
  <2>3. LeftToDraw' = LeftOf(page.boxes, at.boxes) + LeftOf(page.images, at.images + 1) + LeftOf(page.texts, at.texts)
    BY <1>1, <2>1 DEF LeftToDraw
  <2> QED
    BY <1>4, <2>2, <2>3, OneLess DEF LeftToDraw
<1>7. CASE DrawText
  <2>1. at'.texts = at.texts + 1 /\ at'.images = at.images /\ at'.boxes = at.boxes
    BY <1>3, <1>7 DEF DrawText, Positions
  <2>2. LeftOf(page.texts, at.texts + 1) < LeftOf(page.texts, at.texts)
        /\ LeftOf(page.texts, at.texts + 1) \in Nat
    <3>1. at.texts <= Len(page.texts)
      BY <1>7 DEF DrawText
    <3> QED
      BY <1>2, <1>3, <3>1, LeftOfType
  <2>3. LeftToDraw' = LeftOf(page.boxes, at.boxes) + LeftOf(page.images, at.images) + LeftOf(page.texts, at.texts + 1)
    BY <1>1, <2>1 DEF LeftToDraw
  <2> QED
    BY <1>4, <2>2, <2>3, OneLess DEF LeftToDraw
<1> QED
  BY <1>5, <1>6, <1>7

LEMMA PrintingStep ==
  ASSUME TypeOK, EndInv, EndInv', ToGoParts, ToGoParts', Page \/ Draw
  PROVE  P!Precedes(ToGo', ToGo)
<1>1. Len(slices) \in Nat /\ Len(pages) \in Nat
  BY DEF TypeOK, S!TypeOK
<1>2. CASE GiveUp
  <2>1. /\ ToGoIs(2, Len(slices) - Len(pages), 0)
        /\ ToGoIs(1, Len(pages) - sheet, LeftToDraw)'
    BY <1>2 DEF GiveUp, Sliced, ToGoParts
  <2> QED
    BY <2>1, Falling DEF ToGoIs
<1>3. CASE OpenPage
  <2>1. /\ ToGoIs(2, Len(slices) - Len(pages), 0)
        /\ ToGoIs(2, Len(slices) - Len(pages), LeftToFile + 1)'
    BY <1>3 DEF OpenPage, Sliced, ToGoParts
  <2>2. Len(pages') = Len(pages) + 1 /\ slices' = slices
    BY <1>3 DEF OpenPage, slicing, TypeOK
  <2>3. Len(slices') - Len(pages') < Len(slices) - Len(pages)
    BY <1>1, <2>2
  <2> QED
    BY <2>1, <2>3, Falling DEF ToGoIs
<1>4. CASE FileBox \/ FileText \/ FileImage
  <2>1. /\ ToGoIs(2, Len(slices) - Len(pages), LeftToFile + 1)
        /\ ToGoIs(2, Len(slices) - Len(pages), LeftToFile + 1)'
    BY <1>4 DEF FileBox, FileText, FileImage, ToGoParts
  <2>2. Len(pages') = Len(pages) /\ slices' = slices
    BY <1>4 DEF FileBox, FileText, FileImage, Fill, slicing, TypeOK
  <2>3. LeftToFile' < LeftToFile /\ LeftToFile \in Nat
    BY <1>4, FileLess, LeftTypes
  <2>4. LeftToFile' \in Nat
    <3>1. rest' \in Pages
      BY <1>4, ExtendedPage DEF FileBox, FileText, FileImage, TypeOK
    <3>2. rest'.boxes \in Seq(Boxes) /\ rest'.images \in Seq(Images) /\ rest'.texts \in Seq(Texts)
      BY <3>1 DEF Pages
    <3>3. Len(rest'.boxes) \in Nat /\ Len(rest'.images) \in Nat /\ Len(rest'.texts) \in Nat
      BY <3>2
    <3> QED
      BY <3>3, OneLess DEF LeftToFile
  <2>5. LeftToFile' + 1 < LeftToFile + 1
    <3>1. \A x, y \in Nat : x < y => x + 1 < y + 1
      OBVIOUS
    <3> QED
      BY <2>3, <2>4, <3>1
  <2> QED
    BY <2>1, <2>2, <2>5, Falling DEF ToGoIs
<1>5. CASE ClosePage
  <2>1. /\ ToGoIs(2, Len(slices) - Len(pages), LeftToFile + 1)
        /\ UNCHANGED <<slices, pages, phase>> /\ LeftToFile \in Nat
        /\ phase = "done"
    BY <1>5, LeftTypes DEF ClosePage, slicing, paging, ToGoParts, EndInv
  <2>2. CASE stage' = "paging"
    <3>1. ToGoIs(2, Len(slices) - Len(pages), 0)'
      BY <2>1, <2>2 DEF ToGoParts
    <3> QED
      BY <2>1, <3>1, Falling DEF ToGoIs
  <2>3. CASE stage' = "drawing"
    <3>1. ToGoIs(1, Len(pages) - sheet, LeftToDraw)'
      BY <2>3 DEF ToGoParts
    <3> QED
      BY <2>1, <3>1, Falling DEF ToGoIs
  <2> QED
    BY <1>5, <2>2, <2>3 DEF ClosePage
<1>6. CASE DrawBox \/ DrawImage \/ DrawText
  <2>1. /\ ToGoIs(1, Len(pages) - sheet, LeftToDraw)
        /\ ToGoIs(1, Len(pages) - sheet, LeftToDraw)'
        /\ UNCHANGED <<pages, sheet>>
    BY <1>6 DEF DrawBox, DrawImage, DrawText, paging, ToGoParts
  <2>2. LeftToDraw' < LeftToDraw
    BY <1>6, DrawLess
  <2> QED
    BY <2>1, <2>2, Falling DEF ToGoIs
<1>7. CASE NextSheet
  <2>1. ToGoIs(1, Len(pages) - sheet, LeftToDraw) /\ pages' = pages /\ sheet \in Nat
    BY <1>7, DrawingFacts DEF NextSheet, paging, ToGoParts
  <2>2. CASE stage' = "done"
    <3>1. ToGoIs(0, 0, 0)'
      BY <2>2 DEF ToGoParts
    <3> QED
      BY <2>1, <3>1, Falling DEF ToGoIs
  <2>3. CASE sheet' = sheet + 1 /\ stage' = "drawing"
    <3>1. ToGoIs(1, Len(pages) - sheet, LeftToDraw)'
      BY <2>3 DEF ToGoParts
    <3>2. Len(pages') - sheet' < Len(pages) - sheet
      BY <1>1, <2>1, <2>3
    <3> QED
      BY <2>1, <3>1, <3>2, Falling DEF ToGoIs
  <2> QED
    BY <1>7, <2>2, <2>3 DEF NextSheet
<1> QED
  BY <1>2, <1>3, <1>4, <1>5, <1>6, <1>7 DEF Page, Draw

LEMMA SpecPrintEndInv == Spec => []EndInv
<1>1. Init => EndInv
  BY DEF Init, EndInv, S!Init
<1>2. ASSUME TypeOK, EndInv, [Next]_vars PROVE EndInv'
  <2>1. CASE UNCHANGED vars
    BY <1>2, <2>1 DEF vars, EndInv, slicing, paging
  <2>2. CASE Slicing
    <3>1. stage' = "paging" /\ stage = "paging" /\ pages' = pages /\ phase # "done"
      BY <2>2 DEF Slicing, S!Next, S!Propose, S!PullBack, S!Cut, paging
    <3>2. S!Propose \/ S!PullBack \/ S!Cut
      BY <2>2 DEF Slicing, S!Next
    <3>3. Len(pages') = 0 /\ pages' = << >>
      BY <1>2, <3>1 DEF EndInv
    <3>4. slices' = slices \/ slices' = Append(slices, S!Slice(start, cut))
      BY <3>2 DEF S!Propose, S!PullBack, S!Cut
    <3>5. Len(slices') >= 0
      BY <1>2, <3>4 DEF TypeOK, S!TypeOK
    <3> QED
      BY <3>1, <3>3, <3>5 DEF EndInv
  <2>3. CASE Page
    <3>1. UNCHANGED <<slices, phase>> /\ phase = "done"
      BY <1>2, <2>3 DEF Page, GiveUp, OpenPage, FileBox, FileText, FileImage, ClosePage, Sliced, slicing,
         TypeOK
    <3>2. Len(pages) \in Nat /\ Len(slices) \in Nat
      BY <1>2 DEF TypeOK, S!TypeOK
    <3>3. stage' \in {"paging", "filing"} => Len(pages') <= Len(slices)
      <4>1. CASE GiveUp
        BY <4>1 DEF GiveUp
      <4>2. CASE OpenPage
        BY <1>2, <3>2, <4>2 DEF OpenPage, TypeOK
      <4>3. CASE FileBox \/ FileText \/ FileImage
        <5>1. Len(pages') = Len(pages) /\ stage = "filing"
          BY <1>2, <4>3 DEF FileBox, FileText, FileImage, Fill, TypeOK
        <5> QED
          BY <1>2, <5>1 DEF EndInv
      <4>4. CASE ClosePage
        BY <1>2, <4>4 DEF ClosePage, EndInv, paging
      <4> QED
        BY <2>3, <4>1, <4>2, <4>3, <4>4 DEF Page
    <3> QED
      BY <3>1, <3>3 DEF EndInv
  <2>4. CASE Draw
    <3>1. stage = "drawing" /\ stage' \in {"drawing", "done"} /\ phase' = phase
      BY <2>4 DEF Draw, DrawBox, DrawImage, DrawText, NextSheet, slicing
    <3> QED
      BY <1>2, <3>1 DEF EndInv
  <2> QED
    BY <1>2, <2>1, <2>2, <2>3, <2>4 DEF Next
<1> QED
  BY <1>1, <1>2, PrintTypes, PTL DEF Spec

(* For every job, and any cap on the slices: every step of the printing    *)
(* leaves less to do, in an order with no endless way down                 *)
(* (PrecedingEnds): paginate and write_pages come to their end, however    *)
(* many cuts are pulled back and however few items a page takes.           *)
THEOREM PrintingGetsOn == Spec => [](ToGo \in [1 .. 3 -> Nat]) /\ [][P!Precedes(ToGo', ToGo)]_vars
<1>1. Spec => [](P!LoopInv /\ P!EndInv)
  BY SlicingConstants, PrintingSlices, P!SpecLoopInv, P!SpecEndInv, PTL
<1>2. P!LoopInv => P!ToGo \in [1 .. 2 -> Nat]
  <2>1. P!LoopInv => P!ToGoParts
    BY SlicingConstants, P!ToGoIs
  <2> QED
    BY <2>1 DEF P!ToGoParts, P!Parts, P!LoopInv, P!TypeOK
<1>3. Spec => []ToGoParts
  BY <1>1, <1>2, PrintTypes, SpecPrintEndInv, PrintToGo, PTL
<1>4. ToGoParts /\ TypeOK => ToGo \in [1 .. 3 -> Nat]
  BY DEF ToGoParts, ToGoIs, TypeOK
<1>5. ASSUME TypeOK, EndInv, EndInv', ToGoParts, ToGoParts', P!LoopInv, P!LoopInv', P!EndInv, Slicing
      PROVE  P!Precedes(ToGo', ToGo)
  <2>1. P!Next
    BY <1>5 DEF Slicing, S!Next, P!Next, S!Propose, P!Propose, S!PullBack, P!PullBack,
           S!Cut, P!Cut, S!blocks, P!blocks, S!Straddles, P!Straddles, S!Slice, P!Slice,
           S!input, P!input
  <2>2. P!Precedes(P!ToGo', P!ToGo)
    BY <1>5, <2>1, SlicingConstants, P!SlicingStep
  <2>3. ToGoIs(3, P!ToGo[1], P!ToGo[2]) /\ stage' = "paging"
    BY <1>5 DEF Slicing, S!Next, S!Propose, S!PullBack, S!Cut, ToGoParts
  <2>4. CASE phase' = "done"
    <3>1. ToGoIs(2, Len(slices) - Len(pages), 0)'
      BY <1>5, <2>3, <2>4 DEF ToGoParts
    <3> QED
      BY <2>3, <3>1, Falling DEF ToGoIs
  <2>5. CASE phase' # "done"
    <3>1. ToGoIs(3, P!ToGo[1], P!ToGo[2])'
      BY <1>5, <2>3, <2>5 DEF ToGoParts
    <3>2. P!ToGo \in [1 .. 2 -> Nat]
      BY <1>2, <1>5
    <3>3. P!ToGo'[1] < P!ToGo[1] \/ (P!ToGo'[1] = P!ToGo[1] /\ P!ToGo'[2] < P!ToGo[2])
      BY <2>2, <3>2, PairFalls
    <3> QED
      BY <2>3, <3>1, <3>3, Falling DEF ToGoIs
  <2> QED
    BY <2>4, <2>5
<1>6. ASSUME TypeOK, EndInv, EndInv', ToGoParts, ToGoParts', P!LoopInv, P!LoopInv', P!EndInv, Next
      PROVE  P!Precedes(ToGo', ToGo)
  <2>1. CASE Slicing
    BY <1>5, <1>6, <2>1
  <2>2. CASE Page \/ Draw
    BY <1>6, <2>2, PrintingStep
  <2> QED
    BY <1>6, <2>1, <2>2 DEF Next
<1>7. TypeOK /\ EndInv /\ EndInv' /\ ToGoParts /\ ToGoParts' /\ P!LoopInv /\ P!LoopInv' /\ P!EndInv
        /\ [Next]_vars => [P!Precedes(ToGo', ToGo)]_vars
  BY <1>6
<1> QED
  BY <1>1, <1>3, <1>4, <1>7, PrintTypes, SpecPrintEndInv, PTL DEF Spec
=============================================================================
