------------------------------ MODULE Paginate ------------------------------
(***************************************************************************)
(* Printing a laid-out document (paginate/src/slicer.rs, page.rs, fonts.rs *)
(* and pdf-out/src).  `paginate` cuts the document (Slicer), gives every   *)
(* page the header, the footer and the items of its slice, and moves their *)
(* fonts into one table; `render_pdf` then draws each page: boxes and      *)
(* images merged by paint order, and the texts over them.                  *)
(*                                                                         *)
(* A job is what the caller hands over.  A missing header or footer is an  *)
(* empty list: both add no item and no font.  The horizontal axis, colours *)
(* and outlines are left out, and so are runs with no glyph, which draw    *)
(* nothing.  Pages and fonts are numbered from 1.                          *)
(*                                                                         *)
(* A definition that stands before another and bears its name with an      *)
(* addition, as KeyBySize beside Key, is that code with a plausible slip.  *)
(* No action uses it: it tells which property would notice (README,        *)
(* Slips).                                                                 *)
(***************************************************************************)
EXTENDS Integers, Sequences, Functions

CONSTANTS
  Fonts,       \* font files with a face index
  Unreadable,  \* those printpdf cannot parse
  Bitmaps,     \* decoded images: a size in pixels and a shared buffer
  Jobs,        \* what a caller may ask to print
  MaxSlices    \* see Slicer

Boxes == [top : Int, bottom : Int, order : Nat]
Images == [top : Int, bottom : Int, order : Nat, bitmap : Bitmaps]

(* `font` indexes the table the run belongs to; `glyphs` are glyph ids, to *)
(* be told apart only by the font they were shaped with.                   *)
Texts == [baseline : Int, font : Nat, glyphs : Fonts]

DisplayLists ==
  [boxes : Seq(Boxes), images : Seq(Images), texts : Seq(Texts),
   fonts : Seq(Fonts), reserved : Nat]

Pages == [boxes : Seq(Boxes), images : Seq(Images), texts : Seq(Texts)]

Geometries == [sheet_height : Int, top : Int, bottom : Int]

(* What the layout extracts: items in paint order, runs in known fonts.    *)
(* It numbers its items apart; a box and an image of one order, which      *)
(* page.rs settles too, can only come from another caller.                 *)
Ascending(items) ==
  \A k, l \in DOMAIN items : k <= l => items[k].order <= items[l].order

InFonts(texts, fonts) ==
  \A k \in DOMAIN texts :
    texts[k].font \in DOMAIN fonts /\ fonts[texts[k].font] = texts[k].glyphs

Extracted(list) ==
  /\ list \in DisplayLists
  /\ Ascending(list.boxes) /\ Ascending(list.images)
  /\ InFonts(list.texts, list.fonts)

ASSUME PaginateConstants ==
  /\ Unreadable \subseteq Fonts
  /\ Bitmaps \subseteq [size : Nat, buffer : Nat]
  /\ \A job \in Jobs :
       /\ Extracted(job.document) /\ Extracted(job.header) /\ Extracted(job.footer)
       /\ job.geometry \in Geometries
  /\ MaxSlices \in Nat

VARIABLES
  job,
  total, slices, start, cut, next, phase,   \* the slicing
  pages,     \* the pages made so far, the last one being filled
  rest,      \* the items of the document it has not been offered yet
  stage,
  sheet,     \* the page being drawn
  at,        \* the next box, image and text of it
  ops,       \* the operations drawn on it
  embedded   \* the bitmaps in the PDF, each under its number

slicing == <<total, slices, start, cut, next, phase>>
paging == <<pages, rest>>
drawing == <<sheet, at, ops, embedded>>
vars == <<job, slicing, paging, stage, drawing>>

document == job.document
header == job.header
footer == job.footer
geometry == job.geometry

-----------------------------------------------------------------------------
(* What the slicing sees of a document: boxes, then images.                *)
Extent(item) == [top |-> item.top, bottom |-> item.bottom]

Extents(items) == [k \in DOMAIN items |-> Extent(items[k])]

Flow(list) ==
  [blocks |-> Extents(list.boxes) \o Extents(list.images),
   baselines |-> [k \in DOMAIN list.texts |-> list.texts[k].baseline],
   reserved |-> list.reserved]

ContentHeight(g) == g.sheet_height - g.top - g.bottom

Flows == {Flow(j.document) : j \in Jobs}

Heights == {ContentHeight(j.geometry) : j \in Jobs}

S == INSTANCE Slicer WITH
       Contents <- Flows,
       Usables <- Heights,
       content <- Flow(document),
       usable <- ContentHeight(geometry)

(* `merge_fonts`, and the offsets `paginate` matches to it.                *)
Table == document.fonts \o header.fonts \o footer.fonts

HeaderOffset == Len(document.fonts)

FooterOffset == HeaderOffset + Len(header.fonts)

EmptyPage == [boxes |-> << >>, images |-> << >>, texts |-> << >>]

Shift(item, dy) == [item EXCEPT !.top = @ + dy, !.bottom = @ + dy]

ShiftText(text, dy, offset) == [text EXCEPT !.baseline = @ + dy, !.font = @ + offset]

AppendShifted(page, source, dy, offset) ==
  [boxes |-> page.boxes \o [k \in DOMAIN source.boxes |-> Shift(source.boxes[k], dy)],
   images |-> page.images \o [k \in DOMAIN source.images |-> Shift(source.images[k], dy)],
   texts |-> page.texts \o
               [k \in DOMAIN source.texts |-> ShiftText(source.texts[k], dy, offset)]]

Positions == [boxes : Nat \ {0}, images : Nat \ {0}, texts : Nat \ {0}]

Start == [boxes |-> 1, images |-> 1, texts |-> 1]

Init ==
  /\ job \in Jobs
  /\ S!Init
  /\ pages = << >> /\ rest = EmptyPage
  /\ stage = "paging"
  /\ sheet = 1 /\ at = Start /\ ops = << >> /\ embedded = << >>

Slicing ==
  /\ stage = "paging"
  /\ UNCHANGED job
  /\ S!Next
  /\ UNCHANGED <<paging, stage, drawing>>

Sliced == stage = "paging" /\ phase = "done"

GiveUpWithNoPage ==
  /\ Sliced /\ ContentHeight(geometry) <= 0
  /\ pages' = << >>
  /\ stage' = "drawing"
  /\ UNCHANGED <<job, slicing, rest, drawing>>

(* No room between the margins: a single empty page. *)
GiveUp ==
  /\ Sliced /\ ContentHeight(geometry) <= 0
  /\ pages' = <<EmptyPage>>
  /\ stage' = "drawing"
  /\ UNCHANGED <<job, slicing, rest, drawing>>

(* A page with its header and footer. *)
Opened ==
  AppendShifted(AppendShifted(EmptyPage, header, 0, HeaderOffset),
                footer, geometry.sheet_height - geometry.bottom, FooterOffset)

OpenPage ==
  /\ Sliced /\ Len(pages) < Len(slices)
  /\ pages' = Append(pages, Opened)
  /\ rest' = [boxes |-> document.boxes, images |-> document.images, texts |-> document.texts]
  /\ stage' = "filing"
  /\ UNCHANGED <<job, slicing, drawing>>

slice == slices[Len(pages)]

ToPageByNumber == geometry.top - (Len(pages) - 1) * ContentHeight(geometry)

(* From the document to the page.                                          *)
ToPage == geometry.top - slice.start

filling == pages[Len(pages)]

Fill(p) == pages' = [pages EXCEPT ![Len(pages)] = p]

(* Each list of the document in turn; an item of another slice is left.    *)
FileBox ==
  /\ stage = "filing" /\ rest.boxes # << >>
  /\ LET box == Head(rest.boxes) IN
       IF S!Holds(slice, box.top)
       THEN Fill([filling EXCEPT !.boxes = Append(@, Shift(box, ToPage))])
       ELSE UNCHANGED pages
  /\ rest' = [rest EXCEPT !.boxes = Tail(@)]
  /\ UNCHANGED <<job, slicing, stage, drawing>>

FileText ==
  /\ stage = "filing" /\ rest.boxes = << >> /\ rest.texts # << >>
  /\ LET text == Head(rest.texts) IN
       IF S!Holds(slice, text.baseline)
       THEN Fill([filling EXCEPT !.texts = Append(@, ShiftText(text, ToPage, 0))])
       ELSE UNCHANGED pages
  /\ rest' = [rest EXCEPT !.texts = Tail(@)]
  /\ UNCHANGED <<job, slicing, stage, drawing>>

FileImage ==
  /\ stage = "filing" /\ rest.boxes = << >> /\ rest.texts = << >> /\ rest.images # << >>
  /\ LET image == Head(rest.images) IN
       IF S!Holds(slice, image.top)
       THEN Fill([filling EXCEPT !.images = Append(@, Shift(image, ToPage))])
       ELSE UNCHANGED pages
  /\ rest' = [rest EXCEPT !.images = Tail(@)]
  /\ UNCHANGED <<job, slicing, stage, drawing>>

ClosePage ==
  /\ stage = "filing" /\ rest = EmptyPage
  /\ stage' = IF Len(pages) < Len(slices) THEN "paging" ELSE "drawing"
  /\ UNCHANGED <<job, slicing, paging, drawing>>

-----------------------------------------------------------------------------
page == pages[sheet]

BoxBeforeAnyImage(box, image) == TRUE

(* `painted` takes a box before an image of the same order. *)
BoxBefore(box, image) == box.order <= image.order

BoxIsNext ==
  /\ at.boxes <= Len(page.boxes)
  /\ at.images <= Len(page.images) => BoxBefore(page.boxes[at.boxes], page.images[at.images])

ImageIsNext == at.images <= Len(page.images) /\ ~ BoxIsNext

(* `resource` is the number of a bitmap or a font in the PDF, or 0.         *)
Operations == [kind : {"box", "image", "text"}, index : Nat \ {0}, resource : Nat]

Drawn(kind, index, resource) == [kind |-> kind, index |-> index, resource |-> resource]

DrawBox ==
  /\ stage = "drawing" /\ BoxIsNext
  /\ ops' = Append(ops, Drawn("box", at.boxes, 0))
  /\ at' = [at EXCEPT !.boxes = @ + 1]
  /\ UNCHANGED <<job, slicing, paging, stage, sheet, embedded>>

KeyBySize(bitmap) == bitmap.size

(* Which bitmaps are one: `ImageKey`, the dimensions and the buffer. *)
Key(bitmap) == <<bitmap.size, bitmap.buffer>>

IsEmbeddedAs(bitmap, id) == id \in DOMAIN embedded /\ Key(embedded[id]) = Key(bitmap)

(* A bitmap goes into the PDF the first time it is drawn; one without      *)
(* pixels is passed over.                                                  *)
DrawImage ==
  /\ stage = "drawing" /\ ImageIsNext
  /\ LET bitmap == page.images[at.images].bitmap IN
       IF bitmap.size = 0 THEN UNCHANGED <<ops, embedded>>
       ELSE \/ \E id \in DOMAIN embedded :
                 /\ IsEmbeddedAs(bitmap, id)
                 /\ ops' = Append(ops, Drawn("image", at.images, id))
                 /\ UNCHANGED embedded
            \/ /\ \A id \in DOMAIN embedded : ~ IsEmbeddedAs(bitmap, id)
               /\ ops' = Append(ops, Drawn("image", at.images, Len(embedded) + 1))
               /\ embedded' = Append(embedded, bitmap)
  /\ at' = [at EXCEPT !.images = @ + 1]
  /\ UNCHANGED <<job, slicing, paging, stage, sheet>>

FontIdsOfReadable ==
  SelectSeq([k \in DOMAIN Table |-> k], LAMBDA k : Table[k] \notin Unreadable)

(* One place per font of the table; 0 where the font could not be parsed. *)
FontIds == [k \in DOMAIN Table |-> IF Table[k] \in Unreadable THEN 0 ELSE k]

HasId(text) == text.font \in DOMAIN FontIds /\ FontIds[text.font] # 0

(* `draw_text` skips a run whose font is missing. *)
DrawText ==
  /\ stage = "drawing" /\ ~ BoxIsNext /\ ~ ImageIsNext /\ at.texts <= Len(page.texts)
  /\ ops' = IF HasId(page.texts[at.texts])
            THEN Append(ops, Drawn("text", at.texts, FontIds[page.texts[at.texts].font]))
            ELSE ops
  /\ at' = [at EXCEPT !.texts = @ + 1]
  /\ UNCHANGED <<job, slicing, paging, stage, sheet, embedded>>

NextSheet ==
  /\ stage = "drawing" /\ ~ BoxIsNext /\ ~ ImageIsNext /\ at.texts > Len(page.texts)
  /\ IF sheet < Len(pages)
     THEN /\ sheet' = sheet + 1 /\ at' = Start /\ ops' = << >>
          /\ UNCHANGED stage
     ELSE /\ stage' = "done"
          /\ UNCHANGED <<sheet, at, ops>>
  /\ UNCHANGED <<job, slicing, paging, embedded>>

Page == GiveUp \/ OpenPage \/ FileBox \/ FileText \/ FileImage \/ ClosePage
Draw == DrawBox \/ DrawImage \/ DrawText \/ NextSheet

Next == Slicing \/ Page \/ Draw

Spec == Init /\ [][Next]_vars

-----------------------------------------------------------------------------
TypeOK ==
  /\ job \in Jobs
  /\ S!TypeOK
  /\ pages \in Seq(Pages)
  /\ rest \in Pages
  /\ stage \in {"paging", "filing", "drawing", "done"}
  /\ stage = "filing" => phase = "done" /\ Len(pages) \in DOMAIN slices
  /\ IF stage \in {"drawing", "done"} THEN sheet \in DOMAIN pages ELSE sheet = 1
  /\ at \in Positions
  /\ ops \in Seq(Operations)
  /\ embedded \in Seq(Bitmaps)

(* The item an operation draws. *)
Item(op) ==
  CASE op.kind = "box" -> page.boxes[op.index]
    [] op.kind = "image" -> page.images[op.index]
    [] op.kind = "text" -> page.texts[op.index]

Under(o, p) ==
  /\ Item(o).order <= Item(p).order
  /\ Item(o).order = Item(p).order => ~ (o.kind = "image" /\ p.kind = "box")

OnlyText(list) == list.boxes = << >> /\ list.images = << >>

(* page.rs: boxes and images are "interleaved by document paint order", a  *)
(* box under an image of its order, and the texts lie over both.           *)
(* The two lists are filed and merged apart, and the merge relies on both  *)
(* being ascending: so it holds where the header and the footer bring no   *)
(* box or image of their own, whose orders start again from 0.             *)
PaintedInOrder ==
  OnlyText(header) /\ OnlyText(footer) =>
    \A k, l \in DOMAIN ops :
      k < l /\ ops[l].kind # "text" => ops[k].kind # "text" /\ Under(ops[k], ops[l])

(* Every run reaches the paper in the font it was shaped in, or its glyph  *)
(* ids would show other letters, unless that font cannot be parsed: the    *)
(* index survives the merged table, the offsets and the fonts left out.    *)
DrawnInItsFont ==
  /\ \A o \in Range(ops) : o.kind = "text" => Table[o.resource] = Item(o).glyphs
  /\ stage = "drawing" =>
       \A k \in 1 .. at.texts - 1 :
         page.texts[k].glyphs \notin Unreadable =>
           \E o \in Range(ops) : o.kind = "text" /\ o.index = k

(* The items of the document on a page, after those of header and footer.  *)
FromDocument(items, ofHeader, ofFooter) ==
  {items[k] : k \in Len(ofHeader) + Len(ofFooter) + 1 .. Len(items)}

InBand(y) == geometry.top <= y /\ y < geometry.sheet_height - geometry.bottom

(* What the document puts on a page starts between the margins: never over *)
(* the header, in the footer or off the sheet, wherever the cuts were      *)
(* pulled back to.                                                         *)
DocumentStaysInItsBand ==
  \A p \in Range(pages) :
    /\ \A box \in FromDocument(p.boxes, header.boxes, footer.boxes) : InBand(box.top)
    /\ \A image \in FromDocument(p.images, header.images, footer.images) : InBand(image.top)
    /\ \A text \in FromDocument(p.texts, header.texts, footer.texts) : InBand(text.baseline)

(* An image drawn on any page shows its own bitmap, and a bitmap shown     *)
(* many times is embedded once (pdf-out: "a header logo is not re-embedded *)
(* once per page").                                                        *)
ImagesShowTheirBitmap ==
  /\ \A o \in Range(ops) : o.kind = "image" => embedded[o.resource] = Item(o).bitmap
  /\ \A k, l \in DOMAIN embedded : embedded[k] = embedded[l] => k = l
=============================================================================
