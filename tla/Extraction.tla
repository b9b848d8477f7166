---------------------------- MODULE Extraction ----------------------------
(***************************************************************************)
(* From a parsed document to its display list (render-core/src/extract.rs, *)
(* net.rs): resources come in, the document is laid out at a height that   *)
(* is doubled until the content fits, and each attempt is walked for what  *)
(* it paints.                                                              *)
(*                                                                         *)
(* Parsing, style and layout are the blitz and parley libraries.  A        *)
(* document is what they give of it: its elements in the order of the      *)
(* tree, what each paints, and where it lies at a height and with the      *)
(* resources that have come in.  Colours, borders and glyphs are left out. *)
(*                                                                         *)
(* An item keeps the element and the layer of it that it came from, which  *)
(* the code's items do not; no action reads them.                          *)
(*                                                                         *)
(* A definition that stands before another and bears its name with an      *)
(* addition, as FontKeyOfBlob beside FontKey, is that code with a          *)
(* plausible slip.  No action uses it: it tells which property would       *)
(* notice (README, Slips).                                                 *)
(***************************************************************************)
EXTENDS Backgrounds, Functions

CONSTANTS
  Documents,
  Fetchable,      \* resources whose address is a data: URI that decodes
  InitialHeight,  \* INITIAL_HEIGHT_PX
  MaxHeight,      \* MAX_HEIGHT_PX
  Blobs,          \* font files as the layout holds them
  FileOf,         \* blob -> file: two blobs may hold one file
  Faces,          \* indices of a face in a file
  None            \* no image

(* An element `shares` in the height of the viewport, and is pushed down   *)
(* by `push` once the image `after` is there.                              *)
Runs == [blob : Blobs, face : Faces, size : Nat, baseline : Nat, glyphs : BOOLEAN]

Intervals == {i \in [from : Int, to : Int] : i.from <= i.to}

Elements ==
  [x : Intervals, y : Intervals, shares : Nat, after : Images \cup {None}, push : Nat,
   painted : BOOLEAN, layers : Seq(Layers), content : Images \cup {None}, runs : Seq(Runs)]

(* `asks` says which resources are asked for, and after which others.      *)
ASSUME ExtractionConstants ==
  /\ \A d \in Documents :
       /\ d.width \in Nat \ {0} /\ d.elements \in Seq(Elements) /\ d.reserved \in Nat
       /\ d.asks \subseteq [what : Images, after : SUBSET Images]
  /\ Fetchable \subseteq Images /\ None \notin Images
  /\ InitialHeight \in Nat \ {0} /\ MaxHeight \in Nat /\ InitialHeight <= MaxHeight
  /\ FileOf \in [Blobs -> Nat]
  /\ Faces \subseteq Nat

VARIABLES
  stage,
  document,
  height,     \* of the viewport
  collected,  \* resources resolved and not yet given to the document
  loaded,     \* resources it has
  laid,       \* the height and the resources of the last resolve
  at,         \* the element the walk has come to, the part of it and the item
  order,      \* PaintOrder
  boxes, images, texts, fonts,
  seen        \* font keys met in this walk -> place in fonts

lists == <<boxes, images, texts, fonts, seen, order>>
resources == <<collected, loaded, laid>>
extractionVars == <<stage, document, height, resources, at, lists>>

Start == [element |-> 1, part |-> 0, item |-> 0]

Forget ==
  /\ at' = Start /\ order' = 0
  /\ boxes' = << >> /\ images' = << >> /\ texts' = << >> /\ fonts' = << >> /\ seen' = << >>

(* Only what has an address the provider resolves reaches the collector,   *)
(* and blitz asks for a resource once.                                     *)
Asked(there) ==
  {a.what : a \in {b \in document.asks : b.what \in Fetchable /\ b.after \subseteq there}}
    \ (collected \cup loaded)

(* build_document.  What the parse asks for is counted with what the first *)
(* resolve asks for: nothing reads the collector in between.               *)
Build(d) ==
  /\ document' = d
  /\ collected' = {} /\ loaded' = {} /\ laid' = [height |-> 0, loaded |-> {}]
  /\ height' = InitialHeight
  /\ stage' = "laying"
  /\ Forget

(* layout_and_extract: set_viewport and the first resolve. *)
LayOut ==
  /\ stage = "laying"
  /\ laid' = [height |-> height, loaded |-> loaded]
  /\ collected' = collected \cup Asked(loaded)
  /\ stage' = "loading"
  /\ UNCHANGED <<document, height, loaded, at, lists>>

LoadInPlace ==
  /\ stage = "loading"
  /\ loaded' = loaded \cup collected
  /\ collected' = {}
  /\ stage' = "walking"
  /\ Forget
  /\ UNCHANGED <<laid, document, height>>

(* What was collected goes into the document; if anything did, a second    *)
(* resolve, which may ask for more.                                        *)
Load ==
  /\ stage = "loading"
  /\ loaded' = loaded \cup collected
  /\ collected' = IF collected = {} THEN {} ELSE Asked(loaded \cup collected)
  /\ laid' = IF collected = {} THEN laid ELSE [height |-> height, loaded |-> loaded \cup collected]
  /\ stage' = "walking"
  /\ Forget
  /\ UNCHANGED <<document, height>>

-----------------------------------------------------------------------------
(* The walk over the elements.  The parts of one are its colour, 0, its    *)
(* layers, its content and its runs of text.                               *)
element == document.elements[at.element]

Down(e) == e.shares * laid.height + IF e.after \in laid.loaded THEN e.push ELSE 0

Area(e) == [x |-> e.x, y |-> [from |-> e.y.from + Down(e), to |-> e.y.to + Down(e)]]

area == Area(element)

ContentPart(e) == Len(e.layers) + 1

ToPart(part) == at' = [at EXCEPT !.part = part, !.item = 0]

(* The layers are numbered as CSS names them, the one on top first; under  *)
(* them lies the colour, over them the content.                            *)
Source(layer) == [element |-> at.element, layer |-> layer]

PaintColour ==
  /\ stage = "walking" /\ at.element \in DOMAIN document.elements /\ at.part = 0
  /\ IF element.painted
     THEN /\ boxes' = Append(boxes, [x |-> area.x, y |-> area.y, order |-> order, source |-> Source(ContentPart(element))])
          /\ order' = order + 1
     ELSE UNCHANGED <<boxes, order>>
  /\ ToPart(1)
  /\ UNCHANGED <<document, height, resources, stage, images, texts, fonts, seen>>

LayerHereFromFirst == at.part

(* They are painted from the last one. *)
LayerHere == ContentPart(element) - at.part

layer == element.layers[LayerHere]

InLayers ==
  /\ stage = "walking" /\ at.element \in DOMAIN document.elements
  /\ at.part \in DOMAIN element.layers

TilesHere ==
  IF layer.image \in loaded /\ PaintsTiles(layer, area) THEN Tiles(Tiling(layer, area)) ELSE 0

(* A buffer is named for what allocated it: the resource, or the place of  *)
(* the walk where pixels were made.                                        *)
MadeHere(item) == <<at.element, at.part, item>>

BufferOf(image) == IF image.kind = "svg" THEN MadeHere(0) ELSE <<0, image.name, 0>>

TileBufferUncut(tiling) == BufferOf(layer.image)

(* crop_to copies the pixels it keeps; whole tiles share those of the layer. *)
TileBuffer(tiling) ==
  IF TileIsWhole(tiling, at.item) THEN BufferOf(layer.image) ELSE MadeHere(at.item + 1)

Item(x, y, image, buffer, source) ==
  [x |-> x, y |-> y, order |-> order, image |-> image, buffer |-> buffer, source |-> source]

Tile(tiling) ==
  Item(Span(tiling.x, Column(tiling, at.item)), Span(tiling.y, Row(tiling, at.item)),
       layer.image, TileBuffer(tiling), Source(LayerHere))

(* A tile takes its place in the order even if nothing of it is seen, or   *)
(* the bitmap is short of bytes.                                           *)
PaintTile ==
  /\ InLayers /\ at.item < TilesHere
  /\ \E tiling \in {Tiling(layer, area)} :
       images' = IF layer.image.sound /\ TileIsSeen(tiling, at.item)
                 THEN Append(images, Tile(tiling))
                 ELSE images
  /\ order' = order + 1
  /\ at' = [at EXCEPT !.item = @ + 1]
  /\ UNCHANGED <<document, height, resources, stage, boxes, texts, fonts, seen>>

LeaveLayer ==
  /\ InLayers /\ at.item >= TilesHere
  /\ ToPart(at.part + 1)
  /\ UNCHANGED <<document, height, resources, stage, lists>>

Whole(interval, pixels) ==
  LET unit == Greatest(1, pixels) IN
    [unit |-> unit, left |-> 0, right |-> pixels,
     from |-> unit * interval.from, to |-> unit * interval.to]

(* extract_image: bytes are not looked at, as they are for a layer. *)
ShowsContent ==
  /\ element.content \in loaded
  /\ element.content.kind = "svg" =>
       Rasterizes(element.content, Extent(area.x), Extent(area.y))

ContentItem ==
  LET image == element.content
      size == SourceSize(image, [width |-> Extent(area.x), height |-> Extent(area.y)])
  IN  Item(Whole(area.x, size.width), Whole(area.y, size.height), image, BufferOf(image), Source(0))

PaintContent ==
  /\ stage = "walking" /\ at.element \in DOMAIN document.elements
  /\ at.part = ContentPart(element)
  /\ images' = IF ShowsContent THEN Append(images, ContentItem) ELSE images
  /\ order' = order + 1
  /\ ToPart(at.part + 1)
  /\ UNCHANGED <<document, height, resources, stage, boxes, texts, fonts, seen>>

InRuns ==
  /\ stage = "walking" /\ at.element \in DOMAIN document.elements
  /\ at.part = ContentPart(element) + 1

run == element.runs[at.item + 1]

FontKeyOfBlob(r) == <<r.blob, 0>>

FontKey(r) == <<r.blob, r.face>>

Font(r) == [file |-> FileOf[r.blob], face |-> r.face]

Insert(f, key, value) == [k \in DOMAIN f \cup {key} |-> IF k = key THEN value ELSE f[k]]

(* intern_font answers `place`: the key was seen, the same file is there   *)
(* under another blob, or the font is new.                                 *)
Intern(place) ==
  \/ /\ FontKey(run) \in DOMAIN seen /\ place = seen[FontKey(run)]
     /\ UNCHANGED <<fonts, seen>>
  \/ /\ FontKey(run) \notin DOMAIN seen
     /\ place \in DOMAIN fonts /\ fonts[place] = Font(run)
     /\ \A p \in 1 .. place - 1 : fonts[p] # Font(run)
     /\ seen' = Insert(seen, FontKey(run), place)
     /\ UNCHANGED fonts
  \/ /\ FontKey(run) \notin DOMAIN seen
     /\ place = Len(fonts) + 1 /\ \A p \in DOMAIN fonts : fonts[p] # Font(run)
     /\ fonts' = Append(fonts, Font(run))
     /\ seen' = Insert(seen, FontKey(run), place)

(* A run with no glyph still leaves its font in the table. *)
ShapeRun ==
  /\ InRuns /\ at.item < Len(element.runs)
  /\ \E place \in 1 .. Len(fonts) + 1 :
       /\ Intern(place)
       /\ texts' = IF run.glyphs
                   THEN Append(texts, [baseline |-> area.y.from + run.baseline, size |-> run.size,
                                       font |-> place, shaped |-> Font(run)])
                   ELSE texts
  /\ at' = [at EXCEPT !.item = @ + 1]
  /\ UNCHANGED <<document, height, resources, stage, boxes, images, order>>

NextElement ==
  /\ InRuns /\ at.item = Len(element.runs)
  /\ at' = [Start EXCEPT !.element = at.element + 1]
  /\ UNCHANGED <<document, height, resources, stage, lists>>

-----------------------------------------------------------------------------
(* content_height: the lowest of the ends of everything painted and of     *)
(* what the root reserves.                                                 *)
Bottoms ==
  {b.y.to : b \in Range(boxes)} \cup {t.baseline : t \in Range(texts)}
    \cup {Ceil(i.y.to, i.y.unit) : i \in Range(images)}

IsContentHeight(h) ==
  /\ h \in Bottoms \cup {document.reserved}
  /\ h >= document.reserved /\ \A b \in Bottoms : b <= h

Walked == stage = "walking" /\ at.element > Len(document.elements)

IsEnoughBelowTheCap(used) == used <= height \/ height > MaxHeight

(* The content fits, or the viewport grows no more.                        *)
IsEnough(used) == used <= height \/ height >= MaxHeight

Answer ==
  /\ Walked
  /\ \E used \in Bottoms \cup {document.reserved} : IsContentHeight(used) /\ IsEnough(used)
  /\ stage' = "laid"
  /\ UNCHANGED <<document, height, resources, at, lists>>

(* The next attempt starts from the document as it is, with its resources. *)
Grow ==
  /\ Walked
  /\ \E used \in Bottoms \cup {document.reserved} : IsContentHeight(used) /\ ~ IsEnough(used)
  /\ height' = Least(2 * height, MaxHeight)
  /\ stage' = "laying"
  /\ UNCHANGED <<document, resources, at, lists>>

Extract ==
  \/ LayOut \/ Load
  \/ PaintColour \/ PaintTile \/ LeaveLayer \/ PaintContent \/ ShapeRun \/ NextElement
  \/ Answer \/ Grow

-----------------------------------------------------------------------------
Spans == [unit : Nat \ {0}, left : Int, right : Int, from : Int, to : Int]
Sources == [element : Nat, layer : Nat]
Boxes == [x : Intervals, y : Intervals, order : Nat, source : Sources]
Items ==
  [x : Spans, y : Spans, order : Nat, image : Images, buffer : Nat \X Nat \X Nat, source : Sources]
FontFiles == [file : Nat, face : Nat]
Texts == [baseline : Int, size : Nat, font : Nat \ {0}, shaped : FontFiles]

ExtractionTypeOK ==
  /\ document \in Documents
  /\ height \in Nat \ {0}
  /\ collected \subseteq Fetchable /\ loaded \subseteq Fetchable
  /\ laid \in [height : Nat, loaded : SUBSET Fetchable]
  /\ at \in [element : Nat \ {0}, part : Nat, item : Nat]
  /\ order \in Nat
  /\ boxes \in Seq(Boxes) /\ images \in Seq(Items)
  /\ texts \in Seq(Texts) /\ fonts \in Seq(FontFiles)
  /\ DOMAIN seen \subseteq Blobs \X Nat /\ Range(seen) \subseteq Nat \ {0}

Doubled[k \in Nat] == IF k = 0 THEN InitialHeight ELSE 2 * Doubled[k - 1]

Tried == {h \in InitialHeight .. height - 1 : \E k \in 0 .. h : h = Doubled[k]}

Reaches(e, h) ==
  e.y.to + e.shares * h + (IF e.after \in loaded THEN e.push ELSE 0) > h
    \/ \E r \in Range(e.runs) : e.y.from + e.shares * h + r.baseline + e.push > h

(* A list is answered for the layout of the whole document: with every     *)
(* resource the document itself asks for (extract.rs: they "invalidate the *)
(* layout"), at a height that it fits or at the cap, and at the least such *)
(* height, for at each one tried before something reached below it.        *)
(* A resource that only another one asks for, as an image named in a style *)
(* sheet of its own, may stay out: its turn would come in the next attempt. *)
AnswerFits ==
  stage = "laid" =>
    /\ laid = [height |-> height, loaded |-> loaded]
    /\ \A a \in document.asks : a.what \in Fetchable /\ a.after = {} => a.what \in loaded
    /\ height < MaxHeight => \A b \in Bottoms \cup {document.reserved} : b <= height
    /\ \A h \in Tried : document.reserved > h \/ \E e \in Range(document.elements) : Reaches(e, h)

Above(s, t) == s.element > t.element \/ (s.element = t.element /\ s.layer < t.layer)

Stacked(a, b) == a.order < b.order => ~ Above(a.source, b.source)

(* The list is what the renderers rely on, whatever was cropped away or    *)
(* left out: the orders of each list ascend and no two items share one;    *)
(* sorted by them an element lies over those before it, its content over   *)
(* its layers and these over each other as CSS says, over its colour.      *)
(* Every text names the very file and face it was shaped with, and no font *)
(* is in the table twice (extract.rs, `ImageItem::order`, `intern_font`).  *)
ListIsPaintable ==
  /\ \A k, l \in DOMAIN boxes : k < l => boxes[k].order < boxes[l].order
  /\ \A k, l \in DOMAIN images : k < l => images[k].order < images[l].order
  /\ \A b \in Range(boxes), i \in Range(images) : b.order # i.order
  /\ \A a, b \in Range(boxes) \cup Range(images) : Stacked(a, b)
  /\ \A t \in Range(texts) : t.font \in DOMAIN fonts /\ fonts[t.font] = t.shaped
  /\ \A k, l \in DOMAIN fonts : fonts[k] = fonts[l] => k = l

(* Cell c of an axis, 1/unit px wide, is shown by span s with the pixel of *)
(* the tile that lies there.                                               *)
Shows(s, c) == s.from <= c /\ c < s.to

Cells(interval, unit) == unit * interval.from .. unit * interval.to - 1

PixelAt(axis, k, c) == (c - axis.unit * TileStart(axis, k)) \div axis.tile

Keeps(s, axis, c) ==
  \E k \in FirstTile(axis) .. FirstTile(axis) + TileCount(axis) - 1 :
    PixelAt(axis, k, c) \in s.left .. s.right - 1

Within(item, interval_x, interval_y) ==
  /\ item.x.unit * interval_x.from <= item.x.from /\ item.x.to <= item.x.unit * interval_x.to
  /\ item.y.unit * interval_y.from <= item.y.from /\ item.y.to <= item.y.unit * interval_y.to

TilesSoFar ==
  {i \in Range(images) : i.source = Source(LayerHere)}

(* background.rs: "a tile that would spill past the box is cropped in      *)
(* pixels before it is emitted", so nothing of a layer leaves the box; and *)
(* once a repeating layer is through, every point of the box is covered by *)
(* exactly one tile, whose kept pixels include the one that lies there.    *)
TilesCoverTheBox ==
  InLayers =>
    /\ \A i \in TilesSoFar : Within(i, area.x, area.y)
    /\ at.item > 0 /\ at.item = TilesHere /\ layer.repeats_x /\ layer.repeats_y /\ layer.image.sound =>
         \A tiling \in {Tiling(layer, area)} :
           \A cx \in Cells(area.x, tiling.x.unit), cy \in Cells(area.y, tiling.y.unit) :
             \E i \in TilesSoFar :
               /\ Shows(i.x, cx) /\ Shows(i.y, cy)
               /\ \A j \in TilesSoFar \ {i} : ~ (Shows(j.x, cx) /\ Shows(j.y, cy))
               /\ Keeps(i.x, tiling.x, cx) /\ Keeps(i.y, tiling.y, cy)
=============================================================================
