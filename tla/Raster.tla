------------------------------ MODULE Raster ------------------------------
(***************************************************************************)
(* A display list as an image: the frame to draw (handlers/screenshot.rs,  *)
(* paginate/src/capture.rs) and the drawing and encoding of it             *)
(* (raster-out/src): boxes and bitmaps merged by paint order, the texts    *)
(* over them in groups of one font and size, and the pixels of the sheet,  *)
(* which for JPEG are compacted in the buffer they were drawn in.          *)
(*                                                                         *)
(* A page is the list with every item moved by the origin of the frame; as *)
(* nothing is discarded, the list itself is drawn here.  Clips and scales  *)
(* are integers.  What tiny-skia and swash draw is left out: an operation  *)
(* stands for the item it draws, with the pixels or the font it uses.      *)
(*                                                                         *)
(* A definition that stands before another and bears its name with an      *)
(* addition, as GroupKeyOfSize beside GroupKey, is that code with a        *)
(* plausible slip.  No action uses it: it tells which property would       *)
(* notice (README, Slips).                                                 *)
(***************************************************************************)
EXTENDS Extraction

CONSTANTS
  Captures,    \* parameters of Page.captureScreenshot, in a format supported
  Viewports,   \* heights and densities set by metrics overrides
  MaxBitmap,   \* MAX_SIDE_PX of the image
  MaxPixels,   \* bound on the pixels whose compaction is followed
  Unreadable,  \* font files swash cannot parse
  Absent       \* a parameter or a number of it not given

Numbers == Int \cup {Absent}

Clips == [x : Numbers, y : Numbers, width : Numbers, height : Numbers, scale : Numbers]

ASSUME RasterConstants ==
  /\ Captures \subseteq [format : {"png", "jpeg"}, beyond : BOOLEAN, clip : {Absent} \cup Clips]
  /\ Viewports \subseteq [height : Nat \ {0}, density : Nat \ {0}]
  /\ MaxBitmap \in Nat \ {0} /\ MaxPixels \in Nat
  /\ Absent \notin Int \cup Clips

VARIABLES
  capture, viewport,
  frame,      \* the part of the document to draw, and the scale
  next,       \* the next box, image and text
  cache,      \* buffer -> what was premultiplied under its address
  drawn,      \* what was drawn, in order
  data,       \* the bytes of the sheet: of which pixel, and which component
  compacted   \* pixels compacted

extracted == <<document, height, resources, at, lists>>
drawing == <<next, cache, drawn>>
encoding == <<data, compacted>>
rasterVars == <<capture, viewport, frame, drawing, encoding>>

Given(value, default) == IF value = Absent THEN default ELSE value

ContentHeight == CHOOSE h \in Bottoms \cup {document.reserved} : IsContentHeight(h)

MetricsHeightOfContent(v) == ContentHeight

(* getLayoutMetrics: contentSize. *)
MetricsHeight(v) == Greatest(ContentHeight, v.height)

ClipAsGiven(x, y, width, height_, scale) ==
  [x |-> x, y |-> y, width |-> width, height |-> height_, scale |-> scale]

(* paginate::clip: a sheet is never empty. *)
Clip(x, y, width, height_, scale) ==
  [x |-> x, y |-> y, width |-> Greatest(1, width), height |-> Greatest(1, height_), scale |-> scale]

(* frame_to_draw.  A clip has its own scale, and numbers it leaves out are *)
(* those of the window; otherwise the sheet is as wide as the window, and  *)
(* as tall, unless more was asked for.                                     *)
Frame(c, v) ==
  IF c.clip # Absent
  THEN Clip(Given(c.clip.x, 0), Given(c.clip.y, 0), Given(c.clip.width, document.width),
            Given(c.clip.height, v.height), Given(c.clip.scale, 1))
  ELSE [x |-> 0, y |-> 0, width |-> document.width,
        height |-> IF c.beyond THEN Greatest(Greatest(1, ContentHeight), v.height) ELSE v.height,
        scale |-> v.density]

FrameIsDrawable(f) == f.scale > 0

(* effective_scale: no side of the bitmap is over the limit. *)
BitmapSide(f, side) == ScaledSide(side, Greatest(f.width, f.height), f.scale, MaxBitmap)

ChooseFrame ==
  /\ stage = "laid"
  /\ capture' \in Captures /\ viewport' \in Viewports
  /\ frame' = Frame(capture', viewport')
  /\ stage' = IF FrameIsDrawable(frame') THEN "painting" ELSE "failed"
  /\ next' = [box |-> 1, image |-> 1, text |-> 1]
  /\ cache' = << >> /\ drawn' = << >>
  /\ UNCHANGED <<extracted, encoding>>

-----------------------------------------------------------------------------
(* painted: a box before an image of the same order. *)
BoxIsNext ==
  /\ next.box <= Len(boxes)
  /\ next.image <= Len(images) => boxes[next.box].order <= images[next.image].order

ImageIsNext == next.image <= Len(images) /\ ~ BoxIsNext

Operation(kind, index, shows) == [kind |-> kind, index |-> index, shows |-> shows]

DrawBox ==
  /\ stage = "painting" /\ BoxIsNext
  /\ drawn' = Append(drawn, Operation("box", next.box, None))
  /\ next' = [next EXCEPT !.box = @ + 1]
  /\ UNCHANGED <<stage, extracted, capture, viewport, frame, cache, encoding>>

(* The pixels an item carries. *)
Picture(i) ==
  [image |-> i.image,
   columns |-> <<i.x.unit, i.x.left, i.x.right>>, rows |-> <<i.y.unit, i.y.left, i.y.right>>]

HasPixels(i) == i.x.left < i.x.right /\ i.y.left < i.y.right /\ i.image.sound

HasPlace(i) == i.x.from < i.x.to /\ i.y.from < i.y.to

(* draw_image: pixels are premultiplied once per buffer, whatever is said  *)
(* of them by the item that comes later.                                   *)
DrawImage ==
  /\ stage = "painting" /\ ImageIsNext
  /\ LET i == images[next.image]
         known == i.buffer \in DOMAIN cache
         shows == IF known THEN cache[i.buffer] ELSE Picture(i)
     IN  /\ cache' = IF HasPixels(i) /\ ~ known THEN Insert(cache, i.buffer, shows) ELSE cache
         /\ drawn' = IF HasPixels(i) /\ HasPlace(i)
                     THEN Append(drawn, Operation("image", next.image, shows))
                     ELSE drawn
  /\ next' = [next EXCEPT !.image = @ + 1]
  /\ UNCHANGED <<stage, extracted, capture, viewport, frame, encoding>>

GroupKeyOfSize(t) == t.size

GroupKey(t) == <<t.font, t.size>>

(* draw_texts: the runs up to `last` are drawn with one scaler, which is   *)
(* made for the first of them.                                             *)
IsGroup(first, last) ==
  /\ \A k \in first .. last : GroupKey(texts[k]) = GroupKey(texts[first])
  /\ last < Len(texts) => GroupKey(texts[last + 1]) # GroupKey(texts[first])

Scaler(t) == [font |-> fonts[t.font], size |-> t.size]

IsReadable(t) == t.shaped.file \notin Unreadable /\ t.size > 0

DrawGroup ==
  /\ stage = "painting" /\ ~ BoxIsNext /\ ~ ImageIsNext
  /\ \E last \in next.text .. Len(texts) :
       /\ IsGroup(next.text, last)
       /\ drawn' = IF Scaler(texts[next.text]).font.file \in Unreadable \/ texts[next.text].size = 0
                   THEN drawn
                   ELSE drawn \o [k \in 1 .. last - next.text + 1 |->
                                    Operation("text", next.text + k - 1, Scaler(texts[next.text]))]
       /\ next' = [next EXCEPT !.text = last + 1]
  /\ UNCHANGED <<stage, extracted, capture, viewport, frame, cache, encoding>>

-----------------------------------------------------------------------------
Pixels == Least(BitmapSide(frame, frame.width) * BitmapSide(frame, frame.height), MaxPixels)

Byte(b, width) == [pixel |-> b \div width, component |-> b % width]

(* The sheet is opaque from the start, so that taking the alpha out of the *)
(* colours leaves them as they are.                                        *)
Encode ==
  /\ stage = "painting" /\ ~ BoxIsNext /\ ~ ImageIsNext /\ next.text > Len(texts)
  /\ data' = [b \in 0 .. 4 * Pixels - 1 |-> Byte(b, 4)]
  /\ compacted' = 0
  /\ stage' = IF capture.format = "png" THEN "done" ELSE "encoding"
  /\ UNCHANGED <<extracted, capture, viewport, frame, drawing>>

PixelFromTheEnd == Pixels - 1 - compacted

(* render_jpeg: RGBA to RGB over the same bytes, one pixel a step. *)
Pixel == compacted

Compact ==
  /\ stage = "encoding" /\ compacted < Pixels
  /\ data' = [b \in DOMAIN data |->
                IF b \in 3 * Pixel .. 3 * Pixel + 2 THEN data[b + Pixel] ELSE data[b]]
  /\ compacted' = compacted + 1
  /\ UNCHANGED <<stage, extracted, capture, viewport, frame, drawing>>

Deliver ==
  /\ stage = "encoding" /\ compacted = Pixels
  /\ stage' = "done"
  /\ UNCHANGED <<extracted, capture, viewport, frame, drawing, encoding>>

Rasterize == ChooseFrame \/ DrawBox \/ DrawImage \/ DrawGroup \/ Encode \/ Compact \/ Deliver

-----------------------------------------------------------------------------
Frames == [x : Int, y : Int, width : Nat \ {0}, height : Nat \ {0}, scale : Int]

RasterTypeOK ==
  /\ capture \in Captures /\ viewport \in Viewports
  /\ frame \in Frames
  /\ next \in [box : Nat \ {0}, image : Nat \ {0}, text : Nat \ {0}]
  /\ DOMAIN cache \subseteq Nat \X Nat \X Nat
  /\ \A k \in DOMAIN drawn : drawn[k].kind \in {"box", "image", "text"} /\ drawn[k].index \in Nat \ {0}
  /\ compacted \in 0 .. MaxPixels
  /\ data \in [DOMAIN data -> [pixel : Nat, component : Nat]]

OrderOf(o) == IF o.kind = "box" THEN boxes[o.index].order ELSE images[o.index].order

(* The picture is the list: boxes and bitmaps in paint order and the texts *)
(* over them, an image with its own pixels though many items share buffers *)
(* and a cache goes by their address (canvas.rs: "Keyed by the address of  *)
(* the shared buffer"), a text with the font and size it was shaped in     *)
(* though runs are drawn in groups, and nothing left out but what has no   *)
(* pixels, no place or no readable font.                                   *)
DrawnAsExtracted ==
  /\ \A k, l \in DOMAIN drawn : k < l /\ drawn[l].kind # "text" =>
       drawn[k].kind # "text" /\ OrderOf(drawn[k]) < OrderOf(drawn[l])
  /\ \A o \in Range(drawn) :
       /\ o.kind = "image" => o.shows = Picture(images[o.index])
       /\ o.kind = "text" => o.shows = [font |-> texts[o.index].shaped, size |-> texts[o.index].size]
  /\ stage \in {"encoding", "done"} =>
       LET Drawn(kind) == {o.index : o \in {p \in Range(drawn) : p.kind = kind}} IN
         /\ Drawn("box") = DOMAIN boxes
         /\ Drawn("image") = {k \in DOMAIN images : HasPixels(images[k]) /\ HasPlace(images[k])}
         /\ Drawn("text") = {k \in DOMAIN texts : IsReadable(texts[k])}

(* encode.rs: "The compaction reads ahead of where it writes (4 bytes per  *)
(* pixel against 3), so one pass is safe": the bytes compacted are the     *)
(* colours of their pixels, and those to come are still as they were.      *)
PixelsAreKept ==
  stage = "encoding" =>
    /\ \A b \in 0 .. 3 * compacted - 1 : data[b] = Byte(b, 3)
    /\ \A b \in 4 * compacted .. 4 * Pixels - 1 : data[b] = Byte(b, 4)

FullPage(v) ==
  [format |-> "png", beyond |-> TRUE,
   clip |-> [x |-> 0, y |-> 0, width |-> document.width, height |-> MetricsHeight(v), scale |-> Absent]]

(* A client makes the picture of the whole page with captureBeyondViewport *)
(* or with the clip it builds of getLayoutMetrics (screenshot.rs:          *)
(* "Puppeteer uses this to build the clip of a full-page screenshot"): in  *)
(* a window of single density both draw the same frame.                    *)
FullPageEitherWay ==
  stage = "laid" =>
    \A v \in Viewports : v.density = 1 =>
      Frame(FullPage(v), v) = Frame([FullPage(v) EXCEPT !.clip = Absent], v)
=============================================================================
