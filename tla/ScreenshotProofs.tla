-------------------------- MODULE ScreenshotProofs --------------------------
(***************************************************************************)
(* What one picture goes through, whatever the text, the document and the  *)
(* command: it keeps its types (the numbers the painting computes stay     *)
(* numbers, and no index leaves its list), the list it is drawn from can   *)
(* be painted, the picture is the list, the SVG in the text was replaced   *)
(* element by element, the list was answered for the layout it is of, the  *)
(* tiles of a background cover its box, and every step leaves less to do.  *)
(***************************************************************************)
EXTENDS Screenshot, FiniteSetTheorems, SequenceTheorems, WellFoundedInduction, TLAPS

-----------------------------------------------------------------------------
(* The rewriting of inline SVG.                                            *)
Pieces == [kind : {"text", "img"}, from : Nat, to : Nat]

LEMMA SvgInitTypes == SvgInit => SvgTypeOK
<1> SUFFICES ASSUME SvgInit PROVE SvgTypeOK
  OBVIOUS
<1>1. html \in Seq(Tokens) /\ << >> \in Seq(Pieces)
  BY SvgConstants DEF SvgInit
<1>2. Len(html) \in Nat
  BY <1>1
<1> QED
  BY <1>1, <1>2 DEF SvgInit, SvgTypeOK, Pieces

LEMMA PieceAdded ==
  ASSUME SvgTypeOK, NEW kind \in {"text", "img"}, NEW from \in Nat, NEW to \in Nat,
         pieces' = Append(pieces, Piece(kind, from, to))
  PROVE  pieces' \in Seq(Pieces)
<1>1. Piece(kind, from, to) \in Pieces
  BY DEF Piece, Pieces
<1> QED
  BY <1>1, AppendProperties DEF SvgTypeOK, Pieces

LEMMA SvgNextTypes == SvgTypeOK /\ SvgNext => SvgTypeOK'
<1> SUFFICES ASSUME SvgTypeOK, SvgNext PROVE SvgTypeOK'
  OBVIOUS
<1>1. /\ html \in Seq(Tokens) /\ Len(html) \in Nat
      /\ rest \in 1 .. Len(html) + 1 /\ token \in 1 .. Len(html) + 1 /\ depth \in Nat
      /\ rest \in Nat /\ token \in Nat /\ pieces \in Seq(Pieces)
  BY DEF SvgTypeOK, Pieces
<1>2. CASE Seek
  <2>1. PICK p \in rest .. Len(html) :
          pieces' = Append(pieces, Piece("text", rest, p - 1)) /\ rest' = p /\ token' = p
    BY <1>2 DEF Seek
  <2>2. p \in 1 .. Len(html) + 1 /\ p - 1 \in Nat
    BY <1>1
  <2>3. pieces' \in Seq(Pieces)
    BY <1>1, <2>1, <2>2, PieceAdded
  <2> QED
    BY <1>1, <1>2, <2>1, <2>2, <2>3 DEF Seek, SvgTypeOK, Pieces
<1>3. ASSUME CopyTheRest PROVE SvgTypeOK'
  <2>1. pieces' \in Seq(Pieces)
    BY <1>1, <1>3, PieceAdded DEF CopyTheRest
  <2> QED
    BY <1>1, <1>3, <2>1 DEF CopyTheRest, SvgTypeOK, Pieces
<1>4. ASSUME Replace, token <= Len(html) PROVE SvgTypeOK'
  <2>1. pieces' \in Seq(Pieces)
    BY <1>1, <1>4, PieceAdded DEF Replace
  <2>2. token + 1 \in 1 .. Len(html) + 1
    BY <1>1, <1>4
  <2> QED
    BY <1>1, <1>4, <2>1, <2>2 DEF Replace, SvgTypeOK, Pieces
<1>5. ASSUME NEW level \in Nat, Advance(level), token <= Len(html) PROVE SvgTypeOK'
  <2>1. token + 1 \in 1 .. Len(html) + 1
    BY <1>1, <1>5
  <2> QED
    BY <1>1, <1>5, <2>1 DEF Advance, SvgTypeOK
<1>6. CASE SeekInVain
  BY <1>3, <1>6 DEF SeekInVain
<1>7. CASE Enter \/ PassSingle \/ Leave \/ Skip
  <2>1. token <= Len(html)
    BY <1>7 DEF Enter, PassSingle, Leave, Skip, Measuring
  <2>2. depth + 1 \in Nat /\ (~ (depth <= 1) => depth - 1 \in Nat)
    BY <1>1
  <2> QED
    BY <1>1, <1>4, <1>5, <1>7, <2>1, <2>2 DEF Enter, PassSingle, Leave, Skip
<1>8. CASE SliceInside
  BY <1>1, <1>8 DEF SliceInside, SvgTypeOK, Pieces
<1>9. CASE MeasureInVain
  BY <1>3, <1>9 DEF MeasureInVain
<1> QED
  BY <1>2, <1>6, <1>7, <1>8, <1>9 DEF SvgNext

-----------------------------------------------------------------------------
(* Painting behind a box computes integers.                                *)
LEMMA ScaledSideType ==
  ASSUME NEW side \in Int, NEW longest \in Int, NEW scale \in Int, NEW limit \in Int, longest > 0
  PROVE  ScaledSide(side, longest, scale, limit) \in Nat \ {0}
<1>1. scale * longest \in Int /\ scale * side \in Int /\ 2 * side * limit + longest \in Int
  OBVIOUS
<1>2. 2 * longest \in Int /\ 2 * longest > 0
  OBVIOUS
<1>3. (2 * side * limit + longest) \div (2 * longest) \in Int
  BY <1>1, <1>2
<1>4. ASSUME NEW n \in Int PROVE Greatest(1, n) \in Nat \ {0}
  BY DEF Greatest
<1> QED
  BY <1>1, <1>3, <1>4 DEF ScaledSide

LEMMA RasterSizeType ==
  ASSUME NEW width \in Int, NEW height_ \in Int, width > 0, height_ > 0
  PROVE  RasterSize(width, height_) \in [width : Nat \ {0}, height : Nat \ {0}]
<1>1. Greatest(width, height_) \in Int /\ Greatest(width, height_) > 0
  BY DEF Greatest
<1>2. Supersample \in Int /\ MaxSide \in Int
  BY BackgroundConstants
<1> QED
  BY <1>1, <1>2, ScaledSideType DEF RasterSize

Axes ==
  [from : Int, to : Int, tile : Nat \ {0}, repeats : BOOLEAN, unit : Nat \ {0}, origin : Int]

LEMMA AxisType ==
  ASSUME NEW interval \in Intervals, NEW position \in Positions, NEW tile \in Nat \ {0},
         NEW repeats \in BOOLEAN, NEW unit \in Nat \ {0}
  PROVE  Axis(interval, position, tile, repeats, unit) \in Axes
<1>1. interval.from \in Int /\ interval.to \in Int /\ position.length \in Int /\ position.percent \in Int
  BY DEF Intervals, Positions
<1>2. position.percent * (Extent(interval) - tile) \in Int
  BY <1>1 DEF Extent
<1>3. interval.from + position.length
        + (position.percent * (Extent(interval) - tile)) \div 100 \in Int
  BY <1>1, <1>2
<1> QED
  BY <1>1, <1>3 DEF Axis, Axes

LEMMA FirstTileType == ASSUME NEW axis \in Axes PROVE FirstTile(axis) \in Int
<1>1. axis.from \in Int /\ axis.origin \in Int /\ axis.tile \in Nat \ {0}
  BY DEF Axes
<1>2. (axis.from - axis.origin) \div axis.tile \in Int
  BY <1>1
<1> QED
  BY <1>2 DEF FirstTile

LEMMA CeilType == ASSUME NEW a \in Int, NEW b \in Nat \ {0} PROVE Ceil(a, b) \in Int
  BY DEF Ceil

LEMMA TileCountType == ASSUME NEW axis \in Axes PROVE TileCount(axis) \in Nat \ {0}
<1>1. axis.to \in Int /\ axis.origin \in Int /\ axis.tile \in Nat \ {0}
  BY DEF Axes
<1>2. Ceil(axis.to - axis.origin, axis.tile) \in Int /\ FirstTile(axis) \in Int
  BY <1>1, CeilType, FirstTileType
<1> QED
  BY <1>2 DEF TileCount, Greatest

(* What a crop keeps of a tile lies in it and is not empty.                *)
LEMMA SpanType ==
  ASSUME NEW axis \in Axes, NEW k \in Int
  PROVE  /\ Span(axis, k) \in Spans
         /\ 0 <= Span(axis, k).left /\ Span(axis, k).left < Span(axis, k).right
         /\ Span(axis, k).right <= axis.unit /\ Span(axis, k).unit = axis.unit
<1>1. /\ axis.from \in Int /\ axis.to \in Int /\ axis.origin \in Int
      /\ axis.tile \in Nat \ {0} /\ axis.unit \in Nat \ {0}
  BY DEF Axes
<1> DEFINE start == TileStart(axis, k)
           first == SeenFrom(axis, k)
           last == SeenTo(axis, k)
<1>2. start \in Int
  BY <1>1 DEF TileStart
<1>3. first \in Int /\ last \in Int
  BY <1>1, <1>2 DEF SeenFrom, SeenTo, Greatest, Least
<1> HIDE DEF start, first, last
<1>4. ((first - start) * axis.unit) \div axis.tile \in Int /\ Ceil((last - start) * axis.unit, axis.tile) \in Int
  BY <1>1, <1>2, <1>3, CeilType
<1>5. ASSUME NEW n \in Int, NEW low \in Int, NEW high \in Int, low <= high
      PROVE  Clamp(n, low, high) \in Int /\ low <= Clamp(n, low, high) /\ Clamp(n, low, high) <= high
  BY <1>5 DEF Clamp, Greatest, Least
<1> DEFINE left == LeftPx(axis, k)
           right == RightPx(axis, k)
<1>6. left \in Int /\ 0 <= left /\ left <= axis.unit - 1
  <2>1. 0 \in Int /\ axis.unit - 1 \in Int /\ 0 <= axis.unit - 1
    BY <1>1
  <2>2. left = Clamp(((first - start) * axis.unit) \div axis.tile, 0, axis.unit - 1)
    BY DEF LeftPx, start, first
  <2> HIDE DEF left
  <2> QED
    BY <1>4, <1>5, <2>1, <2>2
<1> HIDE DEF left
<1>7. right \in Int /\ left + 1 <= right /\ right <= axis.unit
  <2>1. left + 1 \in Int /\ axis.unit \in Int /\ left + 1 <= axis.unit
    BY <1>1, <1>6
  <2>2. right = Clamp(Ceil((last - start) * axis.unit, axis.tile), left + 1, axis.unit)
    BY DEF RightPx, start, last, left
  <2> HIDE DEF right
  <2> QED
    BY <1>4, <1>5, <2>1, <2>2
<1> HIDE DEF right
<1>8. /\ axis.unit * start + left * axis.tile \in Int /\ axis.unit * axis.from \in Int
      /\ axis.unit * start + right * axis.tile \in Int /\ axis.unit * axis.to \in Int
  BY <1>1, <1>2, <1>6, <1>7
<1>9. /\ Greatest(axis.unit * start + left * axis.tile, axis.unit * axis.from) \in Int
      /\ Least(axis.unit * start + right * axis.tile, axis.unit * axis.to) \in Int
  BY <1>8 DEF Greatest, Least
<1> QED
  BY <1>1, <1>6, <1>7, <1>9 DEF Span, Spans, start, left, right

Areas == [x : Intervals, y : Intervals]

LEMMA ExtentType == ASSUME NEW interval \in Intervals PROVE Extent(interval) \in Nat
  BY DEF Extent, Intervals

LEMMA ImageType ==
  ASSUME NEW image \in Images
  PROVE  /\ image.name \in Nat /\ image.width \in Nat /\ image.height \in Nat
         /\ image.kind \in {"raster", "svg"} /\ image.sound \in BOOLEAN
  BY BackgroundConstants DEF ImageData

LEMMA TileSizeType ==
  ASSUME NEW l \in Layers, NEW ar \in Areas, HasIntrinsicSize(l.image)
  PROVE  TileSize(l, ar).width \in Int /\ TileSize(l, ar).height \in Int
<1> DEFINE image == l.image
           size == l.size
<1>1. image \in Images /\ size \in Sizes
  BY DEF Layers
<1>2. image.width \in Nat \ {0} /\ image.height \in Nat \ {0}
  BY <1>1, ImageType DEF HasIntrinsicSize
<1>3. Extent(ar.x) \in Nat /\ Extent(ar.y) \in Nat
  BY ExtentType DEF Areas
<1> HIDE DEF image, size
<1>4. CASE size.kind = "explicit"
  <2>1. size.width \in Nat \cup {AutoLength} /\ size.height \in Nat \cup {AutoLength}
    <3>1. size \in [kind : {"explicit"}, width : Nat \cup {AutoLength}, height : Nat \cup {AutoLength}]
      BY <1>1, <1>4 DEF Sizes
    <3> QED
      BY <3>1
  <2>2. size.height \in Nat => (size.height * image.width) \div image.height \in Int
    BY <1>2
  <2>3. size.width \in Nat => (size.width * image.height) \div image.width \in Int
    BY <1>2
  <2>4. TileSize(l, ar) = GivenSize(size, image)
    BY <1>4 DEF TileSize, size, image
  <2>5. /\ GivenSize(size, image).width \in Int
        /\ GivenSize(size, image).height \in Int
    <3> DEFINE w == IF size.width # AutoLength THEN size.width
                    ELSE IF size.height = AutoLength THEN image.width
                    ELSE (size.height * image.width) \div image.height
               h == IF size.height # AutoLength THEN size.height
                    ELSE IF size.width = AutoLength THEN image.height
                    ELSE (size.width * image.height) \div image.width
    <3>1. w \in Int
      BY <1>2, <2>1, <2>2
    <3>2. h \in Int
      BY <1>2, <2>1, <2>3
    <3>3. GivenSize(size, image) = [width |-> w, height |-> h]
      BY Zenon DEF GivenSize
    <3> HIDE DEF w, h
    <3> QED
      BY <3>1, <3>2, <3>3
  <2> QED
    BY <2>4, <2>5
<1>5. CASE size.kind # "explicit"
  <2>1. /\ (image.height * Extent(ar.x)) \div image.width \in Int
        /\ (image.width * Extent(ar.y)) \div image.height \in Int
    BY <1>2, <1>3
  <2> QED
    <3> DEFINE high == [width |-> Extent(ar.x), height |-> (image.height * Extent(ar.x)) \div image.width]
               wide == [width |-> (image.width * Extent(ar.y)) \div image.height, height |-> Extent(ar.y)]
    <3>1. TileSize(l, ar) = IF (size.kind = "cover") <=> Fills(image, ar) THEN high ELSE wide
      BY <1>5 DEF TileSize, size, image
    <3>2. high.width \in Int /\ high.height \in Int /\ wide.width \in Int /\ wide.height \in Int
      BY <1>3, <2>1
    <3> HIDE DEF high, wide
    <3>3. TileSize(l, ar) = high \/ TileSize(l, ar) = wide
      BY <3>1
    <3> QED
      BY <3>2, <3>3
<1> QED
  BY <1>4, <1>5

LEMMA TilingType ==
  ASSUME NEW l \in Layers, NEW ar \in Areas, PaintsTiles(l, ar)
  PROVE  Tiling(l, ar).x \in Axes /\ Tiling(l, ar).y \in Axes
<1> DEFINE tile == TileSize(l, ar)
           source == SourceSize(l.image, tile)
<1>1. HasIntrinsicSize(l.image) /\ tile.width > 0 /\ tile.height > 0 /\ l.image \in Images
  BY DEF PaintsTiles, Layers
<1>2. tile.width \in Nat \ {0} /\ tile.height \in Nat \ {0}
  BY <1>1, TileSizeType
<1> HIDE DEF tile
<1>3. source.width \in Nat \ {0} /\ source.height \in Nat \ {0}
  <2>1. RasterSize(tile.width, tile.height) \in [width : Nat \ {0}, height : Nat \ {0}]
    BY <1>2, RasterSizeType
  <2> QED
    BY <1>1, <2>1, ImageType DEF SourceSize, HasIntrinsicSize
<1> HIDE DEF source
<1>4. /\ l.position_x \in Positions /\ l.position_y \in Positions
      /\ l.repeats_x \in BOOLEAN /\ l.repeats_y \in BOOLEAN
      /\ ar.x \in Intervals /\ ar.y \in Intervals
  BY DEF Layers, Areas
<1>5. /\ Axis(ar.x, l.position_x, tile.width, l.repeats_x, source.width) \in Axes
      /\ Axis(ar.y, l.position_y, tile.height, l.repeats_y, source.height) \in Axes
  BY <1>2, <1>3, <1>4, AxisType
<1> QED
  BY <1>5 DEF Tiling, tile, source

LEMMA CellType ==
  ASSUME NEW tiling, tiling.x \in Axes, tiling.y \in Axes, NEW n \in Nat
  PROVE  Column(tiling, n) \in Int /\ Row(tiling, n) \in Int
<1>1. FirstTile(tiling.x) \in Int /\ FirstTile(tiling.y) \in Int /\ TileCount(tiling.x) \in Nat \ {0}
  BY FirstTileType, TileCountType
<1>2. n % TileCount(tiling.x) \in Int /\ n \div TileCount(tiling.x) \in Int
  BY <1>1
<1> QED
  BY <1>1, <1>2 DEF Column, Row

-----------------------------------------------------------------------------
(* The walk.                                                               *)
LEMMA ElementType ==
  ASSUME ExtractionTypeOK, at.element \in DOMAIN document.elements
  PROVE  /\ element \in Elements
         /\ element.layers \in Seq(Layers) /\ element.runs \in Seq(Runs)
         /\ element.content \in Images \cup {None}
         /\ Len(element.layers) \in Nat /\ ContentPart(element) \in Nat \ {0}
         /\ area \in Areas
<1>1. document.elements \in Seq(Elements)
  BY ExtractionConstants DEF ExtractionTypeOK
<1>2. element \in Elements
  BY <1>1 DEF element
<1>3. /\ element.layers \in Seq(Layers) /\ element.runs \in Seq(Runs)
      /\ element.content \in Images \cup {None}
      /\ element.x \in Intervals /\ element.y \in Intervals
      /\ element.shares \in Nat /\ element.push \in Nat
  BY <1>2 DEF Elements
<1>4. Len(element.layers) \in Nat
  BY <1>3
<1>5. Down(element) \in Int
  <2>1. laid.height \in Nat
    BY DEF ExtractionTypeOK
  <2>2. element.shares * laid.height \in Int
    BY <1>3, <2>1
  <2> QED
    BY <1>3, <2>2 DEF Down
<1>6. area \in Areas
  <2>1. /\ element.y.from \in Int /\ element.y.to \in Int /\ element.y.from <= element.y.to
    BY <1>3 DEF Intervals
  <2>2. [from |-> element.y.from + Down(element), to |-> element.y.to + Down(element)] \in Intervals
    BY <1>5, <2>1 DEF Intervals
  <2> QED
    BY <1>3, <2>2 DEF area, Area, Areas
<1> QED
  BY <1>2, <1>3, <1>4, <1>6 DEF ContentPart

Places == [element : Nat \ {0}, part : Nat, item : Nat]

LEMMA WalkTypes ==
  ASSUME ExtractionTypeOK
  PROVE  /\ at.element \in Nat \ {0} /\ at.part \in Nat /\ at.item \in Nat
         /\ \A part \in Nat : ToPart(part) => at' \in Places
         /\ at' = [at EXCEPT !.item = @ + 1] => at' \in Places
         /\ order \in Nat /\ order + 1 \in Nat
<1>1. at \in Places /\ order \in Nat
  BY DEF ExtractionTypeOK, Places
<1>2. ASSUME NEW part \in Nat, ToPart(part) PROVE at' \in Places
  BY <1>1, <1>2 DEF ToPart, Places
<1>3. ASSUME at' = [at EXCEPT !.item = @ + 1] PROVE at' \in Places
  BY <1>1, <1>3 DEF Places
<1> QED
  BY <1>1, <1>2, <1>3 DEF Places

LEMMA ColourTypes ==
  ASSUME ExtractionTypeOK, PaintColour
  PROVE  ExtractionTypeOK'
<1>1. at.element \in DOMAIN document.elements /\ at.part = 0
  BY DEF PaintColour
<1>2. area.x \in Intervals /\ area.y \in Intervals /\ ContentPart(element) \in Nat
  BY <1>1, ElementType DEF Areas
<1> DEFINE box == [x |-> area.x, y |-> area.y, order |-> order, source |-> Source(ContentPart(element))]
<1>3. box \in Boxes
  <2>1. Source(ContentPart(element)) \in Sources
    BY <1>2, WalkTypes DEF Source, Sources
  <2> QED
    BY <1>2, <2>1 DEF Boxes, ExtractionTypeOK
<1>4. boxes' \in Seq(Boxes) /\ order' \in Nat
  <2>1. Append(boxes, box) \in Seq(Boxes)
    BY <1>3, AppendProperties DEF ExtractionTypeOK
  <2> QED
    BY <2>1, WalkTypes DEF PaintColour, ExtractionTypeOK
<1>5. at' \in Places
  BY WalkTypes DEF PaintColour
<1> QED
  BY <1>4, <1>5 DEF PaintColour, ExtractionTypeOK, resources, Places

LEMMA ItemAdded ==
  ASSUME ExtractionTypeOK, NEW i \in Items, images' = Append(images, i)
  PROVE  images' \in Seq(Items)
  BY AppendProperties DEF ExtractionTypeOK

LEMMA LayerTypes ==
  ASSUME ExtractionTypeOK, InLayers
  PROVE  /\ at.element \in DOMAIN document.elements /\ at.part \in Nat \ {0}
         /\ layer \in Layers /\ layer.image \in Images /\ area \in Areas
         /\ LayerHere \in Nat \ {0} /\ LayerHere \in DOMAIN element.layers
<1>1. at.element \in DOMAIN document.elements /\ at.part \in DOMAIN element.layers
  BY DEF InLayers
<1>2. element.layers \in Seq(Layers) /\ Len(element.layers) \in Nat /\ area \in Areas
  BY <1>1, ElementType
<1>3. at.part \in 1 .. Len(element.layers)
  BY <1>1, <1>2
<1>4. LayerHere \in 1 .. Len(element.layers)
  BY <1>2, <1>3 DEF LayerHere, ContentPart
<1>5. layer \in Layers
  BY <1>2, <1>4, ElementOfSeq DEF layer
<1>6. layer.image \in Images
  BY <1>5 DEF Layers
<1> QED
  BY <1>1, <1>2, <1>3, <1>4, <1>5, <1>6

LEMMA BufferTypes ==
  ASSUME ExtractionTypeOK, NEW image \in Images
  PROVE  /\ BufferOf(image) \in Nat \X Nat \X Nat
         /\ \A n \in Nat : MadeHere(n) \in Nat \X Nat \X Nat
<1>1. \A n \in Nat : MadeHere(n) \in Nat \X Nat \X Nat
  BY WalkTypes DEF MadeHere
<1>2. <<0, image.name, 0>> \in Nat \X Nat \X Nat
  BY ImageType
<1> QED
  BY <1>1, <1>2 DEF BufferOf

LEMMA ItemType ==
  ASSUME ExtractionTypeOK, NEW x \in Spans, NEW y \in Spans, NEW image \in Images,
         NEW buffer \in Nat \X Nat \X Nat, NEW source \in Sources
  PROVE  Item(x, y, image, buffer, source) \in Items
  BY WalkTypes DEF Item, Items

(* A tile is taken of a layer that paints.                                 *)
LEMMA TileTypes ==
  ASSUME ExtractionTypeOK, InLayers, at.item < TilesHere
  PROVE  /\ PaintsTiles(layer, area) /\ layer.image \in loaded
         /\ Tile(Tiling(layer, area)) \in Items
<1>1. /\ layer \in Layers /\ layer.image \in Images /\ area \in Areas /\ LayerHere \in Nat
      /\ at.item \in Nat /\ at.element \in Nat
  BY LayerTypes, WalkTypes
<1>2. PaintsTiles(layer, area) /\ layer.image \in loaded
  BY <1>1 DEF TilesHere
<1> DEFINE tiling == Tiling(layer, area)
<1>3. tiling.x \in Axes /\ tiling.y \in Axes
  BY <1>1, <1>2, TilingType
<1>4. Source(LayerHere) \in Sources
  BY <1>1 DEF Source, Sources
<1> HIDE DEF tiling
<1>5. Span(tiling.x, Column(tiling, at.item)) \in Spans /\ Span(tiling.y, Row(tiling, at.item)) \in Spans
  <2>1. Column(tiling, at.item) \in Int /\ Row(tiling, at.item) \in Int
    BY <1>1, <1>3, CellType
  <2> QED
    BY <1>3, <2>1, SpanType
<1>6. TileBuffer(tiling) \in Nat \X Nat \X Nat
  <2>1. at.item + 1 \in Nat
    BY <1>1
  <2> QED
    BY <1>1, <2>1, BufferTypes DEF TileBuffer
<1>7. Tile(tiling) \in Items
  BY <1>1, <1>4, <1>5, <1>6, ItemType DEF Tile
<1> QED
  BY <1>2, <1>7 DEF tiling

LEMMA TilePainted ==
  ASSUME ExtractionTypeOK, PaintTile
  PROVE  ExtractionTypeOK'
<1>1. /\ InLayers /\ at.item < TilesHere
      /\ images' = IF layer.image.sound /\ TileIsSeen(Tiling(layer, area), at.item)
                   THEN Append(images, Tile(Tiling(layer, area))) ELSE images
  BY DEF PaintTile
<1>2. images' \in Seq(Items)
  BY <1>1, TileTypes, ItemAdded DEF ExtractionTypeOK
<1>3. at' \in Places /\ order' \in Nat
  BY WalkTypes DEF PaintTile
<1> QED
  BY <1>2, <1>3 DEF PaintTile, ExtractionTypeOK, resources, Places

LEMMA LayerLeft ==
  ASSUME ExtractionTypeOK, LeaveLayer
  PROVE  ExtractionTypeOK'
<1>1. at' \in Places
  BY WalkTypes DEF LeaveLayer
<1> QED
  BY <1>1 DEF LeaveLayer, ExtractionTypeOK, resources, lists, Places

LEMMA ContentTypes ==
  ASSUME ExtractionTypeOK, at.element \in DOMAIN document.elements, ShowsContent
  PROVE  element.content \in Images /\ ContentItem \in Items
<1> DEFINE image == element.content
           box == [width |-> Extent(area.x), height |-> Extent(area.y)]
           size == SourceSize(image, box)
<1>1. image \in Images
  BY ExtractionConstants DEF ShowsContent, ExtractionTypeOK
<1>2. area \in Areas /\ area.x \in Intervals /\ area.y \in Intervals
  BY ElementType DEF Areas
<1>3. Extent(area.x) \in Nat /\ Extent(area.y) \in Nat
  BY <1>2, ExtentType
<1>4. size.width \in Nat /\ size.height \in Nat
  <2>1. CASE image.kind = "svg"
    <3>1. Extent(area.x) > 0 /\ Extent(area.y) > 0
      BY <2>1 DEF ShowsContent, Rasterizes
    <3>2. RasterSize(Extent(area.x), Extent(area.y)) \in [width : Nat \ {0}, height : Nat \ {0}]
      BY <1>3, <3>1, RasterSizeType
    <3> QED
      BY <2>1, <3>2 DEF SourceSize
  <2>2. CASE image.kind # "svg"
    BY <1>1, <2>2, ImageType DEF SourceSize
  <2> QED
    BY <2>1, <2>2
<1>5. ASSUME NEW interval \in Intervals, NEW pixels \in Nat PROVE Whole(interval, pixels) \in Spans
  <2>1. interval.from \in Int /\ interval.to \in Int
    BY DEF Intervals
  <2>2. Greatest(1, pixels) \in Nat \ {0}
    BY DEF Greatest
  <2>3. Greatest(1, pixels) * interval.from \in Int /\ Greatest(1, pixels) * interval.to \in Int
    BY <2>1, <2>2
  <2> QED
    BY <2>2, <2>3 DEF Whole, Spans
<1>6. BufferOf(image) \in Nat \X Nat \X Nat /\ Source(0) \in Sources
  BY <1>1, BufferTypes, WalkTypes DEF Source, Sources
<1>7. ContentItem = Item(Whole(area.x, size.width), Whole(area.y, size.height), image, BufferOf(image), Source(0))
  BY DEF ContentItem
<1> HIDE DEF image, size
<1>8. Whole(area.x, size.width) \in Spans /\ Whole(area.y, size.height) \in Spans
  BY <1>2, <1>4, <1>5
<1>9. ContentItem \in Items
  BY <1>1, <1>6, <1>7, <1>8, ItemType
<1> QED
  BY <1>1, <1>9 DEF image

LEMMA ContentPainted ==
  ASSUME ExtractionTypeOK, PaintContent
  PROVE  ExtractionTypeOK'
<1>1. images' \in Seq(Items)
  BY ContentTypes, ItemAdded DEF PaintContent, ExtractionTypeOK
<1>2. at' \in Places /\ order' \in Nat
  <2>1. at.part + 1 \in Nat /\ ToPart(at.part + 1) /\ order' = order + 1
    BY WalkTypes DEF PaintContent
  <2> QED
    BY <2>1, WalkTypes
<1> QED
  BY <1>1, <1>2 DEF PaintContent, ExtractionTypeOK, resources, Places

LEMMA RunTypes ==
  ASSUME ExtractionTypeOK, InRuns, at.item < Len(element.runs)
  PROVE  /\ run \in Runs /\ Font(run) \in FontFiles /\ FontKey(run) \in Blobs \X Nat
         /\ run.size \in Nat /\ area.y.from + run.baseline \in Int
<1>1. /\ element.runs \in Seq(Runs) /\ at.item + 1 \in 1 .. Len(element.runs) /\ area \in Areas
  BY ElementType, WalkTypes DEF InRuns
<1>2. run \in Runs
  BY <1>1, ElementOfSeq DEF run
<1>3. run.blob \in Blobs /\ run.face \in Faces /\ run.size \in Nat /\ run.baseline \in Nat
  BY <1>2 DEF Runs
<1>4. Font(run) \in FontFiles
  BY <1>3, ExtractionConstants DEF Font, FontFiles
<1>5. FontKey(run) \in Blobs \X Nat
  BY <1>3, ExtractionConstants DEF FontKey
<1>6. area.y.from \in Int
  BY <1>1 DEF Areas, Intervals
<1> QED
  BY <1>2, <1>3, <1>4, <1>5, <1>6

LEMMA RunShaped ==
  ASSUME ExtractionTypeOK, ShapeRun
  PROVE  ExtractionTypeOK'
<1>1. InRuns /\ at.item < Len(element.runs)
  BY DEF ShapeRun
<1>2. PICK place \in 1 .. Len(fonts) + 1 :
        /\ Intern(place)
        /\ texts' = IF run.glyphs
                    THEN Append(texts, [baseline |-> area.y.from + run.baseline, size |-> run.size,
                                        font |-> place, shaped |-> Font(run)])
                    ELSE texts
  BY DEF ShapeRun
<1>3. /\ place \in Nat \ {0} /\ fonts \in Seq(FontFiles) /\ texts \in Seq(Texts)
      /\ Font(run) \in FontFiles /\ FontKey(run) \in Blobs \X Nat
      /\ run.size \in Nat /\ area.y.from + run.baseline \in Int
      /\ DOMAIN seen \subseteq Blobs \X Nat /\ Range(seen) \subseteq Nat \ {0}
  <2>1. Len(fonts) \in Nat
    BY DEF ExtractionTypeOK
  <2>2. place \in Nat \ {0}
    BY <2>1
  <2> QED
    BY <1>1, <2>2, RunTypes DEF ExtractionTypeOK
<1>4. texts' \in Seq(Texts)
  <2> DEFINE t == [baseline |-> area.y.from + run.baseline, size |-> run.size,
                   font |-> place, shaped |-> Font(run)]
  <2>1. t \in Texts
    BY <1>3 DEF Texts
  <2>2. Append(texts, t) \in Seq(Texts)
    BY <1>3, <2>1, AppendProperties
  <2> HIDE DEF t
  <2>3. texts' = Append(texts, t) \/ texts' = texts
    BY <1>2 DEF t
  <2> QED
    BY <1>3, <2>2, <2>3
<1>5. fonts' \in Seq(FontFiles)
  <2>1. Append(fonts, Font(run)) \in Seq(FontFiles)
    BY <1>3, AppendProperties
  <2>2. fonts' = fonts \/ fonts' = Append(fonts, Font(run))
    BY <1>2 DEF Intern
  <2> QED
    BY <1>3, <2>1, <2>2
<1>6. DOMAIN seen' \subseteq Blobs \X Nat /\ Range(seen') \subseteq Nat \ {0}
  <2>1. CASE seen' = seen
    BY <1>3, <2>1
  <2>2. CASE seen' = Insert(seen, FontKey(run), place)
    BY <1>3, <2>2 DEF Insert, Range
  <2> QED
    BY <1>2, <2>1, <2>2 DEF Intern
<1>7. at' \in Places
  BY WalkTypes DEF ShapeRun
<1> QED
  BY <1>4, <1>5, <1>6, <1>7 DEF ShapeRun, ExtractionTypeOK, resources, Places

LEMMA ElementPassed ==
  ASSUME ExtractionTypeOK, NextElement
  PROVE  ExtractionTypeOK'
<1>1. at' \in Places
  BY WalkTypes DEF NextElement, Start, Places
<1> QED
  BY <1>1 DEF NextElement, ExtractionTypeOK, resources, lists, Places

LEMMA Forgotten ==
  ASSUME Forget
  PROVE  /\ at' \in Places /\ order' \in Nat
         /\ boxes' \in Seq(Boxes) /\ images' \in Seq(Items)
         /\ texts' \in Seq(Texts) /\ fonts' \in Seq(FontFiles)
         /\ DOMAIN seen' = {} /\ Range(seen') = {}
  BY DEF Forget, Start, Places, Range

LEMMA AskedType == ASSUME NEW there PROVE Asked(there) \subseteq Fetchable
  BY DEF Asked

LEMMA BuildTypes ==
  ASSUME NEW d \in Documents, Build(d)
  PROVE  ExtractionTypeOK'
<1>1. InitialHeight \in Nat \ {0}
  BY ExtractionConstants
<1> QED
  BY <1>1, Forgotten DEF Build, ExtractionTypeOK, Places

LEMMA LayOutTypes ==
  ASSUME ExtractionTypeOK, LayOut
  PROVE  ExtractionTypeOK'
<1>1. collected' \subseteq Fetchable
  BY AskedType DEF LayOut, ExtractionTypeOK
<1>2. laid' \in [height : Nat, loaded : SUBSET Fetchable]
  BY DEF LayOut, ExtractionTypeOK
<1> QED
  BY <1>1, <1>2 DEF LayOut, ExtractionTypeOK, lists

LEMMA LoadTypes ==
  ASSUME ExtractionTypeOK, Load
  PROVE  ExtractionTypeOK'
<1>1. collected' \subseteq Fetchable /\ loaded' \subseteq Fetchable
  BY AskedType DEF Load, ExtractionTypeOK
<1>2. laid' \in [height : Nat, loaded : SUBSET Fetchable]
  BY DEF Load, ExtractionTypeOK
<1> QED
  BY <1>1, <1>2, Forgotten DEF Load, ExtractionTypeOK, Places

LEMMA GrowTypes ==
  ASSUME ExtractionTypeOK, Grow
  PROVE  ExtractionTypeOK'
<1>1. height' \in Nat \ {0}
  BY ExtractionConstants DEF Grow, ExtractionTypeOK, Least
<1> QED
  BY <1>1 DEF Grow, ExtractionTypeOK, resources, lists

LEMMA ExtractTypes == ExtractionTypeOK /\ Extract => ExtractionTypeOK'
<1> SUFFICES ASSUME ExtractionTypeOK, Extract PROVE ExtractionTypeOK'
  OBVIOUS
<1>1. ASSUME Answer PROVE ExtractionTypeOK'
  BY <1>1 DEF Answer, ExtractionTypeOK, resources, lists
<1> QED
  BY <1>1, LayOutTypes, LoadTypes, ColourTypes, TilePainted, LayerLeft, ContentPainted, RunShaped,
     ElementPassed, GrowTypes DEF Extract

-----------------------------------------------------------------------------
(* The drawing and the encoding.  What is drawn is a list; a list that was *)
(* answered has a height; while pixels are compacted, the buffer is that   *)
(* of the whole sheet.                                                     *)
Sheet ==
  stage = "encoding" => DOMAIN data = 0 .. 4 * Pixels - 1 /\ compacted \in 0 .. Pixels

Answered == stage = "laid" => \E h : IsContentHeight(h)

SInv ==
  /\ TypeOK
  /\ \E S : drawn \in Seq(S)
  /\ Answered /\ Sheet /\ PixelsAreKept

LEMMA PixelsType == ASSUME RasterTypeOK PROVE Pixels \in Nat /\ Pixels <= MaxPixels
<1>1. /\ frame.width \in Nat \ {0} /\ frame.height \in Nat \ {0} /\ frame.scale \in Int
      /\ MaxBitmap \in Int /\ MaxPixels \in Nat
  BY RasterConstants DEF RasterTypeOK, Frames
<1>2. Greatest(frame.width, frame.height) \in Int /\ Greatest(frame.width, frame.height) > 0
  BY <1>1 DEF Greatest
<1>3. \A side \in Int : BitmapSide(frame, side) \in Nat \ {0}
  <2>1. \A longest, scale, limit \in Int : longest > 0 =>
          \A side \in Int : ScaledSide(side, longest, scale, limit) \in Nat \ {0}
    BY ScaledSideType
  <2> QED
    BY <1>1, <1>2, <2>1 DEF BitmapSide
<1>4. BitmapSide(frame, frame.width) * BitmapSide(frame, frame.height) \in Nat
  BY <1>1, <1>3
<1> QED
  BY <1>1, <1>4 DEF Pixels, Least

LEMMA ByteType ==
  /\ \A b \in Nat : Byte(b, 4) \in [pixel : Nat, component : Nat]
  /\ \A p \in Nat : \A i \in 0 .. 2 : Byte(4 * p + i, 4) = Byte(3 * p + i, 3)
<1>1. ASSUME NEW b \in Nat PROVE b \div 4 \in Nat /\ b % 4 \in Nat
  OBVIOUS
<1>2. ASSUME NEW p \in Nat, NEW i \in 0 .. 2
      PROVE  /\ (4 * p + i) \div 4 = p /\ (4 * p + i) % 4 = i
             /\ (3 * p + i) \div 3 = p /\ (3 * p + i) % 3 = i
  BY Z3
<1> QED
  BY <1>1, <1>2 DEF Byte

LEMMA ContentHeightType ==
  ASSUME ExtractionTypeOK, \E h : IsContentHeight(h)
  PROVE  ContentHeight \in Int
<1>1. \E h \in Bottoms \cup {document.reserved} : IsContentHeight(h)
  BY DEF IsContentHeight
<1>2. ContentHeight \in Bottoms \cup {document.reserved}
  BY <1>1 DEF ContentHeight
<1>3. document.reserved \in Int
  BY ExtractionConstants DEF ExtractionTypeOK
<1>4. ASSUME NEW s \in Range(boxes) PROVE s.y.to \in Int
  <2>1. s \in Boxes
    BY ElementOfSeq DEF ExtractionTypeOK, Range
  <2> QED
    BY <2>1 DEF Boxes, Intervals
<1>5. ASSUME NEW s \in Range(texts) PROVE s.baseline \in Int
  <2>1. s \in Texts
    BY ElementOfSeq DEF ExtractionTypeOK, Range
  <2> QED
    BY <2>1 DEF Texts
<1>6. ASSUME NEW s \in Range(images) PROVE Ceil(s.y.to, s.y.unit) \in Int
  <2>1. s \in Items
    BY ElementOfSeq DEF ExtractionTypeOK, Range
  <2>2. s.y.to \in Int /\ s.y.unit \in Nat \ {0}
    BY <2>1 DEF Items, Spans
  <2> QED
    BY <2>2, CeilType
<1> QED
  BY <1>2, <1>3, <1>4, <1>5, <1>6 DEF Bottoms

(* A clip and the numbers it leaves out.                                   *)
LEMMA FrameType ==
  ASSUME ExtractionTypeOK, NEW c \in Captures, NEW v \in Viewports, \E h : IsContentHeight(h)
  PROVE  Frame(c, v) \in Frames
<1>1. document.width \in Nat \ {0}
  BY ExtractionConstants DEF ExtractionTypeOK
<1>2. /\ v.height \in Nat \ {0} /\ v.density \in Int
      /\ c.clip \in {Absent} \cup Clips
  <2>1. v \in [height : Nat \ {0}, density : Nat \ {0}]
    BY RasterConstants
  <2>2. c \in [format : {"png", "jpeg"}, beyond : BOOLEAN, clip : {Absent} \cup Clips]
    BY RasterConstants
  <2> HIDE DEF Clips
  <2>3. c.clip \in {Absent} \cup Clips
    BY <2>2
  <2> QED
    BY <2>1, <2>3
<1>3. ContentHeight \in Int
  BY ContentHeightType
<1>4. \A m, n \in Int : Greatest(m, n) \in Int /\ Greatest(1, n) \in Nat \ {0}
  BY DEF Greatest
<1>5. CASE c.clip # Absent
  <2> DEFINE x == Given(c.clip.x, 0)
             y == Given(c.clip.y, 0)
             w == Given(c.clip.width, document.width)
             h == Given(c.clip.height, v.height)
             s == Given(c.clip.scale, 1)
  <2>1. c.clip \in Clips
    BY <1>2, <1>5
  <2>2. /\ c.clip.x \in Int \cup {Absent} /\ c.clip.y \in Int \cup {Absent}
        /\ c.clip.width \in Int \cup {Absent} /\ c.clip.height \in Int \cup {Absent}
        /\ c.clip.scale \in Int \cup {Absent}
    BY <2>1 DEF Clips, Numbers
  <2>3. x \in Int /\ y \in Int /\ w \in Int /\ h \in Int /\ s \in Int
    BY <1>1, <1>2, <2>2 DEF Given
  <2>4. Frame(c, v) = Clip(x, y, w, h, s)
    BY <1>5 DEF Frame
  <2> HIDE DEF x, y, w, h, s
  <2>5. Greatest(1, w) \in Nat \ {0} /\ Greatest(1, h) \in Nat \ {0}
    BY <1>4, <2>3
  <2> QED
    BY <2>3, <2>4, <2>5 DEF Clip, Frames
<1>6. CASE c.clip = Absent
  <2> DEFINE h == IF c.beyond THEN Greatest(Greatest(1, ContentHeight), v.height) ELSE v.height
  <2>1. h \in Nat \ {0}
    <3>1. Greatest(1, ContentHeight) \in Nat \ {0}
      BY <1>3, <1>4
    <3>2. Greatest(Greatest(1, ContentHeight), v.height) \in Nat \ {0}
      BY <1>2, <3>1 DEF Greatest
    <3> QED
      BY <1>2, <3>2
  <2>2. Frame(c, v) = [x |-> 0, y |-> 0, width |-> document.width, height |-> h, scale |-> v.density]
    BY <1>6 DEF Frame
  <2> HIDE DEF h
  <2> QED
    BY <1>1, <1>2, <2>1, <2>2 DEF Frames
<1> QED
  BY <1>5, <1>6

LEMMA InitSInv == Init => SInv
<1> SUFFICES ASSUME Init PROVE SInv
  OBVIOUS
<1>1. SvgTypeOK
  BY SvgInitTypes DEF Init
<1>2. Some(Documents) \in Documents /\ Some(Captures) \in Captures /\ Some(Viewports) \in Viewports
  BY ScreenshotConstants DEF Some
<1>3. InitialHeight \in Nat \ {0}
  BY ExtractionConstants
<1>4. ExtractionTypeOK
  BY <1>2, <1>3 DEF Init, Start, ExtractionTypeOK, Range
<1>5. frame \in Frames
  BY DEF Init, Clip, Greatest, Frames
<1>6. 0 \in 0 .. MaxPixels
  BY RasterConstants
<1>7. RasterTypeOK
  BY <1>2, <1>5, <1>6 DEF Init, RasterTypeOK
<1>8. stage = "scanning" /\ replaced = FALSE /\ drawn = << >>
  BY DEF Init
<1>9. drawn \in Seq({})
  BY <1>8
<1> QED
  BY <1>1, <1>4, <1>7, <1>8, <1>9 DEF SInv, TypeOK, Answered, Sheet, PixelsAreKept

LEMMA RewriteSInv == ASSUME SInv, Rewrite PROVE SInv'
<1>1. UNCHANGED <<replaced, extractionVars, rasterVars>> /\ SvgTypeOK'
  BY SvgNextTypes DEF Rewrite, SInv, TypeOK
<1>2. /\ UNCHANGED <<stage, document, boxes, images, texts, frame, data, compacted, drawn>>
      /\ ExtractionTypeOK' /\ RasterTypeOK'
  BY <1>1 DEF SInv, TypeOK, ExtractionTypeOK, RasterTypeOK, extractionVars, rasterVars, resources, lists,
     drawing, encoding
<1>3. TypeOK'
  BY <1>1, <1>2 DEF SInv, TypeOK
<1>4. Answered'
  BY <1>2 DEF SInv, Answered, IsContentHeight, Bottoms
<1>5. Sheet' /\ PixelsAreKept'
  BY <1>2 DEF SInv, Sheet, PixelsAreKept, Pixels, BitmapSide
<1> QED
  BY <1>2, <1>3, <1>4, <1>5 DEF SInv

LEMMA HandOverSInv == ASSUME SInv, HandOver PROVE SInv'
<1>1. /\ stage' = "parsing" /\ replaced' \in BOOLEAN
      /\ UNCHANGED <<reading, document, height, resources, at, lists, rasterVars>>
  BY DEF HandOver
<1>2. SvgTypeOK'
  BY <1>1 DEF HandOver, SInv, TypeOK, SvgTypeOK
<1>3. ExtractionTypeOK' /\ RasterTypeOK' /\ drawn' = drawn
  BY <1>1 DEF SInv, TypeOK, ExtractionTypeOK, RasterTypeOK, rasterVars, resources, lists, drawing, encoding
<1> QED
  BY <1>1, <1>2, <1>3 DEF SInv, TypeOK, Answered, Sheet, PixelsAreKept

LEMMA ParseSInv == ASSUME SInv, Parse PROVE SInv'
<1>1. PICK d \in Documents : Build(d)
  BY DEF Parse
<1>2. UNCHANGED <<svgVars, replaced, rasterVars>>
  BY DEF Parse
<1>3. ExtractionTypeOK' /\ stage' = "laying"
  BY <1>1, BuildTypes DEF Build
<1>4. SvgTypeOK' /\ RasterTypeOK' /\ UNCHANGED <<replaced, drawn>>
  BY <1>2 DEF SInv, TypeOK, SvgTypeOK, RasterTypeOK, svgVars, rasterVars, drawing, encoding
<1> QED
  BY <1>3, <1>4 DEF SInv, TypeOK, Answered, Sheet, PixelsAreKept

LEMMA ExtractSInv ==
  ASSUME SInv, Extract, UNCHANGED <<svgVars, replaced, rasterVars>>
  PROVE  SInv'
<1>1. ExtractionTypeOK'
  BY ExtractTypes DEF SInv, TypeOK
<1>2. SvgTypeOK' /\ RasterTypeOK' /\ UNCHANGED <<replaced, drawn>>
  BY DEF SInv, TypeOK, SvgTypeOK, RasterTypeOK, svgVars, rasterVars, drawing, encoding
<1>3. stage' \in {"laying", "loading", "walking"} \/ Answer
  BY DEF Extract, LayOut, Load, PaintColour, PaintTile, InLayers, LeaveLayer, PaintContent,
     ShapeRun, InRuns, NextElement, Grow
<1>4. CASE stage' \in {"laying", "loading", "walking"}
  BY <1>1, <1>2, <1>4 DEF SInv, TypeOK, Answered, Sheet, PixelsAreKept
<1>5. CASE Answer
  <2>1. stage' = "laid" /\ UNCHANGED <<document, boxes, images, texts>> /\ \E h : IsContentHeight(h)
    BY <1>5 DEF Answer, lists
  <2>2. Answered'
    BY <2>1 DEF Answered, IsContentHeight, Bottoms
  <2> QED
    BY <1>1, <1>2, <2>1, <2>2 DEF SInv, TypeOK, Sheet, PixelsAreKept
<1> QED
  BY <1>3, <1>4, <1>5

LEMMA ExtractedTypes ==
  ASSUME TypeOK, UNCHANGED <<svgVars, replaced, extracted>>
  PROVE  SvgTypeOK' /\ replaced' \in BOOLEAN /\ ExtractionTypeOK'
  BY DEF TypeOK, SvgTypeOK, ExtractionTypeOK, svgVars, extracted, resources, lists

LEMMA FrameSInv ==
  ASSUME SInv, ChooseFrame, UNCHANGED <<svgVars, replaced>>
  PROVE  SInv'
<1>1. SvgTypeOK' /\ replaced' \in BOOLEAN /\ ExtractionTypeOK'
  BY ExtractedTypes DEF ChooseFrame, SInv
<1>2. capture' \in Captures /\ viewport' \in Viewports /\ frame' = Frame(capture', viewport')
  BY DEF ChooseFrame
<1>3. frame' \in Frames
  <2>1. ASSUME NEW c \in Captures, NEW v \in Viewports PROVE Frame(c, v) \in Frames
    BY FrameType DEF ChooseFrame, SInv, TypeOK, Answered
  <2> QED
    BY <1>2, <2>1
<1>4. stage' \in {"painting", "failed"} /\ drawn' = << >> /\ cache' = << >>
  BY DEF ChooseFrame
<1>5. next' \in [box : Nat \ {0}, image : Nat \ {0}, text : Nat \ {0}]
  BY DEF ChooseFrame
<1>6. RasterTypeOK'
  BY <1>2, <1>3, <1>4, <1>5 DEF ChooseFrame, SInv, TypeOK, RasterTypeOK, encoding
<1>7. drawn' \in Seq({})
  BY <1>4
<1> QED
  BY <1>1, <1>4, <1>6, <1>7 DEF SInv, TypeOK, Answered, Sheet, PixelsAreKept

(* What is common to the steps that draw.                                  *)
LEMMA DrawingSInv ==
  ASSUME SInv, UNCHANGED <<svgVars, replaced, stage, extracted, capture, viewport, frame, encoding>>,
         stage = "painting",
         next' \in [box : Nat \ {0}, image : Nat \ {0}, text : Nat \ {0}],
         DOMAIN cache' \subseteq Nat \X Nat \X Nat,
         NEW S, drawn' \in Seq(S),
         \A k \in DOMAIN drawn' :
           drawn'[k].kind \in {"box", "image", "text"} /\ drawn'[k].index \in Nat \ {0}
  PROVE  SInv'
<1>1. SvgTypeOK' /\ replaced' \in BOOLEAN /\ ExtractionTypeOK'
  BY ExtractedTypes DEF SInv
<1>2. RasterTypeOK'
  BY DEF SInv, TypeOK, RasterTypeOK, encoding
<1> QED
  BY <1>1, <1>2 DEF SInv, TypeOK, Answered, Sheet, PixelsAreKept

LEMMA Longer ==
  ASSUME NEW S, NEW s \in Seq(S), NEW x
  PROVE  /\ Append(s, x) \in Seq(S \cup {x})
         /\ \A k \in DOMAIN Append(s, x) :
              (k \in DOMAIN s /\ Append(s, x)[k] = s[k]) \/ Append(s, x)[k] = x
<1>1. s \in Seq(S \cup {x})
  <2>1. \A k \in 1 .. Len(s) : s[k] \in S \cup {x}
    BY ElementOfSeq
  <2> QED
    BY <2>1, LenProperties, SeqDef
<1>2. /\ Append(s, x) \in Seq(S \cup {x}) /\ Len(Append(s, x)) = Len(s) + 1
      /\ \A k \in 1 .. Len(s) : Append(s, x)[k] = s[k]
      /\ Append(s, x)[Len(s) + 1] = x
  BY <1>1, AppendProperties
<1>3. \A k \in DOMAIN Append(s, x) : k \in 1 .. Len(s) \/ k = Len(s) + 1
  BY <1>1, <1>2
<1>4. DOMAIN s = 1 .. Len(s)
  BY <1>1
<1> QED
  BY <1>2, <1>3, <1>4

LEMMA BoxSInv ==
  ASSUME SInv, DrawBox, UNCHANGED <<svgVars, replaced>>
  PROVE  SInv'
<1> DEFINE o == Operation("box", next.box, None)
<1>1. next \in [box : Nat \ {0}, image : Nat \ {0}, text : Nat \ {0}]
  BY DEF SInv, TypeOK, RasterTypeOK
<1>2. o.kind = "box" /\ o.index \in Nat \ {0} /\ drawn' = Append(drawn, o)
  BY <1>1 DEF Operation, DrawBox
<1> HIDE DEF o
<1>3. PICK S : drawn \in Seq(S)
  BY DEF SInv
<1>4. drawn' \in Seq(S \cup {o})
  BY <1>2, <1>3, Longer
<1>5. \A k \in DOMAIN drawn' :
        drawn'[k].kind \in {"box", "image", "text"} /\ drawn'[k].index \in Nat \ {0}
  BY <1>2, <1>3, Longer DEF SInv, TypeOK, RasterTypeOK
<1>6. next' \in [box : Nat \ {0}, image : Nat \ {0}, text : Nat \ {0}]
  BY <1>1 DEF DrawBox
<1>7. DOMAIN cache' \subseteq Nat \X Nat \X Nat
  BY DEF DrawBox, SInv, TypeOK, RasterTypeOK
<1> QED
  BY <1>4, <1>5, <1>6, <1>7, DrawingSInv DEF DrawBox

LEMMA ImageSInv ==
  ASSUME SInv, DrawImage, UNCHANGED <<svgVars, replaced>>
  PROVE  SInv'
<1> DEFINE i == images[next.image]
           shows == IF i.buffer \in DOMAIN cache THEN cache[i.buffer] ELSE Picture(i)
           o == Operation("image", next.image, shows)
<1>1. /\ next \in [box : Nat \ {0}, image : Nat \ {0}, text : Nat \ {0}]
      /\ DOMAIN cache \subseteq Nat \X Nat \X Nat
      /\ \A k \in DOMAIN drawn : drawn[k].kind \in {"box", "image", "text"} /\ drawn[k].index \in Nat \ {0}
  BY DEF SInv, TypeOK, RasterTypeOK
<1>2. i.buffer \in Nat \X Nat \X Nat
  <2>1. images \in Seq(Items) /\ next.image \in 1 .. Len(images)
    BY <1>1 DEF SInv, TypeOK, ExtractionTypeOK, DrawImage, ImageIsNext
  <2>2. i \in Items
    BY <2>1, ElementOfSeq
  <2> QED
    BY <2>2 DEF Items
<1>3. /\ cache' = cache \/ cache' = Insert(cache, i.buffer, shows)
      /\ drawn' = drawn \/ drawn' = Append(drawn, o)
  BY DEF DrawImage
<1>4. o.kind = "image" /\ o.index \in Nat \ {0}
  BY <1>1 DEF Operation
<1> HIDE DEF i, shows, o
<1>5. DOMAIN cache' \subseteq Nat \X Nat \X Nat
  BY <1>1, <1>2, <1>3 DEF Insert
<1>6. PICK S : drawn \in Seq(S)
  BY DEF SInv
<1>7. next' \in [box : Nat \ {0}, image : Nat \ {0}, text : Nat \ {0}]
  BY <1>1 DEF DrawImage
<1>8. CASE drawn' = drawn
  BY <1>1, <1>5, <1>6, <1>7, <1>8, DrawingSInv DEF DrawImage
<1>9. CASE drawn' = Append(drawn, o)
  <2>1. drawn' \in Seq(S \cup {o})
    BY <1>6, <1>9, Longer
  <2>2. \A k \in DOMAIN drawn' :
          drawn'[k].kind \in {"box", "image", "text"} /\ drawn'[k].index \in Nat \ {0}
    BY <1>1, <1>4, <1>6, <1>9, Longer
  <2> QED
    BY <1>5, <1>7, <2>1, <2>2, DrawingSInv DEF DrawImage
<1> QED
  BY <1>3, <1>8, <1>9

LEMMA GroupSInv ==
  ASSUME SInv, DrawGroup, UNCHANGED <<svgVars, replaced>>
  PROVE  SInv'
<1>1. /\ next \in [box : Nat \ {0}, image : Nat \ {0}, text : Nat \ {0}]
      /\ DOMAIN cache' \subseteq Nat \X Nat \X Nat
      /\ \A k \in DOMAIN drawn : drawn[k].kind \in {"box", "image", "text"} /\ drawn[k].index \in Nat \ {0}
      /\ Len(texts) \in Nat
  <2>1. Len(texts) \in Nat
    BY DEF SInv, TypeOK, ExtractionTypeOK
  <2>2. cache' = cache
    BY DEF DrawGroup
  <2> QED
    BY <2>1, <2>2 DEF SInv, TypeOK, RasterTypeOK
<1> DEFINE scaler == Scaler(texts[next.text])
           o(k) == Operation("text", next.text + k - 1, scaler)
           group(last) == [k \in 1 .. last - next.text + 1 |-> o(k)]
<1>2. PICK last \in next.text .. Len(texts) :
        /\ drawn' = drawn \/ drawn' = drawn \o group(last)
        /\ next' = [next EXCEPT !.text = last + 1]
  BY DEF DrawGroup
<1>3. next' \in [box : Nat \ {0}, image : Nat \ {0}, text : Nat \ {0}]
  BY <1>1, <1>2
<1>4. PICK S : drawn \in Seq(S)
  BY DEF SInv
<1> DEFINE g == group(last)
           n == last - next.text + 1
           T == S \cup {g[k] : k \in 1 .. n}
<1>5. n \in Nat /\ g = [k \in 1 .. n |-> o(k)]
  BY <1>1
<1>6. \A k \in 1 .. n : g[k].kind = "text" /\ g[k].index \in Nat \ {0}
  BY <1>1 DEF Operation
<1> HIDE DEF n, g, o
<1>7. DOMAIN g = 1 .. n /\ \A k \in 1 .. n : g[k] \in T
  BY <1>5
<1>8. g \in [1 .. n -> T]
  <2>1. g = [k \in 1 .. n |-> g[k]]
    BY <1>5
  <2> QED
    BY <1>7, <2>1
<1> HIDE DEF T
<1>9. g \in Seq(T) /\ Len(g) = n
  BY <1>5, <1>8, SeqDef, LenProperties
<1>10. drawn \in Seq(T)
  <2>1. \A k \in 1 .. Len(drawn) : drawn[k] \in T
    BY <1>4, ElementOfSeq DEF T
  <2> QED
    BY <1>4, <2>1, LenProperties, SeqDef
<1>11. CASE drawn' = drawn
  BY <1>1, <1>3, <1>4, <1>11, DrawingSInv DEF DrawGroup
<1>12. CASE drawn' = drawn \o g
  <2>1. /\ drawn \o g \in Seq(T) /\ Len(drawn \o g) = Len(drawn) + n
        /\ \A k \in 1 .. Len(drawn) + n :
             (drawn \o g)[k] = IF k <= Len(drawn) THEN drawn[k] ELSE g[k - Len(drawn)]
    BY <1>9, <1>10, ConcatProperties
  <2>2. Len(drawn) \in Nat /\ DOMAIN drawn = 1 .. Len(drawn)
    BY <1>10
  <2>3. DOMAIN (drawn \o g) = 1 .. Len(drawn) + n
    BY <2>1
  <2>4. \A k \in 1 .. Len(drawn) + n :
          (k <= Len(drawn) => k \in DOMAIN drawn) /\ (~ (k <= Len(drawn)) => k - Len(drawn) \in 1 .. n)
    BY <1>5, <2>2
  <2>5. \A k \in DOMAIN drawn' :
          drawn'[k].kind \in {"box", "image", "text"} /\ drawn'[k].index \in Nat \ {0}
    BY <1>1, <1>6, <1>12, <2>1, <2>3, <2>4
  <2>6. drawn' \in Seq(T)
    BY <1>12, <2>1
  <2> QED
    BY <1>1, <1>3, <2>5, <2>6, DrawingSInv DEF DrawGroup
<1> QED
  BY <1>2, <1>11, <1>12 DEF g

LEMMA EncodeSInv ==
  ASSUME SInv, Encode, UNCHANGED <<svgVars, replaced>>
  PROVE  SInv'
<1>1. SvgTypeOK' /\ replaced' \in BOOLEAN /\ ExtractionTypeOK'
  BY ExtractedTypes DEF Encode, SInv
<1>2. Pixels \in Nat /\ Pixels <= MaxPixels /\ MaxPixels \in Nat
  BY PixelsType, RasterConstants DEF SInv, TypeOK
<1>3. /\ UNCHANGED <<capture, viewport, frame, drawing>>
      /\ data' = [b \in 0 .. 4 * Pixels - 1 |-> Byte(b, 4)] /\ compacted' = 0
      /\ stage' \in {"done", "encoding"}
  BY DEF Encode
<1>4. Pixels' = Pixels
  BY <1>3 DEF Pixels, BitmapSide
<1>5. DOMAIN data' = 0 .. 4 * Pixels - 1
  BY <1>3
<1>6. \A b \in DOMAIN data' : data'[b] \in [pixel : Nat, component : Nat]
  <2>1. \A b \in 0 .. 4 * Pixels - 1 : b \in Nat
    BY <1>2
  <2> QED
    BY <1>3, <2>1, ByteType
<1>7. data' \in [DOMAIN data' -> [pixel : Nat, component : Nat]]
  BY <1>3, <1>5, <1>6
<1>8. RasterTypeOK'
  BY <1>2, <1>3, <1>7 DEF SInv, TypeOK, RasterTypeOK, drawing
<1>9. Sheet' /\ PixelsAreKept'
  BY <1>2, <1>3, <1>4, <1>5 DEF Sheet, PixelsAreKept
<1> QED
  BY <1>1, <1>3, <1>8, <1>9 DEF SInv, TypeOK, Answered, drawing

LEMMA CompactSInv ==
  ASSUME SInv, Compact, UNCHANGED <<svgVars, replaced>>
  PROVE  SInv'
<1>1. SvgTypeOK' /\ replaced' \in BOOLEAN /\ ExtractionTypeOK'
  BY ExtractedTypes DEF Compact, SInv
<1>2. /\ Pixels \in Nat /\ Pixels <= MaxPixels /\ MaxPixels \in Nat
      /\ compacted \in Nat /\ compacted < Pixels
  BY PixelsType, RasterConstants DEF SInv, TypeOK, RasterTypeOK, Compact
<1> DEFINE p == compacted
<1>3. /\ UNCHANGED <<stage, capture, viewport, frame, drawing>> /\ stage = "encoding"
      /\ data' = [b \in DOMAIN data |-> IF b \in 3 * p .. 3 * p + 2 THEN data[b + p] ELSE data[b]]
      /\ compacted' = p + 1
  BY DEF Compact, Pixel
<1>4. Pixels' = Pixels
  BY <1>3 DEF Pixels, BitmapSide
<1>5. /\ DOMAIN data = 0 .. 4 * Pixels - 1 /\ DOMAIN data' = 0 .. 4 * Pixels - 1
      /\ data \in [DOMAIN data -> [pixel : Nat, component : Nat]]
      /\ \A b \in 0 .. 3 * p - 1 : data[b] = Byte(b, 3)
      /\ \A b \in 4 * p .. 4 * Pixels - 1 : data[b] = Byte(b, 4)
  BY <1>3 DEF SInv, Sheet, TypeOK, RasterTypeOK, PixelsAreKept
<1> HIDE DEF p
<1>6. p \in Nat /\ p < Pixels /\ p + 1 \in 0 .. Pixels /\ p + 1 \in 0 .. MaxPixels
  BY <1>2 DEF p
(* The bytes written are those of the next pixel, and were not written yet. *)
<1>7. ASSUME NEW b \in 3 * p .. 3 * p + 2
      PROVE  /\ b + p \in 0 .. 4 * Pixels - 1 /\ b \in 0 .. 4 * Pixels - 1
             /\ data'[b] = data[b + p] /\ data[b + p] = Byte(b, 3)
  <2> DEFINE i == b - 3 * p
  <2>1. i \in 0 .. 2 /\ b = 3 * p + i /\ b + p = 4 * p + i
    BY <1>6
  <2>2. b + p \in 4 * p .. 4 * Pixels - 1 /\ b + p \in 0 .. 4 * Pixels - 1 /\ b \in 0 .. 4 * Pixels - 1
    <3>1. \A m, n \in Nat : m < n => \A c \in 3 * m .. 3 * m + 2 :
            c + m \in 4 * m .. 4 * n - 1 /\ c + m \in 0 .. 4 * n - 1 /\ c \in 0 .. 4 * n - 1
      OBVIOUS
    <3> QED
      BY <1>2, <1>6, <3>1
  <2> HIDE DEF i
  <2>3. Byte(4 * p + i, 4) = Byte(3 * p + i, 3)
    BY <1>6, <2>1, ByteType
  <2>4. data[b + p] = Byte(4 * p + i, 4)
    BY <1>5, <2>1, <2>2
  <2>5. data'[b] = data[b + p]
    BY <1>3, <1>5, <2>2
  <2> QED
    BY <2>1, <2>2, <2>3, <2>4, <2>5
<1>8. \A b \in 0 .. 4 * Pixels - 1 : b \notin 3 * p .. 3 * p + 2 => data'[b] = data[b]
  BY <1>3, <1>5
<1>9. \A b \in DOMAIN data' : data'[b] \in [pixel : Nat, component : Nat]
  BY <1>5, <1>7, <1>8
<1>10. data' \in [DOMAIN data' -> [pixel : Nat, component : Nat]]
  <2>1. data' = [b \in DOMAIN data' |-> data'[b]]
    BY <1>3, <1>5
  <2> QED
    BY <1>9, <2>1
<1>11. RasterTypeOK'
  BY <1>3, <1>6, <1>10 DEF SInv, TypeOK, RasterTypeOK, drawing
<1>12. \A b \in 0 .. 3 * (p + 1) - 1 : data'[b] = Byte(b, 3)
  <2>1. \A b \in 0 .. 3 * (p + 1) - 1 :
          \/ b \in 3 * p .. 3 * p + 2
          \/ b \in 0 .. 3 * p - 1 /\ b \in 0 .. 4 * Pixels - 1 /\ b \notin 3 * p .. 3 * p + 2
    <3>1. \A m, n \in Nat : m < n => \A b \in 0 .. 3 * (m + 1) - 1 :
            \/ b \in 3 * m .. 3 * m + 2
            \/ b \in 0 .. 3 * m - 1 /\ b \in 0 .. 4 * n - 1 /\ b \notin 3 * m .. 3 * m + 2
      OBVIOUS
    <3> QED
      BY <1>2, <1>6, <3>1
  <2> QED
    BY <1>5, <1>7, <1>8, <2>1
<1>13. \A b \in 4 * (p + 1) .. 4 * Pixels - 1 : data'[b] = Byte(b, 4)
  <2>1. \A b \in 4 * (p + 1) .. 4 * Pixels - 1 :
          b \in 4 * p .. 4 * Pixels - 1 /\ b \in 0 .. 4 * Pixels - 1 /\ b \notin 3 * p .. 3 * p + 2
    <3>1. \A m, n \in Nat : m < n => \A b \in 4 * (m + 1) .. 4 * n - 1 :
            b \in 4 * m .. 4 * n - 1 /\ b \in 0 .. 4 * n - 1 /\ b \notin 3 * m .. 3 * m + 2
      OBVIOUS
    <3> QED
      BY <1>2, <1>6, <3>1
  <2> QED
    BY <1>5, <1>8, <2>1
<1>14. Sheet' /\ PixelsAreKept'
  BY <1>3, <1>4, <1>5, <1>6, <1>12, <1>13 DEF Sheet, PixelsAreKept
<1> QED
  BY <1>1, <1>3, <1>11, <1>14 DEF SInv, TypeOK, Answered, drawing

LEMMA DeliverSInv ==
  ASSUME SInv, Deliver, UNCHANGED <<svgVars, replaced>>
  PROVE  SInv'
<1>1. SvgTypeOK' /\ replaced' \in BOOLEAN /\ ExtractionTypeOK'
  BY ExtractedTypes DEF Deliver, SInv
<1>2. RasterTypeOK' /\ stage' = "done" /\ drawn' = drawn
  BY DEF Deliver, SInv, TypeOK, RasterTypeOK, drawing, encoding
<1> QED
  BY <1>1, <1>2 DEF SInv, TypeOK, Answered, Sheet, PixelsAreKept

LEMMA NextSInv == SInv /\ [Next]_vars => SInv'
<1>1. ASSUME SInv, Next PROVE SInv'
  <2>1. ASSUME Rasterize, UNCHANGED <<svgVars, replaced>> PROVE SInv'
    BY <1>1, <2>1, FrameSInv, BoxSInv, ImageSInv, GroupSInv, EncodeSInv, CompactSInv, DeliverSInv
       DEF Rasterize
  <2> QED
    BY <1>1, <2>1, RewriteSInv, HandOverSInv, ParseSInv, ExtractSInv DEF Next
<1>2. ASSUME SInv, UNCHANGED vars PROVE SInv'
  <2>1. UNCHANGED <<svgVars, replaced, stage, extracted, capture, viewport, frame, drawing, encoding>>
    BY <1>2 DEF vars, extractionVars, rasterVars, extracted
  <2>2. SvgTypeOK' /\ replaced' \in BOOLEAN /\ ExtractionTypeOK'
    BY <1>2, <2>1, ExtractedTypes DEF SInv
  <2>3. RasterTypeOK'
    BY <1>2, <2>1 DEF SInv, TypeOK, RasterTypeOK, drawing, encoding
  <2>4. Answered'
    BY <1>2, <2>1 DEF SInv, Answered, IsContentHeight, Bottoms, extracted, lists
  <2>5. Sheet' /\ PixelsAreKept'
    BY <1>2, <2>1 DEF SInv, Sheet, PixelsAreKept, Pixels, BitmapSide, encoding
  <2> QED
    BY <1>2, <2>1, <2>2, <2>3, <2>4, <2>5 DEF SInv, TypeOK, drawing
<1> QED
  BY <1>1, <1>2

LEMMA SpecSInv == Spec => []SInv
  BY InitSInv, NextSInv, PTL DEF Spec

(* For every set of documents, texts and commands: no number the walk or   *)
(* the painting computes leaves the integers, no index its list, and a     *)
(* frame has sides.                                                        *)
THEOREM ScreenshotTypes == Spec => []TypeOK
<1>1. SInv => TypeOK
  BY DEF SInv
<1> QED
  BY <1>1, SpecSInv, PTL

(* Whatever the size of the sheet, the pixels survive the compaction that  *)
(* the JPEG encoder makes in the buffer they were drawn in.                *)
THEOREM PixelsSurvive == Spec => []PixelsAreKept
<1>1. SInv => PixelsAreKept
  BY DEF SInv
<1> QED
  BY <1>1, SpecSInv, PTL

-----------------------------------------------------------------------------
(* The order of the list.  What was painted lies in the elements before    *)
(* the one the walk is at, or in it, no nearer than the part it is at.     *)
Painted == Range(boxes) \cup Range(images)

Behind(P, e, nearest) ==
  \A a \in P : a.source.element < e \/ (a.source.element = e /\ a.source.layer >= nearest)

NearestLayer == ContentPart(document.elements[at.element]) - at.part

Ascends(s, n) ==
  /\ \A k, l \in DOMAIN s : k < l => s[k].order < s[l].order
  /\ \A k \in DOMAIN s : s[k].order < n

FontsKnown ==
  /\ \A t \in Range(texts) : t.font \in DOMAIN fonts /\ fonts[t.font] = t.shaped
  /\ \A k, l \in DOMAIN fonts : fonts[k] = fonts[l] => k = l

KeysKnown ==
  \A key \in DOMAIN seen :
    seen[key] \in DOMAIN fonts /\ fonts[seen[key]] = [file |-> FileOf[key[1]], face |-> key[2]]

Apart == \A b \in Range(boxes), i \in Range(images) : b.order # i.order

PInv ==
  /\ Ascends(boxes, order) /\ Ascends(images, order) /\ Apart
  /\ \A a, b \in Painted : Stacked(a, b)
  /\ Behind(Painted, at.element, NearestLayer)
  /\ FontsKnown /\ KeysKnown

LEMMA AscendsAppend ==
  ASSUME NEW S, \A y \in S : y.order \in Nat, NEW s \in Seq(S), NEW x \in S,
         x.order \in Nat, Ascends(s, x.order)
  PROVE  Ascends(Append(s, x), x.order + 1)
<1> DEFINE t == Append(s, x)
           n == Len(s)
<1>1. /\ n \in Nat /\ DOMAIN s = 1 .. n /\ DOMAIN t = 1 .. n + 1
      /\ \A k \in 1 .. n : t[k] = s[k]
      /\ t[n + 1] = x
  BY AppendProperties
<1> HIDE DEF t, n
<1>2. \A k \in 1 .. n : s[k].order \in Nat /\ s[k].order < x.order
  BY <1>1, ElementOfSeq DEF Ascends, n
<1>3. \A k \in 1 .. n + 1 : k \in 1 .. n \/ k = n + 1
  BY <1>1
<1>4. \A k \in DOMAIN t : t[k].order < x.order + 1
  BY <1>1, <1>2, <1>3
<1>5. ASSUME NEW k \in DOMAIN t, NEW l \in DOMAIN t, k < l PROVE t[k].order < t[l].order
  <2>1. k \in 1 .. n
    BY <1>1, <1>5
  <2>2. CASE l \in 1 .. n
    BY <1>1, <1>5, <2>1, <2>2 DEF Ascends
  <2>3. CASE l = n + 1
    BY <1>1, <1>2, <2>1, <2>3
  <2> QED
    BY <1>1, <1>3, <2>2, <2>3
<1> QED
  BY <1>4, <1>5 DEF Ascends, t

LEMMA AscendsOver ==
  ASSUME NEW S, \A y \in S : y.order \in Nat, NEW s \in Seq(S), NEW n \in Nat, Ascends(s, n)
  PROVE  Ascends(s, n + 1)
<1>1. \A k \in DOMAIN s : s[k].order \in Nat
  BY ElementOfSeq
<1> QED
  BY <1>1 DEF Ascends

LEMMA RangeAppend ==
  ASSUME NEW S, NEW s \in Seq(S), NEW x
  PROVE  Range(Append(s, x)) = Range(s) \cup {x}
<1> DEFINE t == Append(s, x)
<1>1. \A k \in DOMAIN t : (k \in DOMAIN s /\ t[k] = s[k]) \/ t[k] = x
  BY Longer
<1>2. /\ s \in Seq(S \cup {x}) /\ x \in S \cup {x}
  <2>1. \A k \in 1 .. Len(s) : s[k] \in S \cup {x}
    BY ElementOfSeq
  <2> QED
    BY <2>1, LenProperties, SeqDef
<1>3. /\ Len(s) \in Nat /\ DOMAIN s = 1 .. Len(s) /\ DOMAIN t = 1 .. Len(s) + 1
      /\ \A k \in 1 .. Len(s) : t[k] = s[k]
      /\ t[Len(s) + 1] = x
  BY <1>2, AppendProperties
<1>4. Len(s) + 1 \in DOMAIN t /\ \A k \in DOMAIN s : k \in DOMAIN t /\ t[k] = s[k]
  BY <1>3
<1> HIDE DEF t
<1>5. Range(t) \subseteq Range(s) \cup {x}
  BY <1>1 DEF Range
<1>6. Range(s) \cup {x} \subseteq Range(t)
  BY <1>3, <1>4 DEF Range
<1> QED
  BY <1>5, <1>6 DEF t

(* An item of the next order, of the part the walk is at, lies over what   *)
(* was painted.                                                            *)
LEMMA StackedAdded ==
  ASSUME NEW P, NEW n \in Nat, NEW e \in Nat, NEW nearest \in Nat, NEW x,
         x.order = n, x.source = [element |-> e, layer |-> nearest],
         \A a \in P : a.order \in Nat /\ a.order < n /\ a.source \in Sources,
         \A a, b \in P : Stacked(a, b), Behind(P, e, nearest)
  PROVE  /\ \A a, b \in P \cup {x} : Stacked(a, b)
         /\ Behind(P \cup {x}, e, nearest)
<1>1. \A a \in P : ~ (n < a.order) /\ ~ Above(a.source, x.source)
  BY DEF Behind, Above, Sources
<1> QED
  BY <1>1 DEF Stacked, Behind

LEMMA PaintedTypes ==
  ASSUME ExtractionTypeOK
  PROVE  /\ \A a \in Painted : a.order \in Nat /\ a.source \in Sources
         /\ \A a \in Boxes \cup Items : a.order \in Nat /\ a.source \in Sources
<1>1. \A a \in Boxes \cup Items : a.order \in Nat /\ a.source \in Sources
  BY DEF Boxes, Items
<1>2. Painted \subseteq Boxes \cup Items
  BY ElementOfSeq DEF Painted, Range, ExtractionTypeOK
<1> QED
  BY <1>1, <1>2

LEMMA Earlier ==
  ASSUME PInv
  PROVE  \A a \in Painted : a.order < order
  BY DEF PInv, Painted, Ascends, Range

LEMMA NearestType ==
  ASSUME ExtractionTypeOK, at.element \in DOMAIN document.elements
  PROVE  NearestLayer \in Int /\ NearestLayer = ContentPart(element) - at.part
<1>1. ContentPart(element) \in Nat /\ at.part \in Nat
  BY ElementType, WalkTypes
<1> QED
  BY <1>1 DEF NearestLayer, element

LEMMA Moved ==
  ASSUME ExtractionTypeOK, at.element \in DOMAIN document.elements, document' = document,
         at'.element = at.element, at'.part \in {at.part, at.part + 1},
         NEW P, \A a \in P : a.source \in Sources, Behind(P, at.element, NearestLayer)
  PROVE  Behind(P, at'.element, NearestLayer')
<1>1. NearestLayer \in Int /\ at.part \in Nat /\ ContentPart(element) \in Nat
  BY NearestType, ElementType, WalkTypes
<1>2. NearestLayer' = ContentPart(element) - at'.part /\ NearestLayer = ContentPart(element) - at.part
  BY DEF NearestLayer, element
<1>3. NearestLayer' \in Int /\ NearestLayer' <= NearestLayer
  BY <1>1, <1>2
<1> QED
  BY <1>1, <1>3 DEF Behind, Sources

LEMMA BoxAdded ==
  ASSUME ExtractionTypeOK, PInv, at.element \in DOMAIN document.elements,
         NEW i \in Boxes, i.order = order, NearestLayer \in Nat, i.source = Source(NearestLayer),
         boxes' = Append(boxes, i), images' = images, order' = order + 1
  PROVE  /\ Ascends(boxes', order') /\ Ascends(images', order') /\ Apart'
         /\ \A a, b \in Painted' : Stacked(a, b)
         /\ Behind(Painted', at.element, NearestLayer)
         /\ \A a \in Painted' : a.source \in Sources
<1>1. /\ boxes \in Seq(Boxes) /\ images \in Seq(Items) /\ order \in Nat
      /\ at.element \in Nat /\ Ascends(boxes, order) /\ Ascends(images, order) /\ Apart
      /\ \A a, b \in Painted : Stacked(a, b)
      /\ Behind(Painted, at.element, NearestLayer)
  BY WalkTypes DEF ExtractionTypeOK, PInv
<1>2. Range(boxes') = Range(boxes) \cup {i} /\ Painted' = Painted \cup {i}
  BY <1>1, RangeAppend DEF Painted
<1>3. /\ \A a \in Boxes : a.order \in Nat
      /\ \A a \in Items : a.order \in Nat
      /\ i.source \in Sources
  BY PaintedTypes
<1>4. Ascends(boxes', order')
  BY <1>1, <1>3, AscendsAppend
<1>5. Ascends(images', order')
  BY <1>1, <1>3, AscendsOver
<1>6. \A a \in Painted : a.order \in Nat /\ a.order < order /\ a.source \in Sources
  BY PaintedTypes, Earlier
<1>7. Apart'
  BY <1>1, <1>2, <1>6 DEF Apart, Painted
<1>8. i.source = [element |-> at.element, layer |-> NearestLayer]
  BY DEF Source
<1>9. /\ \A a, b \in Painted \cup {i} : Stacked(a, b)
      /\ Behind(Painted \cup {i}, at.element, NearestLayer)
  BY <1>1, <1>6, <1>8, StackedAdded
<1> QED
  BY <1>2, <1>3, <1>4, <1>5, <1>6, <1>7, <1>9

LEMMA ImageAdded ==
  ASSUME ExtractionTypeOK, PInv, at.element \in DOMAIN document.elements,
         NEW i \in Items, i.order = order, NearestLayer \in Nat, i.source = Source(NearestLayer),
         images' = Append(images, i), boxes' = boxes, order' = order + 1
  PROVE  /\ Ascends(boxes', order') /\ Ascends(images', order') /\ Apart'
         /\ \A a, b \in Painted' : Stacked(a, b)
         /\ Behind(Painted', at.element, NearestLayer)
         /\ \A a \in Painted' : a.source \in Sources
<1>1. /\ boxes \in Seq(Boxes) /\ images \in Seq(Items) /\ order \in Nat
      /\ at.element \in Nat /\ Ascends(boxes, order) /\ Ascends(images, order) /\ Apart
      /\ \A a, b \in Painted : Stacked(a, b)
      /\ Behind(Painted, at.element, NearestLayer)
  BY WalkTypes DEF ExtractionTypeOK, PInv
<1>2. Range(images') = Range(images) \cup {i} /\ Painted' = Painted \cup {i}
  BY <1>1, RangeAppend DEF Painted
<1>3. /\ \A a \in Boxes : a.order \in Nat
      /\ \A a \in Items : a.order \in Nat
      /\ i.source \in Sources
  BY PaintedTypes
<1>4. Ascends(images', order')
  BY <1>1, <1>3, AscendsAppend
<1>5. Ascends(boxes', order')
  BY <1>1, <1>3, AscendsOver
<1>6. \A a \in Painted : a.order \in Nat /\ a.order < order /\ a.source \in Sources
  BY PaintedTypes, Earlier
<1>7. Apart'
  BY <1>1, <1>2, <1>6 DEF Apart, Painted
<1>8. i.source = [element |-> at.element, layer |-> NearestLayer]
  BY DEF Source
<1>9. /\ \A a, b \in Painted \cup {i} : Stacked(a, b)
      /\ Behind(Painted \cup {i}, at.element, NearestLayer)
  BY <1>1, <1>6, <1>8, StackedAdded
<1> QED
  BY <1>2, <1>3, <1>4, <1>5, <1>6, <1>7, <1>9

(* A place in the order that nothing takes.                                *)
LEMMA NothingAdded ==
  ASSUME ExtractionTypeOK, PInv, UNCHANGED <<boxes, images>>, order' \in {order, order + 1}
  PROVE  /\ Ascends(boxes', order') /\ Ascends(images', order') /\ Apart'
         /\ \A a, b \in Painted' : Stacked(a, b)
         /\ Behind(Painted', at.element, NearestLayer)
         /\ \A a \in Painted' : a.source \in Sources
<1>1. /\ boxes \in Seq(Boxes) /\ images \in Seq(Items) /\ order \in Nat
      /\ \A a \in Boxes : a.order \in Nat
      /\ \A a \in Items : a.order \in Nat
  BY PaintedTypes DEF ExtractionTypeOK
<1>2. Ascends(boxes', order') /\ Ascends(images', order')
  BY <1>1, AscendsOver DEF PInv
<1>3. Painted' = Painted /\ Apart'
  BY DEF Painted, PInv, Apart
<1> QED
  BY <1>2, <1>3, PaintedTypes DEF PInv

LEMMA FontsKept ==
  ASSUME FontsKnown, KeysKnown, UNCHANGED <<texts, fonts, seen>>
  PROVE  FontsKnown' /\ KeysKnown'
  BY DEF FontsKnown, KeysKnown

LEMMA ColourPInv ==
  ASSUME ExtractionTypeOK, PInv, PaintColour
  PROVE  PInv'
<1>1. /\ at.element \in DOMAIN document.elements /\ at.part = 0 /\ at \in Places
      /\ at' = [at EXCEPT !.part = 1, !.item = 0]
      /\ UNCHANGED <<document, images, texts, fonts, seen>>
  BY DEF PaintColour, ToPart, ExtractionTypeOK, Places
<1>2. at'.element = at.element /\ at'.part = at.part + 1
  BY <1>1 DEF Places
<1>3. area.x \in Intervals /\ area.y \in Intervals /\ ContentPart(element) \in Nat /\ NearestLayer = ContentPart(element)
  <2>1. NearestLayer = ContentPart(element) - at.part
    BY <1>1, NearestType
  <2> QED
    BY <1>1, <2>1, ElementType DEF Areas
<1> DEFINE box == [x |-> area.x, y |-> area.y, order |-> order, source |-> Source(ContentPart(element))]
<1>4. box \in Boxes /\ box.order = order /\ box.source = Source(NearestLayer)
  <2>1. Source(ContentPart(element)) \in Sources
    BY <1>3, WalkTypes DEF Source, Sources
  <2> QED
    BY <1>3, <2>1 DEF Boxes, ExtractionTypeOK
<1>5. \/ boxes' = Append(boxes, box) /\ order' = order + 1
      \/ UNCHANGED <<boxes, order>>
  BY DEF PaintColour
<1> HIDE DEF box
<1>6. /\ Ascends(boxes', order') /\ Ascends(images', order') /\ Apart'
      /\ \A a, b \in Painted' : Stacked(a, b)
      /\ Behind(Painted', at.element, NearestLayer)
      /\ \A a \in Painted' : a.source \in Sources
  BY <1>1, <1>3, <1>4, <1>5, BoxAdded, NothingAdded
<1>7. Behind(Painted', at'.element, NearestLayer')
  BY <1>1, <1>2, <1>6, Moved
<1>8. FontsKnown' /\ KeysKnown'
  BY <1>1, FontsKept DEF PInv
<1> QED
  BY <1>6, <1>7, <1>8 DEF PInv

LEMMA TilePInv ==
  ASSUME ExtractionTypeOK, PInv, PaintTile
  PROVE  PInv'
<1> DEFINE i == Tile(Tiling(layer, area))
<1>1. /\ InLayers /\ at.item < TilesHere /\ at \in Places
      /\ at' = [at EXCEPT !.item = @ + 1] /\ order' = order + 1
      /\ UNCHANGED <<document, boxes, texts, fonts, seen>>
      /\ images' = Append(images, i) \/ images' = images
  BY DEF PaintTile, ExtractionTypeOK, Places
<1>2. /\ at.element \in DOMAIN document.elements /\ at'.element = at.element /\ at'.part = at.part
  BY <1>1, LayerTypes DEF Places
<1>3. NearestLayer = LayerHere /\ NearestLayer \in Nat
  <2>1. NearestLayer = ContentPart(element) - at.part
    BY <1>2, NearestType
  <2> QED
    BY <1>1, <2>1, LayerTypes DEF LayerHere
<1>4. i \in Items /\ i.order = order /\ i.source = Source(NearestLayer)
  BY <1>1, <1>3, TileTypes DEF Tile, Item
<1> HIDE DEF i
<1>5. /\ Ascends(boxes', order') /\ Ascends(images', order') /\ Apart'
      /\ \A a, b \in Painted' : Stacked(a, b)
      /\ Behind(Painted', at.element, NearestLayer)
      /\ \A a \in Painted' : a.source \in Sources
  BY <1>1, <1>2, <1>3, <1>4, ImageAdded, NothingAdded
<1>6. Behind(Painted', at'.element, NearestLayer')
  BY <1>1, <1>2, <1>5, Moved
<1>7. FontsKnown' /\ KeysKnown'
  BY <1>1, FontsKept DEF PInv
<1> QED
  BY <1>5, <1>6, <1>7 DEF PInv

LEMMA ContentPInv ==
  ASSUME ExtractionTypeOK, PInv, PaintContent
  PROVE  PInv'
<1>1. /\ at.element \in DOMAIN document.elements /\ at.part = ContentPart(element) /\ at \in Places
      /\ at' = [at EXCEPT !.part = at.part + 1, !.item = 0] /\ order' = order + 1
      /\ UNCHANGED <<document, boxes, texts, fonts, seen>>
      /\ (ShowsContent /\ images' = Append(images, ContentItem)) \/ images' = images
  BY DEF PaintContent, ToPart, ExtractionTypeOK, Places
<1>2. at'.element = at.element /\ at'.part = at.part + 1
  BY <1>1 DEF Places
<1>3. NearestLayer = 0
  BY <1>1, NearestType, ElementType
<1>4. ShowsContent =>
        ContentItem \in Items /\ ContentItem.order = order /\ ContentItem.source = Source(NearestLayer)
  BY <1>1, <1>3, ContentTypes DEF ContentItem, Item
<1>5. /\ Ascends(boxes', order') /\ Ascends(images', order') /\ Apart'
      /\ \A a, b \in Painted' : Stacked(a, b)
      /\ Behind(Painted', at.element, NearestLayer)
      /\ \A a \in Painted' : a.source \in Sources
  <2>1. NearestLayer \in Nat
    BY <1>3
  <2> QED
    BY <1>1, <1>4, <2>1, ImageAdded, NothingAdded
<1>6. Behind(Painted', at'.element, NearestLayer')
  BY <1>1, <1>2, <1>5, Moved
<1>7. FontsKnown' /\ KeysKnown'
  BY <1>1, FontsKept DEF PInv
<1> QED
  BY <1>5, <1>6, <1>7 DEF PInv

LEMMA LeavePInv ==
  ASSUME ExtractionTypeOK, PInv, LeaveLayer
  PROVE  PInv'
<1>1. /\ at.element \in DOMAIN document.elements /\ at \in Places
      /\ at' = [at EXCEPT !.part = at.part + 1, !.item = 0]
      /\ UNCHANGED <<document, boxes, images, order, texts, fonts, seen>>
  BY DEF LeaveLayer, InLayers, ToPart, ExtractionTypeOK, Places, lists
<1>2. at'.element = at.element /\ at'.part = at.part + 1
  BY <1>1 DEF Places
<1>3. /\ Ascends(boxes', order') /\ Ascends(images', order') /\ Apart'
      /\ \A a, b \in Painted' : Stacked(a, b)
      /\ Behind(Painted', at.element, NearestLayer)
      /\ \A a \in Painted' : a.source \in Sources
  BY <1>1, NothingAdded
<1>4. Behind(Painted', at'.element, NearestLayer')
  BY <1>1, <1>2, <1>3, Moved
<1>5. FontsKnown' /\ KeysKnown'
  BY <1>1, FontsKept DEF PInv
<1> QED
  BY <1>3, <1>4, <1>5 DEF PInv

(* The element is done: all of it lies behind the next one.                *)
LEMMA PassPInv ==
  ASSUME ExtractionTypeOK, PInv, NextElement
  PROVE  PInv'
<1>1. /\ at'.element = at.element + 1
      /\ UNCHANGED <<document, boxes, images, order, texts, fonts, seen>>
  BY DEF NextElement, Start, lists
<1>2. /\ Ascends(boxes', order') /\ Ascends(images', order') /\ Apart'
      /\ \A a, b \in Painted' : Stacked(a, b)
      /\ Behind(Painted', at.element, NearestLayer)
      /\ \A a \in Painted' : a.source \in Sources
  BY <1>1, NothingAdded
<1>3. Behind(Painted', at'.element, NearestLayer')
  BY <1>1, <1>2, WalkTypes DEF Behind, Sources
<1>4. FontsKnown' /\ KeysKnown'
  BY <1>1, FontsKept DEF PInv
<1> QED
  BY <1>2, <1>3, <1>4 DEF PInv

(* A font is interned: the place it is given holds it, and the others are  *)
(* where they were.                                                        *)
LEMMA Interned ==
  ASSUME ExtractionTypeOK, FontsKnown, KeysKnown, InRuns, at.item < Len(element.runs),
         NEW place \in 1 .. Len(fonts) + 1, Intern(place)
  PROVE  /\ place \in DOMAIN fonts' /\ fonts'[place] = Font(run)
         /\ \A p \in DOMAIN fonts : p \in DOMAIN fonts' /\ fonts'[p] = fonts[p]
         /\ \A k, l \in DOMAIN fonts' : fonts'[k] = fonts'[l] => k = l
         /\ KeysKnown'
<1> DEFINE key == FontKey(run)
           f == Font(run)
<1>1. fonts \in Seq(FontFiles) /\ f \in FontFiles /\ Len(fonts) \in Nat /\ DOMAIN fonts = 1 .. Len(fonts)
  BY RunTypes DEF ExtractionTypeOK
<1>2. f = [file |-> FileOf[key[1]], face |-> key[2]]
  BY DEF Font, FontKey
<1>3. /\ \/ key \in DOMAIN seen /\ place = seen[key] /\ UNCHANGED <<fonts, seen>>
         \/ place \in DOMAIN fonts /\ fonts[place] = f /\ seen' = Insert(seen, key, place) /\ fonts' = fonts
         \/ /\ place = Len(fonts) + 1 /\ \A p \in DOMAIN fonts : fonts[p] # f
            /\ fonts' = Append(fonts, f) /\ seen' = Insert(seen, key, place)
  BY DEF Intern
<1> HIDE DEF key, f
<1>4. CASE key \in DOMAIN seen /\ place = seen[key] /\ UNCHANGED <<fonts, seen>>
  <2>1. place \in DOMAIN fonts /\ fonts[place] = f
    BY <1>2, <1>4 DEF KeysKnown
  <2>2. KeysKnown'
    BY <1>4 DEF KeysKnown
  <2> QED
    BY <1>4, <2>1, <2>2 DEF FontsKnown, f
<1>5. CASE place \in DOMAIN fonts /\ fonts[place] = f /\ seen' = Insert(seen, key, place) /\ fonts' = fonts
  <2>1. KeysKnown'
    BY <1>2, <1>5 DEF KeysKnown, Insert
  <2> QED
    BY <1>5, <2>1 DEF FontsKnown, f
<1>6. CASE /\ place = Len(fonts) + 1 /\ \A p \in DOMAIN fonts : fonts[p] # f
           /\ fonts' = Append(fonts, f) /\ seen' = Insert(seen, key, place)
  <2>1. /\ DOMAIN fonts' = 1 .. Len(fonts) + 1
        /\ \A p \in 1 .. Len(fonts) : fonts'[p] = fonts[p]
        /\ fonts'[Len(fonts) + 1] = f
    BY <1>1, <1>6, AppendProperties
  <2>2. \A p \in DOMAIN fonts : p \in DOMAIN fonts' /\ fonts'[p] = fonts[p]
    BY <1>1, <2>1
  <2>3. place \in DOMAIN fonts' /\ fonts'[place] = f
    BY <1>1, <1>6, <2>1
  <2>4. \A p \in DOMAIN fonts' : p \in DOMAIN fonts \/ p = place
    BY <1>1, <1>6, <2>1
  <2>5. \A k, l \in DOMAIN fonts' : fonts'[k] = fonts'[l] => k = l
    BY <1>6, <2>2, <2>3, <2>4 DEF FontsKnown
  <2>6. KeysKnown'
    BY <1>2, <1>6, <2>2, <2>3 DEF KeysKnown, Insert
  <2> QED
    BY <2>2, <2>3, <2>5, <2>6 DEF f
<1> QED
  BY <1>3, <1>4, <1>5, <1>6

LEMMA ShapePInv ==
  ASSUME ExtractionTypeOK, PInv, ShapeRun
  PROVE  PInv'
<1>1. /\ InRuns /\ at.item < Len(element.runs) /\ at \in Places
      /\ at' = [at EXCEPT !.item = @ + 1]
      /\ UNCHANGED <<document, boxes, images, order>>
  BY DEF ShapeRun, ExtractionTypeOK, Places
<1>2. /\ at.element \in DOMAIN document.elements /\ at'.element = at.element /\ at'.part = at.part
  BY <1>1 DEF InRuns, Places
<1>3. PICK place \in 1 .. Len(fonts) + 1 :
        /\ Intern(place)
        /\ texts' = IF run.glyphs
                    THEN Append(texts, [baseline |-> area.y.from + run.baseline, size |-> run.size,
                                        font |-> place, shaped |-> Font(run)])
                    ELSE texts
  BY DEF ShapeRun
<1>4. /\ place \in DOMAIN fonts' /\ fonts'[place] = Font(run)
      /\ \A p \in DOMAIN fonts : p \in DOMAIN fonts' /\ fonts'[p] = fonts[p]
      /\ \A k, l \in DOMAIN fonts' : fonts'[k] = fonts'[l] => k = l
      /\ KeysKnown'
  BY <1>1, <1>3, Interned DEF PInv
<1> DEFINE t == [baseline |-> area.y.from + run.baseline, size |-> run.size,
                 font |-> place, shaped |-> Font(run)]
<1>5. t.font = place /\ t.shaped = Font(run) /\ (texts' = Append(texts, t) \/ texts' = texts)
  BY <1>3
<1> HIDE DEF t
<1>6. Range(texts') \subseteq Range(texts) \cup {t}
  BY <1>5, RangeAppend DEF ExtractionTypeOK
<1>7. FontsKnown'
  BY <1>4, <1>5, <1>6 DEF PInv, FontsKnown
<1>8. /\ Ascends(boxes', order') /\ Ascends(images', order') /\ Apart'
      /\ \A a, b \in Painted' : Stacked(a, b)
      /\ Behind(Painted', at.element, NearestLayer)
      /\ \A a \in Painted' : a.source \in Sources
  BY <1>1, NothingAdded
<1>9. Behind(Painted', at'.element, NearestLayer')
  BY <1>1, <1>2, <1>8, Moved
<1> QED
  BY <1>4, <1>7, <1>8, <1>9 DEF PInv

LEMMA ForgetPInv == ASSUME Forget PROVE PInv'
  BY DEF Forget, PInv, Ascends, Apart, Painted, Behind, FontsKnown, KeysKnown, Range

LEMMA KeptPInv ==
  ASSUME PInv, UNCHANGED <<document, at, lists>>
  PROVE  PInv'
<1>1. UNCHANGED <<boxes, images, texts, fonts, seen, order>>
  BY DEF lists
<1>2. Painted' = Painted /\ NearestLayer' = NearestLayer
  BY <1>1 DEF Painted, NearestLayer
<1> QED
  BY <1>1, <1>2 DEF PInv, Apart, FontsKnown, KeysKnown

LEMMA InitPInv == Init => PInv
  BY DEF Init, PInv, Ascends, Apart, Painted, Behind, FontsKnown, KeysKnown, Range

LEMMA NextPInv == SInv /\ PInv /\ [Next]_vars => PInv'
<1> SUFFICES ASSUME SInv, PInv, [Next]_vars PROVE PInv'
  OBVIOUS
<1>1. ExtractionTypeOK
  BY DEF SInv, TypeOK
<1>2. ASSUME Rewrite \/ HandOver \/ UNCHANGED vars PROVE PInv'
  <2>1. UNCHANGED <<document, at, lists>>
    BY <1>2 DEF Rewrite, HandOver, vars, extractionVars
  <2> QED
    BY <2>1, KeptPInv
<1>3. ASSUME Parse PROVE PInv'
  BY <1>3, ForgetPInv DEF Parse, Build
<1>4. ASSUME Extract PROVE PInv'
  <2>1. ASSUME LayOut \/ Answer \/ Grow PROVE PInv'
    <3>1. UNCHANGED <<document, at, lists>>
      BY <2>1 DEF LayOut, Answer, Grow
    <3> QED
      BY <3>1, KeptPInv
  <2>2. ASSUME Load PROVE PInv'
    BY <2>2, ForgetPInv DEF Load
  <2> QED
    BY <1>1, <1>4, <2>1, <2>2, ColourPInv, TilePInv, LeavePInv, ContentPInv, ShapePInv, PassPInv
       DEF Extract
<1>5. ASSUME Rasterize PROVE PInv'
  <2>1. UNCHANGED extracted
    BY <1>5 DEF Rasterize, ChooseFrame, DrawBox, DrawImage, DrawGroup, Encode, Compact, Deliver
  <2>2. UNCHANGED <<document, at, lists>>
    BY <2>1 DEF extracted
  <2> QED
    BY <2>2, KeptPInv
<1> QED
  BY <1>2, <1>3, <1>4, <1>5 DEF Next

LEMMA SpecPInv == Spec => []PInv
  BY InitPInv, NextPInv, SpecSInv, PTL DEF Spec

(* Whatever is cropped away, does not load or draws nothing, the list the  *)
(* walk makes of a document is one the renderers can paint by: orders      *)
(* ascend and are not shared, an element's content lies over its layers    *)
(* and these over its colour, elements over those before them, and a text  *)
(* names the font it was shaped in, which is in the table once.            *)
THEOREM ListsArePaintable == Spec => []ListIsPaintable
<1>1. PInv => ListIsPaintable
  BY DEF PInv, ListIsPaintable, Ascends, Apart, Painted, FontsKnown
<1> QED
  BY <1>1, SpecPInv, PTL

LEMMA FullPageFrame ==
  ASSUME ExtractionTypeOK, NEW v \in Viewports, v.density = 1, \E h : IsContentHeight(h)
  PROVE  Frame(FullPage(v), v) = Frame([FullPage(v) EXCEPT !.clip = Absent], v)
<1> DEFINE H == MetricsHeight(v)
           k == [x |-> 0, y |-> 0, width |-> document.width, height |-> H, scale |-> Absent]
           c == [format |-> "png", beyond |-> TRUE, clip |-> k]
           d == [FullPage(v) EXCEPT !.clip = Absent]
<1>1. document.width \in Nat \ {0} /\ v.height \in Nat \ {0} /\ ContentHeight \in Int /\ H \in Int
  <2>1. v.height \in Nat \ {0} /\ document.width \in Nat \ {0}
    BY ExtractionConstants, RasterConstants DEF ExtractionTypeOK
  <2>2. ContentHeight \in Int
    BY ContentHeightType
  <2> QED
    BY <2>1, <2>2 DEF MetricsHeight, Greatest
<1>2. H = Greatest(ContentHeight, v.height)
  BY DEF MetricsHeight
<1> HIDE DEF H
<1>3. FullPage(v) = c /\ d.clip = Absent /\ d.beyond = TRUE
  <2>1. FullPage(v) = c
    BY DEF FullPage, H
  <2>2. [c EXCEPT !.clip = Absent].clip = Absent /\ [c EXCEPT !.clip = Absent].beyond = TRUE
    OBVIOUS
  <2> QED
    BY <2>1, <2>2
<1> HIDE DEF d
<1>4. k \in Clips
  BY <1>1 DEF Clips, Numbers
<1>5. k # Absent /\ 0 # Absent /\ document.width # Absent /\ H # Absent
  BY <1>1, <1>4, RasterConstants
<1>6. Frame(c, v) = Clip(0, 0, document.width, H, 1)
  <2>1. c.clip = k /\ k.x = 0 /\ k.y = 0 /\ k.width = document.width /\ k.height = H /\ k.scale = Absent
    OBVIOUS
  <2> HIDE DEF c, k
  <2>2. Frame(c, v) = Clip(Given(k.x, 0), Given(k.y, 0), Given(k.width, document.width),
                           Given(k.height, v.height), Given(k.scale, 1))
    BY <1>5, <2>1 DEF Frame
  <2>3. Given(k.x, 0) = 0 /\ Given(k.y, 0) = 0 /\ Given(k.width, document.width) = document.width
    BY <1>5, <2>1 DEF Given
  <2>4. Given(k.height, v.height) = H /\ Given(k.scale, 1) = 1
    BY <1>5, <2>1 DEF Given
  <2> QED
    BY <2>2, <2>3, <2>4
<1>7. Frame(d, v) = [x |-> 0, y |-> 0, width |-> document.width,
                     height |-> Greatest(Greatest(1, ContentHeight), v.height), scale |-> 1]
  BY <1>3 DEF Frame
<1>8. Greatest(1, document.width) = document.width
  BY <1>1 DEF Greatest
<1>9. Greatest(1, H) = Greatest(Greatest(1, ContentHeight), v.height)
  BY <1>1, <1>2 DEF Greatest
<1> QED
  BY <1>3, <1>6, <1>7, <1>8, <1>9 DEF Clip, d

(* The two ways a client has of asking for the whole page give one frame,  *)
(* for any document, any clip and any window of single density.            *)
THEOREM FullPageIsOne == Spec => []FullPageEitherWay
<1>1. SInv => FullPageEitherWay
  BY FullPageFrame DEF SInv, TypeOK, Answered, FullPageEitherWay
<1> QED
  BY <1>1, SpecSInv, PTL
-----------------------------------------------------------------------------
(* One buffer, one picture.  A buffer of a resource shows the whole of it, *)
(* as does one an SVG was rasterised into for a layer, and the buffer of a *)
(* cropped tile is that tile's.                                            *)
WholePicture(image, size) ==
  [image |-> image,
   columns |-> <<Greatest(1, size.width), 0, size.width>>,
   rows |-> <<Greatest(1, size.height), 0, size.height>>]

LayerPicture ==
  WholePicture(layer.image, SourceSize(layer.image, TileSize(layer, area)))

(* Made no later than the place where the walk is.                         *)
MadeSoFar(buffer) ==
  \/ buffer[1] < at.element
  \/ /\ buffer[1] = at.element
     /\ buffer[2] < at.part \/ (buffer[2] = at.part /\ buffer[3] <= at.item)

BufferKnown(i) ==
  /\ MadeSoFar(i.buffer)
  /\ i.buffer[1] = 0 =>
       i.buffer = <<0, i.image.name, 0>> /\ Picture(i) = WholePicture(i.image, i.image)
  /\ i.buffer = MadeHere(0) => at.part \in DOMAIN element.layers /\ Picture(i) = LayerPicture

OnePicture == \A i, j \in Range(images) : i.buffer = j.buffer => Picture(i) = Picture(j)

BInv == OnePicture /\ (stage = "walking" => \A i \in Range(images) : BufferKnown(i))

LEMMA WholeTile ==
  ASSUME NEW axis \in Axes, NEW k \in Int, IsWhole(axis, k)
  PROVE  Span(axis, k).unit = axis.unit /\ Span(axis, k).left = 0 /\ Span(axis, k).right = axis.unit
<1>1. /\ axis.from \in Int /\ axis.to \in Int /\ axis.origin \in Int
      /\ axis.tile \in Nat \ {0} /\ axis.unit \in Nat \ {0}
  BY DEF Axes
<1> DEFINE start == TileStart(axis, k)
           first == SeenFrom(axis, k)
           last == SeenTo(axis, k)
<1>2. start \in Int
  BY <1>1 DEF TileStart
<1>3. first = Greatest(start, axis.from) /\ last = Least(start + axis.tile, axis.to)
  BY DEF SeenFrom, SeenTo
<1>4. last - first >= axis.tile
  BY DEF IsWhole
<1> HIDE DEF start, first, last
<1>5. first = start /\ last = start + axis.tile
  BY <1>1, <1>2, <1>3, <1>4 DEF Greatest, Least
<1>6. (first - start) * axis.unit = 0 /\ (last - start) * axis.unit = axis.tile * axis.unit
  BY <1>1, <1>2, <1>5
<1>7. 0 \div axis.tile = 0
  BY <1>1
<1>8. LeftPx(axis, k) = 0
  <2>1. LeftPx(axis, k) = Clamp(((first - start) * axis.unit) \div axis.tile, 0, axis.unit - 1)
    BY DEF LeftPx, first, start
  <2>2. LeftPx(axis, k) = Clamp(0, 0, axis.unit - 1)
    BY <1>6, <1>7, <2>1
  <2> QED
    BY <1>1, <2>2 DEF Clamp, Greatest, Least
<1>9. Ceil(axis.tile * axis.unit, axis.tile) = axis.unit
  <2>1. \A t, u \in Nat \ {0} : (- (t * u)) \div t = - u
    OBVIOUS
  <2>2. (- (axis.tile * axis.unit)) \div axis.tile = - axis.unit
    BY <1>1, <2>1
  <2> QED
    BY <1>1, <2>2 DEF Ceil
<1>10. RightPx(axis, k) = axis.unit
  <2>1. RightPx(axis, k) = Clamp(Ceil((last - start) * axis.unit, axis.tile), LeftPx(axis, k) + 1, axis.unit)
    BY DEF RightPx, last, start
  <2>2. RightPx(axis, k) = Clamp(axis.unit, 1, axis.unit)
    BY <1>6, <1>8, <1>9, <2>1
  <2> QED
    BY <1>1, <2>2 DEF Clamp, Greatest, Least
<1> QED
  BY <1>8, <1>10 DEF Span

LEMMA WholeTilePicture ==
  ASSUME ExtractionTypeOK, InLayers, at.item < TilesHere, TileIsWhole(Tiling(layer, area), at.item)
  PROVE  Picture(Tile(Tiling(layer, area))) = LayerPicture
<1> DEFINE tiling == Tiling(layer, area)
           size == SourceSize(layer.image, TileSize(layer, area))
           i == Tile(tiling)
<1>1. /\ layer \in Layers /\ layer.image \in Images /\ area \in Areas /\ at.item \in Nat
      /\ PaintsTiles(layer, area)
  BY LayerTypes, WalkTypes, TileTypes
<1>2. tiling.x \in Axes /\ tiling.y \in Axes
  BY <1>1, TilingType
<1>3. tiling.x.unit = size.width /\ tiling.y.unit = size.height
  BY DEF Tiling, Axis
<1>4. IsWhole(tiling.x, Column(tiling, at.item)) /\ IsWhole(tiling.y, Row(tiling, at.item))
  BY DEF TileIsWhole
<1>5. i.image = layer.image /\ i.x = Span(tiling.x, Column(tiling, at.item))
      /\ i.y = Span(tiling.y, Row(tiling, at.item))
  BY DEF Tile, Item
<1> HIDE DEF tiling, size, i
<1>6. Column(tiling, at.item) \in Int /\ Row(tiling, at.item) \in Int
  BY <1>1, <1>2, CellType
<1>7. /\ i.x.unit = size.width /\ i.x.left = 0 /\ i.x.right = size.width
      /\ i.y.unit = size.height /\ i.y.left = 0 /\ i.y.right = size.height
  BY <1>2, <1>3, <1>4, <1>5, <1>6, WholeTile
<1>8. Greatest(1, size.width) = size.width /\ Greatest(1, size.height) = size.height
  <2>1. tiling.x.unit \in Nat \ {0} /\ tiling.y.unit \in Nat \ {0}
    BY <1>2 DEF Axes
  <2> QED
    BY <1>3, <2>1 DEF Greatest
<1> QED
  BY <1>5, <1>7, <1>8 DEF Picture, LayerPicture, WholePicture, tiling, size, i

LEMMA BufferParts ==
  ASSUME ExtractionTypeOK
  PROVE  /\ at.element \in Nat \ {0} /\ at.part \in Nat /\ at.item \in Nat
         /\ \A n : MadeHere(n)[1] = at.element /\ MadeHere(n)[2] = at.part /\ MadeHere(n)[3] = n
         /\ \A i \in Items : i.image \in Images /\ i.buffer[1] \in Nat /\ i.buffer[2] \in Nat /\ i.buffer[3] \in Nat
<1>1. at.element \in Nat \ {0} /\ at.part \in Nat /\ at.item \in Nat
  BY WalkTypes
<1>2. \A n : MadeHere(n)[1] = at.element /\ MadeHere(n)[2] = at.part /\ MadeHere(n)[3] = n
  BY DEF MadeHere
<1>3. ASSUME NEW i \in Items
      PROVE  i.image \in Images /\ i.buffer[1] \in Nat /\ i.buffer[2] \in Nat /\ i.buffer[3] \in Nat
  <2>1. i.buffer \in Nat \X Nat \X Nat /\ i.image \in Images
    BY DEF Items
  <2> QED
    BY <2>1
<1> QED
  BY <1>1, <1>2, <1>3

(* The walk only moves on.                                                 *)
Onward ==
  \/ at'.element = at.element /\ at'.part = at.part /\ at'.item = at.item + 1
  \/ at'.element = at.element /\ at'.part = at.part + 1 /\ at'.item = 0
  \/ at'.element = at.element + 1 /\ at'.part = 0 /\ at'.item = 0

LEMMA StillKnown ==
  ASSUME ExtractionTypeOK, UNCHANGED <<document, laid>>, Onward, NEW i \in Items, BufferKnown(i)
  PROVE  BufferKnown(i)'
<1> DEFINE b == i.buffer
<1>1. /\ at.element \in Nat \ {0} /\ at.part \in Nat /\ at.item \in Nat
      /\ b[1] \in Nat /\ b[2] \in Nat /\ b[3] \in Nat
  BY BufferParts
<1>2. MadeSoFar(b) /\ (b[1] = 0 => b = <<0, i.image.name, 0>> /\ Picture(i) = WholePicture(i.image, i.image))
  BY DEF BufferKnown
<1>3. MadeHere(0)' = <<at'.element, at'.part, 0>>
  BY DEF MadeHere
<1>4. CASE at'.element = at.element /\ at'.part = at.part /\ at'.item = at.item + 1
  <2>1. MadeHere(0)' = MadeHere(0)
    BY <1>3, <1>4 DEF MadeHere
  <2>2. element' = element /\ area' = area
    BY <1>4 DEF element, area, Area, Down
  <2>3. layer' = layer
    BY <1>4, <2>2 DEF layer, LayerHere
  <2>4. LayerPicture' = LayerPicture
    BY <2>2, <2>3 DEF LayerPicture
  <2>5. MadeSoFar(b)'
    BY <1>1, <1>2, <1>4 DEF MadeSoFar
  <2> QED
    BY <1>2, <1>4, <2>1, <2>2, <2>4, <2>5 DEF BufferKnown
<1>5. CASE ~ (at'.element = at.element /\ at'.part = at.part /\ at'.item = at.item + 1)
  <2>1. MadeSoFar(b)'
    BY <1>1, <1>2, <1>5 DEF MadeSoFar, Onward
  <2>2. b # MadeHere(0)'
    <3>1. ASSUME b = <<at'.element, at'.part, 0>> PROVE FALSE
      <4>1. b[1] = at'.element /\ b[2] = at'.part
        BY <3>1
      <4> QED
        BY <1>1, <1>2, <1>5, <4>1 DEF MadeSoFar, Onward
    <3> QED
      BY <1>3, <3>1
  <2> QED
    BY <1>2, <2>1, <2>2 DEF BufferKnown
<1> QED
  BY <1>4, <1>5

(* What an item that is added says of its buffer.                          *)
OfResource(i) == i.buffer = <<0, i.image.name, 0>> /\ Picture(i) = WholePicture(i.image, i.image)

OfLayer(i) == i.buffer = MadeHere(0) /\ at.part \in DOMAIN element.layers /\ Picture(i) = LayerPicture

OfCrop(i) == i.buffer = MadeHere(at.item + 1) /\ at'.item = at.item + 1 /\ at'.part = at.part

OfContent(i) == i.buffer = MadeHere(0) /\ at.part \notin DOMAIN element.layers /\ at'.part = at.part + 1

LEMMA BufferAdded ==
  ASSUME ExtractionTypeOK, BInv, stage = "walking", UNCHANGED <<document, laid>>, Onward,
         at'.element = at.element,
         NEW i \in Items, images' = Append(images, i),
         OfResource(i) \/ OfLayer(i) \/ OfCrop(i) \/ OfContent(i)
  PROVE  BInv'
<1>1. images \in Seq(Items) /\ Range(images') = Range(images) \cup {i}
  BY RangeAppend DEF ExtractionTypeOK
<1>2. \A j \in Range(images) : j \in Items
  BY <1>1, ElementOfSeq DEF Range
<1>3. /\ at.element \in Nat \ {0} /\ at.part \in Nat /\ at.item \in Nat
      /\ \A n : MadeHere(n)[1] = at.element /\ MadeHere(n)[2] = at.part /\ MadeHere(n)[3] = n
      /\ \A j \in Items : j.image \in Images /\ j.buffer[1] \in Nat /\ j.buffer[2] \in Nat /\ j.buffer[3] \in Nat
  BY BufferParts
<1>4. ASSUME NEW j \in Range(images), j.buffer = i.buffer PROVE Picture(j) = Picture(i)
  <2>1. BufferKnown(j) /\ j \in Items
    BY <1>2 DEF BInv
  <2>2. CASE OfResource(i)
    <3>1. i.buffer[1] = 0
      BY <2>2 DEF OfResource
    <3>2. j.buffer = <<0, j.image.name, 0>> /\ Picture(j) = WholePicture(j.image, j.image)
      BY <1>4, <2>1, <3>1 DEF BufferKnown
    <3>3. j.image.name = i.image.name
      BY <1>4, <2>2, <3>2 DEF OfResource
    <3>4. j.image = i.image
      BY <1>3, <2>1, <3>3, BackgroundConstants
    <3> QED
      BY <2>2, <3>2, <3>4 DEF OfResource
  <2>3. CASE OfLayer(i)
    BY <1>4, <2>1, <2>3 DEF OfLayer, BufferKnown
  <2>4. CASE OfCrop(i)
    <3>1. j.buffer[1] = at.element /\ j.buffer[2] = at.part /\ j.buffer[3] = at.item + 1
      BY <1>3, <1>4, <2>4 DEF OfCrop
    <3> QED
      BY <1>3, <2>1, <3>1 DEF BufferKnown, MadeSoFar
  <2>5. CASE OfContent(i)
    BY <1>4, <2>1, <2>5 DEF OfContent, BufferKnown
  <2> QED
    BY <2>2, <2>3, <2>4, <2>5
<1>5. OnePicture'
  BY <1>1, <1>4 DEF BInv, OnePicture
<1>6. BufferKnown(i)'
  <2>1. CASE OfResource(i)
    <3>1. i.buffer[1] = 0 /\ i.buffer # MadeHere(0)'
      BY <1>3, <2>1 DEF OfResource, MadeHere
    <3> QED
      BY <1>3, <2>1, <3>1 DEF OfResource, BufferKnown, MadeSoFar
  <2>2. CASE OfLayer(i)
    <3>1. BufferKnown(i)
      BY <1>3, <2>2 DEF OfLayer, BufferKnown, MadeSoFar
    <3> QED
      BY <3>1, StillKnown
  <2>3. CASE OfCrop(i)
    <3>1. i.buffer[1] = at.element /\ i.buffer[2] = at.part /\ i.buffer[3] = at.item + 1
      BY <1>3, <2>3 DEF OfCrop
    <3>2. MadeSoFar(i.buffer)'
      BY <1>3, <2>3, <3>1 DEF MadeSoFar, OfCrop
    <3>3. i.buffer[1] # 0 /\ i.buffer # MadeHere(0)'
      <4>1. MadeHere(0)'[3] = 0
        BY DEF MadeHere
      <4> QED
        BY <1>3, <3>1, <4>1
    <3> QED
      BY <3>2, <3>3 DEF BufferKnown
  <2>4. CASE OfContent(i)
    <3>1. i.buffer[1] = at.element /\ i.buffer[2] = at.part /\ i.buffer[3] = 0
      BY <1>3, <2>4 DEF OfContent
    <3>2. MadeSoFar(i.buffer)'
      BY <1>3, <2>4, <3>1 DEF MadeSoFar, OfContent
    <3>3. i.buffer[1] # 0 /\ i.buffer # MadeHere(0)'
      <4>1. MadeHere(0)'[2] = at.part + 1
        BY <2>4 DEF MadeHere, OfContent
      <4> QED
        BY <1>3, <3>1, <4>1
    <3> QED
      BY <3>2, <3>3 DEF BufferKnown
  <2> QED
    BY <2>1, <2>2, <2>3, <2>4
<1>7. ASSUME NEW j \in Range(images) PROVE BufferKnown(j)'
  BY <1>2, StillKnown DEF BInv
<1> QED
  BY <1>1, <1>5, <1>6, <1>7 DEF BInv

LEMMA KeptBInv ==
  ASSUME ExtractionTypeOK, BInv, images' = images,
         stage' = "walking" => stage = "walking" /\ UNCHANGED <<document, laid>> /\ Onward
  PROVE  BInv'
<1>1. OnePicture'
  BY DEF BInv, OnePicture
<1>2. ASSUME stage' = "walking", NEW i \in Range(images) PROVE BufferKnown(i)'
  <2>1. i \in Items
    BY ElementOfSeq DEF ExtractionTypeOK, Range
  <2> QED
    BY <1>2, <2>1, StillKnown DEF BInv
<1> QED
  BY <1>1, <1>2 DEF BInv

LEMMA TileBInv ==
  ASSUME ExtractionTypeOK, BInv, PaintTile
  PROVE  BInv'
<1> DEFINE tiling == Tiling(layer, area)
           i == Tile(tiling)
<1>1. /\ InLayers /\ at.item < TilesHere /\ stage = "walking" /\ stage' = stage
      /\ at' = [at EXCEPT !.item = @ + 1] /\ UNCHANGED <<document, laid>>
      /\ images' = Append(images, i) \/ images' = images
  BY DEF PaintTile, InLayers, resources
<1>2. Onward /\ at'.element = at.element /\ at'.part = at.part /\ at'.item = at.item + 1
  <2>1. at \in Places
    BY DEF ExtractionTypeOK, Places
  <2> QED
    BY <1>1, <2>1 DEF Onward, Places
<1>3. i \in Items /\ layer.image \in Images
  BY <1>1, TileTypes, LayerTypes
<1>4. i.image = layer.image /\ i.buffer = TileBuffer(tiling)
  BY DEF Tile, Item
<1>5. TileIsWhole(tiling, at.item) => Picture(i) = LayerPicture
  BY <1>1, WholeTilePicture
<1> HIDE DEF i, tiling
<1>6. OfResource(i) \/ OfLayer(i) \/ OfCrop(i)
  <2>1. CASE ~ TileIsWhole(tiling, at.item)
    BY <1>2, <1>4, <2>1 DEF TileBuffer, OfCrop
  <2>2. CASE TileIsWhole(tiling, at.item) /\ layer.image.kind = "svg"
    BY <1>1, <1>4, <1>5, <2>2 DEF TileBuffer, BufferOf, OfLayer, InLayers
  <2>3. CASE TileIsWhole(tiling, at.item) /\ layer.image.kind # "svg"
    <3>1. i.buffer = <<0, i.image.name, 0>>
      BY <1>4, <2>3 DEF TileBuffer, BufferOf
    <3>2. LayerPicture = WholePicture(i.image, i.image)
      BY <1>4, <2>3 DEF LayerPicture, WholePicture, SourceSize
    <3> QED
      BY <1>5, <2>3, <3>1, <3>2 DEF OfResource
  <2> QED
    BY <2>1, <2>2, <2>3
<1>7. CASE images' = Append(images, i)
  BY <1>1, <1>2, <1>3, <1>6, <1>7, BufferAdded
<1>8. CASE images' = images
  BY <1>1, <1>2, <1>8, KeptBInv
<1> QED
  BY <1>1, <1>7, <1>8

LEMMA ContentBInv ==
  ASSUME ExtractionTypeOK, BInv, PaintContent
  PROVE  BInv'
<1> DEFINE i == ContentItem
           image == element.content
           size == SourceSize(image, [width |-> Extent(area.x), height |-> Extent(area.y)])
<1>1. /\ stage = "walking" /\ stage' = stage /\ UNCHANGED <<document, laid>>
      /\ at.element \in DOMAIN document.elements /\ at.part = ContentPart(element)
      /\ at' = [at EXCEPT !.part = at.part + 1, !.item = 0]
      /\ (ShowsContent /\ images' = Append(images, i)) \/ images' = images
  BY DEF PaintContent, ToPart, resources
<1>2. Onward /\ at'.element = at.element /\ at'.part = at.part + 1
  <2>1. at \in Places
    BY DEF ExtractionTypeOK, Places
  <2> QED
    BY <1>1, <2>1 DEF Onward, Places
<1>3. at.part \notin DOMAIN element.layers
  <2>1. element.layers \in Seq(Layers)
    BY <1>1, ElementType
  <2>2. DOMAIN element.layers = 1 .. Len(element.layers) /\ Len(element.layers) \in Nat
    BY <2>1
  <2> QED
    BY <1>1, <2>2 DEF ContentPart
<1>4. /\ i.image = image /\ i.buffer = BufferOf(image)
      /\ i.x = Whole(area.x, size.width) /\ i.y = Whole(area.y, size.height)
  BY DEF ContentItem, Item
<1>5. Picture(i) = WholePicture(image, size)
  BY <1>4 DEF Picture, WholePicture, Whole
<1>6. ShowsContent => i \in Items
  BY <1>1, ContentTypes
<1> HIDE DEF i
<1>7. OfResource(i) \/ OfContent(i)
  <2>1. CASE image.kind = "svg"
    BY <1>2, <1>3, <1>4, <2>1 DEF BufferOf, OfContent
  <2>2. CASE image.kind # "svg"
    <3>1. size = [width |-> image.width, height |-> image.height]
      BY <2>2 DEF SourceSize
    <3>2. Picture(i) = WholePicture(image, image)
      BY <1>5, <3>1 DEF WholePicture
    <3> QED
      BY <1>4, <2>2, <3>2 DEF BufferOf, OfResource
  <2> QED
    BY <2>1, <2>2
<1>8. CASE ShowsContent /\ images' = Append(images, i)
  BY <1>1, <1>2, <1>6, <1>7, <1>8, BufferAdded
<1>9. CASE images' = images
  BY <1>1, <1>2, <1>9, KeptBInv
<1> QED
  BY <1>1, <1>8, <1>9

LEMMA WalkBInv ==
  ASSUME ExtractionTypeOK, BInv, PaintColour \/ LeaveLayer \/ ShapeRun \/ NextElement
  PROVE  BInv'
<1>1. /\ images' = images /\ stage' = stage /\ UNCHANGED <<document, laid>> /\ stage = "walking"
      /\ \/ at.part = 0 /\ at' = [at EXCEPT !.part = 1, !.item = 0]
         \/ at' = [at EXCEPT !.part = at.part + 1, !.item = 0]
         \/ at' = [at EXCEPT !.item = @ + 1]
         \/ at' = [Start EXCEPT !.element = at.element + 1]
  BY DEF PaintColour, LeaveLayer, ShapeRun, NextElement, InLayers, InRuns, ToPart, resources, lists
<1>2. at \in Places
  BY DEF ExtractionTypeOK, Places
<1>3. Onward
  <2>1. CASE at.part = 0 /\ at' = [at EXCEPT !.part = 1, !.item = 0]
    BY <1>2, <2>1 DEF Onward, Places
  <2>2. CASE at' = [at EXCEPT !.part = at.part + 1, !.item = 0]
    BY <1>2, <2>2 DEF Onward, Places
  <2>3. CASE at' = [at EXCEPT !.item = @ + 1]
    BY <1>2, <2>3 DEF Onward, Places
  <2>4. CASE at' = [Start EXCEPT !.element = at.element + 1]
    BY <2>4 DEF Onward, Start
  <2> QED
    BY <1>1, <2>1, <2>2, <2>3, <2>4
<1> QED
  BY <1>1, <1>3, KeptBInv

LEMMA NextBInv == SInv /\ BInv /\ [Next]_vars => BInv'
<1> SUFFICES ASSUME SInv, BInv, [Next]_vars PROVE BInv'
  OBVIOUS
<1>1. ExtractionTypeOK
  BY DEF SInv, TypeOK
<1>2. ASSUME UNCHANGED images, stage' # "walking" PROVE BInv'
  BY <1>1, <1>2, KeptBInv
<1>3. ASSUME UNCHANGED <<stage, document, laid, at, images>> PROVE BInv'
  BY <1>3 DEF BInv, OnePicture, BufferKnown, MadeSoFar, MadeHere, LayerPicture, layer, LayerHere, element, area, Area, Down
<1>4. ASSUME Forget PROVE BInv'
  BY <1>4 DEF Forget, BInv, OnePicture, Range
<1>5. ASSUME Rewrite \/ UNCHANGED vars PROVE BInv'
  <2>1. UNCHANGED <<stage, document, laid, at, images>>
    BY <1>5 DEF Rewrite, vars, extractionVars, resources, lists
  <2> QED
    BY <1>3, <2>1
<1>6. ASSUME HandOver PROVE BInv'
  BY <1>2, <1>6 DEF HandOver, lists
<1>7. ASSUME Parse PROVE BInv'
  BY <1>4, <1>7 DEF Parse, Build
<1>8. ASSUME Extract PROVE BInv'
  <2>1. ASSUME LayOut \/ Answer \/ Grow PROVE BInv'
    BY <1>2, <2>1 DEF LayOut, Answer, Grow, lists
  <2>2. ASSUME Load PROVE BInv'
    BY <1>4, <2>2 DEF Load
  <2> QED
    BY <1>1, <1>8, <2>1, <2>2, TileBInv, ContentBInv, WalkBInv DEF Extract
<1>9. ASSUME Rasterize PROVE BInv'
  <2>1. UNCHANGED images
    BY <1>9 DEF Rasterize, ChooseFrame, DrawBox, DrawImage, DrawGroup, Encode, Compact, Deliver, extracted, lists
  <2>2. stage' # "walking"
    BY <1>9 DEF Rasterize, ChooseFrame, DrawBox, DrawImage, DrawGroup, Encode, Compact, Deliver
  <2> QED
    BY <1>2, <2>1, <2>2
<1> QED
  BY <1>5, <1>6, <1>7, <1>8, <1>9 DEF Next

LEMMA SpecBInv == Spec => []BInv
<1>1. Init => BInv
  BY DEF Init, BInv, OnePicture, Range
<1> QED
  BY <1>1, NextBInv, SpecSInv, PTL DEF Spec

-----------------------------------------------------------------------------
(* The drawing.  Every operation shows its item, lies under what is still  *)
(* to be drawn, and nothing the walk of the three lists has passed was     *)
(* left out.                                                               *)
IsSeenWhole(i) == HasPixels(i) /\ HasPlace(i)

ShowsItsItem(o) ==
  \/ o.kind = "box" /\ o.index \in 1 .. next.box - 1
  \/ /\ o.kind = "image" /\ o.index \in 1 .. next.image - 1
     /\ IsSeenWhole(images[o.index]) /\ o.shows = Picture(images[o.index])
  \/ /\ o.kind = "text" /\ o.index \in 1 .. next.text - 1
     /\ IsReadable(texts[o.index])
     /\ o.shows = [font |-> texts[o.index].shaped, size |-> texts[o.index].size]

LiesUnderTheRest(o) ==
  /\ o.kind = "text" => next.box > Len(boxes) /\ next.image > Len(images)
  /\ o.kind # "text" =>
       /\ \A m \in next.box .. Len(boxes) : OrderOf(o) < boxes[m].order
       /\ \A m \in next.image .. Len(images) : OrderOf(o) < images[m].order

InPaintOrder ==
  \A k, l \in DOMAIN drawn : k < l /\ drawn[l].kind # "text" =>
    drawn[k].kind # "text" /\ OrderOf(drawn[k]) < OrderOf(drawn[l])

IsDrawn(kind, m) == \E o \in Range(drawn) : o.kind = kind /\ o.index = m

NothingPassedOver ==
  /\ \A m \in 1 .. next.box - 1 : IsDrawn("box", m)
  /\ \A m \in 1 .. next.image - 1 : IsSeenWhole(images[m]) => IsDrawn("image", m)
  /\ \A m \in 1 .. next.text - 1 : IsReadable(texts[m]) => IsDrawn("text", m)

CacheKnown ==
  \A b \in DOMAIN cache : \E i \in Range(images) : i.buffer = b /\ cache[b] = Picture(i)

Drawing ==
  /\ next.box <= Len(boxes) + 1 /\ next.image <= Len(images) + 1 /\ next.text <= Len(texts) + 1
  /\ \A o \in Range(drawn) : ShowsItsItem(o) /\ LiesUnderTheRest(o)
  /\ InPaintOrder /\ NothingPassedOver /\ CacheKnown

AllPassed == next.box > Len(boxes) /\ next.image > Len(images) /\ next.text > Len(texts)

DInv ==
  /\ stage \notin {"painting", "encoding", "done"} => drawn = << >>
  /\ stage \in {"painting", "encoding", "done"} => Drawing
  /\ stage \in {"encoding", "done"} => AllPassed

LEMMA AppendIs ==
  ASSUME NEW S, NEW s \in Seq(S), NEW x
  PROVE  /\ Len(s) \in Nat /\ DOMAIN s = 1 .. Len(s) /\ DOMAIN Append(s, x) = 1 .. Len(s) + 1
         /\ \A k \in 1 .. Len(s) : Append(s, x)[k] = s[k]
         /\ Append(s, x)[Len(s) + 1] = x
<1>1. s \in Seq(S \cup {x})
  <2>1. \A k \in 1 .. Len(s) : s[k] \in S \cup {x}
    BY ElementOfSeq
  <2> QED
    BY <2>1, LenProperties, SeqDef
<1> QED
  BY <1>1, AppendProperties

LEMMA ListTypes ==
  ASSUME SInv
  PROVE  /\ next.box \in Nat \ {0} /\ next.image \in Nat \ {0} /\ next.text \in Nat \ {0}
         /\ next \in [box : Nat \ {0}, image : Nat \ {0}, text : Nat \ {0}]
         /\ Len(boxes) \in Nat /\ Len(images) \in Nat /\ Len(texts) \in Nat
         /\ DOMAIN boxes = 1 .. Len(boxes) /\ DOMAIN images = 1 .. Len(images) /\ DOMAIN texts = 1 .. Len(texts)
         /\ \A m \in 1 .. Len(boxes) : boxes[m].order \in Nat /\ boxes[m] \in Range(boxes)
         /\ \A m \in 1 .. Len(images) : images[m].order \in Nat /\ images[m] \in Range(images)
         /\ \A m \in 1 .. Len(texts) : texts[m].size \in Nat /\ texts[m] \in Range(texts)
<1>1. next \in [box : Nat \ {0}, image : Nat \ {0}, text : Nat \ {0}]
  BY DEF SInv, TypeOK, RasterTypeOK
<1>2. boxes \in Seq(Boxes) /\ images \in Seq(Items) /\ texts \in Seq(Texts)
  BY DEF SInv, TypeOK, ExtractionTypeOK
<1>3. /\ Len(boxes) \in Nat /\ Len(images) \in Nat /\ Len(texts) \in Nat
      /\ DOMAIN boxes = 1 .. Len(boxes) /\ DOMAIN images = 1 .. Len(images) /\ DOMAIN texts = 1 .. Len(texts)
  BY <1>2
<1>4. ASSUME NEW m \in 1 .. Len(boxes) PROVE boxes[m].order \in Nat
  <2>1. boxes[m] \in Boxes
    BY <1>2, ElementOfSeq
  <2> QED
    BY <2>1 DEF Boxes
<1>5. ASSUME NEW m \in 1 .. Len(images) PROVE images[m].order \in Nat
  <2>1. images[m] \in Items
    BY <1>2, ElementOfSeq
  <2> QED
    BY <2>1 DEF Items
<1>6. ASSUME NEW m \in 1 .. Len(texts) PROVE texts[m].size \in Nat
  <2>1. texts[m] \in Texts
    BY <1>2, ElementOfSeq
  <2> QED
    BY <2>1 DEF Texts
<1> QED
  BY <1>1, <1>3, <1>4, <1>5, <1>6 DEF Range

LEMMA Merged ==
  ASSUME SInv
  PROVE  /\ ~ BoxIsNext /\ ~ ImageIsNext => next.box > Len(boxes) /\ next.image > Len(images)
         /\ BoxIsNext => next.box \in 1 .. Len(boxes)
         /\ ImageIsNext => next.image \in 1 .. Len(images)
  BY ListTypes DEF BoxIsNext, ImageIsNext

(* An operation before the texts is added.                                 *)
LEMMA OperationAdded ==
  ASSUME SInv, Drawing, NEW o, o.kind # "text",
         UNCHANGED <<boxes, images, texts>>, drawn' = Append(drawn, o),
         next'.box \in {next.box, next.box + 1}, next'.image \in {next.image, next.image + 1},
         next'.text = next.text,
         ShowsItsItem(o)', LiesUnderTheRest(o)',
         \A p \in Range(drawn) : p.kind # "text" /\ OrderOf(p) < OrderOf(o)
  PROVE  /\ \A p \in Range(drawn') : ShowsItsItem(p)' /\ LiesUnderTheRest(p)'
         /\ InPaintOrder'
         /\ \A kind, m : IsDrawn(kind, m) => IsDrawn(kind, m)'
         /\ IsDrawn(o.kind, o.index)'
<1>1. PICK S : drawn \in Seq(S)
  BY DEF SInv
<1>2. Range(drawn') = Range(drawn) \cup {o}
  BY <1>1, RangeAppend
<1>3. ASSUME NEW p \in Range(drawn) PROVE ShowsItsItem(p)' /\ LiesUnderTheRest(p)'
  <2>1. ShowsItsItem(p) /\ LiesUnderTheRest(p) /\ OrderOf(p)' = OrderOf(p) /\ p.kind # "text"
    BY DEF Drawing, OrderOf
  <2>2. ShowsItsItem(p)'
    BY <2>1, ListTypes DEF ShowsItsItem
  <2>3. LiesUnderTheRest(p)'
    BY <2>1, ListTypes DEF LiesUnderTheRest
  <2> QED
    BY <2>2, <2>3
<1>4. InPaintOrder'
  <2>1. /\ Len(drawn) \in Nat /\ DOMAIN drawn = 1 .. Len(drawn) /\ DOMAIN drawn' = 1 .. Len(drawn) + 1
        /\ \A k \in 1 .. Len(drawn) : drawn'[k] = drawn[k]
        /\ drawn'[Len(drawn) + 1] = o
    BY <1>1, AppendIs
  <2>2. \A p : OrderOf(p)' = OrderOf(p)
    BY DEF OrderOf
  <2>3. ASSUME NEW k \in DOMAIN drawn', NEW l \in DOMAIN drawn', k < l, drawn'[l].kind # "text"
        PROVE  drawn'[k].kind # "text" /\ OrderOf(drawn'[k]) < OrderOf(drawn'[l])
    <3>1. k \in DOMAIN drawn /\ drawn'[k] = drawn[k]
      BY <2>1, <2>3
    <3>2. CASE l \in DOMAIN drawn
      BY <2>1, <2>3, <3>1, <3>2 DEF Drawing, InPaintOrder
    <3>3. CASE l \notin DOMAIN drawn
      <4>1. drawn'[l] = o
        BY <2>1, <3>3
      <4>2. drawn[k] \in Range(drawn)
        BY <3>1 DEF Range
      <4> QED
        BY <3>1, <4>1, <4>2
    <3> QED
      BY <3>2, <3>3
  <2> QED
    BY <2>2, <2>3 DEF InPaintOrder, OrderOf
<1> QED
  BY <1>2, <1>3, <1>4 DEF IsDrawn

LEMMA BoxDInv ==
  ASSUME SInv, PInv, DInv, DrawBox
  PROVE  DInv'
<1>1. /\ stage = "painting" /\ stage' = "painting" /\ BoxIsNext /\ Drawing
      /\ UNCHANGED <<boxes, images, texts, cache>>
      /\ next' = [next EXCEPT !.box = @ + 1]
  BY DEF DrawBox, DInv, extracted, lists
<1>2. PICK o : o = Operation("box", next.box, None)
  OBVIOUS
<1>3. drawn' = Append(drawn, o) /\ o.kind = "box" /\ o.index = next.box
  BY <1>2 DEF DrawBox, Operation
<1>4. /\ next.box \in 1 .. Len(boxes)
      /\ next'.box = next.box + 1 /\ next'.image = next.image /\ next'.text = next.text
      /\ next.image \in Nat \ {0} /\ Len(images) \in Nat /\ Len(boxes) \in Nat
      /\ DOMAIN boxes = 1 .. Len(boxes) /\ DOMAIN images = 1 .. Len(images)
      /\ \A m \in 1 .. Len(boxes) : boxes[m].order \in Nat /\ boxes[m] \in Range(boxes)
      /\ \A m \in 1 .. Len(images) : images[m].order \in Nat /\ images[m] \in Range(images)
  <2>1. next.box \in 1 .. Len(boxes)
    BY <1>1, Merged
  <2>2. next'.box = next.box + 1 /\ next'.image = next.image /\ next'.text = next.text
    BY <1>1, ListTypes
  <2> QED
    BY <2>1, <2>2, ListTypes
<1>5. OrderOf(o) = boxes[next.box].order /\ OrderOf(o)' = OrderOf(o)
  BY <1>1, <1>3 DEF OrderOf
<1>6. ASSUME NEW p \in Range(drawn) PROVE p.kind # "text" /\ OrderOf(p) < OrderOf(o)
  <2>1. LiesUnderTheRest(p)
    BY <1>1 DEF Drawing
  <2> QED
    BY <1>4, <1>5, <2>1 DEF LiesUnderTheRest
<1>7. ShowsItsItem(o)'
  BY <1>3, <1>4 DEF ShowsItsItem
<1>8. ASSUME NEW m \in next.box + 1 .. Len(boxes) PROVE OrderOf(o) < boxes[m].order
  <2>1. next.box < m /\ m \in DOMAIN boxes /\ next.box \in DOMAIN boxes
    BY <1>4
  <2> QED
    BY <1>5, <2>1 DEF PInv, Ascends
<1>9. ASSUME NEW m \in next.image .. Len(images) PROVE OrderOf(o) < images[m].order
  <2>1. /\ next.image \in DOMAIN images /\ m \in DOMAIN images /\ next.image <= Len(images)
        /\ next.image = m \/ next.image < m
    BY <1>4
  <2>2. boxes[next.box].order <= images[next.image].order
    BY <1>1, <2>1 DEF BoxIsNext
  <2>3. images[next.image].order <= images[m].order
    BY <1>4, <2>1 DEF PInv, Ascends
  <2>4. boxes[next.box].order # images[m].order
    BY <1>4, <2>1 DEF PInv, Apart
  <2>5. boxes[next.box].order \in Nat /\ images[next.image].order \in Nat /\ images[m].order \in Nat
    BY <1>4, <2>1
  <2> QED
    BY <1>5, <2>2, <2>3, <2>4, <2>5
<1>10. LiesUnderTheRest(o)'
  BY <1>1, <1>3, <1>4, <1>5, <1>8, <1>9 DEF LiesUnderTheRest
<1>11. /\ \A p \in Range(drawn') : ShowsItsItem(p)' /\ LiesUnderTheRest(p)'
       /\ InPaintOrder'
       /\ \A kind, m : IsDrawn(kind, m) => IsDrawn(kind, m)'
       /\ IsDrawn(o.kind, o.index)'
  BY <1>1, <1>3, <1>4, <1>6, <1>7, <1>10, OperationAdded
<1>12. NothingPassedOver'
  <2>1. \A m \in 1 .. next'.box - 1 : IsDrawn("box", m)'
    <3>1. \A m \in 1 .. next'.box - 1 : m \in 1 .. next.box - 1 \/ m = next.box
      BY <1>4
    <3> QED
      BY <1>1, <1>3, <1>11, <3>1 DEF Drawing, NothingPassedOver
  <2>2. /\ \A m \in 1 .. next'.image - 1 : IsSeenWhole(images'[m]) => IsDrawn("image", m)'
        /\ \A m \in 1 .. next'.text - 1 : IsReadable(texts'[m]) => IsDrawn("text", m)'
    BY <1>1, <1>4, <1>11 DEF Drawing, NothingPassedOver
  <2> QED
    BY <2>1, <2>2 DEF NothingPassedOver
<1>13. CacheKnown'
  BY <1>1 DEF Drawing, CacheKnown
<1>14. next'.box <= Len(boxes') + 1 /\ next'.image <= Len(images') + 1 /\ next'.text <= Len(texts') + 1
  <2>1. next'.box <= Len(boxes) + 1
    BY <1>4
  <2> QED
    BY <1>1, <1>4, <2>1 DEF Drawing
<1> QED
  BY <1>1, <1>11, <1>12, <1>13, <1>14 DEF DInv, Drawing

LEMMA ImageDInv ==
  ASSUME SInv, PInv, BInv, DInv, DrawImage
  PROVE  DInv'
<1> DEFINE i == images[next.image]
           known == i.buffer \in DOMAIN cache
           shows == IF known THEN cache[i.buffer] ELSE Picture(i)
<1>1. /\ stage = "painting" /\ stage' = "painting" /\ ImageIsNext /\ Drawing
      /\ UNCHANGED <<boxes, images, texts>>
      /\ next' = [next EXCEPT !.image = @ + 1]
      /\ cache' = IF HasPixels(i) /\ ~ known THEN Insert(cache, i.buffer, shows) ELSE cache
      /\ drawn' = IF IsSeenWhole(i) THEN Append(drawn, Operation("image", next.image, shows)) ELSE drawn
  BY DEF DrawImage, DInv, extracted, lists, IsSeenWhole
<1>2. /\ next.image \in 1 .. Len(images)
      /\ next'.box = next.box /\ next'.image = next.image + 1 /\ next'.text = next.text
      /\ next.box \in Nat \ {0} /\ Len(images) \in Nat /\ Len(boxes) \in Nat
      /\ DOMAIN boxes = 1 .. Len(boxes) /\ DOMAIN images = 1 .. Len(images)
      /\ \A m \in 1 .. Len(boxes) : boxes[m].order \in Nat /\ boxes[m] \in Range(boxes)
      /\ \A m \in 1 .. Len(images) : images[m].order \in Nat /\ images[m] \in Range(images)
  <2>1. next.image \in 1 .. Len(images)
    BY <1>1, Merged
  <2>2. next'.box = next.box /\ next'.image = next.image + 1 /\ next'.text = next.text
    BY <1>1, ListTypes
  <2> QED
    BY <2>1, <2>2, ListTypes
<1>3. i \in Range(images)
  BY <1>2
<1>4. shows = Picture(i)
  <2>1. CASE known
    <3>1. PICK j \in Range(images) : j.buffer = i.buffer /\ cache[i.buffer] = Picture(j)
      BY <1>1, <2>1 DEF Drawing, CacheKnown
    <3>2. Picture(j) = Picture(i)
      BY <1>3, <3>1 DEF BInv, OnePicture
    <3> QED
      BY <2>1, <3>1, <3>2
  <2>2. CASE ~ known
    BY <2>2
  <2> QED
    BY <2>1, <2>2
<1>5. CacheKnown'
  <2>1. CacheKnown /\ \A j : Picture(j)' = Picture(j)
    BY <1>1 DEF Drawing, Picture
  <2>2. CASE cache' = cache
    <3>1. images' = images
      BY <1>1
    <3> QED
      BY <2>1, <2>2, <3>1 DEF CacheKnown, Picture
  <2>3. CASE cache' = Insert(cache, i.buffer, shows)
    <3>1. ASSUME NEW b \in DOMAIN cache'
          PROVE  \E j \in Range(images) : j.buffer = b /\ cache'[b] = Picture(j)
      <4>1. CASE b = i.buffer
        BY <1>3, <1>4, <2>3, <4>1 DEF Insert
      <4>2. CASE b # i.buffer
        <5>1. b \in DOMAIN cache /\ cache'[b] = cache[b]
          BY <2>3, <3>1, <4>2 DEF Insert
        <5> QED
          BY <2>1, <5>1 DEF CacheKnown
      <4> QED
        BY <4>1, <4>2
    <3> QED
      BY <1>1, <3>1 DEF CacheKnown, Picture
  <2> QED
    BY <1>1, <2>2, <2>3
<1>6. PICK o : o = Operation("image", next.image, shows)
  OBVIOUS
<1>7. o.kind = "image" /\ o.index = next.image /\ o.shows = Picture(i)
  BY <1>4, <1>6 DEF Operation
<1>8. OrderOf(o) = i.order /\ OrderOf(o)' = OrderOf(o)
  BY <1>1, <1>7 DEF OrderOf
<1>9. ASSUME NEW p \in Range(drawn) PROVE p.kind # "text" /\ OrderOf(p) < OrderOf(o)
  <2>1. LiesUnderTheRest(p)
    BY <1>1 DEF Drawing
  <2> QED
    BY <1>2, <1>8, <2>1 DEF LiesUnderTheRest
<1>10. ASSUME NEW m \in next.image + 1 .. Len(images) PROVE OrderOf(o) < images[m].order
  <2>1. next.image < m /\ m \in DOMAIN images /\ next.image \in DOMAIN images
    BY <1>2
  <2> QED
    BY <1>8, <2>1 DEF PInv, Ascends
<1>11. ASSUME NEW m \in next.box .. Len(boxes) PROVE OrderOf(o) < boxes[m].order
  <2>1. /\ next.box \in DOMAIN boxes /\ m \in DOMAIN boxes /\ next.box <= Len(boxes)
        /\ next.box = m \/ next.box < m
    BY <1>2
  <2>2. ~ (boxes[next.box].order <= i.order)
    BY <1>1, <2>1 DEF ImageIsNext, BoxIsNext
  <2>3. boxes[next.box].order = boxes[m].order \/ boxes[next.box].order < boxes[m].order
    BY <2>1 DEF PInv, Ascends
  <2>4. boxes[next.box].order \in Nat /\ boxes[m].order \in Nat /\ i.order \in Nat
    BY <1>2, <2>1
  <2> QED
    BY <1>8, <2>2, <2>3, <2>4
<1>12. next'.box <= Len(boxes') + 1 /\ next'.image <= Len(images') + 1 /\ next'.text <= Len(texts') + 1
  <2>1. next'.image <= Len(images) + 1
    BY <1>2
  <2> QED
    BY <1>1, <1>2, <2>1 DEF Drawing
<1>13. /\ \A p \in Range(drawn') : ShowsItsItem(p)' /\ LiesUnderTheRest(p)'
       /\ InPaintOrder'
       /\ \A kind, m : IsDrawn(kind, m) => IsDrawn(kind, m)'
       /\ IsSeenWhole(i) => IsDrawn("image", o.index)'
  <2>1. CASE IsSeenWhole(i)
    <3>1. drawn' = Append(drawn, o)
      BY <1>1, <1>6, <2>1
    <3>2. ShowsItsItem(o)'
      <4>1. next.image \in 1 .. next'.image - 1
        BY <1>2
      <4> QED
        BY <1>1, <1>7, <2>1, <4>1 DEF ShowsItsItem, IsSeenWhole, HasPixels, HasPlace, Picture
    <3>3. LiesUnderTheRest(o)'
      BY <1>1, <1>2, <1>7, <1>8, <1>10, <1>11 DEF LiesUnderTheRest
    <3>4. /\ \A p \in Range(drawn') : ShowsItsItem(p)' /\ LiesUnderTheRest(p)'
          /\ InPaintOrder'
          /\ \A kind, m : IsDrawn(kind, m) => IsDrawn(kind, m)'
          /\ IsDrawn(o.kind, o.index)'
      BY <1>1, <1>2, <1>7, <1>9, <3>1, <3>2, <3>3, OperationAdded
    <3> QED
      BY <1>7, <3>4
  <2>2. CASE ~ IsSeenWhole(i)
    <3>1. drawn' = drawn
      BY <1>1, <2>2
    <3>2. ASSUME NEW p \in Range(drawn) PROVE ShowsItsItem(p)' /\ LiesUnderTheRest(p)'
      <4>1. ShowsItsItem(p) /\ LiesUnderTheRest(p) /\ OrderOf(p)' = OrderOf(p) /\ p.kind # "text"
        BY <1>1, <1>9 DEF Drawing, OrderOf
      <4>2. ShowsItsItem(p)'
        BY <1>1, <1>2, <4>1 DEF ShowsItsItem, IsSeenWhole, HasPixels, HasPlace, Picture
      <4>3. LiesUnderTheRest(p)'
        BY <1>1, <1>2, <4>1 DEF LiesUnderTheRest
      <4> QED
        BY <4>2, <4>3
    <3>3. InPaintOrder'
      BY <1>1, <3>1 DEF Drawing, InPaintOrder, OrderOf
    <3> QED
      BY <2>2, <3>1, <3>2, <3>3 DEF IsDrawn
  <2> QED
    BY <2>1, <2>2
<1>14. NothingPassedOver'
  <2>1. \A m \in 1 .. next'.image - 1 : IsSeenWhole(images'[m]) => IsDrawn("image", m)'
    <3>1. \A m \in 1 .. next'.image - 1 : m \in 1 .. next.image - 1 \/ m = next.image
      BY <1>2
    <3> QED
      BY <1>1, <1>7, <1>13, <3>1 DEF Drawing, NothingPassedOver, IsSeenWhole, HasPixels, HasPlace
  <2>2. /\ \A m \in 1 .. next'.box - 1 : IsDrawn("box", m)'
        /\ \A m \in 1 .. next'.text - 1 : IsReadable(texts'[m]) => IsDrawn("text", m)'
    BY <1>1, <1>2, <1>13 DEF Drawing, NothingPassedOver
  <2> QED
    BY <2>1, <2>2 DEF NothingPassedOver, IsSeenWhole, HasPixels, HasPlace
<1> QED
  BY <1>1, <1>5, <1>12, <1>13, <1>14 DEF DInv, Drawing

LEMMA ConcatIs ==
  ASSUME NEW S, NEW s \in Seq(S), NEW n \in Nat, NEW f, f = [k \in 1 .. n |-> f[k]]
  PROVE  /\ Len(s) \in Nat /\ DOMAIN s = 1 .. Len(s) /\ DOMAIN (s \o f) = 1 .. Len(s) + n
         /\ \A k \in 1 .. Len(s) : (s \o f)[k] = s[k]
         /\ \A k \in 1 .. n : (s \o f)[Len(s) + k] = f[k]
<1> DEFINE T == S \cup {f[k] : k \in 1 .. n}
<1>1. \A k \in 1 .. n : f[k] \in T
  OBVIOUS
<1>2. s \in Seq(T)
  <2>1. \A k \in 1 .. Len(s) : s[k] \in T
    BY ElementOfSeq
  <2> QED
    BY <2>1, LenProperties, SeqDef
<1> HIDE DEF T
<1>3. f \in Seq(T) /\ Len(f) = n
  <2>1. f \in [1 .. n -> T]
    BY <1>1
  <2> QED
    BY <2>1, SeqDef, LenProperties
<1>4. /\ s \o f \in Seq(T) /\ Len(s \o f) = Len(s) + n
      /\ \A k \in 1 .. Len(s) + n : (s \o f)[k] = IF k <= Len(s) THEN s[k] ELSE f[k - Len(s)]
  BY <1>2, <1>3, ConcatProperties
<1>5. Len(s) \in Nat /\ DOMAIN s = 1 .. Len(s) /\ DOMAIN (s \o f) = 1 .. Len(s) + n
  BY <1>2, <1>4
<1>6. \A k \in 1 .. Len(s) : k \in 1 .. Len(s) + n /\ k <= Len(s)
  BY <1>5
<1>7. \A k \in 1 .. n : Len(s) + k \in 1 .. Len(s) + n /\ ~ (Len(s) + k <= Len(s)) /\ (Len(s) + k) - Len(s) = k
  BY <1>5
<1> QED
  BY <1>4, <1>5, <1>6, <1>7

LEMMA GroupDInv ==
  ASSUME SInv, PInv, DInv, DrawGroup
  PROVE  DInv'
<1> DEFINE t == texts[next.text]
           readable == Scaler(t).font.file \notin Unreadable /\ t.size # 0
           n(last) == last - next.text + 1
           group(last) == [k \in 1 .. n(last) |-> Operation("text", next.text + k - 1, Scaler(t))]
<1>1. /\ stage = "painting" /\ stage' = "painting" /\ Drawing /\ ~ BoxIsNext /\ ~ ImageIsNext
      /\ UNCHANGED <<boxes, images, texts, cache>>
  BY DEF DrawGroup, DInv, extracted, lists
<1>2. PICK last \in next.text .. Len(texts) :
        /\ IsGroup(next.text, last)
        /\ drawn' = IF ~ readable THEN drawn ELSE drawn \o group(last)
        /\ next' = [next EXCEPT !.text = last + 1]
  BY DEF DrawGroup
<1>3. /\ next.text \in Nat \ {0} /\ last \in Nat /\ next.text <= last /\ last <= Len(texts)
      /\ next'.box = next.box /\ next'.image = next.image /\ next'.text = last + 1
      /\ Len(boxes) \in Nat /\ Len(images) \in Nat /\ Len(texts) \in Nat
      /\ next.box > Len(boxes) /\ next.image > Len(images)
      /\ next.box \in Nat /\ next.image \in Nat
      /\ \A m \in 1 .. Len(texts) : texts[m].size \in Nat /\ texts[m] \in Range(texts)
  <2>1. /\ next.text \in Nat \ {0} /\ Len(texts) \in Nat
        /\ next'.box = next.box /\ next'.image = next.image /\ next'.text = last + 1
    BY <1>2, ListTypes
  <2>2. last \in Nat /\ next.text <= last /\ last <= Len(texts)
    BY <2>1
  <2> QED
    BY <1>1, <2>1, <2>2, ListTypes, Merged
<1>4. ASSUME NEW m \in next.text .. last
      PROVE  texts[m].size = t.size /\ texts[m].shaped = Scaler(t).font
  <2>1. GroupKey(texts[m]) = GroupKey(t)
    BY <1>2 DEF IsGroup
  <2>2. texts[m].font = t.font /\ texts[m].size = t.size
    BY <2>1 DEF GroupKey
  <2>3. m \in 1 .. Len(texts)
    BY <1>3
  <2>4. fonts[texts[m].font] = texts[m].shaped
    BY <1>3, <2>3 DEF PInv, FontsKnown
  <2> QED
    BY <2>2, <2>4 DEF Scaler
<1>5. t.size \in Nat
  <2>1. next.text \in 1 .. Len(texts)
    BY <1>3
  <2> QED
    BY <1>3, <2>1
<1>6. ASSUME NEW m \in next.text .. last PROVE IsReadable(texts[m]) <=> readable
  BY <1>4, <1>5 DEF IsReadable
<1>7. PICK S : drawn \in Seq(S)
  BY DEF SInv
<1>8. PICK g : g = group(last)
  OBVIOUS
<1>9. /\ n(last) \in Nat /\ g = [k \in 1 .. n(last) |-> g[k]]
      /\ \A k \in 1 .. n(last) :
           /\ g[k].kind = "text" /\ g[k].index = next.text + k - 1 /\ g[k].index \in next.text .. last
           /\ g[k].shows = Scaler(t)
  <2>1. n(last) \in Nat /\ \A k \in 1 .. n(last) : next.text + k - 1 \in next.text .. last
    BY <1>3
  <2> HIDE DEF n
  <2>2. g = [k \in 1 .. n(last) |-> g[k]]
    BY <1>8
  <2> QED
    BY <1>8, <2>1, <2>2 DEF Operation
<1>10. PICK count \in Nat : count = n(last)
  BY <1>9
<1>11. ASSUME NEW p \in Range(drawn) PROVE ShowsItsItem(p)' /\ LiesUnderTheRest(p)'
  <2>1. ShowsItsItem(p) /\ LiesUnderTheRest(p)
    BY <1>1 DEF Drawing
  <2>2. ShowsItsItem(p)'
    <3>1. \A m \in 1 .. next.text - 1 : m \in 1 .. next'.text - 1
      BY <1>3
    <3> QED
      BY <1>1, <1>3, <2>1, <3>1 DEF ShowsItsItem, IsSeenWhole, HasPixels, HasPlace, Picture, IsReadable
  <2>3. LiesUnderTheRest(p)'
    BY <1>1, <1>3, <2>1 DEF LiesUnderTheRest
  <2> QED
    BY <2>2, <2>3
<1>12. /\ CacheKnown' /\ next'.box <= Len(boxes') + 1 /\ next'.image <= Len(images') + 1
       /\ next'.text <= Len(texts') + 1
  <2>1. next'.text <= Len(texts) + 1
    BY <1>3
  <2> QED
    BY <1>1, <1>3, <2>1 DEF Drawing, CacheKnown
<1>13. ASSUME \A kind, m : IsDrawn(kind, m) => IsDrawn(kind, m)',
              \A m \in next.text .. last : readable => IsDrawn("text", m)'
       PROVE  NothingPassedOver'
  <2>1. /\ \A m \in 1 .. next'.box - 1 : IsDrawn("box", m)'
        /\ \A m \in 1 .. next'.image - 1 : IsSeenWhole(images'[m]) => IsDrawn("image", m)'
    BY <1>1, <1>3, <1>13 DEF Drawing, NothingPassedOver
  <2>2. ASSUME NEW m \in 1 .. next'.text - 1, IsReadable(texts[m]) PROVE IsDrawn("text", m)'
    <3>1. m \in 1 .. next.text - 1 \/ m \in next.text .. last
      BY <1>3
    <3> QED
      BY <1>1, <1>6, <1>13, <2>2, <3>1 DEF Drawing, NothingPassedOver
  <2> QED
    BY <1>1, <2>1, <2>2 DEF NothingPassedOver, IsSeenWhole, HasPixels, HasPlace, IsReadable
<1> HIDE DEF n, group
<1>14. CASE ~ readable
  <2>1. drawn' = drawn
    BY <1>2, <1>14
  <2>2. InPaintOrder'
    BY <1>1, <2>1 DEF Drawing, InPaintOrder, OrderOf
  <2>3. NothingPassedOver'
    BY <1>13, <1>14, <2>1 DEF IsDrawn
  <2> QED
    BY <1>1, <1>11, <1>12, <2>1, <2>2, <2>3 DEF DInv, Drawing
<1>15. CASE readable
  <2>1. drawn' = drawn \o g
    BY <1>2, <1>8, <1>15
  <2>2. /\ Len(drawn) \in Nat /\ DOMAIN drawn = 1 .. Len(drawn) /\ DOMAIN drawn' = 1 .. Len(drawn) + count
        /\ \A k \in 1 .. Len(drawn) : drawn'[k] = drawn[k]
        /\ \A k \in 1 .. count : drawn'[Len(drawn) + k] = g[k]
    BY <1>7, <1>9, <1>10, <2>1, ConcatIs
  <2>3. \A l \in DOMAIN drawn' :
          l \in DOMAIN drawn \/ (l - Len(drawn) \in 1 .. count /\ drawn'[l] = g[l - Len(drawn)])
    <3>1. \A l \in 1 .. Len(drawn) + count :
            l \in 1 .. Len(drawn) \/ (l - Len(drawn) \in 1 .. count /\ Len(drawn) + (l - Len(drawn)) = l)
      BY <2>2
    <3> QED
      BY <2>2, <3>1
  <2>4. ASSUME NEW k \in 1 .. count PROVE ShowsItsItem(g[k])' /\ LiesUnderTheRest(g[k])'
    <3>1. /\ g[k].kind = "text" /\ g[k].index \in next.text .. last /\ g[k].shows = Scaler(t)
      BY <1>9, <1>10
    <3>2. IsReadable(texts[g[k].index])
      BY <1>6, <1>15, <3>1
    <3>3. g[k].shows = [font |-> texts[g[k].index].shaped, size |-> texts[g[k].index].size]
      BY <1>4, <3>1 DEF Scaler
    <3>4. g[k].index \in 1 .. next'.text - 1
      BY <1>3, <3>1
    <3> QED
      BY <1>1, <1>3, <3>1, <3>2, <3>3, <3>4 DEF ShowsItsItem, LiesUnderTheRest, IsReadable
  <2>5. ASSUME NEW p \in Range(drawn') PROVE ShowsItsItem(p)' /\ LiesUnderTheRest(p)'
    <3>1. PICK l \in DOMAIN drawn' : p = drawn'[l]
      BY <2>5 DEF Range
    <3>2. CASE l \in DOMAIN drawn
      <4>1. p \in Range(drawn)
        BY <2>2, <3>1, <3>2 DEF Range
      <4> QED
        BY <1>11, <4>1
    <3>3. CASE l \notin DOMAIN drawn
      BY <2>3, <2>4, <3>1, <3>3
    <3> QED
      BY <3>2, <3>3
  <2>6. InPaintOrder'
    <3>1. ASSUME NEW k \in DOMAIN drawn', NEW l \in DOMAIN drawn', k < l, drawn'[l].kind # "text"
          PROVE  drawn'[k].kind # "text" /\ OrderOf(drawn'[k]) < OrderOf(drawn'[l])
      <4>1. l \in DOMAIN drawn
        BY <1>9, <1>10, <2>3, <3>1
      <4>2. k \in DOMAIN drawn
        BY <2>2, <3>1, <4>1
      <4>3. drawn'[k] = drawn[k] /\ drawn'[l] = drawn[l]
        BY <2>2, <4>1, <4>2
      <4>4. InPaintOrder
        BY <1>1 DEF Drawing
      <4> QED
        BY <3>1, <4>1, <4>2, <4>3, <4>4 DEF InPaintOrder, OrderOf
    <3> QED
      BY <1>1, <3>1 DEF InPaintOrder, OrderOf
  <2>7. \A kind, m : IsDrawn(kind, m) => IsDrawn(kind, m)'
    <3>1. \A p \in Range(drawn) : p \in Range(drawn')
      <4>1. \A l \in DOMAIN drawn : l \in DOMAIN drawn' /\ drawn'[l] = drawn[l]
        BY <2>2
      <4> QED
        BY <4>1 DEF Range
    <3> QED
      BY <3>1 DEF IsDrawn
  <2>8. ASSUME NEW m \in next.text .. last PROVE IsDrawn("text", m)'
    <3>1. PICK k \in 1 .. count : next.text + k - 1 = m
      <4>1. m - next.text + 1 \in 1 .. count /\ next.text + (m - next.text + 1) - 1 = m
        <5>1. \A x, y, z \in Int : z \in x .. y => z - x + 1 \in 1 .. y - x + 1 /\ x + (z - x + 1) - 1 = z
          OBVIOUS
        <5>2. next.text \in Int /\ last \in Int /\ m \in Int /\ count = last - next.text + 1
          BY <1>3, <1>10 DEF n
        <5> QED
          BY <5>1, <5>2
      <4> QED
        BY <4>1
    <3>2. g[k].kind = "text" /\ g[k].index = m
      BY <1>9, <1>10, <3>1
    <3>3. Len(drawn) + k \in DOMAIN drawn' /\ drawn'[Len(drawn) + k] = g[k]
      BY <2>2
    <3> QED
      BY <3>2, <3>3 DEF IsDrawn, Range
  <2>9. NothingPassedOver'
    BY <1>13, <2>7, <2>8
  <2> QED
    BY <1>1, <1>12, <2>5, <2>6, <2>9 DEF DInv, Drawing
<1> QED
  BY <1>14, <1>15

LEMMA NextDInv == SInv /\ PInv /\ BInv /\ DInv /\ [Next]_vars => DInv'
<1> SUFFICES ASSUME SInv, PInv, BInv, DInv, [Next]_vars PROVE DInv'
  OBVIOUS
<1>1. ASSUME UNCHANGED <<boxes, images, texts, next, cache, drawn>>,
             stage' = stage \/ (stage' \notin {"encoding", "done"} /\ stage' # "painting"
                                /\ stage \notin {"painting", "encoding", "done"})
      PROVE  DInv'
  <2>1. Drawing => Drawing'
    BY <1>1 DEF Drawing, ShowsItsItem, LiesUnderTheRest, InPaintOrder, NothingPassedOver, CacheKnown,
                IsDrawn, OrderOf, IsSeenWhole, HasPixels, HasPlace, Picture, IsReadable
  <2> QED
    BY <1>1, <2>1 DEF DInv, AllPassed
<1>2. ASSUME drawn' = drawn, stage \notin {"painting", "encoding", "done"},
             stage' \notin {"painting", "encoding", "done"}
      PROVE  DInv'
  BY <1>2 DEF DInv
<1>3. ASSUME Rewrite \/ UNCHANGED vars PROVE DInv'
  <2>1. UNCHANGED <<boxes, images, texts, next, cache, drawn, stage>>
    BY <1>3 DEF Rewrite, vars, extractionVars, rasterVars, drawing, lists
  <2> QED
    BY <1>1, <2>1
<1>4. ASSUME HandOver PROVE DInv'
  BY <1>2, <1>4 DEF HandOver, rasterVars, drawing
<1>5. ASSUME Parse PROVE DInv'
  BY <1>2, <1>5 DEF Parse, Build, rasterVars, drawing
<1>6. ASSUME Extract, UNCHANGED rasterVars PROVE DInv'
  <2>1. drawn' = drawn
    BY <1>6 DEF rasterVars, drawing
  <2>2. stage \in {"laying", "loading", "walking"} /\ stage' \in {"laying", "loading", "walking", "laid"}
    BY <1>6 DEF Extract, LayOut, Load, PaintColour, PaintTile, LeaveLayer, PaintContent, ShapeRun, NextElement,
                Answer, Grow, Walked, InLayers, InRuns
  <2> QED
    BY <1>2, <2>1, <2>2
<1>7. ASSUME ChooseFrame PROVE DInv'
  <2>1. /\ drawn' = << >> /\ cache' = << >> /\ next' = [box |-> 1, image |-> 1, text |-> 1]
        /\ stage' \in {"painting", "failed"} /\ UNCHANGED <<boxes, images, texts>>
    BY <1>7 DEF ChooseFrame, extracted, lists
  <2>2. next'.box = 1 /\ next'.image = 1 /\ next'.text = 1
    BY <2>1
  <2>3. Len(boxes) \in Nat /\ Len(images) \in Nat /\ Len(texts) \in Nat
    BY ListTypes
  <2>4. InPaintOrder' /\ CacheKnown' /\ \A o \in Range(drawn') : ShowsItsItem(o)' /\ LiesUnderTheRest(o)'
    BY <2>1 DEF InPaintOrder, CacheKnown, Range
  <2>5. NothingPassedOver'
    <3>1. \A m : m \notin 1 .. 1 - 1
      OBVIOUS
    <3> QED
      BY <2>2, <3>1 DEF NothingPassedOver
  <2>6. next'.box <= Len(boxes') + 1 /\ next'.image <= Len(images') + 1 /\ next'.text <= Len(texts') + 1
    BY <2>1, <2>2, <2>3
  <2>7. Drawing'
    BY <2>4, <2>5, <2>6 DEF Drawing
  <2> QED
    BY <2>1, <2>7 DEF DInv
<1>8. ASSUME Encode \/ Compact \/ Deliver PROVE DInv'
  <2>1. /\ UNCHANGED <<boxes, images, texts, next, cache, drawn>>
        /\ stage \in {"painting", "encoding"} /\ stage' \in {"encoding", "done"}
    BY <1>8 DEF Encode, Compact, Deliver, extracted, lists, drawing
  <2>2. Drawing => Drawing'
    BY <2>1 DEF Drawing, ShowsItsItem, LiesUnderTheRest, InPaintOrder, NothingPassedOver, CacheKnown,
                IsDrawn, OrderOf, IsSeenWhole, HasPixels, HasPlace, Picture, IsReadable
  <2>3. AllPassed
    <3>1. CASE Encode
      BY <3>1, Merged DEF Encode, AllPassed
    <3>2. CASE Compact \/ Deliver
      BY <3>2 DEF Compact, Deliver, DInv
    <3> QED
      BY <1>8, <3>1, <3>2
  <2> QED
    BY <2>1, <2>2, <2>3 DEF DInv, AllPassed
<1> QED
  BY <1>3, <1>4, <1>5, <1>6, <1>7, <1>8, BoxDInv, ImageDInv, GroupDInv DEF Next, Rasterize

LEMMA SpecDInv == Spec => []DInv
<1>1. Init => DInv
  BY DEF Init, DInv
<1> QED
  BY <1>1, NextDInv, SpecSInv, SpecPInv, SpecBInv, PTL DEF Spec

(* For every set of documents, of fonts and of commands: the picture is    *)
(* the list, with the merge of boxes and bitmaps by paint order, one cache *)
(* of premultiplied pixels over all the items that share buffers, and one  *)
(* scaler a group of texts.                                                *)
THEOREM PicturesAreTheList == Spec => []DrawnAsExtracted
<1>1. SInv /\ DInv => DrawnAsExtracted
  <2> SUFFICES ASSUME SInv, DInv PROVE DrawnAsExtracted
    OBVIOUS
  <2>1. drawn = << >> \/ Drawing
    BY DEF DInv
  <2>2. \A k, l \in DOMAIN drawn : k < l /\ drawn[l].kind # "text" =>
          drawn[k].kind # "text" /\ OrderOf(drawn[k]) < OrderOf(drawn[l])
    BY <2>1 DEF Drawing, InPaintOrder
  <2>3. ASSUME NEW o \in Range(drawn)
        PROVE  /\ o.kind = "image" => o.shows = Picture(images[o.index])
               /\ o.kind = "text" => o.shows = [font |-> texts[o.index].shaped, size |-> texts[o.index].size]
    BY <2>1, <2>3 DEF Drawing, ShowsItsItem, Range
  <2>4. ASSUME stage \in {"encoding", "done"}
        PROVE  LET Drawn(kind) == {o.index : o \in {p \in Range(drawn) : p.kind = kind}} IN
                 /\ Drawn("box") = DOMAIN boxes
                 /\ Drawn("image") = {k \in DOMAIN images : HasPixels(images[k]) /\ HasPlace(images[k])}
                 /\ Drawn("text") = {k \in DOMAIN texts : IsReadable(texts[k])}
    <3> DEFINE Drawn(kind) == {o.index : o \in {p \in Range(drawn) : p.kind = kind}}
    <3>1. Drawing /\ AllPassed
      BY <2>4 DEF DInv
    <3>2. /\ next.box = Len(boxes) + 1 /\ next.image = Len(images) + 1 /\ next.text = Len(texts) + 1
          /\ DOMAIN boxes = 1 .. next.box - 1 /\ DOMAIN images = 1 .. next.image - 1
          /\ DOMAIN texts = 1 .. next.text - 1
      <4>1. /\ next.box = Len(boxes) + 1 /\ next.image = Len(images) + 1 /\ next.text = Len(texts) + 1
        BY <3>1, ListTypes DEF Drawing, AllPassed
      <4>2. next.box - 1 = Len(boxes) /\ next.image - 1 = Len(images) /\ next.text - 1 = Len(texts)
        BY <4>1, ListTypes
      <4> QED
        BY <4>1, <4>2, ListTypes
    <3>3. \A kind, m : m \in Drawn(kind) <=> IsDrawn(kind, m)
      BY DEF IsDrawn
    <3> HIDE DEF Drawn
    <3>4. ASSUME NEW m, IsDrawn("box", m) PROVE m \in DOMAIN boxes
      BY <3>1, <3>2, <3>4 DEF IsDrawn, Drawing, ShowsItsItem
    <3>5. ASSUME NEW m, IsDrawn("image", m) PROVE m \in DOMAIN images /\ IsSeenWhole(images[m])
      BY <3>1, <3>2, <3>5 DEF IsDrawn, Drawing, ShowsItsItem
    <3>6. ASSUME NEW m, IsDrawn("text", m) PROVE m \in DOMAIN texts /\ IsReadable(texts[m])
      BY <3>1, <3>2, <3>6 DEF IsDrawn, Drawing, ShowsItsItem
    <3>7. Drawn("box") = DOMAIN boxes
      BY <3>1, <3>2, <3>3, <3>4 DEF Drawing, NothingPassedOver
    <3>8. Drawn("image") = {k \in DOMAIN images : HasPixels(images[k]) /\ HasPlace(images[k])}
      BY <3>1, <3>2, <3>3, <3>5 DEF Drawing, NothingPassedOver, IsSeenWhole
    <3>9. Drawn("text") = {k \in DOMAIN texts : IsReadable(texts[k])}
      BY <3>1, <3>2, <3>3, <3>6 DEF Drawing, NothingPassedOver
    <3> QED
      BY <3>7, <3>8, <3>9 DEF Drawn
  <2> QED
    BY <2>2, <2>3, <2>4 DEF DrawnAsExtracted
<1> QED
  BY <1>1, SpecSInv, SpecDInv, PTL
-----------------------------------------------------------------------------
(* The rewriting, whole.  The element being measured has stayed open, at   *)
(* the depth that is counted, and no text copied before the end of the     *)
(* document holds the start of an element.                                 *)
LevelOf(h, i, j) ==
  Cardinality({k \in i .. j : h[k] = "open"}) - Cardinality({k \in i .. j : h[k] = "close"})

TornAtTheEnd == \A k \in DOMAIN html : html[k] = "torn" => k = Len(html)

PiecesFollow ==
  /\ \A k \in DOMAIN pieces :
       /\ pieces[k].from = IF k = 1 THEN 1 ELSE pieces[k - 1].to + 1
       /\ pieces[k].kind = "img" => Element(pieces[k].from, pieces[k].to)
  /\ rest = IF pieces = << >> THEN 1 ELSE pieces[Len(pieces)].to + 1

Measured ==
  /\ rest \in DOMAIN html /\ Starts(rest) /\ rest <= token
  /\ rest < token => html[rest] = "open"
  /\ \A k \in rest .. token - 1 : LevelOf(html, rest, k) > 0
  /\ depth = LevelOf(html, rest, token - 1)

IsPlain(k) == \A p \in pieces[k].from .. pieces[k].to : ~ Starts(p)

IsLeft(k) ==
  \A p \in DOMAIN html :
    /\ pieces[k].kind = "text" /\ p \in pieces[k].from .. pieces[k].to
    /\ Starts(p) /\ \A q \in pieces[k].from .. p - 1 : ~ Starts(q)
    => \A j \in DOMAIN html : ~ Element(p, j)

SvgInv ==
  /\ SvgTypeOK /\ TornAtTheEnd /\ PiecesFollow
  /\ reading = "measuring" => Measured
  /\ reading # "done" => \A k \in DOMAIN pieces : pieces[k].kind = "text" => IsPlain(k)
  /\ reading = "done" => rest = Len(html) + 1 /\ \A k \in DOMAIN pieces : IsLeft(k)

LEMMA LevelStep ==
  ASSUME NEW h, NEW i \in Nat, NEW j \in Nat, i <= j + 1
  PROVE  /\ LevelOf(h, i, j) \in Int
         /\ LevelOf(h, i, j + 1) =
              LevelOf(h, i, j) + IF h[j + 1] = "open" THEN 1 ELSE IF h[j + 1] = "close" THEN -1 ELSE 0
<1> DEFINE Those(n, what) == {k \in i .. n : h[k] = what}
<1>1. ASSUME NEW what
      PROVE  /\ IsFiniteSet(Those(j, what)) /\ Cardinality(Those(j, what)) \in Nat
             /\ Cardinality(Those(j + 1, what)) =
                  IF h[j + 1] = what THEN Cardinality(Those(j, what)) + 1 ELSE Cardinality(Those(j, what))
  <2>1. IsFiniteSet(Those(j, what))
    <3>1. Those(j, what) \in SUBSET (i .. j)
      OBVIOUS
    <3>2. IsFiniteSet(i .. j)
      BY FS_Interval
    <3> HIDE DEF Those
    <3> QED
      BY <3>1, <3>2, FS_Subset
  <2>2. i .. j + 1 = (i .. j) \cup {j + 1} /\ j + 1 \notin i .. j
    OBVIOUS
  <2>3. Those(j + 1, what) = IF h[j + 1] = what THEN Those(j, what) \cup {j + 1} ELSE Those(j, what)
    BY <2>2
  <2>4. j + 1 \notin Those(j, what)
    BY <2>2
  <2> HIDE DEF Those
  <2> QED
    BY <2>1, <2>3, <2>4, FS_AddElement, FS_CardinalityType
<1>2. \A n : LevelOf(h, i, n) = Cardinality(Those(n, "open")) - Cardinality(Those(n, "close"))
  BY DEF LevelOf
<1> HIDE DEF Those
<1> QED
  BY <1>1, <1>2

LEMMA LevelStart == ASSUME NEW h, NEW i \in Nat \ {0} PROVE LevelOf(h, i, i - 1) = 0
<1>1. \A k \in i .. i - 1 : FALSE
  OBVIOUS
<1>2. {k \in i .. i - 1 : h[k] = "open"} = {} /\ {k \in i .. i - 1 : h[k] = "close"} = {}
  BY <1>1
<1> QED
  BY <1>2, FS_EmptySet DEF LevelOf

LEMMA SvgParts ==
  ASSUME SvgTypeOK
  PROVE  /\ Len(html) \in Nat /\ DOMAIN html = 1 .. Len(html)
         /\ rest \in Nat \ {0} /\ rest <= Len(html) + 1 /\ token \in Nat \ {0} /\ token <= Len(html) + 1
         /\ depth \in Nat
         /\ pieces \in Seq(Pieces) /\ Len(pieces) \in Nat /\ DOMAIN pieces = 1 .. Len(pieces)
         /\ \A k \in DOMAIN pieces : pieces[k].from \in Nat /\ pieces[k].to \in Nat
<1>1. Len(html) \in Nat /\ DOMAIN html = 1 .. Len(html)
  BY DEF SvgTypeOK
<1>2. pieces \in Seq(Pieces)
  BY DEF SvgTypeOK, Pieces
<1>3. \A k \in 1 .. Len(pieces) : pieces[k] \in Pieces
  BY <1>2, ElementOfSeq
<1>4. DOMAIN pieces = 1 .. Len(pieces) /\ Len(pieces) \in Nat
  BY <1>2
<1> QED
  BY <1>1, <1>2, <1>3, <1>4 DEF SvgTypeOK, Pieces

LEMMA PiecesKept == ASSUME PiecesFollow, UNCHANGED <<html, rest, pieces>> PROVE PiecesFollow'
<1>1. ASSUME NEW k \in DOMAIN pieces', pieces'[k].kind = "img"
      PROVE  Element(pieces[k].from, pieces[k].to)'
  <2>1. PICK p : p = pieces[k]
    OBVIOUS
  <2>2. Element(p.from, p.to)
    BY <1>1, <2>1 DEF PiecesFollow, Element, Level
  <2> QED
    BY <2>1, <2>2 DEF Element, Level
<1> QED
  BY <1>1 DEF PiecesFollow

(* A piece is added where the last one ends.                               *)
LEMMA PieceFollows ==
  ASSUME SvgTypeOK, PiecesFollow, html' = html, NEW kind \in {"text", "img"}, NEW to \in Nat,
         pieces' = Append(pieces, Piece(kind, rest, to)), rest' = to + 1,
         kind = "img" => Element(rest, to)
  PROVE  /\ PiecesFollow'
         /\ DOMAIN pieces' = DOMAIN pieces \cup {Len(pieces) + 1}
         /\ \A k \in DOMAIN pieces : pieces'[k] = pieces[k]
         /\ pieces'[Len(pieces) + 1] = Piece(kind, rest, to)
<1>1. /\ Len(pieces) \in Nat /\ DOMAIN pieces = 1 .. Len(pieces) /\ DOMAIN pieces' = 1 .. Len(pieces) + 1
      /\ \A k \in 1 .. Len(pieces) : pieces'[k] = pieces[k]
      /\ pieces'[Len(pieces) + 1] = Piece(kind, rest, to)
  BY SvgParts, AppendIs
<1>2. DOMAIN pieces' = DOMAIN pieces \cup {Len(pieces) + 1}
  BY <1>1
<1>3. \A i, j : Element(i, j)' <=> Element(i, j)
  BY DEF Element, Level
<1>4. PICK e : e = Piece(kind, rest, to)
  OBVIOUS
<1>5. e.kind = kind /\ e.from = rest /\ e.to = to
  BY <1>4 DEF Piece
<1>6. ASSUME NEW k \in DOMAIN pieces'
      PROVE  pieces'[k].from = IF k = 1 THEN 1 ELSE pieces'[k - 1].to + 1
  <2>1. CASE k \in 1 .. Len(pieces)
    <3>1. k = 1 \/ k - 1 \in 1 .. Len(pieces)
      BY <1>1, <2>1
    <3> QED
      BY <1>1, <2>1, <3>1 DEF PiecesFollow
  <2>2. CASE k = Len(pieces) + 1
    <3>1. CASE pieces = << >>
      <4>1. Len(pieces) = 0 /\ rest = 1
        BY <3>1 DEF PiecesFollow
      <4> QED
        BY <1>1, <1>4, <1>5, <2>2, <4>1
    <3>2. CASE pieces # << >>
      <4>1. Len(pieces) # 0
        BY <3>2, SvgParts
      <4>2. Len(pieces) \in 1 .. Len(pieces) /\ k - 1 = Len(pieces) /\ k # 1
        BY <1>1, <2>2, <4>1
      <4> QED
        BY <1>1, <1>4, <1>5, <2>2, <3>2, <4>2 DEF PiecesFollow
    <3> QED
      BY <3>1, <3>2
  <2> QED
    BY <1>1, <1>2, <2>1, <2>2
<1>7. ASSUME NEW k \in DOMAIN pieces', pieces'[k].kind = "img"
      PROVE  Element(pieces'[k].from, pieces'[k].to)
  <2>1. CASE k \in DOMAIN pieces
    <3>1. PICK p : p = pieces[k]
      OBVIOUS
    <3>2. pieces'[k] = p
      BY <1>1, <2>1, <3>1
    <3>3. p.kind = "img" => Element(p.from, p.to)
      BY <2>1, <3>1 DEF PiecesFollow, Element, Level
    <3> QED
      BY <1>7, <3>2, <3>3 DEF Element, Level
  <2>2. CASE k = Len(pieces) + 1
    <3>1. pieces'[k] = e
      BY <1>1, <1>4, <2>2
    <3> QED
      BY <1>5, <1>7, <3>1 DEF Element, Level
  <2> QED
    BY <1>2, <2>1, <2>2
<1>8. rest' = IF pieces' = << >> THEN 1 ELSE pieces'[Len(pieces')].to + 1
  <2>1. pieces' # << >> /\ Len(pieces') = Len(pieces) + 1
    BY SvgParts, AppendProperties
  <2>2. pieces'[Len(pieces')] = e
    BY <1>1, <1>4, <2>1
  <2> QED
    BY <1>5, <2>1, <2>2
<1>9. PiecesFollow'
  <2>1. ASSUME NEW k \in DOMAIN pieces', pieces'[k].kind = "img"
        PROVE  Element(pieces[k].from, pieces[k].to)'
    <3>1. PICK p : p = pieces'[k]
      OBVIOUS
    <3>2. Element(p.from, p.to)
      BY <1>7, <2>1, <3>1 DEF Element, Level
    <3> QED
      BY <3>1, <3>2 DEF Element, Level
  <2> QED
    BY <1>6, <1>8, <2>1 DEF PiecesFollow
<1> QED
  BY <1>1, <1>2, <1>9

LEMMA SeekSvg == ASSUME SvgInv, Seek PROVE SvgInv'
<1>1. PICK p \in rest .. Len(html) :
        /\ Starts(p) /\ \A q \in rest .. p - 1 : ~ Starts(q)
        /\ pieces' = Append(pieces, Piece("text", rest, p - 1))
        /\ rest' = p /\ token' = p
  BY DEF Seek
<1>2. html' = html /\ reading = "seeking" /\ reading' = "measuring" /\ depth' = 0
  BY DEF Seek
<1>3. /\ Len(html) \in Nat /\ DOMAIN html = 1 .. Len(html) /\ rest \in Nat \ {0}
      /\ p \in Nat \ {0} /\ p - 1 \in Nat /\ rest' = (p - 1) + 1 /\ p \in DOMAIN html
      /\ \A k \in DOMAIN pieces : pieces[k].from \in Nat /\ pieces[k].to \in Nat
  BY <1>1, SvgParts DEF SvgInv
<1>4. /\ PiecesFollow'
      /\ DOMAIN pieces' = DOMAIN pieces \cup {Len(pieces) + 1}
      /\ \A k \in DOMAIN pieces : pieces'[k] = pieces[k]
      /\ pieces'[Len(pieces) + 1] = Piece("text", rest, p - 1)
  BY <1>1, <1>2, <1>3, PieceFollows DEF SvgInv
<1>5. Measured'
  <2>1. Starts(p)' /\ rest' \in DOMAIN html' /\ token' = rest'
    BY <1>1, <1>2, <1>3 DEF Starts
  <2>2. LevelOf(html, p, p - 1) = 0
    BY <1>3, LevelStart
  <2>3. \A k : k \notin p .. p - 1
    BY <1>3
  <2> QED
    BY <1>1, <1>2, <1>3, <2>1, <2>2, <2>3 DEF Measured, Starts
<1>6. ASSUME NEW k \in DOMAIN pieces', pieces'[k].kind = "text" PROVE IsPlain(k)'
  <2>1. CASE k \in DOMAIN pieces
    BY <1>2, <1>4, <1>6, <2>1 DEF SvgInv, IsPlain, Starts
  <2>2. CASE k = Len(pieces) + 1
    <3>1. pieces'[k].from = rest /\ pieces'[k].to = p - 1
      BY <1>4, <2>2 DEF Piece
    <3> QED
      BY <1>1, <1>2, <3>1 DEF IsPlain, Starts
  <2> QED
    BY <1>4, <2>1, <2>2
<1> QED
  BY <1>2, <1>4, <1>5, <1>6, SvgNextTypes DEF SvgInv, TornAtTheEnd, SvgNext

(* The rest is copied: only the element it starts with matters.            *)
LEMMA CopySvg ==
  ASSUME SvgInv, SvgTypeOK', CopyTheRest, reading # "done",
         ASSUME NEW p \in rest .. Len(html), Starts(p), \A q \in rest .. p - 1 : ~ Starts(q)
         PROVE  \A j \in DOMAIN html : ~ Element(p, j)
  PROVE  SvgInv'
<1>1. /\ html' = html /\ reading' = "done" /\ rest' = Len(html) + 1
      /\ pieces' = Append(pieces, Piece("text", rest, Len(html)))
  BY DEF CopyTheRest
<1>2. Len(html) \in Nat /\ DOMAIN html = 1 .. Len(html)
  BY SvgParts DEF SvgInv
<1>3. /\ PiecesFollow'
      /\ DOMAIN pieces' = DOMAIN pieces \cup {Len(pieces) + 1}
      /\ \A k \in DOMAIN pieces : pieces'[k] = pieces[k]
      /\ pieces'[Len(pieces) + 1] = Piece("text", rest, Len(html))
  BY <1>1, <1>2, PieceFollows DEF SvgInv
<1>4. ASSUME NEW k \in DOMAIN pieces' PROVE IsLeft(k)'
  <2>1. CASE k \in DOMAIN pieces
    <3>1. pieces'[k] = pieces[k] /\ (pieces[k].kind = "text" => IsPlain(k))
      BY <1>3, <2>1 DEF SvgInv
    <3> QED
      BY <1>1, <3>1 DEF IsLeft, IsPlain, Starts
  <2>2. CASE k = Len(pieces) + 1
    <3>1. pieces'[k].from = rest /\ pieces'[k].to = Len(html)
      BY <1>3, <2>2 DEF Piece
    <3>2. ASSUME NEW p \in DOMAIN html, p \in rest .. Len(html),
                 Starts(p)', \A q \in rest .. p - 1 : ~ Starts(q)',
                 NEW j \in DOMAIN html
          PROVE  ~ Element(p, j)'
      <4>1. Starts(p) /\ \A q \in rest .. p - 1 : ~ Starts(q)
        BY <1>1, <3>2 DEF Starts
      <4>2. ~ Element(p, j)
        BY <3>2, <4>1
      <4> QED
        BY <1>1, <4>2 DEF Element, Level
    <3> QED
      BY <1>1, <3>1, <3>2 DEF IsLeft
  <2> QED
    BY <1>3, <2>1, <2>2
<1> QED
  BY <1>1, <1>3, <1>4 DEF SvgInv, TornAtTheEnd

LEMMA ReplaceSvg ==
  ASSUME SvgInv, SvgTypeOK', Replace, reading = "measuring", Element(rest, token)
  PROVE  SvgInv'
<1>1. /\ html' = html /\ reading' = "seeking" /\ rest' = token + 1
      /\ pieces' = Append(pieces, Piece("img", rest, token))
  BY DEF Replace
<1>2. token \in Nat
  BY SvgParts DEF SvgInv
<1>3. /\ PiecesFollow'
      /\ DOMAIN pieces' = DOMAIN pieces \cup {Len(pieces) + 1}
      /\ \A k \in DOMAIN pieces : pieces'[k] = pieces[k]
      /\ pieces'[Len(pieces) + 1] = Piece("img", rest, token)
  BY <1>1, <1>2, PieceFollows DEF SvgInv
<1>4. ASSUME NEW k \in DOMAIN pieces', pieces'[k].kind = "text" PROVE IsPlain(k)'
  <2>1. CASE k \in DOMAIN pieces
    BY <1>1, <1>3, <1>4, <2>1 DEF SvgInv, IsPlain, Starts
  <2>2. CASE k = Len(pieces) + 1
    BY <1>3, <1>4, <2>2 DEF Piece
  <2> QED
    BY <1>3, <2>1, <2>2
<1> QED
  BY <1>1, <1>3, <1>4 DEF SvgInv, TornAtTheEnd

LEMMA AdvanceSvg ==
  ASSUME SvgInv, SvgTypeOK', reading = "measuring", token <= Len(html), NEW level \in Nat, Advance(level),
         level = depth + (IF html[token] = "open" THEN 1 ELSE IF html[token] = "close" THEN -1 ELSE 0),
         level > 0, rest = token => html[rest] = "open"
  PROVE  SvgInv'
<1>1. /\ html' = html /\ rest' = rest /\ reading' = reading /\ pieces' = pieces
      /\ token' = token + 1 /\ depth' = level
  BY DEF Advance
<1>2. /\ rest \in DOMAIN html /\ Starts(rest) /\ rest <= token
      /\ rest < token => html[rest] = "open"
      /\ \A k \in rest .. token - 1 : LevelOf(html, rest, k) > 0
      /\ depth = LevelOf(html, rest, token - 1)
      /\ rest \in Nat \ {0} /\ token \in Nat \ {0} /\ depth \in Nat
  BY SvgParts DEF SvgInv, Measured
<1>3. LevelOf(html, rest, token) = level
  <2>1. token - 1 \in Nat /\ rest <= (token - 1) + 1 /\ (token - 1) + 1 = token
    BY <1>2
  <2>2. LevelOf(html, rest, (token - 1) + 1) =
          LevelOf(html, rest, token - 1)
            + IF html[(token - 1) + 1] = "open" THEN 1
              ELSE IF html[(token - 1) + 1] = "close" THEN -1 ELSE 0
    BY <1>2, <2>1, LevelStep
  <2> QED
    BY <1>2, <2>1, <2>2
<1>4. \A k \in rest .. token : k \in rest .. token - 1 \/ k = token
  BY <1>2
<1>5. (token + 1) - 1 = token /\ rest <= token + 1
  BY <1>2
<1>6. Measured'
  <2>1. /\ rest' \in DOMAIN html' /\ Starts(rest)' /\ rest' <= token'
        /\ rest' < token' => html'[rest'] = "open"
    BY <1>1, <1>2, <1>5 DEF Starts
  <2>2. /\ \A k \in rest' .. token' - 1 : LevelOf(html', rest', k) > 0
        /\ depth' = LevelOf(html', rest', token' - 1)
    BY <1>1, <1>2, <1>3, <1>4, <1>5
  <2> QED
    BY <2>1, <2>2 DEF Measured
<1>7. PiecesFollow'
  BY <1>1, PiecesKept DEF SvgInv
<1>8. \A k \in DOMAIN pieces' : pieces'[k].kind = "text" => IsPlain(k)'
  BY <1>1 DEF SvgInv, IsPlain, Starts
<1> QED
  BY <1>1, <1>6, <1>7, <1>8 DEF SvgInv, TornAtTheEnd

LEMMA NextSvg == ASSUME SvgInv, SvgNext PROVE SvgInv'
<1>1. SvgTypeOK'
  BY SvgNextTypes DEF SvgInv
<1>2. /\ Len(html) \in Nat /\ DOMAIN html = 1 .. Len(html)
      /\ rest \in Nat \ {0} /\ token \in Nat \ {0} /\ depth \in Nat
  BY SvgParts DEF SvgInv
<1>3. ASSUME NEW kind, Measuring(kind)
      PROVE  /\ reading = "measuring" /\ token <= Len(html) /\ html[token] = kind
             /\ Starts(rest) /\ rest <= token /\ (rest < token => html[rest] = "open")
             /\ depth = LevelOf(html, rest, token - 1)
             /\ (rest < token => depth > 0) /\ (rest = token => depth = 0)
             /\ \A k \in rest .. token - 1 : LevelOf(html, rest, k) > 0
  <2>1. reading = "measuring" /\ token <= Len(html) /\ html[token] = kind /\ Measured
    BY <1>3 DEF Measuring, SvgInv
  <2>2. rest < token => token - 1 \in rest .. token - 1
    BY <1>2
  <2>3. rest = token => LevelOf(html, rest, token - 1) = 0
    BY <1>2, LevelStart
  <2> QED
    BY <2>1, <2>2, <2>3 DEF Measured
<1>4. CASE Seek
  BY <1>4, SeekSvg
<1>5. CASE SeekInVain
  <2>1. reading # "done" /\ CopyTheRest /\ \A p \in rest .. Len(html) : ~ Starts(p)
    BY <1>5 DEF SeekInVain
  <2> QED
    BY <1>1, <2>1, CopySvg
<1>6. CASE Enter
  <2>1. Measuring("open") /\ Advance(depth + 1)
    BY <1>6 DEF Enter
  <2>2. /\ reading = "measuring" /\ token <= Len(html) /\ html[token] = "open"
    BY <1>3, <2>1
  <2> QED
    BY <1>1, <1>2, <2>1, <2>2, AdvanceSvg
<1>7. CASE PassSingle
  <2>1. Measuring("single") /\ IF depth = 0 THEN Replace ELSE Advance(depth)
    BY <1>7 DEF PassSingle
  <2>2. /\ reading = "measuring" /\ token <= Len(html) /\ html[token] = "single" /\ rest <= token
        /\ (rest < token => depth > 0) /\ (rest = token => depth = 0)
    BY <1>3, <2>1
  <2>3. CASE depth = 0
    <3>1. rest = token
      BY <1>2, <2>2, <2>3
    <3> QED
      BY <1>1, <2>1, <2>2, <2>3, <3>1, ReplaceSvg DEF Element
  <2>4. CASE depth # 0
    BY <1>1, <1>2, <2>1, <2>2, <2>4, AdvanceSvg
  <2> QED
    BY <2>3, <2>4
<1>8. CASE Leave
  <2>1. Measuring("close") /\ IF depth <= 1 THEN Replace ELSE Advance(depth - 1)
    BY <1>8 DEF Leave
  <2>2. /\ reading = "measuring" /\ token <= Len(html) /\ html[token] = "close"
        /\ Starts(rest) /\ rest <= token /\ (rest < token => html[rest] = "open" /\ depth > 0)
        /\ depth = LevelOf(html, rest, token - 1)
        /\ \A k \in rest .. token - 1 : LevelOf(html, rest, k) > 0
    BY <1>3, <2>1
  <2>3. rest < token
    BY <1>2, <2>2 DEF Starts
  <2>4. CASE depth <= 1
    <3>1. depth = 1
      BY <1>2, <2>2, <2>3, <2>4
    <3>2. token - 1 \in Nat /\ rest <= (token - 1) + 1 /\ (token - 1) + 1 = token
      BY <1>2, <2>3
    <3>3. LevelOf(html, rest, (token - 1) + 1) =
            LevelOf(html, rest, token - 1)
              + IF html[(token - 1) + 1] = "open" THEN 1
                ELSE IF html[(token - 1) + 1] = "close" THEN -1 ELSE 0
      BY <1>2, <3>2, LevelStep
    <3>4. LevelOf(html, rest, token) = 0
      BY <2>2, <3>1, <3>2, <3>3
    <3>5. Element(rest, token)
      BY <2>2, <2>3, <3>4 DEF Element, Level, LevelOf
    <3> QED
      BY <1>1, <2>1, <2>2, <2>4, <3>5, ReplaceSvg
  <2>5. CASE ~ (depth <= 1)
    <3>1. depth - 1 \in Nat /\ depth - 1 = depth + -1 /\ depth - 1 > 0
      BY <1>2, <2>5
    <3> QED
      BY <1>1, <2>1, <2>2, <2>3, <2>5, <3>1, AdvanceSvg
  <2> QED
    BY <2>4, <2>5
<1>9. CASE Skip
  <2>1. Measuring("text") /\ Advance(depth)
    BY <1>9 DEF Skip
  <2>2. /\ reading = "measuring" /\ token <= Len(html) /\ html[token] = "text"
        /\ Starts(rest) /\ rest <= token /\ (rest < token => depth > 0)
    BY <1>3, <2>1
  <2>3. rest < token
    BY <1>2, <2>2 DEF Starts
  <2> QED
    BY <1>1, <1>2, <2>1, <2>2, <2>3, AdvanceSvg
<1>10. CASE SliceInside
  <2>1. UNCHANGED <<html, rest, token, depth, pieces>> /\ reading' = "panicked" /\ reading = "measuring"
    BY <1>10 DEF SliceInside, Measuring
  <2>2. PiecesFollow'
    BY <2>1, PiecesKept DEF SvgInv
  <2>3. \A k \in DOMAIN pieces' : pieces'[k].kind = "text" => IsPlain(k)'
    BY <2>1 DEF SvgInv, IsPlain, Starts
  <2> QED
    BY <1>1, <2>1, <2>2, <2>3 DEF SvgInv, TornAtTheEnd
<1>11. CASE MeasureInVain
  <2>1. /\ reading = "measuring" /\ CopyTheRest /\ Measured /\ TornAtTheEnd
        /\ token > Len(html) \/ Measuring("torn")
    BY <1>11 DEF MeasureInVain, SvgInv
  <2>2. ASSUME NEW p \in rest .. Len(html), Starts(p), \A q \in rest .. p - 1 : ~ Starts(q),
               NEW j \in DOMAIN html, Element(p, j)
        PROVE  FALSE
    <3>1. p = rest
      <4>1. rest < p => rest \in rest .. p - 1
        BY <1>2
      <4> QED
        BY <1>2, <2>1, <2>2, <4>1 DEF Measured
    <3>2. p <= j /\ j \in Nat /\ j <= Len(html)
      BY <1>2, <2>2 DEF Element
    <3>3. CASE j < token
      <4>1. LevelOf(html, rest, j) > 0 /\ html[rest] = "open"
        BY <1>2, <2>1, <3>1, <3>2, <3>3 DEF Measured
      <4>2. LevelOf(html, rest, j) # 0
        <5>1. j \in Nat /\ rest <= j + 1
          BY <1>2, <3>1, <3>2
        <5>2. LevelOf(html, rest, j) \in Int
          BY <1>2, <5>1, LevelStep
        <5> QED
          BY <4>1, <5>2
      <4> QED
        BY <2>2, <3>1, <4>1, <4>2 DEF Element, Level, LevelOf
    <3>4. CASE ~ (j < token)
      <4>1. html[token] = "torn" /\ token <= Len(html)
        BY <1>2, <2>1, <3>2, <3>4 DEF Measuring
      <4>2. j = token
        BY <1>2, <2>1, <3>2, <3>4, <4>1 DEF TornAtTheEnd
      <4>3. html[j] = "torn"
        BY <4>1, <4>2
      <4> QED
        BY <2>2, <4>3 DEF Element
    <3> QED
      BY <3>3, <3>4
  <2> QED
    BY <1>1, <2>1, <2>2, CopySvg
<1> QED
  BY <1>4, <1>5, <1>6, <1>7, <1>8, <1>9, <1>10, <1>11 DEF SvgNext

LEMMA SpecSvgInv == Spec => []SvgInv
<1>1. Init => SvgInv
  <2> SUFFICES ASSUME Init PROVE SvgInv
    OBVIOUS
  <2>1. SvgTypeOK /\ TornAtTheEnd
    BY SvgInitTypes, SvgConstants DEF Init, SvgInit, TornAtTheEnd
  <2>2. PiecesFollow /\ reading = "seeking" /\ pieces = << >>
    BY DEF Init, SvgInit, PiecesFollow
  <2> QED
    BY <2>1, <2>2 DEF SvgInv
<1>2. SvgInv /\ UNCHANGED svgVars => SvgInv'
  <2> SUFFICES ASSUME SvgInv, UNCHANGED <<html, rest, reading, token, depth, pieces>> PROVE SvgInv'
    BY DEF svgVars
  <2>1. SvgTypeOK' /\ TornAtTheEnd'
    BY DEF SvgInv, SvgTypeOK, TornAtTheEnd
  <2>2. PiecesFollow'
    BY PiecesKept DEF SvgInv
  <2>3. (reading = "measuring" => Measured)'
    BY DEF SvgInv, Measured, Starts
  <2>4. (reading # "done" => \A k \in DOMAIN pieces : pieces[k].kind = "text" => IsPlain(k))'
    BY DEF SvgInv, IsPlain, Starts
  <2>5. (reading = "done" => rest = Len(html) + 1 /\ \A k \in DOMAIN pieces : IsLeft(k))'
    <3>1. \A p : Starts(p)' <=> Starts(p)
      BY DEF Starts
    <3>2. \A p, j : Element(p, j)' <=> Element(p, j)
      BY DEF Element, Level
    <3>3. ASSUME NEW k, IsLeft(k) PROVE IsLeft(k)'
      BY <3>1, <3>2, <3>3 DEF IsLeft
    <3> QED
      BY <3>3 DEF SvgInv
  <2> QED
    BY <2>1, <2>2, <2>3, <2>4, <2>5 DEF SvgInv
<1>3. SvgInv /\ HandOver => SvgInv'
  <2> SUFFICES ASSUME SvgInv, HandOver PROVE SvgInv'
    OBVIOUS
  <2>1. /\ html' = << >> /\ pieces' = << >> /\ rest' = 1 /\ token' = 1 /\ depth' = 0
        /\ reading' = reading /\ reading = "done"
    BY DEF HandOver
  <2> QED
    BY <2>1 DEF SvgInv, SvgTypeOK, TornAtTheEnd, PiecesFollow
<1>4. SvgInv /\ [Next]_vars => SvgInv'
  <2>1. [Next]_vars => SvgNext \/ HandOver \/ UNCHANGED svgVars
    BY DEF Next, Rewrite, Parse, vars
  <2> QED
    BY <1>2, <1>3, <2>1, NextSvg
<1> QED
  BY <1>1, <1>4, PTL DEF Spec

(* For every set of texts, however deep elements nest in them: what became *)
(* an image is one whole element, no other is left out unless it lies in   *)
(* one that is never closed, and nothing is lost.                          *)
THEOREM ElementsAreWhole == Spec => []WholeElementsAreReplaced
<1>1. SvgInv => WholeElementsAreReplaced
  <2> SUFFICES ASSUME SvgInv PROVE WholeElementsAreReplaced
    OBVIOUS
  <2>1. PiecesFollow
    BY DEF SvgInv
  <2>2. reading = "done" => rest = Len(html) + 1 /\ \A k \in DOMAIN pieces : IsLeft(k)
    BY DEF SvgInv
  <2> QED
    BY <2>1, <2>2 DEF WholeElementsAreReplaced, PiecesFollow, IsLeft
<1> QED
  BY <1>1, SpecSvgInv, PTL

-----------------------------------------------------------------------------
(* Induction.  The order of the numbers is well founded, so what does not  *)
(* hold of them all has a least exception.                                 *)
LEMMA NatOrder == IsWellFoundedOn({pair \in Nat \X Nat : pair[1] < pair[2]}, Nat)
  BY NatLessThanWellFounded DEF OpToRel

LEMMA LeastException ==
  ASSUME NEW T, T \subseteq Nat, T # {}
  PROVE  \E n \in T : \A m \in T : n <= m
<1> DEFINE R == {pair \in Nat \X Nat : pair[1] < pair[2]}
<1>1. IsWellFoundedOn(R, Nat)
  BY NatOrder
<1> HIDE DEF R
<1>2. PICK n \in T : \A m \in T : ~ (<<m, n>> \in R)
  BY <1>1, WFMin
<1>3. \A m \in T : ~ (m < n)
  BY <1>2 DEF R
<1> QED
  BY <1>3

LEMMA UpTheNumbers ==
  ASSUME NEW S, 0 \in S, \A n \in Nat : n \in S => n + 1 \in S
  PROVE  Nat \subseteq S
<1> SUFFICES ASSUME Nat \ S # {} PROVE FALSE
  OBVIOUS
<1>1. PICK n \in Nat \ S : \A m \in Nat \ S : n <= m
  <2>1. Nat \ S \subseteq Nat
    OBVIOUS
  <2> QED
    BY <2>1, LeastException
<1>2. n - 1 \in Nat /\ (n - 1) + 1 = n
  BY <1>1
<1>3. n - 1 \in S
  BY <1>1, <1>2
<1> QED
  BY <1>1, <1>2, <1>3

(* The heights of the attempts, which are defined by recursion.            *)
IsDoubling(f, n) ==
  /\ f \in [0 .. n -> Nat \ {0}]
  /\ f[0] = InitialHeight
  /\ \A k \in 0 .. n - 1 : f[k + 1] = 2 * f[k]

LEMMA DoublingUpTo == \A n \in Nat : \E f : IsDoubling(f, n)
<1> DEFINE S == {n \in Nat : \E f : IsDoubling(f, n)}
<1>1. 0 \in S
  <2>1. InitialHeight \in Nat \ {0}
    BY ExtractionConstants
  <2>2. IsDoubling([k \in 0 .. 0 |-> InitialHeight], 0)
    BY <2>1 DEF IsDoubling
  <2> QED
    BY <2>2
<1>2. ASSUME NEW n \in Nat, n \in S PROVE n + 1 \in S
  <2>1. PICK f : IsDoubling(f, n)
    BY <1>2
  <2> DEFINE g == [k \in 0 .. n + 1 |-> IF k = n + 1 THEN 2 * f[n] ELSE f[k]]
  <2>2. /\ f \in [0 .. n -> Nat \ {0}] /\ f[0] = InitialHeight
        /\ \A k \in 0 .. n - 1 : f[k + 1] = 2 * f[k]
    BY <2>1 DEF IsDoubling
  <2>3. f[n] \in Nat \ {0} /\ 2 * f[n] \in Nat \ {0}
    BY <2>2
  <2>4. g \in [0 .. n + 1 -> Nat \ {0}]
    BY <2>2, <2>3
  <2>5. g[0] = InitialHeight
    BY <2>2
  <2>6. ASSUME NEW k \in 0 .. n PROVE g[k + 1] = 2 * g[k]
    <3>1. CASE k = n
      BY <3>1
    <3>2. CASE k # n
      BY <2>2, <3>2
    <3> QED
      BY <3>1, <3>2
  <2>7. IsDoubling(g, n + 1)
    <3>1. 0 .. (n + 1) - 1 = 0 .. n
      OBVIOUS
    <3> HIDE DEF g
    <3> QED
      BY <2>4, <2>5, <2>6, <3>1 DEF IsDoubling
  <2> QED
    BY <2>7
<1> HIDE DEF S
<1>3. Nat \subseteq S
  BY <1>1, <1>2, UpTheNumbers
<1> QED
  BY <1>3 DEF S

LEMMA DoublingsAgree ==
  ASSUME NEW m \in Nat, NEW n \in Nat, m <= n, NEW f, NEW g, IsDoubling(f, m), IsDoubling(g, n)
  PROVE  \A k \in 0 .. m : f[k] = g[k]
<1> DEFINE S == {k \in Nat : k <= m => f[k] = g[k]}
<1>1. 0 \in S
  BY DEF IsDoubling
<1>2. ASSUME NEW k \in Nat, k \in S PROVE k + 1 \in S
  <2>1. CASE k + 1 <= m
    <3>1. k \in 0 .. m - 1 /\ k \in 0 .. n - 1 /\ f[k] = g[k]
      BY <1>2, <2>1
    <3> QED
      BY <3>1 DEF IsDoubling
  <2> QED
    BY <2>1
<1> HIDE DEF S
<1>3. Nat \subseteq S
  BY <1>1, <1>2, UpTheNumbers
<1> QED
  BY <1>3 DEF S

LEMMA DoubledIs ==
  Doubled = [k \in Nat |-> IF k = 0 THEN InitialHeight ELSE 2 * Doubled[k - 1]]
<1> DEFINE Def(f) == [k \in Nat |-> IF k = 0 THEN InitialHeight ELSE 2 * f[k - 1]]
           up == [n \in Nat |-> CHOOSE f : IsDoubling(f, n)]
           f == [n \in Nat |-> up[n][n]]
<1>1. \A n \in Nat : IsDoubling(up[n], n)
  BY DoublingUpTo
<1> HIDE DEF up
<1>2. ASSUME NEW k \in Nat PROVE f[k] = IF k = 0 THEN InitialHeight ELSE 2 * f[k - 1]
  <2>1. CASE k = 0
    BY <1>1, <2>1 DEF IsDoubling
  <2>2. CASE k # 0
    <3>1. k - 1 \in Nat /\ k - 1 <= k /\ k - 1 \in 0 .. k - 1 /\ (k - 1) + 1 = k
      BY <2>2
    <3>2. up[k][k] = 2 * up[k][k - 1]
      BY <1>1, <3>1 DEF IsDoubling
    <3>3. up[k][k - 1] = up[k - 1][k - 1]
      BY <1>1, <3>1, DoublingsAgree
    <3> QED
      BY <2>2, <3>1, <3>2, <3>3
  <2> QED
    BY <2>1, <2>2
<1>3. f = Def(f)
  BY <1>2
<1> HIDE DEF f
<1>4. \E d : d = Def(d)
  BY <1>3
<1> QED
  BY <1>4 DEF Doubled

LEMMA DoubledGrows ==
  /\ Doubled[0] = InitialHeight
  /\ \A k \in Nat : Doubled[k] \in Nat \ {0} /\ Doubled[k + 1] = 2 * Doubled[k]
<1>1. Doubled[0] = InitialHeight
  BY DoubledIs
<1>2. ASSUME NEW k \in Nat PROVE Doubled[k + 1] = 2 * Doubled[k]
  BY DoubledIs
<1> DEFINE S == {k \in Nat : Doubled[k] \in Nat \ {0}}
<1>3. 0 \in S
  BY <1>1, ExtractionConstants
<1>4. ASSUME NEW k \in Nat, k \in S PROVE k + 1 \in S
  BY <1>2, <1>4
<1> HIDE DEF S
<1>5. Nat \subseteq S
  BY <1>3, <1>4, UpTheNumbers
<1> QED
  BY <1>1, <1>2, <1>5 DEF S

LEMMA DoubledAscends ==
  ASSUME NEW m \in Nat, NEW k \in Nat, Doubled[m] < Doubled[k]
  PROVE  2 * Doubled[m] <= Doubled[k]
<1> DEFINE S == {n \in Nat : Doubled[m] <= Doubled[m + n] /\ (n > 0 => 2 * Doubled[m] <= Doubled[m + n])}
           T == {n \in Nat : Doubled[k] <= Doubled[k + n]}
<1>1. 0 \in S /\ 0 \in T
  BY DoubledGrows
<1>2. ASSUME NEW n \in Nat, n \in S PROVE n + 1 \in S
  <2>1. Doubled[m + (n + 1)] = 2 * Doubled[m + n] /\ Doubled[m] \in Nat /\ Doubled[m + n] \in Nat
    <3>1. m + n \in Nat /\ m + (n + 1) = (m + n) + 1
      OBVIOUS
    <3> QED
      BY <3>1, DoubledGrows
  <2> QED
    BY <1>2, <2>1
<1>3. ASSUME NEW n \in Nat, n \in T PROVE n + 1 \in T
  <2>1. Doubled[k + (n + 1)] = 2 * Doubled[k + n] /\ Doubled[k] \in Nat /\ Doubled[k + n] \in Nat
    <3>1. k + n \in Nat /\ k + (n + 1) = (k + n) + 1
      OBVIOUS
    <3> QED
      BY <3>1, DoubledGrows
  <2> QED
    BY <1>3, <2>1
<1> HIDE DEF S, T
<1>4. Nat \subseteq S /\ Nat \subseteq T
  BY <1>1, <1>2, <1>3, UpTheNumbers
<1>5. CASE k > m
  <2>1. k - m \in Nat /\ k - m > 0 /\ m + (k - m) = k
    BY <1>5
  <2> QED
    BY <1>4, <2>1 DEF S
<1>6. CASE k <= m
  <2>1. m - k \in Nat /\ k + (m - k) = m
    BY <1>6
  <2>2. Doubled[k] <= Doubled[m]
    BY <1>4, <2>1 DEF T
  <2> QED
    BY <2>2, DoubledGrows
<1> QED
  BY <1>5, <1>6

-----------------------------------------------------------------------------
(* The search for a height.  While the list is made, whatever has been     *)
(* painted ends no lower than an element does, or a run of one, in the     *)
(* layout it was painted for.                                              *)
Searching == stage \in {"laying", "loading", "walking", "laid"}

ShortOf(h) == document.reserved > h \/ \E e \in Range(document.elements) : Reaches(e, h)

AskedAtOnce(there) ==
  \A r \in document.asks : r.what \in Fetchable /\ r.after = {} => r.what \in there

ExtendsTo(e, low) ==
  \/ low <= e.y.to + Down(e)
  \/ \E r \in Range(e.runs) : low <= e.y.from + Down(e) + r.baseline

IsExplained(low) == \E e \in Range(document.elements) : ExtendsTo(e, low)

IsAttempt == height = MaxHeight \/ \E m \in Nat : height = Doubled[m]

HInv ==
  /\ Searching => height <= MaxHeight /\ IsAttempt /\ \A h \in Tried : ShortOf(h)
  /\ stage \in {"loading", "walking", "laid"} => laid = [height |-> height, loaded |-> loaded]
  /\ stage = "loading" => AskedAtOnce(loaded \cup collected)
  /\ stage \in {"walking", "laid"} => AskedAtOnce(loaded)
  /\ stage = "walking" => \A low \in Bottoms : IsExplained(low)
  /\ stage = "laid" /\ height < MaxHeight => \A low \in Bottoms \cup {document.reserved} : low <= height

LEMMA HInvFits == HInv => AnswerFits
  BY DEF HInv, AnswerFits, Searching, ShortOf, AskedAtOnce

LEMMA MemberOfRange == ASSUME NEW S, NEW s \in Seq(S), NEW x \in Range(s) PROVE x \in S
<1>1. PICK k \in DOMAIN s : x = s[k]
  BY DEF Range
<1> QED
  BY <1>1, ElementOfSeq

LEMMA ElementsType ==
  ASSUME ExtractionTypeOK
  PROVE  \A e \in Range(document.elements) : e \in Elements
<1>1. document.elements \in Seq(Elements)
  BY ExtractionConstants DEF ExtractionTypeOK
<1> QED
  BY <1>1, MemberOfRange

LEMMA BottomsType ==
  ASSUME ExtractionTypeOK
  PROVE  Bottoms \subseteq Int
<1>1. ASSUME NEW b \in Range(boxes) PROVE b.y.to \in Int
  <2>1. b \in Boxes
    BY MemberOfRange DEF ExtractionTypeOK
  <2> QED
    BY <2>1 DEF Boxes, Intervals
<1>2. ASSUME NEW t \in Range(texts) PROVE t.baseline \in Int
  <2>1. t \in Texts
    BY MemberOfRange DEF ExtractionTypeOK
  <2> QED
    BY <2>1 DEF Texts
<1>3. ASSUME NEW i \in Range(images) PROVE Ceil(i.y.to, i.y.unit) \in Int
  <2>1. i \in Items
    BY MemberOfRange DEF ExtractionTypeOK
  <2>2. i.y \in Spans
    BY <2>1 DEF Items
  <2> QED
    BY <2>2, CeilType DEF Spans
<1> QED
  BY <1>1, <1>2, <1>3 DEF Bottoms

(* The walk is at an element of the document.                              *)
LEMMA Here ==
  ASSUME ExtractionTypeOK, at.element \in DOMAIN document.elements
  PROVE  /\ element \in Range(document.elements)
         /\ element.y.to \in Int /\ element.y.from \in Int /\ Down(element) \in Int
         /\ area.y.to = element.y.to + Down(element)
         /\ area.y.from = element.y.from + Down(element)
         /\ area.y.to \in Int
         /\ IsExplained(area.y.to)
<1>1. element \in Range(document.elements)
  BY DEF element, Range
<1>2. element.y \in Intervals /\ element.shares \in Nat /\ element.push \in Nat
  BY ElementType DEF Elements
<1>3. Down(element) \in Int
  <2>1. laid.height \in Nat
    BY DEF ExtractionTypeOK
  <2>2. element.shares * laid.height \in Int
    BY <1>2, <2>1
  <2> QED
    BY <1>2, <2>2 DEF Down
<1>4. element.y.to \in Int /\ element.y.from \in Int
  BY <1>2 DEF Intervals
<1>5. area.y.to = element.y.to + Down(element) /\ area.y.from = element.y.from + Down(element)
  BY DEF area, Area
<1>6. area.y.to \in Int
  BY <1>3, <1>4, <1>5
<1> QED
  BY <1>1, <1>3, <1>4, <1>5, <1>6 DEF IsExplained, ExtendsTo

LEMMA ExplainedBelow ==
  ASSUME ExtractionTypeOK, at.element \in DOMAIN document.elements,
         NEW low \in Int, low <= area.y.to
  PROVE  IsExplained(low)
<1>1. low <= element.y.to + Down(element)
  BY Here
<1> QED
  BY <1>1, Here DEF IsExplained, ExtendsTo

LEMMA Dividing ==
  ASSUME NEW a \in Int, NEW b \in Nat \ {0}
  PROVE  a \div b \in Int /\ b * (a \div b) <= a /\ a < b * (a \div b) + b
  OBVIOUS

LEMMA Cancelling ==
  ASSUME NEW u \in Nat \ {0}, NEW a \in Int, NEW b \in Int
  PROVE  /\ u * a < u * b <=> a < b
         /\ u * a <= u * b <=> a <= b
  OBVIOUS

LEMMA Distributing ==
  ASSUME NEW u \in Int, NEW a \in Int, NEW b \in Int
  PROVE  /\ u * a \in Int /\ u * a = a * u /\ u * (- a) = - (u * a)
         /\ u * (a + b) = u * a + u * b /\ u * (a - b) = u * a - u * b
  OBVIOUS

(* What ends no lower than n px has its end rounded to no more than n px.  *)
LEMMA CeilOfMultiple ==
  ASSUME NEW unit \in Nat \ {0}, NEW n \in Int, NEW to \in Int, to <= unit * n
  PROVE  Ceil(to, unit) <= n
<1> DEFINE q == (-to) \div unit
<1>1. /\ q \in Int /\ -to < unit * q + unit
  BY Dividing
<1> HIDE DEF q
<1>2. unit * (-n) = - (unit * n) /\ unit * n \in Int /\ unit * (q + 1) = unit * q + unit /\ unit * q \in Int
  BY <1>1, Distributing
<1>3. unit * (-n) < unit * (q + 1)
  BY <1>1, <1>2
<1>4. -n < q + 1
  BY <1>1, <1>3, Cancelling
<1> QED
  BY <1>1, <1>4 DEF Ceil, q

LEMMA TileExplained ==
  ASSUME ExtractionTypeOK, InLayers, at.item < TilesHere, NEW i, i = Tile(Tiling(layer, area))
  PROVE  Ceil(i.y.to, i.y.unit) \in Int /\ Ceil(i.y.to, i.y.unit) <= area.y.to
<1> DEFINE tiling == Tiling(layer, area)
           k == Row(tiling, at.item)
<1>1. i.y = Span(tiling.y, k)
  BY DEF Tile, Item
<1>2. /\ layer \in Layers /\ area \in Areas /\ PaintsTiles(layer, area) /\ at.item \in Nat
      /\ area.y.to \in Int
  BY LayerTypes, TileTypes, WalkTypes, Here
<1>3. tiling.x \in Axes /\ tiling.y \in Axes
  BY <1>2, TilingType
<1>4. tiling.y.to = area.y.to
  BY DEF Tiling, Axis
<1> HIDE DEF tiling
<1>5. k \in Int
  BY <1>2, <1>3, CellType
<1> HIDE DEF k
<1>6. i.y \in Spans
  BY <1>1, <1>3, <1>5, SpanType
<1>7. i.y.unit = tiling.y.unit /\ i.y.to <= tiling.y.unit * area.y.to
  <2> DEFINE edge == tiling.y.unit * TileStart(tiling.y, k) + RightPx(tiling.y, k) * tiling.y.tile
             box == tiling.y.unit * tiling.y.to
  <2>1. i.y.unit = tiling.y.unit /\ i.y.to = Least(edge, box)
    BY <1>1 DEF Span
  <2>2. box \in Int /\ i.y.to \in Int
    BY <1>3, <1>6 DEF Axes, Spans
  <2> HIDE DEF edge, box
  <2>3. i.y.to <= box
    BY <2>1, <2>2 DEF Least
  <2> QED
    BY <1>4, <2>1, <2>3 DEF box
<1>8. i.y.unit \in Nat \ {0} /\ i.y.to \in Int
  BY <1>6 DEF Spans
<1> QED
  BY <1>2, <1>7, <1>8, CeilOfMultiple, CeilType

LEMMA ContentExplained ==
  ASSUME ExtractionTypeOK, at.element \in DOMAIN document.elements, ShowsContent, NEW i, i = ContentItem
  PROVE  Ceil(i.y.to, i.y.unit) \in Int /\ Ceil(i.y.to, i.y.unit) <= area.y.to
<1>1. \E n : i.y = Whole(area.y, n)
  BY DEF ContentItem, Item
<1>2. PICK n : i.y = Whole(area.y, n)
  BY <1>1
<1>3. i.y.unit = Greatest(1, n) /\ i.y.to = i.y.unit * area.y.to
  BY <1>2 DEF Whole
<1>4. i \in Items
  BY ContentTypes
<1>5. i.y \in Spans
  BY <1>4 DEF Items
<1>6. i.y.unit \in Nat \ {0} /\ i.y.to \in Int /\ area.y.to \in Int
  BY <1>5, Here DEF Spans
<1>7. i.y.to <= i.y.unit * area.y.to
  BY <1>3, <1>6
<1> QED
  BY <1>6, <1>7, CeilOfMultiple, CeilType

(* An end that the walk adds is explained by the element it is at; those   *)
(* that were there stay so.                                                *)
LEMMA StillExplained ==
  ASSUME \A low \in Bottoms : IsExplained(low), UNCHANGED <<document, laid>>,
         NEW new, Bottoms' \subseteq Bottoms \cup {new}, IsExplained(new)
  PROVE  \A low \in Bottoms' : IsExplained(low)'
<1>1. \A e : Down(e)' = Down(e)
  BY DEF Down
<1>2. \A e, low : ExtendsTo(e, low)' <=> ExtendsTo(e, low)
  BY <1>1 DEF ExtendsTo
<1>3. \A low : IsExplained(low)' <=> IsExplained(low)
  BY <1>2 DEF IsExplained
<1> QED
  BY <1>3

LEMMA ColourExplained ==
  ASSUME ExtractionTypeOK, PaintColour, \A low \in Bottoms : IsExplained(low)
  PROVE  \A low \in Bottoms' : IsExplained(low)'
<1>1. at.element \in DOMAIN document.elements /\ UNCHANGED <<document, laid, images, texts>>
  BY DEF PaintColour, resources
<1> DEFINE box == [x |-> area.x, y |-> area.y, order |-> order, source |-> Source(ContentPart(element))]
<1>2. boxes' = Append(boxes, box) \/ boxes' = boxes
  BY DEF PaintColour
<1>3. boxes \in Seq(Boxes) /\ box.y.to = area.y.to
  BY DEF ExtractionTypeOK
<1> HIDE DEF box
<1>4. Range(boxes') \subseteq Range(boxes) \cup {box}
  BY <1>2, <1>3, RangeAppend
<1>5. Bottoms' \subseteq Bottoms \cup {area.y.to}
  BY <1>1, <1>3, <1>4 DEF Bottoms
<1> QED
  BY <1>1, <1>5, Here, StillExplained

LEMMA ImageExplained ==
  ASSUME ExtractionTypeOK, at.element \in DOMAIN document.elements,
         \A low \in Bottoms : IsExplained(low),
         UNCHANGED <<document, laid, boxes, texts>>,
         NEW i, images' = Append(images, i) \/ images' = images,
         images' = Append(images, i) =>
           Ceil(i.y.to, i.y.unit) \in Int /\ Ceil(i.y.to, i.y.unit) <= area.y.to
  PROVE  \A low \in Bottoms' : IsExplained(low)'
<1>1. images \in Seq(Items) /\ Range(images) = Range(images)
  BY DEF ExtractionTypeOK
<1>2. CASE images' = Append(images, i)
  <2>1. Range(images') = Range(images) \cup {i}
    BY <1>1, <1>2, RangeAppend
  <2>2. Bottoms' \subseteq Bottoms \cup {Ceil(i.y.to, i.y.unit)}
    BY <2>1 DEF Bottoms
  <2>3. IsExplained(Ceil(i.y.to, i.y.unit))
    BY <1>2, ExplainedBelow
  <2> QED
    BY <2>2, <2>3, StillExplained
<1>3. CASE images' = images
  <2>1. Bottoms' \subseteq Bottoms \cup {area.y.to}
    BY <1>3 DEF Bottoms
  <2> QED
    BY <2>1, Here, StillExplained
<1> QED
  BY <1>2, <1>3

LEMMA TextExplained ==
  ASSUME ExtractionTypeOK, ShapeRun, \A low \in Bottoms : IsExplained(low)
  PROVE  \A low \in Bottoms' : IsExplained(low)'
<1>1. /\ InRuns /\ at.item < Len(element.runs) /\ at.element \in DOMAIN document.elements
      /\ UNCHANGED <<document, laid, boxes, images>>
  BY DEF ShapeRun, InRuns, resources
<1>2. PICK t : /\ texts' = Append(texts, t) \/ texts' = texts
               /\ t.baseline = area.y.from + run.baseline
  <2>1. PICK place \in 1 .. Len(fonts) + 1 :
          texts' = IF run.glyphs
                   THEN Append(texts, [baseline |-> area.y.from + run.baseline, size |-> run.size,
                                       font |-> place, shaped |-> Font(run)])
                   ELSE texts
    BY DEF ShapeRun
  <2> DEFINE t == [baseline |-> area.y.from + run.baseline, size |-> run.size,
                   font |-> place, shaped |-> Font(run)]
  <2>2. t.baseline = area.y.from + run.baseline
    OBVIOUS
  <2>3. texts' = Append(texts, t) \/ texts' = texts
    BY <2>1
  <2> HIDE DEF t
  <2> QED
    BY <2>2, <2>3
<1>3. texts \in Seq(Texts)
  BY DEF ExtractionTypeOK
<1>4. Range(texts') \subseteq Range(texts) \cup {t}
  BY <1>2, <1>3, RangeAppend
<1>5. Bottoms' \subseteq Bottoms \cup {t.baseline}
  BY <1>1, <1>4 DEF Bottoms
<1>6. IsExplained(t.baseline)
  <2>1. run \in Runs /\ run \in Range(element.runs)
    <3>1. element.runs \in Seq(Runs) /\ at.item + 1 \in 1 .. Len(element.runs)
      BY <1>1, ElementType, WalkTypes
    <3> QED
      BY <3>1, ElementOfSeq DEF run, Range
  <2>2. run.baseline \in Nat
    BY <2>1 DEF Runs
  <2>3. t.baseline <= element.y.from + Down(element) + run.baseline
    BY <1>1, <1>2, <2>2, Here
  <2> QED
    BY <1>1, <2>1, <2>3, Here DEF IsExplained, ExtendsTo
<1> QED
  BY <1>1, <1>5, <1>6, StillExplained

(* What is painted below the window is there because an element reaches    *)
(* below it.                                                               *)
LEMMA WhyTooShort ==
  ASSUME ExtractionTypeOK, laid = [height |-> height, loaded |-> loaded],
         \A low \in Bottoms : IsExplained(low),
         NEW used \in Bottoms \cup {document.reserved}, used > height
  PROVE  ShortOf(height)
<1>1. CASE used = document.reserved
  BY <1>1 DEF ShortOf
<1>2. CASE used \in Bottoms
  <2>1. PICK e \in Range(document.elements) : ExtendsTo(e, used)
    BY <1>2 DEF IsExplained
  <2>2. e \in Elements
    BY ElementsType
  <2>3. e.y.to \in Int /\ e.y.from \in Int /\ e.shares \in Nat /\ e.push \in Nat /\ e.runs \in Seq(Runs)
    BY <2>2 DEF Elements, Intervals
  <2> DEFINE pushed == IF e.after \in loaded THEN e.push ELSE 0
  <2>4. Down(e) = e.shares * height + pushed /\ pushed \in Nat /\ pushed <= e.push
    BY <2>3 DEF Down
  <2>5. e.shares * height \in Int /\ used \in Int /\ height \in Int
    BY <1>2, <2>3, BottomsType DEF ExtractionTypeOK
  <2> HIDE DEF pushed
  <2>6. CASE used <= e.y.to + Down(e)
    <3>1. e.y.to + e.shares * height + pushed > height
      BY <2>3, <2>4, <2>5, <2>6
    <3> QED
      BY <2>1, <3>1 DEF ShortOf, Reaches, pushed
  <2>7. CASE \E r \in Range(e.runs) : used <= e.y.from + Down(e) + r.baseline
    <3>1. PICK r \in Range(e.runs) : used <= e.y.from + Down(e) + r.baseline
      BY <2>7
    <3>2. r \in Runs
      BY <2>3, MemberOfRange
    <3>3. r.baseline \in Nat
      BY <3>2 DEF Runs
    <3>4. e.y.from + e.shares * height + r.baseline + e.push > height
      <4> DEFINE p == e.shares * height
                 d == Down(e)
      <4>1. p \in Int /\ d = p + pushed /\ used <= e.y.from + d + r.baseline
        BY <2>4, <2>5, <3>1
      <4> HIDE DEF p, d
      <4>2. \A f, b, o, h, u, w \in Int : u <= f + (p + w) + b /\ w <= o /\ u > h => f + p + b + o > h
        BY <4>1
      <4>3. /\ e.y.from \in Int /\ r.baseline \in Int /\ e.push \in Int /\ height \in Int /\ used \in Int
            /\ pushed \in Int /\ pushed <= e.push
        BY <2>3, <2>4, <2>5, <3>3
      <4>4. e.y.from + p + r.baseline + e.push > height
        BY <4>1, <4>2, <4>3
      <4> QED
        BY <4>4 DEF p
    <3> QED
      BY <2>1, <3>1, <3>4 DEF ShortOf, Reaches
  <2> QED
    BY <2>1, <2>6, <2>7 DEF ExtendsTo
<1> QED
  BY <1>1, <1>2

(* More resources only make an element reach further.                      *)
LEMMA StillShort ==
  ASSUME ExtractionTypeOK, document' = document, loaded \subseteq loaded', NEW h \in Int, ShortOf(h)
  PROVE  ShortOf(h)'
<1>1. ASSUME NEW e \in Range(document.elements), Reaches(e, h) PROVE Reaches(e, h)'
  <2>1. e \in Elements
    BY ElementsType
  <2>2. e.y.to \in Int /\ e.shares \in Nat /\ e.push \in Nat
    BY <2>1 DEF Elements, Intervals
  <2> DEFINE p == e.shares * h
  <2>3. p \in Int
    BY <2>2
  <2> HIDE DEF p
  <2>4. CASE e.y.to + p + (IF e.after \in loaded THEN e.push ELSE 0) > h
    <3>1. e.y.to + p + (IF e.after \in loaded' THEN e.push ELSE 0) > h
      BY <2>2, <2>3, <2>4
    <3> QED
      BY <3>1 DEF Reaches, p
  <2>5. CASE \E r \in Range(e.runs) : e.y.from + p + r.baseline + e.push > h
    BY <2>5 DEF Reaches, p
  <2> QED
    BY <1>1, <2>4, <2>5 DEF Reaches, p
<1> QED
  BY <1>1 DEF ShortOf

LEMMA TriedType ==
  /\ \A h \in Tried : h \in Int
  /\ height' = height => Tried' = Tried
BY ExtractionConstants DEF Tried

LEMMA ElsewhereHInv ==
  ASSUME stage' \notin {"laying", "loading", "walking", "laid"}
  PROVE  HInv'
BY DEF HInv, Searching

LEMMA SameHInv ==
  ASSUME HInv, UNCHANGED <<stage, document, height, resources, lists>>
  PROVE  HInv'
<1>1. UNCHANGED <<stage, document, height, collected, loaded, laid, boxes, images, texts>>
  BY DEF resources, lists
<1>2. Tried' = Tried /\ Bottoms' = Bottoms
  BY <1>1, TriedType DEF Bottoms
<1>3. /\ \A h : ShortOf(h)' <=> ShortOf(h)
      /\ \A low : IsExplained(low)' <=> IsExplained(low)
  BY <1>1 DEF ShortOf, Reaches, IsExplained, ExtendsTo, Down
<1>4. /\ AskedAtOnce(loaded \cup collected)' <=> AskedAtOnce(loaded \cup collected)
      /\ AskedAtOnce(loaded)' <=> AskedAtOnce(loaded)
      /\ IsAttempt' <=> IsAttempt
      /\ Searching' <=> Searching
  BY <1>1 DEF AskedAtOnce, IsAttempt, Searching
<1> QED
  BY <1>1, <1>2, <1>3, <1>4 DEF HInv

LEMMA WalkHInv ==
  ASSUME HInv, stage = "walking", UNCHANGED <<stage, document, height, resources>>,
         \A low \in Bottoms' : IsExplained(low)'
  PROVE  HInv'
<1>1. UNCHANGED <<stage, document, height, collected, loaded, laid>>
  BY DEF resources
<1>2. Tried' = Tried
  BY <1>1, TriedType
<1>3. \A h : ShortOf(h)' <=> ShortOf(h)
  BY <1>1 DEF ShortOf, Reaches
<1>4. /\ AskedAtOnce(loaded)' <=> AskedAtOnce(loaded)
      /\ IsAttempt' <=> IsAttempt
  BY <1>1 DEF AskedAtOnce, IsAttempt
<1> QED
  BY <1>1, <1>2, <1>3, <1>4 DEF HInv, Searching

LEMMA ParseHInv ==
  ASSUME NEW d \in Documents, Build(d)
  PROVE  HInv'
<1>1. stage' = "laying" /\ height' = InitialHeight
  BY DEF Build
<1>2. InitialHeight <= MaxHeight /\ InitialHeight \in Nat
  BY ExtractionConstants
<1>3. IsAttempt'
  BY <1>1, DoubledGrows DEF IsAttempt
<1>4. Tried' = {}
  BY <1>1, <1>2 DEF Tried
<1>5. height' <= MaxHeight
  BY <1>1, <1>2
<1> QED
  BY <1>1, <1>3, <1>4, <1>5 DEF HInv, Searching

LEMMA LayOutHInv ==
  ASSUME ExtractionTypeOK, HInv, LayOut
  PROVE  HInv'
<1>1. /\ stage = "laying" /\ stage' = "loading" /\ UNCHANGED <<document, height, loaded>>
      /\ laid' = [height |-> height, loaded |-> loaded]
      /\ collected' = collected \cup Asked(loaded)
  BY DEF LayOut
<1>2. Tried' = Tried
  BY <1>1, TriedType
<1>3. \A h : ShortOf(h)' <=> ShortOf(h)
  BY <1>1 DEF ShortOf, Reaches
<1>4. AskedAtOnce(loaded \cup collected)'
  BY <1>1 DEF AskedAtOnce, Asked
<1>5. IsAttempt' <=> IsAttempt
  BY <1>1 DEF IsAttempt
<1> QED
  BY <1>1, <1>2, <1>3, <1>4, <1>5 DEF HInv, Searching

LEMMA LoadHInv ==
  ASSUME ExtractionTypeOK, HInv, Load
  PROVE  HInv'
<1>1. /\ stage = "loading" /\ stage' = "walking" /\ UNCHANGED <<document, height>>
      /\ loaded' = loaded \cup collected
      /\ boxes' = << >> /\ images' = << >> /\ texts' = << >>
  BY DEF Load, Forget
<1>2. laid' = [height |-> height', loaded |-> loaded']
  <2>1. CASE collected = {}
    <3>1. laid' = laid /\ loaded' = loaded /\ laid = [height |-> height, loaded |-> loaded]
      BY <1>1, <2>1 DEF Load, HInv
    <3> QED
      BY <1>1, <3>1
  <2>2. CASE collected # {}
    BY <1>1, <2>2 DEF Load
  <2> QED
    BY <2>1, <2>2
<1>3. AskedAtOnce(loaded)'
  BY <1>1 DEF HInv, AskedAtOnce
<1>4. \A h \in Tried' : ShortOf(h)'
  <2>1. Tried' = Tried /\ loaded \subseteq loaded'
    BY <1>1, TriedType
  <2> QED
    BY <1>1, <2>1, TriedType, StillShort DEF HInv, Searching
<1>5. Bottoms' = {}
  BY <1>1 DEF Bottoms, Range
<1>6. IsAttempt' <=> IsAttempt
  BY <1>1 DEF IsAttempt
<1> QED
  BY <1>1, <1>2, <1>3, <1>4, <1>5, <1>6 DEF HInv, Searching

LEMMA AnswerHInv ==
  ASSUME ExtractionTypeOK, HInv, Answer
  PROVE  HInv'
<1>1. stage = "walking" /\ stage' = "laid" /\ UNCHANGED <<document, height, resources, lists>>
  BY DEF Answer, Walked
<1>2. UNCHANGED <<loaded, laid, boxes, images, texts>>
  BY <1>1 DEF resources, lists
<1>3. Tried' = Tried /\ Bottoms' = Bottoms
  BY <1>1, <1>2, TriedType DEF Bottoms
<1>4. \A h : ShortOf(h)' <=> ShortOf(h)
  BY <1>1, <1>2 DEF ShortOf, Reaches
<1>5. /\ AskedAtOnce(loaded)' <=> AskedAtOnce(loaded)
      /\ IsAttempt' <=> IsAttempt
  BY <1>1, <1>2 DEF AskedAtOnce, IsAttempt
<1>6. ASSUME height < MaxHeight, NEW low \in Bottoms \cup {document.reserved} PROVE low <= height
  <2>1. PICK used \in Bottoms \cup {document.reserved} : IsContentHeight(used) /\ IsEnough(used)
    BY DEF Answer
  <2>2. /\ height \in Nat /\ MaxHeight \in Nat /\ document.reserved \in Int /\ Bottoms \subseteq Int
    BY ExtractionConstants, BottomsType DEF ExtractionTypeOK
  <2>3. used <= height /\ low <= used
    BY <1>6, <2>1, <2>2 DEF IsEnough, IsContentHeight
  <2> QED
    BY <2>2, <2>3
<1> QED
  BY <1>1, <1>2, <1>3, <1>4, <1>5, <1>6 DEF HInv, Searching

LEMMA GrowHInv ==
  ASSUME ExtractionTypeOK, HInv, Grow
  PROVE  HInv'
<1>1. /\ stage = "walking" /\ stage' = "laying" /\ UNCHANGED <<document, resources>>
      /\ height' = Least(2 * height, MaxHeight)
  BY DEF Grow, Walked
<1>2. PICK used \in Bottoms \cup {document.reserved} : ~ IsEnough(used)
  BY DEF Grow
<1>3. /\ height \in Nat \ {0} /\ MaxHeight \in Nat /\ InitialHeight \in Nat \ {0}
      /\ document.reserved \in Int /\ Bottoms \subseteq Int
  BY ExtractionConstants, BottomsType DEF ExtractionTypeOK
<1>4. used > height /\ height < MaxHeight
  BY <1>2, <1>3 DEF IsEnough
<1>5. ShortOf(height)
  BY <1>1, <1>4, WhyTooShort DEF HInv
<1>6. PICK m \in Nat : height = Doubled[m]
  BY <1>1, <1>3, <1>4 DEF HInv, Searching, IsAttempt
<1>7. height' <= MaxHeight /\ height' <= 2 * height /\ height' \in Nat
  BY <1>1, <1>3 DEF Least
<1>8. IsAttempt'
  <2>1. 2 * height = Doubled[m + 1] /\ m + 1 \in Nat
    BY <1>6, DoubledGrows
  <2>2. height' = 2 * height \/ height' = MaxHeight
    BY <1>1 DEF Least
  <2> QED
    BY <2>1, <2>2 DEF IsAttempt
<1>9. \A h : ShortOf(h)' <=> ShortOf(h)
  BY <1>1 DEF ShortOf, Reaches, resources
<1>10. ASSUME NEW h \in Tried' PROVE ShortOf(h)
  <2>1. h \in InitialHeight .. height' - 1 /\ \E k \in 0 .. h : h = Doubled[k]
    BY DEF Tried
  <2>2. h \in Nat /\ h < height'
    BY <1>3, <1>7, <2>1
  <2>3. PICK k \in Nat : h = Doubled[k]
    BY <2>1, <2>2
  <2>4. CASE h < height
    <3>1. h \in Tried
      BY <1>3, <2>1, <2>2, <2>4 DEF Tried
    <3> QED
      BY <1>1, <3>1 DEF HInv, Searching
  <2>5. CASE h = height
    BY <1>5, <2>5
  <2>6. CASE h > height
    <3>1. 2 * height <= h
      BY <1>3, <1>6, <2>2, <2>3, <2>6, DoubledAscends
    <3> QED
      BY <1>3, <1>7, <2>2, <3>1
  <2> QED
    BY <1>3, <2>2, <2>4, <2>5, <2>6
<1> QED
  BY <1>1, <1>7, <1>8, <1>9, <1>10 DEF HInv, Searching

LEMMA InitHInv == Init => HInv
  BY DEF Init, HInv, Searching

LEMMA ExtractHInv ==
  ASSUME ExtractionTypeOK, HInv, Extract
  PROVE  HInv'
<1>1. ASSUME PaintColour PROVE HInv'
  BY <1>1, ColourExplained, WalkHInv DEF PaintColour, HInv
<1>2. ASSUME PaintTile PROVE HInv'
  <2>1. /\ InLayers /\ at.item < TilesHere /\ stage = "walking" /\ at.element \in DOMAIN document.elements
        /\ UNCHANGED <<stage, document, height, resources, boxes, texts>>
    BY <1>2 DEF PaintTile, InLayers
  <2>2. PICK i : i = Tile(Tiling(layer, area))
    OBVIOUS
  <2>3. images' = Append(images, i) \/ images' = images
    BY <1>2, <2>2 DEF PaintTile
  <2>4. Ceil(i.y.to, i.y.unit) \in Int /\ Ceil(i.y.to, i.y.unit) <= area.y.to
    BY <2>1, <2>2, TileExplained
  <2>5. \A low \in Bottoms' : IsExplained(low)'
    BY <2>1, <2>3, <2>4, ImageExplained DEF resources, HInv
  <2> QED
    BY <2>1, <2>5, WalkHInv
<1>3. ASSUME PaintContent PROVE HInv'
  <2>1. /\ stage = "walking" /\ at.element \in DOMAIN document.elements
        /\ UNCHANGED <<stage, document, height, resources, boxes, texts>>
    BY <1>3 DEF PaintContent
  <2>2. PICK i : i = ContentItem
    OBVIOUS
  <2>3. images' = Append(images, i) \/ images' = images
    BY <1>3, <2>2 DEF PaintContent
  <2>4. CASE ShowsContent
    <3>1. Ceil(i.y.to, i.y.unit) \in Int /\ Ceil(i.y.to, i.y.unit) <= area.y.to
      BY <2>1, <2>2, <2>4, ContentExplained
    <3>2. \A low \in Bottoms' : IsExplained(low)'
      BY <2>1, <2>3, <3>1, ImageExplained DEF resources, HInv
    <3> QED
      BY <2>1, <3>2, WalkHInv
  <2>5. CASE ~ ShowsContent
    <3>1. images' = images
      BY <1>3, <2>5 DEF PaintContent
    <3>2. Bottoms' \subseteq Bottoms \cup {area.y.to}
      BY <2>1, <3>1 DEF Bottoms
    <3>3. \A low \in Bottoms' : IsExplained(low)'
      BY <2>1, <3>2, Here, StillExplained DEF resources, HInv
    <3> QED
      BY <2>1, <3>3, WalkHInv
  <2> QED
    BY <2>4, <2>5
<1>4. ASSUME ShapeRun PROVE HInv'
  BY <1>4, TextExplained, WalkHInv DEF ShapeRun, InRuns, HInv
<1>5. ASSUME LeaveLayer \/ NextElement PROVE HInv'
  BY <1>5, SameHInv DEF LeaveLayer, NextElement
<1> QED
  BY <1>1, <1>2, <1>3, <1>4, <1>5, LayOutHInv, LoadHInv, AnswerHInv, GrowHInv DEF Extract

LEMMA NextHInv == SInv /\ HInv /\ [Next]_vars => HInv'
<1> SUFFICES ASSUME SInv, HInv, [Next]_vars PROVE HInv'
  OBVIOUS
<1>1. ExtractionTypeOK
  BY DEF SInv, TypeOK
<1>2. ASSUME Rewrite \/ UNCHANGED vars PROVE HInv'
  <2>1. UNCHANGED <<stage, document, height, resources, lists>>
    BY <1>2 DEF Rewrite, vars, extractionVars
  <2> QED
    BY <2>1, SameHInv
<1>3. ASSUME HandOver PROVE HInv'
  BY <1>3, ElsewhereHInv DEF HandOver
<1>4. ASSUME Parse PROVE HInv'
  BY <1>4, ParseHInv DEF Parse
<1>5. ASSUME Rasterize PROVE HInv'
  <2>1. stage' \in {"painting", "failed", "encoding", "done"}
    BY <1>5 DEF Rasterize, ChooseFrame, DrawBox, DrawImage, DrawGroup, Encode, Compact, Deliver
  <2> QED
    BY <2>1, ElsewhereHInv
<1> QED
  BY <1>1, <1>2, <1>3, <1>4, <1>5, ExtractHInv DEF Next

LEMMA SpecHInv == Spec => []HInv
  BY InitHInv, NextHInv, SpecSInv, PTL DEF Spec

(* Whatever the document and whenever its resources come: the list that is *)
(* answered is laid out with all that was asked for at once, at a height   *)
(* that it fits or at the cap, and at each of the heights tried before,    *)
(* from the first on and each twice the one before, something reached      *)
(* below it.                                                               *)
THEOREM AnswersFit == Spec => []AnswerFits
  BY HInvFits, SpecHInv, PTL

-----------------------------------------------------------------------------
(* The tiles of one axis.  In cells, of which `unit` make a px, tile k has *)
(* the place from unit * start up to where tile k + 1 begins, and what is  *)
(* kept of it lies in its place and in the box.                            *)
LEMMA AxisParts ==
  ASSUME NEW axis \in Axes
  PROVE  /\ axis.from \in Int /\ axis.to \in Int /\ axis.origin \in Int
         /\ axis.tile \in Nat \ {0} /\ axis.unit \in Nat \ {0} /\ axis.repeats \in BOOLEAN
  BY DEF Axes

PlaceFrom(axis, k) == axis.unit * TileStart(axis, k)

LEMMA PlaceIs ==
  ASSUME NEW axis \in Axes, NEW k \in Int
  PROVE  /\ TileStart(axis, k) \in Int /\ PlaceFrom(axis, k) \in Int
         /\ axis.unit * axis.tile \in Nat \ {0}
         /\ PlaceFrom(axis, k) = axis.unit * axis.origin + (axis.unit * axis.tile) * k
<1>1. /\ axis.origin \in Int /\ axis.tile \in Nat \ {0} /\ axis.unit \in Nat \ {0}
  BY AxisParts
<1>2. \A o, n \in Int, t, u \in Nat \ {0} :
        /\ u * (o + n * t) = u * o + (u * t) * n /\ u * t \in Nat \ {0}
        /\ o + n * t \in Int /\ u * (o + n * t) \in Int
  OBVIOUS
<1> QED
  BY <1>1, <1>2 DEF PlaceFrom, TileStart

LEMMA SpanInside ==
  ASSUME NEW axis \in Axes, NEW k \in Int, NEW c \in Int, Shows(Span(axis, k), c)
  PROVE  PlaceFrom(axis, k) <= c /\ c < PlaceFrom(axis, k) + axis.unit * axis.tile
<1>1. /\ axis.from \in Int /\ axis.to \in Int /\ axis.tile \in Nat \ {0} /\ axis.unit \in Nat \ {0}
  BY AxisParts
<1>2. PlaceFrom(axis, k) \in Int /\ axis.unit * axis.tile \in Int
  BY PlaceIs
<1> DEFINE left == LeftPx(axis, k)
           right == RightPx(axis, k)
           place == PlaceFrom(axis, k)
<1>3. /\ left \in Int /\ 0 <= left /\ right \in Int /\ right <= axis.unit
  <2>1. /\ Span(axis, k).left = left /\ Span(axis, k).right = right
    BY DEF Span
  <2>2. left \in Int /\ right \in Int
    BY <2>1, SpanType DEF Spans
  <2> QED
    BY <2>1, <2>2, SpanType
<1>4. /\ Span(axis, k).from = Greatest(place + left * axis.tile, axis.unit * axis.from)
      /\ Span(axis, k).to = Least(place + right * axis.tile, axis.unit * axis.to)
  BY DEF Span, PlaceFrom
<1> HIDE DEF left, right, place
<1>5. /\ left * axis.tile \in Int /\ 0 <= left * axis.tile
      /\ right * axis.tile \in Int /\ right * axis.tile <= axis.unit * axis.tile
      /\ axis.unit * axis.from \in Int /\ axis.unit * axis.to \in Int
  <2>1. \A l, r \in Int, t, u \in Nat \ {0} :
          0 <= l /\ r <= u => l * t \in Int /\ 0 <= l * t /\ r * t \in Int /\ r * t <= u * t
    OBVIOUS
  <2>2. \A u, n \in Int : u * n \in Int
    OBVIOUS
  <2> QED
    BY <1>1, <1>3, <2>1, <2>2
<1>6. place + left * axis.tile <= c
  <2>1. Greatest(place + left * axis.tile, axis.unit * axis.from) <= c
    BY <1>4 DEF Shows
  <2>2. place \in Int
    BY <1>2 DEF place
  <2> QED
    BY <1>5, <2>1, <2>2 DEF Greatest
<1>7. c < place + right * axis.tile
  <2>1. c < Least(place + right * axis.tile, axis.unit * axis.to)
    BY <1>4 DEF Shows
  <2>2. place \in Int
    BY <1>2 DEF place
  <2> QED
    BY <1>5, <2>1, <2>2 DEF Least
<1>8. place \in Int
  BY <1>2 DEF place
<1>9. \A p, l, r, w, x \in Int : p + l <= x /\ 0 <= l /\ x < p + r /\ r <= w => p <= x /\ x < p + w
  OBVIOUS
<1> QED
  BY <1>2, <1>5, <1>6, <1>7, <1>8, <1>9 DEF place

(* A cell is shown by one tile at most.                                    *)
LEMMA OneTile ==
  ASSUME NEW axis \in Axes, NEW k \in Int, NEW l \in Int, NEW c \in Int,
         Shows(Span(axis, k), c), Shows(Span(axis, l), c)
  PROVE  k = l
<1> DEFINE w == axis.unit * axis.tile
           o == axis.unit * axis.origin
<1>1. /\ w \in Nat \ {0} /\ PlaceFrom(axis, k) = o + w * k /\ PlaceFrom(axis, l) = o + w * l
  BY PlaceIs
<1>2. o \in Int
  BY AxisParts, Distributing
<1>3. /\ PlaceFrom(axis, k) <= c /\ c < PlaceFrom(axis, k) + w
      /\ PlaceFrom(axis, l) <= c /\ c < PlaceFrom(axis, l) + w
  BY SpanInside
<1> HIDE DEF w, o
<1>4. w * k < w * (l + 1) /\ w * l < w * (k + 1)
  <2>1. /\ w * k \in Int /\ w * l \in Int /\ w * (l + 1) = w * l + w /\ w * (k + 1) = w * k + w
    BY <1>1, Distributing
  <2>2. o + w * k < o + w * l + w /\ o + w * l < o + w * k + w
    <3>1. \A a, b, x, y \in Int : a <= x /\ x < a + y /\ b <= x /\ x < b + y => a < b + y /\ b < a + y
      OBVIOUS
    <3> QED
      BY <1>1, <1>2, <1>3, <2>1, <3>1
  <2> QED
    BY <1>1, <1>2, <2>1, <2>2
<1>5. k < l + 1 /\ l < k + 1
  BY <1>1, <1>4, Cancelling
<1> QED
  BY <1>5

(* The tile whose place a cell is in.                                      *)
TileOver(axis, c) == (c - axis.unit * axis.origin) \div (axis.unit * axis.tile)

LEMMA TileOverIs ==
  ASSUME NEW axis \in Axes, NEW c \in Int
  PROVE  /\ TileOver(axis, c) \in Int
         /\ PlaceFrom(axis, TileOver(axis, c)) <= c
         /\ c < PlaceFrom(axis, TileOver(axis, c)) + axis.unit * axis.tile
<1> DEFINE w == axis.unit * axis.tile
           o == axis.unit * axis.origin
           k == (c - o) \div w
<1>1. w \in Nat \ {0} /\ o \in Int
  BY AxisParts, PlaceIs, Distributing
<1> HIDE DEF w, o
<1>2. k \in Int /\ w * k <= c - o /\ c - o < w * k + w
  BY <1>1, Dividing
<1>3. TileOver(axis, c) = k
  BY DEF TileOver, w, o
<1> HIDE DEF k
<1>4. PlaceFrom(axis, k) = o + w * k
  BY <1>2, PlaceIs DEF w, o
<1>5. w * k \in Int
  BY <1>1, <1>2
<1>6. o + w * k <= c /\ c < o + w * k + w
  BY <1>1, <1>2, <1>5
<1> QED
  BY <1>2, <1>3, <1>4, <1>6 DEF w

(* A cell of the box is in the place of a tile that is painted.            *)
LEMMA TileOverIsPainted ==
  ASSUME NEW axis \in Axes, axis.repeats, NEW c \in Int,
         axis.unit * axis.from <= c, c < axis.unit * axis.to
  PROVE  TileOver(axis, c) \in FirstTile(axis) .. FirstTile(axis) + TileCount(axis) - 1
<1>1. /\ axis.from \in Int /\ axis.to \in Int /\ axis.origin \in Int
      /\ axis.tile \in Nat \ {0} /\ axis.unit \in Nat \ {0}
  BY AxisParts
<1> DEFINE w == axis.unit * axis.tile
           o == axis.unit * axis.origin
           k == TileOver(axis, c)
           first == (axis.from - axis.origin) \div axis.tile
           end == - ((- (axis.to - axis.origin)) \div axis.tile)
<1>2. /\ k \in Int /\ w \in Nat \ {0} /\ o \in Int /\ o + w * k <= c /\ c < o + w * k + w
  <2>1. o \in Int
    BY <1>1, Distributing
  <2>2. k \in Int /\ PlaceFrom(axis, k) <= c /\ c < PlaceFrom(axis, k) + w
    BY TileOverIs
  <2> HIDE DEF k
  <2>3. PlaceFrom(axis, k) = o + w * k /\ w \in Nat \ {0}
    BY <2>2, PlaceIs
  <2> QED
    BY <2>1, <2>2, <2>3
<1>3. FirstTile(axis) = first /\ first \in Int /\ axis.tile * first <= axis.from - axis.origin
  <2>1. axis.from - axis.origin \in Int
    BY <1>1
  <2>2. FirstTile(axis) = first
    BY DEF FirstTile
  <2> QED
    BY <1>1, <2>1, <2>2, Dividing
<1>4. /\ TileCount(axis) = Greatest(1, end - first) /\ end \in Int
      /\ axis.to - axis.origin <= axis.tile * end
  <2>1. TileCount(axis) = Greatest(1, end - first)
    BY DEF TileCount, FirstTile, Ceil
  <2> DEFINE q == (- (axis.to - axis.origin)) \div axis.tile
  <2>2. q \in Int /\ axis.tile * q <= - (axis.to - axis.origin)
    <3>1. - (axis.to - axis.origin) \in Int
      BY <1>1
    <3> QED
      BY <1>1, <3>1, Dividing
  <2> HIDE DEF q
  <2>3. axis.tile * (- q) = - (axis.tile * q) /\ axis.tile * q \in Int
    BY <1>1, <2>2, Distributing
  <2>4. end = - q
    BY DEF q
  <2> HIDE DEF end
  <2>5. axis.to - axis.origin <= axis.tile * (- q)
    BY <1>1, <2>2, <2>3
  <2> QED
    BY <2>1, <2>2, <2>4, <2>5
<1> HIDE DEF k, first, end
<1>5. \A u, t \in Nat \ {0}, n, e, g \in Int :
        /\ t * n <= e - g => (u * t) * n <= u * e - u * g
        /\ e - g <= t * n => u * e - u * g <= (u * t) * n
  <2> TAKE u, t \in Nat \ {0}, n, e, g \in Int
  <2>1. u * (t * n) = (u * t) * n /\ t * n \in Int
    OBVIOUS
  <2>2. u * (e - g) = u * e - u * g
    BY Distributing
  <2> QED
    BY <2>1, <2>2, Cancelling
<1>6. w * first <= c - o
  <2>1. w * first <= axis.unit * axis.from - o
    BY <1>1, <1>3, <1>5
  <2> HIDE DEF w, o
  <2>2. w * first \in Int /\ axis.unit * axis.from \in Int
    BY <1>1, <1>2, <1>3, Distributing
  <2> QED
    BY <1>2, <2>1, <2>2
<1>7. c - o < w * end
  <2>1. axis.unit * axis.to - o <= w * end
    BY <1>1, <1>4, <1>5
  <2> HIDE DEF w, o
  <2>2. w * end \in Int /\ axis.unit * axis.to \in Int
    BY <1>1, <1>2, <1>4, Distributing
  <2> QED
    BY <1>2, <2>1, <2>2
<1> HIDE DEF w, o
<1>8. /\ w * k \in Int /\ w * first \in Int /\ w * end \in Int
      /\ w * (k + 1) = w * k + w
  BY <1>2, <1>3, <1>4, Distributing
<1>9. w * first < w * (k + 1) /\ w * k < w * end
  BY <1>2, <1>6, <1>7, <1>8
<1>10. first < k + 1 /\ k < end
  BY <1>2, <1>3, <1>4, <1>9, Cancelling
<1>11. TileCount(axis) >= end - first
  BY <1>3, <1>4 DEF Greatest
<1>12. TileCount(axis) \in Nat
  BY TileCountType
<1> QED
  BY <1>2, <1>3, <1>4, <1>10, <1>11, <1>12 DEF k

(* Rounding outwards, the crop of a tile keeps the pixel of every cell of  *)
(* the box that lies in the tile's place, and a place for it.              *)
LEMMA PixelIsKept ==
  ASSUME NEW axis \in Axes, NEW k \in Int, NEW c \in Int,
         axis.unit * axis.from <= c, c < axis.unit * axis.to,
         PlaceFrom(axis, k) <= c, c < PlaceFrom(axis, k) + axis.unit * axis.tile
  PROVE  /\ Shows(Span(axis, k), c) /\ IsSeen(axis, k)
         /\ PixelAt(axis, k, c) \in Span(axis, k).left .. Span(axis, k).right - 1
<1> DEFINE t == axis.tile
           u == axis.unit
           start == TileStart(axis, k)
           first == SeenFrom(axis, k)
           last == SeenTo(axis, k)
           place == PlaceFrom(axis, k)
           d == c - place
           p == d \div t
<1>1. /\ axis.from \in Int /\ axis.to \in Int /\ t \in Nat \ {0} /\ u \in Nat \ {0}
      /\ start \in Int /\ place \in Int /\ u * t \in Nat \ {0}
  BY AxisParts, PlaceIs
<1>2. first = Greatest(start, axis.from) /\ last = Least(start + t, axis.to)
  BY DEF SeenFrom, SeenTo
<1>3. place = u * start
  BY DEF PlaceFrom
<1>4. /\ u * axis.from <= c /\ c < u * axis.to /\ place <= c /\ c < place + u * t
  OBVIOUS
<1>5. p = PixelAt(axis, k, c)
  BY DEF PixelAt, PlaceFrom
<1> HIDE DEF t, u, start, first, last, place, d, p
<1>6. first \in Int /\ last \in Int /\ u * first <= c /\ c < u * last
  <2>1. u * (start + t) = place + u * t /\ start + t \in Int
    BY <1>1, <1>3, Distributing
  <2> QED
    BY <1>1, <1>2, <1>3, <1>4, <2>1 DEF Greatest, Least
<1>7. d \in Int /\ 0 <= d /\ d < u * t
  BY <1>1, <1>4 DEF d
<1>8. p \in Int /\ t * p <= d /\ d < t * (p + 1)
  <2>1. p \in Int /\ t * p <= d /\ d < t * p + t
    BY <1>1, <1>7, Dividing DEF p
  <2>2. t * (p + 1) = t * p + t
    BY <1>1, <2>1, Distributing
  <2> QED
    BY <2>1, <2>2
<1>9. 0 <= p /\ p < u
  <2>1. t * 0 < t * (p + 1)
    <3>1. t * 0 = 0 /\ t * (p + 1) \in Int
      BY <1>1, <1>8, Distributing
    <3> QED
      BY <1>7, <1>8, <3>1
  <2>2. t * p < t * u
    <3>1. t * u = u * t /\ t * p \in Int
      BY <1>1, <1>8, Distributing
    <3> QED
      BY <1>1, <1>7, <1>8, <3>1
  <2>3. 0 < p + 1 /\ p < u
    BY <1>1, <1>8, <2>1, <2>2, Cancelling
  <2> QED
    BY <1>8, <2>3
<1> DEFINE low == ((first - start) * u) \div t
           high == Ceil((last - start) * u, t)
<1>10. low \in Int /\ low <= p
  <2> DEFINE n == (first - start) * u
  <2>1. n = u * first - place /\ n \in Int /\ u * first \in Int
    <3>1. first - start \in Int
      BY <1>1, <1>6
    <3>2. n = u * (first - start) /\ n \in Int
      BY <1>1, <3>1, Distributing
    <3> QED
      BY <1>1, <1>3, <1>6, <3>2, Distributing
  <2> HIDE DEF n
  <2>2. low \in Int /\ t * low <= n
    BY <1>1, <2>1, Dividing DEF n
  <2> HIDE DEF low
  <2>3. n <= d
    BY <1>1, <1>6, <2>1 DEF d
  <2>4. t * low < t * (p + 1)
    <3>1. t * low \in Int /\ t * (p + 1) \in Int
      BY <1>1, <1>8, <2>2, Distributing
    <3> QED
      BY <1>7, <1>8, <2>1, <2>2, <2>3, <3>1
  <2>5. low < p + 1
    BY <1>1, <1>8, <2>2, <2>4, Cancelling
  <2> QED
    BY <1>8, <2>2, <2>5
<1>11. high \in Int /\ p < high
  <2> DEFINE n == (last - start) * u
             q == (- n) \div t
  <2>1. n = u * last - place /\ n \in Int /\ u * last \in Int
    <3>1. last - start \in Int
      BY <1>1, <1>6
    <3>2. n = u * (last - start) /\ n \in Int
      BY <1>1, <3>1, Distributing
    <3> QED
      BY <1>1, <1>3, <1>6, <3>2, Distributing
  <2>2. high = - q
    BY DEF Ceil
  <2> HIDE DEF n, high
  <2>3. q \in Int /\ t * q <= - n
    <3>1. - n \in Int
      BY <2>1
    <3> QED
      BY <1>1, <3>1, Dividing
  <2> HIDE DEF q
  <2>4. t * (- q) = - (t * q) /\ t * q \in Int /\ t * p \in Int
    BY <1>1, <1>8, <2>3, Distributing
  <2>5. d < n
    BY <1>1, <1>6, <2>1 DEF d
  <2>6. t * p < t * (- q)
    BY <1>7, <1>8, <2>1, <2>3, <2>4, <2>5
  <2>7. p < - q
    BY <1>1, <1>8, <2>3, <2>6, Cancelling
  <2> QED
    BY <2>2, <2>3, <2>7
<1> DEFINE left == LeftPx(axis, k)
           right == RightPx(axis, k)
<1>12. left = Clamp(low, 0, u - 1) /\ right = Clamp(high, left + 1, u)
  BY DEF LeftPx, RightPx, low, high, first, last, start, t, u
<1> HIDE DEF low, high, left, right
<1>13. left \in Int /\ 0 <= left /\ left <= p
  BY <1>1, <1>8, <1>9, <1>10, <1>12 DEF Clamp, Greatest, Least
<1>14. right \in Int /\ p < right
  BY <1>1, <1>8, <1>9, <1>11, <1>12, <1>13 DEF Clamp, Greatest, Least
<1>15. place + left * t <= c /\ c < place + right * t /\ left * t \in Int /\ right * t \in Int
  <2>1. /\ left * t = t * left /\ right * t = t * right /\ t * left \in Int /\ t * right \in Int
        /\ t * p \in Int /\ t * (p + 1) \in Int
    BY <1>1, <1>8, <1>13, <1>14, Distributing
  <2>2. t * left <= t * p
    BY <1>1, <1>8, <1>13, Cancelling
  <2>3. t * (p + 1) <= t * right
    <3>1. p + 1 <= right /\ p + 1 \in Int
      BY <1>8, <1>14
    <3> QED
      BY <1>1, <1>14, <3>1, Cancelling
  <2>4. t * left <= d /\ d < t * right
    BY <1>7, <1>8, <2>1, <2>2, <2>3
  <2> QED
    BY <1>1, <2>1, <2>4 DEF d
<1>16. /\ Span(axis, k).from = Greatest(place + left * t, u * axis.from)
       /\ Span(axis, k).to = Least(place + right * t, u * axis.to)
       /\ Span(axis, k).left = left /\ Span(axis, k).right = right
  BY DEF Span, PlaceFrom, place, left, right, t, u
<1>17. u * axis.from \in Int /\ u * axis.to \in Int
  BY <1>1, Distributing
<1>18. Span(axis, k).from <= c /\ c < Span(axis, k).to
  BY <1>1, <1>4, <1>15, <1>16, <1>17 DEF Greatest, Least
<1>19. Span(axis, k).from \in Int /\ Span(axis, k).to \in Int
  BY SpanType DEF Spans
<1>20. first < last
  <2>1. u * first < u * last
    <3>1. u * first \in Int /\ u * last \in Int
      BY <1>1, <1>6, Distributing
    <3> QED
      BY <1>6, <3>1
  <2> QED
    BY <1>1, <1>6, <2>1, Cancelling
<1>21. IsSeen(axis, k)
  BY <1>18, <1>19, <1>20 DEF IsSeen, first, last
<1>22. p \in Span(axis, k).left .. Span(axis, k).right - 1
  BY <1>8, <1>13, <1>14, <1>16
<1> QED
  BY <1>5, <1>18, <1>21, <1>22 DEF Shows

(* So a cell of the box is shown by the tile it lies in and no other, with *)
(* the pixel that lies there.                                              *)
LEMMA CellIsCovered ==
  ASSUME NEW axis \in Axes, axis.repeats, NEW c \in Int,
         axis.unit * axis.from <= c, c < axis.unit * axis.to
  PROVE  \E k \in FirstTile(axis) .. FirstTile(axis) + TileCount(axis) - 1 :
           /\ IsSeen(axis, k) /\ Shows(Span(axis, k), c) /\ Keeps(Span(axis, k), axis, c)
           /\ \A l \in Int : Shows(Span(axis, l), c) => l = k
<1>1. PICK k \in FirstTile(axis) .. FirstTile(axis) + TileCount(axis) - 1 : k = TileOver(axis, c)
  BY TileOverIsPainted
<1>2. k \in Int /\ PlaceFrom(axis, k) <= c /\ c < PlaceFrom(axis, k) + axis.unit * axis.tile
  BY <1>1, TileOverIs
<1>3. /\ Shows(Span(axis, k), c) /\ IsSeen(axis, k)
      /\ PixelAt(axis, k, c) \in Span(axis, k).left .. Span(axis, k).right - 1
  BY <1>2, PixelIsKept
<1>4. Keeps(Span(axis, k), axis, c)
  BY <1>1, <1>3 DEF Keeps
<1>5. \A l \in Int : Shows(Span(axis, l), c) => l = k
  BY <1>2, <1>3, OneTile
<1> QED
  BY <1>1, <1>3, <1>4, <1>5

LEMMA SpanWithin ==
  ASSUME NEW axis \in Axes, NEW k \in Int
  PROVE  axis.unit * axis.from <= Span(axis, k).from /\ Span(axis, k).to <= axis.unit * axis.to
<1> DEFINE near == axis.unit * TileStart(axis, k) + LeftPx(axis, k) * axis.tile
           far == axis.unit * TileStart(axis, k) + RightPx(axis, k) * axis.tile
           low == axis.unit * axis.from
           high == axis.unit * axis.to
<1>1. Span(axis, k).from = Greatest(near, low) /\ Span(axis, k).to = Least(far, high)
  BY DEF Span
<1>2. low \in Int /\ high \in Int
  BY AxisParts, Distributing
<1>3. Span(axis, k).from \in Int /\ Span(axis, k).to \in Int
  BY SpanType DEF Spans
<1> HIDE DEF near, far, low, high
<1>4. low <= Span(axis, k).from /\ Span(axis, k).to <= high
  BY <1>1, <1>2, <1>3 DEF Greatest, Least
<1> QED
  BY <1>4 DEF low, high

(* The tiles are numbered row by row: every column and row has a number    *)
(* among them, and only one.                                               *)
LEMMA TileNumber ==
  ASSUME NEW tiling, tiling.x \in Axes, tiling.y \in Axes,
         NEW kx \in FirstTile(tiling.x) .. FirstTile(tiling.x) + TileCount(tiling.x) - 1,
         NEW ky \in FirstTile(tiling.y) .. FirstTile(tiling.y) + TileCount(tiling.y) - 1
  PROVE  \E n \in 0 .. Tiles(tiling) - 1 :
           /\ Column(tiling, n) = kx /\ Row(tiling, n) = ky
           /\ \A m \in Nat : Column(tiling, m) = kx /\ Row(tiling, m) = ky => m = n
<1> DEFINE fx == FirstTile(tiling.x)
           fy == FirstTile(tiling.y)
           w == TileCount(tiling.x)
           h == TileCount(tiling.y)
           x == kx - fx
           y == ky - fy
           n == w * y + x
<1>1. fx \in Int /\ fy \in Int /\ w \in Nat \ {0} /\ h \in Nat \ {0}
  BY FirstTileType, TileCountType
<1> HIDE DEF fx, fy, w, h
<1>2. kx \in fx .. fx + w - 1 /\ ky \in fy .. fy + h - 1
  BY DEF fx, fy, w, h
<1>3. x \in Nat /\ x < w /\ y \in Nat /\ y < h /\ kx = fx + x /\ ky = fy + y
  BY <1>1, <1>2
<1> HIDE DEF x, y
<1>4. n \in Nat /\ n < w * h
  <2>1. w * y \in Nat /\ w * (y + 1) = w * y + w /\ w * (y + 1) \in Int /\ w * h \in Int
    BY <1>1, <1>3, Distributing
  <2>2. w * (y + 1) <= w * h
    <3>1. y + 1 <= h /\ y + 1 \in Int
      BY <1>1, <1>3
    <3> QED
      BY <1>1, <3>1, Cancelling
  <2> QED
    BY <1>1, <1>3, <2>1, <2>2
<1>5. n \div w = y /\ n % w = x
  <2>1. \A a, b \in Nat, v \in Nat \ {0} : b < v => (v * a + b) \div v = a /\ (v * a + b) % v = b
    OBVIOUS
  <2> QED
    BY <1>1, <1>3, <2>1
<1> HIDE DEF n
<1>6. ASSUME NEW m \in Nat PROVE Column(tiling, m) = fx + (m % w) /\ Row(tiling, m) = fy + m \div w
  BY DEF Column, Row, fx, fy, w
<1>7. Column(tiling, n) = kx /\ Row(tiling, n) = ky
  BY <1>3, <1>4, <1>5, <1>6
<1>8. ASSUME NEW m \in Nat, Column(tiling, m) = kx, Row(tiling, m) = ky PROVE m = n
  <2>1. m % w \in Int /\ m \div w \in Int /\ m = w * (m \div w) + (m % w)
    BY <1>1
  <2>2. m % w = x /\ m \div w = y
    BY <1>1, <1>3, <1>6, <1>8, <2>1
  <2> QED
    BY <2>1, <2>2 DEF n
<1>9. Tiles(tiling) = w * h
  BY DEF Tiles, w, h
<1>10. n \in 0 .. Tiles(tiling) - 1
  <2>1. w * h \in Int
    BY <1>1, Distributing
  <2> QED
    BY <1>4, <1>9, <2>1
<1> QED
  BY <1>7, <1>8, <1>10

-----------------------------------------------------------------------------
(* The walk through a layer.  The list holds of it just the tiles that     *)
(* were passed and of which something is seen, each in its place in the    *)
(* order.                                                                  *)
TileAt(tiling, n) ==
  [x |-> Span(tiling.x, Column(tiling, n)), y |-> Span(tiling.y, Row(tiling, n)),
   order |-> order - at.item + n, image |-> layer.image,
   buffer |-> IF TileIsWhole(tiling, n) THEN BufferOf(layer.image) ELSE MadeHere(n + 1),
   source |-> Source(LayerHere)]

SeenTiles(tiling) == {n \in 0 .. at.item - 1 : layer.image.sound /\ TileIsSeen(tiling, n)}

TInv ==
  InLayers =>
    /\ at.item > 0 => at.item <= TilesHere
    /\ TilesSoFar = {TileAt(Tiling(layer, area), n) : n \in SeenTiles(Tiling(layer, area))}

LEMMA PaintingTypes ==
  ASSUME ExtractionTypeOK, TInv, InLayers, at.item > 0, NEW tiling, tiling = Tiling(layer, area)
  PROVE  /\ tiling.x \in Axes /\ tiling.y \in Axes
         /\ at.item = TilesHere => at.item = Tiles(tiling)
         /\ tiling.x.from = area.x.from /\ tiling.x.to = area.x.to
         /\ tiling.y.from = area.y.from /\ tiling.y.to = area.y.to
         /\ tiling.x.repeats = layer.repeats_x /\ tiling.y.repeats = layer.repeats_y
<1>1. layer \in Layers /\ area \in Areas /\ at.item \in Nat
  BY LayerTypes, WalkTypes
<1>2. layer.image \in loaded /\ PaintsTiles(layer, area) /\ TilesHere = Tiles(Tiling(layer, area))
  BY <1>1 DEF TInv, TilesHere
<1>3. tiling.x \in Axes /\ tiling.y \in Axes
  BY <1>1, <1>2, TilingType
<1> QED
  BY <1>2, <1>3 DEF Tiling, Axis

LEMMA TilesWithin ==
  ASSUME ExtractionTypeOK, TInv, InLayers, NEW i \in TilesSoFar
  PROVE  Within(i, area.x, area.y)
<1>1. PICK tiling : tiling = Tiling(layer, area)
  OBVIOUS
<1>2. PICK n \in SeenTiles(tiling) : i = TileAt(tiling, n)
  BY <1>1 DEF TInv
<1>3. n \in Nat /\ at.item > 0
  BY <1>2, WalkTypes DEF SeenTiles
<1>4. /\ tiling.x \in Axes /\ tiling.y \in Axes
      /\ tiling.x.from = area.x.from /\ tiling.x.to = area.x.to
      /\ tiling.y.from = area.y.from /\ tiling.y.to = area.y.to
  BY <1>1, <1>3, PaintingTypes
<1> DEFINE kx == Column(tiling, n)
           ky == Row(tiling, n)
<1>5. kx \in Int /\ ky \in Int
  BY <1>3, <1>4, CellType
<1>6. i.x = Span(tiling.x, kx) /\ i.y = Span(tiling.y, ky)
  BY <1>2 DEF TileAt
<1> HIDE DEF kx, ky
<1>7. i.x.unit = tiling.x.unit /\ i.y.unit = tiling.y.unit
  BY <1>4, <1>5, <1>6, SpanType
<1>8. /\ tiling.x.unit * tiling.x.from <= i.x.from /\ i.x.to <= tiling.x.unit * tiling.x.to
      /\ tiling.y.unit * tiling.y.from <= i.y.from /\ i.y.to <= tiling.y.unit * tiling.y.to
  BY <1>4, <1>5, <1>6, SpanWithin
<1> QED
  BY <1>4, <1>7, <1>8 DEF Within

(* The tiles that show a cell are one, where a row and a column of tiles   *)
(* meet.                                                                   *)
LEMMA CellCovered ==
  ASSUME ExtractionTypeOK, TInv, InLayers,
         at.item > 0, at.item = TilesHere, layer.repeats_x, layer.repeats_y, layer.image.sound,
         NEW tiling, tiling = Tiling(layer, area),
         NEW cx \in Cells(area.x, tiling.x.unit), NEW cy \in Cells(area.y, tiling.y.unit)
  PROVE  \E i \in TilesSoFar :
           /\ Shows(i.x, cx) /\ Shows(i.y, cy)
           /\ \A j \in TilesSoFar \ {i} : ~ (Shows(j.x, cx) /\ Shows(j.y, cy))
           /\ Keeps(i.x, tiling.x, cx) /\ Keeps(i.y, tiling.y, cy)
<1>1. /\ tiling.x \in Axes /\ tiling.y \in Axes /\ at.item = Tiles(tiling)
      /\ tiling.x.from = area.x.from /\ tiling.x.to = area.x.to
      /\ tiling.y.from = area.y.from /\ tiling.y.to = area.y.to
      /\ tiling.x.repeats /\ tiling.y.repeats
  BY PaintingTypes
<1>2. /\ cx \in Int /\ tiling.x.unit * tiling.x.from <= cx /\ cx < tiling.x.unit * tiling.x.to
      /\ cy \in Int /\ tiling.y.unit * tiling.y.from <= cy /\ cy < tiling.y.unit * tiling.y.to
  <2>1. \A axis \in Axes : axis.unit * axis.from \in Int /\ axis.unit * axis.to \in Int
    BY AxisParts, Distributing
  <2>2. /\ cx \in tiling.x.unit * tiling.x.from .. tiling.x.unit * tiling.x.to - 1
        /\ cy \in tiling.y.unit * tiling.y.from .. tiling.y.unit * tiling.y.to - 1
    BY <1>1 DEF Cells
  <2>3. \A a, b \in Int : \A c \in a .. b - 1 : c \in Int /\ a <= c /\ c < b
    OBVIOUS
  <2> QED
    BY <1>1, <2>1, <2>2, <2>3
<1>3. PICK kx \in FirstTile(tiling.x) .. FirstTile(tiling.x) + TileCount(tiling.x) - 1 :
        /\ IsSeen(tiling.x, kx) /\ Shows(Span(tiling.x, kx), cx) /\ Keeps(Span(tiling.x, kx), tiling.x, cx)
        /\ \A l \in Int : Shows(Span(tiling.x, l), cx) => l = kx
  BY <1>1, <1>2, CellIsCovered
<1>4. PICK ky \in FirstTile(tiling.y) .. FirstTile(tiling.y) + TileCount(tiling.y) - 1 :
        /\ IsSeen(tiling.y, ky) /\ Shows(Span(tiling.y, ky), cy) /\ Keeps(Span(tiling.y, ky), tiling.y, cy)
        /\ \A l \in Int : Shows(Span(tiling.y, l), cy) => l = ky
  BY <1>1, <1>2, CellIsCovered
<1>5. PICK n \in 0 .. Tiles(tiling) - 1 :
        /\ Column(tiling, n) = kx /\ Row(tiling, n) = ky
        /\ \A m \in Nat : Column(tiling, m) = kx /\ Row(tiling, m) = ky => m = n
  BY <1>1, TileNumber
<1>6. \A i : i \in TilesSoFar <=> \E m \in SeenTiles(tiling) : i = TileAt(tiling, m)
  BY DEF TInv
<1>7. n \in SeenTiles(tiling)
  BY <1>1, <1>3, <1>4, <1>5 DEF SeenTiles, TileIsSeen
<1>8. \A m : /\ TileAt(tiling, m).x = Span(tiling.x, Column(tiling, m))
             /\ TileAt(tiling, m).y = Span(tiling.y, Row(tiling, m))
  BY DEF TileAt
<1>9. PICK i : i = TileAt(tiling, n)
  OBVIOUS
<1>10. /\ i \in TilesSoFar /\ i.x = Span(tiling.x, kx) /\ i.y = Span(tiling.y, ky)
  BY <1>5, <1>6, <1>7, <1>8, <1>9
<1>11. ASSUME NEW j \in TilesSoFar, Shows(j.x, cx), Shows(j.y, cy) PROVE j = i
  <2>1. PICK m \in SeenTiles(tiling) : j = TileAt(tiling, m)
    BY <1>6
  <2>2. m \in Nat
    BY WalkTypes DEF SeenTiles
  <2>3. Column(tiling, m) \in Int /\ Row(tiling, m) \in Int
    BY <1>1, <2>2, CellType
  <2>4. Column(tiling, m) = kx /\ Row(tiling, m) = ky
    BY <1>3, <1>4, <1>8, <1>11, <2>1, <2>3
  <2>5. m = n
    BY <1>5, <2>2, <2>4
  <2> QED
    BY <1>9, <2>1, <2>5
<1> QED
  BY <1>3, <1>4, <1>10, <1>11

LEMMA TInvCovers == ExtractionTypeOK /\ TInv => TilesCoverTheBox
<1> SUFFICES ASSUME ExtractionTypeOK, TInv, InLayers
             PROVE  TilesCoverTheBox
  BY DEF TilesCoverTheBox
<1>1. \A i \in TilesSoFar : Within(i, area.x, area.y)
  BY TilesWithin
<1>2. at.item > 0 /\ at.item = TilesHere /\ layer.repeats_x /\ layer.repeats_y /\ layer.image.sound =>
         \A tiling \in {Tiling(layer, area)} :
           \A cx \in Cells(area.x, tiling.x.unit), cy \in Cells(area.y, tiling.y.unit) :
             \E i \in TilesSoFar :
               /\ Shows(i.x, cx) /\ Shows(i.y, cy)
               /\ \A j \in TilesSoFar \ {i} : ~ (Shows(j.x, cx) /\ Shows(j.y, cy))
               /\ Keeps(i.x, tiling.x, cx) /\ Keeps(i.y, tiling.y, cy)
  BY CellCovered
<1> QED
  BY <1>1, <1>2 DEF TilesCoverTheBox

(* The walk comes to a layer with nothing of it in the list.               *)
LEMMA LayerEntered ==
  ASSUME ExtractionTypeOK, PInv, at.element \in DOMAIN document.elements,
         UNCHANGED <<document, images>>,
         at'.element = at.element, at'.part = at.part + 1, at'.item = 0
  PROVE  TInv'
<1>1. /\ NearestLayer \in Int /\ NearestLayer = ContentPart(element) - at.part
      /\ ContentPart(element) \in Nat /\ at.part \in Nat
  BY NearestType, ElementType, WalkTypes
<1>2. LayerHere' = NearestLayer - 1
  <2>1. element' = element
    BY DEF element
  <2>2. LayerHere' = ContentPart(element) - (at.part + 1)
    BY <2>1 DEF LayerHere
  <2> QED
    BY <1>1, <2>2
<1>3. ASSUME NEW i \in Range(images) PROVE i.source # Source(LayerHere)'
  <2>1. i.source \in Sources
    BY PaintedTypes DEF Painted
  <2>2. i.source.element < at.element \/ i.source.layer >= NearestLayer
    BY DEF PInv, Behind, Painted
  <2>3. Source(LayerHere)' = [element |-> at.element, layer |-> NearestLayer - 1]
    BY <1>2 DEF Source
  <2>4. at.element \in Nat /\ i.source.element \in Nat /\ i.source.layer \in Nat
    BY <2>1, WalkTypes DEF Sources
  <2> QED
    BY <1>1, <2>2, <2>3, <2>4
<1>4. TilesSoFar' = {}
  BY <1>3 DEF TilesSoFar
<1>5. \A tiling : SeenTiles(tiling)' = {}
  BY DEF SeenTiles
<1> QED
  BY <1>4, <1>5 DEF TInv

LEMMA TilePaintTInv ==
  ASSUME ExtractionTypeOK, TInv, PaintTile
  PROVE  TInv'
<1>1. PICK tiling : tiling = Tiling(layer, area)
  OBVIOUS
<1>2. /\ InLayers /\ at.item < TilesHere /\ order' = order + 1 /\ at' = [at EXCEPT !.item = @ + 1]
      /\ UNCHANGED <<document, loaded, laid, stage>>
      /\ images' = IF layer.image.sound /\ TileIsSeen(tiling, at.item)
                   THEN Append(images, Tile(tiling)) ELSE images
  BY <1>1 DEF PaintTile, resources
<1>3. /\ at.item \in Nat /\ order \in Nat /\ images \in Seq(Items)
      /\ at'.item = at.item + 1 /\ at'.element = at.element /\ at'.part = at.part
  BY <1>2, WalkTypes DEF ExtractionTypeOK
<1>4. element' = element
  BY <1>2, <1>3 DEF element
<1>5. LayerHere' = LayerHere
  BY <1>3, <1>4 DEF LayerHere
<1>6. layer' = layer
  BY <1>4, <1>5 DEF layer
<1>7. area' = area
  BY <1>2, <1>4 DEF area, Area, Down
<1>8. TilesHere' = TilesHere
  BY <1>2, <1>6, <1>7 DEF TilesHere
<1>9. Tiling(layer, area)' = tiling
  BY <1>1, <1>6, <1>7
<1>10. Source(LayerHere)' = Source(LayerHere)
  BY <1>3, <1>5 DEF Source
<1>11. /\ \A n : MadeHere(n)' = MadeHere(n)
       /\ BufferOf(layer.image)' = BufferOf(layer.image)
  BY <1>3, <1>6 DEF MadeHere, BufferOf
<1>12. \A n \in Nat : TileAt(tiling, n)' = TileAt(tiling, n)
  <2>1. order' - at'.item = order - at.item
    BY <1>2, <1>3
  <2> QED
    BY <1>6, <1>10, <1>11, <2>1 DEF TileAt
<1>13. Tile(tiling) = TileAt(tiling, at.item)
  <2>1. order - at.item + at.item = order
    BY <1>3
  <2> QED
    BY <2>1 DEF TileAt, Tile, Item, TileBuffer
<1>14. SeenTiles(tiling)' = SeenTiles(tiling) \cup
         (IF layer.image.sound /\ TileIsSeen(tiling, at.item) THEN {at.item} ELSE {})
  <2>1. 0 .. (at.item + 1) - 1 = (0 .. at.item - 1) \cup {at.item}
    BY <1>3
  <2> QED
    BY <1>3, <1>6, <2>1 DEF SeenTiles
<1>15. SeenTiles(tiling) \subseteq Nat
  BY <1>3 DEF SeenTiles
<1>16. TilesSoFar = {TileAt(tiling, n) : n \in SeenTiles(tiling)}
  BY <1>1, <1>2 DEF TInv
<1>17. {TileAt(tiling, n)' : n \in SeenTiles(tiling)'} = {TileAt(tiling, n) : n \in SeenTiles(tiling)'}
  BY <1>3, <1>12, <1>14, <1>15
<1>18. TilesSoFar' = {TileAt(tiling, n) : n \in SeenTiles(tiling)'}
  <2>1. CASE layer.image.sound /\ TileIsSeen(tiling, at.item)
    <3>1. Range(images') = Range(images) \cup {Tile(tiling)}
      BY <1>2, <1>3, <2>1, RangeAppend
    <3>2. Tile(tiling).source = Source(LayerHere)
      BY DEF Tile, Item
    <3>3. TilesSoFar' = TilesSoFar \cup {Tile(tiling)}
      BY <1>10, <3>1, <3>2 DEF TilesSoFar
    <3>4. SeenTiles(tiling)' = SeenTiles(tiling) \cup {at.item}
      BY <1>14, <2>1
    <3> QED
      BY <1>13, <1>16, <3>3, <3>4
  <2>2. CASE ~ (layer.image.sound /\ TileIsSeen(tiling, at.item))
    <3>1. SeenTiles(tiling)' = SeenTiles(tiling) /\ images' = images
      BY <1>2, <1>14, <2>2
    <3>2. TilesSoFar' = TilesSoFar
      BY <1>10, <3>1 DEF TilesSoFar
    <3> QED
      BY <1>16, <3>1, <3>2
  <2> QED
    BY <2>1, <2>2
<1>19. at'.item > 0 => at'.item <= TilesHere'
  <2>1. TilesHere \in Nat
    <3>1. layer \in Layers /\ area \in Areas /\ PaintsTiles(layer, area) /\ layer.image \in loaded
      BY <1>2, LayerTypes, TileTypes
    <3>2. tiling.x \in Axes /\ tiling.y \in Axes
      BY <1>1, <3>1, TilingType
    <3>3. TilesHere = TileCount(tiling.x) * TileCount(tiling.y)
      BY <1>1, <3>1 DEF TilesHere, Tiles
    <3>4. TileCount(tiling.x) \in Nat /\ TileCount(tiling.y) \in Nat
      BY <3>2, TileCountType
    <3> QED
      BY <3>3, <3>4
  <2> QED
    BY <1>2, <1>3, <1>8, <2>1
<1> QED
  BY <1>9, <1>17, <1>18, <1>19 DEF TInv

LEMMA OutsideTInv == ASSUME ~ InLayers' PROVE TInv'
  BY DEF TInv

LEMMA StartIsOutside ==
  ASSUME ExtractionTypeOK', at'.part = 0
  PROVE  ~ InLayers'
<1> SUFFICES ASSUME InLayers' PROVE FALSE
  OBVIOUS
<1>1. /\ at'.element \in DOMAIN document'.elements
      /\ 0 \in DOMAIN document'.elements[at'.element].layers
  BY DEF InLayers, element
<1>2. document'.elements \in Seq(Elements)
  BY ExtractionConstants DEF ExtractionTypeOK
<1>3. document'.elements[at'.element] \in Elements
  BY <1>1, <1>2, ElementOfSeq
<1>4. document'.elements[at'.element].layers \in Seq(Layers)
  BY <1>3 DEF Elements
<1> QED
  BY <1>1, <1>4

LEMMA KeptTInv ==
  ASSUME TInv, UNCHANGED <<stage, document, loaded, laid, at, images, order>>
  PROVE  TInv'
<1>1. UNCHANGED <<element, LayerHere, layer, area, TilesHere, InLayers>>
  BY DEF element, LayerHere, layer, area, Area, Down, TilesHere, InLayers
<1>2. TilesSoFar' = TilesSoFar /\ Tiling(layer, area)' = Tiling(layer, area)
  BY <1>1 DEF TilesSoFar, Source
<1>3. \A t, n : TileAt(t, n)' = TileAt(t, n)
  BY <1>1 DEF TileAt, BufferOf, MadeHere, Source
<1>4. \A t : SeenTiles(t)' = SeenTiles(t)
  BY <1>1 DEF SeenTiles
<1> QED
  BY <1>1, <1>2, <1>3, <1>4 DEF TInv

LEMMA NextTInv == SInv /\ PInv /\ TInv /\ [Next]_vars => TInv'
<1> SUFFICES ASSUME SInv, PInv, TInv, [Next]_vars PROVE TInv'
  OBVIOUS
<1>1. ExtractionTypeOK /\ ExtractionTypeOK' /\ at \in Places
  BY NextSInv DEF SInv, TypeOK, ExtractionTypeOK, Places
<1>2. ASSUME Rewrite \/ UNCHANGED vars PROVE TInv'
  <2>1. UNCHANGED <<stage, document, loaded, laid, at, images, order>>
    BY <1>2 DEF Rewrite, vars, extractionVars, resources, lists
  <2> QED
    BY <2>1, KeptTInv
<1>3. ASSUME stage' # "walking" PROVE TInv'
  BY <1>3, OutsideTInv DEF InLayers
<1>4. ASSUME Load PROVE TInv'
  <2>1. at'.part = 0
    BY <1>4 DEF Load, Forget, Start
  <2> QED
    BY <1>1, <2>1, StartIsOutside, OutsideTInv
<1>5. ASSUME PaintColour PROVE TInv'
  <2>1. /\ at.element \in DOMAIN document.elements /\ at.part = 0 /\ UNCHANGED <<document, images>>
        /\ at' = [at EXCEPT !.part = 1, !.item = 0]
    BY <1>5 DEF PaintColour, ToPart
  <2>2. at'.element = at.element /\ at'.part = at.part + 1 /\ at'.item = 0
    BY <1>1, <2>1 DEF Places
  <2> QED
    BY <1>1, <2>1, <2>2, LayerEntered
<1>6. ASSUME LeaveLayer PROVE TInv'
  <2>1. /\ at.element \in DOMAIN document.elements /\ UNCHANGED <<document, images>>
        /\ at' = [at EXCEPT !.part = at.part + 1, !.item = 0]
    BY <1>6 DEF LeaveLayer, InLayers, ToPart, lists
  <2>2. at'.element = at.element /\ at'.part = at.part + 1 /\ at'.item = 0
    BY <1>1, <2>1 DEF Places
  <2> QED
    BY <1>1, <2>1, <2>2, LayerEntered
<1>7. ASSUME PaintContent \/ ShapeRun PROVE TInv'
  <2>1. /\ at.element \in DOMAIN document.elements /\ document' = document
        /\ at'.element = at.element /\ at'.part = ContentPart(element) + 1
    <3>1. /\ at.element \in DOMAIN document.elements /\ document' = document
          /\ \/ at.part = ContentPart(element) /\ at' = [at EXCEPT !.part = at.part + 1, !.item = 0]
             \/ at.part = ContentPart(element) + 1 /\ at' = [at EXCEPT !.item = @ + 1]
      BY <1>7 DEF PaintContent, ShapeRun, InRuns, ToPart
    <3> QED
      BY <1>1, <3>1 DEF Places
  <2>2. element' = element /\ element.layers \in Seq(Layers) /\ Len(element.layers) \in Nat
    BY <1>1, <2>1, ElementType DEF element
  <2>3. at'.part \notin DOMAIN element.layers
    BY <2>1, <2>2 DEF ContentPart
  <2> QED
    BY <2>2, <2>3, OutsideTInv DEF InLayers
<1>8. ASSUME NextElement PROVE TInv'
  <2>1. at'.part = 0
    BY <1>8 DEF NextElement, Start
  <2> QED
    BY <1>1, <2>1, StartIsOutside, OutsideTInv
<1>9. ASSUME HandOver \/ Parse \/ LayOut \/ Answer \/ Grow PROVE stage' # "walking"
  BY <1>9 DEF HandOver, Parse, Build, LayOut, Answer, Grow
<1>10. ASSUME Rasterize PROVE stage' # "walking"
  BY <1>10 DEF Rasterize, ChooseFrame, DrawBox, DrawImage, DrawGroup, Encode, Compact, Deliver
<1> QED
  BY <1>1, <1>2, <1>3, <1>4, <1>5, <1>6, <1>7, <1>8, <1>9, <1>10, TilePaintTInv DEF Next, Extract

LEMMA InitTInv == Init => TInv
  BY DEF Init, TInv, InLayers

LEMMA SpecTInv == Spec => []TInv
  BY InitTInv, NextTInv, SpecSInv, SpecPInv, PTL DEF Spec

(* Whatever the image, its size, its place and the box: nothing of a layer *)
(* leaves the box, and once one that repeats is through, every point of    *)
(* the box is shown by one tile and no other, with the pixel that lies     *)
(* there, however the crops at the edges were rounded.                     *)
THEOREM BoxesAreCovered == Spec => []TilesCoverTheBox
<1>1. SInv => ExtractionTypeOK
  BY DEF SInv, TypeOK
<1> QED
  BY <1>1, TInvCovers, SpecSInv, SpecTInv, PTL

-----------------------------------------------------------------------------
(* The end of a capture.  Tuples of numbers, the first place counting most.*)
Precedes(m, n) ==
  \E k \in DOMAIN n : m[k] < n[k] /\ \A j \in 1 .. k - 1 : m[j] = n[j]

(* There is no endless way down through them. *)
LEMMA PrecedingEnds ==
  ASSUME NEW n \in Nat
  PROVE  IsWellFoundedOn({pair \in [1 .. n -> Nat] \X [1 .. n -> Nat] : Precedes(pair[1], pair[2])},
                         [1 .. n -> Nat])
<1> DEFINE R == {pair \in Nat \X Nat : pair[1] < pair[2]}
           T == [1 .. n -> Nat]
<1>1. IsWellFoundedOn(LexProductOrdering(R, Nat, n), T)
  BY NatOrder, WFLexProductOrdering
<1>2. {pair \in T \X T : Precedes(pair[1], pair[2])} \subseteq LexProductOrdering(R, Nat, n)
  <2>1. ASSUME NEW p \in T, NEW q \in T, Precedes(p, q)
        PROVE  \E j \in 1 .. n : (\A i \in 1 .. j - 1 : p[i] = q[i]) /\ <<p[j], q[j]>> \in R
    <3>1. PICK k \in 1 .. n : p[k] < q[k] /\ \A j \in 1 .. k - 1 : p[j] = q[j]
      BY <2>1 DEF Precedes
    <3>2. <<p[k], q[k]>> \in R
      BY <3>1
    <3> QED
      BY <3>1, <3>2
  <2> HIDE DEF R
  <2> QED
    BY <2>1 DEF LexProductOrdering
<1> HIDE DEF R, T
<1> QED
  BY <1>1, <1>2, IsWellFoundedOnSubrelation DEF T

Short(n, m) == IF n < m THEN m - n ELSE 0

LEMMA ShortType ==
  ASSUME NEW n \in Int, NEW m \in Int
  PROVE  /\ Short(n, m) \in Nat
         /\ \A k \in Int : n < k /\ n < m => Short(k, m) < Short(n, m)
  BY DEF Short

(* What is left: of the text to scan; of the search for a height, and in   *)
(* one attempt of the elements, their parts and the tiles or runs of one;  *)
(* of the lists to draw; of the pixels to compact.                         *)
LeftToScan ==
  2 * Short(token, Len(html) + 1)
    + (IF reading = "seeking" THEN 2 ELSE IF reading = "measuring" THEN 1 ELSE 0)

ElementsLeft == Short(at.element, Len(document.elements) + 1)

PartsLeft ==
  IF at.element \in DOMAIN document.elements THEN Short(at.part, ContentPart(element) + 1) ELSE 0

ItemsLeft ==
  IF InLayers THEN Short(at.item, TilesHere)
  ELSE IF InRuns THEN Short(at.item, Len(element.runs)) ELSE 0

LeftToDraw ==
  Short(next.box, Len(boxes) + 1) + Short(next.image, Len(images) + 1)
    + Short(next.text, Len(texts) + 1)

ToGo ==
  CASE stage = "scanning" -> <<6, LeftToScan, 0, 0, 0, 0>>
    [] stage = "parsing"  -> <<5, 0, 0, 0, 0, 0>>
    [] stage = "laying"   -> <<4, Short(height, MaxHeight), 2, 0, 0, 0>>
    [] stage = "loading"  -> <<4, Short(height, MaxHeight), 1, 0, 0, 0>>
    [] stage = "walking"  -> <<4, Short(height, MaxHeight), 0, ElementsLeft, PartsLeft, ItemsLeft>>
    [] stage = "laid"     -> <<3, 0, 0, 0, 0, 0>>
    [] stage = "painting" -> <<2, LeftToDraw, 0, 0, 0, 0>>
    [] stage = "encoding" -> <<1, Short(compacted, Pixels), 0, 0, 0, 0>>
    [] stage \in {"done", "failed"} -> <<0, 0, 0, 0, 0, 0>>

ToGoIs(a, b, c, d, e, f) ==
  /\ ToGo \in [1 .. 6 -> Nat]
  /\ ToGo[1] = a /\ ToGo[2] = b /\ ToGo[3] = c /\ ToGo[4] = d /\ ToGo[5] = e /\ ToGo[6] = f

ToGoParts ==
  /\ stage = "scanning" => ToGoIs(6, LeftToScan, 0, 0, 0, 0)
  /\ stage = "parsing" => ToGoIs(5, 0, 0, 0, 0, 0)
  /\ stage = "laying" => ToGoIs(4, Short(height, MaxHeight), 2, 0, 0, 0)
  /\ stage = "loading" => ToGoIs(4, Short(height, MaxHeight), 1, 0, 0, 0)
  /\ stage = "walking" => ToGoIs(4, Short(height, MaxHeight), 0, ElementsLeft, PartsLeft, ItemsLeft)
  /\ stage = "laid" => ToGoIs(3, 0, 0, 0, 0, 0)
  /\ stage = "painting" => ToGoIs(2, LeftToDraw, 0, 0, 0, 0)
  /\ stage = "encoding" => ToGoIs(1, Short(compacted, Pixels), 0, 0, 0, 0)
  /\ stage \in {"done", "failed"} => ToGoIs(0, 0, 0, 0, 0, 0)

LEMMA SixIs ==
  ASSUME NEW a \in Nat, NEW b \in Nat, NEW c \in Nat, NEW d \in Nat, NEW e \in Nat, NEW f \in Nat
  PROVE  /\ <<a, b, c, d, e, f>> \in [1 .. 6 -> Nat]
         /\ <<a, b, c, d, e, f>>[1] = a /\ <<a, b, c, d, e, f>>[2] = b
         /\ <<a, b, c, d, e, f>>[3] = c /\ <<a, b, c, d, e, f>>[4] = d
         /\ <<a, b, c, d, e, f>>[5] = e /\ <<a, b, c, d, e, f>>[6] = f
  OBVIOUS

LEMMA Falling ==
  ASSUME NEW m, NEW n \in [1 .. 6 -> Nat], NEW k \in 1 .. 6,
         m[k] < n[k], \A j \in 1 .. k - 1 : m[j] = n[j]
  PROVE  Precedes(m, n)
  BY DEF Precedes

LEMMA FirstFalls ==
  ASSUME NEW m, NEW n \in [1 .. 6 -> Nat], m[1] < n[1]
  PROVE  Precedes(m, n)
  BY DEF Precedes

LEMMA LaterFalls ==
  ASSUME NEW m, NEW n \in [1 .. 6 -> Nat], m[1] = n[1]
  PROVE  /\ m[2] < n[2] => Precedes(m, n)
         /\ m[2] = n[2] /\ m[3] < n[3] => Precedes(m, n)
         /\ m[2] = n[2] /\ m[3] = n[3] /\ m[4] < n[4] => Precedes(m, n)
         /\ m[2] = n[2] /\ m[3] = n[3] /\ m[4] = n[4] /\ m[5] < n[5] => Precedes(m, n)
         /\ m[2] = n[2] /\ m[3] = n[3] /\ m[4] = n[4] /\ m[5] = n[5] /\ m[6] < n[6] => Precedes(m, n)
<1>1. ASSUME NEW k \in 1 .. 6, m[k] < n[k], \A j \in 1 .. k - 1 : m[j] = n[j] PROVE Precedes(m, n)
  BY <1>1, Falling
<1>2. /\ \A j \in 1 .. 2 - 1 : j = 1
      /\ \A j \in 1 .. 3 - 1 : j = 1 \/ j = 2
      /\ \A j \in 1 .. 4 - 1 : j = 1 \/ j = 2 \/ j = 3
      /\ \A j \in 1 .. 5 - 1 : j = 1 \/ j = 2 \/ j = 3 \/ j = 4
      /\ \A j \in 1 .. 6 - 1 : j = 1 \/ j = 2 \/ j = 3 \/ j = 4 \/ j = 5
  OBVIOUS
<1>3. m[2] < n[2] => Precedes(m, n)
  BY <1>1, <1>2
<1>4. m[2] = n[2] /\ m[3] < n[3] => Precedes(m, n)
  BY <1>1, <1>2
<1>5. m[2] = n[2] /\ m[3] = n[3] /\ m[4] < n[4] => Precedes(m, n)
  BY <1>1, <1>2
<1>6. m[2] = n[2] /\ m[3] = n[3] /\ m[4] = n[4] /\ m[5] < n[5] => Precedes(m, n)
  BY <1>1, <1>2
<1>7. m[2] = n[2] /\ m[3] = n[3] /\ m[4] = n[4] /\ m[5] = n[5] /\ m[6] < n[6] => Precedes(m, n)
  BY <1>1, <1>2
<1> QED
  BY <1>3, <1>4, <1>5, <1>6, <1>7

LEMMA TilesHereType == ASSUME ExtractionTypeOK, InLayers PROVE TilesHere \in Nat
<1>1. CASE layer.image \in loaded /\ PaintsTiles(layer, area)
  <2>1. PICK tiling : tiling = Tiling(layer, area)
    OBVIOUS
  <2>2. tiling.x \in Axes /\ tiling.y \in Axes
    BY <1>1, <2>1, LayerTypes, TilingType
  <2>3. TileCount(tiling.x) \in Nat /\ TileCount(tiling.y) \in Nat
    BY <2>2, TileCountType
  <2>4. TilesHere = TileCount(tiling.x) * TileCount(tiling.y)
    BY <1>1, <2>1 DEF TilesHere, Tiles
  <2> QED
    BY <2>3, <2>4
<1>2. CASE ~ (layer.image \in loaded /\ PaintsTiles(layer, area))
  BY <1>2 DEF TilesHere
<1> QED
  BY <1>1, <1>2

LEMMA WalkLeft ==
  ASSUME ExtractionTypeOK
  PROVE  ElementsLeft \in Nat /\ PartsLeft \in Nat /\ ItemsLeft \in Nat
<1>1. at.element \in Int /\ at.part \in Int /\ at.item \in Int
  BY WalkTypes
<1>2. ElementsLeft \in Nat
  <2>1. Len(document.elements) \in Nat
    BY ExtractionConstants DEF ExtractionTypeOK
  <2>2. Len(document.elements) + 1 \in Int
    BY <2>1
  <2> QED
    BY <1>1, <2>2, ShortType DEF ElementsLeft
<1>3. PartsLeft \in Nat
  <2>1. CASE at.element \in DOMAIN document.elements
    <3>1. ContentPart(element) \in Nat
      BY <2>1, ElementType
    <3>2. ContentPart(element) + 1 \in Int
      BY <3>1
    <3> QED
      BY <1>1, <2>1, <3>2, ShortType DEF PartsLeft
  <2>2. CASE at.element \notin DOMAIN document.elements
    BY <2>2 DEF PartsLeft
  <2> QED
    BY <2>1, <2>2
<1>4. ItemsLeft \in Nat
  <2>1. CASE InLayers
    <3>1. TilesHere \in Int
      BY <2>1, TilesHereType
    <3> QED
      BY <1>1, <2>1, <3>1, ShortType DEF ItemsLeft
  <2>2. CASE ~ InLayers /\ InRuns
    <3>1. element.runs \in Seq(Runs)
      BY <2>2, ElementType DEF InRuns
    <3>2. Len(element.runs) \in Int
      BY <3>1
    <3> QED
      BY <1>1, <2>2, <3>2, ShortType DEF ItemsLeft
  <2>3. CASE ~ InLayers /\ ~ InRuns
    BY <2>3 DEF ItemsLeft
  <2> QED
    BY <2>1, <2>2, <2>3
<1> QED
  BY <1>2, <1>3, <1>4

LEMMA ScanLeft ==
  ASSUME SvgTypeOK
  PROVE  LeftToScan \in Nat
<1>1. token \in Int /\ Len(html) + 1 \in Int
  BY DEF SvgTypeOK
<1>2. Short(token, Len(html) + 1) \in Nat
  BY <1>1, ShortType
<1>3. \A n \in Nat : 2 * n + 2 \in Nat /\ 2 * n + 1 \in Nat /\ 2 * n + 0 \in Nat
  OBVIOUS
<1> QED
  BY <1>2, <1>3 DEF LeftToScan

LEMMA OneLess ==
  ASSUME NEW x \in Nat, NEW y \in Nat, NEW z \in Nat
  PROVE  /\ x + y + z \in Nat
         /\ \A w \in Int : w < x => w + y + z < x + y + z
         /\ \A w \in Int : w < y => x + w + z < x + y + z
         /\ \A w \in Int : w < z => x + y + w < x + y + z
  OBVIOUS

LEMMA DrawLeft ==
  ASSUME ExtractionTypeOK, RasterTypeOK
  PROVE  /\ next.box \in Nat /\ next.image \in Nat /\ next.text \in Nat
         /\ Len(boxes) \in Nat /\ Len(images) \in Nat /\ Len(texts) \in Nat
         /\ Short(next.box, Len(boxes) + 1) \in Nat
         /\ Short(next.image, Len(images) + 1) \in Nat
         /\ Short(next.text, Len(texts) + 1) \in Nat
         /\ LeftToDraw \in Nat
<1>1. next.box \in Nat /\ next.image \in Nat /\ next.text \in Nat
  BY DEF RasterTypeOK
<1>2. Len(boxes) \in Nat /\ Len(images) \in Nat /\ Len(texts) \in Nat
  BY DEF ExtractionTypeOK
<1>3. /\ Len(boxes) + 1 \in Int /\ Len(images) + 1 \in Int /\ Len(texts) + 1 \in Int
      /\ next.box \in Int /\ next.image \in Int /\ next.text \in Int
  BY <1>1, <1>2
<1>4. /\ Short(next.box, Len(boxes) + 1) \in Nat
      /\ Short(next.image, Len(images) + 1) \in Nat
      /\ Short(next.text, Len(texts) + 1) \in Nat
  BY <1>3, ShortType
<1> QED
  BY <1>1, <1>2, <1>4, OneLess DEF LeftToDraw

LEMMA ToGoShape == TypeOK => ToGoParts
<1> SUFFICES ASSUME TypeOK PROVE ToGoParts
  OBVIOUS
<1>1. Short(height, MaxHeight) \in Nat
  <2>1. height \in Int /\ MaxHeight \in Int
    BY ExtractionConstants DEF TypeOK, ExtractionTypeOK
  <2> QED
    BY <2>1, ShortType
<1>2. Short(compacted, Pixels) \in Nat
  <2>1. compacted \in Int /\ Pixels \in Int
    BY PixelsType DEF TypeOK, RasterTypeOK
  <2> QED
    BY <2>1, ShortType
<1>3. ElementsLeft \in Nat /\ PartsLeft \in Nat /\ ItemsLeft \in Nat /\ LeftToScan \in Nat /\ LeftToDraw \in Nat
  BY WalkLeft, ScanLeft, DrawLeft DEF TypeOK
<1>4. stage = "scanning" => ToGoIs(6, LeftToScan, 0, 0, 0, 0)
  BY <1>3, SixIs DEF ToGo, ToGoIs
<1>5. stage = "parsing" => ToGoIs(5, 0, 0, 0, 0, 0)
  BY SixIs DEF ToGo, ToGoIs
<1>6. stage = "laying" => ToGoIs(4, Short(height, MaxHeight), 2, 0, 0, 0)
  BY <1>1, SixIs DEF ToGo, ToGoIs
<1>7. stage = "loading" => ToGoIs(4, Short(height, MaxHeight), 1, 0, 0, 0)
  BY <1>1, SixIs DEF ToGo, ToGoIs
<1>8. stage = "walking" => ToGoIs(4, Short(height, MaxHeight), 0, ElementsLeft, PartsLeft, ItemsLeft)
  BY <1>1, <1>3, SixIs DEF ToGo, ToGoIs
<1>9. stage = "laid" => ToGoIs(3, 0, 0, 0, 0, 0)
  BY SixIs DEF ToGo, ToGoIs
<1>10. stage = "painting" => ToGoIs(2, LeftToDraw, 0, 0, 0, 0)
  BY <1>3, SixIs DEF ToGo, ToGoIs
<1>11. stage = "encoding" => ToGoIs(1, Short(compacted, Pixels), 0, 0, 0, 0)
  BY <1>2, SixIs DEF ToGo, ToGoIs
<1>12. stage \in {"done", "failed"} => ToGoIs(0, 0, 0, 0, 0, 0)
  BY SixIs DEF ToGo, ToGoIs
<1> QED
  BY <1>4, <1>5, <1>6, <1>7, <1>8, <1>9, <1>10, <1>11, <1>12 DEF ToGoParts

(* The scan looks on from where it has copied to, and once the text is     *)
(* handed over it is not read again.                                       *)
RInv ==
  /\ reading = "seeking" => token = rest
  /\ stage # "scanning" => reading = "done"

LEMMA RewriteFalls ==
  ASSUME SvgTypeOK, SvgTypeOK', RInv, SvgNext, stage' = stage
  PROVE  RInv' /\ stage = "scanning" /\ LeftToScan' < LeftToScan
<1>1. stage = "scanning"
  BY DEF RInv, SvgNext, Seek, SeekInVain, Enter, PassSingle, Leave, Skip, SliceInside, MeasureInVain, Measuring
<1>2. /\ token \in Int /\ token' \in Int /\ rest \in Int /\ Len(html) \in Int
      /\ token <= Len(html) + 1 /\ html' = html
  BY SvgParts DEF SvgTypeOK, SvgNext, Seek, SeekInVain, Enter, PassSingle, Leave, Skip, SliceInside, MeasureInVain,
     Measuring, Advance, Replace, CopyTheRest
<1> DEFINE Bonus(now) == IF now = "seeking" THEN 2 ELSE IF now = "measuring" THEN 1 ELSE 0
<1>3. /\ LeftToScan = 2 * Short(token, Len(html) + 1) + Bonus(reading)
      /\ LeftToScan' = 2 * Short(token', Len(html) + 1) + Bonus(reading')
  BY <1>2 DEF LeftToScan
<1>4. /\ Short(token, Len(html) + 1) \in Nat
      /\ token' >= token => Short(token', Len(html) + 1) <= Short(token, Len(html) + 1)
      /\ token' = token + 1 /\ token <= Len(html) =>
           Short(token', Len(html) + 1) = Short(token, Len(html) + 1) - 1
      /\ Short(token', Len(html) + 1) \in Nat
  <2>1. \A n, m, k \in Int :
          /\ Short(n, k + 1) \in Nat
          /\ m >= n => Short(m, k + 1) <= Short(n, k + 1)
          /\ m = n + 1 /\ n <= k => Short(m, k + 1) = Short(n, k + 1) - 1
    BY DEF Short
  <2> QED
    BY <1>2, <2>1
<1>5. CASE Seek
  <2>1. reading = "seeking" /\ reading' = "measuring" /\ token' >= token /\ stage = "scanning"
    <3>1. PICK p \in rest .. Len(html) : token' = p
      BY <1>5 DEF Seek
    <3> QED
      BY <1>1, <1>2, <1>5, <3>1 DEF Seek, RInv
  <2>2. Bonus(reading) = 2 /\ Bonus(reading') = 1
    BY <2>1
  <2> QED
    BY <1>1, <1>3, <1>4, <2>1, <2>2 DEF RInv
<1>6. CASE SeekInVain \/ MeasureInVain \/ SliceInside
  <2>1. reading' \in {"done", "panicked"} /\ reading \in {"seeking", "measuring"} /\ token' = token
    BY <1>6 DEF SeekInVain, MeasureInVain, SliceInside, CopyTheRest, Measuring
  <2>2. Bonus(reading) >= 1 /\ Bonus(reading) \in Nat /\ Bonus(reading') = 0
    BY <2>1
  <2> QED
    BY <1>1, <1>2, <1>3, <1>4, <2>1, <2>2 DEF RInv
<1>7. ASSUME NEW level, NEW kind, Measuring(kind), Advance(level) PROVE RInv' /\ LeftToScan' < LeftToScan
  <2>1. reading = "measuring" /\ reading' = reading /\ token' = token + 1 /\ token <= Len(html)
    BY <1>7 DEF Measuring, Advance
  <2>2. Bonus(reading) = 1 /\ Bonus(reading') = 1
    BY <2>1
  <2> QED
    BY <1>1, <1>3, <1>4, <2>1, <2>2 DEF RInv
<1>8. ASSUME NEW kind, Measuring(kind), Replace PROVE RInv' /\ LeftToScan' < LeftToScan
  <2>1. /\ reading = "measuring" /\ reading' = "seeking" /\ token' = token + 1 /\ token <= Len(html)
        /\ rest' = token'
    BY <1>8 DEF Measuring, Replace
  <2>2. Bonus(reading) = 1 /\ Bonus(reading') = 2
    BY <2>1
  <2> QED
    BY <1>1, <1>3, <1>4, <2>1, <2>2 DEF RInv
<1>9. CASE Enter \/ PassSingle \/ Leave \/ Skip
  BY <1>1, <1>7, <1>8, <1>9 DEF Enter, PassSingle, Leave, Skip
<1> QED
  BY <1>1, <1>5, <1>6, <1>9 DEF SvgNext

LEMMA WalkFalls ==
  ASSUME ToGoParts, ToGoParts', stage = "walking", stage' = "walking", height' = height
  PROVE  /\ ElementsLeft' < ElementsLeft => Precedes(ToGo', ToGo)
         /\ ElementsLeft' = ElementsLeft /\ PartsLeft' < PartsLeft => Precedes(ToGo', ToGo)
         /\ ElementsLeft' = ElementsLeft /\ PartsLeft' = PartsLeft /\ ItemsLeft' < ItemsLeft =>
              Precedes(ToGo', ToGo)
<1>1. /\ ToGoIs(4, Short(height, MaxHeight), 0, ElementsLeft, PartsLeft, ItemsLeft)
      /\ ToGoIs(4, Short(height, MaxHeight), 0, ElementsLeft, PartsLeft, ItemsLeft)'
  BY DEF ToGoParts
<1>2. PICK m : m = ToGo'
  OBVIOUS
<1>3. PICK n : n = ToGo
  OBVIOUS
<1>4. /\ n \in [1 .. 6 -> Nat] /\ m[1] = n[1] /\ m[2] = n[2] /\ m[3] = n[3]
      /\ m[4] = ElementsLeft' /\ n[4] = ElementsLeft
      /\ m[5] = PartsLeft' /\ n[5] = PartsLeft /\ m[6] = ItemsLeft' /\ n[6] = ItemsLeft
  BY <1>1, <1>2, <1>3 DEF ToGoIs
<1> QED
  BY <1>2, <1>3, <1>4, LaterFalls

LEMMA PartPassed ==
  ASSUME ExtractionTypeOK, at.element \in DOMAIN document.elements, document' = document,
         at'.element = at.element, at'.part = at.part + 1, at.part <= ContentPart(element)
  PROVE  ElementsLeft' = ElementsLeft /\ PartsLeft' < PartsLeft
<1>1. element' = element
  BY DEF element
<1>2. at.part \in Int /\ ContentPart(element) \in Int
  BY WalkTypes, ElementType
<1>3. Short(at.part + 1, ContentPart(element) + 1) < Short(at.part, ContentPart(element) + 1)
  <2>1. \A n, m \in Int : n <= m => Short(n + 1, m + 1) < Short(n, m + 1)
    BY DEF Short
  <2> QED
    BY <1>2, <2>1
<1>4. PartsLeft' = Short(at.part + 1, ContentPart(element) + 1)
  BY <1>1 DEF PartsLeft
<1>5. PartsLeft = Short(at.part, ContentPart(element) + 1)
  BY DEF PartsLeft
<1> QED
  BY <1>3, <1>4, <1>5 DEF ElementsLeft

LEMMA ItemPassed ==
  ASSUME NEW n \in Nat, NEW m \in Int, n < m PROVE Short(n + 1, m) < Short(n, m)
  BY DEF Short

LEMMA TilePassed ==
  ASSUME ExtractionTypeOK, PaintTile
  PROVE  ElementsLeft' = ElementsLeft /\ PartsLeft' = PartsLeft /\ ItemsLeft' < ItemsLeft
<1>1. /\ InLayers /\ at.item < TilesHere /\ at' = [at EXCEPT !.item = @ + 1]
      /\ UNCHANGED <<document, loaded, laid, stage>>
  BY DEF PaintTile, resources
<1>2. /\ at.item \in Nat /\ at'.item = at.item + 1 /\ at'.element = at.element /\ at'.part = at.part
      /\ TilesHere \in Int
  BY <1>1, TilesHereType DEF ExtractionTypeOK
<1>3. element' = element
  BY <1>1, <1>2 DEF element
<1>4. LayerHere' = LayerHere
  BY <1>2, <1>3 DEF LayerHere
<1>5. layer' = layer
  BY <1>3, <1>4 DEF layer
<1>6. area' = area
  BY <1>1, <1>3 DEF area, Area, Down
<1>7. TilesHere' = TilesHere
  BY <1>1, <1>5, <1>6 DEF TilesHere
<1>8. InLayers'
  BY <1>1, <1>2, <1>3 DEF InLayers
<1>9. ItemsLeft' = Short(at.item + 1, TilesHere)
  BY <1>2, <1>7, <1>8 DEF ItemsLeft
<1>10. ItemsLeft = Short(at.item, TilesHere)
  BY <1>1 DEF ItemsLeft
<1> QED
  BY <1>1, <1>2, <1>3, <1>9, <1>10, ItemPassed DEF ElementsLeft, PartsLeft

LEMMA RunPassed ==
  ASSUME ExtractionTypeOK, ShapeRun
  PROVE  ElementsLeft' = ElementsLeft /\ PartsLeft' = PartsLeft /\ ItemsLeft' < ItemsLeft
<1>1. /\ InRuns /\ at.item < Len(element.runs) /\ at' = [at EXCEPT !.item = @ + 1]
      /\ UNCHANGED <<document, stage>>
  BY DEF ShapeRun
<1>2. /\ at.item \in Nat /\ at'.item = at.item + 1 /\ at'.element = at.element /\ at'.part = at.part
  BY <1>1 DEF ExtractionTypeOK
<1>3. /\ at.element \in DOMAIN document.elements /\ at.part = ContentPart(element) + 1
  BY <1>1 DEF InRuns
<1>4. element.runs \in Seq(Runs) /\ element.layers \in Seq(Layers)
  BY <1>3, ElementType
<1>5. Len(element.runs) \in Int
  BY <1>4
<1>6. element' = element
  BY <1>1, <1>2 DEF element
<1>7. at.part \notin DOMAIN element.layers
  <2>1. Len(element.layers) \in Nat /\ DOMAIN element.layers = 1 .. Len(element.layers)
    BY <1>4
  <2>2. at.part = Len(element.layers) + 1 + 1
    BY <1>3 DEF ContentPart
  <2> QED
    BY <2>1, <2>2
<1>8. ~ InLayers /\ ~ InLayers'
  BY <1>2, <1>6, <1>7 DEF InLayers
<1>9. InRuns'
  BY <1>1, <1>2, <1>6 DEF InRuns, ContentPart
<1>10. ItemsLeft' = Short(at.item + 1, Len(element.runs))
  BY <1>2, <1>6, <1>8, <1>9 DEF ItemsLeft
<1>11. ItemsLeft = Short(at.item, Len(element.runs))
  BY <1>1, <1>8 DEF ItemsLeft
<1> QED
  BY <1>1, <1>2, <1>5, <1>6, <1>10, <1>11, ItemPassed DEF ElementsLeft, PartsLeft

LEMMA WalkingFalls ==
  ASSUME ExtractionTypeOK, ToGoParts, ToGoParts',
         PaintColour \/ PaintTile \/ LeaveLayer \/ PaintContent \/ ShapeRun \/ NextElement
  PROVE  Precedes(ToGo', ToGo)
<1>1. stage = "walking" /\ stage' = "walking" /\ height' = height /\ document' = document
      /\ at.element \in DOMAIN document.elements
  BY DEF PaintColour, PaintTile, LeaveLayer, PaintContent, ShapeRun, NextElement, InLayers, InRuns
<1>2. at \in Places
  BY DEF ExtractionTypeOK, Places
<1>3. CASE PaintColour \/ LeaveLayer \/ PaintContent
  <2>1. at.part \in Nat /\ element.layers \in Seq(Layers) /\ Len(element.layers) \in Nat
        /\ ContentPart(element) = Len(element.layers) + 1
    BY <1>1, <1>2, ElementType DEF Places, ContentPart
  <2>2. at' = [at EXCEPT !.part = at.part + 1, !.item = 0]
    <3>1. CASE PaintColour
      BY <3>1 DEF PaintColour, ToPart
    <3>2. CASE LeaveLayer \/ PaintContent
      BY <3>2 DEF LeaveLayer, PaintContent, ToPart
    <3> QED
      BY <1>3, <3>1, <3>2
  <2>3. at'.element = at.element /\ at'.part = at.part + 1
    BY <1>2, <2>2 DEF Places
  <2>4. at.part <= ContentPart(element)
    <3>1. at.part = 0 \/ at.part \in DOMAIN element.layers \/ at.part = ContentPart(element)
      BY <1>3 DEF PaintColour, LeaveLayer, PaintContent, InLayers
    <3> QED
      BY <2>1, <3>1
  <2>5. ElementsLeft' = ElementsLeft /\ PartsLeft' < PartsLeft
    BY <1>1, <2>3, <2>4, PartPassed
  <2> QED
    BY <1>1, <2>5, WalkFalls
<1>4. CASE PaintTile
  BY <1>1, <1>4, TilePassed, WalkFalls
<1>5. CASE ShapeRun
  BY <1>1, <1>5, RunPassed, WalkFalls
<1>6. CASE NextElement
  <2>1. at'.element = at.element + 1
    BY <1>6 DEF NextElement, Start
  <2>2. document.elements \in Seq(Elements)
    BY ExtractionConstants DEF ExtractionTypeOK
  <2>3. at.element \in Nat /\ Len(document.elements) + 1 \in Int /\ at.element < Len(document.elements) + 1
    BY <1>1, <1>2, <2>2 DEF Places
  <2>4. ElementsLeft' < ElementsLeft
    BY <1>1, <2>1, <2>3, ItemPassed DEF ElementsLeft
  <2> QED
    BY <1>1, <2>4, WalkFalls
<1> QED
  BY <1>3, <1>4, <1>5, <1>6

LEMMA SearchFalls ==
  ASSUME ExtractionTypeOK, ToGoParts, ToGoParts', LayOut \/ Load \/ Answer \/ Grow
  PROVE  Precedes(ToGo', ToGo)
<1>1. PICK m : m = ToGo'
  OBVIOUS
<1>2. PICK n : n = ToGo
  OBVIOUS
<1>3. CASE LayOut \/ Load
  <2>1. \/ stage = "laying" /\ stage' = "loading" /\ height' = height
        \/ stage = "loading" /\ stage' = "walking" /\ height' = height
    BY <1>3 DEF LayOut, Load
  <2>2. n \in [1 .. 6 -> Nat] /\ m[1] = n[1] /\ m[2] = n[2] /\ m[3] < n[3]
    BY <1>1, <1>2, <2>1 DEF ToGoParts, ToGoIs
  <2> QED
    BY <1>1, <1>2, <2>2, LaterFalls
<1>4. CASE Answer
  <2>1. stage = "walking" /\ stage' = "laid"
    BY <1>4 DEF Answer, Walked
  <2>2. n \in [1 .. 6 -> Nat] /\ m[1] < n[1]
    BY <1>1, <1>2, <2>1 DEF ToGoParts, ToGoIs
  <2> QED
    BY <1>1, <1>2, <2>2, FirstFalls
<1>5. CASE Grow
  <2>1. stage = "walking" /\ stage' = "laying" /\ height' = Least(2 * height, MaxHeight)
    BY <1>5 DEF Grow, Walked
  <2>2. PICK used \in Bottoms \cup {document.reserved} : ~ IsEnough(used)
    BY <1>5 DEF Grow
  <2>3. /\ height \in Nat \ {0} /\ MaxHeight \in Nat /\ document.reserved \in Int /\ Bottoms \subseteq Int
    BY ExtractionConstants, BottomsType DEF ExtractionTypeOK
  <2>4. height < MaxHeight
    BY <2>2, <2>3 DEF IsEnough
  <2>5. Short(height', MaxHeight) < Short(height, MaxHeight)
    <3>1. \A h, top \in Int : h > 0 /\ h < top => Short(Least(2 * h, top), top) < Short(h, top)
      BY DEF Short, Least
    <3> QED
      BY <2>1, <2>3, <2>4, <3>1
  <2>6. n \in [1 .. 6 -> Nat] /\ m[1] = n[1] /\ m[2] = Short(height', MaxHeight) /\ n[2] = Short(height, MaxHeight)
    BY <1>1, <1>2, <2>1 DEF ToGoParts, ToGoIs
  <2> QED
    BY <1>1, <1>2, <2>5, <2>6, LaterFalls
<1> QED
  BY <1>3, <1>4, <1>5

LEMMA DrawingFalls ==
  ASSUME TypeOK, ToGoParts, ToGoParts', DrawBox \/ DrawImage \/ DrawGroup
  PROVE  Precedes(ToGo', ToGo)
<1>1. PICK m : m = ToGo'
  OBVIOUS
<1>2. PICK n : n = ToGo
  OBVIOUS
<1>3. stage = "painting" /\ stage' = "painting" /\ UNCHANGED <<boxes, images, texts>>
  BY DEF DrawBox, DrawImage, DrawGroup, extracted, lists
<1>4. n \in [1 .. 6 -> Nat] /\ m[1] = n[1] /\ m[2] = LeftToDraw' /\ n[2] = LeftToDraw
  BY <1>1, <1>2, <1>3 DEF ToGoParts, ToGoIs
<1>5. /\ next.box \in Nat /\ next.image \in Nat /\ next.text \in Nat
      /\ Len(boxes) \in Nat /\ Len(images) \in Nat /\ Len(texts) \in Nat
  BY DrawLeft DEF TypeOK
<1> DEFINE B == Short(next.box, Len(boxes) + 1)
           I == Short(next.image, Len(images) + 1)
           T == Short(next.text, Len(texts) + 1)
<1>6. B \in Nat /\ I \in Nat /\ T \in Nat
  BY DrawLeft DEF TypeOK
<1>7. LeftToDraw = B + I + T
  BY DEF LeftToDraw
<1>8. ASSUME NEW k \in Nat, NEW l \in Nat, NEW j \in Int, k < j, j <= l + 1
      PROVE  Short(j, l + 1) \in Nat /\ Short(j, l + 1) < Short(k, l + 1)
  BY <1>8 DEF Short
<1>9. next \in [box : Nat \ {0}, image : Nat \ {0}, text : Nat \ {0}]
  BY DEF TypeOK, RasterTypeOK
<1>10. CASE DrawBox
  <2>1. next.box <= Len(boxes) /\ next' = [next EXCEPT !.box = next.box + 1]
    BY <1>10 DEF DrawBox, BoxIsNext
  <2>2. next'.box = next.box + 1 /\ next'.image = next.image /\ next'.text = next.text
    BY <1>9, <2>1
  <2>3. LeftToDraw' = Short(next.box + 1, Len(boxes) + 1) + I + T
    BY <1>3, <2>2 DEF LeftToDraw
  <2>4. next.box + 1 \in Int /\ next.box < next.box + 1 /\ next.box + 1 <= Len(boxes) + 1
    BY <1>5, <2>1
  <2>5. Short(next.box + 1, Len(boxes) + 1) \in Int /\ Short(next.box + 1, Len(boxes) + 1) < B
    BY <1>5, <1>8, <2>4
  <2> HIDE DEF B, I, T
  <2>6. LeftToDraw' < LeftToDraw
    BY <1>6, <1>7, <2>3, <2>5, OneLess
  <2> QED
    BY <1>1, <1>2, <1>4, <2>6, LaterFalls
<1>11. CASE DrawImage
  <2>1. next.image <= Len(images) /\ next' = [next EXCEPT !.image = next.image + 1]
    BY <1>11 DEF DrawImage, ImageIsNext
  <2>2. next'.image = next.image + 1 /\ next'.box = next.box /\ next'.text = next.text
    BY <1>9, <2>1
  <2>3. LeftToDraw' = B + Short(next.image + 1, Len(images) + 1) + T
    BY <1>3, <2>2 DEF LeftToDraw
  <2>4. next.image + 1 \in Int /\ next.image < next.image + 1 /\ next.image + 1 <= Len(images) + 1
    BY <1>5, <2>1
  <2>5. Short(next.image + 1, Len(images) + 1) \in Int /\ Short(next.image + 1, Len(images) + 1) < I
    BY <1>5, <1>8, <2>4
  <2> HIDE DEF B, I, T
  <2>6. LeftToDraw' < LeftToDraw
    BY <1>6, <1>7, <2>3, <2>5, OneLess
  <2> QED
    BY <1>1, <1>2, <1>4, <2>6, LaterFalls
<1>12. CASE DrawGroup
  <2>1. PICK last \in next.text .. Len(texts) : next' = [next EXCEPT !.text = last + 1]
    BY <1>12 DEF DrawGroup
  <2>2. next'.text = last + 1 /\ next'.box = next.box /\ next'.image = next.image
    BY <1>9, <2>1
  <2>3. LeftToDraw' = B + I + Short(last + 1, Len(texts) + 1)
    BY <1>3, <2>2 DEF LeftToDraw
  <2>4. last + 1 \in Int /\ next.text < last + 1 /\ last + 1 <= Len(texts) + 1
    BY <1>5, <2>1
  <2>5. Short(last + 1, Len(texts) + 1) \in Int /\ Short(last + 1, Len(texts) + 1) < T
    BY <1>5, <1>8, <2>4
  <2> HIDE DEF B, I, T
  <2>6. LeftToDraw' < LeftToDraw
    BY <1>6, <1>7, <2>3, <2>5, OneLess
  <2> QED
    BY <1>1, <1>2, <1>4, <2>6, LaterFalls
<1> QED
  BY <1>10, <1>11, <1>12

LEMMA EncodingFalls ==
  ASSUME TypeOK, ToGoParts, ToGoParts', ChooseFrame \/ Encode \/ Compact \/ Deliver
  PROVE  Precedes(ToGo', ToGo)
<1>1. PICK m : m = ToGo'
  OBVIOUS
<1>2. PICK n : n = ToGo
  OBVIOUS
<1>3. CASE Compact
  <2>1. stage = "encoding" /\ stage' = "encoding" /\ Pixels' = Pixels /\ compacted' = compacted + 1
        /\ compacted < Pixels
    BY <1>3 DEF Compact, Pixels, BitmapSide
  <2>2. compacted \in Nat /\ Pixels \in Int
    BY RasterConstants, PixelsType DEF TypeOK, RasterTypeOK
  <2>3. Short(compacted + 1, Pixels) < Short(compacted, Pixels)
    BY <2>1, <2>2, ItemPassed
  <2>4. n \in [1 .. 6 -> Nat] /\ m[1] = n[1] /\ m[2] = Short(compacted + 1, Pixels) /\ n[2] = Short(compacted, Pixels)
    BY <1>1, <1>2, <2>1 DEF ToGoParts, ToGoIs
  <2> QED
    BY <1>1, <1>2, <2>3, <2>4, LaterFalls
<1>4. CASE ChooseFrame \/ Encode \/ Deliver
  <2>1. \/ stage = "laid" /\ stage' \in {"painting", "failed"}
        \/ stage = "painting" /\ stage' \in {"encoding", "done"}
        \/ stage = "encoding" /\ stage' = "done"
    BY <1>4 DEF ChooseFrame, Encode, Deliver
  <2>2. n \in [1 .. 6 -> Nat] /\ m[1] < n[1]
    BY <1>1, <1>2, <2>1 DEF ToGoParts, ToGoIs
  <2> QED
    BY <1>1, <1>2, <2>2, FirstFalls
<1> QED
  BY <1>3, <1>4

LEMMA CaptureStep ==
  ASSUME TypeOK, TypeOK', ToGoParts, ToGoParts', RInv, Next
  PROVE  RInv' /\ Precedes(ToGo', ToGo)
<1>1. ExtractionTypeOK /\ SvgTypeOK /\ SvgTypeOK'
  BY DEF TypeOK
<1>2. PICK m : m = ToGo'
  OBVIOUS
<1>3. PICK n : n = ToGo
  OBVIOUS
<1>4. CASE Rewrite
  <2>1. SvgNext /\ stage' = stage
    BY <1>4 DEF Rewrite, extractionVars
  <2>2. RInv' /\ stage = "scanning" /\ LeftToScan' < LeftToScan
    BY <1>1, <2>1, RewriteFalls
  <2>3. n \in [1 .. 6 -> Nat] /\ m[1] = n[1] /\ m[2] = LeftToScan' /\ n[2] = LeftToScan
    BY <1>2, <1>3, <2>1, <2>2 DEF ToGoParts, ToGoIs
  <2> QED
    BY <1>2, <1>3, <2>2, <2>3, LaterFalls
<1>5. CASE HandOver \/ Parse
  <2>1. \/ stage = "scanning" /\ stage' = "parsing" /\ reading = "done"
        \/ stage = "parsing" /\ stage' = "laying"
    BY <1>5 DEF HandOver, Parse, Build
  <2>2. n \in [1 .. 6 -> Nat] /\ m[1] < n[1]
    BY <1>2, <1>3, <2>1 DEF ToGoParts, ToGoIs
  <2>3. reading' = reading
    BY <1>5 DEF HandOver, Parse, svgVars
  <2>4. RInv'
    BY <2>1, <2>3 DEF RInv
  <2> QED
    BY <1>2, <1>3, <2>2, <2>4, FirstFalls
<1>6. CASE (Extract \/ Rasterize) /\ UNCHANGED svgVars
  <2>1. stage # "scanning"
    BY <1>6 DEF Extract, LayOut, Load, PaintColour, PaintTile, LeaveLayer, PaintContent, ShapeRun, NextElement,
       Answer, Grow, Walked, InLayers, InRuns, Rasterize, ChooseFrame, DrawBox, DrawImage, DrawGroup, Encode,
       Compact, Deliver
  <2>2. RInv'
    BY <1>6, <2>1 DEF RInv, svgVars
  <2>3. Precedes(ToGo', ToGo)
    BY <1>1, <1>6, WalkingFalls, SearchFalls, DrawingFalls, EncodingFalls DEF Extract, Rasterize
  <2> QED
    BY <2>2, <2>3
<1> QED
  BY <1>4, <1>5, <1>6 DEF Next

LEMMA SpecRInv == Spec => []RInv
<1>1. Init => RInv
  BY DEF Init, SvgInit, RInv
<1>2. RInv /\ UNCHANGED vars => RInv'
  BY DEF RInv, vars, svgVars, extractionVars
<1>3. (TypeOK => ToGoParts)'
  BY ToGoShape, PTL
<1>4. SInv /\ SInv' /\ RInv /\ [Next]_vars => RInv'
  BY <1>2, <1>3, ToGoShape, CaptureStep DEF SInv
<1> QED
  BY <1>1, <1>4, SpecSInv, PTL DEF Spec

(* For every text, document and command: every step leaves less to do, in  *)
(* an order with no endless way down (PrecedingEnds).  The scan moves on,  *)
(* the viewport grows or the walk does, each item is drawn once and each   *)
(* pixel compacted once: no capture goes on for ever.                      *)
THEOREM CapturesGetOn == Spec => [](ToGo \in [1 .. 6 -> Nat]) /\ [][Precedes(ToGo', ToGo)]_vars
<1>1. (TypeOK => ToGoParts)'
  BY ToGoShape, PTL
<1>2. SInv /\ SInv' /\ RInv /\ [Next]_vars => [Precedes(ToGo', ToGo)]_vars
  BY <1>1, ToGoShape, CaptureStep DEF SInv
<1>3. SInv => ToGo \in [1 .. 6 -> Nat]
  BY ToGoShape DEF SInv, TypeOK, ToGoParts, ToGoIs
<1> QED
  BY <1>2, <1>3, SpecSInv, SpecRInv, PTL DEF Spec
=============================================================================
