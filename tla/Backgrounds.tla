---------------------------- MODULE Backgrounds ----------------------------
(***************************************************************************)
(* Images painted behind a box (render-core/src/background.rs) and the     *)
(* rasterising of SVG (svg/raster.rs): how large a tile is, which tiles    *)
(* cover the box, and what of a tile at its edge is kept.                  *)
(*                                                                         *)
(* Lengths are integers, in px.  An edge that falls inside a pixel of the  *)
(* image is kept as a multiple of 1/unit px, where unit is the number of   *)
(* image pixels on the axis, so nothing here is rounded but what the code  *)
(* rounds: tile sizes and offsets divide evenly in the instances.          *)
(*                                                                         *)
(* A definition that stands before another and bears its name with an      *)
(* addition, as RightPxOfWidth beside RightPx, is that code with a         *)
(* plausible slip.  No action uses it: it tells which property would       *)
(* notice (README, Slips).                                                 *)
(***************************************************************************)
EXTENDS Integers, Sequences

CONSTANTS
  Images,       \* decoded resources: kind, size and name
  MaxTiles,     \* MAX_TILES
  Supersample,  \* SUPERSAMPLE
  MaxSide,      \* MAX_SIDE_PX of the SVG rasteriser
  AutoLength    \* no length given

(* An SVG may have a size and still give no pixels: `sound` says whether   *)
(* it does, or whether a bitmap has the bytes its size calls for.          *)
ImageData == [kind : {"raster", "svg"}, name : Nat, width : Nat, height : Nat, sound : BOOLEAN]

ASSUME BackgroundConstants ==
  /\ Images \subseteq ImageData
  /\ \A i, j \in Images : i.name = j.name => i = j
  /\ MaxTiles \in Nat
  /\ Supersample \in Nat \ {0} /\ MaxSide \in Nat \ {0}
  /\ AutoLength \notin Nat

Least(a, b) == IF a <= b THEN a ELSE b
Greatest(a, b) == IF a <= b THEN b ELSE a
Ceil(a, b) == - ((- a) \div b)
Clamp(a, low, high) == Greatest(low, Least(a, high))

Extent(interval) == interval.to - interval.from

HasIntrinsicSize(image) == image.width > 0 /\ image.height > 0

-----------------------------------------------------------------------------
(* Scaled as asked, or until the longest side reaches the limit.           *)
ScaledSide(side, longest, scale, limit) ==
  IF scale * longest <= limit THEN Greatest(1, scale * side)
  ELSE Greatest(1, (2 * side * limit + longest) \div (2 * longest))

(* rasterize: the pixels of an SVG drawn over a box of this size.          *)
Rasterizes(image, width, height) ==
  image.sound /\ HasIntrinsicSize(image) /\ width > 0 /\ height > 0

RasterSize(width, height) ==
  [width |-> ScaledSide(width, Greatest(width, height), Supersample, MaxSide),
   height |-> ScaledSide(height, Greatest(width, height), Supersample, MaxSide)]

-----------------------------------------------------------------------------
(* A layer is its image and what the style says of it on both axes.        *)
Positions == [percent : {0, 50, 100}, length : Int]

Sizes == [kind : {"cover", "contain"}] \cup
         [kind : {"explicit"}, width : Nat \cup {AutoLength}, height : Nat \cup {AutoLength}]

Layers ==
  [image : Images, size : Sizes,
   repeats_x : BOOLEAN, repeats_y : BOOLEAN,
   position_x : Positions, position_y : Positions]

Fills(image, area) == Extent(area.x) * image.height >= Extent(area.y) * image.width

(* An axis that is not given follows the ratio of the image.              *)
GivenSize(size, image) ==
  [width |-> IF size.width # AutoLength THEN size.width
             ELSE IF size.height = AutoLength THEN image.width
             ELSE (size.height * image.width) \div image.height,
   height |-> IF size.height # AutoLength THEN size.height
              ELSE IF size.width = AutoLength THEN image.height
              ELSE (size.width * image.height) \div image.width]

(* `cover` scales the image until it fills the box, `contain` until one    *)
(* side reaches it.                                                        *)
TileSize(layer, area) ==
  LET image == layer.image IN
    IF layer.size.kind = "explicit" THEN GivenSize(layer.size, image)
    ELSE IF (layer.size.kind = "cover") <=> Fills(image, area)
    THEN [width |-> Extent(area.x), height |-> (image.height * Extent(area.x)) \div image.width]
    ELSE [width |-> (image.width * Extent(area.y)) \div image.height, height |-> Extent(area.y)]

(* One axis of a layer laid over a box: the tile at the origin has index 0 *)
(* and `unit` image pixels.                                                *)
Axis(interval, position, tile, repeats, unit) ==
  [from |-> interval.from, to |-> interval.to, tile |-> tile, repeats |-> repeats,
   unit |-> unit,
   origin |-> interval.from + position.length
              + (position.percent * (Extent(interval) - tile)) \div 100]

FirstTile(axis) ==
  IF axis.repeats THEN (axis.from - axis.origin) \div axis.tile ELSE 0

TilesToTheEdge(axis) ==
  IF axis.repeats
  THEN Greatest(1, ((axis.to - axis.origin) \div axis.tile) - FirstTile(axis))
  ELSE 1

TileCount(axis) ==
  IF axis.repeats
  THEN Greatest(1, Ceil(axis.to - axis.origin, axis.tile) - FirstTile(axis))
  ELSE 1

-----------------------------------------------------------------------------
(* crop_to, one axis: what is seen of tile k, in whole image pixels.       *)
TileStart(axis, k) == axis.origin + k * axis.tile
SeenFrom(axis, k) == Greatest(TileStart(axis, k), axis.from)
SeenTo(axis, k) == Least(TileStart(axis, k) + axis.tile, axis.to)

LeftPx(axis, k) ==
  Clamp(((SeenFrom(axis, k) - TileStart(axis, k)) * axis.unit) \div axis.tile, 0, axis.unit - 1)

RightPxOfWidth(axis, k) ==
  Clamp(LeftPx(axis, k) + Ceil((SeenTo(axis, k) - SeenFrom(axis, k)) * axis.unit, axis.tile),
        LeftPx(axis, k) + 1, axis.unit)

(* Both edges are mapped and rounded outwards. *)
RightPx(axis, k) ==
  Clamp(Ceil((SeenTo(axis, k) - TileStart(axis, k)) * axis.unit, axis.tile),
        LeftPx(axis, k) + 1, axis.unit)

(* The kept pixels and the place they fill, clamped back into the box.     *)
Span(axis, k) ==
  [unit |-> axis.unit, left |-> LeftPx(axis, k), right |-> RightPx(axis, k),
   from |-> Greatest(axis.unit * TileStart(axis, k) + LeftPx(axis, k) * axis.tile,
                     axis.unit * axis.from),
   to |-> Least(axis.unit * TileStart(axis, k) + RightPx(axis, k) * axis.tile,
                axis.unit * axis.to)]

IsSeen(axis, k) ==
  SeenFrom(axis, k) < SeenTo(axis, k) /\ Span(axis, k).from < Span(axis, k).to

IsWhole(axis, k) == SeenTo(axis, k) - SeenFrom(axis, k) >= axis.tile

-----------------------------------------------------------------------------
(* How a layer is laid over a box; a layer with no axis paints nothing.    *)
SourceSize(image, tile) ==
  IF image.kind = "svg" THEN RasterSize(tile.width, tile.height)
  ELSE [width |-> image.width, height |-> image.height]

Tiling(layer, area) ==
  LET tile == TileSize(layer, area)
      source == SourceSize(layer.image, tile)
  IN  [x |-> Axis(area.x, layer.position_x, tile.width, layer.repeats_x, source.width),
       y |-> Axis(area.y, layer.position_y, tile.height, layer.repeats_y, source.height)]

Tiles(tiling) == TileCount(tiling.x) * TileCount(tiling.y)

PaintsTiles(layer, area) ==
  /\ Extent(area.x) > 0 /\ Extent(area.y) > 0
  /\ HasIntrinsicSize(layer.image)
  /\ TileSize(layer, area).width > 0 /\ TileSize(layer, area).height > 0
  /\ Tiles(Tiling(layer, area)) <= MaxTiles
  /\ layer.image.kind = "svg" => layer.image.sound

(* The tiles row by row, numbered from 0. *)
Column(tiling, n) == FirstTile(tiling.x) + (n % TileCount(tiling.x))

Row(tiling, n) == FirstTile(tiling.y) + (n \div TileCount(tiling.x))

TileIsSeen(tiling, n) == IsSeen(tiling.x, Column(tiling, n)) /\ IsSeen(tiling.y, Row(tiling, n))

TileIsWhole(tiling, n) == IsWhole(tiling.x, Column(tiling, n)) /\ IsWhole(tiling.y, Row(tiling, n))
=============================================================================
