----------------------------- MODULE MCPaginate -----------------------------
EXTENDS Paginate

CONSTANTS f, g, broken

MCFonts == {f, g, broken}

(* Two of one size in different buffers, and one with no pixels. *)
MCBitmaps == {[size |-> 1, buffer |-> 1], [size |-> 1, buffer |-> 2], [size |-> 0, buffer |-> 3]}

Empty == [boxes |-> << >>, images |-> << >>, texts |-> << >>, fonts |-> << >>, reserved |-> 0]

Box(top, order) == [top |-> top, bottom |-> top + 2, order |-> order]
Image(top, order, bitmap) ==
  [top |-> top, bottom |-> top + 1, order |-> order, bitmap |-> bitmap]
Text(baseline, font, glyphs) == [baseline |-> baseline, font |-> font, glyphs |-> glyphs]

(* Up to two boxes and two images, interleaved in every way, on a document *)
(* of up to three pages; one or two texts.                                 *)
MCBoxes == {<< >>} \cup {<<Box(2, o)>> : o \in 0 .. 2}
  \cup {<<Box(t, 0), Box(1, o)>> : t \in {0, 3}, o \in {1, 2}}

MCImages == {<< >>} \cup {<<Image(1, o, b)>> : o \in 0 .. 2, b \in MCBitmaps}
  \cup {<<Image(0, 0, b), Image(3, o, c)>> : o \in {1, 2}, b, c \in MCBitmaps}

MCTexts ==
  {[texts |-> << >>, fonts |-> << >>],
   [texts |-> <<Text(2, 1, f)>>, fonts |-> <<f>>],
   [texts |-> <<Text(4, 2, g), Text(1, 1, broken)>>, fonts |-> <<broken, g>>]}

Documents ==
  {[boxes |-> bs, images |-> is, texts |-> ts.texts, fonts |-> ts.fonts, reserved |-> 0] :
     bs \in MCBoxes, is \in MCImages, ts \in MCTexts}

Logo == [size |-> 1, buffer |-> 1]

Headers ==
  {Empty,
   [Empty EXCEPT !.texts = <<Text(0, 1, g)>>, !.fonts = <<g, f>>],
   [Empty EXCEPT !.boxes = <<Box(0, 0)>>, !.images = <<Image(0, 1, Logo)>>]}

Footers ==
  {Empty, [Empty EXCEPT !.texts = <<Text(0, 2, f)>>, !.fonts = <<broken, f>>]}

(* A page of two rows between the margins, and a sheet that is all margin. *)
MCGeometries ==
  {[sheet_height |-> 5, top |-> 1, bottom |-> 2], [sheet_height |-> 2, top |-> 1, bottom |-> 1]}

MCJobs == [document : Documents, header : Headers, footer : Footers, geometry : MCGeometries]
=============================================================================
