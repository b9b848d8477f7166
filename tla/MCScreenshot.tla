--------------------------- MODULE MCScreenshot ---------------------------
EXTENDS Screenshot, SequencesExt

CONSTANTS a, b, c   \* font blobs

(* Every text of up to four tokens; a torn tag only ends one.              *)
MCHtmls ==
  {h \in SeqOf(Tokens, 4) : \A k \in DOMAIN h : h[k] = "torn" => k = Len(h)}

Raster2(name, sound) == [kind |-> "raster", name |-> name, width |-> 2, height |-> 2, sound |-> sound]

Photo == Raster2(1, TRUE)
Logo == Raster2(2, TRUE)
Short == Raster2(3, FALSE)
Flat == [Raster2(4, TRUE) EXCEPT !.height = 0]
Remote == Raster2(5, TRUE)
Style == Raster2(6, TRUE)
Vector == [kind |-> "svg", name |-> 7, width |-> 4, height |-> 2, sound |-> TRUE]
Broken == [Vector EXCEPT !.name = 8, !.sound = FALSE]

MCImages == {Photo, Logo, Short, Flat, Remote, Style, Vector, Broken}

MCFetchable == MCImages \ {Remote}

MCFileOf == (a :> 1) @@ (b :> 1) @@ (c :> 2)

At(percent, length) == [percent |-> percent, length |-> length]

Sized(w, h) == [kind |-> "explicit", width |-> w, height |-> h]

LayerOf(image, size, rx, ry, px, py) ==
  [image |-> image, size |-> size, repeats_x |-> rx, repeats_y |-> ry,
   position_x |-> px, position_y |-> py]

El == [x |-> [from |-> 0, to |-> 8], y |-> [from |-> 0, to |-> 12], shares |-> 0,
       after |-> None, push |-> 0, painted |-> TRUE,
       layers |-> << >>, content |-> None, runs |-> << >>]

Named(e) == ({e.content} \cup {l.image : l \in Range(e.layers)}) \ {None}

Doc(elements, reserved, inlines) ==
  [width |-> 8, elements |-> elements, reserved |-> reserved, inlines |-> inlines,
   asks |-> [what : UNION {Named(e) : e \in Range(elements)}, after : {{}}]]

(* One layer of every kind of image, size, repetition and position on a    *)
(* box that its tiles do and do not fit.                                   *)
Tiled ==
  {Doc(<<[El EXCEPT !.layers = <<LayerOf(i, s, r[1], r[2], p[1], p[2])>>]>>, 0, FALSE) :
     i \in {Photo, Vector},
     s \in {[kind |-> "cover"], [kind |-> "contain"],
             Sized(4, AutoLength), Sized(AutoLength, 6), Sized(AutoLength, AutoLength)},
     r \in {<<TRUE, TRUE>>, <<FALSE, TRUE>>, <<FALSE, FALSE>>},
     p \in {<<At(0, 0), At(0, 0)>>, <<At(50, 0), At(50, 0)>>, <<At(0, 1), At(100, -3)>>}}

Run(blob, face, size, glyphs) ==
  [blob |-> blob, face |-> face, size |-> size, baseline |-> 2, glyphs |-> glyphs]

(* Three layers, one over the other, and contents that do and do not show. *)
Layered ==
  {Doc(<<[El EXCEPT !.painted = p, !.content = i,
            !.layers = <<LayerOf(Photo, Sized(6, 6), TRUE, TRUE, At(0, 0), At(0, 0)),
                         LayerOf(j, [kind |-> "contain"], FALSE, FALSE, At(0, 0), At(0, 0)),
                         LayerOf(Logo, Sized(8, 8), TRUE, TRUE, At(0, 0), At(0, 0))>>],
        [El EXCEPT !.x.from = 4, !.content = Photo]>>, 3, i = Vector) :
     p \in BOOLEAN, i \in {Photo, Vector, Short, None}, j \in {Vector, Broken, Flat, Remote, Short}}

(* Runs in two blobs of one file and two faces of it, with and without     *)
(* glyphs, in elements that move with the window and with an image.        *)
Written ==
  {Doc(<<[El EXCEPT !.shares = n, !.runs = <<Run(a, 0, 1, g), Run(a, 1, 1, TRUE), Run(a, 1, 2, TRUE)>>],
        [El EXCEPT !.after = Photo, !.push = m, !.painted = FALSE, !.content = Logo,
                   !.runs = <<Run(x, 1, 2, TRUE), Run(c, 0, 1, g), Run(x, 0, z, TRUE)>>]>>, 0, FALSE) :
     n \in 0 .. 1, m \in {0, 20}, x \in {a, b}, g \in BOOLEAN, z \in 0 .. 1}

(* An image asked for by a style sheet.                                    *)
Chained ==
  {[Doc(<<[El EXCEPT !.y.to = h, !.content = Photo], [El EXCEPT !.after = Photo, !.push = 7]>>, 0, FALSE)
     EXCEPT !.asks = {[what |-> Style, after |-> {}], [what |-> Photo, after |-> {Style}]}] : h \in {12, 20}}

MCDocuments == Tiled \cup Layered \cup Written \cup Chained

MCClip(x, y, w, h, s) == [x |-> x, y |-> y, width |-> w, height |-> h, scale |-> s]

MCCaptures ==
  {[format |-> "png", beyond |-> TRUE, clip |-> Absent],
   [format |-> "jpeg", beyond |-> FALSE, clip |-> Absent]}
  \cup {[format |-> "jpeg", beyond |-> FALSE, clip |-> k] :
          k \in {MCClip(2, Absent, 0, 3, 2), MCClip(0, 0, 4, 4, 0)}}

MCViewports ==
  {[height |-> 6, density |-> 1], [height |-> 30, density |-> 1], [height |-> 6, density |-> 2]}
=============================================================================
