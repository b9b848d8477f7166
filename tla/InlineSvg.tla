----------------------------- MODULE InlineSvg -----------------------------
(***************************************************************************)
(* The rewriting of inline SVG before a document is parsed                 *)
(* (render-core/src/svg/inline.rs): every <svg> element of the text        *)
(* becomes an image whose source is that element, and the rest is copied.  *)
(*                                                                         *)
(* A document is a sequence of tokens, as coarse as the scan can tell them *)
(* apart; a piece of the output is an interval of the input's tokens.      *)
(* Attributes and the base64 of the image are left out.                    *)
(*                                                                         *)
(* A definition that stands before another and bears its name with an      *)
(* addition, as LeaveAtFirst beside Leave, is that code with a             *)
(* plausible slip.  No action uses it: it tells which property would       *)
(* notice (README, Slips).                                                 *)
(***************************************************************************)
EXTENDS Integers, Sequences, FiniteSets

CONSTANT Htmls

Tokens ==
  {"open",     \* <svg ...>
   "single",   \* <svg ... />
   "close",    \* </svg>, or the closing tag of a longer name
   "torn",     \* the head of an svg tag, opening or closing, that no > follows
   "text",     \* text and other markup, <svgfoo> too, in one-byte characters
   "accent"}   \* a character of several bytes

(* Only the end of a document leaves a tag without its >. *)
ASSUME SvgConstants ==
  \A h \in Htmls : h \in Seq(Tokens) /\ \A k \in DOMAIN h : h[k] = "torn" => k = Len(h)

VARIABLES
  html,
  rest,     \* the first token neither copied nor replaced yet
  reading,  \* what the scan is doing
  token,    \* how far it has come in the element that starts at rest
  depth,    \* how many elements are open there
  pieces    \* the output

svgVars == <<html, rest, reading, token, depth, pieces>>

Piece(kind, from, to) == [kind |-> kind, from |-> from, to |-> to]

SvgInit ==
  /\ html \in Htmls
  /\ rest = 1 /\ reading = "seeking" /\ token = 1 /\ depth = 0
  /\ pieces = << >>

Starts(p) == html[p] \in {"open", "single", "torn"}

(* find_svg_open: the next tag whose name is svg and no longer. *)
Seek ==
  /\ reading = "seeking"
  /\ \E p \in rest .. Len(html) :
       /\ Starts(p) /\ \A q \in rest .. p - 1 : ~ Starts(q)
       /\ pieces' = Append(pieces, Piece("text", rest, p - 1))
       /\ rest' = p /\ token' = p
  /\ reading' = "measuring" /\ depth' = 0
  /\ UNCHANGED html

CopyTheRest ==
  /\ pieces' = Append(pieces, Piece("text", rest, Len(html)))
  /\ rest' = Len(html) + 1
  /\ reading' = "done"
  /\ UNCHANGED <<html, token, depth>>

SeekInVain ==
  /\ reading = "seeking"
  /\ \A p \in rest .. Len(html) : ~ Starts(p)
  /\ CopyTheRest

(* svg_block_len, one tag or one character a step. *)
Measuring(kind) == reading = "measuring" /\ token <= Len(html) /\ html[token] = kind

Advance(level) ==
  /\ token' = token + 1 /\ depth' = level
  /\ UNCHANGED <<html, rest, reading, pieces>>

(* block_to_img: the element that ends here is replaced. *)
Replace ==
  /\ pieces' = Append(pieces, Piece("img", rest, token))
  /\ rest' = token + 1 /\ reading' = "seeking" /\ token' = token + 1 /\ depth' = 0
  /\ UNCHANGED html

Enter == Measuring("open") /\ Advance(depth + 1)

PassSingleAsOpen == Measuring("single") /\ IF depth = 0 THEN Replace ELSE Advance(depth + 1)

(* A self-closing tag opens no level. *)
PassSingle == Measuring("single") /\ IF depth = 0 THEN Replace ELSE Advance(depth)

LeaveAtFirst == Measuring("close") /\ Replace

Leave == Measuring("close") /\ IF depth <= 1 THEN Replace ELSE Advance(depth - 1)

Skip == Measuring("text") /\ Advance(depth)

(* The next step would slice the text inside a character. *)
SliceInside ==
  /\ Measuring("accent")
  /\ reading' = "panicked"
  /\ UNCHANGED <<html, rest, token, depth, pieces>>

(* An element that is never closed is copied, and all that follows it. *)
MeasureInVain ==
  /\ reading = "measuring"
  /\ token > Len(html) \/ Measuring("torn")
  /\ CopyTheRest

SvgNext ==
  \/ Seek \/ SeekInVain
  \/ Enter \/ PassSingle \/ Leave \/ Skip \/ SliceInside \/ MeasureInVain

SvgSpec == SvgInit /\ [][SvgNext]_svgVars

-----------------------------------------------------------------------------
SvgTypeOK ==
  /\ html \in Seq(Tokens)
  /\ rest \in 1 .. Len(html) + 1
  /\ reading \in {"seeking", "measuring", "done", "panicked"}
  /\ token \in 1 .. Len(html) + 1
  /\ depth \in Nat
  /\ pieces \in Seq([kind : {"text", "img"}, from : Nat, to : Nat])

(* How many elements tokens i to j open and do not close. *)
Level(i, j) ==
  Cardinality({k \in i .. j : html[k] = "open"}) - Cardinality({k \in i .. j : html[k] = "close"})

(* Tokens i to j are one element, with all the elements inside it. *)
Element(i, j) ==
  \/ i = j /\ html[i] = "single"
  \/ /\ i < j /\ html[i] = "open" /\ html[j] = "close"
     /\ Level(i, j) = 0
     /\ \A k \in i .. j - 1 : Level(i, k) > 0

(* The output is the input, in order and with nothing lost or repeated,    *)
(* where what became an image is one whole element, however elements nest; *)
(* and an element left as it is lies in one that is never closed           *)
(* (inline.rs: "copy the remainder verbatim rather than dropping content").*)
WholeElementsAreReplaced ==
  /\ \A k \in DOMAIN pieces :
       /\ pieces[k].from = IF k = 1 THEN 1 ELSE pieces[k - 1].to + 1
       /\ pieces[k].kind = "img" => Element(pieces[k].from, pieces[k].to)
  /\ rest = IF pieces = << >> THEN 1 ELSE pieces[Len(pieces)].to + 1
  /\ reading = "done" =>
       /\ rest = Len(html) + 1
       /\ \A k \in DOMAIN pieces, p \in DOMAIN html :
            /\ pieces[k].kind = "text" /\ p \in pieces[k].from .. pieces[k].to
            /\ Starts(p) /\ \A q \in pieces[k].from .. p - 1 : ~ Starts(q)
            => \A j \in DOMAIN html : ~ Element(p, j)

(* README.md: the engine takes "SVG, tanto em <img ...> quanto escrito     *)
(* inline no HTML"; inline.rs: "Replaces every <svg>...</svg> in the HTML".*)
(* Whatever the document, the rewriting comes to its end.                  *)
EveryDocumentIsRewritten == reading # "panicked"
=============================================================================
