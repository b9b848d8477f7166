---------------------------- MODULE Screenshot ----------------------------
(***************************************************************************)
(* One picture of a page from its HTML text: the inline SVG is rewritten   *)
(* (InlineSvg), the document laid out and extracted (Extraction), and the  *)
(* frame drawn and encoded (Raster).  Page.captureScreenshot runs them in  *)
(* this order, on one thread; a format it does not support is refused      *)
(* before (Session).                                                       *)
(***************************************************************************)
EXTENDS InlineSvg, Raster

VARIABLE replaced  \* an SVG of the text became an image

vars == <<svgVars, replaced, extractionVars, rasterVars>>

ASSUME ScreenshotConstants ==
  /\ Documents # {} /\ Captures # {} /\ Viewports # {}
  /\ \A d \in Documents : d.inlines \in BOOLEAN

Some(S) == CHOOSE x \in S : TRUE

Init ==
  /\ SvgInit
  /\ stage = "scanning" /\ replaced = FALSE
  /\ document = Some(Documents) /\ height = InitialHeight
  /\ collected = {} /\ loaded = {} /\ laid = [height |-> 0, loaded |-> {}]
  /\ at = Start /\ order = 0
  /\ boxes = << >> /\ images = << >> /\ texts = << >> /\ fonts = << >> /\ seen = << >>
  /\ capture = Some(Captures) /\ viewport = Some(Viewports)
  /\ frame = Clip(0, 0, 1, 1, 1)
  /\ next = [box |-> 1, image |-> 1, text |-> 1]
  /\ cache = << >> /\ drawn = << >> /\ data = << >> /\ compacted = 0

Rewrite == SvgNext /\ UNCHANGED <<replaced, extractionVars, rasterVars>>

(* render_html: the text that was rewritten is handed to the parser; all   *)
(* that matters of it from here on is whether an element was replaced.     *)
HandOver ==
  /\ stage = "scanning" /\ reading = "done"
  /\ replaced' = \E k \in DOMAIN pieces : pieces[k].kind = "img"
  /\ stage' = "parsing"
  /\ html' = << >> /\ rest' = 1 /\ token' = 1 /\ depth' = 0 /\ pieces' = << >>
  /\ UNCHANGED <<reading, document, height, resources, at, lists, rasterVars>>

(* A document that `inlines` an SVG comes only of such a text. *)
Parse ==
  /\ stage = "parsing"
  /\ \E d \in Documents : (d.inlines => replaced) /\ Build(d)
  /\ UNCHANGED <<svgVars, replaced, rasterVars>>

Next ==
  \/ Rewrite \/ HandOver \/ Parse
  \/ Extract /\ UNCHANGED <<svgVars, replaced, rasterVars>>
  \/ Rasterize /\ UNCHANGED <<svgVars, replaced>>

Spec == Init /\ [][Next]_vars

(* The thread that serves the command runs it to its end. *)
FairSpec == Spec /\ WF_vars(Next)

-----------------------------------------------------------------------------
TypeOK ==
  /\ stage \in {"scanning", "parsing", "laying", "loading", "walking", "laid",
                "painting", "encoding", "done", "failed"}
  /\ SvgTypeOK /\ replaced \in BOOLEAN
  /\ ExtractionTypeOK
  /\ RasterTypeOK

(* No text, document or command keeps the server at work for ever: the     *)
(* scan moves on, the search for a height ends at its cap, and every item, *)
(* tile, run and pixel is passed once.                                     *)
EveryCaptureEnds == <>(stage \in {"done", "failed"} \/ reading = "panicked")
=============================================================================
