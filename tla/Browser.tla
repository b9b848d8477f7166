------------------------------ MODULE Browser ------------------------------
(***************************************************************************)
(* What a CDP session promises a client that renders: every page session   *)
(* has a document and a window of its own, and a rendering shows the       *)
(* document the page has at that moment, laid out at the sheet's width for *)
(* a PDF and at the window's width for an image.  There is no cache here.  *)
(***************************************************************************)
EXTENDS Naturals

CONSTANTS Keys, Html, NoHtml, Widths, DefaultWidth, NoDrawing

VARIABLES
  doc,     \* session key -> its document
  window,  \* session key -> width of its window
  drawn    \* what the last command drew

vars == <<doc, window, drawn>>

Documents == Html \cup {NoHtml}

Drawing(k, medium, w) ==
  [page |-> k, medium |-> medium, asked |-> w,
   list |-> [html |-> doc[k], laid_at |-> w]]

Init ==
  /\ doc = [k \in Keys |-> NoHtml]
  /\ window = [k \in Keys |-> DefaultWidth]
  /\ drawn = NoDrawing

SetContent(k, h) ==
  /\ doc' = [doc EXCEPT ![k] = h]
  /\ drawn' = NoDrawing
  /\ UNCHANGED window

Resize(k, w) ==
  /\ window' = [window EXCEPT ![k] = w]
  /\ drawn' = NoDrawing
  /\ UNCHANGED doc

(* A page is opened or closed: its key goes back to an empty document. *)
Renew(k) ==
  /\ doc' = [doc EXCEPT ![k] = NoHtml]
  /\ window' = [window EXCEPT ![k] = DefaultWidth]
  /\ drawn' = NoDrawing

DrawSheet(k, w) ==
  /\ drawn' = Drawing(k, "sheet", w)
  /\ UNCHANGED <<doc, window>>

DrawWindow(k) ==
  /\ drawn' = Drawing(k, "window", window[k])
  /\ UNCHANGED <<doc, window>>

DrawNothing ==
  /\ drawn' = NoDrawing
  /\ UNCHANGED <<doc, window>>

Next ==
  \/ \E k \in Keys :
       \/ \E h \in Documents : SetContent(k, h)
       \/ \E w \in Widths : Resize(k, w) \/ DrawSheet(k, w)
       \/ Renew(k)
       \/ DrawWindow(k)
  \/ DrawNothing

Spec == Init /\ [][Next]_vars
=============================================================================
