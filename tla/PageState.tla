----------------------------- MODULE PageState -----------------------------
(***************************************************************************)
(* One open page of the CDP server (cdp-server/src/session/page.rs): its   *)
(* identity, its document, the emulated viewport and the small cache of    *)
(* display lists already laid out for that document.                       *)
(*                                                                         *)
(* A display list is what `render_core::render_html` returns.  It is a     *)
(* function of the document and of the layout width and of nothing else,   *)
(* so it is represented by the pair it was computed from.  Identifiers are *)
(* numbered: "target-n", "session-n" and "frame-n" are n, and the implicit *)
(* page has the two numbers named below.                                   *)
(*                                                                         *)
(* A definition that stands before another and bears its name with an      *)
(* addition, as SetHtmlOnly beside SetHtml, is that code with a plausible  *)
(* slip. No action uses it: it tells which property would notice (README,  *)
(* Slips).                                                                 *)
(***************************************************************************)
EXTENDS Naturals, Sequences

CONSTANTS
  Html,            \* documents a client may set
  NoHtml,          \* `html: None`, laid out as the empty document
  Widths,          \* layout widths, compared bit by bit
  Heights,         \* viewport heights
  Scales,          \* device scale factors
  DefaultViewport, \* DEFAULT_VIEWPORT with scale factor 1
  Absent           \* a dimension missing from a command, or not positive

ASSUME PageConstants ==
  /\ NoHtml \notin Html
  /\ Absent \notin Widths \cup Heights \cup Scales
  /\ DefaultViewport \in [width : Widths, height : Heights, scale : Scales]

Documents == Html \cup {NoHtml}
Viewports == [width : Widths, height : Heights, scale : Scales]

CachedWidthsSingleSlot == 1

(* How many laid-out widths a page keeps. *)
CachedWidths == 2

ImplicitTargetIsFirst == 1

(* "target-implicito", and "frame-1": the string the first created page    *)
(* gets as well.                                                           *)
ImplicitTarget == 0
ImplicitFrame == 1

(* What `render_html` yields for a document at a width. *)
Rendering(html, width) == [html |-> html, laid_at |-> width]
DisplayLists == [html : Documents, laid_at : Widths]
CacheEntries == [width : Widths, list : DisplayLists]

PageStates ==
  [target_id : Nat, frame_id : Nat, html : Documents, viewport : Viewports,
   layouts : Seq(CacheEntries)]

NewPageUnsized(target, frame) ==
  [target_id |-> target, frame_id |-> frame, html |-> NoHtml,
   viewport |-> [width |-> 0, height |-> 0, scale |-> 0], layouts |-> << >>]

NewPageSharedFrame(target, frame) ==
  [target_id |-> target, frame_id |-> ImplicitFrame, html |-> NoHtml,
   viewport |-> DefaultViewport, layouts |-> << >>]

NewPage(target, frame) ==
  [target_id |-> target, frame_id |-> frame, html |-> NoHtml,
   viewport |-> DefaultViewport, layouts |-> << >>]

ImplicitPage == NewPage(ImplicitTarget, ImplicitFrame)

SetHtmlOnly(page, html) == [page EXCEPT !.html = html]

SetHtml(page, html) == [page EXCEPT !.html = html, !.layouts = << >>]

-----------------------------------------------------------------------------
(* `layout` answers from the first entry of the width asked for, if there  *)
(* is one; otherwise it lays the document out and stores the result, the   *)
(* oldest entry leaving a full cache.                                      *)

HitsAnyWidth(page, width) == DOMAIN page.layouts

Hits(page, width) ==
  {i \in DOMAIN page.layouts : page.layouts[i].width = width}

FirstHit(page, width) ==
  CHOOSE i \in Hits(page, width) : \A j \in Hits(page, width) : i <= j

LayoutOf(page, width) ==
  IF Hits(page, width) # {}
  THEN page.layouts[FirstHit(page, width)].list
  ELSE Rendering(page.html, width)

MakeRoom(layouts) ==
  IF Len(layouts) = CachedWidths THEN Tail(layouts) ELSE layouts

AfterLayout(page, width) ==
  IF Hits(page, width) # {}
  THEN page
  ELSE [page EXCEPT !.layouts =
          Append(MakeRoom(@), [width |-> width,
                               list |-> Rendering(page.html, width)])]

-----------------------------------------------------------------------------
(* The emulated viewport. *)

Override(current, given) == IF given = Absent THEN current ELSE given

SetDeviceMetrics(page, width, height, scale) ==
  [page EXCEPT !.viewport =
     [width |-> Override(@.width, width),
      height |-> Override(@.height, height),
      scale |-> Override(@.scale, scale)]]

ClearDeviceMetrics(page) == [page EXCEPT !.viewport = DefaultViewport]

-----------------------------------------------------------------------------
(* What the cache of a page must look like: every entry is the layout of   *)
(* the document the page has now, at the width it is filed under; no width *)
(* is stored twice and no more than two are.                               *)

CacheIsFresh(page) ==
  \A i \in DOMAIN page.layouts :
     page.layouts[i].list = Rendering(page.html, page.layouts[i].width)

CacheIsTight(page) ==
  /\ Len(page.layouts) <= CachedWidths
  /\ \A i, j \in DOMAIN page.layouts :
        page.layouts[i].width = page.layouts[j].width => i = j
=============================================================================
