---------------------------- MODULE LayoutCache ----------------------------
(***************************************************************************)
(* The layout cache of one page under any sequence of the two operations   *)
(* that touch it, `set_html` and `layout` (cdp-server/src/session/page.rs),*)
(* with the history of the layouts actually run.  Laying out is the        *)
(* expensive half of every command; the cache has two slots "because a     *)
(* page is normally asked for both outputs", the PDF and the screenshot.   *)
(***************************************************************************)
EXTENDS PageState

VARIABLES
  page,
  shown,    \* the display list the last operation returned, if it was a layout
  wanted,   \* history: the width that layout was asked for
  asked,    \* history: widths asked for since the document was last replaced
  again     \* history: those of them laid out more than once

vars == <<page, shown, wanted, asked, again>>

Unshown == [html |-> NoHtml, laid_at |-> Absent]

Init ==
  /\ page = ImplicitPage
  /\ shown = Unshown
  /\ wanted = Absent
  /\ asked = {}
  /\ again = {}

Replace(html) ==
  /\ page' = SetHtml(page, html)
  /\ shown' = Unshown
  /\ wanted' = Absent
  /\ asked' = {}
  /\ again' = {}

Ask(width) ==
  /\ page' = AfterLayout(page, width)
  /\ shown' = LayoutOf(page, width)
  /\ wanted' = width
  /\ asked' = asked \cup {width}
  /\ again' = IF width \in asked /\ Hits(page, width) = {}
              THEN again \cup {width}
              ELSE again

Next ==
  \/ \E html \in Documents : Replace(html)
  \/ \E width \in Widths : Ask(width)

Spec == Init /\ [][Next]_vars

-----------------------------------------------------------------------------
TypeOK ==
  /\ page \in PageStates
  /\ shown \in DisplayLists \cup {Unshown}
  /\ wanted \in Widths \cup {Absent}
  /\ asked \subseteq Widths
  /\ again \subseteq Widths

(* What a layout returns is the page's document at the width it was asked  *)
(* for, cached or not, whatever was cached before at that width or another *)
(* and whichever entries were dropped; and every entry of the cache is the *)
(* page's document at the width it is filed under (page.rs, `layout`).     *)
Fresh ==
  /\ CacheIsFresh(page)
  /\ wanted # Absent => shown = Rendering(page.html, wanted)

AtMostTwo(set) == \E a, b \in Widths : set \subseteq {a, b}

(* A page asked for two widths only, however often and in whatever order,  *)
(* is laid out once for each: the PDF and the screenshot do not thrash     *)
(* each other (page.rs: "One slot would make those two thrash").           *)
TwoOutputsShareTheCache == AtMostTwo(asked) => again = {}

(* The layouts kept are of the widths asked for last: replacing the oldest *)
(* entry never throws away the one just computed.                          *)
LastIsKept == wanted # Absent => Hits(page, wanted) # {}
=============================================================================
