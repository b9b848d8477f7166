------------------------- MODULE LayoutCacheProofs -------------------------
(***************************************************************************)
(* The layout cache of a page is never stale and never thrashes between    *)
(* two widths, for any set of documents and widths.                        *)
(***************************************************************************)
EXTENDS LayoutCache, PageStateProofs

(* The strengthening: besides being fresh and tight, the cache holds       *)
(* exactly the widths asked for as long as those are at most two, so a     *)
(* third one must have been asked before an entry is dropped.              *)
CachedIsAsked ==
  /\ WidthsOf(page) \subseteq asked
  /\ AtMostTwo(asked) => asked \subseteq WidthsOf(page)

IInv ==
  /\ TypeOK
  /\ Fresh
  /\ CacheIsTight(page)
  /\ CachedIsAsked
  /\ TwoOutputsShareTheCache
  /\ LastIsKept

LEMMA InitIInv == Init => IInv
<1>. SUFFICES ASSUME Init PROVE IInv
  OBVIOUS
<1>1. page \in PageStates
  BY ImplicitPageType DEF Init
<1>2. CacheIsFresh(page) /\ CacheIsTight(page)
  BY NewPageCache DEF Init, ImplicitPage
<1>3. asked = {} /\ again = {} /\ shown = Unshown /\ wanted = Absent
  BY DEF Init
<1>4. WidthsOf(page) = {}
  BY DEF Init, ImplicitPage, NewPage, WidthsOf
<1> QED
  BY <1>1, <1>2, <1>3, <1>4
  DEF IInv, TypeOK, Fresh, CachedIsAsked, TwoOutputsShareTheCache, LastIsKept

LEMMA ReplaceIInv ==
  ASSUME IInv, NEW html \in Documents, Replace(html)
  PROVE  IInv'
<1>1. /\ page' \in PageStates
      /\ CacheIsFresh(page') /\ CacheIsTight(page')
  BY SetHtmlType DEF IInv, TypeOK, Replace
<1>2. asked' = {} /\ again' = {} /\ shown' = Unshown /\ wanted' = Absent
  BY DEF Replace
<1>3. WidthsOf(page') = {}
  <2>1. page'.layouts = << >>
    BY DEF Replace, SetHtml, IInv, TypeOK, PageStates
  <2> QED
    BY <2>1 DEF WidthsOf
<1> QED
  BY <1>1, <1>2, <1>3
  DEF IInv, TypeOK, Fresh, CachedIsAsked, TwoOutputsShareTheCache, LastIsKept

(* A width that is laid out again is one that was dropped, so a third      *)
(* width was asked for in between.                                         *)
LEMMA AskIInv ==
  ASSUME IInv, NEW width \in Widths, Ask(width)
  PROVE  IInv'
<1>1. /\ page \in PageStates
      /\ CacheIsFresh(page) /\ CacheIsTight(page)
      /\ asked \subseteq Widths /\ again \subseteq asked \cup Widths
  BY DEF IInv, TypeOK, Fresh
<1>2. /\ page' = AfterLayout(page, width)
      /\ shown' = LayoutOf(page, width)
      /\ wanted' = width
      /\ asked' = asked \cup {width}
  BY DEF Ask
<1>3. /\ page' \in PageStates
      /\ page'.html = page.html
      /\ CacheIsFresh(page') /\ CacheIsTight(page')
      /\ Hits(page', width) # {}
  BY <1>1, <1>2, AfterLayoutPreserves
<1>4. shown' = Rendering(page.html, width)
  BY <1>1, <1>2, LayoutOfFreshCache
<1>5. /\ shown' \in DisplayLists
      /\ shown' = Rendering(page'.html, wanted')
  BY <1>1, <1>2, <1>3, <1>4, RenderingType DEF PageStates
<1>6. Hits(page, width) = {} <=> width \notin WidthsOf(page)
  BY DEF Hits, WidthsOf
<1>7. TypeOK'
  BY <1>1, <1>2, <1>3, <1>5 DEF Ask, TypeOK, IInv
<1>8. Fresh' /\ LastIsKept'
  BY <1>2, <1>3, <1>5 DEF Fresh, LastIsKept
<1>9. /\ WidthsOf(page') \subseteq WidthsOf(page) \cup {width}
      /\ \/ WidthsOf(page) \subseteq WidthsOf(page')
         \/ /\ width \notin WidthsOf(page)
            /\ \E a, b \in WidthsOf(page) : a # b
  BY <1>1, <1>2, AfterLayoutWidths
<1>10. width \in WidthsOf(page')
  BY <1>3 DEF Hits, WidthsOf
<1>11. AtMostTwo(asked') => AtMostTwo(asked)
  BY <1>2 DEF AtMostTwo
<1>12. WidthsOf(page) \subseteq asked
  BY DEF IInv, CachedIsAsked
<1>13. CachedIsAsked'
  <2>1. WidthsOf(page') \subseteq asked'
    BY <1>2, <1>9, <1>12
  <2>2. ASSUME AtMostTwo(asked')
        PROVE  asked' \subseteq WidthsOf(page')
    <3>1. asked \subseteq WidthsOf(page)
      BY <1>11, <2>2 DEF IInv, CachedIsAsked
    <3>2. WidthsOf(page) \subseteq WidthsOf(page')
      BY <1>2, <1>9, <1>12, <2>2 DEF AtMostTwo
    <3> QED
      BY <1>2, <1>10, <3>1, <3>2
  <2> QED
    BY <2>1, <2>2 DEF CachedIsAsked
<1>14. TwoOutputsShareTheCache'
  <2>1. SUFFICES ASSUME AtMostTwo(asked')
                 PROVE  again' = {}
    BY DEF TwoOutputsShareTheCache
  <2>2. again = {} /\ asked \subseteq WidthsOf(page)
    BY <1>11, <2>1 DEF IInv, TwoOutputsShareTheCache, CachedIsAsked
  <2> QED
    BY <1>6, <2>2 DEF Ask
<1> QED
  BY <1>3, <1>7, <1>8, <1>13, <1>14 DEF IInv

LEMMA NextIInv == IInv /\ [Next]_vars => IInv'
<1>1. ASSUME IInv, Next PROVE IInv'
  BY <1>1, ReplaceIInv, AskIInv DEF Next
<1>2. ASSUME IInv, UNCHANGED vars PROVE IInv'
  BY <1>2
  DEF vars, IInv, TypeOK, Fresh, CachedIsAsked, TwoOutputsShareTheCache, LastIsKept,
      AtMostTwo
<1> QED
  BY <1>1, <1>2

LEMMA SpecIInv == Spec => []IInv
  BY InitIInv, NextIInv, PTL DEF Spec

-----------------------------------------------------------------------------
(* The page and the history are well typed in every reachable state. *)
THEOREM LayoutCacheTypes == Spec => []TypeOK
<1>1. IInv => TypeOK
  BY DEF IInv
<1> QED
  BY <1>1, SpecIInv, PTL

(* For any documents and widths, `layout` returns the display list of the  *)
(* page's document at the very width it was asked for, whatever was asked, *)
(* replaced and dropped before.                                            *)
THEOREM LayoutIsNeverStale == Spec => []Fresh
<1>1. IInv => Fresh
  BY DEF IInv
<1> QED
  BY <1>1, SpecIInv, PTL

(* A page asked for two widths lays each out once (page.rs:16-19 of the    *)
(* cache's comment: "One slot would make those two thrash each other").    *)
THEOREM TwoOutputsDoNotThrash == Spec => []TwoOutputsShareTheCache
<1>1. IInv => TwoOutputsShareTheCache
  BY DEF IInv
<1> QED
  BY <1>1, SpecIInv, PTL

(* The layout just computed is still there for the next command. *)
THEOREM LastLayoutIsKept == Spec => []LastIsKept
<1>1. IInv => LastIsKept
  BY DEF IInv
<1> QED
  BY <1>1, SpecIInv, PTL
=============================================================================
