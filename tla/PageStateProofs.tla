-------------------------- MODULE PageStateProofs --------------------------
(***************************************************************************)
(* Lemmas about the operations on a page: what they preserve of its type   *)
(* and of its layout cache, and what a layout returns.                     *)
(***************************************************************************)
EXTENDS PageState, SequenceTheorems, TLAPS

LEMMA ImplicitPageType ==
  /\ ImplicitPage \in PageStates
  /\ \A t, f \in Nat : NewPage(t, f) \in PageStates
  BY PageConstants
  DEF ImplicitPage, NewPage, PageStates, Documents, Viewports,
      ImplicitTarget, ImplicitFrame

LEMMA NewPageCache ==
  ASSUME NEW t, NEW f
  PROVE  CacheIsFresh(NewPage(t, f)) /\ CacheIsTight(NewPage(t, f))
  BY DEF NewPage, CacheIsFresh, CacheIsTight, CachedWidths

LEMMA SetHtmlType ==
  ASSUME NEW page \in PageStates, NEW html \in Documents
  PROVE  /\ SetHtml(page, html) \in PageStates
         /\ CacheIsFresh(SetHtml(page, html))
         /\ CacheIsTight(SetHtml(page, html))
<1>1. << >> \in Seq(CacheEntries) /\ Len(<< >>) = 0 /\ DOMAIN << >> = {}
  BY EmptySeq
<1>2. /\ SetHtml(page, html) \in PageStates
      /\ SetHtml(page, html).layouts = << >>
  BY <1>1 DEF SetHtml, PageStates
<1> QED
  BY <1>1, <1>2 DEF CacheIsFresh, CacheIsTight, CachedWidths

LEMMA MetricsKeepCache ==
  ASSUME NEW page \in PageStates,
         NEW w \in Widths \cup {Absent}, NEW h \in Heights \cup {Absent},
         NEW d \in Scales \cup {Absent}
  PROVE  /\ SetDeviceMetrics(page, w, h, d) \in PageStates
         /\ SetDeviceMetrics(page, w, h, d).layouts = page.layouts
         /\ SetDeviceMetrics(page, w, h, d).html = page.html
         /\ SetDeviceMetrics(page, w, h, d).target_id = page.target_id
         /\ SetDeviceMetrics(page, w, h, d).frame_id = page.frame_id
         /\ SetDeviceMetrics(page, w, h, d).viewport.width \in Widths
         /\ ClearDeviceMetrics(page) \in PageStates
         /\ ClearDeviceMetrics(page).layouts = page.layouts
         /\ ClearDeviceMetrics(page).html = page.html
         /\ ClearDeviceMetrics(page).target_id = page.target_id
         /\ ClearDeviceMetrics(page).frame_id = page.frame_id
  BY PageConstants
  DEF SetDeviceMetrics, ClearDeviceMetrics, Override, PageStates, Viewports

-----------------------------------------------------------------------------
(* A search that hits finds an entry of the width asked for: in a tight    *)
(* cache there is one such entry, so it is also the first.                 *)
LEMMA FirstHitIsAHit ==
  ASSUME NEW page \in PageStates, NEW width, CacheIsTight(page),
         Hits(page, width) # {}
  PROVE  FirstHit(page, width) \in Hits(page, width)
<1>1. Hits(page, width) \subseteq Nat
  BY DEF Hits, PageStates
<1>2. \A i, j \in Hits(page, width) : i = j
  BY DEF Hits, CacheIsTight
<1>3. \E i \in Hits(page, width) : \A j \in Hits(page, width) : i <= j
  BY <1>1, <1>2
<1> QED
  BY <1>3 DEF FirstHit

(* A fresh cache answers with the layout of the current document at the    *)
(* width asked for.                                                        *)
LEMMA LayoutOfFreshCache ==
  ASSUME NEW page \in PageStates, NEW width \in Widths, CacheIsFresh(page),
         CacheIsTight(page)
  PROVE  LayoutOf(page, width) = Rendering(page.html, width)
<1>1. CASE Hits(page, width) = {}
  BY <1>1 DEF LayoutOf
<1>2. CASE Hits(page, width) # {}
  <2>1. FirstHit(page, width) \in Hits(page, width)
    BY <1>2, FirstHitIsAHit
  <2> QED
    BY <1>2, <2>1 DEF LayoutOf, Hits, CacheIsFresh
<1> QED
  BY <1>1, <1>2

LEMMA RenderingType ==
  ASSUME NEW html \in Documents, NEW width \in Widths
  PROVE  Rendering(html, width) \in DisplayLists
  BY DEF Rendering, DisplayLists

(* What the cache holds after a miss: an entry is the new one or one of    *)
(* those that were there, and their order is kept.                         *)
LEMMA RoomIsMade ==
  ASSUME NEW entries \in Seq(CacheEntries), Len(entries) <= CachedWidths
  PROVE  /\ MakeRoom(entries) \in Seq(CacheEntries)
         /\ Len(MakeRoom(entries)) < CachedWidths
         /\ \A i \in DOMAIN MakeRoom(entries) :
               \/ MakeRoom(entries)[i] = entries[i] /\ Len(entries) < CachedWidths
               \/ MakeRoom(entries)[i] = entries[i + 1] /\ Len(entries) = CachedWidths
<1>1. CASE Len(entries) = CachedWidths
  <2>1. /\ Tail(entries) \in Seq(CacheEntries)
        /\ Len(Tail(entries)) = Len(entries) - 1
        /\ \A i \in 1 .. Len(Tail(entries)) : Tail(entries)[i] = entries[i + 1]
    BY <1>1, HeadTailProperties DEF CachedWidths
  <2> QED
    BY <1>1, <2>1 DEF MakeRoom, CachedWidths
<1>2. CASE Len(entries) # CachedWidths
  BY <1>2 DEF MakeRoom, CachedWidths
<1> QED
  BY <1>1, <1>2

(* Laying out keeps the page a page and touches nothing of it but the      *)
(* cache, which stays fresh and tight and holds the width asked for.       *)
LEMMA AfterLayoutPreserves ==
  ASSUME NEW page \in PageStates, NEW width \in Widths,
         CacheIsFresh(page), CacheIsTight(page)
  PROVE  /\ AfterLayout(page, width) \in PageStates
         /\ AfterLayout(page, width).html = page.html
         /\ AfterLayout(page, width).viewport = page.viewport
         /\ AfterLayout(page, width).target_id = page.target_id
         /\ AfterLayout(page, width).frame_id = page.frame_id
         /\ CacheIsFresh(AfterLayout(page, width))
         /\ CacheIsTight(AfterLayout(page, width))
         /\ Hits(AfterLayout(page, width), width) # {}
<1>1. CASE Hits(page, width) # {}
  BY <1>1 DEF AfterLayout
<1>2. CASE Hits(page, width) = {}
  <2> DEFINE room == MakeRoom(page.layouts)
             entry == [width |-> width, list |-> Rendering(page.html, width)]
             new == Append(room, entry)
  <2>1. page.layouts \in Seq(CacheEntries) /\ page.html \in Documents
    BY DEF PageStates
  <2>2. entry \in CacheEntries
    BY <2>1, RenderingType DEF CacheEntries
  <2>3. /\ room \in Seq(CacheEntries)
        /\ Len(room) < CachedWidths
        /\ \A i \in DOMAIN room : 
              \/ room[i] = page.layouts[i] /\ Len(page.layouts) < CachedWidths
              \/ room[i] = page.layouts[i + 1] /\ Len(page.layouts) = CachedWidths
    BY <2>1, RoomIsMade DEF CacheIsTight
  <2>. HIDE DEF room, entry
  <2>4. /\ new \in Seq(CacheEntries)
        /\ Len(new) = Len(room) + 1
        /\ new[Len(new)] = entry
        /\ \A i \in 1 .. Len(room) : new[i] = room[i]
    BY <2>2, <2>3, AppendProperties
  <2>5. AfterLayout(page, width) = [page EXCEPT !.layouts = new]
    BY <1>2 DEF AfterLayout, room, entry
  <2>6. Len(room) \in Nat /\ DOMAIN room = 1 .. Len(room) /\ DOMAIN new = 1 .. Len(room) + 1
    BY <2>3, <2>4
  <2>. HIDE DEF new
  <2>7. /\ AfterLayout(page, width) \in PageStates
        /\ AfterLayout(page, width).layouts = new
        /\ AfterLayout(page, width).html = page.html
        /\ AfterLayout(page, width).viewport = page.viewport
        /\ AfterLayout(page, width).target_id = page.target_id
        /\ AfterLayout(page, width).frame_id = page.frame_id
    BY <2>4, <2>5 DEF PageStates
  <2>8. ASSUME NEW i \in DOMAIN room
        PROVE  \E j \in DOMAIN page.layouts : new[i] = page.layouts[j]
    <3>1. /\ Len(page.layouts) \in Nat
          /\ DOMAIN page.layouts = 1 .. Len(page.layouts)
      BY <2>1, LenProperties
    <3>2. new[i] = room[i] /\ i \in Nat /\ 1 <= i /\ i <= Len(room)
      BY <2>4, <2>6
    <3>3. CASE Len(page.layouts) = CachedWidths
      <4>1. room[i] = page.layouts[i + 1]
        BY <2>3, <3>3
      <4>2. i + 1 \in DOMAIN page.layouts
        BY <2>3, <2>6, <3>1, <3>2, <3>3 DEF CachedWidths
      <4> QED
        BY <3>2, <4>1, <4>2
    <3>4. CASE Len(page.layouts) # CachedWidths
      <4>1. room = page.layouts
        BY <3>4 DEF room, MakeRoom
      <4> QED
        BY <3>2, <4>1
    <3> QED
      BY <3>3, <3>4
  <2>9. entry.width = width /\ entry.list = Rendering(page.html, width)
    BY DEF entry
  <2>10. CacheIsFresh(AfterLayout(page, width))
    BY <2>4, <2>6, <2>7, <2>8, <2>9 DEF CacheIsFresh
  <2>11. \A j \in DOMAIN page.layouts : page.layouts[j].width # width
    BY <1>2 DEF Hits
  <2>12. CacheIsTight(AfterLayout(page, width))
    <3>1. Len(new) <= CachedWidths
      BY <2>3, <2>4, <2>6 DEF CachedWidths
    <3>2. ASSUME NEW i \in DOMAIN room, NEW j \in DOMAIN room,
                 new[i].width = new[j].width
          PROVE  i = j
      <4>1. Len(room) <= 1
        BY <2>3, <2>6 DEF CachedWidths
      <4> QED
        BY <4>1, <2>6
    <3>3. ASSUME NEW i \in DOMAIN room
          PROVE  new[i].width # width
      BY <2>8, <2>11
    <3> QED
      BY <3>1, <3>2, <3>3, <2>4, <2>6, <2>7, <2>9 DEF CacheIsTight
  <2>13. Hits(AfterLayout(page, width), width) # {}
    BY <2>4, <2>6, <2>7, <2>9 DEF Hits
  <2> QED
    BY <2>7, <2>10, <2>12, <2>13
<1> QED
  BY <1>1, <1>2

-----------------------------------------------------------------------------
WidthsOf(page) == {page.layouts[i].width : i \in DOMAIN page.layouts}

(* Which widths a layout leaves in the cache: none but the old ones and    *)
(* the one asked for, and all of them unless the cache was full of two     *)
(* other widths.                                                           *)
LEMMA AfterLayoutWidths ==
  ASSUME NEW page \in PageStates, NEW width \in Widths, CacheIsTight(page)
  PROVE  /\ WidthsOf(AfterLayout(page, width)) \subseteq WidthsOf(page) \cup {width}
         /\ \/ WidthsOf(page) \subseteq WidthsOf(AfterLayout(page, width))
            \/ /\ width \notin WidthsOf(page)
               /\ \E a, b \in WidthsOf(page) : a # b
<1>1. CASE Hits(page, width) # {}
  BY <1>1 DEF AfterLayout
<1>2. CASE Hits(page, width) = {}
  <2> DEFINE entry == [width |-> width, list |-> Rendering(page.html, width)]
             room == MakeRoom(page.layouts)
             new == Append(room, entry)
  <2>1. page.layouts \in Seq(CacheEntries) /\ page.html \in Documents
    BY DEF PageStates
  <2>2. /\ Len(page.layouts) \in Nat
        /\ DOMAIN page.layouts = 1 .. Len(page.layouts)
    BY <2>1, LenProperties
  <2>3. entry \in CacheEntries /\ entry.width = width
    BY <2>1, RenderingType DEF CacheEntries
  <2>4. room \in Seq(CacheEntries)
    BY <2>1, RoomIsMade DEF CacheIsTight
  <2>. HIDE DEF entry, room
  <2>5. /\ DOMAIN room = 1 .. Len(room) /\ Len(room) \in Nat
        /\ DOMAIN new = 1 .. Len(room) + 1
        /\ new[Len(room) + 1] = entry
        /\ \A i \in 1 .. Len(room) : new[i] = room[i]
    <3>1. /\ new \in Seq(CacheEntries)
          /\ Len(new) = Len(room) + 1
          /\ new[Len(new)] = entry
          /\ \A i \in 1 .. Len(room) : new[i] = room[i]
      BY <2>3, <2>4, AppendProperties
    <3>2. /\ Len(room) \in Nat /\ DOMAIN room = 1 .. Len(room)
          /\ DOMAIN new = 1 .. Len(new)
      BY <2>4, <3>1, LenProperties
    <3> QED
      BY <3>1, <3>2
  <2>6. AfterLayout(page, width).layouts = new
    BY <1>2, <2>1 DEF AfterLayout, PageStates, room, entry
  <2>. HIDE DEF new
  <2>7. width \notin WidthsOf(page)
    BY <1>2 DEF Hits, WidthsOf
  <2>8. CASE Len(page.layouts) = CachedWidths
    <3>1. 1 \in DOMAIN page.layouts /\ 2 \in DOMAIN page.layouts
      BY <2>2, <2>8 DEF CachedWidths
    <3>2. page.layouts[1].width # page.layouts[2].width
      BY <3>1 DEF CacheIsTight
    <3>3. \A i \in DOMAIN room : \E j \in DOMAIN page.layouts : room[i] = page.layouts[j]
      <4>1. /\ \A i \in DOMAIN room : room[i] = page.layouts[i + 1]
            /\ Len(room) < CachedWidths
        BY <2>1, <2>8, RoomIsMade DEF CacheIsTight, room
      <4> QED
        BY <2>2, <2>5, <2>8, <4>1 DEF CachedWidths
    <3>4. WidthsOf(AfterLayout(page, width)) \subseteq WidthsOf(page) \cup {width}
      BY <2>3, <2>5, <2>6, <3>3 DEF WidthsOf
    <3> QED
      BY <2>7, <3>1, <3>2, <3>4 DEF WidthsOf
  <2>9. CASE Len(page.layouts) # CachedWidths
    <3>1. room = page.layouts
      BY <2>9 DEF room, MakeRoom
    <3>2. \A i \in DOMAIN page.layouts : i \in DOMAIN new /\ new[i] = page.layouts[i]
      BY <2>2, <2>5, <3>1
    <3>3. WidthsOf(page) \subseteq WidthsOf(AfterLayout(page, width))
      BY <2>6, <3>2 DEF WidthsOf
    <3>4. WidthsOf(AfterLayout(page, width)) \subseteq WidthsOf(page) \cup {width}
      BY <2>3, <2>5, <2>6, <3>1 DEF WidthsOf
    <3> QED
      BY <3>3, <3>4
  <2> QED
    BY <2>8, <2>9
<1> QED
  BY <1>1, <1>2
=============================================================================
