--------------------------- MODULE SessionProofs ---------------------------
(***************************************************************************)
(* The pages of a CDP session: their types, their caches, their identities *)
(* and what the client is told of them, for every set of documents and     *)
(* widths and every bound on targets, contexts and streams; and the        *)
(* session's refinement of the browser that caches nothing.                *)
(***************************************************************************)
EXTENDS Session, PageStateProofs

(* What is always true of the page stored under a session key. *)
GoodPage(k, p) ==
  /\ p \in PageStates
  /\ CacheIsFresh(p)
  /\ CacheIsTight(p)
  /\ \/ p.target_id = ImplicitTarget /\ p.frame_id = ImplicitFrame
     \/ p.target_id = k /\ p.frame_id = k /\ k \in 1 .. page_counter

(* The inductive invariant: the pages are good and the counter that names  *)
(* them is within its bound.  Freshness needs the pages to be typed and    *)
(* tight, because a lookup answers with the entry it finds first.          *)
PageInv ==
  /\ page_counter \in 0 .. MaxTargets
  /\ DOMAIN pages \subseteq Sessions
  /\ \A k \in DOMAIN pages : GoodPage(k, pages[k])

(* The three things a command may do to the pages. *)
Puts(k, p) == pages' = Put(k, p)
Removes(k) == pages' = Remove(k)

-----------------------------------------------------------------------------
(* Looking a page up and storing it back. *)

LEMMA SessionsAreNaturals == Sessions \subseteq Nat
  BY SessionConstants DEF Sessions

LEMMA PageOfIsGood ==
  ASSUME PageInv, NEW s \in Sessions
  PROVE  GoodPage(s, PageOf(s))
<1>1. CASE s \in DOMAIN pages
  BY <1>1 DEF PageInv, PageOf
<1>2. CASE s \notin DOMAIN pages
  <2>1. GoodPage(s, ImplicitPage)
    <3>1. ImplicitPage \in PageStates
      BY ImplicitPageType
    <3>2. CacheIsFresh(ImplicitPage) /\ CacheIsTight(ImplicitPage)
      BY NewPageCache DEF ImplicitPage
    <3>3. /\ ImplicitPage.target_id = ImplicitTarget
          /\ ImplicitPage.frame_id = ImplicitFrame
      BY DEF ImplicitPage, NewPage
    <3> QED
      BY <3>1, <3>2, <3>3 DEF GoodPage
  <2> QED
    BY <1>2, <2>1 DEF PageOf
<1> QED
  BY <1>1, <1>2

LEMMA PutView ==
  ASSUME NEW k \in Sessions, NEW p, Puts(k, p)
  PROVE  /\ DOMAIN pages' = DOMAIN pages \cup {k}
         /\ pages'[k] = p
         /\ \A x \in DOMAIN pages : x # k => pages'[x] = pages[x]
         /\ PageOf(k)' = p
         /\ \A x \in Sessions : x # k => PageOf(x)' = PageOf(x)
  BY DEF Puts, Put, PageOf

LEMMA RemoveView ==
  ASSUME NEW k \in DOMAIN pages, Removes(k)
  PROVE  /\ DOMAIN pages' = DOMAIN pages \ {k}
         /\ \A x \in DOMAIN pages : x # k => pages'[x] = pages[x]
         /\ PageOf(k)' = ImplicitPage
         /\ \A x \in Sessions : x # k => PageOf(x)' = PageOf(x)
  BY DEF Removes, Remove, PageOf, ImplicitPage, NewPage

LEMMA PutKeepsPageInv ==
  ASSUME PageInv, NEW k \in Sessions, NEW p, Puts(k, p), GoodPage(k, p)',
         page_counter' \in page_counter .. MaxTargets
  PROVE  PageInv'
<1>1. /\ DOMAIN pages' = DOMAIN pages \cup {k}
      /\ pages'[k] = p
      /\ \A x \in DOMAIN pages : x # k => pages'[x] = pages[x]
  BY PutView
<1>2. ASSUME NEW x \in DOMAIN pages, x # k
      PROVE  GoodPage(x, pages[x])'
  BY <1>1, <1>2, SessionConstants DEF PageInv, GoodPage
<1> QED
  BY <1>1, <1>2, SessionConstants DEF PageInv

LEMMA RemoveKeepsPageInv ==
  ASSUME PageInv, NEW k \in DOMAIN pages, Removes(k), UNCHANGED page_counter
  PROVE  PageInv'
  BY RemoveView DEF PageInv, GoodPage

-----------------------------------------------------------------------------
(* Every command does one of six things to the pages. *)

Keeps == UNCHANGED <<pages, page_counter>> /\ drawn' = NoDrawing

Opens(n) ==
  /\ n = page_counter + 1 /\ n \in 1 .. MaxTargets
  /\ page_counter' = n
  /\ Puts(n, NewPage(n, n))
  /\ drawn' = NoDrawing

Closes(k) ==
  /\ k \in DOMAIN pages
  /\ Removes(k)
  /\ UNCHANGED page_counter
  /\ drawn' = NoDrawing

Rewrites(s, html) ==
  /\ Puts(s, SetHtml(PageOf(s), html))
  /\ UNCHANGED page_counter
  /\ drawn' = NoDrawing

Renders(s, medium, width) ==
  /\ medium = "window" => width = PageOf(s).viewport.width
  /\ Puts(s, AfterLayout(PageOf(s), width))
  /\ UNCHANGED page_counter
  /\ drawn' = [page |-> s, medium |-> medium, asked |-> width,
               list |-> LayoutOf(PageOf(s), width)]

Resizes(s, p) ==
  /\ \/ \E width \in Widths \cup {Absent}, height \in Heights \cup {Absent},
           scale \in Scales \cup {Absent} :
          p = SetDeviceMetrics(PageOf(s), width, height, scale)
     \/ p = ClearDeviceMetrics(PageOf(s))
  /\ Puts(s, p)
  /\ UNCHANGED page_counter
  /\ drawn' = NoDrawing

Effect ==
  \/ Keeps
  \/ \E n \in Sessions : Opens(n)
  \/ \E k \in DOMAIN pages : Closes(k)
  \/ \E s \in Sessions, html \in Documents : Rewrites(s, html)
  \/ \E s \in Sessions, medium \in {"sheet", "window"}, width \in Widths :
       Renders(s, medium, width)
  \/ \E s \in Sessions, p \in PageStates : Resizes(s, p)

LEMMA TargetEffect ==
  ASSUME PageInv, NEW s \in Sessions, TargetCommand(s)
  PROVE  Effect
<1>1. CASE CreateTarget(s)
  <2>1. Opens(page_counter + 1)
    BY <1>1, SessionConstants DEF CreateTarget, Opens, Puts, PageInv
  <2>2. page_counter + 1 \in Sessions
    BY <1>1, SessionConstants DEF CreateTarget, Sessions, PageInv
  <2> QED
    BY <2>1, <2>2 DEF Effect
<1>2. CASE GetTargetInfo(s)
  BY <1>2 DEF GetTargetInfo, Effect, Keeps, counters
<1>3. ASSUME NEW arg \in TargetArgs, AttachToTarget(s, arg)
      PROVE  Effect
  BY <1>3 DEF AttachToTarget, AttachTo, Effect, Keeps, counters
<1>4. ASSUME NEW arg \in TargetArgs, CloseTarget(s, arg)
      PROVE  Effect
  <2> DEFINE target == IF arg = NoTarget THEN PageOf(s).target_id ELSE arg
  <2>1. /\ drawn' = NoDrawing /\ UNCHANGED page_counter
        /\ UNCHANGED pages \/ \E k \in SessionsOf(target) : pages' = Remove(k)
    BY <1>4 DEF CloseTarget, counters
  <2>2. SessionsOf(target) \subseteq DOMAIN pages
    BY DEF SessionsOf
  <2> QED
    BY <2>1, <2>2 DEF Effect, Keeps, Closes, Removes
<1> QED
  BY <1>1, <1>2, <1>3, <1>4 DEF TargetCommand

LEMMA PageEffect ==
  ASSUME PageInv, NEW s \in Sessions, PageCommand(s)
  PROVE  Effect
<1>1. ASSUME NEW html \in Documents, SetDocumentContent(s, html)
      PROVE  Effect
  BY <1>1 DEF SetDocumentContent, Update, Effect, Rewrites, Puts, counters
<1>2. CASE GetFrameTree(s) \/ NewContext(s) \/ Accept(s)
  BY <1>2 DEF GetFrameTree, NewContext, Accept, Effect, Keeps, counters
<1> QED
  BY <1>1, <1>2 DEF PageCommand

LEMMA PrintEffect ==
  ASSUME PageInv, NEW s \in Sessions, PrintCommand(s)
  PROVE  Effect
<1>1. ASSUME NEW width \in Widths, PrintToStream(s, width) \/ PrintInline(s, width)
      PROVE  Effect
  <2>1. Renders(s, "sheet", width)
    BY <1>1 DEF PrintToStream, PrintInline, Draw, Update, Renders, Puts, counters
  <2> QED
    BY <2>1 DEF Effect
<1>2. ASSUME NEW h \in Store!Handles, IORead(s, h) \/ IOClose(s, h)
      PROVE  Effect
  BY <1>2 DEF IORead, IOClose, Effect, Keeps, counters
<1> QED
  BY <1>1, <1>2 DEF PrintCommand

LEMMA ScreenEffect ==
  ASSUME PageInv, NEW s \in Sessions, ScreenCommand(s)
  PROVE  Effect
<1>1. PageOf(s) \in PageStates /\ PageOf(s).viewport.width \in Widths
  BY PageOfIsGood DEF GoodPage, PageStates, Viewports
<1>2. CASE GetLayoutMetrics(s) \/ CaptureScreenshot(s)
  <2>1. Renders(s, "window", PageOf(s).viewport.width)
    BY <1>2 DEF GetLayoutMetrics, CaptureScreenshot, Draw, Update, Renders, Puts, counters
  <2> QED
    BY <1>1, <2>1 DEF Effect
<1>3. CASE CaptureUnsupported(s)
  BY <1>3 DEF CaptureUnsupported, Effect, Keeps, counters
<1>4. ASSUME NEW width \in Widths \cup {Absent}, NEW height \in Heights \cup {Absent},
             NEW scale \in Scales \cup {Absent},
             SetDeviceMetricsOverride(s, width, height, scale)
      PROVE  Effect
  <2>1. PICK p : p = SetDeviceMetrics(PageOf(s), width, height, scale)
    OBVIOUS
  <2>2. p \in PageStates
    BY <1>1, <2>1, MetricsKeepCache
  <2>3. Resizes(s, p)
    BY <1>4, <2>1 DEF SetDeviceMetricsOverride, Update, Resizes, Puts, counters
  <2> QED
    BY <2>2, <2>3 DEF Effect
<1>5. CASE ClearDeviceMetricsOverride(s)
  <2>1. PICK p : p = ClearDeviceMetrics(PageOf(s))
    OBVIOUS
  <2>2. p \in PageStates
    BY <1>1, <2>1, MetricsKeepCache
  <2>3. Resizes(s, p)
    BY <1>5, <2>1 DEF ClearDeviceMetricsOverride, Update, Resizes, Puts, counters
  <2> QED
    BY <2>2, <2>3 DEF Effect
<1> QED
  BY <1>2, <1>3, <1>4, <1>5 DEF ScreenCommand

LEMMA NextEffect == PageInv /\ Next => Effect
<1>1. ASSUME IgnoreUnparsed PROVE Effect
  BY <1>1 DEF IgnoreUnparsed, Effect, Keeps, counters
<1> QED
  BY <1>1, TargetEffect, PageEffect, PrintEffect, ScreenEffect DEF Next

-----------------------------------------------------------------------------
(* PageInv is inductive. *)

LEMMA OpensKeepsPageInv ==
  ASSUME PageInv, NEW n \in Sessions, Opens(n)
  PROVE  PageInv'
<1>1. PICK p : p = NewPage(n, n)
  OBVIOUS
<1>2. p \in PageStates /\ CacheIsFresh(p) /\ CacheIsTight(p)
  BY <1>1, ImplicitPageType, NewPageCache, SessionsAreNaturals
<1>3. p.target_id = n /\ p.frame_id = n
  BY <1>1 DEF NewPage
<1>4. n \in 1 .. page_counter' /\ page_counter' \in page_counter .. MaxTargets
  BY SessionConstants DEF Opens, PageInv
<1>5. GoodPage(n, p)'
  BY <1>2, <1>3, <1>4 DEF GoodPage
<1>6. Puts(n, p)
  BY <1>1 DEF Opens
<1> QED
  BY <1>4, <1>5, <1>6, PutKeepsPageInv

LEMMA RewritesKeepsPageInv ==
  ASSUME PageInv, NEW s \in Sessions, NEW html \in Documents, Rewrites(s, html)
  PROVE  PageInv'
<1>1. PICK q : q = PageOf(s)
  OBVIOUS
<1>2. PICK p : p = SetHtml(q, html)
  OBVIOUS
<1>3. GoodPage(s, q)
  BY <1>1, PageOfIsGood
<1>4. p \in PageStates /\ CacheIsFresh(p) /\ CacheIsTight(p)
  BY <1>2, <1>3, SetHtmlType DEF GoodPage
<1>5. p.target_id = q.target_id /\ p.frame_id = q.frame_id
  BY <1>2, <1>3 DEF SetHtml, GoodPage, PageStates
<1>6. UNCHANGED page_counter /\ Puts(s, p)
  BY <1>1, <1>2 DEF Rewrites
<1>7. GoodPage(s, p)'
  BY <1>3, <1>4, <1>5, <1>6 DEF GoodPage
<1>8. page_counter' \in page_counter .. MaxTargets
  BY <1>6, SessionConstants DEF PageInv
<1> QED
  BY <1>6, <1>7, <1>8, PutKeepsPageInv

LEMMA RendersKeepsPageInv ==
  ASSUME PageInv, NEW s \in Sessions, NEW medium, NEW width \in Widths,
         Renders(s, medium, width)
  PROVE  PageInv'
<1>1. PICK q : q = PageOf(s)
  OBVIOUS
<1>2. PICK p : p = AfterLayout(q, width)
  OBVIOUS
<1>3. GoodPage(s, q)
  BY <1>1, PageOfIsGood
<1>4. /\ p \in PageStates /\ CacheIsFresh(p) /\ CacheIsTight(p)
      /\ p.target_id = q.target_id /\ p.frame_id = q.frame_id
  BY <1>2, <1>3, AfterLayoutPreserves DEF GoodPage
<1>5. UNCHANGED page_counter /\ Puts(s, p)
  BY <1>1, <1>2 DEF Renders
<1>6. GoodPage(s, p)'
  BY <1>3, <1>4, <1>5 DEF GoodPage
<1>7. page_counter' \in page_counter .. MaxTargets
  BY <1>5, SessionConstants DEF PageInv
<1> QED
  BY <1>5, <1>6, <1>7, PutKeepsPageInv

(* What a change of the device metrics leaves of a page. *)
LEMMA ResizedPage ==
  ASSUME PageInv, NEW s \in Sessions, NEW p \in PageStates, Resizes(s, p)
  PROVE  /\ p.layouts = PageOf(s).layouts
         /\ p.html = PageOf(s).html
         /\ p.target_id = PageOf(s).target_id
         /\ p.frame_id = PageOf(s).frame_id
<1>1. PICK q : q = PageOf(s)
  OBVIOUS
<1>2. q \in PageStates
  BY <1>1, PageOfIsGood DEF GoodPage
<1>3. ASSUME NEW width \in Widths \cup {Absent}, NEW height \in Heights \cup {Absent},
             NEW scale \in Scales \cup {Absent},
             p = SetDeviceMetrics(q, width, height, scale)
      PROVE  /\ p.layouts = q.layouts /\ p.html = q.html
             /\ p.target_id = q.target_id /\ p.frame_id = q.frame_id
  BY <1>2, <1>3, MetricsKeepCache
<1>4. ASSUME p = ClearDeviceMetrics(q)
      PROVE  /\ p.layouts = q.layouts /\ p.html = q.html
             /\ p.target_id = q.target_id /\ p.frame_id = q.frame_id
  BY <1>2, <1>4 DEF ClearDeviceMetrics, PageStates
<1> QED
  BY <1>1, <1>3, <1>4 DEF Resizes

LEMMA ResizesKeepsPageInv ==
  ASSUME PageInv, NEW s \in Sessions, NEW p \in PageStates, Resizes(s, p)
  PROVE  PageInv'
<1>1. PICK q : q = PageOf(s)
  OBVIOUS
<1>2. GoodPage(s, q)
  BY <1>1, PageOfIsGood
<1>3. /\ p.layouts = q.layouts /\ p.html = q.html
      /\ p.target_id = q.target_id /\ p.frame_id = q.frame_id
  BY <1>1, ResizedPage
<1>4. UNCHANGED page_counter /\ Puts(s, p)
  BY DEF Resizes
<1>5. CacheIsFresh(p) /\ CacheIsTight(p)
  BY <1>2, <1>3 DEF GoodPage, CacheIsFresh, CacheIsTight
<1>6. GoodPage(s, p)'
  BY <1>2, <1>3, <1>4, <1>5 DEF GoodPage
<1>7. page_counter' \in page_counter .. MaxTargets
  BY <1>4, SessionConstants DEF PageInv
<1> QED
  BY <1>4, <1>6, <1>7, PutKeepsPageInv

LEMMA EffectKeepsPageInv == PageInv /\ Effect => PageInv'
<1>. SUFFICES ASSUME PageInv, Effect PROVE PageInv'
  OBVIOUS
<1>1. CASE Keeps
  BY <1>1 DEF Keeps, PageInv, GoodPage
<1>2. ASSUME NEW n \in Sessions, Opens(n) PROVE PageInv'
  BY <1>2, OpensKeepsPageInv
<1>3. ASSUME NEW k \in DOMAIN pages, Closes(k) PROVE PageInv'
  BY <1>3, RemoveKeepsPageInv DEF Closes
<1>4. ASSUME NEW s \in Sessions, NEW html \in Documents, Rewrites(s, html)
      PROVE  PageInv'
  BY <1>4, RewritesKeepsPageInv
<1>5. ASSUME NEW s \in Sessions, NEW medium \in {"sheet", "window"},
             NEW width \in Widths, Renders(s, medium, width)
      PROVE  PageInv'
  BY <1>5, RendersKeepsPageInv
<1>6. ASSUME NEW s \in Sessions, NEW p \in PageStates, Resizes(s, p)
      PROVE  PageInv'
  BY <1>6, ResizesKeepsPageInv
<1> QED
  BY <1>1, <1>2, <1>3, <1>4, <1>5, <1>6 DEF Effect

LEMMA InitPageInv == Init => PageInv
  BY SessionConstants DEF Init, PageInv

LEMMA SpecPageInv == Spec => []PageInv
<1>1. PageInv /\ Next => PageInv'
  BY NextEffect, EffectKeepsPageInv
<1>2. PageInv /\ UNCHANGED vars => PageInv'
  BY DEF vars, counters, PageInv, GoodPage
<1> QED
  BY <1>1, <1>2, InitPageInv, PTL DEF Spec

-----------------------------------------------------------------------------
(* No page of a session ever holds a display list of a document it no      *)
(* longer has.                                                             *)
THEOREM SessionCachesAreFresh == Spec => []CachesAreFresh
<1>1. PageInv => CachesAreFresh
  BY DEF PageInv, GoodPage, CachesAreFresh
<1> QED
  BY <1>1, SpecPageInv, PTL

(* The two slots of a page's cache are never exceeded nor wasted. *)
THEOREM SessionCachesAreTight == Spec => []CachesAreTight
<1>1. PageInv => CachesAreTight
  BY DEF PageInv, GoodPage, CachesAreTight
<1> QED
  BY <1>1, SpecPageInv, PTL

(* A created page lives under the session of its own number only. *)
THEOREM SessionPagesAreApart == Spec => []CreatedPagesAreApart
<1>1. PageInv => CreatedPagesAreApart
  BY DEF PageInv, GoodPage, CreatedPagesAreApart
<1> QED
  BY <1>1, SpecPageInv, PTL

(* The targets open are the created pages, each under its own key. *)
CreatedPages == {t \in DOMAIN pages : pages[t].target_id = t /\ t # 0}

LEMMA OpenTargetsAreCreated == PageInv => OpenTargets = CreatedPages
<1>. SUFFICES ASSUME PageInv PROVE OpenTargets = CreatedPages
  OBVIOUS
<1>1. ASSUME NEW t \in OpenTargets
      PROVE  t \in DOMAIN pages /\ pages[t].target_id = t /\ t # 0
  <2>1. PICK k \in DOMAIN pages : pages[k].target_id = t
    BY DEF OpenTargets, SessionsOf
  <2>2. t # ImplicitTarget /\ t # 0
    BY SessionConstants DEF OpenTargets, ImplicitTarget
  <2> QED
    BY <2>1, <2>2 DEF PageInv, GoodPage
<1>2. ASSUME NEW t \in DOMAIN pages, pages[t].target_id = t, t # 0
      PROVE  t \in OpenTargets
  BY <1>2, SessionConstants DEF PageInv, Sessions, OpenTargets, SessionsOf
<1> QED
  BY <1>1, <1>2 DEF CreatedPages

(* What a command does to the targets that are open. *)
LEMMA EffectOnTargets ==
  ASSUME PageInv, Effect
  PROVE  \/ \E n \in Sessions :
              Opens(n) /\ n \notin OpenTargets /\ OpenTargets' = OpenTargets \cup {n}
         \/ \E k \in DOMAIN pages :
              Closes(k) /\ OpenTargets' = OpenTargets \ {k}
         \/ /\ OpenTargets' = OpenTargets
            /\ DOMAIN pages \subseteq DOMAIN pages'
            /\ UNCHANGED page_counter
<1>1. PageInv'
  BY EffectKeepsPageInv
<1>2. OpenTargets = {t \in DOMAIN pages : pages[t].target_id = t /\ t # 0}
  BY OpenTargetsAreCreated DEF CreatedPages
<1>3. OpenTargets' = {t \in DOMAIN pages' : pages'[t].target_id = t /\ t # 0}
  <2>1. (OpenTargets = CreatedPages)'
    BY <1>1, OpenTargetsAreCreated, PTL
  <2> QED
    BY <2>1 DEF CreatedPages
<1>4. CASE Keeps
  BY <1>2, <1>3, <1>4 DEF Keeps
<1>5. ASSUME NEW n \in Sessions, Opens(n)
      PROVE  n \notin OpenTargets /\ OpenTargets' = OpenTargets \cup {n}
  <2>1. /\ DOMAIN pages' = DOMAIN pages \cup {n}
        /\ pages'[n] = NewPage(n, n)
        /\ \A x \in DOMAIN pages : x # n => pages'[x] = pages[x]
    BY <1>5, PutView DEF Opens
  <2>2. pages'[n].target_id = n /\ n # 0
    BY <1>5, <2>1, SessionConstants DEF Opens, NewPage
  <2>3. n \notin 1 .. page_counter
    BY <1>5, SessionConstants DEF Opens, PageInv
  <2>4. n \notin OpenTargets
    BY <1>2, <2>2, <2>3 DEF PageInv, GoodPage, ImplicitTarget
  <2> QED
    BY <1>2, <1>3, <2>1, <2>2, <2>4
<1>6. ASSUME NEW k \in DOMAIN pages, Closes(k)
      PROVE  OpenTargets' = OpenTargets \ {k}
  <2>1. /\ DOMAIN pages' = DOMAIN pages \ {k}
        /\ \A x \in DOMAIN pages : x # k => pages'[x] = pages[x]
    BY <1>6, RemoveView DEF Closes
  <2> QED
    BY <1>2, <1>3, <2>1
<1>7. ASSUME NEW s \in Sessions, NEW p, Puts(s, p), p.target_id = PageOf(s).target_id
      PROVE  OpenTargets' = OpenTargets /\ DOMAIN pages \subseteq DOMAIN pages'
  <2>1. /\ DOMAIN pages' = DOMAIN pages \cup {s}
        /\ pages'[s] = p
        /\ \A x \in DOMAIN pages : x # s => pages'[x] = pages[x]
    BY <1>7, PutView
  <2>2. s \notin DOMAIN pages => p.target_id = 0
    BY <1>7 DEF PageOf, ImplicitPage, NewPage, ImplicitTarget
  <2>3. s \in DOMAIN pages => p.target_id = pages[s].target_id
    BY <1>7 DEF PageOf
  <2> QED
    BY <1>2, <1>3, <2>1, <2>2, <2>3
<1>8. ASSUME NEW s \in Sessions, NEW html \in Documents, Rewrites(s, html)
      PROVE  OpenTargets' = OpenTargets /\ DOMAIN pages \subseteq DOMAIN pages'
  <2>1. PICK p : p = SetHtml(PageOf(s), html)
    OBVIOUS
  <2>2. p.target_id = PageOf(s).target_id
    BY <2>1, PageOfIsGood DEF SetHtml, GoodPage, PageStates
  <2> QED
    BY <1>7, <1>8, <2>1, <2>2 DEF Rewrites
<1>9. ASSUME NEW s \in Sessions, NEW medium \in {"sheet", "window"},
             NEW width \in Widths, Renders(s, medium, width)
      PROVE  OpenTargets' = OpenTargets /\ DOMAIN pages \subseteq DOMAIN pages'
  <2>1. PICK q : q = PageOf(s)
    OBVIOUS
  <2>2. PICK p : p = AfterLayout(q, width)
    OBVIOUS
  <2>3. p.target_id = q.target_id
    BY <2>1, <2>2, PageOfIsGood, AfterLayoutPreserves DEF GoodPage
  <2> QED
    BY <1>7, <1>9, <2>1, <2>2, <2>3 DEF Renders
<1>10. ASSUME NEW s \in Sessions, NEW p \in PageStates, Resizes(s, p)
       PROVE  OpenTargets' = OpenTargets /\ DOMAIN pages \subseteq DOMAIN pages'
  BY <1>7, <1>10, ResizedPage DEF Resizes
<1>11. (\E n \in Sessions : Opens(n)) \/ (\E k \in DOMAIN pages : Closes(k))
       \/ UNCHANGED page_counter
  BY DEF Effect, Keeps, Rewrites, Renders, Resizes
<1> QED
  BY <1>4, <1>5, <1>6, <1>8, <1>9, <1>10, <1>11 DEF Effect, Keeps

(* A created target that was closed never comes back. *)
THEOREM ClosedIsForGood == Spec => ClosedTargetsStayClosed
<1>1. ASSUME PageInv, Next
      PROVE  \A t \in 1 .. page_counter : t \notin OpenTargets => t \notin OpenTargets'
  <2>1. Effect
    BY <1>1, NextEffect
  <2>2. CASE \E n \in Sessions :
               Opens(n) /\ n \notin OpenTargets /\ OpenTargets' = OpenTargets \cup {n}
    BY <1>1, <2>2, SessionConstants DEF Opens, PageInv
  <2>3. CASE \E k \in DOMAIN pages : Closes(k) /\ OpenTargets' = OpenTargets \ {k}
    BY <2>3
  <2>4. CASE OpenTargets' = OpenTargets
    BY <2>4
  <2> QED
    BY <1>1, <2>1, <2>2, <2>3, <2>4, EffectOnTargets
<1>2. PageInv /\ [Next]_vars =>
        [\A t \in 1 .. page_counter : t \notin OpenTargets => t \notin OpenTargets']_vars
  BY <1>1
<1> QED
  BY <1>2, SpecPageInv, PTL DEF Spec, ClosedTargetsStayClosed

-----------------------------------------------------------------------------
(* The session implements the browser that caches nothing.  Each of the    *)
(* six effects is a step of it, because the layout a page answers with,    *)
(* cached or not, is the layout of its document at the width asked for.    *)

Doc == [k \in Sessions |-> PageOf(k).html]
Window == [k \in Sessions |-> PageOf(k).viewport.width]

LEMMA PutOnTheBrowser ==
  ASSUME NEW s \in Sessions, NEW p, Puts(s, p)
  PROVE  /\ Doc' = [Doc EXCEPT ![s] = p.html]
         /\ Window' = [Window EXCEPT ![s] = p.viewport.width]
<1>1. PageOf(s)' = p
  BY PutView
<1>2. \A x \in Sessions : x # s => PageOf(x)' = PageOf(x)
  BY PutView
<1> QED
  BY <1>1, <1>2 DEF Doc, Window

LEMMA EmptyPageView ==
  \A t, f : /\ NewPage(t, f).html = NoHtml
            /\ NewPage(t, f).viewport.width = DefaultViewport.width
  BY DEF NewPage

LEMMA KeepsIsDrawNothing == ASSUME Keeps PROVE TheBrowser!DrawNothing
  BY DEF Keeps, TheBrowser!DrawNothing, PageOf

LEMMA OpensIsRenew ==
  ASSUME NEW n \in Sessions, Opens(n) PROVE TheBrowser!Renew(n)
<1>1. PICK p : p = NewPage(n, n)
  OBVIOUS
<1>2. p.html = NoHtml /\ p.viewport.width = DefaultViewport.width
  BY <1>1, EmptyPageView
<1>3. Puts(n, p) /\ drawn' = NoDrawing
  BY <1>1 DEF Opens
<1>4. /\ Doc' = [Doc EXCEPT ![n] = NoHtml]
      /\ Window' = [Window EXCEPT ![n] = DefaultViewport.width]
  BY <1>2, <1>3, PutOnTheBrowser
<1> QED
  BY <1>3, <1>4 DEF TheBrowser!Renew, Doc, Window

LEMMA ClosesIsRenew ==
  ASSUME PageInv, NEW k \in DOMAIN pages, Closes(k) PROVE TheBrowser!Renew(k)
<1>1. k \in Sessions
  BY DEF PageInv
<1>2. PageOf(k)' = ImplicitPage
  BY RemoveView DEF Closes
<1>3. \A x \in Sessions : x # k => PageOf(x)' = PageOf(x)
  BY RemoveView DEF Closes
<1>4. ImplicitPage.html = NoHtml /\ ImplicitPage.viewport.width = DefaultViewport.width
  BY EmptyPageView DEF ImplicitPage
<1>5. Doc' = [Doc EXCEPT ![k] = NoHtml]
  BY <1>1, <1>2, <1>3, <1>4 DEF Doc
<1>6. Window' = [Window EXCEPT ![k] = DefaultViewport.width]
  BY <1>1, <1>2, <1>3, <1>4 DEF Window
<1> QED
  BY <1>5, <1>6 DEF TheBrowser!Renew, Doc, Window, Closes

LEMMA RewritesIsSetContent ==
  ASSUME PageInv, NEW s \in Sessions, NEW html \in Documents, Rewrites(s, html)
  PROVE  TheBrowser!SetContent(s, html)
<1>1. PICK q : q = PageOf(s)
  OBVIOUS
<1>2. q \in PageStates
  BY <1>1, PageOfIsGood DEF GoodPage
<1>3. PICK p : p = SetHtml(q, html)
  OBVIOUS
<1>4. p.html = html /\ p.viewport.width = q.viewport.width
  BY <1>2, <1>3 DEF SetHtml, PageStates
<1>5. Puts(s, p) /\ drawn' = NoDrawing
  BY <1>1, <1>3 DEF Rewrites
<1>6. Doc' = [Doc EXCEPT ![s] = html]
  BY <1>4, <1>5, PutOnTheBrowser
<1>7. Window' = [Window EXCEPT ![s] = Window[s]]
  BY <1>1, <1>4, <1>5, PutOnTheBrowser DEF Window
<1>8. Window' = Window
  BY <1>7 DEF Window
<1> QED
  BY <1>5, <1>6, <1>8 DEF TheBrowser!SetContent, Doc, Window

LEMMA ResizesIsResize ==
  ASSUME PageInv, NEW s \in Sessions, NEW p \in PageStates, Resizes(s, p)
  PROVE  TheBrowser!Resize(s, p.viewport.width)
<1>1. p.html = PageOf(s).html
  BY ResizedPage
<1>2. Puts(s, p) /\ drawn' = NoDrawing
  BY DEF Resizes
<1>3. Window' = [Window EXCEPT ![s] = p.viewport.width]
  BY <1>2, PutOnTheBrowser
<1>4. Doc' = [Doc EXCEPT ![s] = Doc[s]]
  BY <1>1, <1>2, PutOnTheBrowser DEF Doc
<1>5. Doc' = Doc
  BY <1>4 DEF Doc
<1> QED
  BY <1>2, <1>3, <1>5 DEF TheBrowser!Resize, Doc, Window

LEMMA RendersIsDraw ==
  ASSUME PageInv, NEW s \in Sessions, NEW medium \in {"sheet", "window"},
         NEW width \in Widths, Renders(s, medium, width)
  PROVE  TheBrowser!DrawSheet(s, width) \/ TheBrowser!DrawWindow(s)
<1>1. PICK q : q = PageOf(s)
  OBVIOUS
<1>2. GoodPage(s, q)
  BY <1>1, PageOfIsGood
<1>3. PICK p : p = AfterLayout(q, width)
  OBVIOUS
<1>4. p.html = q.html /\ p.viewport = q.viewport
  BY <1>2, <1>3, AfterLayoutPreserves DEF GoodPage
<1>5. Puts(s, p)
  BY <1>1, <1>3 DEF Renders
<1>6. Doc' = [Doc EXCEPT ![s] = Doc[s]] /\ Window' = [Window EXCEPT ![s] = Window[s]]
  BY <1>1, <1>4, <1>5, PutOnTheBrowser DEF Doc, Window
<1>7. Doc' = Doc /\ Window' = Window
  BY <1>6 DEF Doc, Window
<1>8. LayoutOf(q, width) = Rendering(q.html, width)
  BY <1>2, LayoutOfFreshCache DEF GoodPage
<1>9. drawn' = [page |-> s, medium |-> medium, asked |-> width,
                list |-> [html |-> Doc[s], laid_at |-> width]]
  BY <1>1, <1>8 DEF Renders, Rendering, Doc
<1>10. CASE medium = "sheet"
  BY <1>7, <1>9, <1>10 DEF TheBrowser!DrawSheet, TheBrowser!Drawing, Doc, Window
<1>11. CASE medium = "window"
  <2>1. width = Window[s]
    BY <1>11 DEF Renders, Window
  <2> QED
    BY <1>7, <1>9, <1>11, <2>1 DEF TheBrowser!DrawWindow, TheBrowser!Drawing, Doc, Window
<1> QED
  BY <1>10, <1>11

LEMMA EffectIsAStepOfTheBrowser == PageInv /\ Effect => TheBrowser!Next
<1>. SUFFICES ASSUME PageInv, Effect PROVE TheBrowser!Next
  OBVIOUS
<1>1. CASE Keeps
  BY <1>1, KeepsIsDrawNothing DEF TheBrowser!Next
<1>2. ASSUME NEW n \in Sessions, Opens(n) PROVE TheBrowser!Next
  BY <1>2, OpensIsRenew DEF TheBrowser!Next
<1>3. ASSUME NEW k \in DOMAIN pages, Closes(k) PROVE TheBrowser!Next
  <2>1. k \in Sessions
    BY DEF PageInv
  <2> QED
    BY <1>3, <2>1, ClosesIsRenew DEF TheBrowser!Next
<1>4. ASSUME NEW s \in Sessions, NEW html \in Documents, Rewrites(s, html)
      PROVE  TheBrowser!Next
  <2>1. html \in TheBrowser!Documents
    BY DEF Documents, TheBrowser!Documents
  <2> QED
    BY <1>4, <2>1, RewritesIsSetContent DEF TheBrowser!Next
<1>5. ASSUME NEW s \in Sessions, NEW medium \in {"sheet", "window"},
             NEW width \in Widths, Renders(s, medium, width)
      PROVE  TheBrowser!Next
  BY <1>5, RendersIsDraw DEF TheBrowser!Next
<1>6. ASSUME NEW s \in Sessions, NEW p \in PageStates, Resizes(s, p)
      PROVE  TheBrowser!Next
  <2>1. p.viewport.width \in Widths
    BY DEF PageStates, Viewports
  <2> QED
    BY <1>6, <2>1, ResizesIsResize DEF TheBrowser!Next
<1> QED
  BY <1>1, <1>2, <1>3, <1>4, <1>5, <1>6 DEF Effect

(* Every rendering a session answers with is the one a browser without a   *)
(* cache would give: of the document last set on that page, at the width   *)
(* asked for, whatever was done to the other pages.                        *)
THEOREM SessionImplementsBrowser == Spec => ImplementsBrowser
<1>1. Init => TheBrowser!Init
  BY EmptyPageView DEF Init, TheBrowser!Init, PageOf, ImplicitPage
<1>2. PageInv /\ Next => TheBrowser!Next
  BY NextEffect, EffectIsAStepOfTheBrowser
<1>3. UNCHANGED vars => UNCHANGED TheBrowser!vars
  BY DEF vars, TheBrowser!vars, PageOf
<1> QED
  BY <1>1, <1>2, <1>3, SpecPageInv, PTL DEF Spec, ImplementsBrowser, TheBrowser!Spec
-----------------------------------------------------------------------------
(* What the client is told.  A command opens a page and announces it,      *)
(* closes one and withdraws it, announces a session again, or is silent    *)
(* and removes no page.                                                    *)

Loud == {"attachedToTarget", "detachedFromTarget"}

LEMMA SilentMessages ==
  ASSUME NEW messages, Emit(messages), \A i \in DOMAIN messages : messages[i].what \notin Loud
  PROVE  attached' = attached
<1>1. /\ Announced(messages, "attachedToTarget") = {}
      /\ Announced(messages, "detachedFromTarget") = {}
  BY DEF Announced, Loud
<1> QED
  BY <1>1 DEF Emit

LEMMA OneMessage ==
  ASSUME NEW a, Emit(<<a>>), a.what \notin Loud
  PROVE  attached' = attached
  BY SilentMessages

LEMMA AnnouncedByTwo ==
  ASSUME NEW a, NEW b, NEW what, a.what = what, b.what # what
  PROVE  Announced(<<a, b>>, what) = {a.subject}
  BY DEF Announced

LEMMA AnnouncedByThird ==
  ASSUME NEW a, NEW b, NEW c, NEW what, a.what # what, b.what # what, c.what = what
  PROVE  Announced(<<a, b, c>>, what) = {c.subject}
  BY DEF Announced

LEMMA AnnouncedBySecond ==
  ASSUME NEW a, NEW b, NEW c, NEW what, a.what # what, b.what = what, c.what # what
  PROVE  Announced(<<a, b, c>>, what) = {b.subject}
  BY DEF Announced

LEMMA AnnouncedByNone ==
  ASSUME NEW messages, NEW what, \A i \in DOMAIN messages : messages[i].what # what
  PROVE  Announced(messages, what) = {}
  BY DEF Announced

Silent ==
  /\ attached' = attached
  /\ UNCHANGED page_counter
  /\ DOMAIN pages \subseteq DOMAIN pages'

Hear ==
  \/ \E n \in Sessions : Opens(n) /\ attached' = attached \cup {n}
  \/ \E k \in DOMAIN pages : Closes(k) /\ attached' = attached \ {k}
  \/ \E k \in DOMAIN pages \cup {FallbackSession} :
       Keeps /\ attached' = attached \cup {k}
  \/ Silent

LEMMA CreateIsHeard ==
  ASSUME PageInv, NEW s \in Sessions, CreateTarget(s)
  PROVE  Hear
<1>1. PICK n : n = page_counter + 1
  OBVIOUS
<1>2. Opens(n) /\ n \in Sessions
  BY <1>1, SessionConstants DEF CreateTarget, Opens, Puts, PageInv, Sessions
<1>3. PICK a, b, c : /\ a = Message("targetCreated", s, n, n)
                     /\ b = Response(s)
                     /\ c = Message("attachedToTarget", s, n, n)
  OBVIOUS
<1>4. Emit(<<a, b, c>>)
  BY <1>1, <1>3 DEF CreateTarget
<1>5. /\ a.what = "targetCreated" /\ b.what = "response"
      /\ c.what = "attachedToTarget" /\ c.subject = n
  BY <1>3 DEF Message, Response
<1>6. Announced(<<a, b, c>>, "attachedToTarget") = {n}
  BY <1>5, AnnouncedByThird
<1>7. Announced(<<a, b, c>>, "detachedFromTarget") = {}
  BY <1>5, AnnouncedByNone
<1>8. attached' = attached \cup {n}
  BY <1>4, <1>6, <1>7 DEF Emit
<1> QED
  BY <1>2, <1>8 DEF Hear

LEMMA AttachIsHeard ==
  ASSUME PageInv, NEW s \in Sessions, NEW target,
         NEW k \in DOMAIN pages \cup {FallbackSession}, AttachTo(s, target, k)
  PROVE  Hear
<1>1. PICK a, b : /\ a = Message("attachedToTarget", s, k, target)
                  /\ b = Message("response", s, k, target)
  OBVIOUS
<1>2. Emit(<<a, b>>)
  BY <1>1 DEF AttachTo
<1>3. a.what = "attachedToTarget" /\ a.subject = k /\ b.what = "response"
  BY <1>1 DEF Message
<1>4. Announced(<<a, b>>, "attachedToTarget") = {k}
  BY <1>3, AnnouncedByTwo
<1>5. Announced(<<a, b>>, "detachedFromTarget") = {}
  BY <1>3, AnnouncedByNone
<1>6. attached' = attached \cup {k}
  BY <1>2, <1>4, <1>5 DEF Emit
<1>7. Keeps
  BY DEF AttachTo, Keeps, counters
<1> QED
  BY <1>6, <1>7 DEF Hear

LEMMA CloseIsHeard ==
  ASSUME PageInv, NEW s \in Sessions, NEW arg \in TargetArgs, CloseTarget(s, arg)
  PROVE  Hear
<1> DEFINE target == IF arg = NoTarget THEN PageOf(s).target_id ELSE arg
<1>1. ASSUME NEW k \in SessionsOf(target), pages' = Remove(k),
             Emit(<< Response(s),
                     BrowserEvent("detachedFromTarget", k, target),
                     BrowserEvent("targetDestroyed", target, target) >>)
      PROVE  Hear
  <2>1. PICK a, b, c : /\ a = Response(s)
                       /\ b = BrowserEvent("detachedFromTarget", k, target)
                       /\ c = BrowserEvent("targetDestroyed", target, target)
    OBVIOUS
  <2>2. Emit(<<a, b, c>>)
    BY <1>1, <2>1
  <2>3. /\ a.what = "response" /\ c.what = "targetDestroyed"
        /\ b.what = "detachedFromTarget" /\ b.subject = k
    BY <2>1 DEF Message, Response, BrowserEvent
  <2>4. Announced(<<a, b, c>>, "detachedFromTarget") = {k}
    BY <2>3, AnnouncedBySecond
  <2>5. Announced(<<a, b, c>>, "attachedToTarget") = {}
    BY <2>3, AnnouncedByNone
  <2>6. attached' = attached \ {k}
    BY <2>2, <2>4, <2>5 DEF Emit
  <2>7. k \in DOMAIN pages /\ Closes(k)
    BY <1>1 DEF CloseTarget, Closes, Removes, SessionsOf, counters
  <2> QED
    BY <2>6, <2>7 DEF Hear
<1>2. ASSUME UNCHANGED pages,
             Emit(<< Response(s), BrowserEvent("targetDestroyed", target, target) >>)
      PROVE  Hear
  <2>1. PICK a, b : /\ a = Response(s)
                    /\ b = BrowserEvent("targetDestroyed", target, target)
    OBVIOUS
  <2>2. a.what = "response" /\ b.what = "targetDestroyed"
    BY <2>1 DEF Message, Response, BrowserEvent
  <2>3. Emit(<<a, b>>)
    BY <1>2, <2>1
  <2>4. \A i \in DOMAIN <<a, b>> : <<a, b>>[i].what \notin Loud
    BY <2>2 DEF Loud
  <2>5. attached' = attached
    BY <2>3, <2>4, SilentMessages
  <2> QED
    BY <1>2, <2>5 DEF CloseTarget, Hear, Silent, counters
<1> QED
  BY <1>1, <1>2 DEF CloseTarget

LEMMA TargetIsHeard ==
  ASSUME PageInv, NEW s \in Sessions, TargetCommand(s)
  PROVE  Hear
<1>1. CASE GetTargetInfo(s)
  <2>1. attached' = attached
    BY <1>1, OneMessage DEF GetTargetInfo, Message, Loud
  <2> QED
    BY <1>1, <2>1 DEF GetTargetInfo, Hear, Silent, counters
<1>2. ASSUME NEW arg \in TargetArgs, AttachToTarget(s, arg)
      PROVE  Hear
  <2>1. PICK target : target = IF arg = NoTarget THEN LastTarget ELSE arg
    OBVIOUS
  <2>2. \E k \in DOMAIN pages \cup {FallbackSession} : AttachTo(s, target, k)
    BY <1>2, <2>1 DEF AttachToTarget, SessionsOf
  <2> QED
    BY <2>2, AttachIsHeard
<1> QED
  BY <1>1, <1>2, CreateIsHeard, CloseIsHeard DEF TargetCommand

LEMMA PageIsHeard ==
  ASSUME PageInv, NEW s \in Sessions, PageCommand(s)
  PROVE  Hear
<1>1. ASSUME NEW html \in Documents, SetDocumentContent(s, html)
      PROVE  Hear
  <2>1. PICK a, b, c, d, e :
          /\ a = Message("init", s, PageOf(s).frame_id, 0)
          /\ b = Message("load", s, PageOf(s).frame_id, 0)
          /\ c = Message("DOMContentLoaded", s, PageOf(s).frame_id, 0)
          /\ d = Message("networkIdle", s, PageOf(s).frame_id, 0)
          /\ e = Response(s)
    OBVIOUS
  <2>2. Emit(<<a, b, c, d, e>>)
    BY <1>1, <2>1 DEF SetDocumentContent
  <2>3. /\ a.what \notin Loud /\ b.what \notin Loud /\ c.what \notin Loud
        /\ d.what \notin Loud /\ e.what \notin Loud
    BY <2>1 DEF Message, Response, Loud
  <2>4. attached' = attached
    BY <2>2, <2>3, SilentMessages
  <2>5. DOMAIN pages \subseteq DOMAIN pages'
    BY <1>1 DEF SetDocumentContent, Update, Put
  <2> QED
    BY <1>1, <2>4, <2>5 DEF SetDocumentContent, Hear, Silent, counters
<1>2. CASE GetFrameTree(s)
  <2>1. attached' = attached
    BY <1>2, OneMessage DEF GetFrameTree, Message, Loud
  <2> QED
    BY <1>2, <2>1 DEF GetFrameTree, Hear, Silent, counters
<1>3. CASE NewContext(s)
  <2>1. PICK a, b :
          /\ a = Message("executionContextCreated", s, context_counter + 1, PageOf(s).frame_id)
          /\ b = Message("response", s, context_counter + 1, 0)
    OBVIOUS
  <2>2. Emit(<<a, b>>)
    BY <1>3, <2>1 DEF NewContext
  <2>3. a.what \notin Loud /\ b.what \notin Loud
    BY <2>1 DEF Message, Loud
  <2>4. attached' = attached
    BY <2>2, <2>3, SilentMessages
  <2> QED
    BY <1>3, <2>4 DEF NewContext, Hear, Silent
<1>4. CASE Accept(s)
  <2>1. attached' = attached
    BY <1>4, OneMessage DEF Accept, Response, Message, Loud
  <2> QED
    BY <1>4, <2>1 DEF Accept, Hear, Silent, counters
<1> QED
  BY <1>1, <1>2, <1>3, <1>4 DEF PageCommand

LEMMA PrintIsHeard ==
  ASSUME PageInv, NEW s \in Sessions, PrintCommand(s)
  PROVE  Hear
<1>1. ASSUME NEW width \in Widths, PrintToStream(s, width) \/ PrintInline(s, width)
      PROVE  Hear
  <2>1. PICK a : a.what = "response" /\ Emit(<<a>>)
    BY <1>1 DEF PrintToStream, PrintInline, Message, Response
  <2>2. attached' = attached
    BY <2>1, OneMessage DEF Loud
  <2>3. DOMAIN pages \subseteq DOMAIN pages'
    BY <1>1 DEF PrintToStream, PrintInline, Draw, Update, Put
  <2> QED
    BY <1>1, <2>2, <2>3 DEF PrintToStream, PrintInline, Hear, Silent, counters
<1>2. ASSUME NEW h \in Store!Handles, IORead(s, h) \/ IOClose(s, h)
      PROVE  Hear
  <2>1. attached' = attached
    BY <1>2, OneMessage DEF IORead, IOClose, Response, Message, Loud
  <2> QED
    BY <1>2, <2>1 DEF IORead, IOClose, Hear, Silent, counters
<1> QED
  BY <1>1, <1>2 DEF PrintCommand

LEMMA ScreenIsHeard ==
  ASSUME PageInv, NEW s \in Sessions, ScreenCommand(s)
  PROVE  Hear
<1>1. \E a \in {Response(s), Error(s)} : Emit(<<a>>)
  BY DEF ScreenCommand, GetLayoutMetrics, CaptureScreenshot, CaptureUnsupported,
         SetDeviceMetricsOverride, ClearDeviceMetricsOverride
<1>2. attached' = attached
  BY <1>1, OneMessage DEF Response, Error, Message, Loud
<1>3. UNCHANGED page_counter /\ DOMAIN pages \subseteq DOMAIN pages'
  BY DEF ScreenCommand, GetLayoutMetrics, CaptureScreenshot, CaptureUnsupported,
         SetDeviceMetricsOverride, ClearDeviceMetricsOverride, Draw, Update, Put, counters
<1> QED
  BY <1>2, <1>3 DEF Hear, Silent

LEMMA NextIsHeard == PageInv /\ Next => Hear
<1>1. ASSUME IgnoreUnparsed PROVE Hear
  <2>1. attached' = attached
    BY <1>1, SilentMessages DEF IgnoreUnparsed
  <2> QED
    BY <1>1, <2>1 DEF IgnoreUnparsed, Hear, Silent, counters
<1> QED
  BY <1>1, TargetIsHeard, PageIsHeard, PrintIsHeard, ScreenIsHeard DEF Next

(* The client is never left with a session whose page is gone, nor without *)
(* one whose page is open.                                                 *)
THEOREM ClientIsUpToDate == Spec => []ClientKnowsThePages
<1>1. Init => ClientKnowsThePages
  BY DEF Init, ClientKnowsThePages, OpenTargets, SessionsOf
<1>2. ASSUME PageInv, ClientKnowsThePages, Next
      PROVE  ClientKnowsThePages'
  <2>1. page_counter \in Nat
    BY <1>2, SessionConstants DEF PageInv
  <2>2. Effect
    BY <1>2, NextEffect
  <2>3. ASSUME NEW n \in Sessions, Opens(n), attached' = attached \cup {n}
        PROVE  ClientKnowsThePages'
    <3>1. DOMAIN pages' = DOMAIN pages \cup {n}
      BY <2>3, PutView DEF Opens
    <3>2. n = page_counter + 1 /\ page_counter' = n
      BY <2>3 DEF Opens
    <3>3. \A m \in Sessions : Opens(m) => m = n
      BY <3>2 DEF Opens
    <3>4. OpenTargets' \subseteq OpenTargets \cup {n}
      BY <1>2, <2>2, <3>3, EffectOnTargets
    <3> QED
      BY <1>2, <2>3, <3>1, <3>4 DEF ClientKnowsThePages, FallbackSession
  <2>4. ASSUME NEW k \in DOMAIN pages, Closes(k), attached' = attached \ {k}
        PROVE  ClientKnowsThePages'
    <3>1. DOMAIN pages' = DOMAIN pages \ {k}
      BY <2>4, RemoveView DEF Closes
    <3>2. \A m \in Sessions : ~ Opens(m)
      BY <2>1, <2>4 DEF Opens, Closes
    <3>3. \A j \in DOMAIN pages : Closes(j) => j = k
      <4>1. ASSUME NEW j \in DOMAIN pages, Closes(j) PROVE DOMAIN pages' = DOMAIN pages \ {j}
        BY <4>1, RemoveView DEF Closes
      <4> QED
        BY <3>1, <4>1
    <3>4. OpenTargets' = OpenTargets \ {k}
      BY <1>2, <2>2, <3>1, <3>2, <3>3, EffectOnTargets
    <3> QED
      BY <1>2, <2>4, <3>1, <3>4 DEF ClientKnowsThePages, FallbackSession
  <2>5. ASSUME NEW k \in DOMAIN pages \cup {FallbackSession}, Keeps,
               attached' = attached \cup {k}
        PROVE  ClientKnowsThePages'
    <3>1. OpenTargets' = OpenTargets
      BY <2>5 DEF Keeps, OpenTargets, SessionsOf
    <3> QED
      BY <1>2, <2>5, <3>1 DEF ClientKnowsThePages, Keeps, FallbackSession
  <2>6. CASE Silent
    <3>1. \A m \in Sessions : ~ Opens(m)
      BY <2>1, <2>6 DEF Opens, Silent
    <3>2. \A j \in DOMAIN pages : ~ Closes(j)
      <4>1. ASSUME NEW j \in DOMAIN pages, Closes(j) PROVE DOMAIN pages' = DOMAIN pages \ {j}
        BY <4>1, RemoveView DEF Closes
      <4> QED
        BY <2>6, <4>1 DEF Silent
    <3>3. OpenTargets' = OpenTargets
      BY <1>2, <2>2, <3>1, <3>2, EffectOnTargets
    <3> QED
      BY <1>2, <2>6, <3>3 DEF ClientKnowsThePages, Silent, FallbackSession
  <2> QED
    BY <1>2, <2>3, <2>4, <2>5, <2>6, NextIsHeard DEF Hear
<1>3. ClientKnowsThePages /\ UNCHANGED vars => ClientKnowsThePages'
  BY DEF vars, wire, ClientKnowsThePages, OpenTargets, SessionsOf
<1> QED
  BY <1>1, <1>2, <1>3, SpecPageInv, PTL DEF Spec
-----------------------------------------------------------------------------
(* The streams.  A command leaves the store alone or does one operation of *)
(* it, each of which keeps its handles among the numbers given out.        *)

LEMMA StoreStep ==
  ASSUME Next
  PROVE  \/ UNCHANGED store
         \/ \E s \in Sessions, width \in Widths : PrintToStream(s, width)
         \/ \E h \in Store!Handles : Store!Read(h) \/ Store!Close(h)
<1>1. ASSUME NEW s \in Sessions, TargetCommand(s) PROVE UNCHANGED store
  BY <1>1 DEF TargetCommand, CreateTarget, GetTargetInfo, AttachToTarget, AttachTo,
              CloseTarget
<1>2. ASSUME NEW s \in Sessions, PageCommand(s) PROVE UNCHANGED store
  BY <1>2 DEF PageCommand, SetDocumentContent, GetFrameTree, NewContext, Accept
<1>3. ASSUME NEW s \in Sessions, ScreenCommand(s) PROVE UNCHANGED store
  BY <1>3 DEF ScreenCommand, GetLayoutMetrics, CaptureScreenshot, CaptureUnsupported,
              SetDeviceMetricsOverride, ClearDeviceMetricsOverride
<1>4. ASSUME NEW s \in Sessions, NEW width \in Widths, PrintInline(s, width)
      PROVE  UNCHANGED store
  BY <1>4 DEF PrintInline
<1>5. CASE IgnoreUnparsed
  BY <1>5 DEF IgnoreUnparsed
<1> QED
  BY <1>1, <1>2, <1>3, <1>4, <1>5 DEF Next, PrintCommand, IORead, IOClose

LEMMA OpenKeepsStoreType ==
  ASSUME Store!StoreTypeOK, NEW n \in Nat, Store!Open(n)
  PROVE  Store!StoreTypeOK'
<1>1. /\ stream_counter \in Nat /\ stream_counter < MaxStreams
      /\ stream_counter' = stream_counter + 1
      /\ streams' = Store!Insert(streams, stream_counter + 1, [bytes |-> n, pos |-> 0])
  BY SessionConstants DEF Store!Open, Store!StoreTypeOK
<1>2. DOMAIN streams' = DOMAIN streams \cup {stream_counter + 1}
  BY <1>1 DEF Store!Insert
<1>3. \A h \in DOMAIN streams' : streams'[h] \in [bytes : Nat, pos : Nat] \cup {Drained}
  BY <1>1 DEF Store!Insert, Store!StoreTypeOK
<1> QED
  BY <1>1, <1>2, <1>3, SessionConstants DEF Store!StoreTypeOK

LEMMA ReadKeepsStoreType ==
  ASSUME Store!StoreTypeOK, NEW h \in Store!Handles, Store!Read(h)
  PROVE  Store!StoreTypeOK'
<1>1. CASE ~ Store!Holds(h)
  BY <1>1 DEF Store!Read, Store!StoreTypeOK
<1>2. CASE Store!Holds(h)
  <2>1. h \in DOMAIN streams /\ streams[h] \in [bytes : Nat, pos : Nat]
    BY <1>2 DEF Store!Holds, Store!StoreTypeOK
  <2>2. Store!ChunkEnd(streams[h]) \in Nat
    BY <2>1, SessionConstants DEF Store!ChunkEnd
  <2>3. Store!Chunk(h).to = Store!ChunkEnd(streams[h])
    BY <1>2 DEF Store!Chunk
  <2>4. \/ streams' = Store!Insert(streams, h, Drained)
        \/ streams' = [streams EXCEPT ![h].pos = Store!ChunkEnd(streams[h])]
    BY <1>2, <2>3 DEF Store!Read
  <2>5. DOMAIN streams' = DOMAIN streams
    BY <2>1, <2>4 DEF Store!Insert
  <2>6. \A x \in DOMAIN streams' : streams'[x] \in [bytes : Nat, pos : Nat] \cup {Drained}
    BY <2>1, <2>2, <2>4 DEF Store!Insert, Store!StoreTypeOK
  <2> QED
    BY <2>5, <2>6 DEF Store!Read, Store!StoreTypeOK
<1> QED
  BY <1>1, <1>2

LEMMA CloseKeepsStoreType ==
  ASSUME Store!StoreTypeOK, NEW h, Store!Close(h)
  PROVE  Store!StoreTypeOK'
  BY DEF Store!Close, Store!StoreTypeOK

LEMMA SpecStoreType == Spec => []Store!StoreTypeOK
<1>1. Init => Store!StoreTypeOK
  BY SessionConstants DEF Init, Store!StoreInit, Store!StoreTypeOK
<1>2. ASSUME Store!StoreTypeOK, Next PROVE Store!StoreTypeOK'
  <2>1. CASE UNCHANGED store
    BY <1>2, <2>1 DEF store, Store!StoreTypeOK
  <2>2. ASSUME NEW s \in Sessions, NEW width \in Widths, PrintToStream(s, width)
        PROVE  Store!StoreTypeOK'
    <3>1. PICK n \in PdfSizes : Store!Open(n)
      BY <2>2 DEF PrintToStream
    <3>2. n \in Nat
      BY SessionConstants
    <3> QED
      BY <1>2, <3>1, <3>2, OpenKeepsStoreType
  <2>3. ASSUME NEW h \in Store!Handles, Store!Read(h) \/ Store!Close(h)
        PROVE  Store!StoreTypeOK'
    BY <1>2, <2>3, ReadKeepsStoreType, CloseKeepsStoreType
  <2> QED
    BY <1>2, <2>1, <2>2, <2>3, StoreStep
<1>3. Store!StoreTypeOK /\ UNCHANGED vars => Store!StoreTypeOK'
  BY DEF vars, store, Store!StoreTypeOK
<1> QED
  BY <1>1, <1>2, <1>3, PTL DEF Spec

(* A PDF sent as a stream gets a handle of its own, and the streams        *)
(* already open keep their place.                                          *)
THEOREM PrintedStreamsAreNew == Spec => PrintAnswersAReadableStream
<1> DEFINE A == LET h == out'[1].subject IN
                /\ h \notin DOMAIN streams
                /\ h \in DOMAIN streams' /\ streams'[h].pos = 0
                /\ \A x \in DOMAIN streams : streams'[x] = streams[x]
<1>1. ASSUME Store!StoreTypeOK, Next, stream_counter' # stream_counter
      PROVE  A
  <2>1. PICK s \in Sessions, width \in Widths : PrintToStream(s, width)
    BY <1>1, StoreStep DEF store, Store!Read, Store!Close
  <2>2. PICK n \in PdfSizes : Store!Open(n)
    BY <2>1 DEF PrintToStream
  <2>3. out'[1].subject = stream_counter + 1
    BY <2>1 DEF PrintToStream, Emit, Message
  <2>4. stream_counter + 1 \notin DOMAIN streams
    BY <1>1, SessionConstants DEF Store!StoreTypeOK
  <2>5. streams' = Store!Insert(streams, stream_counter + 1, [bytes |-> n, pos |-> 0])
    BY <2>2 DEF Store!Open
  <2> QED
    BY <2>3, <2>4, <2>5 DEF Store!Insert
<1>2. Store!StoreTypeOK /\ [Next]_vars => [stream_counter' # stream_counter => A]_vars
  BY <1>1
<1> QED
  BY <1>2, SpecStoreType, PTL DEF Spec, PrintAnswersAReadableStream

-----------------------------------------------------------------------------
(* Type correctness: what is left are the counters, the messages and the   *)
(* drawing.                                                                *)

CountersOK ==
  /\ context_counter \in 0 .. MaxContexts
  /\ last_target \in 1 .. page_counter \cup {NoTarget}

WireOK ==
  /\ \A i \in DOMAIN out : out[i] \in Messages
  /\ drawn \in Drawings \cup {NoDrawing}

LEMMA NextCounters ==
  ASSUME PageInv, CountersOK, Next PROVE CountersOK'
<1>1. ASSUME NEW s \in Sessions, TargetCommand(s)
      PROVE  CreateTarget(s) \/ UNCHANGED counters
  BY <1>1 DEF TargetCommand, GetTargetInfo, AttachToTarget, AttachTo, CloseTarget
<1>2. ASSUME NEW s \in Sessions, PageCommand(s)
      PROVE  NewContext(s) \/ UNCHANGED counters
  BY <1>2 DEF PageCommand, SetDocumentContent, GetFrameTree, Accept
<1>3. ASSUME NEW s \in Sessions, PrintCommand(s) PROVE UNCHANGED counters
  BY <1>3 DEF PrintCommand, PrintToStream, PrintInline, IORead, IOClose
<1>4. ASSUME NEW s \in Sessions, ScreenCommand(s) PROVE UNCHANGED counters
  BY <1>4 DEF ScreenCommand, GetLayoutMetrics, CaptureScreenshot, CaptureUnsupported,
              SetDeviceMetricsOverride, ClearDeviceMetricsOverride
<1>5. CASE IgnoreUnparsed
  BY <1>5 DEF IgnoreUnparsed, counters, CountersOK
<1>6. CASE UNCHANGED counters
  BY <1>6 DEF counters, CountersOK
<1>7. ASSUME NEW s \in Sessions, CreateTarget(s) PROVE CountersOK'
  BY <1>7, SessionConstants DEF CreateTarget, CountersOK, PageInv
<1>8. ASSUME NEW s \in Sessions, NewContext(s) PROVE CountersOK'
  BY <1>8, SessionConstants DEF NewContext, CountersOK
<1> QED
  BY <1>1, <1>2, <1>3, <1>4, <1>5, <1>6, <1>7, <1>8 DEF Next

LEMMA NextDrawing ==
  ASSUME PageInv, Next PROVE drawn' \in Drawings \cup {NoDrawing}
<1>1. ASSUME NEW s \in Sessions, NEW medium \in {"sheet", "window"},
             NEW width \in Widths, Renders(s, medium, width)
      PROVE  drawn' \in Drawings
  <2>1. PICK q : q = PageOf(s)
    OBVIOUS
  <2>2. GoodPage(s, q)
    BY <2>1, PageOfIsGood
  <2>3. LayoutOf(q, width) = Rendering(q.html, width)
    BY <2>2, LayoutOfFreshCache DEF GoodPage
  <2>4. q.html \in Documents
    BY <2>2 DEF GoodPage, PageStates
  <2>5. LayoutOf(q, width) \in DisplayLists
    BY <2>3, <2>4, RenderingType
  <2> QED
    BY <1>1, <2>1, <2>5 DEF Renders, Drawings
<1> QED
  BY <1>1, NextEffect DEF Effect, Keeps, Opens, Closes, Rewrites, Resizes

LEMMA SessionKeysAreNaturals ==
  ASSUME PageInv, NEW k \in DOMAIN pages \cup {FallbackSession}
  PROVE  k \in Nat
<1>1. FallbackSession \in Nat
  BY DEF FallbackSession
<1>2. k \in DOMAIN pages => k \in Sessions
  BY DEF PageInv
<1> QED
  BY <1>1, <1>2, SessionsAreNaturals

LEMMA AnswerType ==
  ASSUME NEW s \in Nat
  PROVE  Response(s) \in Messages /\ Error(s) \in Messages
  BY DEF Response, Error, Message, Messages, Kinds

LEMMA NextMessages ==
  ASSUME PageInv, CountersOK, Store!StoreTypeOK, Next
  PROVE  \A i \in DOMAIN out' : out'[i] \in Messages
<1>0. /\ page_counter \in Nat /\ context_counter \in Nat /\ stream_counter \in Nat
      /\ LastTarget \in Nat
  BY SessionConstants DEF PageInv, CountersOK, Store!StoreTypeOK, LastTarget, FallbackTarget
<1>1. ASSUME NEW s \in Sessions
      PROVE  /\ s \in Nat
             /\ PageOf(s).frame_id \in Nat
             /\ PageOf(s).target_id \in Nat
             /\ Response(s) \in Messages /\ Error(s) \in Messages
  <2>1. s \in Nat
    BY SessionsAreNaturals
  <2> QED
    BY <2>1, PageOfIsGood, AnswerType DEF GoodPage, PageStates
<1>2. ASSUME NEW s \in Sessions, CreateTarget(s)
      PROVE  \A i \in DOMAIN out' : out'[i] \in Messages
  BY <1>0, <1>1, <1>2 DEF CreateTarget, Emit, Message, Messages, Kinds
<1>3. ASSUME NEW s \in Sessions, GetTargetInfo(s)
      PROVE  \A i \in DOMAIN out' : out'[i] \in Messages
  BY <1>0, <1>1, <1>3 DEF GetTargetInfo, Emit, Message, Messages, Kinds
<1>4. ASSUME NEW s \in Sessions, NEW arg \in TargetArgs, AttachToTarget(s, arg)
      PROVE  \A i \in DOMAIN out' : out'[i] \in Messages
  <2>1. PICK target : target = IF arg = NoTarget THEN LastTarget ELSE arg
    OBVIOUS
  <2>2. target \in Nat
    BY <1>0, <2>1, SessionConstants DEF TargetArgs
  <2>3. PICK k \in DOMAIN pages \cup {FallbackSession} : AttachTo(s, target, k)
    BY <1>4, <2>1 DEF AttachToTarget, SessionsOf
  <2>4. k \in Nat
    BY <2>3, SessionKeysAreNaturals
  <2> QED
    BY <1>1, <2>2, <2>3, <2>4 DEF AttachTo, Emit, Message, Messages, Kinds
<1>5. ASSUME NEW s \in Sessions, NEW arg \in TargetArgs, CloseTarget(s, arg)
      PROVE  \A i \in DOMAIN out' : out'[i] \in Messages
  <2>1. PICK target : target = IF arg = NoTarget THEN PageOf(s).target_id ELSE arg
    OBVIOUS
  <2>2. target \in Nat
    BY <1>1, <2>1, SessionConstants DEF TargetArgs
  <2>3. BrowserEvent("targetDestroyed", target, target) \in Messages
    BY <2>2 DEF BrowserEvent, ImplicitSession, Message, Messages, Kinds
  <2>4. ASSUME NEW k \in SessionsOf(target)
        PROVE  BrowserEvent("detachedFromTarget", k, target) \in Messages
    <3>1. k \in Nat
      BY SessionKeysAreNaturals DEF SessionsOf
    <3> QED
      BY <2>2, <3>1 DEF BrowserEvent, ImplicitSession, Message, Messages, Kinds
  <2>5. \/ \E k \in SessionsOf(target) :
             out' = << Response(s), BrowserEvent("detachedFromTarget", k, target),
                       BrowserEvent("targetDestroyed", target, target) >>
        \/ out' = << Response(s), BrowserEvent("targetDestroyed", target, target) >>
    BY <1>5, <2>1 DEF CloseTarget, Emit
  <2> QED
    BY <1>1, <2>3, <2>4, <2>5
<1>6. ASSUME NEW s \in Sessions, PageCommand(s)
      PROVE  \A i \in DOMAIN out' : out'[i] \in Messages
  <2>0. PICK frame \in Nat : frame = PageOf(s).frame_id
    BY <1>1
  <2>1. ASSUME NEW html \in Documents, SetDocumentContent(s, html)
        PROVE  \A i \in DOMAIN out' : out'[i] \in Messages
    <3>1. out' = << Message("init", s, frame, 0), Message("load", s, frame, 0),
                    Message("DOMContentLoaded", s, frame, 0),
                    Message("networkIdle", s, frame, 0), Response(s) >>
      BY <2>0, <2>1 DEF SetDocumentContent, Emit
    <3>2. /\ Message("init", s, frame, 0) \in Messages
          /\ Message("load", s, frame, 0) \in Messages
          /\ Message("DOMContentLoaded", s, frame, 0) \in Messages
          /\ Message("networkIdle", s, frame, 0) \in Messages
      BY <1>1 DEF Message, Messages, Kinds
    <3> QED
      BY <1>1, <3>1, <3>2
  <2>2. CASE GetFrameTree(s)
    <3>1. Message("response", s, frame, 0) \in Messages
      BY <1>1 DEF Message, Messages, Kinds
    <3> QED
      BY <2>0, <2>2, <3>1 DEF GetFrameTree, Emit
  <2>3. CASE NewContext(s)
    <3>1. PICK n \in Nat : n = context_counter + 1
      BY <1>0
    <3>2. /\ Message("executionContextCreated", s, n, frame) \in Messages
          /\ Message("response", s, n, 0) \in Messages
      BY <1>1 DEF Message, Messages, Kinds
    <3> QED
      BY <2>0, <2>3, <3>1, <3>2 DEF NewContext, Emit
  <2>4. CASE Accept(s)
    BY <1>1, <2>4 DEF Accept, Emit
  <2> QED
    BY <1>6, <2>1, <2>2, <2>3, <2>4 DEF PageCommand
<1>7. ASSUME NEW s \in Sessions, PrintCommand(s)
      PROVE  \A i \in DOMAIN out' : out'[i] \in Messages
  <2>0. PICK n \in Nat : n = stream_counter + 1
    BY <1>0
  <2>1. Message("response", s, stream_counter + 1, 0) \in Messages
    BY <1>1, <2>0 DEF Message, Messages, Kinds
  <2>2. out' = << Message("response", s, stream_counter + 1, 0) >> \/ out' = << Response(s) >>
    BY <1>7 DEF PrintCommand, PrintToStream, PrintInline, IORead, IOClose, Emit
  <2> QED
    BY <1>1, <2>1, <2>2
<1>8. ASSUME NEW s \in Sessions, ScreenCommand(s)
      PROVE  \A i \in DOMAIN out' : out'[i] \in Messages
  <2>1. out' = << Response(s) >> \/ out' = << Error(s) >>
    BY <1>8 DEF ScreenCommand, GetLayoutMetrics, CaptureScreenshot, CaptureUnsupported,
                SetDeviceMetricsOverride, ClearDeviceMetricsOverride, Emit
  <2> QED
    BY <1>1, <2>1
<1>9. CASE IgnoreUnparsed
  BY <1>9 DEF IgnoreUnparsed, Emit
<1> QED
  BY <1>2, <1>3, <1>4, <1>5, <1>6, <1>7, <1>8, <1>9 DEF Next, TargetCommand

(* The state of a session stays well formed: counters within their bounds, *)
(* pages and streams typed, every message naming identifiers.              *)
THEOREM SessionTypes == Spec => []TypeOK
<1> DEFINE Typed == PageInv /\ CountersOK /\ WireOK /\ Store!StoreTypeOK
                      /\ ClientKnowsThePages
<1>1. Init => CountersOK /\ WireOK
  BY SessionConstants DEF Init, CountersOK, WireOK
<1>2. PageInv /\ Store!StoreTypeOK /\ CountersOK /\ WireOK /\ Next => CountersOK' /\ WireOK'
  BY NextCounters, NextMessages, NextDrawing DEF WireOK
<1>3. CountersOK /\ WireOK /\ UNCHANGED vars => CountersOK' /\ WireOK'
  BY DEF vars, counters, wire, CountersOK, WireOK
<1>4. Typed => TypeOK
  <2>1. PageInv /\ ClientKnowsThePages => attached \subseteq Nat
    BY SessionKeysAreNaturals DEF ClientKnowsThePages
  <2>2. PageInv => \A k \in DOMAIN pages : pages[k] \in PageStates
    BY DEF PageInv, GoodPage
  <2> QED
    BY <2>1, <2>2 DEF TypeOK, PageInv, CountersOK, WireOK
<1>5. Spec => [](CountersOK /\ WireOK)
  BY <1>1, <1>2, <1>3, SpecPageInv, SpecStoreType, PTL DEF Spec
<1> QED
  BY <1>4, <1>5, SpecPageInv, SpecStoreType, ClientIsUpToDate, PTL
=============================================================================
