------------------------------ MODULE Session ------------------------------
(***************************************************************************)
(* The CDP state machine of one WebSocket connection (cdp-server/src/      *)
(* session/mod.rs and handlers/*.rs).  One action is one command, from its *)
(* arrival to the outputs it puts on the wire: `Session::handle` holds     *)
(* `&mut self` throughout.                                                 *)
(*                                                                         *)
(* Pages are keyed by the sessionId on the command.  Session "session-n"   *)
(* is n; a command without a sessionId uses key 0, "session-implicita".    *)
(* A client may put any session or target on a command, known or not.      *)
(*                                                                         *)
(* A definition that stands before another and bears its name with an      *)
(* addition, as RemoveNothing beside Remove, is that code with a plausible *)
(* slip. No action uses it: it tells which property would notice (README,  *)
(* Slips).                                                                 *)
(***************************************************************************)
EXTENDS PageState

CONSTANTS
  MaxTargets,   \* bound on the targets created; also the sessions a client names
  MaxContexts,  \* bound on the execution contexts created
  ChunkSize, MaxStreams, Drained,  \* see StreamStore
  PdfSizes,     \* lengths a PDF may have
  NoTarget,     \* no target: none created yet, or none on the command
  NoDrawing     \* the last command drew nothing

ASSUME SessionConstants ==
  /\ MaxTargets \in Nat
  /\ MaxContexts \in Nat
  /\ ChunkSize \in Nat \ {0}
  /\ MaxStreams \in Nat
  /\ Drained \notin [bytes : Nat, pos : Nat]
  /\ PdfSizes \subseteq Nat
  /\ NoTarget \notin 0 .. MaxTargets

VARIABLES
  page_counter,
  context_counter,
  last_target,
  pages,           \* session key -> page, for the keys that have one
  stream_counter,
  streams,         \* handle -> stream
  out,             \* what the last command put on the wire, in order
  drawn,           \* the display list the last command drew, and for whom
  attached         \* the sessions the client was told of and not told away

Store == INSTANCE StreamStore WITH counter <- stream_counter, open <- streams

counters == <<page_counter, context_counter, last_target>>
store == <<stream_counter, streams>>
wire == <<out, attached>>
vars == <<counters, pages, store, wire, drawn>>

Sessions == 0 .. MaxTargets
TargetArgs == 0 .. MaxTargets \cup {NoTarget}

ImplicitSession == 0

(* The target and the session answered when there is none to answer with. *)
FallbackTarget == 1
FallbackSession == 1

-----------------------------------------------------------------------------
(* Outputs.  `to` is the session the message is stamped with, 0 for none.  *)
(* `subject` is the identifier it announces and `of` what that belongs to: *)
(* a session of a target, an execution context of a frame.                 *)

Message(what, to, subject, of) ==
  [what |-> what, to |-> to, subject |-> subject, of |-> of]

Response(s) == Message("response", s, 0, 0)
Error(s) == Message("error", s, 0, 0)
BrowserEvent(what, subject, of) == Message(what, ImplicitSession, subject, of)

Announced(messages, what) ==
  {messages[i].subject : i \in {j \in DOMAIN messages : messages[j].what = what}}

(* The command puts these messages on the wire, and the client follows     *)
(* which sessions exist from the two events it has for that.               *)
Emit(messages) ==
  /\ out' = messages
  /\ attached' = (attached \cup Announced(messages, "attachedToTarget"))
                   \ Announced(messages, "detachedFromTarget")

-----------------------------------------------------------------------------
(* Pages. *)

Put(k, page) == [x \in DOMAIN pages \cup {k} |-> IF x = k THEN page ELSE pages[x]]

(* The page of a session as a read-only clone: `Session::page`. *)
PageOf(s) == IF s \in DOMAIN pages THEN pages[s] ELSE ImplicitPage

(* The page of a session, stored after a change: `Session::page_mut`.      *)
Update(s, page) == pages' = Put(s, page)

(* The sessions `session_of_target` may answer: its HashMap is searched in *)
(* no particular order.                                                    *)
SessionsOf(t) == {k \in DOMAIN pages : pages[k].target_id = t}

LastTarget == IF last_target = NoTarget THEN FallbackTarget ELSE last_target

(* Lay the page out for a medium: the "sheet" of a PDF, whose width comes  *)
(* with the command, or the "window" of the page.                          *)
Draw(s, medium, width) ==
  /\ Update(s, AfterLayout(PageOf(s), width))
  /\ drawn' = [page |-> s, medium |-> medium, asked |-> width,
               list |-> LayoutOf(PageOf(s), width)]

-----------------------------------------------------------------------------
(* handlers/target.rs *)

CreateTarget(s) ==
  LET n == page_counter + 1 IN
  /\ page_counter < MaxTargets
  /\ page_counter' = n
  /\ last_target' = n
  /\ pages' = Put(n, NewPage(n, n))
  /\ Emit(<< Message("targetCreated", s, n, n),
             Response(s),
             Message("attachedToTarget", s, n, n) >>)
  /\ drawn' = NoDrawing
  /\ UNCHANGED <<context_counter, store>>

(* Which target a command names, and the session told to the client. *)
AttachTo(s, target, session) ==
  /\ Emit(<< Message("attachedToTarget", s, session, target),
             Message("response", s, session, target) >>)
  /\ drawn' = NoDrawing
  /\ UNCHANGED <<counters, pages, store>>

AttachToTarget(s, arg) ==
  LET target == IF arg = NoTarget THEN LastTarget ELSE arg IN
  \/ \E k \in SessionsOf(target) : AttachTo(s, target, k)
  \/ SessionsOf(target) = {} /\ AttachTo(s, target, FallbackSession)

GetTargetInfo(s) ==
  /\ Emit(<< Message("response", s, LastTarget, 0) >>)
  /\ drawn' = NoDrawing
  /\ UNCHANGED <<counters, pages, store>>

RemoveNothing(k) == pages

Remove(k) == [x \in DOMAIN pages \ {k} |-> pages[x]]

(* Target.closeTarget, Target.detachFromTarget and Page.close. *)
CloseTarget(s, arg) ==
  LET target == IF arg = NoTarget THEN PageOf(s).target_id ELSE arg IN
  /\ \/ \E k \in SessionsOf(target) :
          /\ pages' = Remove(k)
          /\ Emit(<< Response(s),
                     BrowserEvent("detachedFromTarget", k, target),
                     BrowserEvent("targetDestroyed", target, target) >>)
     \/ /\ SessionsOf(target) = {}
        /\ Emit(<< Response(s), BrowserEvent("targetDestroyed", target, target) >>)
        /\ UNCHANGED pages
  /\ drawn' = NoDrawing
  /\ UNCHANGED <<counters, store>>

-----------------------------------------------------------------------------
(* handlers/page.rs *)

SetDocumentContent(s, html) ==
  /\ Update(s, SetHtml(PageOf(s), html))
  /\ LET frame == PageOf(s).frame_id IN
     Emit(<< Message("init", s, frame, 0),
             Message("load", s, frame, 0),
             Message("DOMContentLoaded", s, frame, 0),
             Message("networkIdle", s, frame, 0),
             Response(s) >>)
  /\ drawn' = NoDrawing
  /\ UNCHANGED <<counters, store>>

GetFrameTree(s) ==
  /\ Emit(<< Message("response", s, PageOf(s).frame_id, 0) >>)
  /\ drawn' = NoDrawing
  /\ UNCHANGED <<counters, pages, store>>

-----------------------------------------------------------------------------
(* handlers/print.rs *)

PrintToStream(s, width) ==
  /\ Draw(s, "sheet", width)
  /\ \E n \in PdfSizes : Store!Open(n)
  /\ Emit(<< Message("response", s, stream_counter + 1, 0) >>)
  /\ UNCHANGED counters

PrintInline(s, width) ==
  /\ Draw(s, "sheet", width)
  /\ Emit(<< Response(s) >>)
  /\ UNCHANGED <<counters, store>>

IORead(s, h) ==
  /\ Store!Read(h)
  /\ Emit(<< Response(s) >>)
  /\ drawn' = NoDrawing
  /\ UNCHANGED <<counters, pages>>

IOClose(s, h) ==
  /\ Store!Close(h)
  /\ Emit(<< Response(s) >>)
  /\ drawn' = NoDrawing
  /\ UNCHANGED <<counters, pages>>

-----------------------------------------------------------------------------
(* handlers/screenshot.rs *)

GetLayoutMetrics(s) ==
  /\ Draw(s, "window", PageOf(s).viewport.width)
  /\ Emit(<< Response(s) >>)
  /\ UNCHANGED <<counters, store>>

(* Drawing may still fail on the geometry asked for, after the layout. *)
CaptureScreenshot(s) ==
  /\ Draw(s, "window", PageOf(s).viewport.width)
  /\ \E answer \in {Response(s), Error(s)} : Emit(<< answer >>)
  /\ UNCHANGED <<counters, store>>

(* A format that is neither png nor jpeg is refused before the layout. *)
CaptureUnsupported(s) ==
  /\ Emit(<< Error(s) >>)
  /\ drawn' = NoDrawing
  /\ UNCHANGED <<counters, pages, store>>

SetDeviceMetricsOverride(s, width, height, scale) ==
  /\ Update(s, SetDeviceMetrics(PageOf(s), width, height, scale))
  /\ Emit(<< Response(s) >>)
  /\ drawn' = NoDrawing
  /\ UNCHANGED <<counters, store>>

ClearDeviceMetricsOverride(s) ==
  /\ Update(s, ClearDeviceMetrics(PageOf(s)))
  /\ Emit(<< Response(s) >>)
  /\ drawn' = NoDrawing
  /\ UNCHANGED <<counters, store>>

-----------------------------------------------------------------------------
(* handlers/runtime.rs: Runtime.enable and Page.createIsolatedWorld. *)

NewContext(s) ==
  /\ context_counter < MaxContexts
  /\ context_counter' = context_counter + 1
  /\ Emit(<< Message("executionContextCreated", s, context_counter + 1, PageOf(s).frame_id),
             Message("response", s, context_counter + 1, 0) >>)
  /\ drawn' = NoDrawing
  /\ UNCHANGED <<page_counter, last_target, pages, store>>

(* Every other method is accepted with no effect. *)
Accept(s) ==
  /\ Emit(<< Response(s) >>)
  /\ drawn' = NoDrawing
  /\ UNCHANGED <<counters, pages, store>>

(* A message that is not JSON gets no answer. *)
IgnoreUnparsed ==
  /\ Emit(<< >>)
  /\ drawn' = NoDrawing
  /\ UNCHANGED <<counters, pages, store>>

-----------------------------------------------------------------------------
Init ==
  /\ page_counter = 0
  /\ context_counter = 0
  /\ last_target = NoTarget
  /\ pages = << >>
  /\ Store!StoreInit
  /\ out = << >>
  /\ drawn = NoDrawing
  /\ attached = {}

TargetCommand(s) ==
  \/ CreateTarget(s)
  \/ GetTargetInfo(s)
  \/ \E arg \in TargetArgs : AttachToTarget(s, arg) \/ CloseTarget(s, arg)

PageCommand(s) ==
  \/ \E html \in Documents : SetDocumentContent(s, html)
  \/ GetFrameTree(s)
  \/ NewContext(s)
  \/ Accept(s)

PrintCommand(s) ==
  \/ \E width \in Widths : PrintToStream(s, width) \/ PrintInline(s, width)
  \/ \E h \in Store!Handles : IORead(s, h) \/ IOClose(s, h)

ScreenCommand(s) ==
  \/ GetLayoutMetrics(s)
  \/ CaptureScreenshot(s)
  \/ CaptureUnsupported(s)
  \/ \E width \in Widths \cup {Absent}, height \in Heights \cup {Absent},
        scale \in Scales \cup {Absent} :
       SetDeviceMetricsOverride(s, width, height, scale)
  \/ ClearDeviceMetricsOverride(s)

Next ==
  \/ \E s \in Sessions :
       TargetCommand(s) \/ PageCommand(s) \/ PrintCommand(s) \/ ScreenCommand(s)
  \/ IgnoreUnparsed

Spec == Init /\ [][Next]_vars

-----------------------------------------------------------------------------
(* Properties. *)

Kinds ==
  {"response", "error", "targetCreated", "attachedToTarget", "detachedFromTarget",
   "targetDestroyed", "init", "load", "DOMContentLoaded", "networkIdle",
   "executionContextCreated"}
Messages == [what : Kinds, to : Nat, subject : Nat, of : Nat]
Drawings ==
  [page : Sessions, medium : {"sheet", "window"}, asked : Widths, list : DisplayLists]

TypeOK ==
  /\ page_counter \in 0 .. MaxTargets
  /\ context_counter \in 0 .. MaxContexts
  /\ last_target \in 1 .. page_counter \cup {NoTarget}
  /\ DOMAIN pages \subseteq Sessions
  /\ \A k \in DOMAIN pages : pages[k] \in PageStates
  /\ Store!StoreTypeOK
  /\ \A i \in DOMAIN out : out[i] \in Messages
  /\ drawn \in Drawings \cup {NoDrawing}
  /\ attached \subseteq Nat

(* No page ever holds a display list of a document it no longer has, over  *)
(* any sequence of setDocumentContent, printToPDF, getLayoutMetrics and    *)
(* captureScreenshot on it and on the other pages (page.rs: "Emptied       *)
(* whenever the HTML changes").                                            *)
CachesAreFresh == \A k \in DOMAIN pages : CacheIsFresh(pages[k])

(* The cache of a page stays within its two slots and spends neither on a  *)
(* width it already has.                                                   *)
CachesAreTight == \A k \in DOMAIN pages : CacheIsTight(pages[k])

(* A page is the implicit one or a created one, and a created one is found *)
(* under the session of its own number with the frame of that number: a    *)
(* command for one created page can reach no other, and attaching to or    *)
(* closing a created target finds exactly its page, whatever the order in  *)
(* which `session_of_target` searches.                                     *)
CreatedPagesAreApart ==
  \A k \in DOMAIN pages :
    \/ pages[k].target_id = ImplicitTarget /\ pages[k].frame_id = ImplicitFrame
    \/ pages[k].target_id = k /\ pages[k].frame_id = k /\ k \in 1 .. page_counter

(* The targets created and still open. *)
OpenTargets == {t \in 1 .. MaxTargets : SessionsOf(t) # {}}

(* A created target that was closed is never open again: no later command, *)
(* not even one still addressed to its session, brings it back.            *)
ClosedTargetsStayClosed ==
  [][\A t \in 1 .. page_counter : t \notin OpenTargets => t \notin OpenTargets']_vars

(* Closing always withdraws what was announced: a session the client was   *)
(* told of, and not told away, has a page, and every created page that is  *)
(* open was announced.  The one exception is the fallback session, which   *)
(* attachToTarget announces for a target nobody owns.                      *)
ClientKnowsThePages ==
  /\ OpenTargets \subseteq attached
  /\ attached \subseteq DOMAIN pages \cup {FallbackSession}

(* Every rendering of a page shows the document last set on that session,  *)
(* laid out at the width asked for, and what is done to a page is seen     *)
(* through that page only: the caching session implements the browser that *)
(* caches nothing.                                                         *)
TheBrowser ==
  INSTANCE Browser WITH
    Keys <- Sessions,
    DefaultWidth <- DefaultViewport.width,
    doc <- [k \in Sessions |-> PageOf(k).html],
    window <- [k \in Sessions |-> PageOf(k).viewport.width]

ImplementsBrowser == TheBrowser!Spec

(* printToPDF as a stream answers a handle that was never given out, whose *)
(* bytes are all there to be read, and leaves the other streams, at        *)
(* whatever point their readers are, as they were.                         *)
PrintAnswersAReadableStream ==
  [][stream_counter' # stream_counter =>
       LET h == out'[1].subject IN
       /\ h \notin DOMAIN streams
       /\ h \in DOMAIN streams' /\ streams'[h].pos = 0
       /\ \A x \in DOMAIN streams : streams'[x] = streams[x]]_vars
=============================================================================
