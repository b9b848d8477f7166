# TLA+ models of lightpolars

lightpolars is a headless rendering engine that speaks the subset of the Chrome
DevTools Protocol (CDP) Puppeteer needs for `page.pdf()` and `page.screenshot()`.
This directory models the parts of it that keep state or decide an order, checks
them with TLC on small instances, and proves the main results with TLAPS for
every value of the constants.

Paths below are relative to `src/crates/`. "Mapped" definitions, those that stand
for code, are listed with their lines in `PROJECT.json`.

## The system

| Part | Source | State it keeps | Operations |
|---|---|---|---|
| Server process | `cdp-server/src/main.rs` | the listener, the spawned tasks, `OPEN_SESSIONS` | boot, bind, accept, serve a connection, answer a health check, stop on a signal or a failed accept |
| Lifecycle log | `cdp-server/src/lifecycle.rs` | a file that outlives the process | START, STOP, PANIC, and UNCLEAN at the boot after a run that left no STOP |
| CDP session | `cdp-server/src/session/mod.rs`, `wire.rs`, `handlers/` | counters, the last target, pages by session id, streams | one command in, a list of outputs out |
| Page | `cdp-server/src/session/page.rs` | document, viewport, two cached layouts | `set_html`, `layout`, metrics override and clear |
| Streams | `cdp-server/src/session/streams.rs` | buffers under handles | `open`, `read`, `close` |
| Print parameters | `cdp-server/src/print_params.rs` | none | inches to pixels, defaults |
| Layout and extraction | `render-core/` | within a call: resources collected, font table, paint order | HTML and a width to a display list |
| Pagination | `paginate/` | none across calls | display list to pages; slicing, filing, paint order, font table |
| PDF output | `pdf-out/` | within a call: fonts and bitmaps embedded | pages to a PDF |
| Screenshots | `cdp-server/src/handlers/screenshot.rs`, `paginate/src/capture.rs`, `raster-out/` | within a call: premultiplied bitmaps, the sheet | a frame of the display list to an image |
| Boundary types | `render-ir/` | none | `content_height`, outlines |

How they interact. `main.rs` accepts connections and runs each as a task on a
fixed set of worker threads; a task owns one `Session` and calls
`Session::handle` for each message, sending every output before it reads the
next message, while the client may already have sent more. `handle` holds `&mut self` and does not yield, so inside a session
commands are atomic and the hard part is the *sequence* of commands a client may
send. Between sessions nothing is shared but the worker threads, the counter
`OPEN_SESSIONS` and the log. A print goes session → page cache → `render_html`
→ `paginate` → `render_pdf` → stream store; a screenshot goes session → page
cache → `clip` or `whole_document` → raster output.

What is hard here, and what makes each part right:

* **Server and log.** Kills, failed binds, panics and signals at any point of a
  run, over several runs; tasks dropped with the runtime while a command is still
  on a worker. Right when a stop ends the process whatever clients do, every
  accepted connection is taken up, the counter equals what is counted, and the
  log can be read as a history of runs.
* **Session.** Any command may name any session or target: one that is open,
  closed, never given out, or none. Right when created pages stay apart, what the
  client was told agrees with the pages there are, and a closed target stays
  closed.
* **Page cache.** A cache of the most expensive computation, cleared by one
  operation and looked up by two others. Right when every answer is the
  present document at the width asked for, and when the PDF and the screenshot of a
  page do not evict each other.
* **Connection.** Commands sent ahead of their answers through a socket that
  fills up both ways and may break between two outputs of one command. Right when
  every command is answered once and in order, and what the client has of a
  document is always a prefix of it.
* **Streams.** Handles drained in turns, read after eof, closed half way; sizes
  on a chunk boundary. Right when every byte leaves once and in order, eof is said
  on exactly the last read, and handles are never reused.
* **Slicing.** A cut that moves during one pass over boxes that may nest, overlap
  or start above the document. Right when nothing is lost or printed twice,
  slices fit the sheet, the loop ends, and what fits on a page is not split.
* **Pages and painting.** Items filed on pages of unequal heights, three font
  tables made one, two lists merged by a number, bitmaps recognised by address.
  Right when the document stays between the margins, paint order is kept, each
  run keeps its font and each image its bitmap.
* **Extraction.** Resources that come in between two layouts and change the first,
  a height found by doubling, a number for every painted thing whether or not it
  is seen, tiles cropped in whole pixels. Right when the list is that of the
  whole document, its order can be painted, and tiles cover their box once.
* **Screenshots.** A cache that goes by the address of a buffer, groups of runs
  drawn with one scaler, pixels compacted over themselves. Right when the picture
  is the list.

`PROJECT.json` lists the hazards at their lines, with the properties against each.

## Modules

| Module | Models | Composes |
|---|---|---|
| `PageState` | one page: operators on a page record | |
| `LayoutCache` | a page under any sequence of `set_html` and `layout`, with the history of the layouts run | `PageState` |
| `StreamStore` | the stream store: `Open`, `Read`, `Close` | |
| `StreamClient` | the store under any client, with what was sent of each document | `StreamStore`, refines `ByteStreams` |
| `Connection` | the message loop of `serve`: a client that sends ahead, a socket, the handlers that move streams | `StreamClient` |
| `ByteStreams` | what the IO domain promises | |
| `Session` | one CDP session, one action per command | `PageState`, `StreamStore`; refines `Browser` |
| `Browser` | what a session promises a client that renders: no cache | |
| `Lifecycle` | the log file and how its end is read back | |
| `Server` | the process over several runs, its tasks, the log | `Lifecycle` |
| `Slicer` | cutting a document into sheets, one loop iteration a step | |
| `Paginate` | a document with header and footer made into pages, and the pages drawn | `Slicer` |
| `InlineSvg` | the scan that turns `<svg>` elements of a text into images | |
| `Backgrounds` | tile size, range, crop; the size an SVG is rasterised at | |
| `Extraction` | resources, the search for the height, the walk, font interning | `Backgrounds` |
| `Raster` | the frame of a capture, drawing a list, compacting its pixels | `Extraction` |
| `Screenshot` | one picture from its HTML text to its bytes | `InlineSvg`, `Raster` |
| `MC*` | the constants of the TLC instances | |
| `*Proofs` | the theorems | |

### Correspondence

**Identifiers** are numbers: `target-n`, `session-n`, `frame-n`, `stream-n` are
`n`. Session key 0 is `session-implicita`; target 0 is `target-implicito`, but
the frame of an implicit page is `frame-1`, the very string of the first created
page, and the model keeps that coincidence (`ImplicitFrame == 1`). A client may
put any key in `0 .. MaxTargets` on any command, which includes keys never given
out.

**A display list** is `Rendering(html, width)`: `render_html` has no other input,
so the pair it is computed from says everything a cache can get wrong about it.
Widths are compared for equality only, as the code compares bits.

**Session.** `PageOf` is `Session::page` (a clone, nothing stored), `Update` is
`page_mut` followed by a change (an implicit page is created under a key that had
none). `SessionsOf(t)` is the set of keys `session_of_target` may answer: it
searches a `HashMap` in no particular order, so attach and close choose from the
set. `out` holds the messages the last command put on the wire, in order;
`attached` follows what a client concludes from `attachedToTarget` and
`detachedFromTarget`; `drawn` is the display list the last command drew. The
three are history: no command reads them. Commands with no effect on the state
(`Browser.getVersion`, `Runtime.evaluate`, unknown methods...) are `Accept`.

**Streams.** Bytes are numbered, so a buffer is its length and a chunk is an
interval. `Drained` stays in the map until closed, as in the code.

**Connection.** `Take` is one turn of the loop of `serve`: the head of the inbox is
handled to its end, and `outbox` holds what `handle` returned. `Send` is one
`sink.send`, which waits while the socket is full; `Take` waits for an empty
outbox. Commands that touch no stream are a number of events with the answer among
them, as in `Session`, where attach announces before it answers and create after.
An answer carries the command it answers, as it carries its id in the code.
`Break` is every way a connection ends; the outputs not sent are lost and any
number of those on their way.

**Server.** A connection goes spawned → peeked → health, or → open → handling →
sending → open, and ends from any of these where its task waits. `handling` is
the only state in which a task occupies a worker (`handle` is synchronous);
`Polling` says that some worker is free. Dropping the runtime (`Exit`) waits for
the tasks in `handling` and drops the others. `Panic` leaves out the decrement of
the counter, as unwinding does. `Kill` is anything that ends the process with no
trace: SIGKILL, out of memory, a stack overflow in layout.

**Log.** A line is its event and the run that wrote it; beside the lines the file
is kept as bytes that begin or continue a character, because the reading at boot
starts at a byte offset and fails in the middle of a character. A line is assumed
shorter than the tail read back, which its fixed texts are by far (`TailLen` is
4096 in the code).

**Slicer.** Boxes and images are one sequence of blocks, in the order the code
chains them. Coordinates are integers; the code's `f32` adds and compares them
exactly up to 2^24. `Propose` is the loop condition and the natural end of the
slice, `PullBack` one box of the pass, `Cut` the push and the two guards.

**Paginate.** A job is the arguments of `paginate` and `render_pdf`: a document, a
header, a footer, a geometry. The slicing runs first, as `Slicer` with the
document of the job; then each slice opens a page (`OpenPage`, with what
`append_shifted` puts on it) and each list of the document is filed item by item,
boxes, texts, images, in the code's order. Drawing follows `painted` and
`draw_text` one item a step. `at` holds the three loop indices, `ops` what is drawn
on the present page: which item, and under which number of a font or a bitmap in
the PDF. `glyphs` of a run is the font it was shaped with, for a glyph id means
nothing in another; `Unreadable` are the fonts `ParsedFont::from_bytes` refuses. A
bitmap is its size and its buffer, and two buffers may hold the same pixels. The
function that draws is given the font table of `merge_fonts`, as its comment
demands; the server passes neither header nor footer, and then that table is the
document's own.

**Inline SVG.** A text is a sequence of tokens as coarse as the scan tells them
apart. `</svgfoo>` counts as `</svg>`, as in the code, which looks at five bytes;
`<svgfoo>` is text, for `find_svg_open` looks at the byte after the name.

**Extraction.** A document is given by its elements in tree order, with the place
each has at a height and with the resources there: `shares` is how much of the
viewport's height lies above it (`vh`), `push` how far an image moves it down once
it has come. `LayOut` is the first resolve of an attempt, `Load` the drain of the
collector with the second resolve, then come one action per painted part and
`Answer` or `Grow`. What the parse asks for is counted with what the first resolve
asks for, as nothing reads the collector between. Items keep the element and
layer they came from; the code's do not, and no action reads them.

**Backgrounds.** Lengths are integers. An edge inside a pixel of the image is kept
as a multiple of `1/unit` px, so cropping outwards to whole pixels and clamping
back into the box are exact; tile sizes and offsets divide evenly in the
instances, since the rounding of `f32` is not modelled.

**Screenshots.** A buffer is named by what allocated it, which is what an address
tells apart while the list lives. `shows` of an operation is the pixels it draws,
from the cache if the buffer is known there. A page is the list with every item
moved by the origin of the frame; nothing is discarded, so the list itself is
drawn. The compaction is followed byte by byte, for at most `MaxPixels` pixels.

## Runs

| Run | Distinct states | What it shows |
|---|---|---|
| `Connection` | 340,099 | commands sent ahead are answered once and in order, documents arrive as prefixes, refinement of `ByteStreams`; while the link holds nothing is forgotten and every stream is read to its end |
| `LayoutCache` | 1,599 | over four widths, every layout is the document at the width asked for; two widths never thrash |
| `SessionCommands` | 39,060 | two targets and two streams: identities, what the client was told, new and whole streams |
| `SessionRendering` | 54,902 | caches fresh and tight; refinement of `Browser` |
| `ServerRuns` | 17,975 | three boots: the counter and the log; a stop ends; accepted connections are taken up |
| `Slicer` | 1,244,131 | every document of up to three blocks on a grid of six rows |
| `Paginate` | 169,596 | 8,064 jobs: paint order, fonts, margins, bitmaps |
| `Screenshot` | 43,717 | 801 texts rewritten, 136 documents extracted and each drawn under four captures in three windows |

Bounds, and why they are enough:

* `Connection`: chunks of 2 with sizes 0, 2 and 3 give a document of no bytes, one
  that ends on a chunk and one that goes over; two handles interleave. A message in the inbox,
  one in the wire and up to two in the outbox suffice for a command behind
  outputs behind outputs.
* `LayoutCache`: four widths are two more than there are slots.
* `SessionCommands`: two targets are the first one, whose frame and session the
  fallbacks name, and another; with the implicit key there are three keys, open
  or not. Streams of one and three bytes in chunks of two end on their first
  chunk or later. Nothing here depends on the document or the width: one each.
* `SessionRendering`: one created page and the implicit one, two documents
  (one set, one absent), three widths against two slots, and viewports over the
  same widths, so that a sheet and a window can share a slot.
* `ServerRuns`: with three boots there is a run with a predecessor and a
  successor; one worker makes tasks wait for one another. `TailLen` is 100, never
  reached: the log reads back whole. `ServerLongLog` has `TailLen = 4`.
* `Slicer`: pages of no, two and three rows against blocks of up to six, so that blocks fit,
  straddle one cut or two, overlap, nest, are empty and start above the origin;
  `MaxSlices = 3` stands for 10,000 and is reached.
* `Paginate`: up to two boxes and two images, so that orders interleave in every
  way and a cut is pulled back; documents of up to three pages, one of them cut
  short, so that a bitmap returns on a later page and page numbers and slice
  starts disagree; two good fonts and one that cannot be parsed, in the first, the
  second and the last table; headers and footers empty, with texts, with a box and
  a logo; a sheet that is all margin.

* `Screenshot`: texts of up to four tokens nest twice, close themselves inside an
  element, and are torn. Boxes of 8 by 12 with tiles that do and do not fit,
  shifted before and past both edges, and twelve tiles as the cap; a search of
  two doublings (8, 16, 24, the last one cut by the cap) against contents that
  fit at once, later, or grow with the window; resources that come in the first
  pass, in a later one, or never; two blobs of one font file, two faces, a file
  that cannot be parsed; frames scaled down by the limit on the bitmap.

The two session runs have a `VIEW` that leaves out history variables. That is
sound: no action reads `out`, `drawn` or `attached`, so two states that differ in
them only have the same successors up to them, and each run's view keeps the ones
its invariants and its refinement read (`attached` for the first, `drawn` for the
second). Action properties, which may read `out'`, are checked on every step TLC
generates, also on those that lead to a state already seen.

`CHECK_DEADLOCK FALSE` is set where the system really ends: the server after its
last boot, the slicer and the printing when they are done.

### Fairness

* `Connection`: the task of a connection goes on when it can and the client takes
  what reaches it (weak fairness of `Take`, `Send` and `Receive`): tokio polls a
  woken task, and `sink.send` and `stream.next` wake it. A client that holds a
  handle asks for more of it again and again (strong fairness of that request:
  the one place in the inbox may be taken by its other requests in between). Only
  `EveryStreamEnds` uses the last. `Break` has no fairness and is never excluded:
  both properties hold or the link is down.
* `Server`: the process goes on once it is leaving, since these are plain
  statements (weak fairness of `Stop`, `Drop`, `Exit`); handlers return, and each
  woken task is eventually polled. The last is strong fairness of `Begin`: with
  one worker a task is not continuously runnable, since another session can
  occupy the worker again and again, but tokio's run queue serves it in its turn.
  Nothing is assumed of clients: they may be silent for ever, and no fairness is
  given to `Receive`, `Sent` or `End`.
* `Slicer`, `Screenshot`: straight-line code runs to its end (weak fairness of
  `Next`).

### Where the code and its words differ

Each of these runs checks one sentence of the repository and ends in a
counterexample.

| Run | Sentence | What the code does |
|---|---|---|
| `ServerCount` | `lifecycle.rs:22`: "Sessões WebSocket abertas agora" | a panic leaves the counter one too high |
| `ServerLongLog` | `lifecycle.rs:25`: UNCLEAN "se a execução anterior não terminou com STOP" | the tail may begin inside a character, then nothing is reported |
| `SlicerOverlap` | the repository's `README.md:97`: "sem partir caixa ou imagem ao meio" | overlapping boxes can be split by a cut pulled back later in the pass |
| `SvgAccents` | `svg/inline.rs:20`: "Replaces every `<svg>…</svg>`" | a character of several bytes inside an element makes the scan panic |

More are visible in the models and have no run:

* The implicit page and the first created one both have `frame-1`, although
  `session/page.rs:16` says each page "needs its own sessionId and frameId"
  (`CreatedPagesAreApart` states what does hold).
* Attaching to a closed target announces `session-1`, possibly another target's,
  where `tests/protocol.rs:95` says "attach must find the existing page session".
  The last clause of `ClientKnowsThePages` is that fallback.
* `lifecycle.rs:71` says STOP "deve ser a última linha de uma execução normal", but
  a command still on a worker may write PANIC after it, and the next boot then
  reports an unclean end. `ShortLogReadsAsRuns` allows for it.
* A run whose bind failed has written START and no STOP, so the next boot reports
  it as `lifecycle.rs:41` reports "SIGKILL, OOM ou crash".
* `page.rs:46` says of `append_shifted` that "each list keeps its own ascending
  `order`": a header with a box or an image of its own puts orders from 0 before
  the document's, which start from 0 again. A header item of a high order then
  holds back the document's items filed after it, and a box can cover an image it
  belongs under; `PaintedInOrder` therefore asks for headers and footers of text.
  The server passes none.
* A clip is drawn at its own scale and a window at the density of its screen, so
  in a window of density 2 the two ways of taking the whole page come out at
  different sizes. `FullPageEitherWay` is about windows of density 1.
* A resource named only by another one (an image in a style sheet) is collected in
  the second resolve and given to the document in the next attempt, which there
  may not be. `AnswerFits` says so.
* A document with elements as tall as the window and others beneath them outgrows
  every window it is given; the search ends at the cap and the page is as tall.

For the slicer, `slicer.rs:79` itself limits the claim to "the linear flow of a
rich-text editor"; that limited claim is `LinearFlowIsNotSplit`, which is checked
and proved.

### Slips

Beside some definitions the modules hold the same code with a plausible slip:
`SetHtmlOnly` forgets to clear the cache, `TakeEarly` takes a command while outputs
of the last are waiting, `FontKeyOfBlob` forgets the face, and so on. Nothing uses
them. For each property of each passing run `PROJECT.json` ("mutants") names one
that, put in place of the definition, makes TLC report that property.

## Proofs

`tlapm <Module>Proofs.tla` checks them. The assumptions are the named `ASSUME`s of
the modules: bounds are naturals, sentinels are outside the sets they are
sentinels for, the default viewport is a viewport, lines are not longer than the
tail. TLC evaluates them in the runs.

* **`PageStateProofs`**: lemmas on the page operators. The core is
  that a lookup after `AfterLayout` finds an entry of the width asked for, and
  that a fresh and tight cache stays so. Freshness alone is not enough to carry
  through a lookup in a session: the entry found *first* is answered, so types and
  tightness go with it.
* **`LayoutCacheProofs`**: `Fresh`, `LastIsKept`, `TwoOutputsShareTheCache`.
  `Fresh` compares what a layout returned with the width it was asked for, which
  the history variable `wanted` keeps: an answer of another width from the cache
  would be of the right document and still wrong. The
  last is not inductive alone: the invariant adds that every cached width was
  asked for (`CachedIsAsked`), from which a cache that has evicted anything has
  seen three widths.
* **`StreamProofs`**: `Delivery`, `Progress` and the refinement of `ByteStreams`,
  step by step: `Open` is `Issue`; a read is `Send` if the store holds bytes and
  `SendNothing` if not; `Close` is `Forget`. A step of `Connection` is one of
  `StreamClient` or leaves the store alone, so that both carry over. For
  `RepliesInOrder` the invariant sees the wire, the outbox and the inbox as one
  line of messages: every step takes from its head, adds to its end or puts
  outputs in the place of the command at the border, and the count of commands up
  to a place moves accordingly. That border is the end of the outbox *because*
  `Take` waits for it to be empty. `ClientCollectsInOrder` goes over the same
  line: chunks of a handle follow on one another, the first on what the client
  has and the last up to what the store has sent.
* **`SessionProofs`**: every command does one of six things to the pages (keep,
  open, close, rewrite, render, resize), one lemma per group of commands; the
  invariant `PageInv` and the refinement of `Browser` are then proved once per
  effect instead of once per command. `ClosedTargetsStayClosed`,
  `ClientKnowsThePages` and `PrintAnswersAReadableStream` rest on it.
* **`ServerProofs`**: `CountIsExplained` by cardinalities of the set of counted
  connections, and `ShortLogReadsAsRuns`, whose invariant adds what the last line
  is while a run is starting and while it is running, and that tasks exist only
  under a runtime.
* **`SlicerProofs`**: slices tile the document from its top to where the next one
  starts (`TilingInv`), hence `EveryItemLandsOnce` and `SlicesFitTheSheet`.
  For `LinearFlowIsNotSplit` the invariant of the pass is that no block already
  passed straddles the cut, and that one that starts the page and fits on it ends
  above the cut. A pull for a later block could break the first only if that
  block starts inside an earlier one; in a linear flow it then lies inside it, so
  the earlier one straddled the cut before. `SlicingGetsOn` is the safety half of
  termination: see below.
* **`PaginateProofs`**: first that printing slices as `Slicer` does, so that the
  theorems about slices hold of it (`SlicesAreSound`). `DocumentStaysInItsBand`
  then needs only that a slice is no taller than the band. For `DrawnInItsFont` the
  invariant is that every run on a page, wherever it came from, has a font index
  whose entry in the merged table is the font of its glyphs (`FontInv`), which is
  where the offsets must be right. For `ImagesShowTheirBitmap`: what is embedded
  has no repetition, and each operation names the place of its bitmap. For
  `PaintedInOrder`: the lists of every page ascend, since an item is filed only
  after those before it in the document (`PageOrderInv`), and what has been drawn
  lies under all that the merge has left (`PaintInv`). The assumptions on a job
  (`PaginateConstants`) are what the extraction guarantees: ascending lists and font
  indices within the table.

* **`ScreenshotProofs`**: `TypeOK` needs one more fact, that operations are a list
  (`SInv`); it also carries that an answered list has a height, that the buffer of
  pixels has the size of the sheet, and `PixelsAreKept`: a pixel is written at `3p`
  and read at `4p`, so no byte still to be read lies at or below one written. For
  `ListIsPaintable` the invariant (`PInv`) places the walk: everything in the lists
  has an order below the next and lies below what the walk paints next, colours
  under layers under content under later elements; and every font key met leads
  to its font. `FullPageEitherWay` is arithmetic over the two branches of
  `frame_to_draw`. For `DrawnAsExtracted` the first half (`BInv`) is about the walk:
  a buffer names one picture, because a resource has one size, a layer one
  rasterisation, and a crop a place of its own that the walk does not return to; the
  second (`DInv`) about the merge: what is drawn shows its item, lies under all that
  is left, and nothing passed was left out but what cannot be seen or read. For
  `WholeElementsAreReplaced` (`SvgInv`) the element being measured has been open all
  along, at the depth counted, which is a difference of two cardinalities.
  For `AnswerFits` the invariant (`HInv`) says of the attempt in progress that its
  height is a doubling of the first or the cap, that every height tried before was
  too short, and that each end painted so far is *explained* by the element or run
  it came from, at the height and with the resources it was laid out with. An end
  that is too low thus names an element that reaches below; and it still does in
  the document answered, since resources are only ever added and push down. That
  doublings exist, agree and ascend needs induction over numbers, stated as "the
  least exception of a well-founded order" (`LeastException`), for the library's
  induction rules take an operator.
  For `TilesCoverTheBox` (`TInv`) the list holds exactly the tiles of the layer
  passed and seen, each as `Tile` makes it. The rest is arithmetic, one axis at a
  time: the tile over a cell is a quotient (`TileOverIs`), it is painted
  (`TileOverIsPainted`), no other covers the cell (`OneTile`), and the pixels kept,
  which are rounded outwards, include the cell's own (`PixelIsKept`); the number
  of a tile in its layer is then the pair of its column and row (`TileNumber`).

`SlicingGetsOn`, `PrintingGetsOn` and `CapturesGetOn` are about loops ending. Each
has a measure `ToGo`, a tuple of naturals compared by its first difference
(`Precedes`), of what is left: the document below and the blocks of a pass; the
slices, the items to file and to draw; the text to scan, the heights to try, the
elements, their parts, their tiles and runs, the items to draw and the pixels to
compact. Every step lowers it, and `PrecedingEnds` says that the order has no
endless way down. So no legal run of the code makes infinitely many steps, however
the cuts are pulled back, the header's items fill a page or the content grows with
the window. They show why: a cut always lies below the one before, so that the cap
of slices is not what ends the loop; the search for a height ends because one that
is not enough is below the cap. They need facts of their own: a pass is made only
while something is left (`EndInv`), and the scan looks on from where it has copied
to (`RInv`). That a step is *possible* until the end is `ENABLED`, which stays
with TLC in `Terminates`, `EveryCaptureEnds` and the check for deadlock.

Only model-checked:

* the liveness properties (`EveryCommandIsAnswered`, `EveryStreamEnds`, `StopEnds`,
  `AcceptedIsTakenUp`, `Terminates`, `EveryCaptureEnds`), which need fairness and
  ENABLED, beyond this prover;
* that the measures above, having come down, bring a run to its end: a step over
  infinitely many steps, which the temporal backend cannot take for a measure;
* the counterexamples above.

## Not modelled

* Parsing, style, text shaping and layout are the blitz, stylo and parley
  libraries: `Extraction` is given what they answer. `tree.iter()` is taken to go
  in document order, as its use in `extract.rs` does.
* `style.rs` and the registration of `@font-face` (`fonts.rs`) convert values and
  keep no state; `net.rs` beyond which resources reach the collector is base64.
* Curves, colours, image encoders and the operands of PDF operators:
  floating-point and library calls with no state between them.
* Print parameters (`print_params.rs`): inches to pixels; what they change of the
  state is the width asked of the cache, which `Session` enumerates.
* JSON parsing and the wording of messages; a text that is not JSON is
  `IgnoreUnparsed`, and `Unparsed` in `Connection`.
* The bytes of the health check: `Peek` chooses either branch. There is no bound
  on how long a silent peer keeps its task, so none is checked.
* Items above the document's top, or starting exactly at its end when the last
  page is full, are on no page. `EveryItemLandsOnce` says so in its precondition.
* Arithmetic overflow of the `u32` counters (4 billion pages or prints on one
  connection) and failed writes to the log, which the code ignores on purpose.
* Examples, benchmarks and acceptance tests have no behaviour of their own.

## Plan

What is left, in order of what matters most:

1. `@font-face` registration and its order against the first layout, if `fonts.rs`
   grows a cache across documents.
2. Rounding of tiles in `f32`: the crop over lengths that do not divide evenly.
3. A measure for a connection as there is for the loops (`ToGo`): what a client has
   sent and not been answered, and what it has not read of its streams.
