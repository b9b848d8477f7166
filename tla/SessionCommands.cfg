CONSTANTS
  Html = {}
  NoHtml = NoHtml
  Widths = {800}
  Heights = {600}
  Scales = {1}
  DefaultViewport <- MCDefaultViewport
  Absent = Absent
  MaxTargets = 2
  MaxContexts = 1
  ChunkSize = 2
  MaxStreams = 2
  Drained = Drained
  PdfSizes = {1, 3}
  NoTarget = NoTarget
  NoDrawing = NoDrawing
SPECIFICATION Spec
INVARIANTS TypeOK CreatedPagesAreApart ClientKnowsThePages
PROPERTIES ClosedTargetsStayClosed PrintAnswersAReadableStream
VIEW WithAttached
