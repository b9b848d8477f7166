CONSTANTS
  Html = {h1}
  NoHtml = NoHtml
  Widths = {700, 800, 900}
  Heights = {600}
  Scales = {1}
  DefaultViewport <- MCDefaultViewport
  Absent = Absent
  MaxTargets = 1
  MaxContexts = 0
  ChunkSize = 1
  MaxStreams = 0
  Drained = Drained
  PdfSizes = {}
  NoTarget = NoTarget
  NoDrawing = NoDrawing
SPECIFICATION Spec
PROPERTIES ImplementsBrowser
VIEW WithDrawn
