CONSTANTS
  a = a
  b = b
  c = c
  Htmls <- MCHtmls
  Images <- MCImages
  Documents <- MCDocuments
  Fetchable <- MCFetchable
  FileOf <- MCFileOf
  Blobs = {a, b, c}
  Faces = {0, 1}
  Captures <- MCCaptures
  Viewports <- MCViewports
  Unreadable = {2}
  InitialHeight = 8
  MaxHeight = 24
  MaxTiles = 12
  Supersample = 2
  MaxSide = 8
  MaxBitmap = 16
  MaxPixels = 3
  None = None
  AutoLength = AutoLength
  Absent = Absent
SPECIFICATION FairSpec
INVARIANTS
  TypeOK WholeElementsAreReplaced AnswerFits ListIsPaintable TilesCoverTheBox
  DrawnAsExtracted PixelsAreKept FullPageEitherWay
PROPERTIES EveryCaptureEnds
CHECK_DEADLOCK FALSE
