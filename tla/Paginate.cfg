CONSTANTS
  f = f
  g = g
  broken = broken
  Fonts <- MCFonts
  Unreadable = {broken}
  Bitmaps <- MCBitmaps
  Jobs <- MCJobs
  MaxSlices = 4
SPECIFICATION Spec
INVARIANTS TypeOK PaintedInOrder DrawnInItsFont DocumentStaysInItsBand ImagesShowTheirBitmap
CHECK_DEADLOCK FALSE
