CONSTANTS
  Contents <- MCContents
  Usables = {3}
  MaxSlices = 3
SPECIFICATION Spec
INVARIANTS ACutNeverSplitsABox
CHECK_DEADLOCK FALSE
