CONSTANTS
  Widths = {0, 1, 2, 3, 15, 16, 17}
  SmallWidth = 3
  Tail_ = 3
  Rows <- MCRows
SPECIFICATION Spec
INVARIANT FrameLengthMatches
