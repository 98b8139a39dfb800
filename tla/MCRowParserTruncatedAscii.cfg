CONSTANTS
  MinCols = 1
  MaxCols = 2
  MaxText = 2
  Truncate = TRUE
  TextChars = {"1", "N", "BSL", "TAB", "LF", "BS"}
  Types <- MCTypes
  Calls <- MCCalls
SPECIFICATION MCSpec
INVARIANT TruncatedReadIsUnterminated
