CONSTANTS
  MinCols = 1
  MaxCols = 1
  MaxText = 1
  Truncate = TRUE
  TextChars = {"1", "N", "BSL", "TAB", "LF", "BS", "WIDE"}
  Types <- MCTypes
  Calls <- MCCalls
SPECIFICATION MCSpec
INVARIANT TruncatedReadIsUnterminated
