CONSTANTS
  MinCols = 0
  MaxCols = 1
  MaxText = 1
  Truncate = FALSE
  TextChars = {"1", "N", "BSL", "TAB", "LF", "BS", "WIDE"}
  Types <- MCTypes
  Calls <- MCCalls
SPECIFICATION MCSpec
INVARIANT RoundTrip
