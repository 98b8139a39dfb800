CONSTANTS
  MinCols = 1
  MaxCols = 2
  MaxText = 2
  Truncate = FALSE
  TextChars = {"1", "N", "BSL", "TAB", "LF", "BS", "FF", "CR", "VT", "WIDE"}
  Types <- MCTypes
  Calls <- MCCalls
SPECIFICATION MCSpec
INVARIANT RoundTrip
