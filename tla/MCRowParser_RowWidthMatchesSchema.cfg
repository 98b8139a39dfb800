CONSTANTS
  MaxLen = 3
  MaxCols = 2
  Types <- MCTypes
  Calls <- MCCalls
SPECIFICATION Spec
INVARIANT RowWidthMatchesSchema
