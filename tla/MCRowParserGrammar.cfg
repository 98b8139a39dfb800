CONSTANTS
  MaxLen = 5
  MaxCols = 2
  Types <- MCTypes
  Calls <- MCCalls
SPECIFICATION Spec
INVARIANT TypeOK
INVARIANT ParseFollowsGrammar
