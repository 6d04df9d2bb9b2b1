CONSTANTS
  Key <- Keys
  MaxLength = 2
  Bucket <- TwoBuckets
  Chunk = {c1, c2, c3, c4}
  NULL = NULL
  MaxFlows = 3
SPECIFICATION Spec
SYMMETRY ChunksAlike
INVARIANTS TypeOK ForgottenByTrie ChainsHoldTheLiving
PROPERTIES WildcardIsPrefix ImplementsFlowStore
CHECK_DEADLOCK FALSE
