\* Two handles and two grants, each slot used twice; the pool never fills.
CONSTANTS
  HandleCapacity = 2
  GrantCapacity = 2
  PoolWords = 12
  Maps = {}
  MaxHandleVersion = 3
  MaxGrantVersion = 3
SPECIFICATION Spec
INVARIANTS FreeListsSound GrantListsExact InverseIndexAgrees RevocationIsFinal
CHECK_DEADLOCK FALSE
