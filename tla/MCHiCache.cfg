SPECIFICATION Spec
CONSTANTS
  MaxBatch = 2
  Settings <- MCSettings
INVARIANTS PoolsExact KVCorrect TreeExact
