\* Room for two of four blocks and accesses nested three deep: every access can
\* evict, and the cache can run out.
SPECIFICATION CacheSpec
CONSTANTS
  Blocks = {1, 2, 3, 4}
  Values = {v1, v2}
  CacheSize = 2
  MaxHeld = 3
CHECK_DEADLOCK FALSE
INVARIANTS CacheInv RunsOutOnlyWhenAllHeld
PROPERTIES ImplementsStore
