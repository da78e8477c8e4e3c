\* Three keys so that a sweep of one or two has to choose; a clock that may be
\* set back, allocations that may fail, the second time too; a TTL of zero, one
\* that shares a deadline with another, and one that outlives it.
CONSTANTS
  Key = {k1, k2, k3}
  Val = {0, 5}
  Absent = Absent
  MaxTime = 3
  Seconds = {0, 1, 2}
  Horizon = 100
  Batch = {1, 2}
  StepsBack = TRUE
  AllocFails = TRUE
  ObjectSize = 3
  NodeSize = 4
  EntrySize = 2
  KeySize = 1
  BucketSizes = {0, 6}
  SizeRange = 1000
  MaxLost = 6
SYMMETRY Symmetry
SPECIFICATION MSpec
INVARIANTS
  TypeOK
  NoStaleEntry
  UsageIsExact
PROPERTIES
  OnlyExpiredCollected
  FailuresLoseNoKey
