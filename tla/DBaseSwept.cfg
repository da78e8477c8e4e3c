\* The clock only moves on and no allocation fails; a sweep takes one key or
\* two, and a deadline may be now: other keys can expire again and again.
CONSTANTS
  Key = {k1, k2, k3}
  Val = {v1}
  Absent = Absent
  MaxTime = 4
  Seconds = {0, 1, 2}
  Horizon = 100
  Batch = {1, 2}
  StepsBack = FALSE
  AllocFails = FALSE
SPECIFICATION SweptSpec
INVARIANT EveryDeadlineQueued
PROPERTIES
  ImplementsTtlStore
  NoKeyStarves
