CONSTANTS
  Key = {k1, k2}
  Val = {v1}
  Absent = Absent
  MaxTime = 3
  Seconds = {1}
  Horizon = 100
  Batch = {1}
  StepsBack = FALSE
  AllocFails = FALSE
SPECIFICATION Spec
PROPERTY ExpiredStaysExpired
