CONSTANTS
  Key = {k1, k2}
  Absent = Absent
  MaxTime = 2
  Seconds = {1}
  Horizon = 100
  StepsBack = FALSE
  AllocFails = FALSE
  Ops = {"SET", "APPEND"}
  MaxSize = 1
  Estimates = {0, 1}
  Limits = {0}
  has_active_del_ = FALSE
SPECIFICATION BusySpec
PROPERTY ExpiredGoes
