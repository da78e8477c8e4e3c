CONSTANTS
  Key = {k1, k2}
  Absent = Absent
  MaxTime = 2
  Seconds = {1}
  Horizon = 100
  StepsBack = FALSE
  AllocFails = FALSE
  Ops = {"SET", "APPEND", "PUSH", "POP", "LSET", "LINSERT", "SADD", "SREM", "SMOVE", "SUNION", "SINTER", "SDIFF", "GEOADD", "GEOSEARCHSTORE", "DEL"}
  MaxSize = 2
  Estimates = {0, 1}
  Limits = {0, 4}
  has_active_del_ = TRUE
SPECIFICATION BusySpec
INVARIANTS
  TypeOK
  HandlesLostOnlyByDeadline
PROPERTIES
  RefusedIsUntouched
  OomOnlyWithoutGarbage
  ObjectsKeepTypeAndDeadline
  LiveObjectsStay
  ExpiredGoes
