SPECIFICATION Spec
CONSTANTS
  NoTrip = NoTrip
  NoAct = NoAct
  NoKey = NoKey
  NoPlan = NoPlan
  NoProc = NoProc
  NoZone = NoZone
  Users = {u1}
  Procs = {p1, p2}
  ActIds = {1, 2}
  Keys = {k1}
  Spans <- SomeSpans
  Windows <- SomeWindows
  DayOf <- TwoZones
PROPERTY RetryGetsSavedResult
CHECK_DEADLOCK FALSE
