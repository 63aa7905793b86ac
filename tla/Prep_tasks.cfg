SPECIFICATION MCSpec
CONSTANTS
  NoUser = NoUser
  NoTask = NoTask
  NoDate = NoDate
  Users = {ann, bob}
  Procs = {p1, p2}
  TaskIds = {t1}
  Dates = {d1}
SYMMETRY Symm
INVARIANTS Inv DatesWereDays
PROPERTIES FinishedKeepsAssignee FinishedByAssignee
