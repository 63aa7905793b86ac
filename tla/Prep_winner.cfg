SPECIFICATION MCSpec
CONSTANTS
  NoUser = NoUser
  NoTask = NoTask
  NoDate = NoDate
  Users = {ann, bob}
  Procs = {p1, p2}
  TaskIds = {t1}
  Dates = {}
SYMMETRY Symm
PROPERTY ClaimsHaveOneWinner
