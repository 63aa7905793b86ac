SPECIFICATION Spec
CONSTANTS
  ann = ann
  bob = bob
  cat = cat
  ea = ea
  eb = eb
  NoUser = NoUser
  NoEmail = NoEmail
  NoProc = NoProc
  NoInv = NoInv
  Users = {ann, bob}
  Emails = {ea, eb}
  Procs = {p1, p2}
  InvIds = {i1, i2}
  Profiles <- ChangingProfiles
  RoleInputs = {"editor"}
SYMMETRY Symm
INVARIANTS Inv OneDecision ReplacementNeverCollides AcceptedByInvitee
PROPERTY ExpiredStaysUndecided
