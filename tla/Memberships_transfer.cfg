SPECIFICATION Spec
CONSTANTS
  ann = ann
  bob = bob
  cat = cat
  ea = ea
  eb = eb
  NoUser = NoUser
  NoEmail = NoEmail
  NoProc = NoProc
  NoInv = NoInv
  Users = {ann, bob}
  Emails = {eb}
  Procs = {p1, p2}
  InvIds = {i1}
  Profiles <- SharedProfiles
  RoleInputs = {"editor"}
PROPERTY NewOwnerIsAMember
