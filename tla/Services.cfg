SPECIFICATION MCSpec
SYMMETRY MCSymmetry
CHECK_DEADLOCK FALSE
CONSTANTS
  Size = 4
  MaxMinor = 5
  Timeout = 1
  MaxTime = 4
  PlacesUntil = 3
  c1 = c1
  c2 = c2
  Callers = {c1, c2}
  Users = {u1}
  Keys = {k1}
  Refs = {r1}
  Nowhere = nowhere
  Pace = 1
  Patience = 1
  Window = 2
  Limit = 2
  Lifetime = 1
  q1 = q1
  q2 = q2
  Requests = {q1, q2}
  s1 = s1
  s2 = s2
  t1 = t1
  t2 = t2
  t3 = t3
  Subjects = {s1, s2}
  Tokens = {t1, t2, t3}
  Holder <- MCHolder
  Open = {t1, t2}
  Capacity = 1
  KeepFor = 1
  Nobody = nobody
INVARIANTS
  SettlementInv
  AllocatesAll
  SuggestionsSettle
  PlacesInv
  Paced
  SlidingBound
  RowsAsStated
  NeverStaler
PROPERTIES
  AnswersAge
