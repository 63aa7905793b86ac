SPECIFICATION Spec
CONSTANTS
  NoUser = NoUser
  NoRow = NoRow
  NoSource = NoSource
  NoJob = NoJob
  New = New
  Nobody = Nobody
  ann = ann
  bob = bob
  Users = {ann, bob}
  Procs = {p1}
  Standings <- BobRecords
  Ties = {TRUE,FALSE}
  Currencies = {php,usd}
  CostIds = {c1}
  PaymentIds = {y1,y2}
  LoanIds = {}
  ReceiptIds = {r1}
  Legacy = {}
  Keys = {c1}
  MaxMinor = 2
  MaxVersion <- AllTwice
SYMMETRY Symm
INVARIANTS KeyMakesOneRecord SourcesStand BalancesMatchDebts StatusAddsUp NeverOverRepaid
PROPERTIES NeverOverPaid
CHECK_DEADLOCK FALSE
