SPECIFICATION Spec
CONSTANTS
  NoUser = NoUser
  NoRow = NoRow
  NoSource = NoSource
  NoJob = NoJob
  New = New
  Nobody = Nobody
  ann = ann
  bob = bob
  Users = {ann, bob, cyd}
  Procs = {p1}
  Standings <- BobRecords
  Ties = {TRUE}
  Currencies = {php}
  CostIds = {}
  PaymentIds = {}
  LoanIds = {l1}
  ReceiptIds = {r1}
  Legacy = {}
  Keys = {k1}
  MaxMinor = 1
  MaxVersion <- ReceiptsTwice
PROPERTIES RecipientConfirms
CHECK_DEADLOCK FALSE
