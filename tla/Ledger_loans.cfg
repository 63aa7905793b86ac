SPECIFICATION Spec
CONSTANTS
  NoUser = NoUser
  NoRow = NoRow
  NoSource = NoSource
  NoJob = NoJob
  New = New
  Nobody = Nobody
  ann = ann
  bob = bob
  Users = {ann, bob}
  Procs = {p1,p2}
  Standings <- BobMoves
  Ties = {TRUE}
  Currencies = {php,usd}
  CostIds = {}
  PaymentIds = {}
  LoanIds = {l1}
  ReceiptIds = {r1,r2}
  Legacy = {r1}
  Keys = {k1}
  MaxMinor = 2
  MaxVersion <- AllTwice
SYMMETRY Symm
INVARIANTS Inv KeyMakesOneRecord SourcesStand BalancesMatchDebts SumsFit HistoryTellsAll
PROPERTIES LoansRepaidWithin NothingLost WritersOnly
CHECK_DEADLOCK FALSE
