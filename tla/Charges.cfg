SPECIFICATION Spec
CONSTANTS
  c1 = c1
  c2 = c2
  k1 = k1
  k2 = k2
  p1 = p1
  w1 = w1
  none = none
  Charges = {c1, c2}
  Carts = {k1, k2}
  Products = {p1}
  Reconcilers = {r1}
  CartOf <- TwoCarts
  Lines <- TwoAndOne
  Weighted = {}
  InitialStock <- TwoPieces
  Movements <- MinusOne
  AdjustedRange <- Shrinkage
  Retirable = {p1}
  KioskServing = FALSE
  NoCharge = none
INVARIANTS
  TypeOK
  SaleBacked
  HoldsMatchJournal
  StockLedger
  FailureHasCause
  NoMoneyWrittenOff
PROPERTIES
  SalesRespectHolds
  KeepsPromise
