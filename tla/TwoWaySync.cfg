SPECIFICATION Spec
CONSTANTS
  a = a
  b = b
  Devices = {a, b}
  Rows = {row}
  Products = {row}
  Kiosks = {}
  Counter = counter
  Cycles = {c1}
  Nobody = nobody
  Overlap <- OneEach
  BatchLimit = 1
  PageLimit = 2
  Skew <- NoSkew
  SameInstant = FALSE
  IdAfter <- AsDrawn
  MaxWrites <- OneAndTwo
  Hosts = {}
INVARIANTS TypeOK PushedIsInCloud CloudIsOrdered NothingSkipped AppliedTookEffect RowsAgree
PROPERTIES KeepsCausalOrder
