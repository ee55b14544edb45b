SPECIFICATION Spec
CONSTANTS
  a = a
  b = b
  Devices = {a, b}
  Rows = {}
  Products = {}
  Kiosks = {kiosk}
  Counter = counter
  Cycles = {c1}
  Nobody = nobody
  Overlap <- OneEach
  BatchLimit = 1
  PageLimit = 2
  Skew <- NoSkew
  SameInstant = FALSE
  IdAfter <- AsDrawn
  MaxWrites <- OneAndTwo
  Hosts = {b}
INVARIANTS AppliedTookEffect
