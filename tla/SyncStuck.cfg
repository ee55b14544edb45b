SPECIFICATION FairSpec
CONSTANTS
  a = a
  b = b
  Devices = {a, b}
  Rows = {}
  Products = {}
  Kiosks = {}
  Counter = counter
  Cycles = {c1}
  Nobody = nobody
  Overlap <- OneEach
  BatchLimit = 1
  PageLimit = 2
  Skew <- NoSkew
  SameInstant = FALSE
  IdAfter <- AsDrawn
  MaxWrites <- OneEach
  Hosts = {}
PROPERTIES EveryoneHears
