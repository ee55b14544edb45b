SPECIFICATION Spec
CONSTANTS
  all = all
  part = part
  paid = paid
  line = line
  none = none
  Operations = {all, part, paid}
  ByHand = {paid}
  Items = {line}
  Sold <- TwoSold
  Wanted <- FourWanted
  Resalable <- DamagedUnlessPart
  Callers = {w1, w2}
  NoOperation = none
INVARIANTS
  MoneyBackWithinSale
