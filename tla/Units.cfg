SPECIFICATION Spec
CONSTANTS
  Units = {u1, u2, u3}
  NoUnit = NoUnit
  Serials = {s1, s2}
  NoSerial = NoSerial
  Items = {i1}
  NoItem = NoItem
  Slots = {p1, p2}
  MaxQty = 2
  MaxPurges = 1
SYMMETRY Alike
INVARIANTS
  TypeOK
  StockConserved
PROPERTIES
  ImplementsStockLedger
