SPECIFICATION DefectSpec
CONSTANTS
  Units = {u1, u2, u3}
  NoUnit = NoUnit
  Serials = {s1, s2, s3}
  NoSerial = NoSerial
  Items = {}
  NoItem = NoItem
  Slots = {p1, p2}
  MaxQty = 0
  MaxPurges = 0
  MaxReports = 1
SYMMETRY Alike
INVARIANTS
  DefectTypeOK
  ReplacementExists
  ReportTruthful
  ReplacementLinked
PROPERTIES
  OnlyRetiredPurged
