SPECIFICATION Spec
CONSTANTS
  Units = {u1}
  Slots = {p1, p2}
  MoveTargets = {"shipment", "commissioning"}
  MaxDockets = 1
INVARIANTS
  TypeOK
  DraftIffUnsent
PROPERTIES
  ImplementsLedger
  SentDocketKept
