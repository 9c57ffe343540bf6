SPECIFICATION Spec
CONSTANTS
  Units = {u1}
  Slots = {p1, p2}
  MoveTargets = {"installation", "completed"}
  ManagerTokens = {m1}
  OfficeTokens = {o1}
  NoToken = NoToken
INVARIANTS
  TypeOK
  AdvanceBacked
PROPERTIES
  ImplementsLedger
  ClosedOnSignature
  SignatureKept
  ResetHolds
