SPECIFICATION FairSpec
CONSTANTS
  Units = {u1}
  Slots = {p1}
  MoveTargets = {"installation", "commissioning", "completed"}
  ManagerTokens = {m1, m2}
  OfficeTokens = {o1}
  NoToken = NoToken
INVARIANTS
  LinkSignsOnce
  ReacceptedAfterReset
PROPERTIES
  SignedCatchesUp
