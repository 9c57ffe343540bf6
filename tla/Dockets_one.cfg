SPECIFICATION FairSpec
CONSTANTS
  Units = {u1, u2}
  Slots = {p1}
  MoveTargets = {"shipment", "commissioning"}
  MaxDockets = 1
INVARIANTS
  TrackedMeansHandled
PROPERTIES
  ReceivedCatchesUp
