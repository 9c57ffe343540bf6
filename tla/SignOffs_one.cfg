SPECIFICATION FairSpec
CONSTANTS
  Units = {u1}
  Slots = {p1}
  MoveTargets = {"pre_deployment", "installation", "completed"}
  Stages = {"stage1a", "stage1b", "installation"}
  MaxPhotos = 1
PROPERTIES
  ImplementsLedger
  SyncCatchesUp
