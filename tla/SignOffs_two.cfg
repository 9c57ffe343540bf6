SPECIFICATION Spec
CONSTANTS
  Units = {u1}
  Slots = {p1, p2}
  MoveTargets = {"pre_deployment", "installation"}
  Stages = {"stage1b", "installation"}
  MaxPhotos = 1
INVARIANTS
  TypeOK
  StaleReadsHarmless
  InspectedWasPictured
  PhotoOvershootBounded
