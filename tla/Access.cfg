SPECIFICATION Spec
CONSTANTS
  Ips = {ip1}
  Limit = 1
  Window = 2
  MaxTime = 2
  Attempts = {a1, a2}
  Users = {u1, u2}
  First = u1
  NoUser = NoUser
  RoleSets = {{"qc"}, {}}
  Links = {l1}
  NoLink = NoLink
  Slots = {p1, p2}
  TTL = 1
  MaxAge = 1
SYMMETRY Alike
INVARIANTS
  TypeOK
  WindowBounded
  RolesLapse
  LinkUsesBounded
