SPECIFICATION Spec
CONSTANTS
  Units = {u1, u2, u3}
  NoUnit = NoUnit
  Sites = {s1, s2}
  NoSite = NoSite
  Names = {n1, n2}
  NoName = NoName
  Addresses = {a1}
  NoAddress = NoAddress
  Slots = {p1, p2}
SYMMETRY Alike
INVARIANTS
  TypeOK
  AddressesApart
