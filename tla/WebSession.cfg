SPECIFICATION Spec
CONSTANTS
  Slots = {c1, c2}
  Tabs = {b1}
  Fetches = {f1, f2}
  NoSlot = NoSlot
  MaxTokens = 3
  MaxPasswords = 1
SYMMETRY Symmetry
INVARIANTS
  TypeOK
  OldSessionsSpared
  SessionsUnforked
  StoredIsCurrent
