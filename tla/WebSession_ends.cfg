SPECIFICATION FairSpec
CONSTANTS
  Slots = {c1, c2}
  Tabs = {b1}
  Fetches = {f1, f2}
  NoSlot = NoSlot
  MaxTokens = 2
  MaxPasswords = 0
PROPERTIES
  FetchEnds
