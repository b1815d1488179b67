SPECIFICATION Spec
CONSTANTS
  h1 = h1
  h2 = h2
  c1 = c1
  c2 = c2
  r1 = r1
  r2 = r2
  s1 = s1
  s2 = s2
  o1 = o1
  Handlers = {h1, h2}
  Clubs = {c1, c2}
  Ranks = {r1, r2}
  PushedIds = {s1, s2}
  Permitted = {c1}
  Days = {1, 3, 7}
  ClubDays <- MCClubDays
  Requests <- MCRequests
  OtherSlots = {o1}
  SlotPushes <- MCSlotPushes
  Stored <- MCStored
  StoredSlots <- MCStoredSlots
  NoRow = NoRow
  NoId = NoId
  Nobody = Nobody
  MaxCode = 3
  MaxRequests = 3
  MaxRows = 3
  Fragile = {c1}
  MaxGone = 1
  MaxFaults = 1
SYMMETRY MCSymmetry
CHECK_DEADLOCK FALSE
INVARIANTS ImportsTypeOK CollisionsExplained
PROPERTY ReportIsTrue
