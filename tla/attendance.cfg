SPECIFICATION Spec
CONSTANTS
  h1 = h1  h2 = h2  s1 = s1  n1 = n1  n2 = n2  ann = ann  bob = bob  c1 = c1  c2 = c2  p1 = p1  q1 = q1  p2 = p2  m1 = m1
  Inherit = Inherit  NoRow = NoRow  Nobody = Nobody
  Handlers = {h1, h2}
  ClientSessions = {s1}
  NewSessions = {n1, n2}
  RecordIds <- AllRecordIds
  ClientMessages = {m1}
  Students = {ann, bob}
  Clubs = {c1, c2}
  ClubOf <- OneClub
  ClubDays <- EveryDay
  CustomDays <- OnlyMonday
  Requests <- AllRequests
  Pushes <- AllPushes
  Permitted = {c1}
  Fragile = {c1}
  MaxGone = 1
  MaxDay = 1
  MaxRequests = 3
SYMMETRY HandlerSymmetry
INVARIANTS TypeOK NeverStuck
PROPERTIES RecordsFollowSession MessagesFollowSession OneSessionPerDay KeepsOtherFields ReopenedToday RefusedLeave
CHECK_DEADLOCK FALSE
