SPECIFICATION Spec
CONSTANTS
  h1 = h1  h2 = h2  u1 = u1  u2 = u2  u3 = u3  m1 = m1  m2 = m2  i1 = i1  i2 = i2
  root = root  bob = bob  old = old  new = new  c = c
  NoRow = NoRow
  Handlers = {h1, h2}
  Emails = {root, bob}
  Passwords = {old, new}
  Clubs = {c}
  UserIds = {u1, u2, u3}
  MemberIds = {m1, m2}
  InviteIds = {i1, i2}
  AdminEmail = root
  AdminPassword = old
  Requests <- AllRequests
  InviteDays = 1
  MaxDay = 2
  MaxRequests = 4
  MaxRestarts = 1
SYMMETRY HandlerSymmetry
INVARIANTS TypeOK OneMembershipPerClub UsesOverlap UsedGivesMembership
PROPERTIES UsedIsFinal AnAdminStays
CHECK_DEADLOCK FALSE
