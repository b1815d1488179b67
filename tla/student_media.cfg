SPECIFICATION Spec
CONSTANTS
  h1 = h1  h2 = h2  s1 = s1  s2 = s2  m1 = m1  m2 = m2  m3 = m3
  b = b  c1 = c1  c2 = c2  none = none  ann = ann
  NoRow = NoRow
  Handlers = {h1, h2}
  Students = {s1, s2}
  MediaIds = {m1, m2, m3}
  Batches = {b}
  Codes = {c1, c2, none}
  Names = {ann}
  CodeOf <- Code
  NameOf <- Name
  Requests <- AllRequests
  MaxFiles = 2
  MaxRequests = 3
  MaxGone = 1
  MaxFaults = 1
SYMMETRY HandlerSymmetry
INVARIANTS MediaTypeOK LiveHasObjects StagedUntilStored NoLeftovers
CHECK_DEADLOCK FALSE
