SPECIFICATION FairSpec
CONSTANTS
  c1 = c1  c2 = c2  e1 = e1  e2 = e2  e3 = e3
  Connected = Connected  Heartbeat = Heartbeat
  Conns = {c1}
  Events = {e1, e2, e3}
  Cap = 1
INVARIANTS TypeOK NoPanic
PROPERTIES BroadcastsEnd ServedOrGone NoLeak
CHECK_DEADLOCK FALSE
