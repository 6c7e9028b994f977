CONSTANTS
  User = {u1, u2, u3}
  Contest = {c1}
  Name = {n1}
  TeamId = {t1, t2}
  Code = {k1, k2}
  Request = {r1}
  Blank = Blank
  None = None
  Gone = Gone
  MaxSize = 3
  MaxTime = 2
  Ops = {"create", "join", "leave", "update", "renew"}
  Env = {"lock", "fault", "badges"}
  Tabs = 1
SPECIFICATION QuietSpec
SYMMETRY Symmetry
CHECK_DEADLOCK FALSE

INVARIANT ConsistentAtRest
PROPERTY ImplementsService
