CONSTANTS
  User = {u1, u2}
  Contest = {c1}
  Name = {n1}
  TeamId = {t1}
  Code = {k1}
  Request = {r1, r2}
  Blank = Blank
  None = None
  Gone = Gone
  MaxSize = 2
  MaxTime = 0
  Ops = {"create", "join", "leave"}
  Env = {}
  Tabs = 1
SPECIFICATION Spec
SYMMETRY Symmetry
CHECK_DEADLOCK FALSE
INVARIANT DeletedMeansEmpty
