CONSTANTS
  User = {u1}
  Contest = {c1}
  Name = {n1}
  TeamId = {t1}
  Code = {k1}
  Request = {r1, r2}
  Blank = Blank
  None = None
  Gone = Gone
  MaxSize = 2
  MaxTime = 0
  Ops = {"create", "update"}
  Env = {"lock"}
  Tabs = 2
SPECIFICATION Spec
SYMMETRY Symmetry
CHECK_DEADLOCK FALSE
PROPERTY LockIsKept
