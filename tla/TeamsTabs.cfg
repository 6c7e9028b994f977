CONSTANTS
  User = {u1, u2, u3}
  Contest = {c1}
  Name = {n1}
  TeamId = {t1}
  Code = {k1, k2}
  Request = {r1, r2}
  Blank = Blank
  None = None
  Gone = Gone
  MaxSize = 1
  MaxTime = 0
  Ops = {"create", "join", "leave", "update", "renew"}
  Env = {"lock", "badges"}
  Tabs = 2
SPECIFICATION Spec
SYMMETRY Symmetry
CHECK_DEADLOCK FALSE
INVARIANTS TypeOK SizeBounded
PROPERTY FrozenOnceDrained
