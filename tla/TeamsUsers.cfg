CONSTANTS
  User = {u1, u2, u3}
  Contest = {c1}
  Name = {n1, n2}
  TeamId = {t1, t2}
  Code = {k1, k2}
  Request = {r1, r2, r3}
  Blank = Blank
  None = None
  Gone = Gone
  MaxSize = 2
  MaxTime = 0
  Ops = {"create", "join", "leave"}
  Env = {"fault"}
  Tabs = 1
SPECIFICATION Spec
SYMMETRY Symmetry
CHECK_DEADLOCK FALSE
INVARIANTS MembershipsBounded AtMostOneCreator
