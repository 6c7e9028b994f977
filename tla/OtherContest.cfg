CONSTANTS
  User = {u1}
  Contest = {c1, c2}
  Name = {n1}
  TeamId = {t1}
  Code = {k1}
  Key = {p1}
  Task = {j1}
  Me = u1
  None = None
  Gone = Gone
  Unknown = Unknown
  MaxSize = 2
  MaxTime = 0
  Kinds = {"create", "contest"}
  Env = {}
  OneAtATime = TRUE
SPECIFICATION Spec
SYMMETRY Symmetry
CHECK_DEADLOCK FALSE
INVARIANT TeamIsOfContest
