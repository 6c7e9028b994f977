CONSTANTS
  User = {u1, u2, u3}
  Contest = {c1}
  Name = {n1}
  TeamId = {t1}
  Code = {k1}
  Request = {r1, r2}
  Reader = {q1}
  Blank = Blank
  None = None
  MaxSize = 2
  MaxTime = 0
  Ops = {"create", "join", "leave", "update"}
  Env = {"lock", "fault"}
  Tabs = 1
SPECIFICATION ViewSpec
SYMMETRY Symmetry
CHECK_DEADLOCK FALSE
INVARIANTS ViewTypeOK CallerIsShown LockedAnswersAreFinal
