CONSTANTS
  User = {u1, u2}
  Contest = {c1, c2}
  Name = {n1}
  TeamId = {t1, t2}
  Code = {k1, k2}
  Key = {p1}
  Task = {j1}
  Me = u1
  None = None
  Gone = Gone
  Unknown = Unknown
  MaxSize = 2
  MaxTime = 0
  Kinds = {"create", "join", "leave", "code", "open", "key", "contest"}
  Env = {"strangers", "loss"}
  OneAtATime = TRUE
SPECIFICATION Spec
SYMMETRY Symmetry
CHECK_DEADLOCK FALSE
INVARIANT InStep
PROPERTY OnlyLateAnswersMix
