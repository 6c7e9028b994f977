CONSTANTS
  User = {u1}
  Contest = {c1}
  Name = {n1}
  TeamId = {t1}
  Code = {k1}
  Key = {p1, p2}
  Task = {j1, j2}
  Me = u1
  None = None
  Gone = Gone
  Unknown = Unknown
  MaxSize = 2
  MaxTime = 0
  Kinds = {"create", "join", "leave", "code", "open", "key", "contest"}
  Env = {"others", "loss"}
  OneAtATime = FALSE
SPECIFICATION FairSpec
CHECK_DEADLOCK FALSE
INVARIANTS TypeOK TasksAreListed ShownIsPending ShowsWhatItHas
PROPERTIES FacetsAreKept PendingStays TasksEnd
