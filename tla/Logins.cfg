CONSTANTS
  Account = {a1}
  Name = {n1}
  Symbol = {b1, b2}
  Badge = {b1}
  UserId = {u1, u2, u3}
  Login = {l1, l2}
  Window = {w1, w2}
  State = {s1, s2, s3}
  None = None
  UniqueAccounts = FALSE
  Faults = TRUE
  MaxBroken = 1
  OneRequest = TRUE
SPECIFICATION Spec
SYMMETRY Symmetry
CHECK_DEADLOCK FALSE
INVARIANTS TypeOK DuplicatesBounded AloneLoginIsExact LatestLoginOnly LoggedOutStaysOut
PROPERTY KeptBadgesStay
