CONSTANTS
  Contest = {}
  Team = {t1}
  Member = {m1, m2}
  User = {u1}
  Null = {tNull}
  Content = {x1}
  Absent = Absent
  MaxGeneration = 2
SPECIFICATION Spec
INVARIANTS TypeOK CacheIsFresh SelectsTheGraph
PROPERTIES EntitiesStay SelectorsEnd
SYMMETRY Symmetry
