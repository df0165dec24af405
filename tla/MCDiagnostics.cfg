SPECIFICATION Spec
CONSTANTS
  m1 = m1
  m2 = m2
  m3 = m3
  Main = main
  Workers = {w}
  Messages = {m1, m2, m3}
  Kind <- MCKind
  Delegates = {d1, d2}
  Contexts = {c1, c2}
  None = None
  Unmade = Unmade
  Ended = Ended
INVARIANTS TypeOK CountMatches ManagerMatches ShownOnce
PROPERTY CalmIsShown
CHECK_DEADLOCK FALSE
