SPECIFICATION Spec
CONSTANTS
  c1 = c1
  c2 = c2
  t1 = t1
  t2 = t2
  NoTask = NoTask
  Owner = owner
  N = 2
  Group <- TwoGroups
  Clients = {c1}
  Tasks = {t1, t2}
  Parent <- Nested
  Hint <- AllOnFirst
  Throws = {t2}
CHECK_DEADLOCK FALSE
PROPERTIES
  SubmittedRuns
  WaitIdleReturns
  DestructorEnds
