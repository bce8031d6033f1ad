\* Everything the environment may do to one chapter, its next id and its file.
CONSTANTS
  c1 = c1
  c2 = c2
  r1 = r1
  local1 = local1
  Id = {c1, r1}
  LocalId = {}
  NumberOf <- Numbers
  NoNumber = 0
  ReidMin = 1
  Disruptions = {"adhoc", "remove", "rotate", "restart", "crash"}
SPECIFICATION Spec
PROPERTIES
  OriginRemembered
  CancelRestores
  SweepSkipsLost
  NoneAbandoned
