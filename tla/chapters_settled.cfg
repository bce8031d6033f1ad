\* Requests for known chapters only, under fairness.
CONSTANTS
  c1 = c1
  c2 = c2
  r1 = r1
  local1 = local1
  Id = {c1, c2}
  LocalId = {local1}
  NumberOf <- Numbers
  NoNumber = 0
  ReidMin = 6
  Disruptions = {}
SPECIFICATION FairSpec
INVARIANTS
  QueuedHasJob
PROPERTIES
  QueuedSettles
