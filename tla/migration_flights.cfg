\* One numbered chapter, two sources, two flights at a time.
CONSTANTS
  a1 = a1
  b1 = b1
  c1 = c1
  c2 = c2
  None = None
  Home = a1
  Source = {a1, b1}
  Chapter = {c1}
  Numbered = {c1}
  Actor = {"immediate", "backstop", "check", "bulk", "rematch", "detect", "request"}
  EagerUndo = FALSE
  MaxFlights = 2
  MaxSnaps = 2
  Budget = 2
SPECIFICATION FairSpec
INVARIANTS
  ProbeExclusion
  WayBack
PROPERTIES
  FilesStayVisible
  FailuresResume
  OldSourceRests
  DetectionFresh
  FailingIsProbed
CHECK_DEADLOCK FALSE
