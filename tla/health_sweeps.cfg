\* Two sources, one of a followed series, that share a quota of one.
CONSTANTS
  a = a
  b = b
  Source = {a, b}
  Backed = {a}
  Untested = Untested
  Quota = 1
  Workers = 1
  Rungs = 2
  Delay <- Ladder
  AntibotCap = 1
  Refresh = 2
  Late = 0
  Faults = {"crash", "write"}
  Budget = 1
SPECIFICATION FairSpec
INVARIANTS
  CheckingIsReal
PROPERTIES
  AnsweringIsShown
  DueIsProbed
