\* One native connector and four legacy ones, one with its id and one without
\* a usable url; three packs and two failures.
CONSTANTS
  n1 = n1
  l1 = l1
  l2 = l2
  l3 = l3
  h1 = h1
  h2 = h2
  h3 = h3
  sub2 = sub2
  Native = {n1}
  Legacy = {l1, l2, l3, n1}
  Host = {h1, h2, h3, sub2}
  NoHost = NoHost
  SameSite <- Same
  MaxVersion = 3
  NativeHost <- Moves
  LegacyHost <- Sites
  Faults = {"network", "disk", "crash", "delete"}
  Budget = 2
SPECIFICATION FairSpec
INVARIANTS
  CuratedSitesStayOurs
PROPERTIES
  PackReached
