\* The packs are applied, nothing fails.
CONSTANTS
  n1 = n1
  l1 = l1
  l2 = l2
  l3 = l3
  h1 = h1
  h2 = h2
  h3 = h3
  sub2 = sub2
  Native = {n1}
  Legacy = {l1, l2, l3, n1}
  Host = {h1, h2, h3, sub2}
  NoHost = NoHost
  SameSite <- Same
  MaxVersion = 3
  NativeHost <- Moves
  LegacyHost <- Sites
  Faults = {}
  Budget = 0
SPECIFICATION Spec
INVARIANTS
  OnlyCuratedSitesMissing
