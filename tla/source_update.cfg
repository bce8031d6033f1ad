\* Three images pinned to three commits, one suspect, with three failures, crashes or upgrades.
CONSTANTS
  i1 = i1
  i2 = i2
  i3 = i3
  c1 = c1
  c2 = c2
  c3 = c3
  f1 = f1
  f2 = f2
  p = p
  File = {f1, f2, p}
  Patched = {p}
  Image = {i1, i2, i3}
  Bundle <- Bundles
  Commit = {c1, c2, c3}
  Pin <- Pins
  Tree <- Checkouts
  MinConnectors = 2
  Nothing = Nothing
  Torn = Torn
  Faults = {"disk", "crash", "upgrade"}
  Budget = 3
SPECIFICATION Spec
INVARIANTS
  ManifestVouches
  LoadedFromOneCommit
PROPERTIES
  AllOrNothing
