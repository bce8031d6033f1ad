\* Two imports of a folder of two series, which may be one series of two
\* sources; a tool, a user and crashes disturb them.
CONSTANTS
  m1 = m1
  m2 = m2
  title = title
  Job = {j1, j2}
  Bulk = Bulk
  Path = {p1, p2}
  NoPath = NoPath
  Manga = {m1, m2}
  NoManga = NoManga
  TitleOf <- OneTitle
  Hits <- OneHit
  j1 = j1
  j2 = j2
  AutoConfirm <- Unattended
  p1 = p1
  p2 = p2
  Scans <- Folders
  Workers = 2
  Budget = 2
SPECIFICATION FairSpec
INVARIANTS
  RunsHoldSlot
  ImportsOnce
PROPERTIES
  ChoicesKept
  CancelStops
  RunsEnd
