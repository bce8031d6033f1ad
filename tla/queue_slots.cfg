\* Three rows of two sources, every setting up to two slots, no failure.
CONSTANTS
  a = a
  b = b
  a1 = a1
  a2 = a2
  b1 = b1
  Job = {a1, a2, b1}
  Source = {a, b}
  SourceOf <- TwoSources
  Batches <- SingleBatches
  EntryRefs = {TRUE}
  MaxSlots = 2
  Faults = {}
SPECIFICATION Spec
INVARIANTS
  TypeOK
  NoSlotIdles
PROPERTIES
  WithinLimits
  OldestFirst
SYMMETRY RowSymmetry
