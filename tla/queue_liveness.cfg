\* Two sources that share one slot, under fairness.
CONSTANTS
  a = a
  b = b
  a1 = a1
  a2 = a2
  b1 = b1
  Job = {a1, a2, b1}
  Source = {a, b}
  SourceOf <- TwoSources
  Batches <- SmallBatches
  EntryRefs = {TRUE}
  MaxSlots = 1
  Faults = {}
SPECIFICATION FairSpec
PROPERTIES
  CancelIsHeard
  BacklogDrains
