\* Two rows of one source, linked or ad hoc, with crashes and refused writes.
CONSTANTS
  a = a
  b = b
  a1 = a1
  a2 = a2
  b1 = b1
  Job = {a1, a2}
  Source = {a}
  SourceOf <- OneSource
  Batches <- PairBatches
  EntryRefs = {TRUE, FALSE}
  MaxSlots = 2
  Faults = {"crash", "write"}
SPECIFICATION Spec
INVARIANTS
  RunsMatchRows
  SlotAccounting
PROPERTIES
  ImplementsLifecycle
