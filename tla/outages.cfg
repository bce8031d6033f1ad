\* Two series, one of them with a job, and an ad-hoc download: everything that may
\* disturb them, under fairness.
CONSTANTS
  e1 = e1
  e2 = e2
  j1 = j1
  j2 = j2
  NoEntry = NoEntry
  Job = {j1, j2}
  Entry = {e1, e2}
  EntryOf <- SecondAdHoc
  OutageEntries = 2
  Window = 1
  Silence = 1
  Escalation = 2
  RetryMax = 1
  RetryCap = 1
  Delay <- Waits
  LongAgo = 3
  Disruptions = {"hold", "leave", "delist"}
SPECIFICATION FairSpec
INVARIANTS
  EscalationEarned
PROPERTIES
  RetriesGoOn
  SuspensionEnds
  EscalationStands
  ClosingRestarts
