------------------------ MODULE LibraryChaptersProofs ------------------------
(***************************************************************************)
(* What LibraryChapters.tla promises for any chapters, numbers and         *)
(* disruptions.  The inductive invariant is TypeOK and that what a queued  *)
(* chapter remembers is a status that can be queued; for QueuedHasJob, in  *)
(* an undisturbed library, it is Settled below: a queued                   *)
(* chapter keeps its job only because a completed job never has a chapter  *)
(* that can be asked for again, and that in turn only because no job comes *)
(* before its chapter.                                                     *)
(***************************************************************************)
EXTENDS LibraryChapters, TLAPS

USE ChaptersAssumption

-----------------------------------------------------------------------------
(* What the steps of the queue do to one job                                *)

JobsOK(jobs) == jobs \in [Key -> Queue!Status]

\* Requested rows are queued or started, other rows move only by a start.
LEMMA RequestEffect ==
  ASSUME JobsOK(job), NEW S, Queue!Request(S)
  PROVE  /\ JobsOK(job)'
         /\ S \subseteq Key
         /\ \A k \in S : job[k] \in {"absent", "failed", "cancelled"}
         /\ \A k \in S : job'[k] \in {"queued", "downloading"}
         /\ \A k \in Key \ S : \/ job'[k] = job[k]
                               \/ job[k] = "queued" /\ job'[k] = "downloading"
<1> DEFINE mid == Queue!Become(S, "queued")
<1>1. S \subseteq Key /\ \A k \in S : job[k] \in {"absent", "failed", "cancelled"}
  BY DEF Queue!Request, Queue!With
<1>2. PICK picks \in SUBSET {k \in Key : mid[k] = "queued"} :
        job' = [k \in Key |-> IF k \in picks THEN "downloading" ELSE mid[k]]
  BY DEF Queue!Request, Queue!ThenStart
<1>3. \A k \in Key : mid[k] = IF k \in S THEN "queued" ELSE job[k]
  BY DEF Queue!Become
<1>4. \A k \in Key : job'[k] = IF k \in picks THEN "downloading" ELSE mid[k]
  BY <1>2
<1>5. JobsOK(job)'
  <2>1. \A k \in Key : mid[k] \in Queue!Status
    BY <1>3 DEF JobsOK, Queue!Status
  <2> QED BY <1>2, <2>1 DEF JobsOK, Queue!Status
<1> HIDE DEF mid
<1> QED BY <1>1, <1>2, <1>3, <1>4, <1>5

\* A run that ends changes its row only.
LEMMA FinishEffect ==
  ASSUME JobsOK(job), NEW k \in Key, NEW outcome, Queue!Finish(k, outcome)
  PROVE  /\ JobsOK(job)'
         /\ job[k] = "downloading" /\ job'[k] = outcome
         /\ outcome \in {"completed", "failed", "cancelled"}
         /\ \A l \in Key \ {k} : job'[l] = job[l]
BY DEF JobsOK, Queue!Finish, Queue!Become, Queue!Finished, Queue!Status

\* Withdrawn rows were queued.
LEMMA WithdrawEffect ==
  ASSUME JobsOK(job), NEW S, NEW v, Queue!Withdraw(S, v)
  PROVE  /\ JobsOK(job)'
         /\ S \subseteq Key /\ v \in {"cancelled", "absent"}
         /\ \A k \in S : job[k] = "queued" /\ job'[k] = v
         /\ \A k \in Key \ S : job'[k] = job[k]
BY DEF JobsOK, Queue!Withdraw, Queue!With, Queue!Become, Queue!Finished, Queue!Status

\* Forgotten rows were finished.
LEMMA ForgetEffect ==
  ASSUME JobsOK(job), NEW S, Queue!Forget(S)
  PROVE  /\ JobsOK(job)'
         /\ S \subseteq Key
         /\ \A k \in S : job[k] \in {"completed", "failed", "cancelled"} /\ job'[k] = "absent"
         /\ \A k \in Key \ S : job'[k] = job[k]
BY DEF JobsOK, Queue!Forget, Queue!With, Queue!Become, Queue!Finished, Queue!Status

\* A restart drops finished rows and requeues the interrupted ones.
LEMMA RestartEffect ==
  ASSUME JobsOK(job), NEW S, Queue!Restart(S)
  PROVE  /\ JobsOK(job)'
         /\ S \subseteq Key
         /\ \A k \in S : job[k] \in {"completed", "failed", "cancelled"} /\ job'[k] = "absent"
         /\ \A k \in Key \ S : \/ job'[k] = job[k]
                               \/ job[k] = "downloading" /\ job'[k] = "queued"
BY DEF JobsOK, Queue!Restart, Queue!With, Queue!Finished, Queue!Status

-----------------------------------------------------------------------------
(* What the updates of library_chapters do to a table                       *)

\* Well-typed rows whose queued chapters remember where they came from.
RowsOK(rows) ==
  /\ rows \in [Key -> Row]
  /\ \A k \in Key : rows[k].status = "queued" => rows[k].prev \in Manual

\* Queueing keeps the rows well formed.
LEMMA MarkedOK ==
  ASSUME NEW STATE rows, RowsOK(rows), NEW S, NEW from, from \subseteq Manual
  PROVE  /\ RowsOK(Marked(rows, S, from))
         /\ \A k \in Key : rows[k] = NoRow => Marked(rows, S, from)[k] = NoRow
<1>1. \A k \in Key : rows[k] \in Row
  BY DEF RowsOK
<1>2. \A v \in Manual : [status |-> "queued", prev |-> v] \in Row
  BY DEF Row, ChapterStatus, Manual, WithBacklog, Grabbed
<1>3. \A k \in Key : rows[k].status \in from => [status |-> "queued", prev |-> rows[k].status] \in Row
  BY <1>2
<1>4. Marked(rows, S, from) \in [Key -> Row]
  BY <1>1, <1>3 DEF Marked
<1>5. \A k \in Key : Marked(rows, S, from)[k].status = "queued" => Marked(rows, S, from)[k].prev \in Manual
  BY DEF Marked, RowsOK
<1>6. \A k \in Key : rows[k] = NoRow => Marked(rows, S, from)[k] = NoRow
  BY DEF Marked, NoRow, Manual, WithBacklog, Grabbed
<1> QED BY <1>4, <1>5, <1>6 DEF RowsOK

\* So does reverting, ...
LEMMA RevertedOK ==
  ASSUME RowsOK(row), NEW S
  PROVE  /\ RowsOK(Reverted(S))
         /\ \A k \in Key : row[k] = NoRow => Reverted(S)[k] = NoRow
<1>1. \A k \in Key : row[k] \in Row
  BY DEF RowsOK
<1>2. \A v \in ChapterStatus : Fresh(v) \in Row /\ Fresh(v).status = v
  BY DEF Row, ChapterStatus, Fresh
<1>3. \A k \in Key : row[k].status = "queued" =>
        row[k].prev \in {"new", "missing", "failed", "lost"}
  BY DEF RowsOK, Manual, WithBacklog, Grabbed
<1>4. Reverted(S) \in [Key -> Row]
  BY <1>1, <1>2, <1>3 DEF Reverted, ChapterStatus
<1>5. \A k \in Key : Reverted(S)[k].status = "queued" => Reverted(S)[k] = row[k]
  BY <1>2, <1>3 DEF Reverted, ChapterStatus
<1>6. \A k \in Key : row[k] = NoRow => Reverted(S)[k] = NoRow
  BY DEF Reverted, NoRow
<1> QED BY <1>4, <1>5, <1>6 DEF RowsOK

\* ... and a report, which never queues.
LEMMA ReportedOK ==
  ASSUME RowsOK(row), NEW k \in Key, NEW v \in {"downloaded", "failed"}
  PROVE  /\ RowsOK(Reported(k, v))
         /\ \A l \in Key : row[l] = NoRow => Reported(k, v)[l] = NoRow
<1>1. Fresh(v) \in Row /\ Fresh(v).status # "queued"
  BY DEF Row, ChapterStatus, Fresh
<1>2. Reported(k, v) \in [Key -> Row]
  BY <1>1 DEF Reported, RowsOK
<1>3. \A l \in Key : Reported(k, v)[l].status = "queued" => Reported(k, v)[l] = row[l]
  BY <1>1 DEF Reported, RowsOK
<1>4. \A l \in Key : row[l] = NoRow => Reported(k, v)[l] = NoRow
  BY DEF Reported, Rows, NoRow, RowsOK
<1> QED BY <1>2, <1>3, <1>4 DEF RowsOK

\* A handler leaves its rows before or after its second write.
LEMMA PersistOK ==
  ASSUME NEW STATE before, NEW STATE after, RowsOK(before), RowsOK(after),
         \A k \in Key : before[k] = NoRow => after[k] = NoRow,
         Persist(before, after)
  PROVE  /\ RowsOK(row)' /\ up' \in BOOLEAN
         /\ \A k \in Key : before[k] = NoRow => row'[k] = NoRow
<1>1. CASE row' = after /\ up' = TRUE
  BY <1>1 DEF RowsOK
<1>2. CASE row' = before /\ up' = FALSE
  BY <1>2 DEF RowsOK
<1> QED BY <1>1, <1>2 DEF Persist

-----------------------------------------------------------------------------
(* Types and pre-queue statuses                                             *)

LinksOK(jobs, links) ==
  /\ links \in [Key -> {"none", "current", "stale"}]
  /\ \A k \in Key : jobs[k] = "absent" => links[k] = "none"

CascadeOK(e, rows, links) ==
  e = "none" => \A k \in Key : rows[k] = NoRow /\ links[k] # "current"

\* Only a chapter that may be asked for is ever queued.
QueuedWasAskable ==
  \A k \in Key : row[k].status = "queued" => row[k].prev \in Manual

Inv == TypeOK /\ QueuedWasAskable

\* The invariant, part by part.
LEMMA InvParts ==
  Inv <=> /\ entry \in {"none", "snapshotting", "tracked"}
          /\ RowsOK(row) /\ JobsOK(job) /\ LinksOK(job, link)
          /\ backup \subseteq Key /\ up \in BOOLEAN
          /\ CascadeOK(entry, row, link)
BY DEF Inv, TypeOK, QueuedWasAskable, RowsOK, JobsOK, LinksOK, CascadeOK, Queue!TypeOK

\* Its parts after a step.
LEMMA InvNext ==
  ASSUME entry' \in {"none", "snapshotting", "tracked"},
         RowsOK(row)', JobsOK(job)', LinksOK(job, link)',
         backup' \subseteq Key, up' \in BOOLEAN, CascadeOK(entry, row, link)'
  PROVE  Inv'
BY DEF Inv, TypeOK, QueuedWasAskable, RowsOK, JobsOK, LinksOK, CascadeOK, Queue!TypeOK

\* What enqueue() does to jobs and links.
LEMMA AskEffect ==
  ASSUME JobsOK(job), LinksOK(job, link), NEW S \in SUBSET Key, NEW forEntry, Ask(S, forEntry)
  PROVE  /\ JobsOK(job)' /\ LinksOK(job, link)'
         /\ \A k \in S : job[k] \notin Active => job'[k] \in {"queued", "downloading"}
         /\ \A k \in Key : \/ k \in S /\ job[k] \notin Active
                           \/ job'[k] = job[k]
                           \/ job[k] = "queued" /\ job'[k] = "downloading"
         /\ \A k \in Key : link'[k] = IF k \in S /\ forEntry /\ (job[k] \notin Active \/ link[k] = "none")
                                      THEN "current" ELSE link[k]
<1> DEFINE asked == {k \in S : job[k] \notin Active}
<1>1. Queue!Request(asked)
  BY DEF Ask
<1>2. /\ JobsOK(job)'
      /\ \A k \in asked : job[k] \in {"absent", "failed", "cancelled"}
      /\ \A k \in asked : job'[k] \in {"queued", "downloading"}
      /\ \A k \in Key \ asked : \/ job'[k] = job[k]
                                \/ job[k] = "queued" /\ job'[k] = "downloading"
  <2> HIDE DEF asked
  <2> QED BY <1>1, RequestEffect
<1>3. \A k \in Key : link'[k] = IF k \in S /\ forEntry /\ (job[k] \notin Active \/ link[k] = "none")
                                THEN "current" ELSE link[k]
  BY DEF Ask
<1>4. link' \in [Key -> {"none", "current", "stale"}]
  BY DEF Ask, LinksOK
<1>5. \A k \in Key : job'[k] = "absent" => link'[k] = "none"
  <2> SUFFICES ASSUME NEW k \in Key, job'[k] = "absent" PROVE link'[k] = "none"
    OBVIOUS
  <2>1. k \notin asked /\ job[k] = "absent"
    BY <1>2
  <2>2. k \notin S
    BY <2>1 DEF Active
  <2> QED BY <2>1, <2>2, <1>3 DEF LinksOK
<1> QED BY <1>2, <1>3, <1>4, <1>5 DEF LinksOK

\* Rows that lose their job lose their link.
LEMMA UnlinkedOK ==
  ASSUME LinksOK(job, link), NEW S, link' = Unlinked(S),
         \A k \in Key \ S : job'[k] = "absent" => job[k] = "absent"
  PROVE  /\ LinksOK(job, link)'
         /\ \A k \in Key : link'[k] = "current" => link[k] = "current"
BY DEF LinksOK, Unlinked

\* Requests keep the links.
LEMMA SameLinksOK ==
  ASSUME LinksOK(job, link), link' = link,
         \A k \in Key : job'[k] = "absent" => job[k] = "absent"
  PROVE  LinksOK(job, link)'
BY DEF LinksOK

\* While the entry stays, no row appears without it.
LEMMA CascadeKept ==
  ASSUME CascadeOK(entry, row, link), entry' = entry,
         \A k \in Key : row[k] = NoRow => row'[k] = NoRow,
         entry = "none" => \A k \in Key : link'[k] = "current" => link[k] = "current"
  PROVE  CascadeOK(entry, row, link)'
BY DEF CascadeOK

\* Requests for jobs keep the invariant.
LEMMA PostInv == ASSUME Inv, NEW S \in SUBSET Id, Post(S) PROVE Inv'
<1> DEFINE after == IF entry # "none" THEN Marked(row, S, Manual) ELSE row
<1>1. /\ Ask(S, entry # "none") /\ Persist(row, after) /\ entry' = entry /\ backup' = backup
      /\ S \in SUBSET Key
  BY DEF Post, Key
<1>2. RowsOK(row) /\ JobsOK(job) /\ LinksOK(job, link) /\ CascadeOK(entry, row, link)
  BY InvParts
<1>3. RowsOK(after) /\ \A k \in Key : row[k] = NoRow => after[k] = NoRow
  BY <1>2, MarkedOK
<1>4. RowsOK(row)' /\ up' \in BOOLEAN /\ \A k \in Key : row[k] = NoRow => row'[k] = NoRow
  <2> HIDE DEF after
  <2> QED BY <1>1, <1>2, <1>3, PersistOK
<1>5. /\ JobsOK(job)' /\ LinksOK(job, link)'
      /\ \A k \in Key : link'[k] = IF k \in S /\ entry # "none" /\ (job[k] \notin Active \/ link[k] = "none")
                                   THEN "current" ELSE link[k]
  BY <1>1, <1>2, AskEffect
<1>6. CascadeOK(entry, row, link)'
  BY <1>1, <1>2, <1>4, <1>5, CascadeKept
<1> QED BY <1>1, <1>4, <1>5, <1>6, InvParts, InvNext

LEMMA DownloadNewInv ==
  ASSUME Inv, NEW from, from \subseteq Manual, DownloadNew(from) PROVE Inv'
<1>1. /\ Ask(In(row, from), TRUE) /\ Persist(row, Marked(row, Key, from))
      /\ entry' = entry /\ backup' = backup
      /\ In(row, from) \in SUBSET Key /\ In(row, from) # {}
  BY DEF DownloadNew, In
<1>2. RowsOK(row) /\ JobsOK(job) /\ LinksOK(job, link) /\ CascadeOK(entry, row, link)
  BY InvParts
<1>3. RowsOK(row)' /\ up' \in BOOLEAN
  BY <1>1, <1>2, MarkedOK, PersistOK
<1>4. JobsOK(job)' /\ LinksOK(job, link)'
  BY <1>1, <1>2, AskEffect
<1>5. entry # "none"
  BY <1>1, <1>2 DEF In, CascadeOK, NoRow, Manual, WithBacklog, Grabbed
<1>6. CascadeOK(entry, row, link)'
  BY <1>1, <1>5 DEF CascadeOK
<1> QED BY <1>1, <1>3, <1>4, <1>6, InvParts, InvNext

LEMMA RetryInv == ASSUME Inv, NEW S, Retry(S) PROVE Inv'
<1>1. /\ Queue!Request(S) /\ Persist(row, Marked(row, Linked(S), Manual))
      /\ entry' = entry /\ backup' = backup /\ link' = link
  BY DEF Retry
<1>2. RowsOK(row) /\ JobsOK(job) /\ LinksOK(job, link) /\ CascadeOK(entry, row, link)
  BY InvParts
<1>3. RowsOK(row)' /\ up' \in BOOLEAN /\ \A k \in Key : row[k] = NoRow => row'[k] = NoRow
  BY <1>1, <1>2, MarkedOK, PersistOK
<1>4. JobsOK(job)' /\ \A k \in Key : job'[k] = "absent" => job[k] = "absent"
  BY <1>1, <1>2, RequestEffect
<1>5. LinksOK(job, link)'
  BY <1>1, <1>2, <1>4, SameLinksOK
<1>6. CascadeOK(entry, row, link)'
  BY <1>1, <1>2, <1>3, CascadeKept
<1> QED BY <1>1, <1>3, <1>4, <1>5, <1>6, InvParts, InvNext

\* Steps that only touch jobs keep the invariant.
LEMMA JobsOnlyInv ==
  ASSUME Inv, JobsOK(job)', LinksOK(job, link)', row' = row,
         entry' = entry \/ (entry' = "tracked" /\ entry = "snapshotting"),
         \A k \in Key : link'[k] = "current" => link[k] = "current",
         backup' = backup, up' \in BOOLEAN
  PROVE  Inv'
<1>1. CascadeOK(entry, row, link)'
  BY InvParts DEF CascadeOK
<1>2. RowsOK(row)'
  BY InvParts DEF RowsOK
<1> QED BY <1>1, <1>2, InvParts, InvNext

LEMMA SweepInv == ASSUME Inv, NEW S, Sweep(S) \/ Pass PROVE Inv'
<1>1. /\ Queue!Request(S) \/ Queue!Request({})
      /\ link' = link /\ row' = row /\ entry' = entry /\ backup' = backup /\ up' = up
  BY DEF Sweep, Pass
<1>2. JobsOK(job) /\ LinksOK(job, link) /\ up \in BOOLEAN
  BY InvParts
<1>3. JobsOK(job)' /\ \A k \in Key : job'[k] = "absent" => job[k] = "absent"
  BY <1>1, <1>2, RequestEffect
<1>4. LinksOK(job, link)'
  BY <1>1, <1>2, <1>3, SameLinksOK
<1>5. up' \in BOOLEAN /\ \A k \in Key : link'[k] = "current" => link[k] = "current"
  BY <1>1, <1>2
<1> QED BY <1>1, <1>3, <1>4, <1>5, JobsOnlyInv

LEMMA ForgetInv == ASSUME Inv, NEW S, Dismiss(S) \/ Prune(S) PROVE Inv'
<1>1. /\ Queue!Forget(S) /\ link' = Unlinked(S)
      /\ row' = row /\ entry' = entry /\ backup' = backup /\ up' = up
  BY DEF Dismiss, Prune
<1>2. JobsOK(job) /\ LinksOK(job, link) /\ up \in BOOLEAN
  BY InvParts
<1>3. JobsOK(job)' /\ \A k \in Key \ S : job'[k] = "absent" => job[k] = "absent"
  BY <1>1, <1>2, ForgetEffect
<1>4. LinksOK(job, link)' /\ \A k \in Key : link'[k] = "current" => link[k] = "current"
  BY <1>1, <1>2, <1>3, UnlinkedOK
<1>5. up' \in BOOLEAN
  BY <1>1, <1>2
<1> QED BY <1>1, <1>3, <1>4, <1>5, JobsOnlyInv

LEMMA RestartInv == ASSUME Inv, NEW S, Restart(S) PROVE Inv'
<1>1. /\ Queue!Restart(S) /\ link' = Unlinked(S)
      /\ row' = row /\ backup' = backup /\ up' = TRUE
      /\ entry' = entry \/ (entry' = "tracked" /\ entry = "snapshotting")
  BY DEF Restart
<1>2. JobsOK(job) /\ LinksOK(job, link)
  BY InvParts
<1>3. JobsOK(job)' /\ \A k \in Key \ S : job'[k] = "absent" => job[k] = "absent"
  BY <1>1, <1>2, RestartEffect
<1>4. LinksOK(job, link)' /\ \A k \in Key : link'[k] = "current" => link[k] = "current"
  BY <1>1, <1>2, <1>3, UnlinkedOK
<1>5. up' \in BOOLEAN
  BY <1>1
<1> QED BY <1>1, <1>3, <1>4, <1>5, JobsOnlyInv

\* A job without the current entry's id reports to nobody.
LEMMA HeardOK ==
  ASSUME RowsOK(row), NEW k \in Key, NEW outcome \in {"completed", "failed", "cancelled"}
  PROVE  /\ RowsOK(Heard(k, outcome))
         /\ \A l \in Key : row[l] = NoRow => Heard(k, outcome)[l] = NoRow
<1>1. CASE link[k] # "current"
  BY <1>1 DEF Heard
<1>2. CASE link[k] = "current" /\ outcome = "cancelled"
  <2>1. Heard(k, outcome) = Reverted({k})
    BY <1>2 DEF Heard
  <2> QED BY <2>1, RevertedOK
<1>3. CASE link[k] = "current" /\ outcome # "cancelled"
  <2>1. \E v \in {"downloaded", "failed"} : Heard(k, outcome) = Reported(k, v)
    BY <1>3 DEF Heard
  <2> QED BY <2>1, ReportedOK
<1> QED BY <1>1, <1>2, <1>3

LEMMA FinishInv == ASSUME Inv, NEW k \in Key, NEW outcome, Finish(k, outcome) PROVE Inv'
<1>1. /\ Queue!Finish(k, outcome) /\ Persist(row, Heard(k, outcome))
      /\ entry' = entry /\ link' = link
      /\ backup' = backup \/ backup' = backup \cup {k}
  BY DEF Finish
<1>2. RowsOK(row) /\ JobsOK(job) /\ LinksOK(job, link) /\ CascadeOK(entry, row, link)
  BY InvParts
<1>3. /\ JobsOK(job)' /\ outcome \in {"completed", "failed", "cancelled"}
      /\ \A l \in Key : job'[l] = "absent" => job[l] = "absent"
  BY <1>1, <1>2, FinishEffect
<1>4. RowsOK(row)' /\ up' \in BOOLEAN /\ \A l \in Key : row[l] = NoRow => row'[l] = NoRow
  BY <1>1, <1>2, <1>3, HeardOK, PersistOK
<1>5. LinksOK(job, link)'
  BY <1>1, <1>2, <1>3, SameLinksOK
<1>6. CascadeOK(entry, row, link)'
  BY <1>1, <1>2, <1>4, CascadeKept
<1>7. backup' \subseteq Key
  BY <1>1, InvParts
<1> QED BY <1>1, <1>3, <1>4, <1>5, <1>6, <1>7, InvParts, InvNext

LEMMA WithdrawInv == ASSUME Inv, ClearQueue \/ \E k \in Key : Cancel(k) PROVE Inv'
<1>1. PICK S, v : /\ Queue!Withdraw(S, v) /\ Persist(row, Reverted(Linked(S)))
                  /\ entry' = entry /\ backup' = backup
                  /\ (link' = link /\ v = "cancelled") \/ link' = Unlinked(S)
  BY DEF Cancel, ClearQueue
<1>2. RowsOK(row) /\ JobsOK(job) /\ LinksOK(job, link) /\ CascadeOK(entry, row, link)
  BY InvParts
<1>3. /\ JobsOK(job)'
      /\ \A l \in Key \ S : job'[l] = "absent" => job[l] = "absent"
      /\ v = "cancelled" => \A l \in Key : job'[l] = "absent" => job[l] = "absent"
  BY <1>1, <1>2, WithdrawEffect
<1>4. RowsOK(row)' /\ up' \in BOOLEAN /\ \A l \in Key : row[l] = NoRow => row'[l] = NoRow
  BY <1>1, <1>2, RevertedOK, PersistOK
<1>5. LinksOK(job, link)' /\ \A l \in Key : link'[l] = "current" => link[l] = "current"
  BY <1>1, <1>2, <1>3, SameLinksOK, UnlinkedOK
<1>6. CascadeOK(entry, row, link)'
  BY <1>1, <1>2, <1>4, <1>5, CascadeKept
<1> QED BY <1>1, <1>3, <1>4, <1>5, <1>6, InvParts, InvNext

\* A chapter that is not queued is well formed.
LEMMA FreshOK ==
  ASSUME NEW v \in ChapterStatus
  PROVE  Fresh(v) \in Row /\ Fresh(v).status = v
BY DEF Fresh, Row

\* An entry without rows needs no cascade, one that stays tracked neither.
LEMMA TrackedInv ==
  ASSUME Inv, entry \in {"snapshotting", "tracked"}, entry' \in {"snapshotting", "tracked"},
         RowsOK(row)', JobsOK(job)', LinksOK(job, link)', backup' = backup, up' \in BOOLEAN
  PROVE  Inv'
<1>1. CascadeOK(entry, row, link)'
  BY DEF CascadeOK
<1> QED BY <1>1, InvParts, InvNext

\* The row of each chapter once a listing is stored.
LEMMA StoredAt ==
  ASSUME NEW usable, NEW taken, NEW again, NEW k \in Key
  PROVE  LET moved == {taken[c] : c \in DOMAIN taken}
             added == (Unknown(usable) \ DOMAIN taken) \cup again
         IN /\ k \in DOMAIN taken => Stored(usable, taken, again)[k] = row[taken[k]]
            /\ k \notin DOMAIN taken /\ k \in added =>
                 Stored(usable, taken, again)[k] = Fresh("new")
            /\ k \notin DOMAIN taken /\ k \notin added /\ k \in moved =>
                 Stored(usable, taken, again)[k] = NoRow
            /\ k \notin DOMAIN taken /\ k \notin added /\ k \notin moved =>
                 Stored(usable, taken, again)[k] = row[k]
<1> DEFINE moved == {taken[c] : c \in DOMAIN taken}
           added == (Unknown(usable) \ DOMAIN taken) \cup again
<1>1. Stored(usable, taken, again)[k] =
        IF k \in DOMAIN taken THEN row[taken[k]]
        ELSE IF k \in Unknown(usable) \cup again THEN Fresh("new")
        ELSE IF k \in moved THEN NoRow
        ELSE row[k]
  BY DEF Stored
<1> HIDE DEF moved
<1> QED BY <1>1 DEF moved

\* Storing a listing moves rows and adds new ones.
LEMMA StoredOK ==
  ASSUME RowsOK(row), NEW usable \in SUBSET Id, NEW taken \in Takeovers(usable),
         NEW again \in SUBSET usable
  PROVE  RowsOK(Stored(usable, taken, again))
<1> DEFINE after == Stored(usable, taken, again)
<1>1. \A c \in DOMAIN taken : taken[c] \in Key
  BY DEF Takeovers, Rows
<1>2. Fresh("new") \in Row /\ Fresh("new").status = "new" /\ NoRow \in Row /\ NoRow.status = "absent"
  BY FreshOK DEF ChapterStatus, NoRow, Row
<1>3. \A k \in Key : \/ \E l \in Key : after[k] = row[l]
                     \/ after[k] = Fresh("new")
                     \/ after[k] = NoRow
  <2> SUFFICES ASSUME NEW k \in Key
               PROVE  \/ \E l \in Key : after[k] = row[l]
                      \/ after[k] = Fresh("new")
                      \/ after[k] = NoRow
    OBVIOUS
  <2>1. CASE k \in DOMAIN taken
    BY <1>1, <2>1 DEF Stored
  <2>2. CASE k \notin DOMAIN taken
    BY <2>2 DEF Stored
  <2> QED BY <2>1, <2>2
<1>4. DOMAIN after = Key /\ after = [k \in Key |-> after[k]]
  BY DEF Stored
<1> HIDE DEF after
<1>5. \A k \in Key : after[k] \in Row /\ (after[k].status = "queued" => after[k].prev \in Manual)
  BY <1>2, <1>3 DEF RowsOK
<1>6. RowsOK(after)
  BY <1>4, <1>5 DEF RowsOK
<1> QED BY <1>6 DEF after

\* Reconciliation queues nothing.
LEMMA ReconciledOK ==
  ASSUME NEW STATE rows, RowsOK(rows), NEW raw, NEW usable
  PROVE  /\ RowsOK(Reconciled(rows, raw, usable))
         /\ \A k \in Key : \/ Reconciled(rows, raw, usable)[k] = rows[k]
                           \/ /\ rows[k].status \in {"failed", "lost"}
                              /\ Reconciled(rows, raw, usable)[k].status \in {"failed", "lost"}
<1> DEFINE after == Reconciled(rows, raw, usable)
<1>1. \A v \in {"failed", "lost"} : Fresh(v) \in Row /\ Fresh(v).status = v
  BY FreshOK DEF ChapterStatus
<1>2. \A k \in Key : \/ after[k] = rows[k]
                     \/ /\ rows[k].status \in {"failed", "lost"}
                        /\ after[k] \in {Fresh("failed"), Fresh("lost")}
  <2> SUFFICES ASSUME NEW k \in Key
               PROVE  \/ after[k] = rows[k]
                      \/ /\ rows[k].status \in {"failed", "lost"}
                         /\ after[k] \in {Fresh("failed"), Fresh("lost")}
    OBVIOUS
  <2>1. CASE usable # {} /\ k \in Id \ raw /\ rows[k].status = "failed"
    BY <2>1 DEF Reconciled
  <2>2. CASE usable # {} /\ k \in raw /\ rows[k].status = "lost"
    BY <2>2 DEF Reconciled
  <2>3. CASE /\ ~(usable # {} /\ k \in Id \ raw /\ rows[k].status = "failed")
             /\ ~(usable # {} /\ k \in raw /\ rows[k].status = "lost")
    BY <2>3 DEF Reconciled
  <2> QED BY <2>1, <2>2, <2>3
<1>3. DOMAIN after = Key /\ after = [k \in Key |-> after[k]]
  BY DEF Reconciled
<1> HIDE DEF after
<1>4. \A k \in Key : after[k] \in Row /\ (after[k].status = "queued" => after[k].prev \in Manual)
  BY <1>1, <1>2 DEF RowsOK
<1>5. RowsOK(after)
  BY <1>3, <1>4 DEF RowsOK
<1> QED BY <1>1, <1>2, <1>5 DEF after

\* The library side keeps the invariant.
LEMMA FollowInv == ASSUME Inv, Follow PROVE Inv'
<1>1. CascadeOK(entry, row, link)'
  BY DEF CascadeOK, Follow
<1>2. RowsOK(row)' /\ JobsOK(job)' /\ LinksOK(job, link)'
  BY InvParts DEF Follow, tables, RowsOK, JobsOK, LinksOK
<1> QED BY <1>1, <1>2, InvParts, InvNext DEF Follow

LEMMA RemoveInv == ASSUME Inv, Remove PROVE Inv'
<1>1. RowsOK(row)'
  BY DEF Remove, RowsOK, NoRow, Row
<1>2. JobsOK(job)' /\ LinksOK(job, link)' /\ CascadeOK(entry, row, link)'
  BY InvParts DEF Remove, JobsOK, LinksOK, CascadeOK
<1> QED BY <1>1, <1>2, InvParts, InvNext DEF Remove

LEMMA SnapshotInv ==
  ASSUME Inv, NEW listed \in SUBSET Id, NEW found, NEW backlog \in {"new", "missing"},
         NEW grab \in BOOLEAN, Snapshot(listed, found, backlog, grab)
  PROVE  Inv'
<1> DEFINE rows == [k \in Key |->
        IF k \in Rows \/ k \notin listed THEN row[k]
        ELSE IF k \in found THEN Fresh("downloaded") ELSE Fresh(backlog)]
<1>1. RowsOK(row) /\ JobsOK(job) /\ LinksOK(job, link) /\ up \in BOOLEAN
  BY InvParts
<1>2. RowsOK(rows)
  <2>1. \A v \in {"downloaded", "new", "missing"} : Fresh(v) \in Row /\ Fresh(v).status = v
    BY FreshOK DEF ChapterStatus
  <2>2. \A k \in Key : rows[k] = row[k] \/ \E v \in {"downloaded", "new", "missing"} : rows[k] = Fresh(v)
    OBVIOUS
  <2>3. rows = [k \in Key |-> rows[k]]
    OBVIOUS
  <2> HIDE DEF rows
  <2>4. \A k \in Key : rows[k] \in Row /\ (rows[k].status = "queued" => rows[k].prev \in Manual)
    BY <1>1, <2>1, <2>2 DEF RowsOK
  <2> QED BY <2>3, <2>4 DEF RowsOK
<1>3. /\ entry = "snapshotting" /\ entry' = "tracked" /\ backup' = backup
      /\ \/ Ask(In(rows, Grabbed), TRUE) /\ Persist(rows, Marked(rows, Key, Grabbed))
         \/ row' = rows /\ job' = job /\ link' = link /\ up' = up
  BY DEF Snapshot
<1> HIDE DEF rows
<1>4. CASE Ask(In(rows, Grabbed), TRUE) /\ Persist(rows, Marked(rows, Key, Grabbed))
  <2>1. In(rows, Grabbed) \in SUBSET Key /\ Grabbed \subseteq Manual
    BY DEF In, Manual, WithBacklog
  <2>2. RowsOK(row)' /\ up' \in BOOLEAN
    BY <1>2, <1>4, <2>1, MarkedOK, PersistOK
  <2>3. JobsOK(job)' /\ LinksOK(job, link)'
    BY <1>1, <1>4, <2>1, AskEffect
  <2> QED BY <1>3, <2>2, <2>3, TrackedInv
<1>5. CASE row' = rows /\ job' = job /\ link' = link /\ up' = up
  <2>1. RowsOK(row)' /\ JobsOK(job)' /\ LinksOK(job, link)' /\ up' \in BOOLEAN
    BY <1>1, <1>2, <1>5 DEF RowsOK, JobsOK, LinksOK
  <2> QED BY <1>3, <2>1, TrackedInv
<1> QED BY <1>3, <1>4, <1>5

LEMMA CheckInv ==
  ASSUME Inv, NEW raw \in SUBSET Id, NEW usable \in SUBSET Id, NEW auto \in BOOLEAN,
         Check(raw, usable, auto)
  PROVE  Inv'
<1>1. /\ RowsOK(row) /\ JobsOK(job) /\ LinksOK(job, link) /\ up \in BOOLEAN
      /\ entry' = entry /\ entry \in {"snapshotting", "tracked"} /\ backup' = backup
  BY InvParts DEF Check
<1>2. PICK taken \in Takeovers(usable), again \in SUBSET usable :
        LET rows == Reconciled(Stored(usable, taken, again), raw, usable)
            fresh == (Unknown(usable) \ DOMAIN taken) \cup again
        IN \/ Ask(fresh, TRUE) /\ Persist(rows, Marked(rows, fresh, {"new"}))
           \/ row' = rows /\ job' = job /\ link' = link /\ up' = up
  BY DEF Check
<1> DEFINE rows == Reconciled(Stored(usable, taken, again), raw, usable)
           fresh == (Unknown(usable) \ DOMAIN taken) \cup again
<1>3. RowsOK(rows) /\ fresh \in SUBSET Key
  BY <1>1, StoredOK, ReconciledOK DEF Unknown, Key
<1>4. \/ Ask(fresh, TRUE) /\ Persist(rows, Marked(rows, fresh, {"new"}))
      \/ row' = rows /\ job' = job /\ link' = link /\ up' = up
  BY <1>2
<1> HIDE DEF rows, fresh
<1>5. CASE Ask(fresh, TRUE) /\ Persist(rows, Marked(rows, fresh, {"new"}))
  <2>1. {"new"} \subseteq Manual
    BY DEF Manual, WithBacklog, Grabbed
  <2>2. RowsOK(row)' /\ up' \in BOOLEAN
    BY <1>3, <1>5, <2>1, MarkedOK, PersistOK
  <2>3. JobsOK(job)' /\ LinksOK(job, link)'
    BY <1>1, <1>3, <1>5, AskEffect
  <2> QED BY <1>1, <2>2, <2>3, TrackedInv
<1>6. CASE row' = rows /\ job' = job /\ link' = link /\ up' = up
  <2>1. RowsOK(row)' /\ JobsOK(job)' /\ LinksOK(job, link)' /\ up' \in BOOLEAN
    BY <1>1, <1>3, <1>6 DEF RowsOK, JobsOK, LinksOK
  <2> QED BY <1>1, <2>1, TrackedInv
<1> QED BY <1>4, <1>5, <1>6

LEMMA AttachInv == ASSUME Inv, NEW S, NEW locals, Attach(S, locals) PROVE Inv'
<1>1. /\ RowsOK(row) /\ JobsOK(job) /\ LinksOK(job, link) /\ up \in BOOLEAN
      /\ entry' = entry /\ entry \in {"snapshotting", "tracked"} /\ backup' = backup
      /\ job' = job /\ link' = link /\ up' = up
      /\ row' = [k \in Key |-> CASE k \in S \cup locals -> Fresh("downloaded")
                                 [] OTHER -> row[k]]
  BY InvParts DEF Attach
<1>2. Fresh("downloaded") \in Row /\ Fresh("downloaded").status = "downloaded"
  BY FreshOK DEF ChapterStatus
<1>3. RowsOK(row)'
  <2>1. \A k \in Key : row'[k] \in {row[k], Fresh("downloaded")}
    BY <1>1
  <2>2. row' = [k \in Key |-> row'[k]]
    BY <1>1
  <2>3. \A k \in Key : row'[k] \in Row /\ (row'[k].status = "queued" => row'[k].prev \in Manual)
    BY <1>1, <1>2, <2>1 DEF RowsOK
  <2> QED BY <2>2, <2>3 DEF RowsOK
<1>4. JobsOK(job)' /\ LinksOK(job, link)'
  BY <1>1 DEF JobsOK, LinksOK
<1> QED BY <1>1, <1>3, <1>4, TrackedInv

LEMMA RollbackInv == ASSUME Inv, NEW k \in Key, Rollback(k) PROVE Inv'
<1>1. /\ RowsOK(row) /\ JobsOK(job) /\ LinksOK(job, link) /\ CascadeOK(entry, row, link)
      /\ row' = Reported(k, "downloaded") /\ up' = up /\ up \in BOOLEAN
      /\ entry' = entry /\ backup' = backup /\ job' = job /\ link' = link
  BY InvParts DEF Rollback
<1>2. RowsOK(row)' /\ \A l \in Key : row[l] = NoRow => row'[l] = NoRow
  <2>1. RowsOK(Reported(k, "downloaded"))
        /\ \A l \in Key : row[l] = NoRow => Reported(k, "downloaded")[l] = NoRow
    BY <1>1, ReportedOK
  <2> QED BY <1>1, <2>1 DEF RowsOK
<1>3. JobsOK(job)' /\ LinksOK(job, link)'
  BY <1>1 DEF JobsOK, LinksOK
<1>4. CascadeOK(entry, row, link)'
  BY <1>1, <1>2, CascadeKept
<1> QED BY <1>1, <1>2, <1>3, <1>4, InvParts, InvNext

LEMMA InitInv == Init => Inv
<1> SUFFICES ASSUME Init PROVE Inv
  OBVIOUS
<1>1. JobsOK(job) /\ LinksOK(job, link)
  BY DEF Init, Queue!Init, JobsOK, LinksOK, Queue!Status
<1>2. RowsOK(row) /\ CascadeOK(entry, row, link)
  BY DEF Init, RowsOK, CascadeOK, NoRow, Row
<1> QED BY <1>1, <1>2, InvParts DEF Init

LEMMA StepInv == Inv /\ [Next]_vars => Inv'
<1> SUFFICES ASSUME Inv, [Next]_vars PROVE Inv'
  OBVIOUS
<1>1. CASE JobRequest
  <2>1. Grabbed \subseteq Manual /\ WithBacklog \subseteq Manual
    BY DEF Manual, WithBacklog, Grabbed
  <2>2. CASE \E S \in SUBSET Id : Post(S)
    BY <2>2, PostInv
  <2>3. CASE DownloadNew(Grabbed) \/ DownloadNew(WithBacklog)
    BY <2>1, <2>3, DownloadNewInv
  <2>4. CASE RetryFailed \/ RetryJob
    BY <2>4, RetryInv DEF RetryFailed, RetryJob
  <2>5. CASE ClearQueue \/ \E k \in Key : Cancel(k)
    BY <2>5, WithdrawInv
  <2>6. CASE \E S : Dismiss(S)
    BY <2>6, ForgetInv
  <2> QED BY <1>1, <2>2, <2>3, <2>4, <2>5, <2>6 DEF JobRequest
<1>2. CASE LibraryRequest
  BY <1>2, FollowInv, RemoveInv, AttachInv, RollbackInv DEF LibraryRequest
<1>3. CASE Unattended
  BY <1>3, SweepInv, FinishInv, ForgetInv, RestartInv, CheckInv, SnapshotInv DEF Unattended
<1>4. CASE \E k \in Key : Finish(k, "cancelled")
  BY <1>4, FinishInv
<1>5. CASE UNCHANGED vars
  <2>1. row' = row /\ job' = job /\ link' = link /\ entry' = entry /\ backup' = backup /\ up' = up
    BY <1>5 DEF vars, tables
  <2>2. RowsOK(row)' /\ JobsOK(job)' /\ LinksOK(job, link)' /\ CascadeOK(entry, row, link)'
    BY <2>1, InvParts DEF RowsOK, JobsOK, LinksOK, CascadeOK
  <2> QED BY <2>1, <2>2, InvParts, InvNext
<1> QED BY <1>1, <1>2, <1>3, <1>4, <1>5 DEF Next

\* The tables stay well formed under every disruption.
THEOREM ChaptersInvariant == Spec => []Inv
BY InitInv, StepInv, PTL DEF Spec

\* The chapters, jobs and links keep their types; rows go with their entry.
THEOREM ChaptersTypeCorrect == Spec => []TypeOK
<1>1. Inv => TypeOK
  BY DEF Inv
<1> QED BY <1>1, ChaptersInvariant, PTL

-----------------------------------------------------------------------------
(* Queued chapters have a job, in a library that is only restarted           *)

\* Every job has its chapter and reports to it, every queued chapter an active
\* job, and a completed job a downloaded chapter; local rows have neither.
SettledOn(rows, jobs, links) ==
  /\ \A k \in Key : jobs[k] # "absent" => rows[k].status # "absent" /\ links[k] = "current"
  /\ \A k \in Key : rows[k].status = "queued" => jobs[k] \in {"queued", "downloading"}
  /\ \A k \in Key : jobs[k] = "completed" => rows[k].status = "downloaded"
  /\ \A l \in LocalId : jobs[l] = "absent" /\ rows[l].status \in {"absent", "downloaded"}

Settled == SettledOn(row, job, link)
Undisturbed == Disruptions \subseteq {"restart"}

\* Nobody dies between two writes.
LEMMA PersistAlive ==
  ASSUME Undisturbed, NEW STATE before, NEW STATE after, Persist(before, after)
  PROVE  row' = after
BY DEF Undisturbed, Persist

\* A request for chapters that have a row, and the mark on those it may queue.
LEMMA AskSettles ==
  ASSUME JobsOK(job), LinksOK(job, link), NEW STATE rows, SettledOn(rows, job, link),
         rows \in [Key -> Row],
         NEW STATE S, S \in SUBSET Key, NEW STATE T, NEW from, from \subseteq Manual,
         \A k \in S : rows[k].status # "absent" /\ k \notin LocalId,
         \A k \in Key : k \in T /\ rows[k].status \in from => k \in S,
         Ask(S, TRUE), row' = Marked(rows, T, from)
  PROVE  Settled'
<1>1. /\ \A k \in S : job[k] \notin Active => job'[k] \in {"queued", "downloading"}
      /\ \A k \in Key : \/ k \in S /\ job[k] \notin Active
                        \/ job'[k] = job[k]
                        \/ job[k] = "queued" /\ job'[k] = "downloading"
      /\ \A k \in Key : link'[k] = IF k \in S /\ TRUE /\ (job[k] \notin Active \/ link[k] = "none")
                                   THEN "current" ELSE link[k]
  BY AskEffect, Zenon
<1>2. \A k \in Key : \/ row'[k] = rows[k]
                     \/ k \in S /\ row'[k].status = "queued" /\ rows[k].status \in Manual
  BY DEF Marked
<1>3. \A k \in Key : job'[k] # "absent" => row'[k].status # "absent" /\ link'[k] = "current"
  BY <1>1, <1>2 DEF SettledOn, Active
<1>4. \A k \in Key : row'[k].status = "queued" => job'[k] \in {"queued", "downloading"}
  BY <1>1, <1>2 DEF SettledOn, Active, Manual, WithBacklog, Grabbed
<1>5. \A k \in Key : job'[k] = "completed" => row'[k].status = "downloaded"
  BY <1>1, <1>2 DEF SettledOn, Active, Manual, WithBacklog, Grabbed
<1>6. \A l \in LocalId : job'[l] = "absent" /\ row'[l].status \in {"absent", "downloaded"}
  BY <1>1, <1>2 DEF SettledOn, Key
<1> QED BY <1>3, <1>4, <1>5, <1>6 DEF Settled, SettledOn

LEMMA PostSettles == ASSUME Undisturbed, Inv, Settled, NEW S \in SUBSET Id, Post(S) PROVE Settled'
<1>1. JobsOK(job) /\ LinksOK(job, link) /\ RowsOK(row) /\ CascadeOK(entry, row, link)
  BY InvParts
<1>2. S # {} /\ S \subseteq Rows /\ S \in SUBSET Key
  BY DEF Post, Undisturbed, Key
<1>3. entry # "none"
  BY <1>1, <1>2 DEF CascadeOK, Rows, NoRow
<1>4. Ask(S, TRUE) /\ Persist(row, Marked(row, S, Manual))
  BY <1>3 DEF Post
<1>5. row' = Marked(row, S, Manual)
  BY <1>4, PersistAlive
<1>6. \A k \in S : row[k].status # "absent" /\ k \notin LocalId
  BY <1>2 DEF Rows
<1> QED BY <1>1, <1>2, <1>4, <1>5, <1>6, AskSettles DEF Settled, RowsOK

\* The statuses a handler selects are those of source chapters.
LEMMA SelectedRows ==
  ASSUME NEW STATE rows, \A l \in LocalId : rows[l].status \in {"absent", "downloaded"},
         NEW from, from \subseteq Manual
  PROVE  /\ In(rows, from) \in SUBSET Key
         /\ \A k \in In(rows, from) : rows[k].status # "absent" /\ k \notin LocalId
         /\ \A k \in Key : rows[k].status \in from => k \in In(rows, from)
BY DEF In, Manual, WithBacklog, Grabbed

LEMMA DownloadNewSettles ==
  ASSUME Undisturbed, Inv, Settled, NEW from, from \subseteq Manual, DownloadNew(from)
  PROVE  Settled'
<1>1. JobsOK(job) /\ LinksOK(job, link) /\ RowsOK(row)
  BY InvParts
<1>2. Ask(In(row, from), TRUE) /\ row' = Marked(row, Key, from)
  BY PersistAlive DEF DownloadNew
<1>3. /\ In(row, from) \in SUBSET Key
      /\ \A k \in In(row, from) : row[k].status # "absent" /\ k \notin LocalId
      /\ \A k \in Key : row[k].status \in from => k \in In(row, from)
  BY SelectedRows DEF Settled, SettledOn
<1> QED BY <1>1, <1>2, <1>3, AskSettles DEF Settled, RowsOK

LEMMA RetrySettles ==
  ASSUME Undisturbed, Inv, Settled, RetryFailed \/ RetryJob
  PROVE  Settled'
<1>1. PICK S \in SUBSET Key : Retry(S) /\ \A k \in S : job[k] \in {"failed", "cancelled"}
  <2>1. CASE RetryFailed
    BY <2>1 DEF RetryFailed, Queue!With
  <2>2. CASE RetryJob
    BY <2>2 DEF RetryJob, Queue!With
  <2> QED BY <2>1, <2>2
<1>2. JobsOK(job) /\ RowsOK(row)
  BY InvParts
<1>3. /\ \A k \in S : job'[k] \in {"queued", "downloading"}
      /\ \A k \in Key \ S : job'[k] = job[k] \/ (job[k] = "queued" /\ job'[k] = "downloading")
  BY <1>1, <1>2, RequestEffect DEF Retry
<1>4. row' = Marked(row, Linked(S), Manual) /\ link' = link
  BY <1>1, PersistAlive DEF Retry
<1>5. \A k \in Key : \/ row'[k] = row[k]
                     \/ k \in S /\ row'[k].status = "queued"
  BY <1>4 DEF Marked, Linked
<1>6. \A k \in S : k \notin LocalId
  BY <1>1 DEF Settled, SettledOn
<1>7. \A l \in LocalId : job'[l] = "absent" /\ row'[l].status \in {"absent", "downloaded"}
  BY <1>3, <1>5, <1>6 DEF Settled, SettledOn, Key
<1> QED BY <1>1, <1>3, <1>4, <1>5, <1>7 DEF Settled, SettledOn

\* Steps that leave the chapters alone and finish or cancel nothing.
LEMMA JobsOnlySettles ==
  ASSUME Settled, row' = row,
         \A k \in Key : \/ job'[k] = job[k] /\ link'[k] = link[k]
                        \/ job[k] \in {"queued", "downloading"} /\ link'[k] = link[k]
                           /\ job'[k] \in {"queued", "downloading"}
                        \/ job[k] \in {"completed", "failed", "cancelled"}
                           /\ job'[k] \in {"queued", "downloading"} /\ link'[k] = link[k]
                        \/ job[k] \in {"completed", "failed", "cancelled"} /\ job'[k] = "absent"
  PROVE  Settled'
BY DEF Settled, SettledOn, Key

LEMMA SweepSettles == ASSUME Inv, Settled, NEW S, Sweep(S) \/ Pass PROVE Settled'
<1>1. JobsOK(job)
  BY InvParts
<1>2. PICK T \in SUBSET Key : Queue!Request(T) /\ T \subseteq Due
  BY DEF Sweep, Pass, Due, Queue!With
<1>3. /\ \A k \in T : job[k] = "failed" /\ job'[k] \in {"queued", "downloading"}
      /\ \A k \in Key \ T : job'[k] = job[k] \/ (job[k] = "queued" /\ job'[k] = "downloading")
  BY <1>1, <1>2, RequestEffect DEF Due, Queue!With
<1>4. row' = row /\ link' = link
  BY DEF Sweep, Pass
<1> QED BY <1>3, <1>4, JobsOnlySettles

LEMMA ForgetSettles == ASSUME Inv, Settled, NEW S, Dismiss(S) \/ Prune(S) PROVE Settled'
<1>1. JobsOK(job) /\ Queue!Forget(S) /\ link' = Unlinked(S) /\ row' = row
  BY InvParts DEF Dismiss, Prune
<1>2. /\ \A k \in S : job[k] \in {"completed", "failed", "cancelled"} /\ job'[k] = "absent"
      /\ \A k \in Key \ S : job'[k] = job[k]
  BY <1>1, ForgetEffect
<1> QED BY <1>1, <1>2, JobsOnlySettles DEF Unlinked

LEMMA RestartSettles == ASSUME Inv, Settled, NEW S, Restart(S) PROVE Settled'
<1>1. JobsOK(job) /\ Queue!Restart(S) /\ link' = Unlinked(S) /\ row' = row
  BY InvParts DEF Restart
<1>2. /\ \A k \in S : job[k] \in {"completed", "failed", "cancelled"} /\ job'[k] = "absent"
      /\ \A k \in Key \ S : job'[k] = job[k] \/ (job[k] = "downloading" /\ job'[k] = "queued")
  BY <1>1, RestartEffect
<1> QED BY <1>1, <1>2, JobsOnlySettles DEF Unlinked

\* A reverted chapter is back at its pre-queue status.
LEMMA RevertedRestores ==
  ASSUME RowsOK(row), NEW S, NEW k \in Key
  PROVE  /\ k \in S /\ row[k].status = "queued" =>
              Reverted(S)[k].status = row[k].prev /\ row[k].prev \in Manual
         /\ ~(k \in S /\ row[k].status = "queued") => Reverted(S)[k] = row[k]
<1>1. row[k].status = "queued" => row[k].prev \in Manual /\ row[k].prev # "none"
  BY DEF RowsOK, Manual, WithBacklog, Grabbed
<1> QED BY <1>1 DEF Reverted, Fresh

LEMMA WithdrawSettles ==
  ASSUME Undisturbed, Inv, Settled, ClearQueue \/ \E k \in Key : Cancel(k)
  PROVE  Settled'
<1>1. PICK S, v : /\ Queue!Withdraw(S, v) /\ Persist(row, Reverted(Linked(S)))
                  /\ (link' = link /\ v = "cancelled") \/ (link' = Unlinked(S) /\ v = "absent")
  BY DEF Cancel, ClearQueue
<1>2. JobsOK(job) /\ RowsOK(row)
  BY InvParts
<1>3. /\ \A k \in S : k \in Key /\ job[k] = "queued" /\ job'[k] = v
      /\ \A k \in Key \ S : job'[k] = job[k]
  BY <1>1, <1>2, WithdrawEffect
<1>4. row' = Reverted(Linked(S))
  BY <1>1, PersistAlive
<1>5. Linked(S) = S
  BY <1>3 DEF Linked, Settled, SettledOn
<1>6. \A k \in Key : \/ k \in S /\ row'[k].status \in Manual
                     \/ k \in S /\ row[k].status # "queued" /\ row'[k] = row[k]
                     \/ k \notin S /\ row'[k] = row[k]
  BY <1>2, <1>4, <1>5, RevertedRestores
<1>7. \A k \in S : k \notin LocalId
  BY <1>3 DEF Settled, SettledOn
<1>8. \A k \in Key \ S : link'[k] = link[k]
  BY <1>1 DEF Unlinked
<1>9. \A l \in LocalId : l \in Key \ S
  BY <1>7 DEF Key
<1>10. \A k \in Key : job'[k] # "absent" => row'[k].status # "absent" /\ link'[k] = "current"
  BY <1>1, <1>3, <1>6, <1>8 DEF Settled, SettledOn, Manual, WithBacklog, Grabbed
<1>11. \A k \in Key : row'[k].status = "queued" => job'[k] \in {"queued", "downloading"}
  BY <1>3, <1>6 DEF Settled, SettledOn, Manual, WithBacklog, Grabbed
<1>12. \A k \in Key : job'[k] = "completed" => row'[k].status = "downloaded"
  BY <1>1, <1>3, <1>6 DEF Settled, SettledOn
<1>13. \A l \in LocalId : job'[l] = "absent" /\ row'[l].status \in {"absent", "downloaded"}
  BY <1>3, <1>6, <1>9 DEF Settled, SettledOn
<1> QED BY <1>10, <1>11, <1>12, <1>13 DEF Settled, SettledOn

\* A report leaves no chapter queued.
LEMMA ReportedSettles ==
  ASSUME RowsOK(row), NEW k \in Key, NEW v \in {"downloaded", "failed"}
  PROVE  /\ row[k].status # "absent" => Reported(k, v)[k].status \in {"downloaded", "failed", "lost"}
         /\ row[k].status # "absent" /\ v = "downloaded" => Reported(k, v)[k].status = "downloaded"
         /\ \A l \in Key \ {k} : Reported(k, v)[l] = row[l]
BY DEF Reported, RowsOK, Rows, Fresh

LEMMA FinishSettles ==
  ASSUME Undisturbed, Inv, Settled, NEW k \in Key, NEW outcome, Finish(k, outcome)
  PROVE  Settled'
<1>1. Queue!Finish(k, outcome) /\ link' = link /\ Persist(row, Heard(k, outcome))
  BY DEF Finish
<1>2. JobsOK(job) /\ RowsOK(row)
  BY InvParts
<1>3. /\ job[k] = "downloading" /\ job'[k] = outcome
      /\ outcome \in {"completed", "failed", "cancelled"}
      /\ \A l \in Key \ {k} : job'[l] = job[l]
  BY <1>1, <1>2, FinishEffect
<1>4. row' = Heard(k, outcome)
  BY <1>1, PersistAlive
<1>5. link[k] = "current" /\ row[k].status # "absent" /\ k \notin LocalId
  BY <1>3 DEF Settled, SettledOn
<1>6. /\ row'[k].status \notin {"absent", "queued"}
      /\ outcome = "completed" => row'[k].status = "downloaded"
      /\ \A l \in Key \ {k} : row'[l] = row[l]
  <2>1. CASE outcome = "cancelled"
    <3>1. row' = Reverted({k})
      BY <1>4, <1>5, <2>1 DEF Heard
    <3>2. row'[k].status \notin {"absent", "queued"}
      BY <1>2, <1>5, <3>1, RevertedRestores DEF Manual, WithBacklog, Grabbed
    <3>3. \A l \in Key \ {k} : row'[l] = row[l]
      BY <1>2, <3>1, RevertedRestores
    <3> QED BY <2>1, <3>2, <3>3
  <2>2. CASE outcome = "completed"
    <3>1. row' = Reported(k, "downloaded")
      BY <1>4, <1>5, <2>2 DEF Heard
    <3> QED BY <1>2, <1>5, <3>1, ReportedSettles
  <2>3. CASE outcome = "failed"
    <3>1. row' = Reported(k, "failed")
      BY <1>4, <1>5, <2>3 DEF Heard
    <3> QED BY <1>2, <1>5, <2>3, <3>1, ReportedSettles
  <2> QED BY <1>3, <2>1, <2>2, <2>3
<1>7. \A l \in LocalId : l \in Key \ {k}
  BY <1>5 DEF Key
<1>8. \A l \in LocalId : job'[l] = "absent" /\ row'[l].status \in {"absent", "downloaded"}
  BY <1>3, <1>6, <1>7 DEF Settled, SettledOn
<1>9. \A l \in Key : /\ job'[l] # "absent" => row'[l].status # "absent" /\ link'[l] = "current"
                     /\ row'[l].status = "queued" => job'[l] \in {"queued", "downloading"}
                     /\ job'[l] = "completed" => row'[l].status = "downloaded"
  <2> SUFFICES ASSUME NEW l \in Key
               PROVE  /\ job'[l] # "absent" => row'[l].status # "absent" /\ link'[l] = "current"
                      /\ row'[l].status = "queued" => job'[l] \in {"queued", "downloading"}
                      /\ job'[l] = "completed" => row'[l].status = "downloaded"
    OBVIOUS
  <2>1. CASE l = k
    BY <1>1, <1>3, <1>5, <1>6, <2>1
  <2>2. CASE l # k
    BY <1>1, <1>3, <1>6, <2>2 DEF Settled, SettledOn
  <2> QED BY <2>1, <2>2
<1> QED BY <1>8, <1>9 DEF Settled, SettledOn

\* Rows that change outside the queue: none becomes queued, none with a
\* completed job ceases to be downloaded.
LEMMA RowsOnlySettles ==
  ASSUME NEW STATE rows, Settled,
         \A k \in Key : \/ rows[k] = row[k]
                        \/ rows[k].status = "downloaded"
                        \/ /\ rows[k].status \in {"new", "missing", "failed", "lost"}
                           /\ job[k] # "completed"
                           /\ k \notin LocalId
                        \/ rows[k].status = "absent" /\ job[k] = "absent"
  PROVE  SettledOn(rows, job, link)
BY DEF Settled, SettledOn, Key

LEMMA FilesSettle ==
  ASSUME Inv, Settled,
         (\E S, locals : Attach(S, locals)) \/ (\E k \in Key : Rollback(k))
  PROVE  Settled'
<1>1. job' = job /\ link' = link
  BY DEF Attach, Rollback
<1>2. \A k \in Key : row'[k] = row[k] \/ row'[k].status = "downloaded"
  <2>1. ASSUME NEW S, NEW locals, Attach(S, locals)
        PROVE  \A k \in Key : row'[k] = row[k] \/ row'[k].status = "downloaded"
    <3>1. \A k \in Key : row'[k] = row[k] \/ row'[k] = Fresh("downloaded")
      BY <2>1 DEF Attach
    <3> QED BY <3>1 DEF Fresh
  <2>2. ASSUME NEW k \in Key, Rollback(k)
        PROVE  \A l \in Key : row'[l] = row[l] \/ row'[l].status = "downloaded"
    <3>1. RowsOK(row) /\ row' = Reported(k, "downloaded")
      BY <2>2, InvParts DEF Rollback
    <3> QED BY <3>1 DEF Reported, RowsOK, Fresh
  <2> QED BY <2>1, <2>2
<1> QED BY <1>1, <1>2 DEF Settled, SettledOn, Key

LEMMA SnapshotSettles ==
  ASSUME Undisturbed, Inv, Settled, NEW listed \in SUBSET Id, NEW found,
         NEW backlog \in {"new", "missing"}, NEW grab \in BOOLEAN,
         Snapshot(listed, found, backlog, grab)
  PROVE  Settled'
<1> DEFINE rows == [k \in Key |->
        IF k \in Rows \/ k \notin listed THEN row[k]
        ELSE IF k \in found THEN Fresh("downloaded") ELSE Fresh(backlog)]
<1>1. RowsOK(row) /\ JobsOK(job) /\ LinksOK(job, link)
  BY InvParts
<1>2. \A k \in Key : \/ rows[k] = row[k]
                     \/ /\ rows[k] \in {Fresh("downloaded"), Fresh("new"), Fresh("missing")}
                        /\ k \notin Rows /\ k \in listed
  <2> SUFFICES ASSUME NEW k \in Key
               PROVE  \/ rows[k] = row[k]
                      \/ /\ rows[k] \in {Fresh("downloaded"), Fresh("new"), Fresh("missing")}
                         /\ k \notin Rows /\ k \in listed
    OBVIOUS
  <2>1. CASE k \in Rows \/ k \notin listed
    BY <2>1
  <2>2. CASE ~(k \in Rows \/ k \notin listed)
    <3>1. CASE k \in found
      <4>1. rows[k] = Fresh("downloaded")
        BY <2>2, <3>1
      <4> QED BY <2>2, <4>1
    <3>2. CASE k \notin found
      <4>1. rows[k] = Fresh(backlog)
        BY <2>2, <3>2
      <4> QED BY <2>2, <4>1
    <3> QED BY <3>1, <3>2
  <2> QED BY <2>1, <2>2
<1>3. rows \in [Key -> Row]
  <2>1. \A v \in {"downloaded", "new", "missing"} : Fresh(v) \in Row
    BY FreshOK DEF ChapterStatus
  <2>2. rows = [k \in Key |-> rows[k]]
    OBVIOUS
  <2> HIDE DEF rows
  <2>3. \A k \in Key : rows[k] \in Row
    BY <1>1, <1>2, <2>1 DEF RowsOK
  <2> QED BY <2>2, <2>3
<1>4. \/ Ask(In(rows, Grabbed), TRUE) /\ Persist(rows, Marked(rows, Key, Grabbed))
      \/ row' = rows /\ job' = job /\ link' = link
  BY DEF Snapshot
<1> HIDE DEF rows
<1>5. SettledOn(rows, job, link)
  <2>1. \A k \in Key : k \notin Rows => job[k] = "absent"
    BY DEF Settled, SettledOn, Rows
  <2>2. \A k \in listed : k \notin LocalId
    OBVIOUS
  <2> QED BY <1>2, <2>1, <2>2, RowsOnlySettles DEF Fresh
<1>6. CASE Ask(In(rows, Grabbed), TRUE) /\ Persist(rows, Marked(rows, Key, Grabbed))
  <2>1. row' = Marked(rows, Key, Grabbed)
    BY <1>6, PersistAlive
  <2>2. Grabbed \subseteq Manual
    BY DEF Manual, WithBacklog
  <2>3. /\ In(rows, Grabbed) \in SUBSET Key
        /\ \A k \in In(rows, Grabbed) : rows[k].status # "absent" /\ k \notin LocalId
        /\ \A k \in Key : rows[k].status \in Grabbed => k \in In(rows, Grabbed)
    BY <1>5, <2>2, SelectedRows DEF SettledOn
  <2> QED BY <1>1, <1>3, <1>5, <1>6, <2>1, <2>2, <2>3, AskSettles
<1>7. CASE row' = rows /\ job' = job /\ link' = link
  BY <1>5, <1>7 DEF Settled, SettledOn
<1> QED BY <1>4, <1>6, <1>7

LEMMA CheckSettles ==
  ASSUME Undisturbed, Inv, Settled, NEW raw \in SUBSET Id, NEW usable \in SUBSET Id,
         NEW auto \in BOOLEAN, Check(raw, usable, auto)
  PROVE  Settled'
<1>1. RowsOK(row) /\ JobsOK(job) /\ LinksOK(job, link)
  BY InvParts
<1>2. ~Reidentified(usable)
  BY DEF Check, Undisturbed
<1>3. PICK taken \in Takeovers(usable) :
        \E again \in SUBSET (usable \cap {taken[c] : c \in DOMAIN taken}) :
        LET rows == Reconciled(Stored(usable, taken, again), raw, usable)
            fresh == (Unknown(usable) \ DOMAIN taken) \cup again
        IN \/ Ask(fresh, TRUE) /\ Persist(rows, Marked(rows, fresh, {"new"}))
           \/ row' = rows /\ job' = job /\ link' = link
  BY DEF Check
<1>16. PICK again \in SUBSET (usable \cap {taken[c] : c \in DOMAIN taken}) :
        LET rows == Reconciled(Stored(usable, taken, again), raw, usable)
            fresh == (Unknown(usable) \ DOMAIN taken) \cup again
        IN \/ Ask(fresh, TRUE) /\ Persist(rows, Marked(rows, fresh, {"new"}))
           \/ row' = rows /\ job' = job /\ link' = link
  BY <1>3
<1> DEFINE stored == Stored(usable, taken, again)
           rows == Reconciled(stored, raw, usable)
           fresh == (Unknown(usable) \ DOMAIN taken) \cup again
<1>4. \A c \in DOMAIN taken : c \in Unknown(usable) /\ taken[c] \in LocalId
  BY <1>2 DEF Takeovers, MayTake
<1>5. again = {}
  BY <1>4
<1>6. fresh \subseteq Unknown(usable) /\ fresh \in SUBSET Key /\ \A k \in fresh : k \notin LocalId
  BY <1>5 DEF Unknown, Key
<1>7. RowsOK(stored)
  BY <1>1, StoredOK
<1>8. \A k \in Key : \/ stored[k] = row[k]
                     \/ /\ stored[k].status \in {"new", "downloaded", "absent"}
                        /\ k \in Unknown(usable)
                     \/ stored[k] = NoRow /\ k \in LocalId
  <2> SUFFICES ASSUME NEW k \in Key
               PROVE  \/ stored[k] = row[k]
                      \/ /\ stored[k].status \in {"new", "downloaded", "absent"}
                         /\ k \in Unknown(usable)
                      \/ stored[k] = NoRow /\ k \in LocalId
    OBVIOUS
  <2>1. CASE k \in DOMAIN taken
    <3>1. stored[k] = row[taken[k]]
      BY <2>1, StoredAt
    <3>2. row[taken[k]].status \in {"absent", "downloaded"}
      BY <1>4, <2>1 DEF Settled, SettledOn
    <3> QED BY <1>4, <2>1, <3>1, <3>2
  <2>2. CASE k \notin DOMAIN taken /\ k \in Unknown(usable)
    <3>1. stored[k] = Fresh("new")
      BY <2>2, StoredAt
    <3> QED BY <2>2, <3>1 DEF Fresh
  <2>3. CASE k \notin Unknown(usable)
    <3>1. stored[k] = row[k] \/ (stored[k] = NoRow /\ k \in {taken[c] : c \in DOMAIN taken})
      BY <1>4, <1>5, <2>3, StoredAt
    <3> QED BY <1>4, <3>1
  <2> QED BY <2>1, <2>2, <2>3
<1>9. RowsOK(rows) /\ \A k \in Key : \/ rows[k] = stored[k]
                                     \/ /\ stored[k].status \in {"failed", "lost"}
                                        /\ rows[k].status \in {"failed", "lost"}
  BY <1>7, ReconciledOK
<1>10. \A k \in fresh : stored[k] = Fresh("new")
  BY <1>5, <1>6, StoredAt
<1>11. \/ Ask(fresh, TRUE) /\ Persist(rows, Marked(rows, fresh, {"new"}))
       \/ row' = rows /\ job' = job /\ link' = link
  BY <1>16
<1>12. \A k \in Unknown(usable) : k \notin LocalId /\ job[k] = "absent"
  BY DEF Unknown, Rows, Settled, SettledOn, Key
<1> HIDE DEF stored, rows, fresh
<1>13. SettledOn(rows, job, link)
  <2>1. \A k \in LocalId : job[k] = "absent" /\ k \in Key /\ row[k].status \in {"absent", "downloaded"}
    BY DEF Settled, SettledOn, Key
  <2>2. \A k \in Key : row[k].status \in {"failed", "lost"} => job[k] # "completed"
    BY DEF Settled, SettledOn
  <2>3. NoRow.status = "absent"
    BY DEF NoRow
  <2>4. \A k \in Key : \/ rows[k] = row[k]
                       \/ rows[k].status = "downloaded"
                       \/ /\ rows[k].status \in {"new", "missing", "failed", "lost"}
                          /\ job[k] # "completed"
                          /\ k \notin LocalId
                       \/ rows[k].status = "absent" /\ job[k] = "absent"
    <3> SUFFICES ASSUME NEW k \in Key, rows[k] # row[k]
                 PROVE  \/ rows[k].status = "downloaded"
                        \/ /\ rows[k].status \in {"new", "missing", "failed", "lost"}
                           /\ job[k] # "completed"
                           /\ k \notin LocalId
                        \/ rows[k].status = "absent" /\ job[k] = "absent"
      OBVIOUS
    <3>1. CASE rows[k] = stored[k]
      BY <1>8, <1>12, <2>1, <2>3, <3>1
    <3>2. CASE stored[k].status \in {"failed", "lost"} /\ rows[k].status \in {"failed", "lost"}
      BY <1>8, <1>12, <2>1, <2>2, <2>3, <3>2
    <3> QED BY <1>9, <3>1, <3>2
  <2> QED BY <2>4, RowsOnlySettles
<1>14. CASE Ask(fresh, TRUE) /\ Persist(rows, Marked(rows, fresh, {"new"}))
  <2> DEFINE wanted == {"new"}
  <2>1. row' = Marked(rows, fresh, wanted)
    BY <1>14, PersistAlive
  <2>2. wanted \subseteq Manual
    BY DEF Manual, WithBacklog, Grabbed
  <2>3. \A k \in fresh : rows[k].status # "absent" /\ k \notin LocalId
    BY <1>6, <1>9, <1>10 DEF Fresh
  <2>4. rows \in [Key -> Row]
    BY <1>9 DEF RowsOK
  <2> HIDE DEF wanted
  <2>5. \A k \in Key : k \in fresh /\ rows[k].status \in wanted => k \in fresh
    OBVIOUS
  <2>6. fresh \in SUBSET Key /\ Ask(fresh, TRUE)
    BY <1>6, <1>14
  <2> QED BY <1>1, <1>13, <2>1, <2>2, <2>3, <2>4, <2>5, <2>6, AskSettles
<1>15. CASE row' = rows /\ job' = job /\ link' = link
  BY <1>13, <1>15 DEF Settled, SettledOn
<1> QED BY <1>11, <1>14, <1>15

LEMMA StepSettles == Undisturbed /\ Inv /\ Settled /\ [Next]_vars => Settled'
<1> SUFFICES ASSUME Undisturbed, Inv, Settled, [Next]_vars PROVE Settled'
  OBVIOUS
<1>1. CASE JobRequest
  <2>1. Grabbed \subseteq Manual /\ WithBacklog \subseteq Manual
    BY DEF Manual, WithBacklog, Grabbed
  <2>2. CASE \E S \in SUBSET Id : Post(S)
    BY <2>2, PostSettles
  <2>3. CASE DownloadNew(Grabbed) \/ DownloadNew(WithBacklog)
    BY <2>1, <2>3, DownloadNewSettles
  <2>4. CASE RetryFailed \/ RetryJob
    BY <2>4, RetrySettles
  <2>5. CASE ClearQueue \/ \E k \in Key : Cancel(k)
    BY <2>5, WithdrawSettles
  <2>6. CASE \E S : Dismiss(S)
    BY <2>6, ForgetSettles
  <2> QED BY <1>1, <2>2, <2>3, <2>4, <2>5, <2>6 DEF JobRequest
<1>2. CASE LibraryRequest
  <2>1. CASE Follow
    BY <2>1 DEF Follow, tables, Settled, SettledOn
  <2>2. ~Remove
    BY DEF Remove, Undisturbed
  <2> QED BY <1>2, <2>1, <2>2, FilesSettle DEF LibraryRequest
<1>3. CASE Unattended
  BY <1>3, SweepSettles, FinishSettles, ForgetSettles, RestartSettles, CheckSettles, SnapshotSettles
     DEF Unattended
<1>4. CASE \E k \in Key : Finish(k, "cancelled")
  BY <1>4, FinishSettles
<1>5. CASE UNCHANGED vars
  BY <1>5 DEF vars, tables, Settled, SettledOn
<1> QED BY <1>1, <1>2, <1>3, <1>4, <1>5 DEF Next

\* In a library where downloads are asked for chapters it knows, no entry is
\* removed and ids stay, a queued chapter always has its active job, however
\* often the server restarts.
THEOREM QueuedChaptersHaveJobs == ASSUME Undisturbed PROVE Spec => []QueuedHasJob
<1>1. Init => Settled
  BY DEF Init, Queue!Init, Settled, SettledOn, NoRow, Key
<1>2. Inv /\ Settled /\ [Next]_vars => Settled'
  BY StepSettles
<1>3. Settled => QueuedHasJob
  BY DEF Settled, SettledOn, QueuedHasJob
<1> QED BY <1>1, <1>2, <1>3, ChaptersInvariant, PTL DEF Spec
-----------------------------------------------------------------------------
(* Action properties, under every disruption                                *)

\* How a handler that looks at a source disturbs the chapters with a row: jobs
\* are started, or asked for along with a queued chapter; no chapter fails.
Looked(k) ==
  /\ \/ job'[k] = job[k]
     \/ job[k] = "queued" /\ job'[k] = "downloading"
     \/ /\ job[k] \notin Active /\ job'[k] \in {"queued", "downloading"}
        /\ up' => row'[k].status = "queued"
  /\ link'[k] \in {link[k], "current"}
  /\ k \in Rows /\ row'[k].status \in {"failed", "lost"} => row[k].status \in {"failed", "lost"}

LEMMA SnapshotLooks ==
  ASSUME Inv, NEW listed \in SUBSET Id, NEW found, NEW backlog \in {"new", "missing"},
         NEW grab \in BOOLEAN, Snapshot(listed, found, backlog, grab)
  PROVE  \A k \in Key : Looked(k)
<1> DEFINE rows == [k \in Key |->
        IF k \in Rows \/ k \notin listed THEN row[k]
        ELSE IF k \in found THEN Fresh("downloaded") ELSE Fresh(backlog)]
<1>1. JobsOK(job) /\ LinksOK(job, link)
  BY InvParts
<1>2. \A k \in Rows : k \in Key /\ rows[k] = row[k]
  BY DEF Rows
<1>3. \/ Ask(In(rows, Grabbed), TRUE) /\ Persist(rows, Marked(rows, Key, Grabbed))
      \/ row' = rows /\ job' = job /\ link' = link
  BY DEF Snapshot
<1> HIDE DEF rows
<1>4. CASE Ask(In(rows, Grabbed), TRUE) /\ Persist(rows, Marked(rows, Key, Grabbed))
  <2> DEFINE S == In(rows, Grabbed)
  <2>1. S \in SUBSET Key
    BY DEF In
  <2>2. \A k \in S : rows[k].status \in Grabbed
    BY DEF In
  <2> HIDE DEF S
  <2>3. Ask(S, TRUE)
    BY <1>4 DEF S
  <2>4. /\ \A k \in S : job[k] \notin Active => job'[k] \in {"queued", "downloading"}
        /\ \A k \in Key : \/ k \in S /\ job[k] \notin Active
                          \/ job'[k] = job[k]
                          \/ job[k] = "queued" /\ job'[k] = "downloading"
        /\ \A k \in Key : link'[k] = IF k \in S /\ TRUE /\ (job[k] \notin Active \/ link[k] = "none")
                                     THEN "current" ELSE link[k]
    BY <1>1, <2>1, <2>3, AskEffect, Zenon
  <2>5. \/ row' = Marked(rows, Key, Grabbed)
        \/ row' = rows /\ up' = FALSE
    BY <1>4 DEF Persist
  <2>6. \A k \in Key : \/ row'[k] = rows[k] /\ (up' => rows[k].status \notin Grabbed)
                       \/ row'[k].status = "queued"
    BY <2>5 DEF Marked
  <2>7. \A k \in Key : row'[k].status \in {"failed", "lost"} => rows[k].status \in {"failed", "lost"}
    BY <2>6
  <2>8. \A k \in S : up' => row'[k].status = "queued"
    BY <2>1, <2>2, <2>6
  <2> QED BY <1>2, <2>4, <2>7, <2>8 DEF Looked
<1>5. CASE row' = rows /\ job' = job /\ link' = link
  BY <1>2, <1>5 DEF Looked
<1> QED BY <1>3, <1>4, <1>5

LEMMA CheckLooks ==
  ASSUME Inv, NEW raw \in SUBSET Id, NEW usable \in SUBSET Id, NEW auto \in BOOLEAN,
         Check(raw, usable, auto)
  PROVE  \A k \in Key : Looked(k)
<1>1. RowsOK(row) /\ JobsOK(job) /\ LinksOK(job, link)
  BY InvParts
<1>2. PICK taken \in Takeovers(usable) :
        \E again \in SUBSET (usable \cap {taken[c] : c \in DOMAIN taken}) :
        LET rows == Reconciled(Stored(usable, taken, again), raw, usable)
            fresh == (Unknown(usable) \ DOMAIN taken) \cup again
        IN \/ Ask(fresh, TRUE) /\ Persist(rows, Marked(rows, fresh, {"new"}))
           \/ row' = rows /\ job' = job /\ link' = link
  BY DEF Check
<1>3. PICK again \in SUBSET (usable \cap {taken[c] : c \in DOMAIN taken}) :
        LET rows == Reconciled(Stored(usable, taken, again), raw, usable)
            fresh == (Unknown(usable) \ DOMAIN taken) \cup again
        IN \/ Ask(fresh, TRUE) /\ Persist(rows, Marked(rows, fresh, {"new"}))
           \/ row' = rows /\ job' = job /\ link' = link
  BY <1>2
<1> DEFINE stored == Stored(usable, taken, again)
           rows == Reconciled(stored, raw, usable)
           fresh == (Unknown(usable) \ DOMAIN taken) \cup again
<1>4. \A c \in DOMAIN taken : c \in usable /\ c \notin Rows /\ taken[c] \in Rows
  BY DEF Takeovers, Unknown
<1>5. again \subseteq Rows /\ again \subseteq usable
  BY <1>4
<1>6. fresh \in SUBSET Key /\ \A k \in fresh : k \notin DOMAIN taken
  BY <1>4, <1>5 DEF Unknown, Key
<1>7. \A k \in fresh : stored[k] = Fresh("new")
  BY <1>6, StoredAt
<1>8. RowsOK(stored)
  BY <1>1, StoredOK
<1>9. \A k \in Rows : k \in Key /\ stored[k] \in {row[k], Fresh("new"), NoRow}
  <2> SUFFICES ASSUME NEW k \in Rows PROVE k \in Key /\ stored[k] \in {row[k], Fresh("new"), NoRow}
    OBVIOUS
  <2>1. k \in Key /\ k \notin DOMAIN taken
    BY <1>4 DEF Rows
  <2> HIDE DEF stored
  <2>2. stored[k] \in {row[k], Fresh("new"), NoRow}
    BY <2>1, StoredAt DEF stored
  <2> QED BY <2>1, <2>2
<1>10. \A k \in Key : \/ rows[k] = stored[k]
                      \/ /\ stored[k].status \in {"failed", "lost"}
                         /\ rows[k].status \in {"failed", "lost"}
  BY <1>8, ReconciledOK
<1>11. \/ Ask(fresh, TRUE) /\ Persist(rows, Marked(rows, fresh, {"new"}))
       \/ row' = rows /\ job' = job /\ link' = link
  BY <1>3
<1> HIDE DEF stored, rows, fresh
<1>12. Fresh("new").status = "new" /\ NoRow.status = "absent"
  BY DEF Fresh, NoRow
<1>13. \A k \in Rows : k \in Key /\ (rows[k].status \in {"failed", "lost"} => row[k].status \in {"failed", "lost"})
  BY <1>9, <1>10, <1>12
<1>14. CASE Ask(fresh, TRUE) /\ Persist(rows, Marked(rows, fresh, {"new"}))
  <2>1. Ask(fresh, TRUE)
    BY <1>14
  <2>2. /\ \A k \in fresh : job[k] \notin Active => job'[k] \in {"queued", "downloading"}
        /\ \A k \in Key : \/ k \in fresh /\ job[k] \notin Active
                          \/ job'[k] = job[k]
                          \/ job[k] = "queued" /\ job'[k] = "downloading"
        /\ \A k \in Key : link'[k] = IF k \in fresh /\ TRUE /\ (job[k] \notin Active \/ link[k] = "none")
                                     THEN "current" ELSE link[k]
    BY <1>1, <1>6, <2>1, AskEffect, Zenon
  <2>3. \/ row' = Marked(rows, fresh, {"new"})
        \/ row' = rows /\ up' = FALSE
    BY <1>14 DEF Persist
  <2>4. \A k \in Key :
          \/ row'[k] = rows[k] /\ (up' => ~(k \in fresh /\ rows[k].status = "new"))
          \/ row'[k].status = "queued"
    BY <2>3 DEF Marked
  <2>5. \A k \in Key : row'[k].status \in {"failed", "lost"} => rows[k].status \in {"failed", "lost"}
    BY <2>4
  <2>6. \A k \in fresh : rows[k].status = "new"
    BY <1>6, <1>7, <1>10, <1>12
  <2>7. \A k \in fresh : up' => row'[k].status = "queued"
    BY <1>6, <2>4, <2>6
  <2> QED BY <1>13, <2>2, <2>5, <2>7 DEF Looked
<1>15. CASE row' = rows /\ job' = job /\ link' = link
  BY <1>13, <1>15 DEF Looked
<1> QED BY <1>11, <1>14, <1>15

\* What a request or a pass of the queue does to the jobs.
LEMMA RequestKeepsActive ==
  ASSUME JobsOK(job), NEW S, Queue!Request(S), NEW k \in Key
  PROVE  /\ job[k] \in {"queued", "downloading"} => job'[k] \in {"queued", "downloading"}
         /\ k \notin S /\ job[k] = "failed" => job'[k] = "failed"
<1>1. k \in S => job[k] \in {"absent", "failed", "cancelled"} /\ job'[k] \in {"queued", "downloading"}
  BY RequestEffect
<1>2. k \notin S => job'[k] = job[k] \/ (job[k] = "queued" /\ job'[k] = "downloading")
  BY RequestEffect
<1> QED BY <1>1, <1>2

LEMMA AskKeepsActive ==
  ASSUME Inv, NEW S, NEW forEntry, Ask(S, forEntry), NEW k \in Key
  PROVE  /\ job[k] \in {"queued", "downloading"} => job'[k] \in {"queued", "downloading"}
         /\ k \notin S /\ job[k] = "failed" => job'[k] = "failed"
<1> DEFINE asked == {l \in S : job[l] \notin Active}
<1>1. Queue!Request(asked) /\ JobsOK(job)
  BY InvParts DEF Ask
<1>2. k \notin S => k \notin asked
  OBVIOUS
<1> HIDE DEF asked
<1> QED BY <1>1, <1>2, RequestKeepsActive

\* The steps that may take a job off the queue without an outcome.
LEMMA WhoCancels ==
  ASSUME Inv, Next, NEW k \in Key, job[k] \in {"queued", "downloading"},
         job'[k] \notin {"queued", "downloading", "completed", "failed"}
  PROVE  ClearQueue \/ (\E l \in Key : Cancel(l)) \/ Finish(k, "cancelled")
<1>1. JobsOK(job)
  BY InvParts
<1>2. CASE JobRequest
  <2>1. ASSUME NEW S, Post(S) PROVE FALSE
    BY <2>1, AskKeepsActive DEF Post
  <2>2. ASSUME NEW from, DownloadNew(from) PROVE FALSE
    BY <2>2, AskKeepsActive DEF DownloadNew
  <2>3. ASSUME NEW S, Retry(S) PROVE FALSE
    BY <1>1, <2>3, RequestKeepsActive DEF Retry
  <2>4. ASSUME NEW S, Dismiss(S) PROVE FALSE
    BY <1>1, <2>4, ForgetEffect DEF Dismiss
  <2> QED BY <1>2, <2>1, <2>2, <2>3, <2>4 DEF JobRequest, RetryFailed, RetryJob
<1>3. CASE LibraryRequest
  BY <1>3 DEF LibraryRequest, Follow, Remove, Attach, Rollback, tables
<1>4. CASE Unattended
  <2>1. ASSUME NEW S, Sweep(S) \/ Pass PROVE FALSE
    BY <1>1, <2>1, RequestKeepsActive DEF Sweep, Pass
  <2>2. ASSUME NEW l \in Key, NEW outcome \in {"completed", "failed"}, Finish(l, outcome) PROVE FALSE
    BY <1>1, <2>2, FinishEffect DEF Finish
  <2>3. ASSUME NEW S, Prune(S) \/ Restart(S) PROVE FALSE
    <3>1. \A l \in S : job[l] \in {"completed", "failed", "cancelled"}
      BY <1>1, <2>3, ForgetEffect, RestartEffect DEF Prune, Restart
    <3> QED BY <1>1, <2>3, <3>1, ForgetEffect, RestartEffect DEF Prune, Restart
  <2>4. ASSUME \A l \in Key : Looked(l) PROVE FALSE
    BY <2>4 DEF Looked
  <2> QED BY <1>4, <2>1, <2>2, <2>3, <2>4, CheckLooks, SnapshotLooks DEF Unattended
<1>5. CASE \E l \in Key : Finish(l, "cancelled")
  BY <1>1, <1>5, FinishEffect DEF Finish
<1> QED BY <1>2, <1>3, <1>4, <1>5 DEF Next

LEMMA NextRestores == Inv /\ [Next]_vars => [RestoresCancelled]_vars
<1> SUFFICES ASSUME Inv, Next, up', NEW k \in Key,
                    row[k].status = "queued", link[k] = "current",
                    job[k] \in {"queued", "downloading"}, job'[k] \in {"cancelled", "absent"}
             PROVE  row'[k].status = row[k].prev
  BY DEF RestoresCancelled
<1>1. RowsOK(row) /\ JobsOK(job)
  BY InvParts
<1>2. CASE ClearQueue \/ \E l \in Key : Cancel(l)
  <2>1. PICK S, v : Queue!Withdraw(S, v) /\ Persist(row, Reverted(Linked(S)))
    BY <1>2 DEF Cancel, ClearQueue
  <2>2. k \in S
    BY <1>1, <2>1, WithdrawEffect
  <2>3. k \in Linked(S)
    BY <2>2 DEF Linked
  <2>4. row' = Reverted(Linked(S))
    BY <2>1 DEF Persist
  <2> QED BY <1>1, <2>3, <2>4, RevertedRestores
<1>3. CASE Finish(k, "cancelled")
  <2>1. Persist(row, Heard(k, "cancelled"))
    BY <1>3 DEF Finish
  <2>2. Heard(k, "cancelled") = Reverted({k})
    BY DEF Heard
  <2>3. row' = Reverted({k})
    BY <2>1, <2>2 DEF Persist
  <2> QED BY <1>1, <2>3, RevertedRestores
<1> QED BY <1>2, <1>3, WhoCancels

\* Every cancelled or cleared job, of any library, restores its chapter.
THEOREM CancelsRestore == Spec => CancelRestores
<1>1. Inv /\ [Next]_vars => [RestoresCancelled]_vars
  BY NextRestores
<1> QED BY <1>1, ChaptersInvariant, PTL DEF Spec, CancelRestores

LEMMA NextLeavesLost == Inv /\ [Next]_vars => [LeavesLostAlone]_vars
<1> SUFFICES ASSUME Inv, Next, up', NEW k \in Key,
                    row[k].status = "lost", link[k] = "current",
                    job[k] = "failed", job'[k] \in {"queued", "downloading"}
             PROVE  row'[k].status = "queued"
  BY DEF LeavesLostAlone
<1>1. RowsOK(row) /\ JobsOK(job) /\ CascadeOK(entry, row, link)
  BY InvParts
<1>2. ASSUME NEW T, k \in T, Persist(row, Marked(row, T, Manual)) PROVE row'[k].status = "queued"
  <2>1. row' = Marked(row, T, Manual)
    BY <1>2 DEF Persist
  <2> QED BY <1>2, <2>1 DEF Marked, Manual
<1>3. CASE JobRequest
  <2>1. ASSUME NEW S, Post(S) PROVE row'[k].status = "queued"
    <3>1. k \in S
      BY <2>1, AskKeepsActive DEF Post
    <3>2. entry # "none"
      BY <1>1 DEF CascadeOK
    <3>3. Persist(row, Marked(row, S, Manual))
      BY <2>1, <3>2 DEF Post
    <3> QED BY <1>2, <3>1, <3>3
  <2>2. ASSUME NEW from \in {Grabbed, WithBacklog}, DownloadNew(from) PROVE FALSE
    <3>1. k \notin In(row, from)
      BY DEF In, Grabbed, WithBacklog
    <3> QED BY <2>2, <3>1, AskKeepsActive DEF DownloadNew
  <2>3. ASSUME NEW S, Retry(S) PROVE row'[k].status = "queued"
    <3>1. Queue!Request(S) /\ Persist(row, Marked(row, Linked(S), Manual))
      BY <2>3 DEF Retry
    <3>2. k \in S
      BY <1>1, <3>1, RequestKeepsActive
    <3>3. k \in Linked(S)
      BY <3>2 DEF Linked
    <3> QED BY <1>2, <3>1, <3>3
  <2>4. ASSUME NEW S, Dismiss(S) PROVE FALSE
    BY <1>1, <2>4, ForgetEffect DEF Dismiss
  <2>5. ASSUME ClearQueue \/ \E l \in Key : Cancel(l) PROVE FALSE
    BY <1>1, <2>5, WithdrawEffect DEF ClearQueue, Cancel
  <2> QED BY <1>3, <2>1, <2>2, <2>3, <2>4, <2>5 DEF JobRequest, RetryFailed, RetryJob
<1>4. CASE LibraryRequest
  BY <1>4 DEF LibraryRequest, Follow, Remove, Attach, Rollback, tables
<1>5. CASE Unattended
  <2>1. ASSUME NEW S, Sweep(S) PROVE FALSE
    <3>1. k \notin S
      BY <2>1 DEF Sweep, Due
    <3> QED BY <1>1, <2>1, <3>1, RequestKeepsActive DEF Sweep
  <2>2. ASSUME Pass PROVE FALSE
    BY <1>1, <2>2, RequestKeepsActive DEF Pass
  <2>3. ASSUME NEW l \in Key, NEW outcome, Finish(l, outcome) PROVE FALSE
    BY <1>1, <2>3, FinishEffect DEF Finish
  <2>4. ASSUME NEW S, Prune(S) \/ Restart(S) PROVE FALSE
    BY <1>1, <2>4, ForgetEffect, RestartEffect DEF Prune, Restart
  <2>5. ASSUME \A l \in Key : Looked(l) PROVE row'[k].status = "queued"
    BY <2>5 DEF Looked
  <2> QED BY <1>5, <2>1, <2>2, <2>3, <2>4, <2>5, CheckLooks, SnapshotLooks DEF Unattended
<1>6. CASE \E l \in Key : Finish(l, "cancelled")
  BY <1>1, <1>6, FinishEffect DEF Finish
<1> QED BY <1>3, <1>4, <1>5, <1>6 DEF Next

\* No sweep, check or restart, of any library, tries a delisted chapter again.
THEOREM SweepsSkipLost == Spec => SweepSkipsLost
<1>1. Inv /\ [Next]_vars => [LeavesLostAlone]_vars
  BY NextLeavesLost
<1> QED BY <1>1, ChaptersInvariant, PTL DEF Spec, SweepSkipsLost

LEMMA NextAbandonsNone == Inv /\ [Next]_vars => [AbandonsNone]_vars
<1> SUFFICES ASSUME Inv, Unattended, up', NEW k \in Rows, ~Abandoned(k) PROVE ~Abandoned(k)'
  BY DEF AbandonsNone
<1>1. RowsOK(row) /\ JobsOK(job) /\ k \in Key
  BY InvParts DEF Rows
<1>2. row[k].status \in {"failed", "lost"} =>
        link[k] = "current" /\ job[k] \in {"queued", "downloading", "failed"}
  BY DEF Abandoned
<1> SUFFICES ASSUME row'[k].status \in {"failed", "lost"}
             PROVE  link'[k] = "current" /\ job'[k] \in {"queued", "downloading", "failed"}
  BY DEF Abandoned
<1>3. ASSUME NEW S, Sweep(S) \/ Pass
      PROVE  link'[k] = "current" /\ job'[k] \in {"queued", "downloading", "failed"}
  <2>1. row' = row /\ link' = link
    BY <1>3 DEF Sweep, Pass
  <2>2. \E T : Queue!Request(T)
    BY <1>3 DEF Sweep, Pass
  <2>3. job[k] \in {"queued", "downloading"} => job'[k] \in {"queued", "downloading"}
    BY <1>1, <2>2, RequestKeepsActive
  <2>4. job[k] = "failed" => job'[k] \in {"failed", "queued", "downloading"}
    BY <1>1, <2>2, RequestEffect
  <2> QED BY <1>2, <2>1, <2>3, <2>4
<1>4. ASSUME NEW l \in Key, NEW outcome \in {"completed", "failed"}, Finish(l, outcome)
      PROVE  link'[k] = "current" /\ job'[k] \in {"queued", "downloading", "failed"}
  <2>1. /\ Queue!Finish(l, outcome) /\ link' = link /\ row' = Heard(l, outcome)
    BY <1>4 DEF Finish, Persist
  <2>2. job'[l] = outcome /\ \A m \in Key \ {l} : job'[m] = job[m]
    BY <1>1, <2>1, FinishEffect
  <2>3. CASE link[l] # "current"
    <3>1. row' = row /\ l # k
      BY <1>2, <2>1, <2>3 DEF Heard
    <3> QED BY <1>1, <1>2, <2>1, <2>2, <3>1
  <2>4. CASE link[l] = "current"
    <3>1. row' = Reported(l, IF outcome = "completed" THEN "downloaded" ELSE "failed")
      BY <2>1, <2>4 DEF Heard
    <3>2. CASE k = l
      <4>1. outcome = "failed"
        BY <1>1, <3>1, <3>2, ReportedSettles DEF Rows
      <4> QED BY <2>1, <2>2, <2>4, <3>2, <4>1
    <3>3. CASE k # l
      <4>1. row'[k] = row[k]
        BY <1>1, <3>1, <3>3, ReportedSettles
      <4> QED BY <1>1, <1>2, <2>1, <2>2, <3>3, <4>1
    <3> QED BY <3>2, <3>3
  <2> QED BY <2>3, <2>4
<1>5. ASSUME NEW S, Prune(S) \/ Restart(S)
      PROVE  link'[k] = "current" /\ job'[k] \in {"queued", "downloading", "failed"}
  <2>1. row' = row /\ S \subseteq Expirable /\ link' = Unlinked(S)
    BY <1>5 DEF Prune, Restart
  <2>2. k \notin S
    BY <1>2, <2>1 DEF Expirable, Queue!With, Queue!Finished
  <2>3. job'[k] = job[k] \/ (job[k] = "downloading" /\ job'[k] = "queued")
    <3>1. CASE Prune(S)
      BY <1>1, <2>2, <3>1, ForgetEffect DEF Prune
    <3>2. CASE Restart(S)
      BY <1>1, <2>2, <3>2, RestartEffect DEF Restart
    <3> QED BY <1>5, <3>1, <3>2
  <2>4. link'[k] = link[k]
    BY <1>1, <2>1, <2>2 DEF Unlinked
  <2> QED BY <1>2, <2>1, <2>3, <2>4
<1>6. ASSUME \A l \in Key : Looked(l)
      PROVE  link'[k] = "current" /\ job'[k] \in {"queued", "downloading", "failed"}
  BY <1>1, <1>2, <1>6 DEF Looked
<1> QED BY <1>3, <1>4, <1>5, <1>6, CheckLooks, SnapshotLooks DEF Unattended

\* Nothing the server does by itself, in any library, leaves a failed or lost
\* chapter without the job that would try it again.
THEOREM NoneIsAbandoned == Spec => NoneAbandoned
<1>1. Inv /\ [Next]_vars => [AbandonsNone]_vars
  BY NextAbandonsNone
<1> QED BY <1>1, ChaptersInvariant, PTL DEF Spec, NoneAbandoned

-----------------------------------------------------------------------------
(* What a queued chapter remembers                                          *)

\* Queued chapters of `rows` have a row that remembers what it was, and no
\* queued chapter has lost its row.
Keeps(rows) ==
  \A k \in Key :
    /\ rows[k].status = "queued" => k \in Rows /\ rows[k].prev = Origin(k)
    /\ row[k].status = "queued" => rows[k].status # "absent"

LEMMA KeptRemembers ==
  ASSUME NEW STATE rows, Keeps(rows), row' = rows
  PROVE  RemembersOrigin
BY DEF Keeps, RemembersOrigin

LEMMA SameKeeps == Keeps(row)
BY DEF Keeps, Rows, Origin

\* A handler that is cut between its writes leaves the chapters alone.
LEMMA PersistRemembers ==
  ASSUME NEW STATE after, Keeps(after), Persist(row, after)
  PROVE  RemembersOrigin
BY SameKeeps, KeptRemembers DEF Persist

LEMMA MarkedKeeps ==
  ASSUME RowsOK(row), NEW S, NEW from, from \subseteq Manual
  PROVE  Keeps(Marked(row, S, from))
<1>1. "queued" \notin from /\ "absent" \notin from
  BY DEF Manual, WithBacklog, Grabbed
<1> SUFFICES ASSUME NEW k \in Key
             PROVE  /\ Marked(row, S, from)[k].status = "queued" =>
                         k \in Rows /\ Marked(row, S, from)[k].prev = Origin(k)
                    /\ row[k].status = "queued" => Marked(row, S, from)[k].status # "absent"
  BY DEF Keeps
<1>2. CASE k \in S /\ row[k].status \in from
  <2>1. Marked(row, S, from)[k] = [status |-> "queued", prev |-> row[k].status]
    BY <1>2 DEF Marked
  <2> QED BY <1>1, <1>2, <2>1 DEF Rows, Origin
<1>3. CASE ~(k \in S /\ row[k].status \in from)
  <2>1. Marked(row, S, from)[k] = row[k]
    BY <1>3 DEF Marked
  <2> QED BY <2>1, SameKeeps DEF Keeps
<1> QED BY <1>2, <1>3

LEMMA RevertedKeeps == ASSUME RowsOK(row), NEW S PROVE Keeps(Reverted(S))
<1> SUFFICES ASSUME NEW k \in Key
             PROVE  /\ Reverted(S)[k].status = "queued" =>
                         k \in Rows /\ Reverted(S)[k].prev = Origin(k)
                    /\ row[k].status = "queued" => Reverted(S)[k].status # "absent"
  BY DEF Keeps
<1>1. CASE k \in S /\ row[k].status = "queued"
  <2>1. row[k].prev \in {"new", "missing", "failed", "lost"}
    BY <1>1 DEF RowsOK, Manual, WithBacklog, Grabbed
  <2>2. Reverted(S)[k].status = row[k].prev
    BY <1>1, <2>1 DEF Reverted, Fresh
  <2> QED BY <2>1, <2>2
<1>2. CASE ~(k \in S /\ row[k].status = "queued")
  <2>1. Reverted(S)[k] = row[k]
    BY <1>2 DEF Reverted
  <2> QED BY <2>1, SameKeeps DEF Keeps
<1> QED BY <1>1, <1>2

LEMMA ReportedKeeps ==
  ASSUME RowsOK(row), NEW k \in Key, NEW v \in {"downloaded", "failed"}
  PROVE  Keeps(Reported(k, v))
<1>1. \A l \in Key : Reported(k, v)[l] = row[l] \/ Reported(k, v)[l] = Fresh(v)
  BY DEF Reported, RowsOK
<1>2. Fresh(v).status \notin {"queued", "absent"}
  BY DEF Fresh
<1> QED BY <1>1, <1>2, SameKeeps, Zenon DEF Keeps

\* Requests, reports and reverts keep what a queued chapter remembers.
LEMMA HandlersRemember ==
  ASSUME Inv
  PROVE  /\ \A S : Post(S) \/ Retry(S) => RemembersOrigin
         /\ \A from \in {Grabbed, WithBacklog} : DownloadNew(from) => RemembersOrigin
         /\ ClearQueue \/ (\E k \in Key : Cancel(k)) => RemembersOrigin
         /\ \A k \in Key : \A outcome : Finish(k, outcome) => RemembersOrigin
<1>1. RowsOK(row) /\ JobsOK(job)
  BY InvParts
<1>2. ASSUME NEW S, Post(S) \/ Retry(S) PROVE RemembersOrigin
  <2>1. Persist(row, row) \/ \E T : Persist(row, Marked(row, T, Manual))
    BY <1>2 DEF Post, Retry
  <2> QED BY <1>1, <2>1, SameKeeps, MarkedKeeps, PersistRemembers
<1>3. ASSUME NEW from \in {Grabbed, WithBacklog}, DownloadNew(from) PROVE RemembersOrigin
  <2>1. from \subseteq Manual
    BY DEF Manual, WithBacklog
  <2> QED BY <1>1, <1>3, <2>1, MarkedKeeps, PersistRemembers DEF DownloadNew
<1>4. ASSUME ClearQueue \/ \E k \in Key : Cancel(k) PROVE RemembersOrigin
  <2>1. \E T : Persist(row, Reverted(T))
    BY <1>4 DEF ClearQueue, Cancel
  <2> QED BY <1>1, <2>1, RevertedKeeps, PersistRemembers
<1>5. ASSUME NEW k \in Key, NEW outcome, Finish(k, outcome) PROVE RemembersOrigin
  <2>1. Persist(row, Heard(k, outcome)) /\ outcome \in {"completed", "failed", "cancelled"}
    BY <1>1, <1>5, FinishEffect DEF Finish
  <2>2. \/ Heard(k, outcome) = row
        \/ Heard(k, outcome) = Reverted({k})
        \/ Heard(k, outcome) = Reported(k, "downloaded")
        \/ Heard(k, outcome) = Reported(k, "failed")
    BY DEF Heard
  <2>3. Keeps(Heard(k, outcome))
    BY <1>1, <2>2, SameKeeps, RevertedKeeps, ReportedKeeps
  <2> QED BY <2>1, <2>3, PersistRemembers
<1> QED BY <1>2, <1>3, <1>4, <1>5

\* Files found on disk or restored.
LEMMA FilesRemember ==
  ASSUME Inv, \/ \E S, locals : Attach(S, locals)
              \/ \E k \in Key : Rollback(k)
  PROVE  RemembersOrigin
<1>1. RowsOK(row)
  BY InvParts
<1>2. CASE \E S, locals : Attach(S, locals)
  <2>1. \A l \in Key : row'[l] = row[l] \/ row'[l] = Fresh("downloaded")
    BY <1>2 DEF Attach
  <2>2. Fresh("downloaded").status = "downloaded"
    BY DEF Fresh
  <2> QED BY <2>1, <2>2, SameKeeps DEF RemembersOrigin, Keeps
<1>3. CASE \E k \in Key : Rollback(k)
  BY <1>1, <1>3, ReportedKeeps, KeptRemembers DEF Rollback
<1> QED BY <1>2, <1>3

\* The first listing of an entry; what it grabs was new or failed.
LEMMA SnapshotRemembers ==
  ASSUME Inv, NEW listed \in SUBSET Id, NEW found, NEW backlog \in {"new", "missing"},
         NEW grab \in BOOLEAN, Snapshot(listed, found, backlog, grab)
  PROVE  RemembersOrigin
<1> DEFINE rows == [k \in Key |->
        IF k \in Rows \/ k \notin listed THEN row[k]
        ELSE IF k \in found THEN Fresh("downloaded") ELSE Fresh(backlog)]
<1>1. \A k \in Key : \/ rows[k] = row[k]
                     \/ k \notin Rows /\ rows[k] \in {Fresh("downloaded"), Fresh(backlog)}
  OBVIOUS
<1>2. \A v \in {"downloaded", "new", "missing"} : Fresh(v).status = v
  BY DEF Fresh
<1>3. /\ grab => backlog = "new"
      /\ \/ grab /\ Persist(rows, Marked(rows, Key, Grabbed))
         \/ row' = rows
  BY DEF Snapshot
<1> HIDE DEF rows
<1>4. SUFFICES ASSUME NEW k \in Key
               PROVE  /\ row'[k].status = "queued" =>
                           \/ k \in Rows /\ row'[k].prev = Origin(k)
                           \/ row'[k].prev = "new" /\ k \notin Rows
                      /\ row[k].status = "queued" => row'[k].status # "absent"
  BY DEF RemembersOrigin
<1>5. CASE row'[k] = rows[k]
  BY <1>1, <1>2, <1>5, SameKeeps DEF Keeps
<1>6. CASE grab /\ rows[k].status \in Grabbed /\ row'[k] = [status |-> "queued", prev |-> rows[k].status]
  <2>1. CASE rows[k] = row[k]
    BY <1>6, <2>1 DEF Grabbed, Origin, Rows
  <2>2. CASE k \notin Rows /\ rows[k] \in {Fresh("downloaded"), Fresh(backlog)}
    BY <1>2, <1>3, <1>6, <2>2 DEF Grabbed, Rows
  <2> QED BY <1>1, <2>1, <2>2
<1>7. \/ row'[k] = rows[k]
      \/ grab /\ rows[k].status \in Grabbed /\ row'[k] = [status |-> "queued", prev |-> rows[k].status]
  BY <1>3 DEF Persist, Marked
<1> QED BY <1>5, <1>6, <1>7

\* A check: renamed rows move as they are, new chapters may be queued at once.
LEMMA CheckRemembers ==
  ASSUME Inv, NEW raw \in SUBSET Id, NEW usable \in SUBSET Id, NEW auto \in BOOLEAN,
         Check(raw, usable, auto)
  PROVE  RemembersOrigin
<1>1. RowsOK(row)
  BY InvParts
<1>2. PICK taken \in Takeovers(usable) :
        \E again \in SUBSET (usable \cap {taken[c] : c \in DOMAIN taken}) :
        LET rows == Reconciled(Stored(usable, taken, again), raw, usable)
            fresh == (Unknown(usable) \ DOMAIN taken) \cup again
        IN Persist(rows, Marked(rows, fresh, {"new"})) \/ row' = rows
  BY DEF Check
<1>3. PICK again \in SUBSET (usable \cap {taken[c] : c \in DOMAIN taken}) :
        LET rows == Reconciled(Stored(usable, taken, again), raw, usable)
            fresh == (Unknown(usable) \ DOMAIN taken) \cup again
        IN Persist(rows, Marked(rows, fresh, {"new"})) \/ row' = rows
  BY <1>2
<1> DEFINE stored == Stored(usable, taken, again)
           rows == Reconciled(stored, raw, usable)
           fresh == (Unknown(usable) \ DOMAIN taken) \cup again
           moved == {taken[c] : c \in DOMAIN taken}
<1>4. \A c \in DOMAIN taken : /\ c \in Key \ Rows /\ taken[c] \in Rows
                              /\ SameNumber(c, taken[c])
  BY DEF Takeovers, Unknown, MayTake, Key
<1>5. \A k \in fresh : k \notin DOMAIN taken /\ (k \notin Rows \/ k \in moved)
  BY <1>4 DEF Unknown
<1>6. \A k \in Key : /\ k \in DOMAIN taken => stored[k] = row[taken[k]]
                     /\ k \in fresh => stored[k] = Fresh("new")
                     /\ k \notin DOMAIN taken \cup fresh /\ k \in moved => stored[k] = NoRow
                     /\ k \notin DOMAIN taken \cup fresh \cup moved => stored[k] = row[k]
  <2> SUFFICES ASSUME NEW k \in Key
               PROVE  /\ k \in DOMAIN taken => stored[k] = row[taken[k]]
                      /\ k \in fresh => stored[k] = Fresh("new")
                      /\ k \notin DOMAIN taken \cup fresh /\ k \in moved => stored[k] = NoRow
                      /\ k \notin DOMAIN taken \cup fresh \cup moved => stored[k] = row[k]
    OBVIOUS
  <2> QED BY <1>5, StoredAt
<1>7. RowsOK(stored)
  BY <1>1, StoredOK
<1>8. \A k \in Key : \/ rows[k] = stored[k]
                     \/ /\ stored[k].status \in {"failed", "lost"}
                        /\ rows[k].status \in {"failed", "lost"}
  BY <1>7, ReconciledOK
<1>9. Persist(rows, Marked(rows, fresh, {"new"})) \/ row' = rows
  BY <1>3
<1>10. \A c \in DOMAIN taken : \E k \in moved : k = taken[c]
  OBVIOUS
<1>11. \A k \in moved : \E c \in DOMAIN taken : k = taken[c]
  OBVIOUS
<1> HIDE DEF stored, rows, fresh, moved
<1>12. Fresh("new").status = "new" /\ NoRow.status = "absent"
  BY DEF Fresh, NoRow
<1>13. \A k \in Key : \/ row'[k] = rows[k]
                      \/ k \in fresh /\ row'[k] = [status |-> "queued", prev |-> "new"]
  BY <1>9 DEF Persist, Marked
<1>14. \A c \in DOMAIN taken : row'[c] = rows[c]
  BY <1>4, <1>5, <1>13
<1>15. \A k \in moved : Renamed(k)
  <2> SUFFICES ASSUME NEW c \in DOMAIN taken PROVE Renamed(taken[c])
    BY <1>11
  <2>1. c \in Key \ Rows /\ SameNumber(c, taken[c]) /\ row[taken[c]].status # "absent"
    BY <1>4 DEF Rows
  <2>2. stored[c] = row[taken[c]] /\ row'[c] = rows[c]
    BY <1>6, <1>14, <2>1
  <2>3. row'[c].status # "absent" /\ (row[taken[c]].status = "queued" => row'[c] = row[taken[c]])
    BY <1>8, <2>1, <2>2
  <2> QED BY <2>1, <2>3 DEF Renamed
<1>16. SUFFICES ASSUME NEW k \in Key
                PROVE  /\ row'[k].status = "queued" =>
                            \/ k \in Rows /\ row'[k].prev = Origin(k)
                            \/ row'[k].prev = "new" /\ (k \notin Rows \/ Renamed(k))
                            \/ k \notin Rows /\ \E l \in Rows : SameNumber(k, l) /\ row'[k] = row[l]
                       /\ row[k].status = "queued" /\ row'[k].status = "absent" => Renamed(k)
  BY DEF RemembersOrigin
<1>17. CASE k \in fresh
  <2>1. rows[k] = Fresh("new") /\ (k \notin Rows \/ Renamed(k))
    BY <1>5, <1>6, <1>8, <1>12, <1>15, <1>17
  <2> QED BY <1>12, <1>13, <2>1
<1>18. CASE k \in DOMAIN taken
  <2>1. k \notin Rows /\ taken[k] \in Rows /\ SameNumber(k, taken[k])
    BY <1>4, <1>18
  <2>2. row'[k] = rows[k] /\ stored[k] = row[taken[k]]
    BY <1>6, <1>14, <1>18
  <2>3. row'[k].status = "queued" => row'[k] = row[taken[k]]
    BY <1>8, <2>2
  <2>4. row[k].status # "queued"
    BY <2>1 DEF Rows
  <2> QED BY <2>1, <2>3, <2>4
<1>19. CASE k \notin DOMAIN taken \cup fresh
  <2>1. row'[k] = rows[k]
    BY <1>13, <1>19
  <2>2. CASE k \in moved
    <3>1. row'[k].status # "queued"
      BY <1>6, <1>8, <1>12, <1>19, <2>1, <2>2
    <3> QED BY <1>15, <2>2, <3>1
  <2>3. CASE k \notin moved
    <3>1. stored[k] = row[k]
      BY <1>6, <1>19, <2>3
    <3> QED BY <1>8, <2>1, <3>1, SameKeeps DEF Keeps
  <2> QED BY <2>2, <2>3
<1> QED BY <1>17, <1>18, <1>19

LEMMA NextRemembers == Inv /\ [Next]_vars => [RemembersOrigin]_vars
<1> SUFFICES ASSUME Inv, Next PROVE RemembersOrigin
  OBVIOUS
<1>1. ASSUME row' = row PROVE RemembersOrigin
  BY <1>1, SameKeeps, KeptRemembers
<1>2. CASE JobRequest
  <2>1. CASE \E S : Dismiss(S)
    BY <1>1, <2>1 DEF Dismiss
  <2> QED BY <1>2, <2>1, HandlersRemember DEF JobRequest, RetryFailed, RetryJob
<1>3. CASE LibraryRequest
  <2>1. CASE Follow
    BY <1>1, <2>1 DEF Follow, tables
  <2>2. CASE Remove
    BY <2>2 DEF Remove, RemembersOrigin, NoRow
  <2> QED BY <1>3, <2>1, <2>2, FilesRemember DEF LibraryRequest
<1>4. CASE Unattended
  <2>1. CASE Pass \/ \E S : Sweep(S) \/ Prune(S) \/ Restart(S)
    BY <1>1, <2>1 DEF Pass, Sweep, Prune, Restart
  <2> QED BY <1>4, <2>1, HandlersRemember, CheckRemembers, SnapshotRemembers DEF Unattended
<1>5. CASE \E k \in Key : Finish(k, "cancelled")
  BY <1>5, HandlersRemember
<1> QED BY <1>2, <1>3, <1>4, <1>5 DEF Next

\* What revertCancelledChapter() goes back to is the status the chapter had
\* before the step that queued it, for any series, listings and disruptions: no
\* later request, check, rename, report or crash replaces it while it is queued.
THEOREM OriginsAreRemembered == Spec => OriginRemembered
<1>1. Inv /\ [Next]_vars => [RemembersOrigin]_vars
  BY NextRemembers
<1> QED BY <1>1, ChaptersInvariant, PTL DEF Spec, OriginRemembered

-----------------------------------------------------------------------------
(* The jobs move as the queue promises                                      *)

\* A handler either moves the jobs by one step of the queue or leaves them.
LEMMA NextMovesJobs == Inv /\ [Next]_vars => [Queue!Next]_job
<1> SUFFICES ASSUME Inv, Next PROVE Queue!Next \/ UNCHANGED job
  BY DEF vars, tables
<1>1. ASSUME NEW S, Queue!Request(S) PROVE Queue!Next
  <2>1. S \in SUBSET Key
    BY <1>1 DEF Queue!Request, Queue!With
  <2> QED BY <1>1, <2>1 DEF Queue!Next
<1>2. ASSUME NEW S, NEW v, Queue!Withdraw(S, v) PROVE Queue!Next
  <2>1. S \in SUBSET Key /\ v \in {"cancelled", "absent"}
    BY <1>2 DEF Queue!Withdraw, Queue!With
  <2> QED BY <1>2, <2>1 DEF Queue!Next
<1>3. ASSUME NEW S, Queue!Forget(S) PROVE Queue!Next
  <2>1. S \in SUBSET Key
    BY <1>3 DEF Queue!Forget, Queue!With
  <2> QED BY <1>3, <2>1 DEF Queue!Next
<1>4. ASSUME NEW S, Queue!Restart(S) PROVE Queue!Next
  <2>1. S \in SUBSET Key
    BY <1>4 DEF Queue!Restart, Queue!With
  <2> QED BY <1>4, <2>1 DEF Queue!Next
<1>5. ASSUME NEW k \in Key, NEW outcome, Queue!Finish(k, outcome) PROVE Queue!Next
  <2>1. outcome \in Queue!Finished
    BY <1>5 DEF Queue!Finish
  <2> QED BY <1>5, <2>1 DEF Queue!Next
<1>6. CASE JobRequest
  <2>1. CASE \E S : Post(S)
    BY <1>1, <2>1 DEF Post, Ask
  <2>2. CASE \E from : DownloadNew(from)
    BY <1>1, <2>2 DEF DownloadNew, Ask
  <2>3. CASE \E S : Retry(S)
    BY <1>1, <2>3 DEF Retry
  <2>4. CASE ClearQueue \/ \E k \in Key : Cancel(k)
    BY <1>2, <2>4 DEF ClearQueue, Cancel
  <2>5. CASE \E S : Dismiss(S)
    BY <1>3, <2>5 DEF Dismiss
  <2> QED BY <1>6, <2>1, <2>2, <2>3, <2>4, <2>5 DEF JobRequest, RetryFailed, RetryJob
<1>7. CASE LibraryRequest
  BY <1>7 DEF LibraryRequest, Follow, Remove, Attach, Rollback, tables
<1>8. CASE Unattended
  <2>1. CASE \/ Pass \/ \E S : Sweep(S)
    BY <1>1, <2>1 DEF Pass, Sweep
  <2>2. CASE \E k \in Key : \E outcome : Finish(k, outcome)
    BY <1>5, <2>2 DEF Finish
  <2>3. CASE \E S : Prune(S) \/ Restart(S)
    BY <1>3, <1>4, <2>3 DEF Prune, Restart
  <2>4. ASSUME NEW raw, NEW usable, NEW auto, Check(raw, usable, auto)
        PROVE  Queue!Next \/ UNCHANGED job
    <3>1. (\E T : Ask(T, TRUE)) \/ UNCHANGED job
      BY <2>4 DEF Check
    <3> QED BY <1>1, <3>1 DEF Ask
  <2>5. CASE \E listed, found, backlog, grab : Snapshot(listed, found, backlog, grab)
    BY <1>1, <2>5, Zenon DEF Snapshot, Ask
  <2> QED BY <1>8, <2>1, <2>2, <2>3, <2>4, <2>5 DEF Unattended
<1>9. CASE \E k \in Key : Finish(k, "cancelled")
  BY <1>5, <1>9 DEF Finish
<1> QED BY <1>6, <1>7, <1>8, <1>9 DEF Next

\* The chapters ask of the queue only what JobLifecycle offers and see only what
\* it allows, with crashes, removals and renamed chapters: the specification
\* that DownloadQueueProofs shows the detailed queue to implement is the whole
\* interface between the two.
THEOREM ChaptersUseTheQueue == Spec => Queue!Spec
<1>1. Init => Queue!Init
  BY DEF Init
<1> QED BY <1>1, NextMovesJobs, ChaptersInvariant, PTL DEF Spec, Queue!Spec
=============================================================================
