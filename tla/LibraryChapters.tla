--------------------------- MODULE LibraryChapters ---------------------------
(***************************************************************************)
(* The chapters of one followed series and the download jobs behind them   *)
(* (packages/server/src/library/chapters.ts, store.ts, index.ts and the    *)
(* routes that call them).                                                 *)
(*                                                                         *)
(* Two tables say what happens to a chapter: `library_chapters.status`     *)
(* and `download_jobs.status`.  No transaction and no foreign key ties     *)
(* them: handlers write one, then the other, and a job only reports to the *)
(* chapter that still has its entry id and its chapter id.  This module is *)
(* about what keeps them in step.                                          *)
(*                                                                         *)
(* The queue is taken at its promise: every step moves the jobs as         *)
(* JobLifecycle allows, which DownloadQueueProofs proves of the detailed   *)
(* queue.  Abstracted: titles (only the chapter number they parse to),     *)
(* files (only whether a status names one), dates, languages (a listing    *)
(* has a usable part), the other series.  The source never changes here.   *)
(***************************************************************************)
EXTENDS FiniteSets, Integers

CONSTANTS
  Id,             \* chapter ids the source may list
  LocalId,        \* ids 'local:<n>' of files that the source never listed
  NumberOf,       \* the number that the title of a chapter parses to
  NoNumber,       \* parseChapterNumber() found none
  ReidMin,        \* unknown chapters that make a rotation of ids plausible: 6
  Disruptions     \* what the instance lets happen, see below

\* "adhoc": downloads of chapters that have no library row yet; "remove": the
\* entry is removed; "rotate": the source renames its whole catalogue;
\* "restart": the server restarts; "crash": it dies between two writes.
ASSUME ChaptersAssumption ==
  /\ IsFiniteSet(Id)
  /\ Id \cap LocalId = {}
  /\ ReidMin \in Nat \ {0}
  /\ \A k \in LocalId : NumberOf[k] # NoNumber
  /\ Disruptions \subseteq {"adhoc", "remove", "rotate", "restart", "crash"}

Key == Id \cup LocalId

VARIABLES
  entry,     \* the library row: "none", "snapshotting" while addEntry() waits
             \* for the source, "tracked"
  row,       \* library_chapters: status and, while it is "queued", prev_status;
             \* NoRow when there is none
  job,       \* download_jobs.status
  link,      \* its entry_id: "none" for NULL, "current" for the entry of the
             \* series, "stale" for an entry since removed
  backup,    \* chapters whose history names an earlier file
  up         \* FALSE: the process died and has not restarted

tables == <<row, job, link>>
vars == <<entry, tables, backup, up>>

Queue == INSTANCE JobLifecycle WITH Job <- Key, status <- job

ChapterStatus == {"new", "missing", "queued", "downloaded", "failed", "lost"}
Row == [status : {"absent"} \cup ChapterStatus, prev : {"none"} \cup ChapterStatus]
NoRow == [status |-> "absent", prev |-> "none"]
Fresh(v) == [status |-> v, prev |-> "none"]

Rows == {k \in Key : row[k].status # "absent"}
In(rows, S) == {k \in Key : rows[k].status \in S}

-----------------------------------------------------------------------------
(* Status updates of library_chapters                                       *)

\* UPDATE ... SET status = 'queued', prev_status = status WHERE status IN (from)
\* on the chapters S of the table `rows`; a mutant stores 'new' whatever the
\* status was.
MarkedAsNew(rows, S, from) ==
  [k \in Key |-> IF k \in S /\ rows[k].status \in from
                 THEN [status |-> "queued", prev |-> "new"] ELSE rows[k]]
Marked(rows, S, from) ==
  [k \in Key |-> IF k \in S /\ rows[k].status \in from
                 THEN [status |-> "queued", prev |-> rows[k].status] ELSE rows[k]]

\* revertCancelledChapter, revertClearedChapters: COALESCE(prev_status, 'new');
\* a mutant always goes back to 'new'.
RevertedToNew(S) ==
  [k \in Key |-> IF k \in S /\ row[k].status = "queued" THEN Fresh("new") ELSE row[k]]
Reverted(S) ==
  [k \in Key |-> IF k \in S /\ row[k].status = "queued"
                 THEN Fresh(IF row[k].prev = "none" THEN "new" ELSE row[k].prev)
                 ELSE row[k]]

\* markChapter(): a failure report leaves a lost chapter alone.
Reported(k, v) ==
  IF k \in Rows /\ ~(row[k].status = "lost" /\ v = "failed")
  THEN [row EXCEPT ![k] = Fresh(v)] ELSE row

\* A handler that wrote the jobs now writes the chapters `after`, or the
\* process dies before and leaves them at `before`.
Persist(before, after) ==
  \/ row' = after /\ up' = TRUE
  \/ "crash" \in Disruptions /\ row' = before /\ up' = FALSE

Grabbed == {"new", "failed"}                          \* "download new"
WithBacklog == Grabbed \cup {"missing"}               \* "download missing"
Manual == WithBacklog \cup {"lost"}                   \* explicit requests

-----------------------------------------------------------------------------
(* The jobs a handler asks for                                              *)

Active == {"queued", "downloading", "completed"}      \* ACTIVE_STATUSES

\* enqueue(): active rows are skipped, but for a missing link to the entry.
Ask(S, forEntry) ==
  /\ Queue!Request({k \in S : job[k] \notin Active})
  /\ link' = [k \in Key |-> IF k \in S /\ forEntry /\ (job[k] \notin Active \/ link[k] = "none")
                            THEN "current" ELSE link[k]]

Unlinked(S) == [k \in Key |-> IF k \in S THEN "none" ELSE link[k]]
Linked(S) == {k \in S : link[k] = "current"}

\* POST /api/downloads
Post(S) ==
  /\ up
  /\ S # {}
  /\ "adhoc" \in Disruptions \/ S \subseteq Rows
  /\ Ask(S, entry # "none")
  /\ Persist(row, IF entry # "none" THEN Marked(row, S, Manual) ELSE row)
  /\ UNCHANGED <<entry, backup>>

\* POST /api/library/.../download-new and download-missing
DownloadNew(from) ==
  /\ up
  /\ In(row, from) # {}
  /\ Ask(In(row, from), TRUE)
  /\ Persist(row, Marked(row, Key, from))
  /\ UNCHANGED <<entry, backup>>

\* POST /api/downloads/retry (all failed jobs) and /:jobId/retry (one): jobs
\* of a removed entry are refused.
Retry(S) ==
  /\ up
  /\ S # {}
  /\ S \subseteq {k \in Key : link[k] # "stale"}
  /\ Queue!Request(S)
  /\ Persist(row, Marked(row, Linked(S), Manual))
  /\ UNCHANGED <<entry, link, backup>>

RetryFailed == Retry({k \in Queue!With({"failed"}) : link[k] # "stale"})
RetryJob == \E k \in Queue!With({"failed", "cancelled"}) : Retry({k})

\* sweepFailedJobs(): whichever failed jobs are due, but not the jobs of a
\* removed entry nor of a lost chapter; a mutant forgets the latter.
DueEvenLost == {k \in Queue!With({"failed"}) : link[k] # "stale"}
Due == {k \in Queue!With({"failed"}) :
          link[k] # "stale" /\ ~(link[k] = "current" /\ row[k].status = "lost")}

Sweep(S) ==
  /\ up
  /\ S # {} /\ S \subseteq Due
  /\ Queue!Request(S)
  /\ UNCHANGED <<entry, row, link, backup, up>>

\* The periodic scheduling pass.
Pass ==
  /\ up
  /\ Queue!Request({})
  /\ UNCHANGED <<entry, row, link, backup, up>>

-----------------------------------------------------------------------------
(* Jobs that end, and their callbacks                                       *)

\* onJobFinished(); a mutant does not listen to cancellations.
HeardDeaf(k, outcome) ==
  CASE link[k] # "current" \/ outcome = "cancelled" -> row
    [] OTHER -> Reported(k, IF outcome = "completed" THEN "downloaded" ELSE "failed")
Heard(k, outcome) ==
  CASE link[k] # "current" -> row
    [] link[k] = "current" /\ outcome = "cancelled" -> Reverted({k})
    [] OTHER -> Reported(k, IF outcome = "completed" THEN "downloaded" ELSE "failed")

\* A run ends.  Replacing a downloaded chapter leaves its file in the history,
\* unless none was on record.
Finish(k, outcome) ==
  /\ up
  /\ Queue!Finish(k, outcome)
  /\ Persist(row, Heard(k, outcome))
  /\ \/ backup' = backup
     \/ /\ row[k].status = "downloaded" /\ row'[k].status # "downloaded"
        /\ backup' = backup \cup {k}
  /\ UNCHANGED <<entry, link>>

\* DELETE /api/downloads/:jobId on a queued job; a mutant tells nobody.
CancelSilently(k) ==
  /\ up
  /\ Queue!Withdraw({k}, "cancelled")
  /\ UNCHANGED <<entry, row, link, backup, up>>
Cancel(k) ==
  /\ up
  /\ Queue!Withdraw({k}, "cancelled")
  /\ Persist(row, Reverted(Linked({k})))
  /\ UNCHANGED <<entry, link, backup>>

\* POST /api/downloads/clear
ClearQueue ==
  LET S == Queue!With({"queued"})
  IN /\ up
     /\ S # {}
     /\ Queue!Withdraw(S, "absent")
     /\ link' = Unlinked(S)
     /\ Persist(row, Reverted(Linked(S)))
     /\ UNCHANGED <<entry, backup>>

\* DELETE /api/downloads/history, or one finished job of it.
Dismiss(S) ==
  /\ up
  /\ S # {}
  /\ Queue!Forget(S)
  /\ link' = Unlinked(S)
  /\ UNCHANGED <<entry, row, backup, up>>

\* History that retention may drop; a mutant drops failed jobs as well.
ExpirableAll == Queue!With(Queue!Finished)
Expirable == {k \in Queue!With(Queue!Finished) : ~(job[k] = "failed" /\ link[k] # "none")}

Prune(S) ==
  /\ up
  /\ S # {} /\ S \subseteq Expirable
  /\ Queue!Forget(S)
  /\ link' = Unlinked(S)
  /\ UNCHANGED <<entry, row, backup, up>>

\* The server starts again: _recover() and a first prune.  A snapshot that was
\* being fetched is lost, its entry stays.
Restart(S) ==
  /\ ~up \/ "restart" \in Disruptions
  /\ S \subseteq Expirable
  /\ Queue!Restart(S)
  /\ link' = Unlinked(S)
  /\ entry' = IF entry = "snapshotting" THEN "tracked" ELSE entry
  /\ up' = TRUE
  /\ UNCHANGED <<row, backup>>

-----------------------------------------------------------------------------
(* The entry                                                                *)

\* POST /api/library: addEntry() inserts the entry, then waits for the source.
Follow ==
  /\ up
  /\ entry = "none"
  /\ entry' = "snapshotting"
  /\ UNCHANGED <<tables, backup, up>>

\* The answer: unknown chapters get a row, 'downloaded' when their file is
\* found; a grab then enqueues what is new.  A failed fetch lists nothing.
Snapshot(listed, found, backlog, grab) ==
  LET rows == [k \in Key |->
        IF k \in Rows \/ k \notin listed THEN row[k]
        ELSE IF k \in found THEN Fresh("downloaded") ELSE Fresh(backlog)]
  IN /\ up
     /\ entry = "snapshotting"
     /\ entry' = "tracked"
     /\ found \subseteq listed
     /\ grab => backlog = "new"
     /\ IF grab /\ In(rows, Grabbed) # {}
        THEN /\ Ask(In(rows, Grabbed), TRUE)
             /\ Persist(rows, Marked(rows, Key, Grabbed))
        ELSE row' = rows /\ UNCHANGED <<job, link, up>>
     /\ UNCHANGED backup

\* DELETE /api/library/:entryId, or the prune of an entry whose files are gone:
\* chapters and history go with the entry, jobs keep its id.
Remove ==
  /\ "remove" \in Disruptions
  /\ up
  /\ entry # "none"
  /\ entry' = "none"
  /\ row' = [k \in Key |-> NoRow]
  /\ link' = [k \in Key |-> IF link[k] = "current" THEN "stale" ELSE link[k]]
  /\ backup' = {}
  /\ UNCHANGED <<job, up>>

-----------------------------------------------------------------------------
(* checkForNewChapters()                                                    *)

Numbered(k) == NumberOf[k] # NoNumber
SameNumber(k, l) == Numbered(k) /\ NumberOf[k] = NumberOf[l]
Unknown(usable) == usable \ Rows

\* At least 90 % of enough unknown chapters have the number of a known row.
Reidentified(usable) ==
  LET matched == {c \in Unknown(usable) : \E k \in Rows : SameNumber(c, k)}
  IN /\ Cardinality(Unknown(usable)) >= ReidMin
     /\ 10 * Cardinality(matched) >= 9 * Cardinality(Unknown(usable))

\* Chapter c may take over row k: a local one, or any if ids were rotated.
MayTake(c, k, usable) ==
  /\ SameNumber(c, k)
  /\ \/ k \in LocalId
     \/ Reidentified(usable) /\ ~\E l \in LocalId \cap Rows : SameNumber(c, l)

\* Each row by number goes to the first unknown chapter of that number.
Takeovers(usable) ==
  {taken \in UNION {[T -> Rows] : T \in SUBSET Unknown(usable)} :
    /\ \A c \in DOMAIN taken : MayTake(c, taken[c], usable)
    /\ \A c, d \in DOMAIN taken : SameNumber(c, d) => c = d
    /\ \A c \in Unknown(usable) :
         (\E k \in Rows : MayTake(c, k, usable)) => \E d \in DOMAIN taken : SameNumber(c, d)}

\* The rows once the listing is stored: `again` are chapters the listing named
\* after another one took their row over.
Stored(usable, taken, again) ==
  LET moved == {taken[c] : c \in DOMAIN taken}
  IN [k \in Key |->
       IF k \in DOMAIN taken THEN row[taken[k]]
       ELSE IF k \in Unknown(usable) \cup again THEN Fresh("new")
       ELSE IF k \in moved THEN NoRow
       ELSE row[k]]

\* Failed chapters that are no longer listed are lost, lost ones that are
\* listed again are failed; an empty listing says nothing.
Reconciled(rows, raw, usable) ==
  [k \in Key |->
    CASE usable # {} /\ k \in Id \ raw /\ rows[k].status = "failed" -> Fresh("lost")
      [] usable # {} /\ k \in raw /\ rows[k].status = "lost" -> Fresh("failed")
      [] OTHER -> rows[k]]

\* A check stores the listing `raw`, of which `usable` is in the wanted
\* languages; with auto-download the new chapters are queued.
Check(raw, usable, auto) ==
  /\ up
  /\ entry # "none"
  /\ usable \subseteq raw
  /\ Reidentified(usable) => "rotate" \in Disruptions
  /\ \E taken \in Takeovers(usable) :
     \E again \in SUBSET (usable \cap {taken[c] : c \in DOMAIN taken}) :
       LET rows == Reconciled(Stored(usable, taken, again), raw, usable)
           fresh == (Unknown(usable) \ DOMAIN taken) \cup again
       IN IF auto /\ fresh # {}
          THEN /\ Ask(fresh, TRUE)
               /\ Persist(rows, Marked(rows, fresh, {"new"}))
          ELSE row' = rows /\ UNCHANGED <<job, link, up>>
  /\ UNCHANGED <<entry, backup>>

-----------------------------------------------------------------------------
(* Files                                                                    *)

\* registerLocalChapters(), for an import or a disk resync: files found by
\* number are attached to a row each, or to a local-only row.
Attach(S, locals) ==
  /\ up
  /\ entry # "none"
  /\ S \subseteq {k \in Rows : Numbered(k)}
  /\ \A k, l \in S : SameNumber(k, l) => k = l
  /\ locals \subseteq {l \in LocalId : ~\E k \in Rows : SameNumber(l, k)}
  /\ row' = [k \in Key |-> CASE k \in S \cup locals -> Fresh("downloaded")
                             [] OTHER -> row[k]]
  /\ UNCHANGED <<entry, job, link, backup, up>>

\* rollbackChapter(): the earlier file is still there.
Rollback(k) ==
  /\ up
  /\ k \in backup
  /\ row' = Reported(k, "downloaded")
  /\ UNCHANGED <<entry, job, link, backup, up>>

-----------------------------------------------------------------------------
Init ==
  /\ entry = "none"
  /\ row = [k \in Key |-> NoRow]
  /\ Queue!Init
  /\ link = [k \in Key |-> "none"]
  /\ backup = {}
  /\ up = TRUE

\* Requests of the dashboard about jobs.
JobRequest ==
  \/ \E S \in SUBSET Id : Post(S)
  \/ DownloadNew(Grabbed)
  \/ DownloadNew(WithBacklog)
  \/ RetryFailed
  \/ RetryJob
  \/ \E k \in Key : Cancel(k)
  \/ ClearQueue
  \/ \E k \in Key : Dismiss({k})
  \/ \E v \in Queue!Finished : Dismiss(Queue!With({v}))
  \/ Dismiss(Queue!With(Queue!Finished))

\* Requests of the dashboard about the library.
LibraryRequest ==
  \/ Follow
  \/ Remove
  \/ \E S \in SUBSET Key, locals \in SUBSET LocalId : Attach(S, locals)
  \/ \E k \in Key : Rollback(k)

\* What the server does without a request, or to end an earlier one; a run only
\* ends as cancelled on request.
Unattended ==
  \/ Pass
  \/ \E k \in Key, outcome \in {"completed", "failed"} : Finish(k, outcome)
  \/ \E S \in SUBSET Key : Sweep(S) \/ Prune(S) \/ Restart(S)
  \/ \E raw, usable \in SUBSET Id, auto \in BOOLEAN : Check(raw, usable, auto)
  \/ \E listed, found \in SUBSET Id, backlog \in {"new", "missing"}, grab \in BOOLEAN :
       Snapshot(listed, found, backlog, grab)

Next ==
  \/ JobRequest
  \/ LibraryRequest
  \/ Unattended
  \/ \E k \in Key : Finish(k, "cancelled")

Spec == Init /\ [][Next]_vars

\* The queue starts every row in turn and every run ends (BacklogDrains and
\* the timeouts of the detailed queue).
FairSpec ==
  /\ Spec
  /\ \A k \in Key : WF_vars(Pass /\ job[k] = "queued" /\ job'[k] = "downloading")
  /\ \A k \in Key : WF_vars(\E outcome \in Queue!Finished : Finish(k, outcome))

-----------------------------------------------------------------------------
(* Properties                                                               *)

\* The tables are well formed: chapters go with their entry (ON DELETE
\* CASCADE) and only a job has an entry id.
TypeOK ==
  /\ entry \in {"none", "snapshotting", "tracked"}
  /\ row \in [Key -> Row]
  /\ Queue!TypeOK
  /\ link \in [Key -> {"none", "current", "stale"}]
  /\ backup \subseteq Key
  /\ up \in BOOLEAN
  /\ entry = "none" => \A k \in Key : row[k] = NoRow /\ link[k] # "current"
  /\ \A k \in Key : job[k] = "absent" => link[k] = "none"

\* A chapter shown as queued is being downloaded or waits for it: a job that
\* reports to the chapter is active (queue.ts:225-226, 411-412).
QueuedHasJob ==
  \A k \in Key : row[k].status = "queued" =>
    job[k] \in {"queued", "downloading"} /\ link[k] = "current"

\* What chapter k was when it was queued, or is now that a step may queue it.
Origin(k) == IF row[k].status = "queued" THEN row[k].prev ELSE row[k].status

\* Chapter k's row went to a chapter of its number, unchanged if it was queued.
Renamed(k) ==
  \E c \in Key \ Rows : /\ SameNumber(c, k)
                        /\ row'[c].status # "absent"
                        /\ row[k].status = "queued" => row'[c] = row[k]

\* prev_status of a queued chapter is the status it had before the step that
\* queued it, and stays that however often the chapter is asked for, checked or
\* renamed (chapters.ts:170, 190, 258-262; revertCancelledChapter relies on it).
\* Only a chapter listed for the first time, or listed again under an id whose
\* row was renamed, is queued as 'new' in the step that creates its row.
RemembersOrigin ==
  \A k \in Key :
    /\ row'[k].status = "queued" =>
         \/ k \in Rows /\ row'[k].prev = Origin(k)
         \/ row'[k].prev = "new" /\ (k \notin Rows \/ Renamed(k))
         \/ k \notin Rows /\ \E l \in Rows : SameNumber(k, l) /\ row'[k] = row[l]
    /\ row[k].status = "queued" /\ row'[k].status = "absent" => entry' = "none" \/ Renamed(k)
OriginRemembered == [][RemembersOrigin]_vars

\* A job that is cancelled or cleared puts its queued chapter back to what it
\* was (queue.ts:410-412, index.ts:192-194).
RestoresCancelled ==
  up' => \A k \in Key :
    /\ row[k].status = "queued" /\ link[k] = "current"
    /\ job[k] \in {"queued", "downloading"} /\ job'[k] \in {"cancelled", "absent"}
    => row'[k].status = row[k].prev
CancelRestores == [][RestoresCancelled]_vars

\* Only a request for it tries a delisted chapter again (queue.ts:280-285): its
\* failed job never returns to the queue while the chapter stays lost.
LeavesLostAlone ==
  up' => \A k \in Key :
    /\ row[k].status = "lost" /\ link[k] = "current"
    /\ job[k] = "failed" /\ job'[k] \in {"queued", "downloading"}
    => row'[k].status = "queued"
SweepSkipsLost == [][LeavesLostAlone]_vars

\* A failed or lost chapter keeps the job that will try it again.
Abandoned(k) ==
  /\ row[k].status \in {"failed", "lost"}
  /\ link[k] # "current" \/ job[k] \notin {"queued", "downloading", "failed"}

\* No step the server takes by itself abandons a chapter it knows by that id
\* (queue.ts:553-557), short of dying between two writes.  A chapter that takes
\* over another row under a new id leaves its job behind, and is not covered.
AbandonsNone ==
  up' => \A k \in Rows : Abandoned(k)' /\ ~Abandoned(k) => ~Unattended
NoneAbandoned == [][AbandonsNone]_vars

\* Every queued chapter is eventually settled.
QueuedSettles ==
  \A k \in Key : (row[k].status = "queued") ~> (row[k].status # "queued")
=============================================================================
