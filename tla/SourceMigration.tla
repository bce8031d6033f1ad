--------------------------- MODULE SourceMigration ---------------------------
(***************************************************************************)
(* One library entry that moves between sources.  Failed downloads, failed *)
(* checks, the background detection and the user all start flights: a long *)
(* crawl of the other sources, a decision, then the fetch of the new       *)
(* listing and the rebuild of the chapter rows from it.  A flight awaits   *)
(* the network twice, and everything else may happen meanwhile.            *)
(*                                                                         *)
(* A chapter is the same chapter on every source; its id is not, so a job  *)
(* reports to a row only while the entry tracks the source of the job.     *)
(***************************************************************************)
EXTENDS Naturals, Sequences, FiniteSets

CONSTANTS
  Source, None,  \* connectors, and the absence of one
  Home,          \* the source the series was followed on
  Chapter,       \* chapters of the series
  Numbered,      \* those whose title holds a number
  Actor,         \* who may start a flight
  EagerUndo,     \* whether the user may roll back while a rebuild is awaited
  MaxFlights,    \* bound: flights at a time
  MaxSnaps,      \* bound: snapshots kept
  Budget         \* bound: requests, retries and deaths

ASSUME MigrationAssumption ==
  /\ Home \in Source /\ None \notin Source
  /\ Numbered \subseteq Chapter
  /\ Actor \subseteq {"immediate", "backstop", "check", "bulk", "rematch", "detect", "request"}
  /\ EagerUndo \in BOOLEAN
  /\ {MaxFlights, MaxSnaps, Budget} \subseteq Nat

VARIABLES
  alive,      \* the row of `library` exists
  src,        \* its source_id
  row,        \* of each chapter: no row, "idle" (new, missing, failed or lost),
              \* "queued", "downloaded", or "local" (a file no listing offers)
  torn,       \* the rows may be fewer than a listing or a snapshot held
  sugg,       \* source of migration_suggestion
  dismissed,  \* source of migration_dismissed
  snaps,      \* entry_snapshots, oldest first
  job,        \* of each source and chapter: status, "none" when it can be asked for
  disk,       \* chapters with a file in the folder of the series
  failing,    \* download_failures > 0
  probing,    \* the entry is in FailoverService.probing
  cool,       \* its last probe is more recent than PROBE_COOLDOWN_MS
  flight,     \* of each actor
  left        \* requests, retries and deaths still to come

entry == <<alive, src, row, torn, sugg, dismissed, snaps>>
downloads == <<job, disk, failing>>
lock == <<probing, cool>>
vars == <<entry, downloads, lock, flight, left>>

Lockers == {"immediate", "backstop", "check"}
Resetters == {"immediate", "backstop"}
Requeuers == {"immediate", "backstop", "check", "bulk", "request"}

Idle == [at |-> "idle", from |-> None, to |-> None, kept |-> {}, files |-> {}]
Crawling == [at |-> "crawl", from |-> src, to |-> None, kept |-> {}, files |-> {}]
NoRows == [c \in Chapter |-> "absent"]
Shown == {"downloaded", "local"}

InFlight == {a \in Actor : flight[a].at # "idle"}
Fetching == {a \in Actor : flight[a].at = "fetch"}

\* hasPendingJobs(), whatever the source; a mutant counts the failed ones too.
PendingOrFailed(j) == \E s \in Source, c \in Chapter : j[<<s, c>>] \in {"queued", "running", "failed"}
Pending(j) == \E s \in Source, c \in Chapter : j[<<s, c>>] \in {"queued", "running"}

Spend == left > 0 /\ left' = left - 1

-----------------------------------------------------------------------------
(* Flights                                                                  *)

\* tryBeginProbe() and the crawl; a mutant only looks at the cooldown.
ProbeByClock(a) ==
  /\ ~cool
  /\ probing' = TRUE
  /\ cool' = TRUE
  /\ flight' = [flight EXCEPT ![a] = Crawling]
TryBeginProbe(a) ==
  /\ ~probing /\ ~cool
  /\ probing' = TRUE
  /\ cool' = TRUE
  /\ flight' = [flight EXCEPT ![a] = Crawling]

Crawl(a) ==
  /\ flight' = [flight EXCEPT ![a] = Crawling]
  /\ UNCHANGED lock

\* The scheduler waits for one probe before the next: check failures, then
\* the backstop of the failed downloads.
MayLeave(a) ==
  /\ a \in Actor /\ alive
  /\ flight[a].at = "idle"
  /\ Cardinality(InFlight) < MaxFlights
  /\ a \in {"check", "backstop"} => InFlight \cap {"check", "backstop"} = {}

StartCheck ==
  /\ MayLeave("check")
  /\ TryBeginProbe("check")
  /\ UNCHANGED <<entry, downloads, left>>

StartBackstop ==
  /\ MayLeave("backstop")
  /\ failing /\ ~Pending(job)
  /\ TryBeginProbe("backstop")
  /\ UNCHANGED <<entry, downloads, left>>

\* The bulk re-matches wait for the downloads, the re-match of one series does
\* not; neither takes the lock.
StartRematch(a) ==
  /\ a \in {"bulk", "rematch"} /\ MayLeave(a)
  /\ a = "bulk" => ~Pending(job)
  /\ Crawl(a)
  /\ Spend
  /\ UNCHANGED <<entry, downloads>>

\* suggestIfIncomplete(), suggestIfStalled()
StartDetect ==
  /\ MayLeave("detect")
  /\ sugg = None
  /\ Crawl("detect")
  /\ UNCHANGED <<entry, downloads, left>>

\* The way out of every flight, whatever its outcome.
End(a) ==
  /\ flight' = [flight EXCEPT ![a] = Idle]
  /\ probing' = (probing /\ a \notin Lockers)
  /\ failing' = (failing /\ a \notin Resetters)
  /\ UNCHANGED cool

FindsNone(a) ==
  /\ flight[a].at = "crawl"
  /\ End(a)
  /\ UNCHANGED <<entry, job, disk, left>>

\* _probeAndSuggest() reads the entry again after the crawl; a mutant relies on
\* what it read before.
StillMeant(a, t) == alive /\ (a = "detect" => t # flight[a].from)
Meant(a, t) ==
  a = "detect" => alive /\ sugg = None /\ src = flight[a].from /\ t # dismissed

Suggests(a, t) ==
  /\ flight[a].at = "crawl" /\ t # flight[a].from
  /\ Meant(a, t)
  /\ sugg' = IF alive THEN t ELSE None
  /\ End(a)
  /\ UNCHANGED <<alive, src, row, torn, dismissed, snaps, job, disk, left>>

\* The chapters whose file a rebuild carries over: numbered, and recorded or
\* found in the folder.  A mutant trusts the rows alone.
Recorded == {c \in Numbered : row[c] \in Shown}
Carried == {c \in Numbered : row[c] \in Shown \/ c \in disk}

\* migrateEntry() up to the request for the chapters of `t`.
BeginFetch(a, t) ==
  /\ Len(snaps) < MaxSnaps
  /\ snaps' = Append(snaps, [src |-> src, row |-> row, torn |-> torn])
  /\ flight' = [flight EXCEPT ![a] = [at |-> "fetch", from |-> src, to |-> t, kept |-> Carried, files |-> disk]]
  /\ UNCHANGED <<alive, src, row, torn, sugg, dismissed, downloads, lock>>

Migrates(a, t) ==
  /\ flight[a].at = "crawl" /\ t # flight[a].from
  /\ alive /\ Meant(a, t)
  /\ BeginFetch(a, t)
  /\ UNCHANGED left

\* The routes that confirm a suggestion or migrate to a chosen source.
Request(t) ==
  /\ MayLeave("request")
  /\ t = sugg \/ t # src
  /\ ~Pending(job)
  /\ BeginFetch("request", t)
  /\ Spend

\* getChapters() fails or times out.
FetchFails(a) ==
  /\ flight[a].at = "fetch"
  /\ End(a)
  /\ UNCHANGED <<entry, job, disk, left>>

-----------------------------------------------------------------------------
(* The rebuild                                                              *)

\* The rows of a listing, and those of the files it leaves out; `found` are the
\* chapters whose file is recognised by its name.
Rebuilt(kept, listed, found) ==
  [c \in Chapter |->
    IF c \in listed THEN IF c \in kept \cup found THEN "downloaded" ELSE "idle"
                    ELSE IF c \in kept THEN "local" ELSE "absent"]

\* requeueFailedAfterMigration(): failures are matched by number and the jobs
\* of the old source dropped.  A mutant drops them last.
Failures == {c \in Numbered : \E s \in Source : job[<<s, c>>] = "failed"}
Stale == {"failed", "queued"}
Purged(j) == [sc \in Source \X Chapter |-> IF j[sc] \in Stale THEN "none" ELSE j[sc]]
Enqueued(j, t, S) == [sc \in Source \X Chapter |->
                        IF sc[1] = t /\ sc[2] \in S /\ j[sc] \in {"none", "failed"} THEN "queued" ELSE j[sc]]
Resumable(rows) == {c \in Failures : rows[c] \notin Shown \cup {"absent"}}
ResumedThenPurged(t, rows) ==
  IF Failures = {} THEN job' = job /\ row' = rows
  ELSE /\ job' = Purged(Enqueued(job, t, Resumable(rows)))
       /\ row' = [c \in Chapter |-> IF c \in Resumable(rows) THEN "queued" ELSE rows[c]]
Resumed(t, rows) ==
  IF Failures = {} THEN job' = job /\ row' = rows
  ELSE /\ job' = Enqueued(Purged(job), t, Resumable(rows))
       /\ row' = [c \in Chapter |-> IF c \in Resumable(rows) THEN "queued" ELSE rows[c]]

Moved(t) ==
  /\ src' = t
  /\ sugg' = None
  /\ dismissed' = None

\* The listing came: the rest runs without a pause.
Commit(a, listed, found) ==
  /\ flight[a].at = "fetch" /\ alive
  /\ found \subseteq disk \ flight[a].kept
  /\ Moved(flight[a].to)
  /\ LET rows == Rebuilt(flight[a].kept, listed, found)
     IN IF a \in Requeuers THEN Resumed(flight[a].to, rows) ELSE row' = rows /\ UNCHANGED job
  /\ torn' = FALSE
  /\ End(a)
  /\ UNCHANGED <<alive, snaps, disk, left>>

\* Another entry already tracks the target: the update is refused, after the
\* rows were deleted.
Conflict(a) ==
  /\ flight[a].at = "fetch" /\ alive
  /\ row' = NoRows
  /\ torn' = TRUE
  /\ End(a)
  /\ UNCHANGED <<alive, src, sugg, dismissed, snaps, job, disk, left>>

\* The entry was removed meanwhile: no row can be inserted.
Void(a) ==
  /\ flight[a].at = "fetch" /\ ~alive
  /\ End(a)
  /\ UNCHANGED <<entry, job, disk, left>>

-----------------------------------------------------------------------------
(* Deaths                                                                   *)

\* The process starts again; what it held in memory is gone.
Restarted ==
  /\ flight' = [a \in Actor |-> Idle]
  /\ probing' = FALSE
  /\ cool' = FALSE
  /\ job' = [sc \in Source \X Chapter |-> IF job[sc] = "running" THEN "queued" ELSE job[sc]]
  /\ UNCHANGED <<disk, failing>>

Restart ==
  /\ Restarted
  /\ Spend
  /\ UNCHANGED entry

\* No transaction: a death leaves some of the rows a write would have left.
Part(rows) == {[c \in Chapter |-> IF c \in S THEN rows[c] ELSE "absent"] : S \in SUBSET Chapter}

DiesCommitting(a, listed) ==
  /\ flight[a].at = "fetch" /\ alive
  /\ \/ /\ row' = NoRows
        /\ UNCHANGED <<src, sugg, dismissed>>
     \/ /\ Moved(flight[a].to)
        /\ row' \in Part(Rebuilt(flight[a].kept, listed, {}))
  /\ torn' = TRUE
  /\ Restarted
  /\ Spend
  /\ UNCHANGED <<alive, snaps>>

-----------------------------------------------------------------------------
(* Undo, refusal, removal                                                   *)

Top == snaps[Len(snaps)]
Below == SubSeq(snaps, 1, Len(snaps) - 1)
MayRollback ==
  /\ alive /\ snaps # <<>>
  /\ EagerUndo \/ Fetching = {}

\* rollbackMigration(): the entry, its rows, and last the snapshot.
Rollback ==
  /\ MayRollback
  /\ Moved(Top.src)
  /\ row' = Top.row
  /\ torn' = Top.torn
  /\ snaps' = Below
  /\ Spend
  /\ UNCHANGED <<alive, downloads, lock, flight>>

\* A death in the middle of it; a mutant takes the snapshot first.
DiesRollingBackLate ==
  /\ MayRollback
  /\ Moved(Top.src)
  /\ row' \in Part(Top.row) \cup {row}
  /\ torn' = TRUE
  /\ snaps' = Below
  /\ Restarted
  /\ Spend
  /\ UNCHANGED alive
DiesRollingBack ==
  /\ MayRollback
  /\ Moved(Top.src)
  /\ row' \in Part(Top.row) \cup {row}
  /\ torn' = TRUE
  /\ Restarted
  /\ Spend
  /\ UNCHANGED <<alive, snaps>>

\* The user refuses a suggestion, and the refusal is remembered.
Dismiss ==
  /\ sugg # None
  /\ dismissed' = sugg
  /\ sugg' = None
  /\ Spend
  /\ UNCHANGED <<alive, src, row, torn, snaps, downloads, lock, flight>>

\* removeEntry(), with or without the files; the snapshots go too, although no
\* foreign key ties them to the entry.
Remove ==
  /\ alive
  /\ alive' = FALSE
  /\ row' = NoRows
  /\ snaps' = <<>>
  /\ sugg' = None
  /\ dismissed' = None
  /\ torn' = FALSE
  /\ failing' = FALSE
  /\ disk' \in {disk, {}}
  /\ Spend
  /\ UNCHANGED <<src, job, lock, flight>>

-----------------------------------------------------------------------------
(* Downloads                                                                *)

Requested(c) == IF row[c] = "idle" THEN "queued" ELSE row[c]

\* A chapter is asked for: a job that runs, waits or is done stays as it is.
Ask(c) ==
  /\ alive /\ row[c] = "idle"
  /\ job' = Enqueued(job, src, {c})
  /\ row' = [row EXCEPT ![c] = "queued"]
  /\ Spend
  /\ UNCHANGED <<alive, src, torn, sugg, dismissed, snaps, disk, failing, lock, flight>>

\* sweepFailedJobs() and the retry routes leave the jobs of a source the entry
\* has left; a mutant retries them too.
RetriableAny(s, c) == job[<<s, c>>] = "failed" /\ alive
Retriable(s, c) == job[<<s, c>>] = "failed" /\ alive /\ s = src

Retry(s, c, byUser) ==
  /\ Retriable(s, c)
  /\ job' = [job EXCEPT ![<<s, c>>] = "queued"]
  /\ row' = IF byUser /\ s = src THEN [row EXCEPT ![c] = Requested(c)] ELSE row
  /\ Spend
  /\ UNCHANGED <<alive, src, torn, sugg, dismissed, snaps, disk, failing, lock, flight>>

Run(s, c) ==
  /\ job[<<s, c>>] = "queued"
  /\ job' = [job EXCEPT ![<<s, c>>] = "running"]
  /\ UNCHANGED <<entry, disk, failing, lock, flight, left>>

\* A job reports to the row that has the id of its chapter.
Reports(s, c) == alive /\ s = src /\ row[c] \notin {"absent", "local"}

Succeeds(s, c) ==
  /\ job[<<s, c>>] = "running"
  /\ job' = [job EXCEPT ![<<s, c>>] = "done"]
  /\ disk' = disk \cup {c}
  /\ row' = IF Reports(s, c) THEN [row EXCEPT ![c] = "downloaded"] ELSE row
  /\ UNCHANGED <<alive, src, torn, sugg, dismissed, snaps, failing, lock, flight, left>>

Cancel(s, c) ==
  /\ job[<<s, c>>] \in {"queued", "running"}
  /\ job' = [job EXCEPT ![<<s, c>>] = "none"]
  /\ row' = IF Reports(s, c) /\ row[c] = "queued" THEN [row EXCEPT ![c] = "idle"] ELSE row
  /\ Spend
  /\ UNCHANGED <<alive, src, torn, sugg, dismissed, snaps, disk, failing, lock, flight>>

\* handleDownloadFailure(): counted in any case, then probed at once when the
\* content is gone or the outage escalated, and no sibling is left to settle.
Fails(s, c, probe) ==
  /\ job[<<s, c>>] = "running"
  /\ job' = [job EXCEPT ![<<s, c>>] = "failed"]
  /\ row' = IF Reports(s, c) THEN [row EXCEPT ![c] = "idle"] ELSE row
  /\ failing' = alive
  /\ IF probe /\ ~Pending(job') /\ MayLeave("immediate") /\ ~probing /\ ~cool
     THEN TryBeginProbe("immediate")
     ELSE UNCHANGED <<lock, flight>>
  /\ UNCHANGED <<alive, src, torn, sugg, dismissed, snaps, disk, left>>

CooldownOver ==
  /\ cool
  /\ cool' = FALSE
  /\ UNCHANGED <<entry, downloads, probing, flight, left>>

-----------------------------------------------------------------------------
Init ==
  /\ alive = TRUE
  /\ src = Home
  /\ row \in [Chapter -> {"absent", "idle"}]
  /\ torn = FALSE
  /\ sugg = None /\ dismissed = None
  /\ snaps = <<>>
  /\ job = [sc \in Source \X Chapter |-> "none"]
  /\ disk = {}
  /\ failing = FALSE
  /\ probing = FALSE /\ cool = FALSE
  /\ flight = [a \in Actor |-> Idle]
  /\ left = Budget

Crawls(a) ==
  \/ FindsNone(a)
  \/ \E t \in Source : Suggests(a, t) \/ Migrates(a, t)
Fetches(a) ==
  \/ FetchFails(a) \/ Conflict(a) \/ Void(a)
  \/ \E listed, found \in SUBSET Chapter : Commit(a, listed, found)
Flies(a) == Crawls(a) \/ Fetches(a)

Departs ==
  \/ StartCheck \/ StartBackstop \/ StartDetect
  \/ \E a \in Actor : StartRematch(a)
  \/ \E t \in Source : Request(t)

Settles(s, c) == Succeeds(s, c) \/ \E probe \in BOOLEAN : Fails(s, c, probe)
Downloads(s, c) ==
  \/ Run(s, c) \/ Settles(s, c) \/ Cancel(s, c)
  \/ \E byUser \in BOOLEAN : Retry(s, c, byUser)

Dies ==
  \/ Restart \/ DiesRollingBack
  \/ \E a \in Actor, listed \in SUBSET Chapter : DiesCommitting(a, listed)

Next ==
  \/ Departs
  \/ \E a \in Actor : Flies(a)
  \/ Dies
  \/ Rollback \/ Dismiss \/ Remove
  \/ \E c \in Chapter : Ask(c)
  \/ \E s \in Source, c \in Chapter : Downloads(s, c)
  \/ CooldownOver

Spec == Init /\ [][Next]_vars

\* Every await is bounded by a timeout, the queue runs its jobs, the cooldown
\* is a clock and the scheduler comes back.
FairSpec ==
  /\ Spec
  /\ \A a \in Actor : WF_vars(Flies(a))
  /\ \A s \in Source, c \in Chapter : WF_vars(Run(s, c) \/ Settles(s, c))
  /\ WF_vars(CooldownOver)
  /\ WF_vars(StartBackstop)

-----------------------------------------------------------------------------
FlightType ==
  {f \in [at : {"idle", "crawl", "fetch"}, from : Source \cup {None}, to : Source \cup {None},
          kept : SUBSET Chapter, files : SUBSET Chapter] : f.at = "fetch" => f.to # None}
RowType == [Chapter -> {"absent", "idle", "queued", "downloaded", "local"}]

SnapType == [src : Source, row : RowType, torn : BOOLEAN]
JobType == [Source \X Chapter -> {"none", "queued", "running", "failed", "done"}]

EntryOK ==
  /\ alive \in BOOLEAN /\ src \in Source
  /\ row \in RowType /\ torn \in BOOLEAN
  /\ sugg \in Source \cup {None} /\ dismissed \in Source \cup {None}
  /\ snaps \in Seq(SnapType)
JobsOK == job \in JobType /\ disk \subseteq Chapter /\ failing \in BOOLEAN
FlightsOK == probing \in BOOLEAN /\ cool \in BOOLEAN /\ flight \in [Actor -> FlightType]
NothingLeft == ~alive => row = NoRows /\ snaps = <<>> /\ sugg = None /\ ~torn /\ ~failing

\* Every variable has its type, and nothing is left of a removed entry.
TypeOK == EntryOK /\ JobsOK /\ FlightsOK /\ left \in 0..Budget /\ NothingLeft

\* At most one automatic probe flies for the entry, and `probing` says exactly
\* whether one does: a stale mark would end the failover of the series for good
\* (failover.ts:452-467).
ProbeExclusion ==
  /\ \A a, b \in InFlight \cap Lockers : a = b
  /\ probing <=> InFlight \cap Lockers # {}

\* Rows that a death or a refused write cut short can be restored: a snapshot
\* of complete rows is at the bottom of the stack (migration.ts:45, 200-228).
WayBack ==
  /\ torn => snaps # <<>>
  /\ snaps # <<>> => ~snaps[1].torn

Commits(a) == flight[a].at = "fetch" /\ \E listed, found \in SUBSET Chapter : Commit(a, listed, found)

\* A rebuild shows every numbered file that was in the folder when it asked for
\* the listing, whoever recorded it (migration.ts:47-51, 189-196).
FilesStayVisible ==
  [][\A a \in Actor : Commits(a) =>
       \A c \in Numbered \cap flight[a].files : row'[c] \in Shown]_vars

\* The chapters that failed on the old source have a job on the new one after
\* a rebuild, unless it does not list them or their file is there, and nothing
\* of the old source still waits (migration.ts:59-97).
FailuresResume ==
  [][\A a \in Actor \cap Requeuers : Commits(a) /\ Failures # {} =>
       /\ \A s \in Source \ {src'}, c \in Chapter : job'[<<s, c>>] \notin Stale
       /\ \A c \in Failures : row'[c] \notin Shown \cup {"absent"} => job'[<<src', c>>] \notin {"none", "failed"}]_vars

\* No retry revives a job of a source the entry has left (queue.ts:278-290).
OldSourceRests ==
  [][\A s \in Source, c \in Chapter :
       job[<<s, c>>] = "failed" /\ job'[<<s, c>>] = "queued" => s = src']_vars

\* The detection suggests, or sets out to migrate, only from what the entry is
\* now: still on the source it crawled for, with no suggestion, and not to a
\* target refused meanwhile (failover.ts:414-427).
DetectionFresh ==
  [][flight["detect"].at = "crawl" /\ (flight'["detect"].at = "fetch" \/ (sugg' # sugg /\ sugg' # None))
     => \/ flight'["detect"].at = "crawl"
        \/ sugg = None /\ src = flight["detect"].from /\ dismissed \notin {sugg', flight'["detect"].to} \ {None}]_vars

\* A failed download is not forgotten: unless its entry is removed, a probe
\* flies or the failures are settled (scheduler.ts:175-216).
FailingIsProbed == failing ~> (~failing \/ probing)

=============================================================================
