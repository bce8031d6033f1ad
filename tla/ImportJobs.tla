------------------------------ MODULE ImportJobs ------------------------------
(***************************************************************************)
(* The import of a folder of chapters: its jobs and their series in the    *)
(* database, the run of a job in memory (scan, match, sync) and the single *)
(* slot every crawl of the sources takes.  A run awaits the sources once   *)
(* per series; meanwhile the user chooses, cancels, follows and removes    *)
(* series, and the server may die.                                         *)
(***************************************************************************)
EXTENDS Naturals, FiniteSets

CONSTANTS
  Job, Bulk,         \* imports, by id, and the bulk tool that takes the same slot
  AutoConfirm,       \* options.autoConfirm of each import
  Path, NoPath,      \* series of the imported folder
  Manga, NoManga,    \* series of the sources, and NULL
  TitleOf,           \* normalized title of each series
  Hits,              \* confidences and candidates a search may have, by series
  Scans,             \* series each scan may see, none when the mount is not ready
  Workers,           \* MATCH_CONCURRENCY, or options.concurrency
  Budget             \* what users and crashes may do (a bound)

ASSUME ImportAssumption ==
  /\ IsFiniteSet(Job) /\ Bulk \notin Job
  /\ AutoConfirm \in [Job -> {"none", "auto", "all"}]
  /\ NoPath \notin Path /\ IsFiniteSet(Path)
  /\ NoManga \notin Manga
  /\ Scans \in [Job -> SUBSET SUBSET Path]
  /\ Hits \in [Path -> SUBSET ({"review", "auto"} \X Manga)]
  /\ Workers \in Nat \ {0}
  /\ Budget \in Nat

VARIABLES
  job,         \* status of each import_jobs row, "none" before it is inserted
  state,       \* status of each import_series row, "absent" without one
  tier,        \* its confidence, "null" before the match
  manga,       \* its source and manga
  confirmed,   \* its confirmed flag
  library,     \* tracked entries
  imported,    \* those an import inserted
  slot,        \* JobRunner.running, the crawl jobs
  cancelled,   \* cancelRequested
  phase,       \* where the run of each job is, "idle" without one
  matching,    \* series its workers are matching
  todo,        \* series syncAll() read and did not settle
  wanted,      \* the match it read with each
  current,     \* the one it awaits
  budget

rows == <<state, tier, manga, confirmed>>
run == <<phase, matching, todo, wanted, current>>
entries == <<library, imported>>
vars == <<job, rows, entries, slot, cancelled, run, budget>>

JobStatus == {"none", "scanning", "matching", "syncing", "ready", "done", "error"}
Active == {"scanning", "matching", "syncing"}
SeriesState == {"absent", "pending", "matching", "matched", "synced", "failed"}
Phase == {"idle", "listing", "matching", "syncing", "asking", "filling"}
Row == Job \X Path

Running(j) == phase[j] # "idle"
SeriesIn(j, S) == {p \in Path : state[<<j, p>>] \in S}
Titled(m, S) == \E n \in S : TitleOf[n] = TitleOf[m]

Spend == budget > 0 /\ budget' = budget - 1

-----------------------------------------------------------------------------
(* The slot and the end of a run                                            *)

\* begin() of a crawl job.
Begin(j) ==
  /\ slot = {}
  /\ slot' = slot \cup {j}

\* The `finally` of runPhases() and the status it leaves; a failed run of a
\* mutant keeps the slot.
EndLeaking(j, status) ==
  /\ job' = [job EXCEPT ![j] = status]
  /\ phase' = [phase EXCEPT ![j] = "idle"]
  /\ todo' = [todo EXCEPT ![j] = {}]
  /\ wanted' = [x \in Row |-> IF x[1] = j THEN NoManga ELSE wanted[x]]
  /\ cancelled' = cancelled \ {j}
  /\ slot' = IF status = "error" THEN slot ELSE slot \ {j}
End(j, status) ==
  /\ job' = [job EXCEPT ![j] = status]
  /\ phase' = [phase EXCEPT ![j] = "idle"]
  /\ todo' = [todo EXCEPT ![j] = {}]
  /\ wanted' = [x \in Row |-> IF x[1] = j THEN NoManga ELSE wanted[x]]
  /\ cancelled' = cancelled \ {j}
  /\ slot' = slot \ {j}

-----------------------------------------------------------------------------
(* Requests                                                                 *)

\* start(): earlier jobs are superseded and the folder scanned at once; `found`
\* is what the scan sees, nothing when the mount is not ready.
Superseded(j, status) ==
  [k \in Job |-> CASE k = j -> status
                   [] k # j /\ job[k] \in Active \cup {"ready"} -> "error"
                   [] OTHER -> job[k]]
Insert(j, found) ==
  state' = [x \in Row |-> IF x[1] = j /\ x[2] \in found THEN "pending" ELSE state[x]]

\* A mutant starts although a crawl runs.
StartBusy(j, found) ==
  /\ job[j] = "none"
  /\ job' = Superseded(j, IF found = {} THEN "error" ELSE "matching")
  /\ Insert(j, found)
  /\ IF found = {}
     THEN UNCHANGED <<slot, phase>>
     ELSE slot' = slot \cup {j} /\ phase' = [phase EXCEPT ![j] = "listing"]
  /\ UNCHANGED <<tier, manga, confirmed, entries, cancelled, matching, todo, wanted, current, budget>>
Start(j, found) ==
  /\ job[j] = "none"
  /\ slot = {}
  /\ job' = Superseded(j, IF found = {} THEN "error" ELSE "matching")
  /\ Insert(j, found)
  /\ IF found = {}
     THEN UNCHANGED <<slot, phase>>
     ELSE Begin(j) /\ phase' = [phase EXCEPT ![j] = "listing"]
  /\ UNCHANGED <<tier, manga, confirmed, entries, cancelled, matching, todo, wanted, current, budget>>

\* _resumableJob(): any job that does not run, superseded ones included.
Resumable(j) == job[j] # "none" /\ ~Running(j)

Resume(j) ==
  /\ Resumable(j)
  /\ Begin(j)
  /\ job' = [job EXCEPT ![j] = IF SeriesIn(j, {"pending"}) # {} THEN "matching" ELSE "syncing"]
  /\ phase' = [phase EXCEPT ![j] = "listing"]
  /\ UNCHANGED <<rows, entries, cancelled, matching, todo, wanted, current, budget>>

\* syncAll() reads its rows once, with the matches they have.
ReadRows(j, sure) ==
  /\ phase' = [phase EXCEPT ![j] = "syncing"]
  /\ todo' = [todo EXCEPT ![j] = {p \in SeriesIn(j, SeriesState \ {"absent", "synced"}) : sure[<<j, p>>]}]
  /\ wanted' = [x \in Row |-> IF x[1] = j /\ x[2] \in todo'[j] THEN manga[x] ELSE wanted[x]]

Sync(j) ==
  /\ Resumable(j)
  /\ Begin(j)
  /\ job' = [job EXCEPT ![j] = "syncing"]
  /\ ReadRows(j, confirmed)
  /\ UNCHANGED <<rows, entries, cancelled, matching, current, budget>>

\* cancel(), which does not ask whether the job runs.
Cancel(j) ==
  /\ job[j] # "none" /\ j \notin cancelled
  /\ Spend
  /\ cancelled' = cancelled \cup {j}
  /\ UNCHANGED <<job, rows, entries, slot, run>>

Choose(j, p, m) ==
  /\ state[<<j, p>>] # "absent"
  /\ Spend
  /\ state' = [state EXCEPT ![<<j, p>>] = "matched"]
  /\ tier' = [tier EXCEPT ![<<j, p>>] = IF tier[<<j, p>>] = "null" THEN "review" ELSE tier[<<j, p>>]]
  /\ manga' = [manga EXCEPT ![<<j, p>>] = m]
  /\ confirmed' = [confirmed EXCEPT ![<<j, p>>] = TRUE]
  /\ UNCHANGED <<job, entries, slot, cancelled, run>>

\* confirm(): the flags once every match of the tiers is confirmed.
Tiers(mode) == IF mode = "all" THEN {"auto", "review"} ELSE {"auto"}
Sure(j, mode) ==
  [x \in Row |-> \/ confirmed[x]
                 \/ x[1] = j /\ state[x] = "matched" /\ manga[x] # NoManga /\ tier[x] \in Tiers(mode)]
Confirm(j, mode) ==
  /\ Spend
  /\ confirmed' = Sure(j, mode)
  /\ UNCHANGED <<job, state, tier, manga, entries, slot, cancelled, run>>

\* The library changes under the run: a series followed by hand (`force` passes
\* the duplicate guard), or removed.
Follow(m) ==
  /\ m \notin library
  /\ Spend
  /\ library' = library \cup {m}
  /\ UNCHANGED <<job, rows, imported, slot, cancelled, run>>
Unfollow(m) ==
  /\ m \in library
  /\ Spend
  /\ library' = library \ {m}
  /\ imported' = imported \ {m}
  /\ UNCHANGED <<job, rows, slot, cancelled, run>>

\* A bulk tool takes the slot and gives it back.
BulkRun ==
  /\ IF Bulk \in slot THEN slot' = slot \ {Bulk} ELSE Begin(Bulk)
  /\ UNCHANGED <<job, rows, entries, cancelled, run, budget>>

-----------------------------------------------------------------------------
(* Matching                                                                 *)

\* listSources() answers; without a usable source the job fails.
Lists(j) ==
  /\ phase[j] = "listing"
  /\ phase' = [phase EXCEPT ![j] = "matching"]
  /\ UNCHANGED <<job, rows, entries, slot, cancelled, matching, todo, wanted, current, budget>>
NoSource(j) ==
  /\ phase[j] = "listing"
  /\ End(j, "error")
  /\ UNCHANGED <<rows, entries, matching, current, budget>>

\* A free worker claims a pending series; mutants take one that was matched but
\* is not sure, or one more after a cancel.
Takes(j, p) ==
  /\ state' = [state EXCEPT ![<<j, p>>] = "matching"]
  /\ matching' = [matching EXCEPT ![j] = @ \cup {p}]
  /\ UNCHANGED <<job, tier, manga, confirmed, entries, slot, cancelled, phase, todo, wanted, current, budget>>
FreeWorker(j) == phase[j] = "matching" /\ Cardinality(matching[j]) < Workers
ClaimAgain(j, p) ==
  /\ FreeWorker(j) /\ j \notin cancelled
  /\ \/ state[<<j, p>>] = "pending"
     \/ state[<<j, p>>] = "matched" /\ tier[<<j, p>>] # "auto" /\ p \notin matching[j]
  /\ Takes(j, p)
ClaimCancelled(j, p) ==
  /\ FreeWorker(j)
  /\ state[<<j, p>>] = "pending"
  /\ Takes(j, p)
Claim(j, p) ==
  /\ FreeWorker(j) /\ j \notin cancelled
  /\ state[<<j, p>>] = "pending"
  /\ Takes(j, p)

\* matchSeries() has asked its last source and writes what it found over what
\* the row says by then.
Results(p) == Hits[p] \cup {<<"none", NoManga>>}
Finds(j, p, t, m) ==
  /\ p \in matching[j]
  /\ <<t, m>> \in Results(p)
  /\ state' = [state EXCEPT ![<<j, p>>] = "matched"]
  /\ tier' = [tier EXCEPT ![<<j, p>>] = t]
  /\ manga' = [manga EXCEPT ![<<j, p>>] = m]
  /\ matching' = [matching EXCEPT ![j] = @ \ {p}]
  /\ UNCHANGED <<job, confirmed, entries, slot, cancelled, phase, todo, wanted, current, budget>>

\* ... or sees the cancel between two sources and leaves the row as it is.
Abandons(j, p) ==
  /\ p \in matching[j] /\ j \in cancelled
  /\ matching' = [matching EXCEPT ![j] = @ \ {p}]
  /\ UNCHANGED <<job, rows, entries, slot, cancelled, phase, todo, wanted, current, budget>>

\* Every worker returned: the run stops, or confirms and goes on with the sync.
Matched(j) ==
  /\ phase[j] = "matching" /\ matching[j] = {}
  /\ j \in cancelled \/ SeriesIn(j, {"pending"}) = {}
Stops(j) ==
  /\ Matched(j)
  /\ j \in cancelled \/ AutoConfirm[j] = "none"
  /\ End(j, "ready")
  /\ UNCHANGED <<rows, entries, matching, current, budget>>
GoesOn(j) ==
  /\ Matched(j)
  /\ j \notin cancelled /\ AutoConfirm[j] # "none"
  /\ confirmed' = Sure(j, AutoConfirm[j])
  /\ job' = [job EXCEPT ![j] = "syncing"]
  /\ ReadRows(j, confirmed')
  /\ UNCHANGED <<state, tier, manga, entries, slot, cancelled, matching, current, budget>>

-----------------------------------------------------------------------------
(* Syncing                                                                  *)

\* syncAll() settles the row of a series, whatever its match is by now.
Settle(j, p, status) ==
  /\ state' = [state EXCEPT ![<<j, p>>] = status]
  /\ todo' = [todo EXCEPT ![j] = @ \ {p}]
  /\ current' = [current EXCEPT ![j] = NoPath]
  /\ wanted' = [wanted EXCEPT ![<<j, p>>] = NoManga]
  /\ phase' = [phase EXCEPT ![j] = "syncing"]
  /\ UNCHANGED <<job, tier, manga, confirmed, slot, cancelled, matching, budget>>

\* The loop ends, or stops before its next series.
SyncEnds(j) ==
  /\ phase[j] = "syncing" /\ todo[j] = {}
  /\ End(j, "done")
  /\ UNCHANGED <<rows, entries, matching, current, budget>>
SyncStops(j) ==
  /\ phase[j] = "syncing" /\ todo[j] # {} /\ j \in cancelled
  /\ End(j, "ready")
  /\ UNCHANGED <<rows, entries, matching, current, budget>>

\* syncSeries(): no match, or a tracked title whose entry takes the files, are
\* settled at once; otherwise the source is asked for its chapters.  The guard
\* of a mutant looks for the same manga of the same source only.
NextSeries(j, p) == phase[j] = "syncing" /\ p \in todo[j] /\ j \notin cancelled
Unmatched(j, p) ==
  /\ NextSeries(j, p)
  /\ wanted[<<j, p>>] = NoManga
  /\ Settle(j, p, "failed")
  /\ UNCHANGED entries
Attaches(j, p) ==
  /\ NextSeries(j, p)
  /\ wanted[<<j, p>>] # NoManga /\ Titled(wanted[<<j, p>>], library)
  /\ Settle(j, p, "synced")
  /\ UNCHANGED entries
AsksSame(j, p) ==
  /\ NextSeries(j, p)
  /\ wanted[<<j, p>>] # NoManga /\ wanted[<<j, p>>] \notin library
  /\ phase' = [phase EXCEPT ![j] = "asking"]
  /\ current' = [current EXCEPT ![j] = p]
  /\ UNCHANGED <<job, rows, entries, slot, cancelled, matching, todo, wanted, budget>>
Asks(j, p) ==
  /\ NextSeries(j, p)
  /\ wanted[<<j, p>>] # NoManga /\ ~Titled(wanted[<<j, p>>], library)
  /\ phase' = [phase EXCEPT ![j] = "asking"]
  /\ current' = [current EXCEPT ![j] = p]
  /\ UNCHANGED <<job, rows, entries, slot, cancelled, matching, todo, wanted, budget>>

\* The source fails or answers too late.
AskFails(j) ==
  /\ phase[j] = "asking"
  /\ Settle(j, current[j], "failed")
  /\ UNCHANGED entries

\* It answers: addEntry() inserts, or updates the entry of this very manga, and
\* asks once more for the snapshot.
Adds(j) ==
  /\ phase[j] = "asking"
  /\ LET m == wanted[<<j, current[j]>>]
     IN /\ library' = library \cup {m}
        /\ imported' = IF m \in library THEN imported ELSE imported \cup {m}
  /\ phase' = [phase EXCEPT ![j] = "filling"]
  /\ UNCHANGED <<job, rows, slot, cancelled, matching, todo, wanted, current, budget>>
Fills(j) ==
  /\ phase[j] = "filling"
  /\ Settle(j, current[j], IF wanted[<<j, current[j]>>] \in library THEN "synced" ELSE "failed")
  /\ UNCHANGED entries

-----------------------------------------------------------------------------
(* A crash, and the recovery of the constructor                             *)

\* Memory is lost; a mutant leaves the jobs that ran as they were.
RestartStale(status, series) ==
  /\ job' = status
  /\ state' = [x \in Row |-> IF series[x] = "matching" THEN "pending" ELSE series[x]]
  /\ phase' = [j \in Job |-> "idle"]
  /\ slot' = {}
  /\ cancelled' = {}
  /\ matching' = [j \in Job |-> {}]
  /\ todo' = [j \in Job |-> {}]
  /\ current' = [j \in Job |-> NoPath]
  /\ wanted' = [x \in Row |-> NoManga]
  /\ UNCHANGED <<tier, manga, confirmed, entries>>
Restart(status, series) ==
  /\ job' = [j \in Job |-> IF status[j] \in Active THEN "ready" ELSE status[j]]
  /\ state' = [x \in Row |-> IF series[x] = "matching" THEN "pending" ELSE series[x]]
  /\ phase' = [j \in Job |-> "idle"]
  /\ slot' = {}
  /\ cancelled' = {}
  /\ matching' = [j \in Job |-> {}]
  /\ todo' = [j \in Job |-> {}]
  /\ current' = [j \in Job |-> NoPath]
  /\ wanted' = [x \in Row |-> NoManga]
  /\ UNCHANGED <<tier, manga, confirmed, entries>>

Dies == Spend /\ Restart(job, state)

\* Nothing makes the inserts of start() one transaction.
DiesStarting(j, part) ==
  /\ job[j] = "none" /\ slot = {}
  /\ Spend
  /\ Restart(Superseded(j, "scanning"),
             [x \in Row |-> IF x[1] = j /\ x[2] \in part THEN "pending" ELSE state[x]])

-----------------------------------------------------------------------------
Init ==
  /\ job = [j \in Job |-> "none"]
  /\ state = [x \in Row |-> "absent"]
  /\ tier = [x \in Row |-> "null"]
  /\ manga = [x \in Row |-> NoManga]
  /\ confirmed = [x \in Row |-> FALSE]
  /\ library = {} /\ imported = {}
  /\ slot = {} /\ cancelled = {}
  /\ phase = [j \in Job |-> "idle"]
  /\ matching = [j \in Job |-> {}]
  /\ todo = [j \in Job |-> {}]
  /\ wanted = [x \in Row |-> NoManga]
  /\ current = [j \in Job |-> NoPath]
  /\ budget = Budget

Matches(j) ==
  \/ Lists(j) \/ NoSource(j) \/ Stops(j) \/ GoesOn(j)
  \/ \E p \in Path : Claim(j, p) \/ Abandons(j, p)
  \/ \E p \in Path, t \in {"none", "review", "auto"}, m \in Manga \cup {NoManga} : Finds(j, p, t, m)
Syncs(j) ==
  \/ SyncEnds(j) \/ SyncStops(j) \/ AskFails(j) \/ Adds(j) \/ Fills(j)
  \/ \E p \in Path : Unmatched(j, p) \/ Attaches(j, p) \/ Asks(j, p)
Runs(j) == Matches(j) \/ Syncs(j)

Requests(j) ==
  \/ Resume(j) \/ Sync(j) \/ Cancel(j)
  \/ \E mode \in {"auto", "all"} : Confirm(j, mode)
  \/ \E p \in Path, m \in Manga : Choose(j, p, m)

Next ==
  \/ \E j \in Job : \E found \in Scans[j] : Start(j, found)
  \/ \E j \in Job : Requests(j) \/ Runs(j)
  \/ \E m \in Manga : Follow(m) \/ Unfollow(m)
  \/ BulkRun
  \/ Dies
  \/ \E j \in Job : \E found \in Scans[j] :
       \E part \in SUBSET found : DiesStarting(j, part)

Spec == Init /\ [][Next]_vars

\* Every call to a source is bounded by a timeout and settles its promise.
FairSpec == Spec /\ \A j \in Job : WF_vars(Runs(j))

-----------------------------------------------------------------------------
(* Properties                                                               *)

\* Every variable has its type.
TypeOK ==
  /\ job \in [Job -> JobStatus]
  /\ state \in [Row -> SeriesState]
  /\ tier \in [Row -> {"null", "none", "review", "auto"}]
  /\ manga \in [Row -> Manga \cup {NoManga}]
  /\ confirmed \in [Row -> BOOLEAN]
  /\ imported \subseteq library /\ library \subseteq Manga
  /\ slot \subseteq Job \cup {Bulk}
  /\ cancelled \subseteq Job
  /\ phase \in [Job -> Phase]
  /\ matching \in [Job -> SUBSET Path]
  /\ todo \in [Job -> SUBSET Path]
  /\ wanted \in [Row -> Manga \cup {NoManga}]
  /\ current \in [Job -> Path \cup {NoPath}]
  /\ budget \in 0..Budget

\* One crawl at a time, and the database agrees with memory on which import it
\* is: a job the dashboard shows at work has a run that holds the slot, a
\* superseded or interrupted one has neither (service.ts:133-138, 116-121 and
\* the `finally` of 363-371; jobs.ts:88-92).
RunsHoldSlot ==
  /\ \A a, b \in slot : a = b
  /\ \A j \in Job : Running(j) <=> j \in slot
  /\ \A j \in Job : Running(j) <=> job[j] \in Active

\* Two entries that imports created never have one title, across jobs, resumes
\* and crashes, although the guard (syncer.ts:93-113) looks before two awaits
\* and the insert comes after them.
ImportsOnce == \A m, n \in imported : TitleOf[m] = TitleOf[n] => m = n

\* "Confirmed choices are kept" (service.ts:163): no worker takes a confirmed
\* series again, of a resumed, superseded or recovered job, and only another
\* choice changes its match, unless a worker was matching the series already.
ChoiceKept(x) ==
  /\ confirmed'[x] /\ x[2] \notin matching'[x[1]]
  /\ \/ manga'[x] = manga[x]
     \/ \E m \in Manga : Choose(x[1], x[2], m)
ChoicesKept == [][\A x \in Row : confirmed[x] /\ x[2] \notin matching[x[1]] => ChoiceKept(x)]_vars

\* A cancelled run begins nothing more, of either phase (service.ts:163-166).
CancelStops ==
  [][\A j \in cancelled : phase[j] # "idle" =>
        /\ matching'[j] \subseteq matching[j]
        /\ current'[j] \in {current[j], NoPath}]_vars

\* Every run ends, however it goes, and gives the slot back.
RunsEnd == \A j \in Job : Running(j) ~> (~Running(j) /\ j \notin slot)
=============================================================================
