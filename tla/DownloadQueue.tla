---------------------------- MODULE DownloadQueue ----------------------------
(***************************************************************************)
(* The persistent chapter download queue: the rows of `download_jobs`, the *)
(* in-memory slots and cancel flags of class DownloadQueue, and one worker *)
(* per running row (packages/server/src/downloader).                       *)
(*                                                                         *)
(* Node runs one callback at a time, so an action is the code between two  *)
(* awaits.  A worker awaits the adapter and page list, the resume          *)
(* of a paused queue, each page and the archive; everything else of its    *)
(* run happens together with one of these answers.  The decrement of the   *)
(* slot counter is a promise reaction of its own (`settling`), so other    *)
(* callbacks may run between a worker's last write and it.                 *)
(*                                                                         *)
(* Abstracted: what is downloaded (page payloads, paths, titles), progress *)
(* columns, events to the dashboard, wall-clock delays (a timer may fire   *)
(* at any time).  Two rows never share an id, so ids are only their order. *)
(***************************************************************************)
EXTENDS FiniteSets, Integers, Sequences, Functions

CONSTANTS
  Job,          \* rows by their UNIQUE(source_id, manga_id, chapter_id) key
  Source,       \* source ids
  SourceOf,     \* the source of each row
  Batches,      \* `chapters` arrays that clients pass to enqueue()
  EntryRefs,    \* TRUE: on behalf of a library entry, FALSE: ad hoc
  MaxSlots,     \* bound on the two concurrency settings
  Faults        \* failures the model injects: "crash", "write" (a refused
                \* SQLite write, e.g. on a full disk)

ASSUME QueueAssumption ==
  /\ IsFiniteSet(Job)
  /\ IsFiniteSet(Source)
  /\ SourceOf \in [Job -> Source]
  /\ Batches \subseteq Seq(Job)
  /\ EntryRefs \subseteq BOOLEAN
  /\ MaxSlots \in Nat \ {0}
  /\ Faults \subseteq {"crash", "write"}

VARIABLES
  status,        \* download_jobs.status, "absent" when there is no row
  linked,        \* the rows whose entry_id is not NULL
  older,         \* pairs <<i, j>> of rows with i.id < j.id
  worker,        \* where the run of a row waits, "none" when it has none
  cancelFlags,   \* rows with a pending cancel request
  settling,      \* per source: runs that ended but still hold their slot
  active,        \* activePerSource; 0 = no key
  paused,
  parallelSources, concurrencyPerSource     \* settings

rows == <<status, linked, older>>
run == <<worker, cancelFlags>>
slots == <<settling, active>>
knobs == <<paused, parallelSources, concurrencyPerSource>>
vars == <<rows, run, slots, knobs>>

Finished == {"completed", "failed", "cancelled"}
Status == {"absent", "queued", "downloading"} \cup Finished

\* A run waits for: the adapter and the page list, the end of a pause, a page,
\* the archive.  "stranded": it died because its last write was refused.
Live == {"listing", "held", "fetching", "packing"}
Phase == Live \cup {"none", "stranded"}

With(S) == {j \in Job : status[j] \in S}
Of(s, S) == {j \in S : SourceOf[j] = s}
Become(S, v) == [j \in Job |-> IF j \in S THEN v ELSE status[j]]
Least(a, b) == IF a <= b THEN a ELSE b

-----------------------------------------------------------------------------
(* _schedule(): which queued rows a pass over the rows `st` starts when the *)
(* sources hold `act` slots.  It sees the settings the handler leaves.      *)

QueuedOf(s, st) == {j \in Of(s, Job) : st[j] = "queued"}
Busy(act) == {s \in Source : act[s] > 0}
Idle(st, act) == {s \in Source : act[s] = 0 /\ QueuedOf(s, st) # {}}

\* ORDER BY MIN(id)
HeadBefore(s, t, st) ==
  \E i \in QueuedOf(s, st) : \A j \in QueuedOf(t, st) : <<i, j>> \in older'

\* Source slots left; a mutant forgets the sources already downloading, another
\* one keeps a slot back.
FreeIgnoringBusy(act) == parallelSources'
FreeButOne(act) == parallelSources' - Cardinality(Busy(act)) - 1
Free(act) == parallelSources' - Cardinality(Busy(act))

\* Idle sources that get one of the free source slots, oldest head first.
Admits(S, st, act) ==
  LET idle == Idle(st, act)
  IN /\ Cardinality(S) = IF Free(act) <= 0 THEN 0 ELSE Least(Free(act), Cardinality(idle))
     /\ \A s \in S, t \in idle \ S : HeadBefore(s, t, st)

\* ORDER BY id; a mutant has no order.
AnyOf(mine, queued) == TRUE
FirstOf(mine, queued) == \A i \in mine, j \in queued \ mine : <<i, j>> \in older'

\* ORDER BY id LIMIT concurrencyPerSource - running, for the busy sources
\* below their share and the admitted ones.
Picks(P, st, act) ==
  \E S \in SUBSET Idle(st, act) :
    /\ Admits(S, st, act)
    /\ \A s \in Source :
         LET queued == QueuedOf(s, st)
             room == concurrencyPerSource' - act[s]
             mine == Of(s, P)
         IN /\ Cardinality(mine) =
                 IF room <= 0 \/ (act[s] = 0 /\ s \notin S) THEN 0
                 ELSE Least(room, Cardinality(queued))
            /\ FirstOf(mine, queued)

\* The rows of P start running.
Begin(P, st, wk) ==
  /\ status' = [j \in Job |-> IF j \in P THEN "downloading" ELSE st[j]]
  /\ worker' = [j \in Job |-> IF j \in P THEN "listing" ELSE wk[j]]

\* The sources whose slots are taken when row f cannot be written; a mutant
\* takes the slots of a source after its rows are started.
ReachedLate(s, f, st) == s # SourceOf[f] /\ HeadBefore(s, SourceOf[f], st)
Reached(s, f, st) == s = SourceOf[f] \/ HeadBefore(s, SourceOf[f], st)

\* The pass takes the slots of a source, then starts its rows one by one: if
\* row f cannot be written, the runs before it go on, and the slots taken for
\* f and the rows behind it are never given back.
AbortAt(f, P, st, wk, act) ==
  /\ "write" \in Faults
  /\ Begin({j \in P : IF SourceOf[j] = SourceOf[f] THEN <<j, f>> \in older'
                      ELSE HeadBefore(SourceOf[j], SourceOf[f], st)}, st, wk)
  /\ active' = [s \in Source |->
       IF Reached(s, f, st) THEN act[s] + Cardinality(Of(s, P)) ELSE act[s]]

\* The end of a handler that leaves rows `st`, workers `wk` and slots `act`:
\* the scheduling pass starts the runs it picks, none while paused.
Schedule(st, wk, act) ==
  \E P \in SUBSET {j \in Job : st[j] = "queued"} :
    /\ IF paused' THEN P = {} ELSE Picks(P, st, act)
    /\ \/ /\ Begin(P, st, wk)
          /\ active' = [s \in Source |-> act[s] + Cardinality(Of(s, P))]
       \/ \E f \in P : AbortAt(f, P, st, wk, act)

-----------------------------------------------------------------------------
(* Requests                                                                 *)

\* The rows of `batch` enqueue() inserts get fresh ids, in the order in which
\* they first occur (a repeated one is skipped).
Newer(batch, new) ==
  {p \in Job \X new :
     \/ status[p[1]] # "absent"
     \/ \E m \in DOMAIN batch :
          batch[m] = p[1] /\ p[2] \notin {batch[n] : n \in 1..m}}

\* Statuses whose rows are queued again; a mutant runs completed rows again.
AllStopped == Finished
Requeueable == {"failed", "cancelled"}

\* enqueue(): rows with an active or completed run are skipped (an unlinked
\* one still gets its entry link), the others are queued.
Enqueue(batch, ref) ==
  LET asked == Range(batch)
      new == asked \cap With({"absent"})
      again == asked \cap With(Requeueable)
  IN /\ older' = older \cup Newer(batch, new)
     /\ linked' = IF ref THEN linked \cup asked ELSE linked
     /\ UNCHANGED <<cancelFlags, settling, knobs>>
     /\ Schedule(Become(new \cup again, "queued"), worker, active)

\* retryFailed() and retryJob(): rows that stopped go through enqueue()
\* again with the entry they already have; retryFailed() takes the failed
\* rows that are not orphaned, retryJob() one row.
Retry(S) ==
  /\ S # {}
  /\ \/ S \subseteq With({"failed"})
     \/ S \subseteq With({"failed", "cancelled"}) /\ Cardinality(S) = 1
  /\ UNCHANGED <<linked, older, cancelFlags, settling, knobs>>
  /\ Schedule(Become(S, "queued"), worker, active)

\* sweepFailedJobs(): the failed rows whose backoff elapsed.
Sweep(due) ==
  /\ due # {}
  /\ due \subseteq With({"failed"})
  /\ UNCHANGED <<linked, older, cancelFlags, settling, knobs>>
  /\ Schedule(Become(due, "queued"), worker, active)

\* cancel(): a queued row is cancelled at once, a running one is flagged.
CancelQueued(j) ==
  /\ status[j] = "queued"
  /\ status' = Become({j}, "cancelled")
  /\ UNCHANGED <<linked, older, run, slots, knobs>>

CancelRunning(j) ==
  /\ status[j] = "downloading"
  /\ cancelFlags' = cancelFlags \cup {j}
  /\ UNCHANGED <<rows, worker, slots, knobs>>

\* The id order without the rows of S; a mutant hands their ids out again.
OlderReused(S) == older
OlderWithout(S) == {p \in older : p[1] \notin S /\ p[2] \notin S}

\* The rows of S are deleted, with their place in the id order.
Delete(S) ==
  /\ status' = Become(S, "absent")
  /\ linked' = linked \ S
  /\ older' = OlderWithout(S)

\* clearQueue(): queued rows are deleted, running ones flagged.
ClearQueue ==
  /\ Delete(With({"queued"}))
  /\ cancelFlags' = cancelFlags \cup With({"downloading"})
  /\ UNCHANGED <<worker, slots, knobs>>

\* clearHistory(), dismiss() of one row.
ClearHistory(S) ==
  /\ S # {}
  /\ \/ S = With(Finished)
     \/ \E v \in Finished : S = With({v})
     \/ S \subseteq With(Finished) /\ Cardinality(S) = 1
  /\ Delete(S)
  /\ UNCHANGED <<run, slots, knobs>>

\* Rows _pruneHistory() may drop once they are old enough: not the failed
\* rows of a library entry.
Prunable == With({"completed", "cancelled"}) \cup (With({"failed"}) \ linked)

PruneHistory(S) ==
  /\ S # {}
  /\ S \subseteq Prunable
  /\ Delete(S)
  /\ UNCHANGED <<run, slots, knobs>>

-----------------------------------------------------------------------------
(* Pause, settings, timer                                                   *)

Pause ==
  /\ paused' = TRUE
  /\ UNCHANGED <<rows, run, slots, parallelSources, concurrencyPerSource>>

Resume ==
  /\ paused' = FALSE
  /\ UNCHANGED <<linked, older, cancelFlags, settling>>
  /\ UNCHANGED <<parallelSources, concurrencyPerSource>>
  /\ Schedule(status, worker, active)

\* updateSettings(): each of the two knobs is followed by its own pass.
SetParallelSources(n) ==
  /\ parallelSources' = n
  /\ UNCHANGED <<linked, older, cancelFlags, settling, paused, concurrencyPerSource>>
  /\ Schedule(status, worker, active)

SetConcurrency(n) ==
  /\ concurrencyPerSource' = n
  /\ UNCHANGED <<linked, older, cancelFlags, settling, paused, parallelSources>>
  /\ Schedule(status, worker, active)

\* The one-second timer.
Tick ==
  /\ UNCHANGED <<linked, older, cancelFlags, settling, knobs>>
  /\ Schedule(status, worker, active)

-----------------------------------------------------------------------------
(* A run                                                                    *)

\* The finally block of _runJob() drops the flag; a mutant keeps it.
KeepFlag(j) == cancelFlags
DropFlag(j) == cancelFlags \ {j}

\* The end of _runJob(): terminal status, flag dropped, hooks notified.  The
\* slot is given back later, by Settle.
Finish(j, outcome) ==
  /\ status' = Become({j}, outcome)
  /\ worker' = [worker EXCEPT ![j] = "none"]
  /\ cancelFlags' = DropFlag(j)
  /\ settling' = [settling EXCEPT ![SourceOf[j]] = @ + 1]
  /\ UNCHANGED <<linked, older, active, knobs>>

Goto(j, phase) ==
  /\ worker' = [worker EXCEPT ![j] = phase]
  /\ UNCHANGED <<rows, cancelFlags, slots, knobs>>

\* _checkCancel(): a flagged run stops as "cancelled", the others go on.
Checkpoint(j, phase) ==
  IF j \in cancelFlags THEN Finish(j, "cancelled") ELSE Goto(j, phase)

\* The adapter and then the page list arrive, or an attempt fails and the
\* next one starts with a check, or the attempts (the source is unknown, the
\* output cannot be prepared) fail for good.
ListPages(j) ==
  /\ worker[j] = "listing"
  /\ \/ Finish(j, "failed")
     \/ Finish(j, "completed")               \* the output already exists
     \/ j \in cancelFlags /\ Finish(j, "cancelled")
     \/ Checkpoint(j, "held")                \* first check of the page loop

\* _waitWhilePaused() returns; the chapter deadline may have passed.
LeavePause(j) ==
  /\ worker[j] = "held"
  /\ ~paused
  /\ \/ Checkpoint(j, "fetching")
     \/ j \notin cancelFlags /\ Finish(j, "failed")

\* A page that is not the last one is stored, and the loop checks again.
NextPage(j) ==
  /\ worker[j] = "fetching"
  /\ Checkpoint(j, "held")

\* The loop ends: after the last page (an image folder is then complete), on
\* an error, or at the check before a refreshed page list.
LeaveLoop(j) ==
  /\ worker[j] = "fetching"
  /\ \/ Goto(j, "packing")
     \/ Finish(j, "completed")
     \/ Finish(j, "failed")
     \/ j \in cancelFlags /\ Finish(j, "cancelled")

\* finalizeCbz() wrote the archive and verified it, or removed it.
Pack(j) ==
  /\ worker[j] = "packing"
  /\ Finish(j, "completed") \/ Finish(j, "failed")

\* The slot of one ended run is given back; a mutant keeps it.
KeepSlot(s) == active
GiveBack(s) == [active EXCEPT ![s] = @ - 1]

\* The reaction to the end of a run: its slot is free again.
Settle(s) ==
  /\ settling[s] > 0
  /\ settling' = [settling EXCEPT ![s] = @ - 1]
  /\ UNCHANGED <<linked, older, cancelFlags, knobs>>
  /\ Schedule(status, worker, GiveBack(s))

-----------------------------------------------------------------------------
(* Failures                                                                 *)

\* The terminal status cannot be written (disk full): the error leaves
\* _runJob() through its cleanup and the row keeps its status.
FinishUnsaved(j) ==
  /\ "write" \in Faults
  /\ worker[j] \in Live
  /\ worker' = [worker EXCEPT ![j] = "stranded"]
  /\ cancelFlags' = DropFlag(j)
  /\ settling' = [settling EXCEPT ![SourceOf[j]] = @ + 1]
  /\ UNCHANGED <<rows, active, knobs>>

\* _recover(); a mutant leaves interrupted rows as they are.
Unrecovered(j) == status[j]
Recovered(j) == IF status[j] = "downloading" THEN "queued" ELSE status[j]

\* The process dies; the next one runs the constructor: _recover(), then
\* _pruneHistory().  What lived in memory is lost, the pause included.
Restart(old) ==
  /\ "crash" \in Faults
  /\ old \subseteq Prunable
  /\ status' = [j \in Job |-> IF j \in old THEN "absent" ELSE Recovered(j)]
  /\ linked' = linked \ old
  /\ older' = OlderWithout(old)
  /\ worker' = [j \in Job |-> "none"]
  /\ cancelFlags' = {}
  /\ settling' = [s \in Source |-> 0]
  /\ active' = [s \in Source |-> 0]
  /\ paused' = FALSE
  /\ UNCHANGED <<parallelSources, concurrencyPerSource>>

-----------------------------------------------------------------------------

Init ==
  /\ status = [j \in Job |-> "absent"]
  /\ linked = {}
  /\ older = {}
  /\ worker = [j \in Job |-> "none"]
  /\ cancelFlags = {}
  /\ settling = [s \in Source |-> 0]
  /\ active = [s \in Source |-> 0]
  /\ paused = FALSE
  /\ parallelSources \in 1..MaxSlots
  /\ concurrencyPerSource \in 1..MaxSlots

Work(j) ==
  ListPages(j) \/ LeavePause(j) \/ NextPage(j) \/ LeaveLoop(j) \/ Pack(j)

\* What the queue does on its own once it has been asked for rows.
Internal ==
  \/ Tick
  \/ \E s \in Source : Settle(s)
  \/ \E j \in Job : Work(j)

Client ==
  \/ \E batch \in Batches, ref \in EntryRefs : Enqueue(batch, ref)
  \/ \E S \in SUBSET Job : Retry(S) \/ ClearHistory(S)
  \/ \E j \in Job : CancelQueued(j) \/ CancelRunning(j)
  \/ ClearQueue \/ Pause \/ Resume
  \/ \E n \in 1..MaxSlots : SetParallelSources(n) \/ SetConcurrency(n)

Timers == \E S \in SUBSET Job : Sweep(S) \/ PruneHistory(S)

Failures ==
  \/ \E j \in Job : FinishUnsaved(j)
  \/ \E old \in SUBSET Job : Restart(old)

Next == Internal \/ Client \/ Timers \/ Failures

Spec == Init /\ [][Next]_vars

(***************************************************************************)
(* Fairness.  The one-second timer and the promise reactions run; every    *)
(* await of a worker is answered or times out (withTimeout, AbortSignal);  *)
(* a chapter has finitely many pages and a deadline, so a run that keeps   *)
(* coming back to its page loop leaves it.                                 *)
(***************************************************************************)
Fairness ==
  /\ WF_vars(Tick)
  /\ \A s \in Source : WF_vars(Settle(s))
  /\ \A j \in Job : WF_vars(Work(j)) /\ SF_vars(LeaveLoop(j))

FairSpec == Spec /\ Fairness
-----------------------------------------------------------------------------
(* Properties                                                               *)

\* Every variable has its type.
TypeOK ==
  /\ status \in [Job -> Status]
  /\ linked \subseteq With(Status \ {"absent"})
  /\ older \subseteq With(Status \ {"absent"}) \X With(Status \ {"absent"})
  /\ worker \in [Job -> Phase]
  /\ cancelFlags \subseteq Job
  /\ settling \in [Source -> Nat]
  /\ active \in [Source -> Nat]
  /\ paused \in BOOLEAN
  /\ parallelSources \in 1..MaxSlots
  /\ concurrencyPerSource \in 1..MaxSlots

\* The rows a source is downloading.
Runs(s) == {j \in Of(s, Job) : worker[j] \in Live}

\* A row says "downloading" exactly while a run (or what is left of a
\* stranded one) is behind it, and only such a row can carry a cancel flag: a
\* flag that outlives its run would kill the next run of the same row at its
\* first check (finally block of _runJob, queue.ts:682-687).
RunsMatchRows ==
  /\ \A j \in Job : worker[j] = "none" <=> status[j] # "downloading"
  /\ cancelFlags \subseteq With({"downloading"})

\* activePerSource never counts less than the runs of a source and the ended
\* runs that still have to give their slot back, whatever is requeued, started
\* or lost in between; as long as every write succeeds it counts nothing else
\* (queue.ts:101-102, 594-610).
SlotAccounting ==
  \A s \in Source :
    LET held == Cardinality(Runs(s)) + settling[s]
    IN /\ active[s] >= held
       /\ "write" \notin Faults => active[s] = held

\* A step that starts runs leaves their source within concurrencyPerSource,
\* and a source that was idle gets started only while parallelSources sources
\* or fewer download (queue.ts:582-594).  The settings may be lowered under
\* running downloads, so this is about steps, not states.
StartsWithinLimits ==
  \A s \in Source :
    Runs(s)' \ Runs(s) # {} =>
      /\ Cardinality(Runs(s)') <= concurrencyPerSource'
      /\ Runs(s) = {} /\ settling[s] = 0 =>
           Cardinality({t \in Source : Runs(t)' # {}}) <= parallelSources'

WithinLimits == [][StartsWithinLimits]_vars

\* Runs start in id order: no row starts before an older one of its source
\* that stays queued, and no idle source is started before an idle one with
\* an older queued row (ORDER BY in _schedule(), queue.ts:577-593).
StartsInOrder ==
  \A j \in Job : status[j] # "downloading" /\ status'[j] = "downloading" =>
    \A i \in Job : status'[i] = "queued" /\ <<i, j>> \in older' =>
      /\ SourceOf[i] # SourceOf[j]
      /\ \/ active[SourceOf[j]] > 0 \/ active'[SourceOf[i]] > 0
         \/ \E k \in Job : /\ SourceOf[k] = SourceOf[j]
                           /\ status'[k] = "downloading"
                           /\ <<k, i>> \in older'

OldestFirst == [][StartsInOrder]_vars

\* Without failures no slot idles while a row that could use it waits: every
\* handler that frees a slot, adds a row or changes a setting ends with a pass,
\* and a pass leaves no room (queue.ts:577-610).
NoSlotIdles ==
  ~paused =>
    \A s \in Source : QueuedOf(s, status) # {} =>
      \/ active[s] >= concurrencyPerSource
      \/ active[s] = 0 /\ Cardinality(Busy(active)) >= parallelSources

\* Every step is one the row lifecycle of JobLifecycle.tla allows.
Lifecycle == INSTANCE JobLifecycle
ImplementsLifecycle == Lifecycle!Spec

\* A cancel request on a running row is consumed, unless the queue is paused:
\* _waitWhilePaused() does not look at the flag (queue.ts:716-727).
CancelIsHeard == \A j \in Job : j \in cancelFlags ~> (j \notin cancelFlags \/ paused)

\* Once nobody asks for anything any more and the queue is not paused, it runs
\* dry: no row is starved by the others, no slot is lost on the way.
BacklogDrains ==
  <>[][Internal]_vars /\ <>[]~paused => <>[](With({"queued", "downloading"}) = {})
=============================================================================
