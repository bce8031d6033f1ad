---------------------------- MODULE SourceOutages ----------------------------
(***************************************************************************)
(* One source that fails and heals: its row of `source_outages`, the retry *)
(* ladder of its failed jobs and the checks of the entries that track it.  *)
(* Failures of several entries open an outage, which suspends migrations   *)
(* until it is escalated; a success, or silence, closes it and restarts    *)
(* the ladder.                                                             *)
(*                                                                         *)
(* A timestamp is modelled by its age, which stops growing once no         *)
(* comparison of the code can tell it from an older one.                   *)
(***************************************************************************)
EXTENDS Naturals, FiniteSets

CONSTANTS
  Job,             \* rows of download_jobs with this source
  Entry, NoEntry,  \* rows of library, and the entry id of an ad-hoc job
  EntryOf,         \* entry id of each job
  OutageEntries,   \* SOURCE_OUTAGE_ENTRIES
  Window,          \* SOURCE_OUTAGE_WINDOW_MS
  Silence,         \* OUTAGE_SILENCE_MS
  Escalation,      \* OUTAGE_ESCALATION_MS
  RetryMax,        \* AUTO_RETRY_MAX
  RetryCap,        \* retries after which the wait no longer grows
  Delay,           \* wait before each automatic retry, by number of retries
  LongAgo,         \* an age beyond every wait and window
  Disruptions      \* what may disturb the jobs: "hold", "leave", "delist"

ASSUME OutagesAssumption ==
  /\ IsFiniteSet(Entry)
  /\ NoEntry \notin Entry
  /\ EntryOf \in [Job -> Entry \cup {NoEntry}]
  /\ {Window, Silence, Escalation, RetryMax, RetryCap, LongAgo} \subseteq Nat \ {0}
  /\ RetryMax <= RetryCap
  /\ Delay \in [0..RetryCap -> Nat]
  /\ Window < LongAgo /\ Silence < LongAgo
  /\ \A n \in 0..RetryCap : Delay[0] <= Delay[n] /\ Delay[n] < LongAgo
  /\ Disruptions \subseteq {"hold", "leave", "delist"}

VARIABLES
  outage,      \* "none" (no row), "open" or "closed" (closed_at set)
  started,     \* age of started_at
  seen,        \* age of last_seen_at, of an open outage
  closedFor,   \* age of closed_at, of a closed one
  escalated,   \* escalated_at is set
  status,      \* of each job: "none", "pending" (queued or downloading) or "failed"
  retries,     \* auto_retries of each job
  idle,        \* age of updated_at of each failed job
  lost,        \* jobs whose chapter is delisted
  follow,      \* of each entry: "followed", "held" (hidden or paused), or
               \* "gone" (removed, or tracking another source)
  failing      \* entries with check_failures > 0

wave == <<outage, started, seen, closedFor, escalated>>
jobs == <<status, retries, idle, lost>>
entries == <<follow, failing>>
vars == <<wave, jobs, entries>>

Older(age, cap) == IF age < cap THEN age + 1 ELSE age
JobsIn(S) == {j \in Job : status[j] \in S}
JobsOf(e) == {j \in Job : EntryOf[j] = e}
Followed == {e \in Entry : follow[e] = "followed"}
Orphan(j) == EntryOf[j] \in Entry /\ follow[EntryOf[j]] = "gone"

-----------------------------------------------------------------------------
(* The outage row                                                           *)

\* noteSourceFailure() on an open outage.
Refresh ==
  /\ outage = "open"
  /\ escalated' = (escalated \/ started >= Escalation)
  /\ UNCHANGED <<outage, started, closedFor>>

\* ... on a closed one, whatever `open` says: a quick reopen goes on with the
\* earlier wave.  A mutant forgets the escalation, another one the clock.
ReopenFresh ==
  /\ outage = "closed"
  /\ outage' = "open"
  /\ closedFor' = 0
  /\ started' = IF closedFor < Silence THEN started ELSE 0
  /\ escalated' = FALSE
ReopenEscalated ==
  /\ outage = "closed"
  /\ outage' = "open"
  /\ closedFor' = 0
  /\ started' = IF closedFor < Silence THEN started ELSE 0
  /\ escalated' = escalated
Reopen ==
  /\ outage = "closed"
  /\ outage' = "open"
  /\ closedFor' = 0
  /\ started' = IF closedFor < Silence THEN started ELSE 0
  /\ escalated' = (closedFor < Silence /\ escalated)

\* ... and without a row.
Open ==
  /\ outage = "none"
  /\ outage' = "open"
  /\ started' = 0
  /\ escalated' = FALSE
  /\ UNCHANGED closedFor

Note(open) ==
  IF outage = "none" /\ ~open
  THEN UNCHANGED wave
  ELSE /\ seen' = 0
       /\ Refresh \/ Reopen \/ Open

\* closeSourceOutage() of an open outage.
Close ==
  /\ outage' = "closed"
  /\ closedFor' = 0
  /\ seen' = 0
  /\ UNCHANGED <<started, escalated>>

-----------------------------------------------------------------------------
(* The retry ladder                                                         *)

\* The jobs once those of `after` changed status and resetRetryLadder() ran;
\* a mutant restarts the ladder but not the clock.
RestartedKeepingIdle(after) ==
  /\ status' = after
  /\ retries' = [j \in Job |-> IF after[j] = "failed" THEN 0 ELSE retries[j]]
  /\ UNCHANGED idle
Restarted(after) ==
  /\ status' = after
  /\ retries' = [j \in Job |-> IF after[j] = "failed" THEN 0 ELSE retries[j]]
  /\ idle' = [j \in Job |-> IF after[j] = "failed" /\ idle[j] < Delay[0] THEN Delay[0] ELSE idle[j]]

\* hasActiveJobs(): something is left to try, or so it seems; a mutant looks at
\* every failed job.
AnyJob == JobsIn({"pending", "failed"}) # {}
HasActiveJobs ==
  \/ JobsIn({"pending"}) # {}
  \/ \E j \in JobsIn({"failed"}) : retries[j] < RetryMax

\* What the sweep skips: orphans and delisted chapters, and in the slow tier
\* ad-hoc jobs and the entries that are not monitored.
Eligible(j) ==
  /\ ~Orphan(j)
  /\ j \notin lost
  /\ retries[j] < RetryMax \/ EntryOf[j] \in Followed

\* The jobs that have waited long enough; a mutant has no slow tier.
DueFast == {j \in JobsIn({"failed"}) : Eligible(j) /\ retries[j] < RetryMax /\ idle[j] > Delay[retries[j]]}
Due == {j \in JobsIn({"failed"}) : Eligible(j) /\ idle[j] > Delay[retries[j]]}

\* sweepFailedJobs()
Sweep ==
  /\ Due # {}
  /\ status' = [j \in Job |-> IF j \in Due THEN "pending" ELSE status[j]]
  /\ retries' = [j \in Job |-> IF j \in Due THEN Older(retries[j], RetryCap) ELSE retries[j]]
  /\ idle' = [j \in Job |-> IF j \in Due THEN 0 ELSE idle[j]]
  /\ UNCHANGED <<lost, wave, entries>>

\* enqueue(): a request of a user, or of a check that found a chapter.  The
\* failed job of an entry that is gone can still be asked for by its chapter.
Ask(j) ==
  /\ status[j] = "failed" \/ (status[j] = "none" /\ ~Orphan(j))
  /\ status' = [status EXCEPT ![j] = "pending"]
  /\ retries' = [retries EXCEPT ![j] = 0]
  /\ idle' = [idle EXCEPT ![j] = 0]
  /\ lost' = lost \ {j}
  /\ UNCHANGED <<wave, entries>>

\* A job that is cancelled or dismissed.
Drop(j) ==
  /\ status[j] # "none"
  /\ status' = [status EXCEPT ![j] = "none"]
  /\ retries' = [retries EXCEPT ![j] = 0]
  /\ idle' = [idle EXCEPT ![j] = 0]
  /\ lost' = lost \ {j}
  /\ UNCHANGED <<wave, entries>>

-----------------------------------------------------------------------------
(* Downloads that end                                                       *)

\* countRecentSourceFailures(), the jobs of `ended` having just failed.
Recent(ended) ==
  {EntryOf[j] : j \in ended \cup {k \in JobsIn({"failed"}) : idle[k] < Window}} \ {NoEntry}
NoteInfra(ended) == Note(Cardinality(Recent(ended)) >= OutageEntries)

\* A run fails; the infrastructure failure of an entry counts against the
\* source the entry tracks now.
Fails(j, infra) ==
  /\ status[j] = "pending"
  /\ status' = [status EXCEPT ![j] = "failed"]
  /\ idle' = [idle EXCEPT ![j] = 0]
  /\ UNCHANGED <<retries, lost, entries>>
  /\ IF infra /\ EntryOf[j] \in Entry /\ ~Orphan(j) THEN NoteInfra({j}) ELSE UNCHANGED wave

\* ... even when the run was on the source it tracked before.
Blamed(e) ==
  /\ "leave" \in Disruptions
  /\ follow[e] # "gone"
  /\ NoteInfra({})
  /\ UNCHANGED <<jobs, entries>>

\* A run succeeds; one that belongs to an entry heals the source.
Completes(j) ==
  LET after == [status EXCEPT ![j] = "none"]
  IN /\ status[j] = "pending"
     /\ lost' = lost \ {j}
     /\ IF EntryOf[j] # NoEntry /\ outage = "open"
        THEN Close /\ Restarted(after)
        ELSE status' = after /\ UNCHANGED <<retries, idle, wave>>
     /\ UNCHANGED entries

-----------------------------------------------------------------------------
(* The scheduler                                                            *)

\* Chapters a check may delist: those whose status is 'failed', which only a
\* request makes 'queued'.
Delistable(e) == {j \in JobsOf(e) : status[j] = "failed" \/ (status[j] = "pending" /\ retries[j] > 0)}

\* A check that lists usable chapters; S are the delisted ones among them.
CheckSucceeds(e, S) ==
  /\ follow[e] # "gone"
  /\ S \subseteq Delistable(e) \cup (lost \cap JobsOf(e))
  /\ S \subseteq lost \/ "delist" \in Disruptions
  /\ failing' = failing \ {e}
  /\ lost' = (lost \ JobsOf(e)) \cup S
  /\ UNCHANGED <<wave, status, retries, idle, follow>>

\* A check that throws, or that finds no usable chapter.  It counts against the
\* source it was started on, which the entry may have left meanwhile.
CheckFails(e, thrown) ==
  /\ failing' = IF follow[e] = "gone" THEN failing ELSE failing \cup {e}
  /\ Note(thrown /\ Cardinality(failing' \cap Followed) >= OutageEntries)
  /\ UNCHANGED <<jobs, follow>>

\* The outage maintenance of a scheduled run.
Maintain ==
  /\ outage = "open"
  /\ \/ /\ seen > Silence
        /\ ~HasActiveJobs
        /\ Close
        /\ Restarted(status)
        /\ UNCHANGED lost
     \/ /\ seen <= Silence
        /\ escalated' = (escalated \/ started >= Escalation)
        /\ UNCHANGED <<outage, started, seen, closedFor, jobs>>
  /\ UNCHANGED entries

-----------------------------------------------------------------------------
(* Entries and time                                                         *)

\* setHidden(), setPaused()
Hold(e) ==
  /\ "hold" \in Disruptions
  /\ follow[e] # "gone"
  /\ follow' = [follow EXCEPT ![e] = IF @ = "held" THEN "followed" ELSE "held"]
  /\ UNCHANGED <<wave, jobs, failing>>

\* migrateEntry() and rollbackMigration() forget the failed checks.
CheckedAnew(e) == failing \ {e}

\* The entry is removed and its jobs stay, or it migrates to another source and
\* its failed and waiting jobs may be deleted.
Leave(e, purged) ==
  /\ "leave" \in Disruptions
  /\ follow[e] # "gone"
  /\ purged \subseteq JobsOf(e) \cap JobsIn({"pending", "failed"})
  /\ purged # {} => JobsOf(e) \cap JobsIn({"failed"}) \subseteq purged
  /\ follow' = [follow EXCEPT ![e] = "gone"]
  /\ failing' = CheckedAnew(e)
  /\ status' = [j \in Job |-> IF j \in purged THEN "none" ELSE status[j]]
  /\ retries' = [j \in Job |-> IF j \in purged THEN 0 ELSE retries[j]]
  /\ idle' = [j \in Job |-> IF j \in purged THEN 0 ELSE idle[j]]
  /\ lost' = lost \ JobsOf(e)
  /\ UNCHANGED wave

\* A migration is undone: rollbackMigration().  The chapters are again as they
\* were, the jobs are not.
Return(e, S) ==
  /\ follow[e] = "gone"
  /\ S \subseteq JobsOf(e) \cap JobsIn({"pending", "failed"})
  /\ S # {} => "delist" \in Disruptions
  /\ \E f \in {"followed", "held"} :
       /\ f = "held" => "hold" \in Disruptions
       /\ follow' = [follow EXCEPT ![e] = f]
  /\ failing' = CheckedAnew(e)
  /\ lost' = lost \cup S
  /\ UNCHANGED <<wave, status, retries, idle>>

Tick ==
  /\ started' = IF outage = "none" THEN started ELSE Older(started, Escalation)
  /\ seen' = IF outage = "open" THEN Older(seen, LongAgo) ELSE seen
  /\ closedFor' = IF outage = "closed" THEN Older(closedFor, Silence) ELSE closedFor
  /\ idle' = [j \in Job |-> IF status[j] = "failed" THEN Older(idle[j], LongAgo) ELSE idle[j]]
  /\ UNCHANGED <<outage, escalated, status, retries, lost, entries>>

-----------------------------------------------------------------------------
Init ==
  /\ outage = "none" /\ started = 0 /\ seen = 0 /\ closedFor = 0 /\ escalated = FALSE
  /\ status = [j \in Job |-> "none"]
  /\ retries = [j \in Job |-> 0]
  /\ idle = [j \in Job |-> 0]
  /\ lost = {}
  /\ follow = [e \in Entry |-> "followed"]
  /\ failing = {}

Requested ==
  \/ \E j \in Job : Ask(j) \/ Drop(j)
  \/ \E e \in Entry : Hold(e) \/ \E S \in SUBSET Job : Leave(e, S) \/ Return(e, S)

Unattended ==
  \/ Sweep
  \/ Maintain
  \/ Tick
  \/ \E j \in Job : Completes(j) \/ \E infra \in BOOLEAN : Fails(j, infra)
  \/ \E e \in Entry : \/ Blamed(e)
                      \/ \E S \in SUBSET Job : CheckSucceeds(e, S)
                      \/ \E thrown \in BOOLEAN : CheckFails(e, thrown)

Next == Requested \/ Unattended

Spec == Init /\ [][Next]_vars

\* Downloads are short: while one is waiting, running or due, time stands still.
TickBetween == JobsIn({"pending"}) = {} /\ Due = {} /\ Tick

\* Time passes, the sweep runs and every download ends.  The scheduler runs
\* often enough to fall between two attempts of the slow tier.
FairSpec ==
  /\ Init
  /\ [][Next /\ (Tick => TickBetween)]_vars
  /\ SF_vars(TickBetween)
  /\ WF_vars(Sweep)
  /\ SF_vars(Maintain)
  /\ \A j \in Job : WF_vars(Completes(j) \/ \E infra \in BOOLEAN : Fails(j, infra))

-----------------------------------------------------------------------------
(* Properties                                                               *)

WaveOK ==
  /\ outage \in {"none", "open", "closed"}
  /\ started \in 0..Escalation /\ seen \in 0..LongAgo /\ closedFor \in 0..Silence
  /\ escalated \in BOOLEAN

\* What is lost has a job, which the sweep must therefore skip.
JobsOK ==
  /\ status \in [Job -> {"none", "pending", "failed"}]
  /\ retries \in [Job -> 0..RetryCap]
  /\ idle \in [Job -> 0..LongAgo]
  /\ lost \subseteq JobsIn({"pending", "failed"})

EntriesOK ==
  /\ follow \in [Entry -> {"followed", "held", "gone"}]
  /\ failing \subseteq {e \in Entry : follow[e] # "gone"}

\* Every variable has its type, and neither a delisted chapter outlives its job
\* nor a failed check the entry's move to another source.
TypeOK == WaveOK /\ JobsOK /\ EntriesOK

\* Migrations are allowed again only by an outage that has lasted long enough
\* (failover.ts:86-89), however often it was closed and reopened.
EscalationEarned == escalated => outage # "none" /\ started >= Escalation

\* An escalation is only taken back by a failure after a long recovery
\* (outages.ts:71-77), never within a wave.
KeepsEscalation == escalated /\ ~escalated' => outage = "closed" /\ closedFor >= Silence
EscalationStands == [][KeepsEscalation]_vars

\* Whoever closes the outage, no failed job is left in a slot it earned while
\* the source was sick (queue.ts:357-360).
RestartsLadder ==
  outage = "open" /\ outage' = "closed" =>
    \A j \in Job : status'[j] = "failed" => retries'[j] = 0 /\ idle'[j] >= Delay[0]
ClosingRestarts == [][RestartsLadder]_vars

\* Failed jobs are not abandoned (queue.ts:60-66): a job stays failed only as
\* long as the sweep skips it.
RetriesGoOn ==
  \A j \in Job : (status[j] = "failed" /\ Eligible(j)) ~> (status[j] # "failed" \/ ~Eligible(j))

\* A failed job on the fast ladder that the sweep nevertheless skips.
Stranded == \E j \in JobsIn({"failed"}) : retries[j] < RetryMax /\ ~Eligible(j)

\* An outage suspends migrations for a while only: it escalates or ends, unless
\* somebody keeps asking or a job is stranded.
Suspended == outage = "open" /\ ~escalated
LeftAlone == <>[][Unattended]_vars
SuspensionEnds == LeftAlone => (Suspended ~> ~Suspended \/ Stranded)
=============================================================================
