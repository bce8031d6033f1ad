# Verification of the tanko server

tanko is a self-hosted manga downloader: one Node process (Fastify) with one
SQLite file that follows series on hundreds of sources, discovers new chapters,
queues and downloads them, and moves a series to another source when its own
fails. This directory holds TLA+ models of the server
(`src/packages/server/src`), the TLC runs that check them on small instances and
theorems that TLAPS proves for every instance.

The process is single-threaded: a callback runs until its next `await`. SQLite
statements are synchronous and each commits on its own; no transaction spans a
handler. So an action of a model is the code between two awaits, and what can go
wrong is what happens *between* callbacks: timers, promise reactions, answers of
the network, requests, the end of the process.

## 1. Inventory

| Component (`server/src`) | State | Operations | What makes it hard | What makes it correct | Here |
|---|---|---|---|---|---|
| Download queue `downloader/queue.ts` | `download_jobs`; `activePerSource`, `cancelFlags`, `paused`, two limits | enqueue, retry, sweep, cancel, clear, dismiss, prune, pause, resume, settings, `_schedule`, `_runJob`, `_recover` | slots are given back in a later promise reaction; writes can be refused; flags race the last checkpoint | rows, runs, flags and slots agree; limits and order hold; backlog drains | `DownloadQueue`, `JobLifecycle` |
| Chapter worker `chapter-download.ts`, `pages.ts`, `archive.ts` | the frame of one run | list, page, pause gate, archive | checkpoints, deadline | ends, hears a cancel | in `DownloadQueue` |
| Output paths, rate limiter | files; per-domain gates | series directory, gate | collisions | one folder per entry | out |
| Download routes `routes/downloads.ts` | none | POST, retry, cancel, clear | two tables written one after the other | chapters follow jobs | `DownloadQueue`, `LibraryChapters` |
| Library chapters `library/chapters.ts` | `library_chapters`, history | check, mark, revert, report, attach, roll back | jobs outlive chapters and entries; ids rotate | a queued chapter has a job; a cancel restores | `LibraryChapters` |
| Library entries `library/store.ts` | `library` | follow, remove, hide, pause, resync | follow awaits the source in the middle | rows go with the entry | `LibraryChapters`, `SourceOutages` (part) |
| Source outages `library/outages.ts` | `source_outages`, failure counters, retry ladder | note, close, escalate, restart the ladder | clocks, flaps, silence; three writers | escalation is earned and stands; suspension ends | `SourceOutages` |
| Failover and migration `library/failover.ts`, `migration.ts` | probe set, cooldowns, suggestions, snapshots | probe, detect, suggest, migrate, confirm, dismiss, roll back | state read before a long crawl and used after it; rows rebuilt one by one | one automatic probe at a time; no file is lost sight of; a way back; failures resume | `SourceMigration` |
| Scheduler `scheduler/scheduler.ts` | `running`, timers, last run | run, check, outage maintenance, backstop, re-check ladder, stale pause, probe pass | one run at a time over many awaits | maintenance in `SourceOutages`, the flights it starts in `SourceMigration` | part |
| Source health `sources/health.ts` | `source_health`, `source_flags`, the set `checking` | sweep, check, probe, hide, show again | passes overlap around the awaits of a probe; ladder and quota | an answer shows its source but for the fault that hits the recording; a due source is probed | `SourceHealth` |
| Disk import `import/*` | `import_jobs`, `import_series`, the run in memory | start, match, choose, confirm, sync, resume, cancel | one slot for every crawl; two awaits per series; cancel, supersede, death | one crawl; no title twice; choices kept; every run ends | `ImportJobs` |
| Background jobs `activity/*` | `running`, `activity` rows | begin, step, finish, cancel, bulk tools | cancel against finish | one crawl at a time | slot in `ImportJobs` |
| Caches `cache/*` | cached listings | get, put, expire | staleness | freshness is not relied on | out |
| Covers `library/covers.ts` | files, generation counter | fetch, generate | cover of a removed entry | | out for now |
| Sources and updates `sources/*`, `routes/sources*` | `vendor/`, its backup and manifest, `sources-overrides.json`, two kv records | sync, roll back, poll, apply; search | a dozen file operations, deaths between them, state on disk and in memory | a sync replaces all or nothing; the published pack is reached | `SourceUpdate`, `SourceCatalogue` (search is stateless) |
| Server shell `index.ts`, `ws.ts`, `db.ts` | wiring | job hooks | order of hooks | hooks in `LibraryChapters`, `SourceOutages` | part |
| Network utilities `util/*` | proxies | plumbing | | | out |
| Notifications, AniList | none | outgoing messages | | | out |
| Connector engine `packages/core` | active directory, the registry of sources | start, load, reload | an interrupted copy is read at the next start | one catalogue; curated sites stay ours | start, loader and registry in `SourceUpdate`, `SourceCatalogue`; connectors external |
| Dashboard, shared types | none | requests | arbitrary clients | | external |

How they interact: routes and the scheduler call `enqueue()`; the queue's
one-second timer starts rows; a run ends in `onJobFinished` (`index.ts`), which
writes the chapter, counts the failure, notes it on the source's outage and may
start a failover probe; an open outage keeps the scheduler and the failover from
migrating; a completed download closes it and restarts the retry ladder; the
five-minute sweep requeues failed rows; a scheduler run checks each followed
entry, marks delisted chapters lost, and maintains outages. `PROJECT.json` lists
the hazards of this traffic line by line with the properties aimed at them.

## 2. Modules and how they correspond to the code

`JobLifecycle` is the promise of the queue about one row: its status moves only
along queued, downloading, completed/failed/cancelled, absent, with the
requeues that are allowed. `DownloadQueue` is shown to implement it and
`LibraryChapters` builds on it (`Queue == INSTANCE JobLifecycle`).

`DownloadQueue`. `status`, `linked` and `older` are the table (`older` is the
order of the AUTOINCREMENT ids); `worker` says at which await the run of a row
stands; `settling` counts runs that ended but whose `finally` reaction has not
given the slot back; `active` is `activePerSource`. One action per method;
`Schedule` is inlined in each operation that calls `_schedule()`, since the code
always calls it there. `Faults` lets the process die at any step and SQLite
refuse the write that starts a run or ends it. Progress columns, events, payloads
and delays are left out: a timer may fire at any time.

`LibraryChapters`. One series: `row` (status and `prev_status`), `job` and
`link` (whether the job's entry id still is the entry's), `entry`, `backup`.
Requests that write jobs, then chapters, go through `Persist`, which may die in
between. `Check` is `checkForNewChapters` followed by auto-download: unknown
ids, rotation of ids (`Takeovers`), listed again, delisted. `Disruptions` names what an instance
lets happen: ad-hoc downloads before the library knows a chapter, removal,
rotation, restarts, death between two writes.

`SourceOutages`. One source: the `source_outages` row, the failed and pending
jobs with `auto_retries`, and the entries that track it. Timestamps are ages
that saturate where the code can no longer tell them apart. `Note` is
`noteSourceFailure` with its three branches; `Maintain` the loop of the
scheduler; `Sweep` both tiers of `sweepFailedJobs`; `Fails` and `Completes` the
hooks of `index.ts`; `Blamed` the failure of a run on another source that is
counted here because its entry has moved here.

`SourceMigration`. One entry and the *flights* that may move it: `flight[a]` says
at which of its two awaits (the crawl of the other sources, the request for the
new listing) the flight of actor `a` stands, and what it read before.
`TryBeginProbe` is the lock and its cooldown; `Suggests`, `Migrates` and
`FindsNone` are the decisions after a crawl; `BeginFetch`, `Commit` and
`FetchFails` are `migrateEntry()` around `rebuildChapters()`; `Resumed` is
`requeueFailedAfterMigration()`; `Rollback` the way back. The rebuild is many
autocommitted statements, so `DiesCommitting` and `DiesRollingBack` leave any
part of it (`torn`).

`ImportJobs`. The rows of jobs and series, the run of each job in memory
(`phase`, `matching`, `todo`, `wanted`, `current`), the slot of the crawl jobs
and the cancel flags. Every worker step between two awaits is an action; `Asks`
is the duplicate guard, which looks before two awaits, and `Adds` the insert
after them. `Dies` and `DiesStarting` end the process, the latter between the
autocommitted inserts of `start()`; the constructor's recovery follows at once.

`SourceUpdate`. The disk (`vendor`, `backup`, `record`), the deployed image and
what the process loaded. The sync is synchronous after its clone, but each file
operation is an action of its own because each may fail (`Fail`, the two nested
`try` blocks) or be cut by a death (`Die`, with `CutShort` for what a copy leaves).
Content is named by the commit or image that wrote it.

`SourceCatalogue`. Which connectors the registry serves (`served`, `shadowed`),
the pack on disk, in memory, in the kv record and in the connectors, and the
update that moves them one after the other.

`SourceHealth`. `row` is `source_health` with deadlines counted in sweep
periods, `hidden` is `source_flags`, `checking` the set of that name; each pass
(`"sweep"`, `"check"`) has its targets and its probes, which await the adapter
and then the site. `Result` is both statements of `_recordResult()`, between which
nothing is awaited; they commit one by one, so a refusal (`Unrecorded`) may hit either
and a death may fall between them (`DiesRecording`).

`MC*` modules give TLC its instances. `*Proofs` modules hold the theorems.
How the modules meet: `SourceOutages` sees a migration as an entry that leaves or
returns; `SourceMigration` repeats the job and chapter steps of `LibraryChapters`,
reduced to what a migration reads or rewrites; a pack of `SourceCatalogue` is
what `SourceHealth` sees as another `listed`; `BulkRun` of `ImportJobs` and the
"bulk" actor of `SourceMigration` are the two sides of one tool.

## 3. Runs

| Run | Instance | Shows |
|---|---|---|
| queue_slots | 2 sources, 3 rows, limits up to 2 | types, limits, id order, no slot idles |
| queue_faults | 1 source, 2 rows, crashes and refused writes | rows, runs and flags agree, no slot under-counted, the row lifecycle |
| queue_liveness | 2 sources sharing 1 slot | cancels are heard, the backlog drains |
| chapters_settled | 2 chapters and a local file, no disruption | queued chapters have a job and are settled |
| chapters_disrupted | 1 chapter and its next id, every disruption | the status a queued chapter remembers and what survives removals, rotations and deaths |
| outages | 2 entries, a job of one and an ad-hoc one, every disruption | escalation, flaps, ladder restart, retries go on, suspension ends |
| migration_flights | 1 chapter, 2 sources, 7 kinds of actors, 2 flights | probes exclude each other, files, failures and a way back survive |
| import_jobs | 2 imports of 2 series with one title, a bulk tool | one crawl, no duplicate, choices kept, every run ends |
| source_update | 3 images, 3 commits, 3 failures | a manifest vouches, one catalogue, all or nothing |
| catalogue_packs | 1 native and 4 legacy connectors, 3 packs, 2 failures | curated sites stay ours, the pack is reached |
| catalogue_reload (violation) | the same, 1 pack is enough | a reload puts legacy connectors aside |
| health_sweeps | 2 sources, quota 1, 1 failure | an answer shows its source but for the fault that hits it, the mark of a probe is real, a due source is probed |

Bounds. Three rows on two sources are the least on which both limits, the order
inside a source and the choice between sources bite at once; two slots are the
least in which one run settles while another starts. A chapter's fate depends on
its own rows and on the chapter that shares its number, so two ids suffice;
`ReidMin` is lowered to 1 so that a rotation happens with one chapter. In
`SourceOutages` the constants keep the order that the real values have where
branches depend on it: a unit is half an hour to an hour, silence (2 h) is shorter than
escalation (3 h), the slow tier (24 h) is longer than silence. One fast retry
stands for ten, since only `retries < RetryMax` is tested; both entries are
needed to open an outage (the code needs three).

Two flights at once are the least that can overlap, and every pair of actors
occurs; one numbered chapter suffices because a rebuild treats each chapter by
itself; two snapshots let an undo follow an undo. `Budget` bounds what users and
deaths add in SourceMigration, ImportJobs, SourceUpdate, SourceCatalogue and
SourceHealth; what the program does by itself is never bounded by it. Two imports
whose series share a title, one asking and one unattended, are the least on which
the guard, the slot and a superseded job meet. Three failures let SourceUpdate
be cut, upgraded and cut again; the third commit is below `MIN_CONNECTORS`, which
is lowered to 2. In SourceHealth a quota of one and one worker make the two sources
compete; the ladder has two rungs, so that climbing, the jump of a dead source and
the cap of a protected one differ; `Late` is 0: overdue sources of the same kind
are taken in any order.

Symmetry is used in queue_slots only, over rows of one source, where no property
is temporal liveness. Deadlock is checked everywhere but in migration_flights, where
a removed series leaves nothing to do.

### Findings

The registry compares the legacy connectors, when a pack is applied without a
restart, with the hosts of *all* adapters and not of the native ones
(`registry.ts:48`), so each clashes with itself and every legacy source with a
usable url vanishes until the next reload or restart (catalogue_reload). The
sweeps of `SourceHealth` then forget those sources (`Gone`).

Other places where the code does not do what one of its comments says. No run checks
them; the models follow the code, and the properties are stated so that
they hold beside them.

- A run flagged by `clearQueue()` after its last checkpoint completes, although
  the comment says it finishes as cancelled (queue.ts:408-410, 671).
- A refused write in `_schedule()` leaves slots taken by no download until
  restart, although the keys are documented as busy sources (queue.ts:101, 594).
- `enqueueSelected()` marks chapters queued whatever `enqueue()` skipped: a
  chapter first downloaded ad hoc, and discovered later, stays queued for ever
  (chapters.ts:387, queue.ts:225-226). chapters_settled therefore leaves ad-hoc
  downloads out.
- Jobs keep the entry id of a removed series; after following it again,
  clearing the queue leaves its chapter queued (queue.ts:410-412). The property
  CancelRestores is about jobs that are linked.
- `hasActiveJobs()` counts failed jobs the sweep never requeues: one of a delisted
  chapter, or of an entry that moved away, keeps the outage of a healthy source open and
  unescalated, and its series are not migrated (queue.ts:344-355,
  scheduler.ts:144). That is the escape `Stranded` of SuspensionEnds.
- An undo that arrives while a migration awaits its listing consumes the snapshot of
  that migration, which "already offers the way back" (migration.ts:45, 53-54,
  144). `EagerUndo = FALSE` leaves that undo out of WayBack.
- `noteSourceFailure` reactivates a closed outage even when `open` is false, while its
  comment says "on open"; `Reopen` models the code.
- The patched connectors are "ALWAYS loaded from the bundled vendor"
  (engine.ts:36-38), but after an upgrade of the image the healed files no longer
  match the manifest of the synced tree and are skipped until a sync; and a sync of the
  same commit does not restart the server, though the log says "resync to fix".
- A truncated write is "never imported" (engine.ts:165-168), but a death in the middle of
  the copy leaves a tree without manifest, which the next start loads
  unchecked, and the backup beside it is not looked at. `ManifestVouches` and
  `LoadedFromOneCommit` are what does hold.
- A choice made while the worker of that very series awaits the sources is
  overwritten, although "confirmed choices are kept" (service.ts:163).
- A superseded job can still be resumed; a series left 'matching' by a cancel is
  matched again only after a restart (service.ts:134-139, 425-431).
- Manual rematches do not take the probe lock the comment of `tryBeginProbe` is about
  (failover.ts:132-134): ProbeExclusion is about automatic probes.
- A request that names a source twice probes it twice at once, because the mark is set
  after an await (health.ts:119-129, 248-249).

## 4. Fairness

Only what the process does by itself is fair, never a client. `DownloadQueue`:
the timer and the promise reactions run; each await of a worker is answered or
times out (`withTimeout`, AbortSignal); a worker leaves its page loop if it
comes back to it for ever, because a chapter has finitely many pages and a
deadline. `LibraryChapters`: each queued row is started and each run ends, which
is what BacklogDrains and the timeouts give. `SourceOutages`: the sweep runs and
downloads end (weak); time passes and the scheduler's maintenance runs (strong:
they are disabled now and then, by a pending job). `FairSpec` of that module also
assumes that downloads are short, time standing still while one is pending or due.
Without it two jobs of the slow tier may take turns pending for ever and
silence never closes the outage; a backlog on a slow source does exactly that, which
is intended, as the jobs are still being tried. The safety properties are proved
of `Spec`, without any such assumption.

`SuspensionEnds` is conditional on nobody asking for anything any more and has
the escape `Stranded`, explained above.

`SourceMigration`: each crawl and each request of a flight ends (they have
timeouts), the scheduler's backstop runs when it is due, cooldowns expire.
`ImportJobs`: every call to a source settles (`withTimeout` of two minutes, the
90 seconds of the legacy bridge, `AbortSignal` in native requests); users, the bulk tool and
deaths are not fair. `SourceCatalogue`: the container is restarted, the daily poll
runs, its request is answered or given up after 30 seconds. PackReached allows
any two failures; three in a certain order (the file deleted, a restart, a refused
kv write) leave the native connectors on the old pack until the next version.
`SourceHealth`: the timer fires, workers go on, every probe is answered or times
out. DueIsProbed speaks of the sources among the first that are due: with a quota
of one and probes that outlast the period a followed series may overtake another
source for ever, which 25 sources per quarter of an hour do not.

## 5. Proofs

All theorems are about `Spec`, for every value of the constants that satisfies
the named assumption of the module (`QueueAssumption`, `ChaptersAssumption`,
`OutagesAssumption`, `MigrationAssumption`, `ImportAssumption`, `ConstantsOK`:
finite sets, positive limits, the shape of the functions). Two of these are more
than shape: no wait of the retry ladder is shorter than the first
(`Delay[0] <= Delay[n]`: half an hour and its doublings, then a day or more), and the
sources `SourceHealth` counts are finitely many. Where a theorem needs less
disturbance than `Next` allows, it says so in its `ASSUME` and the text below says
what goes wrong otherwise.

Every invariant and every action property of the passing runs is a theorem.
Liveness is out of the prover's reach, so for each liveness property its *safety
core* is proved instead: that no step of anybody undoes the progress the property
waits for. What is left to TLC is that fairness then makes the progress happen.

| Liveness, model-checked | Its safety core, proved |
|---|---|
| CancelIsHeard | CancelsBite: a flagged run takes no further page and keeps its flag |
| BacklogDrains | SlotsAreFilled, RunsStartInOrder: a free slot is given, to the oldest |
| QueuedSettles | QueuedChaptersHaveJobs, ChaptersUseTheQueue |
| RetriesGoOn | RetriesAreNotPutOff: a failed job never waits longer; a due one stays due |
| SuspensionEnds | SuspensionsAge: flaps do not restart the clock; a late failure ends it |
| FailingIsProbed | ProbesExclude: `probing` is never left behind by a probe that ended |
| RunsEnd | RunsShrink: a measure that the steps of a run lower and nobody raises |
| PackReached | UpdatesAreNotMissed: "nothing new" is said only when nothing is |
| DueIsProbed | DueSourcesAreTaken, SweepsStayBounded |

*DownloadQueueProofs.* `Inv == TypeOK /\ RunsMatchRows /\ SlotAccounting` is
inductive: the slot counter can only be shown equal to running plus settling
downloads when a row that downloads has exactly one run. Theorems: TypeOK,
RunsMatchRows, SlotAccounting, and `Spec => Lifecycle!Spec`, the refinement, by
mapping each action to a step or a stutter of JobLifecycle. About what a pass of
`_schedule()` starts:

- The limits. WithinLimits holds when no write is refused: a leaked slot makes the
  counters differ from the runs, in the safe direction, but a source whose only
  slots are leaked ones looks busy to the code and idle to the property.
  SlotsBoundRuns says of the counters, for any faults, what WithinLimits says of the
  runs.
- The order. OldestFirst needs `RowOrder` (IdsAreOrdered): the ids order the rows
  strictly and completely, also after deletions. That an idle source with the oldest head is
  admitted first takes a least element of the rows that were passed over, which
  comes from the well-founded order of the numbers of rows older than each
  (`LeastNumber`).
- No slot idles (SlotsAreFilled), if neither "write" nor "crash" is among the
  faults: every operation that frees a slot, adds a row or raises a limit ends in
  a pass, and no pass leaves room. After a restart this is false until the first tick of
  the timer.

*LibraryChaptersProofs.* `Inv` is TypeOK and that only askable chapters were ever
queued (`QueuedWasAskable`); on it rest OriginRemembered, CancelRestores,
SweepSkipsLost and NoneAbandoned, each proved action by action from what one write
does to one row, for any disruptions. OriginRemembered compares `prev_status` with the
status before the step (`Origin`): every update but the listing of a check keeps it
row by row (`Keeps`), a check moves a renamed row as it is. QueuedHasJob is
proved only when `Disruptions \subseteq {"restart"}`; it needs the stronger
`Settled`: every job has its chapter and reports to it, every queued chapter an
active job, every completed job a downloaded chapter, and local rows no job. It is
false otherwise: see the third of the divergences above. ChaptersUseTheQueue
(`Spec => Queue!Spec`) closes the composition: DownloadQueue implements
JobLifecycle, and the jobs of LibraryChapters move only as JobLifecycle allows.

*SourceOutagesProofs.* `Inv == TypeOK /\ EscalationEarned`. EscalationStands
needs the invariant: a row that does not exist is never escalated, so opening
one takes no escalation back. ClosingRestarts needs the typing of the ladder.
RetriesAreNotPutOff follows from `KeepsPlace` (a job that stays failed keeps its rung or
falls to the foot of the ladder) and the assumption on `Delay`.

*SourceMigrationProofs.* `Inv == TypeOK /\ ProbeExclusion`. WayBack needs
`SnapKept`, what a rebuild under way still finds on the stack, and that nobody undoes
during it; with it, `WayHome` is inductive too, so that undoing everything leads
back to the source the series was followed on (UndoLeadsHome). FilesStayVisible needs
`KeptOK`: what a flight recorded before its request covers the files it then saw.
FailuresResume, OldSourceRests and DetectionFresh are properties of one step under
these invariants.

*ImportJobsProofs.* `Inv` adds to TypeOK and RunsHoldSlot where a run may stand
(`Awaiting`). ImportsOnce needs `AsksNew`: a title that passed the guard is not
imported while its run awaits, because only the holder of the slot inserts.
ChoicesKept needs `Claimed`, `Unstarted` and `Confirmations`: which series a
worker may still take. RunsShrink adds `Asked` and `Apart` to these (`EndInv`) and
counts what a run has before it (`Left`): two steps for each series to match, three
for each to sync, and those between the phases.

*SourceUpdateProofs.* `Inv` says, for each step of the sync, what the tree may
look like at that step: without manifest from the first copy on, and the backup whole
until the manifest is written. The three properties follow from it.

*SourceCatalogueProofs.* The legacy connectors offered never clash with the sites
of the pack the native ones were made with; comparing with more hosts, as the
code does, only puts more of them aside (`ClashGrows`). UpdatesAreNotMissed rests
on `FileFollows`, which ties each way in which the file, the recorded version and
the connectors may differ to the failures it takes. It assumes that at most two
failures happen, or that one of death, deletion and refused write never does; with
all three TLC finds a poll that is content with an old pack.

*SourceHealthProofs.* TypeOK is inductive; CheckingIsReal and the action property
AnsweringIsShown follow step by step: no step without a fault adds to `Unseen`, and a
fault adds the source whose statement it hit. SweepsStayBounded counts sets of sources; DueSourcesAreTaken
is about what a sweep takes first and how a source may leave a pass.

Only model-checked: the nine liveness properties of the table. The type invariants
of all modules but DownloadQueue are proved and not listed in a run.

## 6. Limits

- Refused writes are modelled at the start of a run and at its terminal status;
  a refused INSERT of `enqueue()` only fails its request.
- `checkForNewChapters` runs without an await after its listing arrives, so it
  is one action, death in the middle of it left out.
- One series in LibraryChapters, SourceMigration, one source in SourceOutages; migrations
  appear in SourceOutages as an entry that leaves or returns, and not in LibraryChapters.
- SourceMigration: which sources a crawl visits and how titles score is a choice;
  an outage that holds back the backstop is left out (SourceOutages shows that
  it ends), as is the deletion of files by hand. Hiding and pausing the entry, which only
  keep flights from starting, are left out.
- ImportJobs: what a scan finds and how titles score are constants of the instance;
  `autoConfirm` is a constant of each job; following with `force` may create a
  second entry of a title, which ImportsOnce does not cover.
- SourceUpdate: a second failure while it rolls back, and a torn backup, are left out.
- SourceCatalogue: packs are published in order, the load of the registry is one
  step, and an upstream that goes back to an earlier pack is left out.
- SourceHealth: one requested check at a time; waiting for the list of adapters is
  left out.
- `prev_status` is forgotten when a chapter is not queued (the code keeps a
  stale value that nothing reads).
- In SourceOutages a lost chapter counts only as long as it has a job, and
  `failures`, which is only displayed, is left out.
- Titles, languages, files and dates are reduced to what decides a branch.

## 7. Not modelled

- *Dashboard, shared types*: React views over the routes; they enter the models as
  arbitrary requests in any order.
- *Native and vendored connectors, engine shims* (`packages/core`, most of its lines):
  parsers of sites; they enter as answers that arrive, fail or time out. Whether a
  parser fits a site is not a property of this code alone.
- *Caches*: read-through with a time to live; a stale listing is a listing, and
  every model takes any listing.
- *Covers, images, AniList, notifications*: no state another component reads; lost
  messages are not retried.
- *Network utilities* (`util/*`): proxy choice, address filtering, tokens: functions of one request.
- *Output paths, rate limiter*: formatting of paths, whose collisions depend on the file
  system; the gate is a promise chain per domain that only delays.
- *Global search, library statistics, settings routes*: reads, or single writes.
- *Scheduler*: the re-check ladder, the stale pause and the probe pass are
  arithmetic on dates over one entry; its run lock is one flag.

What would come next: the scheduler's re-check ladder composed with
SourceOutages; LibraryChapters and SourceMigration composed over one set of rows.
