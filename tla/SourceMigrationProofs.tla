------------------------ MODULE SourceMigrationProofs ------------------------
(***************************************************************************)
(* Proofs about SourceMigration, for any sources, chapters and bounds.     *)
(***************************************************************************)
EXTENDS SourceMigration, SequenceTheorems, TLAPS

\* What a flight that awaits its listing can count on.
SnapKept == Fetching # {} /\ alive => snaps # <<>>

\* The inductive invariants.
Inv == TypeOK /\ ProbeExclusion
UndoInv == Inv /\ WayBack /\ SnapKept

-----------------------------------------------------------------------------
(* What the operators keep                                                  *)

LEMMA IdleType == Idle \in FlightType
BY DEF Idle, FlightType

LEMMA NoRowsType == NoRows \in RowType
BY DEF NoRows, RowType

LEMMA RebuiltType ==
  ASSUME NEW kept, NEW listed, NEW found
  PROVE  Rebuilt(kept, listed, found) \in RowType
BY DEF Rebuilt, RowType

LEMMA PartType ==
  ASSUME NEW rows \in RowType, NEW part \in Part(rows)
  PROVE  part \in RowType
BY DEF Part, RowType

LEMMA JobTypes ==
  ASSUME NEW j \in JobType, NEW t, NEW S
  PROVE  Purged(j) \in JobType /\ Enqueued(j, t, S) \in JobType
BY DEF Purged, Enqueued, JobType, Stale

LEMMA CrawlKeeps ==
  ASSUME EntryOK, FlightsOK, NEW a \in Actor,
         flight' = [flight EXCEPT ![a] = Crawling]
  PROVE  flight' \in [Actor -> FlightType]
<1>1. Crawling \in FlightType
  BY DEF EntryOK, Crawling, FlightType
<1> QED
  BY <1>1 DEF FlightsOK

LEMMA EndKeeps ==
  ASSUME FlightsOK, JobsOK, ProbeExclusion, NEW a \in Actor, End(a),
         flight[a].at # "idle"
  PROVE  /\ FlightsOK' /\ ProbeExclusion'
         /\ failing' \in BOOLEAN /\ (~failing => ~failing')
<1>1. flight' \in [Actor -> FlightType]
  BY IdleType DEF End, FlightsOK
<1>2. InFlight' = InFlight \ {a}
  BY <1>1 DEF End, FlightsOK, InFlight, Idle
<1>3. a \in InFlight
  BY DEF InFlight
<1>4. ProbeExclusion'
  <2>1. CASE a \in Lockers
    <3>1. InFlight' \cap Lockers = {}
      BY <1>2, <1>3, <2>1 DEF ProbeExclusion
    <3>2. ~probing'
      BY <2>1 DEF End
    <3> QED
      BY <3>1, <3>2 DEF ProbeExclusion, Lockers
  <2>2. CASE a \notin Lockers
    <3>1. InFlight' \cap Lockers = InFlight \cap Lockers
      BY <1>2, <2>2
    <3>2. probing' = probing
      BY <2>2 DEF End, FlightsOK
    <3> QED
      BY <3>1, <3>2 DEF ProbeExclusion, Lockers
  <2> QED
    BY <2>1, <2>2
<1> QED
  BY <1>1, <1>4 DEF End, FlightsOK, JobsOK

LEMMA TryKeeps ==
  ASSUME EntryOK, FlightsOK, ProbeExclusion, NEW a \in Actor, TryBeginProbe(a), a \in Lockers
  PROVE  FlightsOK' /\ ProbeExclusion'
<1>1. flight' \in [Actor -> FlightType]
  BY CrawlKeeps DEF TryBeginProbe
<1>2. InFlight' = InFlight \cup {a}
  BY <1>1 DEF TryBeginProbe, FlightsOK, InFlight, Crawling
<1>3. InFlight \cap Lockers = {}
  BY DEF TryBeginProbe, ProbeExclusion
<1> QED
  BY <1>1, <1>2, <1>3 DEF TryBeginProbe, FlightsOK, ProbeExclusion, Lockers

\* A flight that starts without the lock, or goes on to its fetch.
LEMMA MovesKeeps ==
  ASSUME FlightsOK, ProbeExclusion, NEW a \in Actor, NEW f \in FlightType,
         flight' = [flight EXCEPT ![a] = f], f.at # "idle",
         a \notin Lockers \/ flight[a].at # "idle",
         UNCHANGED lock
  PROVE  FlightsOK' /\ ProbeExclusion'
<1>1. flight' \in [Actor -> FlightType]
  BY DEF FlightsOK
<1>2. InFlight' \cap Lockers = InFlight \cap Lockers
  BY <1>1 DEF FlightsOK, InFlight
<1> QED
  BY <1>1, <1>2 DEF lock, FlightsOK, ProbeExclusion, Lockers

LEMMA SameFlights ==
  ASSUME FlightsOK, ProbeExclusion, UNCHANGED <<lock, flight>>
  PROVE  FlightsOK' /\ ProbeExclusion'
BY DEF FlightsOK, ProbeExclusion, InFlight, lock

LEMMA LeftKeeps ==
  ASSUME left \in 0..Budget, Spend \/ UNCHANGED left
  PROVE  left' \in 0..Budget
BY MigrationAssumption DEF Spend

LEMMA RestartedKeeps ==
  ASSUME JobsOK, Restarted
  PROVE  FlightsOK' /\ ProbeExclusion' /\ JobsOK' /\ failing' = failing
<1>1. flight' \in [Actor -> FlightType]
  BY IdleType DEF Restarted
<1>2. InFlight' = {}
  BY DEF Restarted, InFlight, Idle
<1>3. job' \in JobType
  BY DEF Restarted, JobsOK, JobType
<1> QED
  BY <1>1, <1>2, <1>3 DEF Restarted, FlightsOK, ProbeExclusion, JobsOK, Lockers

LEMMA CarriedType == ASSUME JobsOK PROVE Carried \subseteq Chapter
BY MigrationAssumption DEF Carried

LEMMA FetchKeeps ==
  ASSUME TypeOK, ProbeExclusion, NEW a \in Actor, NEW t \in Source, alive,
         a \notin Lockers \/ flight[a].at # "idle", BeginFetch(a, t)
  PROVE  EntryOK' /\ JobsOK' /\ FlightsOK' /\ ProbeExclusion' /\ NothingLeft'
<1> DEFINE f == [at |-> "fetch", from |-> src, to |-> t, kept |-> Carried, files |-> disk]
           snap == [src |-> src, row |-> row, torn |-> torn]
<1>1. f \in FlightType /\ f.at # "idle"
  BY CarriedType, MigrationAssumption DEF TypeOK, EntryOK, JobsOK, FlightType
<1>2. snap \in SnapType
  BY DEF TypeOK, EntryOK, SnapType
<1>3. snaps' \in Seq(SnapType)
  BY <1>2 DEF BeginFetch, TypeOK, EntryOK
<1>4. flight' = [flight EXCEPT ![a] = f] /\ UNCHANGED lock
  BY DEF BeginFetch
<1>5. FlightsOK' /\ ProbeExclusion'
  <2> HIDE DEF f
  <2> QED
    BY <1>1, <1>4, MovesKeeps DEF TypeOK
<1>6. EntryOK' /\ NothingLeft'
  BY <1>3 DEF BeginFetch, TypeOK, EntryOK, NothingLeft
<1>7. JobsOK'
  BY DEF BeginFetch, TypeOK, JobsOK, downloads
<1> QED
  BY <1>5, <1>6, <1>7

-----------------------------------------------------------------------------
(* Each step keeps the invariant                                            *)

LEMMA InitKeeps == Init => Inv
<1> SUFFICES ASSUME Init PROVE Inv
  OBVIOUS
<1>1. FlightsOK
  BY IdleType DEF Init, FlightsOK
<1>2. InFlight = {}
  BY DEF Init, InFlight, Idle
<1>3. ProbeExclusion
  BY <1>2 DEF Init, ProbeExclusion, Lockers
<1>4. row \in RowType /\ job \in JobType
  BY DEF Init, RowType, JobType
<1>5. snaps \in Seq(SnapType) /\ disk \subseteq Chapter
  BY DEF Init
<1>6. EntryOK /\ JobsOK
  BY <1>4, <1>5, MigrationAssumption, Zenon DEF Init, EntryOK, JobsOK
<1>7. left \in 0..Budget /\ NothingLeft
  BY MigrationAssumption DEF Init, NothingLeft
<1> QED
  BY <1>1, <1>3, <1>6, <1>7 DEF Inv, TypeOK

\* Steps of the flights that leave the entry alone.
LEMMA SameEntry ==
  ASSUME EntryOK, UNCHANGED entry
  PROVE  EntryOK'
BY DEF EntryOK, entry

LEMMA SameJobs ==
  ASSUME JobsOK, UNCHANGED downloads
  PROVE  JobsOK'
BY DEF JobsOK, downloads

LEMMA CheckKeeps == ASSUME Inv, StartCheck \/ StartBackstop PROVE Inv'
<1>1. PICK a \in Actor \cap Lockers : TryBeginProbe(a)
  BY DEF StartCheck, StartBackstop, MayLeave, Lockers
<1>2. FlightsOK' /\ ProbeExclusion'
  BY <1>1, TryKeeps DEF Inv, TypeOK
<1>3. UNCHANGED <<entry, downloads, left>>
  BY DEF StartCheck, StartBackstop
<1>4. EntryOK' /\ JobsOK' /\ left' \in 0..Budget
  BY <1>3, SameEntry, SameJobs, LeftKeeps DEF Inv, TypeOK
<1>5. NothingLeft'
  BY <1>3 DEF Inv, TypeOK, NothingLeft, entry, downloads, NoRows
<1> QED
  BY <1>2, <1>4, <1>5 DEF Inv, TypeOK

LEMMA CrawlingKeeps ==
  ASSUME Inv, StartDetect \/ \E a \in Actor : StartRematch(a) PROVE Inv'
<1>1. PICK a \in Actor \ Lockers : Crawl(a)
  BY DEF StartDetect, StartRematch, MayLeave, Lockers
<1>2. Crawling \in FlightType /\ Crawling.at # "idle"
  BY DEF Inv, TypeOK, EntryOK, Crawling, FlightType
<1>3. FlightsOK' /\ ProbeExclusion'
  BY <1>1, <1>2, MovesKeeps DEF Inv, TypeOK, Crawl
<1>4. UNCHANGED <<entry, downloads>> /\ (Spend \/ UNCHANGED left)
  BY DEF StartDetect, StartRematch
<1>5. EntryOK' /\ JobsOK' /\ left' \in 0..Budget
  BY <1>4, SameEntry, SameJobs, LeftKeeps DEF Inv, TypeOK
<1>6. NothingLeft'
  BY <1>4 DEF Inv, TypeOK, NothingLeft, entry, downloads, NoRows
<1> QED
  BY <1>3, <1>5, <1>6 DEF Inv, TypeOK

LEMMA RequestKeeps == ASSUME Inv, NEW t \in Source, Request(t) PROVE Inv'
<1>1. "request" \in Actor /\ alive /\ BeginFetch("request", t) /\ Spend
  BY DEF Request, MayLeave
<1>2. EntryOK' /\ JobsOK' /\ FlightsOK' /\ ProbeExclusion' /\ NothingLeft'
  BY <1>1, FetchKeeps DEF Inv, Lockers
<1> QED
  BY <1>1, <1>2, LeftKeeps DEF Inv, TypeOK

\* A flight that ends and leaves the entry alone.
LEMMA EmptyHandedKeeps ==
  ASSUME Inv, NEW a \in Actor, flight[a].at # "idle", End(a), UNCHANGED <<entry, job, disk, left>>
  PROVE  Inv'
<1>1. FlightsOK' /\ ProbeExclusion' /\ failing' \in BOOLEAN /\ (~failing => ~failing')
  BY EndKeeps DEF Inv, TypeOK
<1>2. EntryOK' /\ left' \in 0..Budget
  BY SameEntry, LeftKeeps DEF Inv, TypeOK
<1>3. JobsOK'
  BY <1>1 DEF Inv, TypeOK, JobsOK
<1>4. NothingLeft'
  BY <1>1 DEF Inv, TypeOK, NothingLeft, entry, NoRows
<1> QED
  BY <1>1, <1>2, <1>3, <1>4 DEF Inv, TypeOK

LEMMA SuggestsKeeps ==
  ASSUME Inv, NEW a \in Actor, NEW t \in Source, Suggests(a, t) PROVE Inv'
<1>1. FlightsOK' /\ ProbeExclusion' /\ failing' \in BOOLEAN /\ (~failing => ~failing')
  BY EndKeeps DEF Inv, TypeOK, Suggests
<1>2. EntryOK' /\ left' \in 0..Budget
  BY DEF Inv, TypeOK, EntryOK, Suggests
<1>3. JobsOK'
  BY <1>1 DEF Inv, TypeOK, JobsOK, Suggests
<1>4. NothingLeft'
  BY <1>1 DEF Inv, TypeOK, NothingLeft, Suggests, NoRows
<1> QED
  BY <1>1, <1>2, <1>3, <1>4 DEF Inv, TypeOK

LEMMA MigratesKeeps ==
  ASSUME Inv, NEW a \in Actor, NEW t \in Source, Migrates(a, t) PROVE Inv'
<1>1. EntryOK' /\ JobsOK' /\ FlightsOK' /\ ProbeExclusion' /\ NothingLeft'
  BY FetchKeeps DEF Inv, Migrates
<1> QED
  BY <1>1 DEF Inv, TypeOK, Migrates

LEMMA CommitKeeps ==
  ASSUME Inv, NEW a \in Actor, NEW listed \in SUBSET Chapter, NEW found \in SUBSET Chapter,
         Commit(a, listed, found)
  PROVE  Inv'
<1> DEFINE rows == Rebuilt(flight[a].kept, listed, found)
<1>1. FlightsOK' /\ ProbeExclusion' /\ failing' \in BOOLEAN
  BY EndKeeps DEF Inv, TypeOK, Commit
<1>2. rows \in RowType
  BY RebuiltType
<1>3. job' \in JobType /\ row' \in RowType
  <2>1. CASE a \in Requeuers
    <3>1. Resumed(flight[a].to, rows)
      BY <2>1 DEF Commit
    <3>2. flight[a].to = src' /\ JobsOK
      BY DEF Commit, Moved, Inv, TypeOK
    <3> QED
      BY <1>2, <3>1, <3>2, JobTypes DEF Resumed, JobsOK, RowType
  <2>2. CASE a \notin Requeuers
    BY <1>2, <2>2 DEF Commit, Inv, TypeOK, JobsOK
  <2> QED
    BY <2>1, <2>2
<1>4. flight[a].to \in Source
  BY DEF Inv, TypeOK, FlightsOK, FlightType, Commit
<1>5. EntryOK'
  BY <1>3, <1>4 DEF Commit, Moved, Inv, TypeOK, EntryOK
<1>6. JobsOK'
  BY <1>1, <1>3 DEF Commit, Inv, TypeOK, JobsOK
<1>7. left' \in 0..Budget /\ NothingLeft'
  BY DEF Commit, Inv, TypeOK, EntryOK, NothingLeft
<1> QED
  BY <1>1, <1>5, <1>6, <1>7 DEF Inv, TypeOK

LEMMA ConflictKeeps == ASSUME Inv, NEW a \in Actor, Conflict(a) PROVE Inv'
<1>1. FlightsOK' /\ ProbeExclusion' /\ failing' \in BOOLEAN
  BY EndKeeps DEF Inv, TypeOK, Conflict
<1>2. EntryOK' /\ left' \in 0..Budget
  BY NoRowsType DEF Inv, TypeOK, EntryOK, Conflict
<1>3. JobsOK' /\ NothingLeft'
  BY <1>1 DEF Inv, TypeOK, EntryOK, JobsOK, NothingLeft, Conflict
<1> QED
  BY <1>1, <1>2, <1>3 DEF Inv, TypeOK

LEMMA FlightKeeps == ASSUME Inv, NEW a \in Actor, Flies(a) PROVE Inv'
<1>1. CASE FindsNone(a)
  BY <1>1, EmptyHandedKeeps DEF FindsNone
<1>2. CASE FetchFails(a)
  BY <1>2, EmptyHandedKeeps DEF FetchFails
<1>3. CASE Void(a)
  BY <1>3, EmptyHandedKeeps DEF Void
<1>4. CASE Conflict(a)
  BY <1>4, ConflictKeeps
<1>5. CASE \E t \in Source : Suggests(a, t) \/ Migrates(a, t)
  BY <1>5, SuggestsKeeps, MigratesKeeps
<1>6. CASE \E listed, found \in SUBSET Chapter : Commit(a, listed, found)
  BY <1>6, CommitKeeps
<1> QED
  BY <1>1, <1>2, <1>3, <1>4, <1>5, <1>6 DEF Flies, Crawls, Fetches

LEMMA TopType ==
  ASSUME EntryOK, snaps # <<>>
  PROVE  Top \in SnapType /\ Below \in Seq(SnapType)
BY DEF EntryOK, Top, Below

\* A death keeps the jobs and ends the flights; the entry is another matter.
LEMMA DeathKeeps ==
  ASSUME Inv, Restarted, Spend, EntryOK', UNCHANGED alive, alive \/ UNCHANGED entry
  PROVE  Inv'
<1>1. FlightsOK' /\ ProbeExclusion' /\ JobsOK' /\ failing' = failing
  BY RestartedKeeps DEF Inv, TypeOK
<1>2. NothingLeft'
  BY <1>1 DEF Inv, TypeOK, EntryOK, NothingLeft, entry, NoRows
<1> QED
  BY <1>1, <1>2, LeftKeeps DEF Inv, TypeOK

LEMMA DiesKeeps == ASSUME Inv, Dies PROVE Inv'
<1>1. CASE Restart
  BY <1>1, SameEntry, DeathKeeps DEF Restart, Inv, TypeOK, entry
<1>2. CASE DiesRollingBack
  <2>1. Top \in SnapType /\ Top.src \in Source /\ Top.row \in RowType
    BY <1>2, TopType DEF DiesRollingBack, MayRollback, Inv, TypeOK, SnapType
  <2>2. row' \in RowType
    BY <1>2, <2>1, PartType DEF DiesRollingBack, Inv, TypeOK, EntryOK
  <2>3. EntryOK'
    BY <1>2, <2>1, <2>2 DEF DiesRollingBack, Moved, Inv, TypeOK, EntryOK
  <2> QED
    BY <1>2, <2>3, DeathKeeps DEF DiesRollingBack, MayRollback
<1>3. ASSUME NEW a \in Actor, NEW listed \in SUBSET Chapter, DiesCommitting(a, listed)
      PROVE  Inv'
  <2>1. row' \in RowType
    BY <1>3, NoRowsType, RebuiltType, PartType DEF DiesCommitting
  <2>2. flight[a].to \in Source
    BY <1>3 DEF Inv, TypeOK, FlightsOK, FlightType, DiesCommitting
  <2>3. EntryOK'
    BY <1>3, <2>1, <2>2 DEF DiesCommitting, Moved, Inv, TypeOK, EntryOK
  <2> QED
    BY <1>3, <2>3, DeathKeeps DEF DiesCommitting
<1> QED
  BY <1>1, <1>2, <1>3 DEF Dies

LEMMA RollbackKeeps == ASSUME Inv, Rollback PROVE Inv'
<1>1. Top \in SnapType /\ Below \in Seq(SnapType)
  BY TopType DEF Rollback, MayRollback, Inv, TypeOK
<1>2. Top.src \in Source /\ Top.row \in RowType /\ Top.torn \in BOOLEAN
  BY <1>1 DEF SnapType
<1>3. EntryOK'
  BY <1>1, <1>2 DEF Rollback, Moved, Inv, TypeOK, EntryOK
<1>4. JobsOK' /\ FlightsOK' /\ ProbeExclusion' /\ left' \in 0..Budget
  BY SameJobs, SameFlights, LeftKeeps DEF Rollback, Inv, TypeOK
<1>5. NothingLeft'
  BY DEF Rollback, MayRollback, NothingLeft
<1> QED
  BY <1>3, <1>4, <1>5 DEF Inv, TypeOK

LEMMA DismissKeeps == ASSUME Inv, Dismiss PROVE Inv'
<1>1. EntryOK'
  BY DEF Dismiss, Inv, TypeOK, EntryOK
<1>2. JobsOK' /\ FlightsOK' /\ ProbeExclusion' /\ left' \in 0..Budget
  BY SameJobs, SameFlights, LeftKeeps DEF Dismiss, Inv, TypeOK
<1>3. NothingLeft'
  BY DEF Dismiss, Inv, TypeOK, NothingLeft
<1> QED
  BY <1>1, <1>2, <1>3 DEF Inv, TypeOK

LEMMA RemoveKeeps == ASSUME Inv, Remove PROVE Inv'
<1>1. EntryOK'
  <2>1. row' \in RowType /\ src' \in Source
    BY NoRowsType DEF Remove, Inv, TypeOK, EntryOK
  <2>2. snaps' \in Seq(SnapType)
    BY DEF Remove
  <2> QED
    BY <2>1, <2>2, Zenon DEF Remove, EntryOK
<1>2. JobsOK'
  <2>1. disk' \subseteq Chapter
    BY DEF Remove, Inv, TypeOK, JobsOK
  <2> QED
    BY <2>1 DEF Remove, Inv, TypeOK, JobsOK
<1>3. FlightsOK' /\ ProbeExclusion' /\ left' \in 0..Budget
  BY SameFlights, LeftKeeps DEF Remove, Inv, TypeOK
<1>4. NothingLeft'
  BY DEF Remove, NothingLeft, NoRows
<1> QED
  BY <1>1, <1>2, <1>3, <1>4 DEF Inv, TypeOK

LEMMA CooldownKeeps == ASSUME Inv, CooldownOver PROVE Inv'
<1>1. EntryOK' /\ JobsOK' /\ left' \in 0..Budget
  BY SameEntry, SameJobs DEF CooldownOver, Inv, TypeOK
<1>2. FlightsOK' /\ ProbeExclusion'
  BY DEF CooldownOver, Inv, TypeOK, FlightsOK, ProbeExclusion, InFlight
<1>3. NothingLeft'
  BY DEF CooldownOver, Inv, TypeOK, NothingLeft, entry, downloads, NoRows
<1> QED
  BY <1>1, <1>2, <1>3 DEF Inv, TypeOK

\* What a download may change of the entry is the state of one row.
LEMMA RowKeeps ==
  ASSUME Inv, UNCHANGED <<alive, src, torn, sugg, dismissed, snaps>>,
         row' \in RowType, alive \/ UNCHANGED <<row>>, job' \in JobType, disk' \subseteq Chapter,
         failing' = failing \/ failing' = alive, FlightsOK', ProbeExclusion',
         Spend \/ UNCHANGED left
  PROVE  Inv'
<1>1. EntryOK' /\ JobsOK'
  BY DEF Inv, TypeOK, EntryOK, JobsOK
<1>2. NothingLeft'
  BY DEF Inv, TypeOK, EntryOK, NothingLeft, NoRows
<1> QED
  BY <1>1, <1>2, LeftKeeps DEF Inv, TypeOK

LEMMA AskKeeps == ASSUME Inv, NEW c \in Chapter, Ask(c) PROVE Inv'
<1>1. job' \in JobType /\ row' \in RowType /\ disk' \subseteq Chapter
  BY JobTypes DEF Ask, Inv, TypeOK, EntryOK, JobsOK, RowType
<1>2. FlightsOK' /\ ProbeExclusion'
  BY SameFlights DEF Ask, Inv, TypeOK
<1> QED
  BY <1>1, <1>2, RowKeeps DEF Ask

LEMMA DownloadsKeeps ==
  ASSUME Inv, NEW s \in Source, NEW c \in Chapter, Downloads(s, c) PROVE Inv'
<1>1. row \in RowType /\ job \in JobType /\ disk \subseteq Chapter
  BY DEF Inv, TypeOK, EntryOK, JobsOK
<1>2. ASSUME NEW byUser \in BOOLEAN, Retry(s, c, byUser) PROVE Inv'
  <2>1. job' \in JobType /\ row' \in RowType /\ disk' \subseteq Chapter
    BY <1>1, <1>2 DEF Retry, Requested, JobType, RowType
  <2>2. FlightsOK' /\ ProbeExclusion'
    BY <1>2, SameFlights DEF Retry, Inv, TypeOK
  <2> QED
    BY <1>2, <2>1, <2>2, RowKeeps DEF Retry, Retriable
<1>3. CASE Run(s, c)
  <2>1. job' \in JobType /\ row' \in RowType /\ disk' \subseteq Chapter
    BY <1>1, <1>3 DEF Run, JobType, entry
  <2>2. FlightsOK' /\ ProbeExclusion'
    BY <1>3, SameFlights DEF Run, Inv, TypeOK
  <2> QED
    BY <1>3, <2>1, <2>2, RowKeeps DEF Run, entry
<1>4. CASE Succeeds(s, c)
  <2>1. job' \in JobType /\ row' \in RowType /\ disk' \subseteq Chapter
    BY <1>1, <1>4 DEF Succeeds, JobType, RowType
  <2>2. FlightsOK' /\ ProbeExclusion'
    BY <1>4, SameFlights DEF Succeeds, Inv, TypeOK
  <2> QED
    BY <1>4, <2>1, <2>2, RowKeeps DEF Succeeds, Reports
<1>5. CASE Cancel(s, c)
  <2>1. job' \in JobType /\ row' \in RowType /\ disk' \subseteq Chapter
    BY <1>1, <1>5 DEF Cancel, JobType, RowType
  <2>2. FlightsOK' /\ ProbeExclusion'
    BY <1>5, SameFlights DEF Cancel, Inv, TypeOK
  <2> QED
    BY <1>5, <2>1, <2>2, RowKeeps DEF Cancel, Reports
<1>6. ASSUME NEW probe \in BOOLEAN, Fails(s, c, probe) PROVE Inv'
  <2>1. job' \in JobType /\ row' \in RowType /\ disk' \subseteq Chapter
    BY <1>1, <1>6 DEF Fails, JobType, RowType
  <2>2. FlightsOK' /\ ProbeExclusion'
    <3>1. CASE "immediate" \in Actor /\ TryBeginProbe("immediate")
      BY <3>1, TryKeeps DEF Inv, TypeOK, Lockers
    <3>2. CASE UNCHANGED <<lock, flight>>
      BY <3>2, SameFlights DEF Inv, TypeOK
    <3> QED
      BY <1>6, <3>1, <3>2 DEF Fails, MayLeave
  <2> QED
    BY <1>6, <2>1, <2>2, RowKeeps DEF Fails, Reports
<1> QED
  BY <1>2, <1>3, <1>4, <1>5, <1>6 DEF Downloads, Settles

LEMMA NextKeeps == ASSUME Inv, [Next]_vars PROVE Inv'
<1>1. CASE Departs
  BY <1>1, CheckKeeps, CrawlingKeeps, RequestKeeps DEF Departs
<1>2. CASE \E a \in Actor : Flies(a)
  BY <1>2, FlightKeeps
<1>3. CASE Dies
  BY <1>3, DiesKeeps
<1>4. CASE Rollback \/ Dismiss \/ Remove \/ CooldownOver
  BY <1>4, RollbackKeeps, DismissKeeps, RemoveKeeps, CooldownKeeps
<1>5. CASE \E c \in Chapter : Ask(c)
  BY <1>5, AskKeeps
<1>6. CASE \E s \in Source, c \in Chapter : Downloads(s, c)
  BY <1>6, DownloadsKeeps
<1>7. CASE UNCHANGED vars
  <2>1. EntryOK' /\ JobsOK' /\ FlightsOK' /\ ProbeExclusion' /\ left' \in 0..Budget
    BY <1>7, SameEntry, SameJobs, SameFlights DEF vars, Inv, TypeOK
  <2>2. NothingLeft'
    BY <1>7 DEF vars, entry, downloads, Inv, TypeOK, NothingLeft, NoRows
  <2> QED
    BY <2>1, <2>2 DEF Inv, TypeOK
<1> QED
  BY <1>1, <1>2, <1>3, <1>4, <1>5, <1>6, <1>7 DEF Next

\* The conjunction that every step keeps.
THEOREM MigrationInvariant == Spec => []Inv
<1>1. Init => Inv
  BY InitKeeps
<1>2. Inv /\ [Next]_vars => Inv'
  BY NextKeeps
<1> QED
  BY <1>1, <1>2, PTL DEF Spec

\* The entry, its jobs and its flights keep their types, and a removed entry
\* leaves nothing, whatever flies when it is removed.
THEOREM MigrationTypeCorrect == Spec => []TypeOK
<1>1. Inv => TypeOK
  BY DEF Inv
<1> QED
  BY <1>1, MigrationInvariant, PTL

\* The automatic probes exclude each other, and none leaves its mark behind.
THEOREM ProbesExclude == Spec => []ProbeExclusion
<1>1. Inv => ProbeExclusion
  BY DEF Inv
<1> QED
  BY <1>1, MigrationInvariant, PTL

-----------------------------------------------------------------------------
(* The way back                                                             *)

\* The bottom of a stack, when something is put on top of it or taken off.
LEMMA BottomOfAppend ==
  ASSUME NEW S, NEW s \in Seq(S), NEW x \in S
  PROVE  Append(s, x) # <<>> /\ Append(s, x)[1] = IF s = <<>> THEN x ELSE s[1]
<1>1. Append(s, x) \in Seq(S) /\ Len(Append(s, x)) = Len(s) + 1 /\ Len(s) \in Nat
  OBVIOUS
<1>2. Append(s, x) # <<>>
  BY <1>1, EmptySeq
<1>3. CASE s = <<>>
  <2>1. Append(s, x) = <<x>>
    BY <1>3
  <2> QED
    BY <1>2, <1>3, <2>1
<1>4. CASE s # <<>>
  <2>1. Len(s) \in Nat \ {0}
    BY <1>4, EmptySeq
  <2>2. \A n \in Nat \ {0} : 1 \in 1..n
    OBVIOUS
  <2>3. Append(s, x)[1] = s[1]
    BY <2>1, <2>2
  <2> QED
    BY <1>2, <1>4, <2>3
<1> QED
  BY <1>3, <1>4

LEMMA BottomOfRest ==
  ASSUME NEW S, NEW s \in Seq(S), s # <<>>, Len(s) # 1
  PROVE  SubSeq(s, 1, Len(s) - 1) # <<>> /\ SubSeq(s, 1, Len(s) - 1)[1] = s[1]
<1>1. Len(s) \in Nat \ {0}
  BY EmptySeq
<1>2. Len(s) \in Nat \ {0, 1}
  BY <1>1, Zenon
<1>3. \A n \in Nat \ {0, 1} : n \in Nat /\ n >= 2
  OBVIOUS
<1>4. Len(s) \in Nat /\ Len(s) >= 2
  BY <1>2, <1>3, Zenon
<1>5. /\ SubSeq(s, 1, Len(s) - 1) \in Seq(S)
      /\ Len(SubSeq(s, 1, Len(s) - 1)) = Len(s) - 1 /\ SubSeq(s, 1, Len(s) - 1)[1] = s[1]
  BY <1>4
<1>6. Len(s) - 1 # 0
  BY <1>4
<1>7. Len(<<>>) = 0
  BY EmptySeq
<1> QED
  BY <1>5, <1>6, <1>7, Zenon

\* Steps that take no snapshot, restore none and cut no rows short.
LEMMA StackKept ==
  ASSUME WayBack, SnapKept, UNCHANGED snaps, torn' => torn \/ snaps # <<>>,
         Fetching' \subseteq Fetching \/ snaps # <<>>, alive' => alive
  PROVE  WayBack' /\ SnapKept'
BY DEF WayBack, SnapKept

LEMMA PushKept ==
  ASSUME Inv, WayBack, SnapKept, NEW a \in Actor, NEW t \in Source, BeginFetch(a, t)
  PROVE  WayBack' /\ SnapKept'
<1> DEFINE snap == [src |-> src, row |-> row, torn |-> torn]
<1>1. snaps \in Seq(SnapType) /\ snap \in SnapType
  BY DEF Inv, TypeOK, EntryOK, SnapType
<1>2. snaps' = Append(snaps, snap) /\ torn' = torn /\ snap.torn = torn
  BY DEF BeginFetch
<1>3. snaps' # <<>> /\ snaps'[1] = IF snaps = <<>> THEN snap ELSE snaps[1]
  <2> HIDE DEF snap
  <2> QED
    BY <1>1, <1>2, BottomOfAppend
<1>4. ~snaps'[1].torn
  BY <1>2, <1>3 DEF WayBack
<1> QED
  BY <1>3, <1>4 DEF WayBack, SnapKept

LEMMA PopKept ==
  ASSUME Inv, WayBack, ~EagerUndo, Rollback
  PROVE  WayBack' /\ SnapKept'
<1>1. snaps \in Seq(SnapType) /\ snaps # <<>> /\ Fetching = {}
  BY DEF Inv, TypeOK, EntryOK, Rollback, MayRollback
<1>2. snaps' = Below /\ torn' = Top.torn /\ Fetching' = Fetching
  BY DEF Rollback, Fetching
<1>3. CASE Len(snaps) = 1
  <2>1. Top = snaps[1]
    BY <1>3 DEF Top
  <2>2. Below = <<>>
    BY <1>1, <1>3 DEF Below
  <2> QED
    BY <1>1, <1>2, <2>1, <2>2 DEF WayBack, SnapKept
<1>4. CASE Len(snaps) # 1
  <2>1. Below # <<>> /\ Below[1] = snaps[1]
    BY <1>1, <1>4, BottomOfRest DEF Below
  <2>2. ~Below[1].torn
    BY <1>1, <2>1, Zenon DEF WayBack
  <2> QED
    BY <1>2, <2>1, <2>2, Zenon DEF WayBack, SnapKept
<1> QED
  BY <1>3, <1>4

LEMMA EndsFetch ==
  ASSUME FlightsOK, NEW a \in Actor, End(a)
  PROVE  Fetching' \subseteq Fetching
BY DEF FlightsOK, End, Fetching, Idle

LEMMA CrawlsOn ==
  ASSUME FlightsOK, NEW a \in Actor, flight' = [flight EXCEPT ![a] = Crawling]
  PROVE  Fetching' \subseteq Fetching
BY DEF FlightsOK, Fetching, Crawling

LEMMA DeathStops ==
  ASSUME Restarted PROVE Fetching' = {}
BY DEF Restarted, Fetching, Idle

LEMMA FlightUndo ==
  ASSUME UndoInv, NEW a \in Actor, Flies(a) PROVE WayBack' /\ SnapKept'
<1> USE DEF UndoInv
<1>1. FlightsOK
  BY DEF Inv, TypeOK
<1>2. CASE FindsNone(a) \/ FetchFails(a) \/ Void(a)
  BY <1>1, <1>2, EndsFetch, StackKept DEF FindsNone, FetchFails, Void, entry
<1>3. CASE Conflict(a)
  <2>1. snaps # <<>>
    BY <1>3 DEF SnapKept, Conflict, Fetching
  <2> QED
    BY <1>1, <1>3, <2>1, EndsFetch, StackKept DEF Conflict
<1>4. ASSUME NEW t \in Source, Suggests(a, t) PROVE WayBack' /\ SnapKept'
  BY <1>1, <1>4, EndsFetch, StackKept DEF Suggests
<1>5. ASSUME NEW t \in Source, Migrates(a, t) PROVE WayBack' /\ SnapKept'
  BY <1>5, PushKept DEF Migrates
<1>6. ASSUME NEW listed \in SUBSET Chapter, NEW found \in SUBSET Chapter, Commit(a, listed, found)
      PROVE  WayBack' /\ SnapKept'
  BY <1>1, <1>6, EndsFetch, StackKept DEF Commit
<1> QED
  BY <1>2, <1>3, <1>4, <1>5, <1>6 DEF Flies, Crawls, Fetches

LEMMA DeathUndo == ASSUME UndoInv, Dies PROVE WayBack' /\ SnapKept'
<1> USE DEF UndoInv
<1>1. CASE Restart
  BY <1>1, DeathStops, StackKept DEF Restart, entry
<1>2. CASE DiesRollingBack
  BY <1>2, DeathStops, StackKept DEF DiesRollingBack, MayRollback
<1>3. ASSUME NEW a \in Actor, NEW listed \in SUBSET Chapter, DiesCommitting(a, listed)
      PROVE  WayBack' /\ SnapKept'
  <2>1. snaps # <<>>
    BY <1>3 DEF SnapKept, DiesCommitting, Fetching
  <2> QED
    BY <1>3, <2>1, DeathStops, StackKept DEF DiesCommitting
<1> QED
  BY <1>1, <1>2, <1>3 DEF Dies

LEMMA DepartsUndo == ASSUME UndoInv, Departs PROVE WayBack' /\ SnapKept'
<1> USE DEF UndoInv
<1>1. FlightsOK
  BY DEF Inv, TypeOK
<1>2. CASE StartCheck \/ StartBackstop
  <2>1. PICK a \in Actor : TryBeginProbe(a)
    BY <1>2 DEF StartCheck, StartBackstop, MayLeave
  <2>2. Fetching' \subseteq Fetching
    BY <1>1, <2>1, CrawlsOn DEF TryBeginProbe
  <2> QED
    BY <1>2, <2>2, StackKept DEF StartCheck, StartBackstop, entry
<1>3. CASE StartDetect \/ \E a \in Actor : StartRematch(a)
  <2>1. PICK a \in Actor : Crawl(a)
    BY <1>3 DEF StartDetect, StartRematch, MayLeave
  <2>2. Fetching' \subseteq Fetching
    BY <1>1, <2>1, CrawlsOn DEF Crawl
  <2> QED
    BY <1>3, <2>2, StackKept DEF StartDetect, StartRematch, entry
<1>4. ASSUME NEW t \in Source, Request(t) PROVE WayBack' /\ SnapKept'
  BY <1>4, PushKept DEF Request, MayLeave
<1> QED
  BY <1>2, <1>3, <1>4 DEF Departs

LEMMA DownloadsUndo ==
  ASSUME UndoInv, NEW s \in Source, NEW c \in Chapter, Downloads(s, c)
  PROVE  WayBack' /\ SnapKept'
<1>1. UNCHANGED <<alive, torn, snaps>>
  BY DEF Downloads, Settles, Retry, Run, Succeeds, Cancel, Fails, entry
<1>2. CASE UNCHANGED flight
  BY <1>1, <1>2, StackKept DEF UndoInv, Fetching
<1>3. CASE "immediate" \in Actor /\ TryBeginProbe("immediate")
  BY <1>1, <1>3, CrawlsOn, StackKept DEF UndoInv, Inv, TypeOK, TryBeginProbe
<1> QED
  BY <1>2, <1>3 DEF Downloads, Settles, Retry, Run, Succeeds, Cancel, Fails, MayLeave

LEMMA NextUndo ==
  ASSUME ~EagerUndo, UndoInv, [Next]_vars PROVE WayBack' /\ SnapKept'
<1>1. CASE Departs \/ Dies
  BY <1>1, DepartsUndo, DeathUndo
<1>2. CASE \E a \in Actor : Flies(a)
  BY <1>2, FlightUndo
<1>3. CASE Rollback
  BY <1>3, PopKept DEF UndoInv
<1>4. CASE Dismiss \/ CooldownOver \/ UNCHANGED vars
  BY <1>4, StackKept DEF Dismiss, CooldownOver, vars, entry, UndoInv, Fetching
<1>5. CASE Remove
  BY <1>5 DEF Remove, WayBack, SnapKept
<1>6. CASE \E c \in Chapter : Ask(c)
  BY <1>6, StackKept DEF Ask, UndoInv, Fetching
<1>7. CASE \E s \in Source, c \in Chapter : Downloads(s, c)
  BY <1>7, DownloadsUndo
<1> QED
  BY <1>1, <1>2, <1>3, <1>4, <1>5, <1>6, <1>7 DEF Next

\* While nobody rolls back under a rebuild that is awaited, rows cut short by a
\* death or a refused write have a complete snapshot to come back to.
THEOREM RowsHaveWayBack == ASSUME ~EagerUndo PROVE Spec => []WayBack
<1>1. Init => UndoInv
  BY InitKeeps DEF Init, UndoInv, WayBack, SnapKept, Fetching, Idle
<1>2. UndoInv /\ [Next]_vars => UndoInv'
  BY NextKeeps, NextUndo DEF UndoInv
<1>3. UndoInv => WayBack
  BY DEF UndoInv
<1> QED
  BY <1>1, <1>2, <1>3, PTL DEF Spec

-----------------------------------------------------------------------------
(* The way home                                                             *)

\* The oldest snapshot is of the source the series was followed on, and an
\* entry without snapshots has never left it.
WayHome == alive => IF snaps = <<>> THEN src = Home ELSE snaps[1].src = Home

\* Steps that leave the stack alone, and the source too while it is empty.
LEMMA HomeKept ==
  ASSUME WayHome, UNCHANGED snaps, src' = src \/ snaps # <<>>, alive' => alive
  PROVE  WayHome'
BY DEF WayHome

LEMMA PushHome ==
  ASSUME Inv, WayHome, alive, NEW a \in Actor, NEW t \in Source, BeginFetch(a, t)
  PROVE  WayHome'
<1> DEFINE snap == [src |-> src, row |-> row, torn |-> torn]
<1>1. snaps \in Seq(SnapType) /\ snap \in SnapType
  BY DEF Inv, TypeOK, EntryOK, SnapType
<1>2. snaps' = Append(snaps, snap) /\ snap.src = src /\ alive' = alive
  BY DEF BeginFetch
<1>3. snaps' # <<>> /\ snaps'[1] = IF snaps = <<>> THEN snap ELSE snaps[1]
  <2> HIDE DEF snap
  <2> QED
    BY <1>1, <1>2, BottomOfAppend
<1>4. snaps'[1].src = Home
  BY <1>2, <1>3 DEF WayHome
<1> QED
  BY <1>3, <1>4 DEF WayHome

LEMMA PopHome ==
  ASSUME Inv, WayHome, Rollback
  PROVE  WayHome'
<1>1. snaps \in Seq(SnapType) /\ snaps # <<>> /\ alive
  BY DEF Inv, TypeOK, EntryOK, Rollback, MayRollback
<1>2. snaps' = Below /\ src' = Top.src /\ snaps[1].src = Home
  BY <1>1 DEF Rollback, Moved, WayHome
<1>3. CASE Len(snaps) = 1
  <2>1. Top = snaps[1]
    BY <1>3 DEF Top
  <2>2. Below = <<>>
    BY <1>1, <1>3 DEF Below
  <2> QED
    BY <1>2, <2>1, <2>2 DEF WayHome
<1>4. CASE Len(snaps) # 1
  <2>1. Below # <<>> /\ Below[1] = snaps[1]
    BY <1>1, <1>4, BottomOfRest DEF Below
  <2> QED
    BY <1>2, <2>1, Zenon DEF WayHome
<1> QED
  BY <1>3, <1>4

LEMMA FlightHome ==
  ASSUME UndoInv, WayHome, NEW a \in Actor, Flies(a) PROVE WayHome'
<1> USE DEF UndoInv
<1>1. CASE FindsNone(a) \/ FetchFails(a) \/ Void(a) \/ Conflict(a)
  BY <1>1, HomeKept DEF FindsNone, FetchFails, Void, Conflict, entry
<1>2. ASSUME NEW t \in Source, Suggests(a, t) PROVE WayHome'
  BY <1>2, HomeKept DEF Suggests
<1>3. ASSUME NEW t \in Source, Migrates(a, t) PROVE WayHome'
  BY <1>3, PushHome DEF Migrates
<1>4. ASSUME NEW listed \in SUBSET Chapter, NEW found \in SUBSET Chapter, Commit(a, listed, found)
      PROVE  WayHome'
  <2>1. snaps # <<>>
    BY <1>4 DEF SnapKept, Commit, Fetching
  <2> QED
    BY <1>4, <2>1, HomeKept DEF Commit
<1> QED
  BY <1>1, <1>2, <1>3, <1>4 DEF Flies, Crawls, Fetches

LEMMA DeathHome == ASSUME UndoInv, WayHome, Dies PROVE WayHome'
<1> USE DEF UndoInv
<1>1. CASE Restart
  BY <1>1, HomeKept DEF Restart, entry
<1>2. CASE DiesRollingBack
  BY <1>2, HomeKept DEF DiesRollingBack, MayRollback
<1>3. ASSUME NEW a \in Actor, NEW listed \in SUBSET Chapter, DiesCommitting(a, listed)
      PROVE  WayHome'
  <2>1. snaps # <<>>
    BY <1>3 DEF SnapKept, DiesCommitting, Fetching
  <2> QED
    BY <1>3, <2>1, HomeKept DEF DiesCommitting
<1> QED
  BY <1>1, <1>2, <1>3 DEF Dies

LEMMA DepartsHome == ASSUME UndoInv, WayHome, Departs PROVE WayHome'
<1>1. CASE StartCheck \/ StartBackstop \/ StartDetect \/ \E a \in Actor : StartRematch(a)
  BY <1>1, HomeKept DEF StartCheck, StartBackstop, StartDetect, StartRematch, entry
<1>2. ASSUME NEW t \in Source, Request(t) PROVE WayHome'
  BY <1>2, PushHome DEF UndoInv, Request, MayLeave
<1> QED
  BY <1>1, <1>2 DEF Departs

LEMMA NextHome ==
  ASSUME UndoInv, WayHome, [Next]_vars PROVE WayHome'
<1>1. CASE Departs \/ Dies
  BY <1>1, DepartsHome, DeathHome
<1>2. CASE \E a \in Actor : Flies(a)
  BY <1>2, FlightHome
<1>3. CASE Rollback
  BY <1>3, PopHome DEF UndoInv
<1>4. CASE Dismiss \/ CooldownOver \/ UNCHANGED vars
  BY <1>4, HomeKept DEF Dismiss, CooldownOver, vars, entry
<1>5. CASE Remove
  BY <1>5 DEF Remove, WayHome
<1>6. CASE \E c \in Chapter : Ask(c)
  BY <1>6, HomeKept DEF Ask
<1>7. ASSUME NEW s \in Source, NEW c \in Chapter, Downloads(s, c) PROVE WayHome'
  BY <1>7, HomeKept DEF Downloads, Settles, Retry, Run, Succeeds, Cancel, Fails, entry
<1> QED
  BY <1>1, <1>2, <1>3, <1>4, <1>5, <1>6, <1>7 DEF Next

\* However often the series moves, alone or by hand, and whatever dies on the
\* way, undoing it all leads back to the source it was followed on
\* (migration.ts:35-45, 200-228), while nobody rolls back under a rebuild that
\* is awaited: that rebuild has lost its snapshot when it commits.
THEOREM UndoLeadsHome == ASSUME ~EagerUndo PROVE Spec => []WayHome
<1>1. Init => UndoInv /\ WayHome
  BY InitKeeps DEF Init, UndoInv, WayBack, SnapKept, Fetching, Idle, WayHome
<1>2. UndoInv /\ WayHome /\ [Next]_vars => (UndoInv /\ WayHome)'
  BY NextKeeps, NextUndo, NextHome DEF UndoInv
<1> QED
  BY <1>1, <1>2, PTL DEF Spec

-----------------------------------------------------------------------------
(* What the steps may never do                                              *)

\* Everything numbered that was in the folder when the listing was asked for.
KeptOK == \A a \in Fetching : Numbered \cap flight[a].files \subseteq flight[a].kept

LEMMA KeptKeeps == ASSUME Inv, KeptOK, [Next]_vars PROVE KeptOK'
<1>1. FlightsOK
  BY DEF Inv, TypeOK
<1>2. ASSUME NEW a \in Actor, End(a) \/ flight' = [flight EXCEPT ![a] = Crawling]
      PROVE  KeptOK'
  BY <1>1, <1>2 DEF End, KeptOK, FlightsOK, Fetching, Idle, Crawling
<1>3. ASSUME NEW a \in Actor, NEW t \in Source, BeginFetch(a, t)
      PROVE  KeptOK'
  BY <1>1, <1>3 DEF BeginFetch, KeptOK, FlightsOK, Fetching, Carried
<1>4. CASE Restarted
  BY <1>4 DEF Restarted, KeptOK, Fetching, Idle
<1>5. CASE UNCHANGED flight
  BY <1>5 DEF KeptOK, Fetching
<1>6. CASE Departs
  BY <1>2, <1>3, <1>6 DEF Departs, StartCheck, StartBackstop, StartDetect, StartRematch, Request,
     TryBeginProbe, Crawl, MayLeave
<1>7. CASE \E a \in Actor : Flies(a)
  BY <1>2, <1>3, <1>7 DEF Flies, Crawls, Fetches, FindsNone, Suggests, Migrates, FetchFails, Conflict, Void, Commit
<1>8. CASE Dies
  BY <1>4, <1>5, <1>8 DEF Dies, Restart, DiesRollingBack, DiesCommitting
<1>9. CASE \E s \in Source, c \in Chapter : Downloads(s, c)
  BY <1>2, <1>5, <1>9 DEF Downloads, Settles, Retry, Run, Succeeds, Cancel, Fails, TryBeginProbe, MayLeave
<1> QED
  BY <1>5, <1>6, <1>7, <1>8, <1>9 DEF Next, Rollback, Dismiss, Remove, Ask, CooldownOver, vars

\* A rebuild hides no numbered file that was in the folder when it asked for
\* the new listing, whatever the rows said.
THEOREM FilesAreCarried == Spec => FilesStayVisible
<1> DEFINE P == \A a \in Actor : Commits(a) =>
                  \A c \in Numbered \cap flight[a].files : row'[c] \in Shown
<1>1. Init => KeptOK
  BY DEF Init, KeptOK, Fetching, Idle
<1>2. Inv /\ KeptOK /\ [Next]_vars => KeptOK'
  BY KeptKeeps
<1>3. Inv /\ KeptOK => P
  <2> SUFFICES ASSUME Inv, KeptOK, NEW a \in Actor, Commits(a), NEW c \in Numbered \cap flight[a].files
               PROVE  row'[c] \in Shown
    OBVIOUS
  <2>1. PICK listed \in SUBSET Chapter, found \in SUBSET Chapter : Commit(a, listed, found)
    BY DEF Commits
  <2> DEFINE rows == Rebuilt(flight[a].kept, listed, found)
  <2>2. c \in Chapter /\ c \in flight[a].kept
    BY MigrationAssumption DEF KeptOK, Commits, Fetching
  <2>3. rows[c] \in Shown
    BY <2>2 DEF Rebuilt, Shown
  <2>4. row' = rows \/ row' = [d \in Chapter |-> IF d \in Resumable(rows) THEN "queued" ELSE rows[d]]
    BY <2>1 DEF Commit, Resumed
  <2>5. c \notin Resumable(rows)
    BY <2>3 DEF Resumable, Shown
  <2> QED
    BY <2>2, <2>3, <2>4, <2>5
<1>4. Spec => [][P]_vars
  BY <1>1, <1>2, <1>3, MigrationInvariant, PTL DEF Spec
<1> QED
  BY <1>4, PTL DEF FilesStayVisible

\* A rebuild leaves the chapters that failed with a job on the new source, and
\* no job waiting on another one.
THEOREM FailedChaptersResume == Spec => FailuresResume
<1> DEFINE P(a) == Commits(a) /\ Failures # {} =>
             /\ \A s \in Source \ {src'}, c \in Chapter : job'[<<s, c>>] \notin Stale
             /\ \A c \in Failures : row'[c] \notin Shown \cup {"absent"} => job'[<<src', c>>] \notin {"none", "failed"}
<1>1. ASSUME Inv, NEW a \in Actor \cap Requeuers PROVE P(a)
  <2> SUFFICES ASSUME Commits(a), Failures # {}
               PROVE  /\ \A s \in Source \ {src'}, c \in Chapter : job'[<<s, c>>] \notin Stale
                      /\ \A c \in Failures : row'[c] \notin Shown \cup {"absent"} => job'[<<src', c>>] \notin {"none", "failed"}
    OBVIOUS
  <2>1. PICK listed \in SUBSET Chapter, found \in SUBSET Chapter : Commit(a, listed, found)
    BY DEF Commits
  <2> DEFINE rows == Rebuilt(flight[a].kept, listed, found)
  <2>2. src' = flight[a].to /\ src' \in Source
    BY <1>1, <2>1 DEF Commit, Moved, Inv, TypeOK, FlightsOK, FlightType
  <2>3. /\ job' = Enqueued(Purged(job), src', Resumable(rows))
        /\ row' = [c \in Chapter |-> IF c \in Resumable(rows) THEN "queued" ELSE rows[c]]
    BY <2>1, <2>2 DEF Commit, Resumed
  <2>4. job \in JobType
    BY <1>1 DEF Inv, TypeOK, JobsOK
  <2>5. ASSUME NEW s \in Source \ {src'}, NEW c \in Chapter PROVE job'[<<s, c>>] \notin Stale
    <3>1. job'[<<s, c>>] = Purged(job)[<<s, c>>]
      BY <2>3 DEF Enqueued
    <3> QED
      BY <2>4, <3>1 DEF Purged, Stale
  <2>6. ASSUME NEW c \in Failures, row'[c] \notin Shown \cup {"absent"}
        PROVE  job'[<<src', c>>] \notin {"none", "failed"}
    <3>1. c \in Chapter
      BY MigrationAssumption DEF Failures
    <3>2. c \in Resumable(rows)
      BY <2>3, <2>6, <3>1 DEF Resumable
    <3>3. Purged(job)[<<src', c>>] \notin {"failed"}
      BY <2>2, <3>1 DEF Purged, Stale
    <3> QED
      BY <2>2, <2>3, <3>1, <3>2, <3>3 DEF Enqueued
  <2> QED
    BY <2>5, <2>6
<1>2. Inv => \A a \in Actor \cap Requeuers : P(a)
  BY <1>1
<1>3. Spec => [][\A a \in Actor \cap Requeuers : P(a)]_vars
  BY <1>2, MigrationInvariant, PTL
<1> QED
  BY <1>3, PTL DEF FailuresResume

\* No job of a source that is not, or will not be, the one of the entry is
\* ever put back in the queue.
THEOREM OldSourcesRest == Spec => OldSourceRests
<1> DEFINE P == \A s \in Source, c \in Chapter :
                  job[<<s, c>>] = "failed" /\ job'[<<s, c>>] = "queued" => s = src'
<1>1. ASSUME Inv, [Next]_vars PROVE P
  <2> SUFFICES ASSUME NEW s \in Source, NEW c \in Chapter,
                      job[<<s, c>>] = "failed", job'[<<s, c>>] = "queued"
               PROVE  s = src'
    OBVIOUS
  <2>1. job \in JobType
    BY <1>1 DEF Inv, TypeOK, JobsOK
  <2>2. job' # job
    OBVIOUS
  <2>3. CASE Restarted
    BY <2>3 DEF Restarted
  <2>4. ASSUME NEW d \in Chapter, Ask(d) PROVE s = src'
    BY <2>4 DEF Ask, Enqueued
  <2>5. ASSUME NEW a \in Actor, Flies(a) PROVE s = src'
    <3>1. PICK listed \in SUBSET Chapter, found \in SUBSET Chapter : Commit(a, listed, found)
      BY <2>2, <2>5 DEF Flies, Crawls, Fetches, FindsNone, Suggests, Migrates, BeginFetch, downloads,
         FetchFails, Conflict, Void
    <3>2. PICK S : job' = Enqueued(Purged(job), flight[a].to, S)
      BY <2>2, <3>1 DEF Commit, Resumed
    <3>3. Purged(job)[<<s, c>>] = "none"
      BY DEF Purged, Stale
    <3>4. s = flight[a].to
      BY <3>2, <3>3 DEF Enqueued
    <3> QED
      BY <3>1, <3>4 DEF Commit, Moved
  <2>6. ASSUME NEW t \in Source, NEW d \in Chapter, Downloads(t, d) PROVE s = src'
    <3>1. CASE \E byUser \in BOOLEAN : Retry(t, d, byUser)
      BY <2>1, <3>1 DEF Retry, Retriable, JobType
    <3>2. CASE ~\E byUser \in BOOLEAN : Retry(t, d, byUser)
      BY <2>1, <2>6, <3>2 DEF Downloads, Settles, Run, Succeeds, Cancel, Fails, JobType
    <3> QED
      BY <3>1, <3>2
  <2> QED
    BY <1>1, <2>2, <2>3, <2>4, <2>5, <2>6 DEF Next, Departs, StartCheck, StartBackstop, StartDetect,
       StartRematch, Request, BeginFetch, Dies, Restart, DiesRollingBack, DiesCommitting, Rollback,
       Dismiss, Remove, CooldownOver, downloads, vars
<1>2. Spec => [][P]_vars
  BY <1>1, MigrationInvariant, PTL DEF Spec
<1> QED
  BY <1>2, PTL DEF OldSourceRests

\* The crawl of the detection goes on, or the detection decides, or it ends
\* with nothing.
LEMMA DetectionSteps ==
  ASSUME Inv, [Next]_vars, "detect" \in Actor, flight["detect"].at = "crawl"
  PROVE  \/ flight'["detect"].at = "crawl"
         \/ \E t \in Source : Suggests("detect", t) \/ Migrates("detect", t)
         \/ flight'["detect"].at = "idle" /\ sugg' \in {sugg, None}
<1> DEFINE Goal == \/ flight'["detect"].at = "crawl"
                   \/ \E t \in Source : Suggests("detect", t) \/ Migrates("detect", t)
                   \/ flight'["detect"].at = "idle" /\ sugg' \in {sugg, None}
<1>1. flight \in [Actor -> FlightType]
  BY DEF Inv, TypeOK, FlightsOK
<1>2. ASSUME NEW a \in Actor \ {"detect"}, NEW f, flight' = [flight EXCEPT ![a] = f] PROVE Goal
  BY <1>1, <1>2
<1>3. ASSUME NEW a \in Actor, TryBeginProbe(a) \/ Crawl(a) PROVE Goal
  BY <1>1, <1>3 DEF TryBeginProbe, Crawl, Crawling
<1>4. CASE UNCHANGED flight
  BY <1>4
<1>5. CASE Departs
  <2>1. ASSUME NEW t \in Source, Request(t) PROVE Goal
    BY <1>2, <2>1 DEF Request, BeginFetch, MayLeave
  <2> QED
    BY <1>3, <1>5, <2>1 DEF Departs, StartCheck, StartBackstop, StartDetect, StartRematch, MayLeave
<1>6. ASSUME NEW a \in Actor \ {"detect"}, Flies(a) PROVE Goal
  <2>1. CASE End(a)
    BY <1>2, <2>1 DEF End
  <2>2. CASE \E t \in Source : BeginFetch(a, t)
    BY <1>2, <2>2 DEF BeginFetch
  <2> QED
    BY <1>6, <2>1, <2>2 DEF Flies, Crawls, Fetches, FindsNone, Suggests, Migrates, FetchFails, Conflict, Void, Commit
<1>7. CASE Flies("detect")
  <2>1. CASE FindsNone("detect")
    BY <1>1, <2>1 DEF FindsNone, End, Idle, entry
  <2> QED
    BY <1>7, <2>1 DEF Flies, Crawls, Fetches, FetchFails, Conflict, Void, Commit
<1>8. CASE Dies
  <2>1. flight'["detect"].at = "idle"
    BY <1>8 DEF Dies, Restart, DiesRollingBack, DiesCommitting, Restarted, Idle
  <2>2. sugg' \in {sugg, None}
    BY <1>8 DEF Dies, Restart, DiesRollingBack, DiesCommitting, Moved, entry
  <2> QED
    BY <2>1, <2>2
<1>9. CASE \E s \in Source, c \in Chapter : Downloads(s, c)
  <2>1. UNCHANGED flight \/ ("immediate" \in Actor /\ TryBeginProbe("immediate"))
    BY <1>9 DEF Downloads, Settles, Retry, Run, Succeeds, Cancel, Fails, MayLeave
  <2> QED
    BY <1>3, <1>4, <2>1
<1>10. CASE Rollback \/ Dismiss \/ Remove \/ CooldownOver \/ UNCHANGED vars \/ \E c \in Chapter : Ask(c)
  BY <1>4, <1>10 DEF Rollback, Dismiss, Remove, CooldownOver, vars, Ask
<1> QED
  BY <1>5, <1>6, <1>7, <1>8, <1>9, <1>10 DEF Next

\* What the detection decides holds of the entry when it decides it.
THEOREM DetectionsAreFresh == ASSUME "detect" \in Actor PROVE Spec => DetectionFresh
<1> DEFINE P == flight["detect"].at = "crawl" /\ (flight'["detect"].at = "fetch" \/ (sugg' # sugg /\ sugg' # None))
                => \/ flight'["detect"].at = "crawl"
                   \/ sugg = None /\ src = flight["detect"].from
                      /\ dismissed \notin {sugg', flight'["detect"].to} \ {None}
<1>1. ASSUME Inv, [Next]_vars PROVE P
  <2>1. flight \in [Actor -> FlightType]
    BY <1>1 DEF Inv, TypeOK, FlightsOK
  <2>2. ASSUME NEW t \in Source, Suggests("detect", t) PROVE P
    BY <2>1, <2>2 DEF Suggests, Meant, End, Idle
  <2>3. ASSUME NEW t \in Source, Migrates("detect", t) PROVE P
    BY <2>1, <2>3 DEF Migrates, Meant, BeginFetch
  <2> QED
    BY <1>1, <2>2, <2>3, DetectionSteps
<1>2. Spec => [][P]_vars
  BY <1>1, MigrationInvariant, PTL DEF Spec
<1> QED
  BY <1>2, PTL DEF DetectionFresh
=============================================================================
