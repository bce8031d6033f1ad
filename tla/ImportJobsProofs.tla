--------------------------- MODULE ImportJobsProofs ---------------------------
(***************************************************************************)
(* Proofs about ImportJobs, for any imports, folders and sources.          *)
(***************************************************************************)
EXTENDS ImportJobs, FiniteSetTheorems, TLAPS

\* A run that awaits a source knows which series it is for, and that no import
\* had tracked its title when it began: the run is the only one that adds any.
Awaiting ==
  \A j \in Job : phase[j] \in {"asking", "filling"} =>
     current[j] \in Path /\ wanted[<<j, current[j]>>] # NoManga
AsksNew ==
  \A j \in Job : phase[j] = "asking" => ~Titled(wanted[<<j, current[j]>>], imported)

\* Workers match during the matching phase only, a job has no series before it
\* starts, and what is confirmed was matched.
Claimed == \A j \in Job : matching[j] # {} => phase[j] = "matching"
Unstarted == \A x \in Row : job[x[1]] = "none" => state[x] = "absent"
Confirmations == \A x \in Row : confirmed[x] => state[x] \notin {"absent", "pending", "matching"}

\* The inductive invariants.
Inv == TypeOK /\ RunsHoldSlot /\ Awaiting
OnceInv == Inv /\ AsksNew /\ ImportsOnce
ChoiceInv == Inv /\ Claimed /\ Unstarted /\ Confirmations

-----------------------------------------------------------------------------
(* Type correctness and the slot                                            *)

LEMMA InitInv == Init => Inv
BY ImportAssumption DEF Init, Inv, TypeOK, RunsHoldSlot, Awaiting, Running, Active, JobStatus, SeriesState, Phase, Row

LEMMA SpendKeeps == ASSUME TypeOK, Spend PROVE budget' \in 0..Budget
BY ImportAssumption DEF TypeOK, Spend

LEMMA EndKeeps ==
  ASSUME Inv, NEW j \in Job, NEW s \in {"error", "ready", "done"}, End(j, s),
         Running(j), UNCHANGED <<rows, entries, matching, current, budget>>
  PROVE  Inv'
<1> USE DEF Inv
<1>1. TypeOK'
  BY DEF TypeOK, End, JobStatus, Phase, Row, rows, entries
<1>2. RunsHoldSlot'
  BY DEF RunsHoldSlot, TypeOK, End, Running, Active, Phase
<1>3. Awaiting'
  <2> SUFFICES ASSUME NEW k \in Job, phase'[k] \in {"asking", "filling"}
               PROVE  current[k] \in Path /\ wanted'[<<k, current[k]>>] # NoManga
    BY DEF Awaiting
  <2>1. k # j /\ phase[k] \in {"asking", "filling"}
    BY DEF End, TypeOK
  <2>2. current[k] \in Path /\ wanted[<<k, current[k]>>] # NoManga
    BY <2>1 DEF Awaiting
  <2> QED
    BY <2>1, <2>2 DEF End, Row
<1> QED
  BY <1>1, <1>2, <1>3

\* The other steps of a run leave the slot and the status of its job at work.
LEMMA SlotKept ==
  ASSUME Inv, NEW j \in Job, Running(j), UNCHANGED slot,
         \/ job' = job
         \/ job' = [job EXCEPT ![j] = "syncing"],
         NEW at \in Phase \ {"idle"},
         phase' = [phase EXCEPT ![j] = at]
  PROVE  RunsHoldSlot'
BY DEF Inv, RunsHoldSlot, TypeOK, Running, Active, Phase

LEMMA SettleKeeps ==
  ASSUME Inv, NEW j \in Job, NEW p \in Path, NEW s \in {"failed", "synced"}, Settle(j, p, s),
         Running(j), UNCHANGED entries
  PROVE  Inv'
<1> USE DEF Inv
<1>1. TypeOK'
  BY DEF TypeOK, Settle, SeriesState, Phase, Row, entries
<1>2. RunsHoldSlot'
  BY SlotKept DEF Settle, Phase
<1>3. Awaiting'
  <2> SUFFICES ASSUME NEW k \in Job, phase'[k] \in {"asking", "filling"}
               PROVE  current'[k] \in Path /\ wanted'[<<k, current'[k]>>] # NoManga
    BY DEF Awaiting
  <2>1. k # j /\ phase[k] \in {"asking", "filling"} /\ current'[k] = current[k]
    BY DEF Settle, TypeOK
  <2>2. current[k] \in Path /\ wanted[<<k, current[k]>>] # NoManga
    BY <2>1 DEF Awaiting
  <2> QED
    BY <2>1, <2>2 DEF Settle, TypeOK, Row
<1> QED
  BY <1>1, <1>2, <1>3

\* What a request of the import itself changes.
LEMMA BeginKeeps ==
  ASSUME Inv, NEW j \in Job, ~Running(j), Begin(j),
         NEW s \in {"matching", "syncing"}, NEW at \in {"listing", "syncing"},
         \A k \in Job \ {j} : job[k] \notin Active => job'[k] \notin Active,
         job' \in [Job -> JobStatus], job'[j] = s,
         phase' = [phase EXCEPT ![j] = at]
  PROVE  RunsHoldSlot' /\ phase' \in [Job -> Phase] /\ slot' \subseteq Job \cup {Bulk}
<1>1. \A k \in Job : k \notin slot /\ phase[k] = "idle" /\ job[k] \notin Active
  BY DEF Inv, RunsHoldSlot, Begin, Running
<1>2. phase' \in [Job -> Phase] /\ slot' = {j}
  BY DEF Inv, TypeOK, Phase, Begin
<1>3. \A k \in Job : phase'[k] # "idle" <=> k = j
  BY <1>1 DEF Inv, TypeOK, Phase
<1>4. \A k \in Job : job'[k] \in Active <=> k = j
  BY <1>1 DEF Active
<1> QED
  BY <1>2, <1>3, <1>4 DEF RunsHoldSlot, Running

LEMMA NoneAwaits ==
  ASSUME RunsHoldSlot, slot = {}, NEW j \in Job, TypeOK, NEW at \in {"listing", "syncing"},
         phase' = [phase EXCEPT ![j] = at]
  PROVE  Awaiting'
<1>1. \A k \in Job : phase[k] = "idle"
  BY DEF RunsHoldSlot, Running
<1>2. \A k \in Job : phase'[k] \notin {"asking", "filling"}
  BY <1>1 DEF TypeOK
<1> QED
  BY <1>2 DEF Awaiting

LEMMA StartKeeps ==
  ASSUME Inv, NEW j \in Job, NEW found \in SUBSET Path, Start(j, found)
  PROVE  Inv'
<1> USE DEF Inv
<1>1. \A k \in Job : k \notin slot /\ phase[k] = "idle" /\ job[k] \notin Active
  BY DEF Start, RunsHoldSlot, Running
<1>2. job' \in [Job -> JobStatus]
  BY DEF Start, Superseded, TypeOK, JobStatus
<1>3. \A k \in Job \ {j} : job'[k] \notin Active
  BY <1>1 DEF Start, Superseded, Active
<1>4. CASE found = {}
  <2>1. job'[j] = "error" /\ slot' = slot /\ phase' = phase
    BY <1>4 DEF Start, Superseded
  <2>2. RunsHoldSlot'
    BY <1>1, <1>3, <2>1 DEF RunsHoldSlot, Running, Active
  <2>3. Awaiting'
    BY <1>1, <2>1 DEF Awaiting
  <2>4. TypeOK'
    BY <1>2, <2>1 DEF TypeOK, Start, Insert, SeriesState, entries
  <2> QED
    BY <2>2, <2>3, <2>4
<1>5. CASE found # {}
  <2>1. job'[j] = "matching" /\ Begin(j) /\ phase' = [phase EXCEPT ![j] = "listing"]
    BY <1>5 DEF Start, Superseded
  <2>2. RunsHoldSlot' /\ phase' \in [Job -> Phase] /\ slot' \subseteq Job \cup {Bulk}
    BY <1>1, <1>2, <1>3, <2>1, BeginKeeps DEF Running
  <2>3. Awaiting'
    BY <2>1, NoneAwaits DEF Begin
  <2>4. TypeOK'
    BY <1>2, <2>2 DEF TypeOK, Start, Insert, SeriesState, entries
  <2> QED
    BY <2>2, <2>3, <2>4
<1> QED
  BY <1>4, <1>5

LEMMA ReadRowsType ==
  ASSUME TypeOK, NEW j \in Job, NEW sure \in [Row -> BOOLEAN], ReadRows(j, sure)
  PROVE  todo' \in [Job -> SUBSET Path] /\ wanted' \in [Row -> Manga \cup {NoManga}]
BY DEF TypeOK, ReadRows, SeriesIn

LEMMA ResumeKeeps ==
  ASSUME Inv, NEW j \in Job, Resume(j) \/ Sync(j)
  PROVE  Inv'
<1> USE DEF Inv
<1>1. /\ ~Running(j) /\ Begin(j)
      /\ \E s \in {"matching", "syncing"} : job' = [job EXCEPT ![j] = s]
      /\ \E at \in {"listing", "syncing"} : phase' = [phase EXCEPT ![j] = at]
  BY DEF Resume, Sync, Resumable, ReadRows
<1>2. PICK s \in {"matching", "syncing"} : job' = [job EXCEPT ![j] = s]
  BY <1>1
<1>3. PICK at \in {"listing", "syncing"} : phase' = [phase EXCEPT ![j] = at]
  BY <1>1
<1>4. /\ job' \in [Job -> JobStatus] /\ job'[j] = s
      /\ \A k \in Job \ {j} : job[k] \notin Active => job'[k] \notin Active
  BY <1>2 DEF TypeOK, JobStatus
<1>5. RunsHoldSlot' /\ phase' \in [Job -> Phase] /\ slot' \subseteq Job \cup {Bulk}
  BY <1>1, <1>3, <1>4, BeginKeeps
<1>6. Awaiting'
  BY <1>1, <1>3, NoneAwaits DEF Begin
<1>7. todo' \in [Job -> SUBSET Path] /\ wanted' \in [Row -> Manga \cup {NoManga}]
  BY ReadRowsType DEF Resume, Sync, TypeOK
<1>8. TypeOK'
  BY <1>4, <1>5, <1>7 DEF TypeOK, Resume, Sync, rows, entries
<1> QED
  BY <1>5, <1>6, <1>8

LEMMA SureType ==
  ASSUME TypeOK, NEW j \in Job, NEW mode
  PROVE  Sure(j, mode) \in [Row -> BOOLEAN]
<1>1. \A x \in Row : (\/ confirmed[x]
                      \/ x[1] = j /\ state[x] = "matched" /\ manga[x] # NoManga /\ tier[x] \in Tiers(mode)) \in BOOLEAN
  OBVIOUS
<1> QED
  BY <1>1 DEF Sure

\* Requests that begin nothing.
LEMMA RequestKeeps ==
  ASSUME Inv,
         \/ \E j \in Job : \/ Cancel(j)
                           \/ \E mode \in {"auto", "all"} : Confirm(j, mode)
                           \/ \E p \in Path, m \in Manga : Choose(j, p, m)
         \/ \E m \in Manga : Follow(m) \/ Unfollow(m)
  PROVE  Inv'
<1> USE DEF Inv
<1>1. UNCHANGED <<job, slot, run>>
  BY DEF Cancel, Confirm, Choose, Follow, Unfollow
<1>2. RunsHoldSlot' /\ Awaiting'
  BY <1>1 DEF run, RunsHoldSlot, Awaiting, Running
<1>3. budget' \in 0..Budget
  BY SpendKeeps DEF Cancel, Confirm, Choose, Follow, Unfollow
<1>4. ASSUME NEW j \in Job, Cancel(j) PROVE TypeOK'
  BY <1>1, <1>3, <1>4 DEF Cancel, TypeOK, rows, entries, run
<1>5. ASSUME NEW j \in Job, NEW mode \in {"auto", "all"}, Confirm(j, mode) PROVE TypeOK'
  BY <1>1, <1>3, <1>5, SureType DEF Confirm, TypeOK, entries, run
<1>6. ASSUME NEW j \in Job, NEW p \in Path, NEW m \in Manga, Choose(j, p, m) PROVE TypeOK'
  BY <1>1, <1>3, <1>6 DEF Choose, TypeOK, entries, run, Row, SeriesState
<1>7. ASSUME NEW m \in Manga, Follow(m) \/ Unfollow(m) PROVE TypeOK'
  BY <1>1, <1>3, <1>7 DEF Follow, Unfollow, TypeOK, rows, run
<1> QED
  BY <1>2, <1>4, <1>5, <1>6, <1>7

LEMMA MatchesKeeps ==
  ASSUME Inv, NEW j \in Job, Matches(j)
  PROVE  Inv'
<1> USE DEF Inv
<1>1. CASE Lists(j)
  <2>1. TypeOK'
    BY <1>1 DEF Lists, TypeOK, Phase, rows, entries
  <2>2. RunsHoldSlot'
    BY <1>1, SlotKept DEF Lists, Running, Phase
  <2>3. Awaiting'
    BY <1>1 DEF Lists, Awaiting, TypeOK
  <2> QED
    BY <2>1, <2>2, <2>3
<1>2. CASE NoSource(j)
  BY <1>2, EndKeeps DEF NoSource, Running
<1>3. CASE Stops(j)
  BY <1>3, EndKeeps DEF Stops, Matched, Running
<1>4. CASE GoesOn(j)
  <2>1. confirmed' \in [Row -> BOOLEAN]
    BY <1>4, SureType DEF GoesOn
  <2>2. todo' \in [Job -> SUBSET Path] /\ wanted' \in [Row -> Manga \cup {NoManga}]
    BY <1>4, <2>1, ReadRowsType DEF GoesOn
  <2>3. TypeOK'
    BY <1>4, <2>1, <2>2 DEF GoesOn, ReadRows, TypeOK, Phase, JobStatus, entries
  <2>4. RunsHoldSlot'
    BY <1>4, SlotKept DEF GoesOn, ReadRows, Matched, Running, Phase
  <2>5. Awaiting'
    <3> SUFFICES ASSUME NEW k \in Job, phase'[k] \in {"asking", "filling"}
                 PROVE  current'[k] \in Path /\ wanted'[<<k, current'[k]>>] # NoManga
      BY DEF Awaiting
    <3>1. k # j /\ phase[k] \in {"asking", "filling"} /\ current'[k] = current[k]
      BY <1>4 DEF GoesOn, ReadRows, TypeOK
    <3>2. current[k] \in Path /\ wanted[<<k, current[k]>>] # NoManga
      BY <3>1 DEF Awaiting
    <3> QED
      BY <1>4, <3>1, <3>2 DEF GoesOn, ReadRows, Row
  <2> QED
    BY <2>3, <2>4, <2>5
<1>5. ASSUME NEW p \in Path, \/ Claim(j, p) \/ Abandons(j, p)
                             \/ \E t \in {"none", "review", "auto"}, m \in Manga \cup {NoManga} : Finds(j, p, t, m)
      PROVE  Inv'
  <2>1. UNCHANGED <<job, slot, cancelled, phase, todo, wanted, current, entries, budget, confirmed>>
    BY <1>5 DEF Claim, Takes, Abandons, Finds, rows
  <2>2. RunsHoldSlot' /\ Awaiting'
    BY <2>1 DEF RunsHoldSlot, Running, Awaiting
  <2>3. CASE Claim(j, p)
    BY <2>1, <2>2, <2>3 DEF Claim, Takes, TypeOK, SeriesState, entries
  <2>4. CASE Abandons(j, p)
    BY <2>1, <2>2, <2>4 DEF Abandons, TypeOK, rows, entries
  <2>5. ASSUME NEW t \in {"none", "review", "auto"}, NEW m \in Manga \cup {NoManga}, Finds(j, p, t, m)
        PROVE  Inv'
    BY <2>1, <2>2, <2>5 DEF Finds, TypeOK, SeriesState, entries
  <2> QED
    BY <1>5, <2>3, <2>4, <2>5
<1> QED
  BY <1>1, <1>2, <1>3, <1>4, <1>5 DEF Matches

LEMMA SyncsKeeps ==
  ASSUME Inv, NEW j \in Job, Syncs(j)
  PROVE  Inv'
<1> USE DEF Inv
<1>1. CASE SyncEnds(j) \/ SyncStops(j)
  BY <1>1, EndKeeps DEF SyncEnds, SyncStops, Running
<1>2. CASE AskFails(j) \/ Fills(j)
  <2>1. current[j] \in Path
    BY <1>2 DEF AskFails, Fills, Awaiting
  <2> QED
    BY <1>2, <2>1, SettleKeeps DEF AskFails, Fills, Running
<1>3. CASE Adds(j)
  <2>1. current[j] \in Path /\ wanted[<<j, current[j]>>] \in Manga
    BY <1>3 DEF Adds, Awaiting, TypeOK, Row
  <2>2. TypeOK'
    BY <1>3, <2>1 DEF Adds, TypeOK, Phase, rows
  <2>3. RunsHoldSlot'
    BY <1>3, SlotKept DEF Adds, Running, Phase
  <2>4. Awaiting'
    BY <1>3 DEF Adds, Awaiting, TypeOK
  <2> QED
    BY <2>2, <2>3, <2>4
<1>4. ASSUME NEW p \in Path, Unmatched(j, p) \/ Attaches(j, p)
      PROVE  Inv'
  BY <1>4, SettleKeeps DEF Unmatched, Attaches, NextSeries, Running
<1>5. ASSUME NEW p \in Path, Asks(j, p)
      PROVE  Inv'
  <2>1. TypeOK'
    BY <1>5 DEF Asks, TypeOK, Phase, rows, entries
  <2>2. RunsHoldSlot'
    BY <1>5, SlotKept DEF Asks, NextSeries, Running, Phase
  <2>3. Awaiting'
    BY <1>5 DEF Asks, Awaiting, TypeOK
  <2> QED
    BY <2>1, <2>2, <2>3
<1> QED
  BY <1>1, <1>2, <1>3, <1>4, <1>5 DEF Syncs

LEMMA RestartKeeps ==
  ASSUME Inv, NEW status \in [Job -> JobStatus], NEW series \in [Row -> SeriesState],
         Restart(status, series), budget' \in 0..Budget
  PROVE  Inv'
<1> USE DEF Inv
<1>1. TypeOK'
  BY DEF Restart, TypeOK, JobStatus, SeriesState, Phase, entries
<1>2. RunsHoldSlot'
  BY DEF Restart, RunsHoldSlot, Running, Active
<1>3. Awaiting'
  BY DEF Restart, Awaiting
<1> QED
  BY <1>1, <1>2, <1>3

LEMMA DeathKeeps ==
  ASSUME Inv, \/ Dies
              \/ \E j \in Job, part \in SUBSET Path : DiesStarting(j, part)
  PROVE  Inv'
<1> USE DEF Inv
<1>1. budget' \in 0..Budget
  BY SpendKeeps DEF Dies, DiesStarting
<1>2. CASE Dies
  BY <1>1, <1>2, RestartKeeps DEF Dies, TypeOK
<1>3. ASSUME NEW j \in Job, NEW part \in SUBSET Path, DiesStarting(j, part) PROVE Inv'
  <2> DEFINE series == [x \in Row |-> IF x[1] = j /\ x[2] \in part THEN "pending" ELSE state[x]]
  <2>1. Superseded(j, "scanning") \in [Job -> JobStatus]
    BY DEF Superseded, TypeOK, JobStatus
  <2>2. series \in [Row -> SeriesState]
    BY DEF TypeOK, SeriesState
  <2>3. Restart(Superseded(j, "scanning"), series)
    BY <1>3 DEF DiesStarting
  <2> QED
    BY <1>1, <2>1, <2>2, <2>3, RestartKeeps
<1> QED
  BY <1>2, <1>3

LEMMA BulkKeeps == ASSUME Inv, BulkRun PROVE Inv'
<1> USE DEF Inv
<1>1. slot' \in {{}, {Bulk}} /\ \A j \in Job : j \notin slot
  BY ImportAssumption DEF BulkRun, Begin, RunsHoldSlot
<1>2. UNCHANGED <<job, phase, current, wanted>>
  BY DEF BulkRun, run
<1>3. RunsHoldSlot' /\ Awaiting'
  BY ImportAssumption, <1>1, <1>2 DEF RunsHoldSlot, Running, Awaiting
<1>4. TypeOK'
  BY <1>1, <1>2 DEF BulkRun, TypeOK, rows, entries, run
<1> QED
  BY <1>3, <1>4

\* The scans and the parts of them that a crash leaves are sets of series.
LEMMA StepKeepsInv == Inv /\ [Next]_vars => Inv'
<1> SUFFICES ASSUME Inv, [Next]_vars PROVE Inv'
  OBVIOUS
<1>1. CASE UNCHANGED vars
  BY <1>1 DEF vars, rows, run, entries, Inv, TypeOK, RunsHoldSlot, Running, Awaiting
<1>2. ASSUME NEW j \in Job, NEW found \in Scans[j],
             Start(j, found) \/ \E part \in SUBSET found : DiesStarting(j, part)
      PROVE  Inv'
  <2>1. found \in SUBSET Path
    BY ImportAssumption
  <2> QED
    BY <1>2, <2>1, StartKeeps, DeathKeeps
<1>3. ASSUME NEW j \in Job, Requests(j) \/ Runs(j) PROVE Inv'
  BY <1>3, ResumeKeeps, RequestKeeps, MatchesKeeps, SyncsKeeps DEF Requests, Runs
<1> QED
  BY <1>1, <1>2, <1>3, RequestKeeps, BulkKeeps, DeathKeeps DEF Next

\* Every reachable state is well-typed, with at most one crawl, and its run,
\* its slot and the status of its job agree.
THEOREM ImportInvariant == Spec => []Inv
BY InitInv, StepKeepsInv, PTL DEF Spec

\* The jobs, their series and the runs keep their types.
THEOREM ImportTypeCorrect == Spec => []TypeOK
<1>1. Inv => TypeOK
  BY DEF Inv
<1> QED
  BY <1>1, ImportInvariant, PTL

\* One crawl at a time, and the database agrees with memory on which one it is.
THEOREM RunsAreExclusive == Spec => []RunsHoldSlot
<1>1. Inv => RunsHoldSlot
  BY DEF Inv
<1> QED
  BY <1>1, ImportInvariant, PTL

-----------------------------------------------------------------------------
(* No title imported twice                                                  *)

\* A step that adds no entry of an import and asks no source for one.
LEMMA OnceKept ==
  ASSUME AsksNew, ImportsOnce, imported' \subseteq imported,
         \A k \in Job : phase'[k] = "asking" =>
            phase[k] = "asking" /\ wanted'[<<k, current'[k]>>] = wanted[<<k, current[k]>>]
  PROVE  AsksNew' /\ ImportsOnce'
BY DEF AsksNew, ImportsOnce, Titled

LEMMA EndOnce ==
  ASSUME OnceInv, NEW j \in Job, NEW s, End(j, s), UNCHANGED <<entries, current>>
  PROVE  AsksNew' /\ ImportsOnce'
<1>1. \A k \in Job : phase'[k] = "asking" => k # j /\ phase[k] = "asking" /\ current[k] \in Path
  BY DEF End, OnceInv, Inv, TypeOK, Awaiting
<1>2. \A k \in Job : phase'[k] = "asking" =>
         phase[k] = "asking" /\ wanted'[<<k, current'[k]>>] = wanted[<<k, current[k]>>]
  BY <1>1 DEF End, Row
<1> QED
  BY <1>2, OnceKept DEF OnceInv, entries

LEMMA SettleOnce ==
  ASSUME OnceInv, NEW j \in Job, NEW p \in Path, NEW s, Settle(j, p, s), UNCHANGED entries
  PROVE  AsksNew' /\ ImportsOnce'
<1>1. \A k \in Job : phase'[k] = "asking" =>
         k # j /\ phase[k] = "asking" /\ current[k] \in Path /\ current'[k] = current[k]
  BY DEF Settle, OnceInv, Inv, TypeOK, Awaiting
<1>2. \A k \in Job : phase'[k] = "asking" =>
         phase[k] = "asking" /\ wanted'[<<k, current'[k]>>] = wanted[<<k, current[k]>>]
  BY <1>1 DEF Settle, OnceInv, Inv, TypeOK, Row
<1> QED
  BY <1>2, OnceKept DEF OnceInv, entries

LEMMA ReadRowsOnce ==
  ASSUME OnceInv, NEW j \in Job, NEW sure, ReadRows(j, sure), UNCHANGED <<entries, current>>
  PROVE  AsksNew' /\ ImportsOnce'
<1>1. \A k \in Job : phase'[k] = "asking" => k # j /\ phase[k] = "asking" /\ current[k] \in Path
  BY DEF ReadRows, OnceInv, Inv, TypeOK, Awaiting
<1>2. \A k \in Job : phase'[k] = "asking" =>
         phase[k] = "asking" /\ wanted'[<<k, current'[k]>>] = wanted[<<k, current[k]>>]
  BY <1>1 DEF ReadRows, Row
<1> QED
  BY <1>2, OnceKept DEF OnceInv, entries

\* The insert: no import tracked the title when the source was asked, and no
\* other run added one since.
LEMMA AddsOnce ==
  ASSUME OnceInv, NEW j \in Job, Adds(j)
  PROVE  AsksNew' /\ ImportsOnce'
<1> DEFINE m == wanted[<<j, current[j]>>]
<1>1. ~Titled(m, imported) /\ imported' \subseteq imported \cup {m}
  BY DEF Adds, OnceInv, AsksNew
<1>2. ImportsOnce'
  BY <1>1 DEF ImportsOnce, Titled, OnceInv
<1>3. \A k \in Job : phase[k] # "idle" => k = j
  BY DEF OnceInv, Inv, RunsHoldSlot, Running, Adds
<1>4. \A k \in Job : phase'[k] # "asking"
  BY <1>3 DEF Adds, OnceInv, Inv, TypeOK
<1> QED
  BY <1>2, <1>4 DEF AsksNew

LEMMA StepKeepsOnce == OnceInv /\ [Next]_vars => AsksNew' /\ ImportsOnce'
<1> SUFFICES ASSUME OnceInv, [Next]_vars PROVE AsksNew' /\ ImportsOnce'
  OBVIOUS
<1> USE DEF OnceInv, Inv
<1>1. ASSUME UNCHANGED <<phase, wanted, current>>, imported' \subseteq imported
      PROVE  AsksNew' /\ ImportsOnce'
  BY <1>1, OnceKept
<1>2. CASE UNCHANGED vars \/ BulkRun \/ \E m \in Manga : Follow(m) \/ Unfollow(m)
  <2>1. UNCHANGED <<phase, wanted, current>>
    BY <1>2 DEF vars, run, BulkRun, Follow, Unfollow
  <2>2. imported' \subseteq imported
    BY <1>2 DEF vars, entries, BulkRun, Follow, Unfollow
  <2> QED
    BY <1>1, <2>1, <2>2
<1>10. ASSUME NEW j \in Job, \/ Cancel(j)
                             \/ \E mode \in {"auto", "all"} : Confirm(j, mode)
                             \/ \E p \in Path, m \in Manga : Choose(j, p, m)
       PROVE  AsksNew' /\ ImportsOnce'
  BY <1>1, <1>10 DEF run, entries, Cancel, Confirm, Choose
<1>11. ASSUME NEW j \in Job, NEW p \in Path,
              \/ Claim(j, p) \/ Abandons(j, p)
              \/ \E t \in {"none", "review", "auto"}, m \in Manga \cup {NoManga} : Finds(j, p, t, m)
       PROVE  AsksNew' /\ ImportsOnce'
  BY <1>1, <1>11 DEF entries, Claim, Takes, Abandons, Finds
<1>3. ASSUME NEW j \in Job, (\E found \in Scans[j] : Start(j, found)) \/ Resume(j) \/ Lists(j)
      PROVE  AsksNew' /\ ImportsOnce'
  <2>1. \A k \in Job : phase'[k] = "asking" => phase[k] = "asking"
    BY <1>3 DEF Start, Resume, Lists, TypeOK
  <2>2. UNCHANGED <<wanted, current, imported>>
    BY <1>3 DEF Start, Resume, Lists, entries
  <2> QED
    BY <2>1, <2>2, OnceKept
<1>4. ASSUME NEW j \in Job, Sync(j) \/ GoesOn(j)
      PROVE  AsksNew' /\ ImportsOnce'
  BY <1>4, ReadRowsOnce DEF Sync, GoesOn
<1>5. ASSUME NEW j \in Job, NoSource(j) \/ Stops(j) \/ SyncEnds(j) \/ SyncStops(j)
      PROVE  AsksNew' /\ ImportsOnce'
  BY <1>5, EndOnce DEF NoSource, Stops, SyncEnds, SyncStops
<1>6. ASSUME NEW j \in Job, AskFails(j) \/ Fills(j) \/ \E p \in Path : Unmatched(j, p) \/ Attaches(j, p)
      PROVE  AsksNew' /\ ImportsOnce'
  <2>1. CASE AskFails(j) \/ Fills(j)
    <3>1. current[j] \in Path
      BY <2>1 DEF AskFails, Fills, Awaiting
    <3> QED
      BY <2>1, <3>1, SettleOnce DEF AskFails, Fills
  <2>2. CASE \E p \in Path : Unmatched(j, p) \/ Attaches(j, p)
    BY <2>2, SettleOnce DEF Unmatched, Attaches
  <2> QED
    BY <1>6, <2>1, <2>2
<1>7. ASSUME NEW j \in Job, NEW p \in Path, Asks(j, p)
      PROVE  AsksNew' /\ ImportsOnce'
  <2>1. imported' = imported /\ wanted' = wanted /\ ImportsOnce'
    BY <1>7 DEF Asks, entries, ImportsOnce
  <2>2. ASSUME NEW k \in Job, phase'[k] = "asking" PROVE ~Titled(wanted[<<k, current'[k]>>], imported)
    <3>1. CASE k = j
      BY <1>7, <3>1 DEF Asks, Titled, TypeOK
    <3>2. CASE k # j
      BY <1>7, <2>2, <3>2 DEF Asks, TypeOK, AsksNew
    <3> QED
      BY <3>1, <3>2
  <2> QED
    BY <2>1, <2>2 DEF AsksNew, Titled
<1>8. ASSUME NEW j \in Job, Adds(j) PROVE AsksNew' /\ ImportsOnce'
  BY <1>8, AddsOnce
<1>9. CASE Dies \/ \E j \in Job : \E found \in Scans[j] : \E part \in SUBSET found : DiesStarting(j, part)
  <2>1. (\A k \in Job : phase'[k] = "idle") /\ imported' = imported
    BY <1>9 DEF Dies, DiesStarting, Restart, entries
  <2> QED
    BY <2>1, OnceKept
<1> QED
  BY <1>2, <1>3, <1>4, <1>5, <1>6, <1>7, <1>8, <1>9, <1>10, <1>11 DEF Next, Requests, Runs, Matches, Syncs

\* Whatever users, tools and crashes do, two entries that imports created
\* never have one title.
THEOREM NoTitleTwice == Spec => []ImportsOnce
<1>1. Init => OnceInv
  BY InitInv DEF OnceInv, AsksNew, ImportsOnce, Init
<1>2. OnceInv /\ [Next]_vars => OnceInv'
  BY StepKeepsInv, StepKeepsOnce DEF OnceInv
<1>3. OnceInv => ImportsOnce
  BY DEF OnceInv
<1> QED
  BY <1>1, <1>2, <1>3, PTL DEF Spec

-----------------------------------------------------------------------------
(* Confirmed choices                                                        *)

LEMMA ClaimedKeeps == Inv /\ Claimed /\ [Next]_vars => Claimed'
<1> SUFFICES ASSUME Inv, Claimed, [Next]_vars, NEW k \in Job, matching'[k] # {}
             PROVE  phase'[k] = "matching"
  BY DEF Claimed
<1> USE DEF Inv, TypeOK
<1>1. CASE UNCHANGED <<phase, matching>>
  BY <1>1 DEF Claimed
<1>2. ASSUME NEW j \in Job, matching' = matching, phase[j] # "matching" \/ matching[j] = {},
             NEW at, phase' = [phase EXCEPT ![j] = at]
      PROVE  phase'[k] = "matching"
  BY <1>2 DEF Claimed
<1>3. ASSUME NEW j \in Job, NEW p \in Path,
             \/ Claim(j, p) \/ Abandons(j, p)
             \/ \E t \in {"none", "review", "auto"}, m \in Manga \cup {NoManga} : Finds(j, p, t, m)
      PROVE  phase'[k] = "matching"
  <2>1. phase' = phase /\ \A i \in Job \ {j} : matching'[i] = matching[i]
    BY <1>3 DEF Claim, Takes, Abandons, Finds
  <2>2. phase[j] = "matching"
    BY <1>3 DEF Claim, FreeWorker, Abandons, Finds, Claimed
  <2> QED
    BY <2>1, <2>2 DEF Claimed
<1>4. ASSUME NEW j \in Job, (\E found \in Scans[j] : Start(j, found)) \/ Resume(j) \/ Sync(j)
      PROVE  phase'[k] = "matching"
  <2>1. phase[j] = "idle"
    BY <1>4 DEF Start, Resume, Sync, Resumable, Running, RunsHoldSlot
  <2>2. matching' = matching
    BY <1>4 DEF Start, Resume, Sync
  <2>3. phase' = phase \/ \E at \in Phase : phase' = [phase EXCEPT ![j] = at]
    BY <1>4 DEF Start, Resume, Sync, ReadRows, Phase
  <2> QED
    BY <1>1, <1>2, <2>1, <2>2, <2>3
<1>5. ASSUME NEW j \in Job, Lists(j) \/ NoSource(j) \/ Stops(j) \/ GoesOn(j) \/ SyncEnds(j) \/ SyncStops(j)
                             \/ AskFails(j) \/ Adds(j) \/ Fills(j)
      PROVE  phase'[k] = "matching"
  <2>1. phase[j] # "matching" \/ matching[j] = {}
    BY <1>5 DEF Lists, NoSource, Stops, GoesOn, Matched, SyncEnds, SyncStops, AskFails, Adds, Fills
  <2>2. matching' = matching
    BY <1>5 DEF Lists, NoSource, Stops, GoesOn, SyncEnds, SyncStops, AskFails, Adds, Fills, Settle
  <2>3. \E at \in Phase : phase' = [phase EXCEPT ![j] = at]
    BY <1>5 DEF Lists, NoSource, Stops, GoesOn, ReadRows, SyncEnds, SyncStops, AskFails, Adds, Fills, Settle, End, Phase
  <2> QED
    BY <1>2, <2>1, <2>2, <2>3
<1>6. ASSUME NEW j \in Job, NEW p \in Path, Unmatched(j, p) \/ Attaches(j, p) \/ Asks(j, p)
      PROVE  phase'[k] = "matching"
  <2>1. phase[j] # "matching" /\ matching' = matching
    BY <1>6 DEF Unmatched, Attaches, Asks, NextSeries, Settle
  <2>2. \E at \in Phase : phase' = [phase EXCEPT ![j] = at]
    BY <1>6 DEF Unmatched, Attaches, Asks, Settle, Phase
  <2> QED
    BY <1>2, <2>1, <2>2
<1>7. CASE Dies \/ \E j \in Job : \E found \in Scans[j] : \E part \in SUBSET found : DiesStarting(j, part)
  BY <1>7 DEF Dies, DiesStarting, Restart
<1>8. CASE BulkRun \/ UNCHANGED vars \/ \E m \in Manga : Follow(m) \/ Unfollow(m)
  BY <1>1, <1>8 DEF BulkRun, vars, run, Follow, Unfollow
<1>9. ASSUME NEW j \in Job, \/ Cancel(j)
                            \/ \E mode \in {"auto", "all"} : Confirm(j, mode)
                            \/ \E p \in Path, m \in Manga : Choose(j, p, m)
      PROVE  phase'[k] = "matching"
  BY <1>1, <1>9 DEF Cancel, Confirm, Choose, run
<1> QED
  BY <1>3, <1>4, <1>5, <1>6, <1>7, <1>8, <1>9 DEF Next, Requests, Runs, Matches, Syncs

\* The job of a series being matched or synced has started.
LEMMA AtWork ==
  ASSUME Inv, Claimed, NEW j \in Job,
         \/ matching[j] # {} \/ phase[j] # "idle"
         \/ \E p \in Path : state[<<j, p>>] # "absent" /\ Unstarted
  PROVE  job[j] # "none"
<1>1. CASE matching[j] # {} \/ phase[j] # "idle"
  <2>1. phase[j] # "idle"
    BY <1>1 DEF Claimed
  <2> QED
    BY <2>1 DEF Inv, RunsHoldSlot, Running, Active
<1>2. ASSUME NEW p \in Path, state[<<j, p>>] # "absent", Unstarted PROVE job[j] # "none"
  BY <1>2 DEF Unstarted, Row
<1> QED
  BY <1>1, <1>2

\* A step that settles or claims one series.
LEMMA RowStep ==
  ASSUME ChoiceInv, NEW j \in Job, NEW p \in Path, job' = job, job[j] # "none",
         NEW s, state' = [state EXCEPT ![<<j, p>>] = s],
         \/ s \in {"matched", "synced", "failed"}
         \/ s = "matching" /\ state[<<j, p>>] = "pending",
         \/ confirmed' = confirmed
         \/ confirmed' = [confirmed EXCEPT ![<<j, p>>] = TRUE] /\ s = "matched"
  PROVE  Unstarted' /\ Confirmations'
<1> USE DEF ChoiceInv, Inv, TypeOK
<1>1. Unstarted'
  BY DEF Unstarted, Row
<1>2. ASSUME NEW x \in Row, confirmed'[x] PROVE state'[x] \notin {"absent", "pending", "matching"}
  <2>1. CASE x = <<j, p>>
    BY <1>2, <2>1 DEF Confirmations
  <2>2. CASE x # <<j, p>>
    <3>1. state'[x] = state[x] /\ confirmed[x]
      BY <1>2, <2>2
    <3> QED
      BY <3>1 DEF Confirmations
  <2> QED
    BY <2>1, <2>2
<1> QED
  BY <1>1, <1>2 DEF Confirmations

\* The recovery puts back what was being matched, never what was confirmed.
LEMMA RecoveryStep ==
  ASSUME NEW status \in [Job -> JobStatus], NEW series \in [Row -> SeriesState], Restart(status, series),
         \A x \in Row : status[x[1]] = "none" => series[x] = "absent",
         \A x \in Row : confirmed[x] => series[x] \notin {"absent", "pending", "matching"}
  PROVE  Unstarted' /\ Confirmations'
<1>1. \A x \in Row : job'[x[1]] = "none" => status[x[1]] = "none"
  BY DEF Restart, Row
<1> QED
  BY <1>1 DEF Restart, Unstarted, Confirmations

LEMMA ConfirmationsKeep == ChoiceInv /\ [Next]_vars => Unstarted' /\ Confirmations'
<1> SUFFICES ASSUME ChoiceInv, [Next]_vars PROVE Unstarted' /\ Confirmations'
  OBVIOUS
<1> USE DEF ChoiceInv, Inv, TypeOK
<1>1. ASSUME UNCHANGED state,
             confirmed' = confirmed \/ \E j \in Job, mode \in {"none", "auto", "all"} : confirmed' = Sure(j, mode),
             \A k \in Job : job'[k] = "none" => job[k] = "none"
      PROVE  Unstarted' /\ Confirmations'
  <2>1. Unstarted'
    BY <1>1 DEF Unstarted, Row
  <2>2. Confirmations'
    BY <1>1 DEF Confirmations, Sure
  <2> QED
    BY <2>1, <2>2
<1>2. CASE UNCHANGED vars \/ BulkRun \/ \E m \in Manga : Follow(m) \/ Unfollow(m)
  BY <1>1, <1>2 DEF vars, rows, BulkRun, Follow, Unfollow
<1>3. ASSUME NEW j \in Job, Resume(j) \/ Sync(j) \/ Cancel(j) \/ \E mode \in {"auto", "all"} : Confirm(j, mode)
      PROVE  Unstarted' /\ Confirmations'
  <2>1. \A k \in Job : job'[k] = "none" => job[k] = "none"
    BY <1>3 DEF Resume, Sync, Cancel, Confirm
  <2>2. UNCHANGED state /\ (confirmed' = confirmed \/ \E mode \in {"auto", "all"} : confirmed' = Sure(j, mode))
    BY <1>3 DEF Resume, Sync, Cancel, Confirm, rows
  <2> QED
    BY <1>1, <2>1, <2>2
<1>4. ASSUME NEW j \in Job, \/ Lists(j) \/ NoSource(j) \/ Stops(j) \/ GoesOn(j) \/ SyncEnds(j) \/ SyncStops(j) \/ Adds(j)
                            \/ \E p \in Path : Abandons(j, p) \/ Asks(j, p)
      PROVE  Unstarted' /\ Confirmations'
  <2>1. \A k \in Job : job'[k] = "none" => job[k] = "none"
    BY <1>4 DEF Lists, NoSource, Stops, GoesOn, SyncEnds, SyncStops, Adds, Abandons, Asks, End
  <2>2. UNCHANGED state /\ (confirmed' = confirmed \/ confirmed' = Sure(j, AutoConfirm[j]))
    BY <1>4 DEF Lists, NoSource, Stops, GoesOn, SyncEnds, SyncStops, Adds, Abandons, Asks, rows
  <2>3. AutoConfirm[j] \in {"none", "auto", "all"}
    BY ImportAssumption
  <2> QED
    BY <1>1, <2>1, <2>2, <2>3
<1>5. ASSUME NEW j \in Job, NEW p \in Path,
             \/ Claim(j, p)
             \/ \E t \in {"none", "review", "auto"}, m \in Manga \cup {NoManga} : Finds(j, p, t, m)
             \/ \E m \in Manga : Choose(j, p, m)
             \/ Unmatched(j, p) \/ Attaches(j, p)
      PROVE  Unstarted' /\ Confirmations'
  <2>1. job' = job
    BY <1>5 DEF Claim, Takes, Finds, Choose, Unmatched, Attaches, Settle
  <2>2. job[j] # "none"
    BY <1>5, AtWork DEF Claim, FreeWorker, Finds, Choose, Unmatched, Attaches, NextSeries
  <2>3. CASE Claim(j, p)
    BY <2>1, <2>2, <2>3, RowStep DEF Claim, Takes
  <2>4. CASE \E t \in {"none", "review", "auto"}, m \in Manga \cup {NoManga} : Finds(j, p, t, m)
    <3>1. state' = [state EXCEPT ![<<j, p>>] = "matched"] /\ confirmed' = confirmed
      BY <2>4 DEF Finds
    <3> QED
      BY <2>1, <2>2, <3>1, RowStep
  <2>5. CASE \E m \in Manga : Choose(j, p, m)
    <3>1. /\ state' = [state EXCEPT ![<<j, p>>] = "matched"]
          /\ confirmed' = [confirmed EXCEPT ![<<j, p>>] = TRUE]
      BY <2>5 DEF Choose
    <3> QED
      BY <2>1, <2>2, <3>1, RowStep
  <2>6. ASSUME NEW s \in {"failed", "synced"}, Settle(j, p, s) PROVE Unstarted' /\ Confirmations'
    BY <2>1, <2>2, <2>6, RowStep DEF Settle
  <2>7. CASE Unmatched(j, p) \/ Attaches(j, p)
    BY <2>6, <2>7 DEF Unmatched, Attaches
  <2> QED
    BY <1>5, <2>3, <2>4, <2>5, <2>7
<1>6. ASSUME NEW j \in Job, AskFails(j) \/ Fills(j)
      PROVE  Unstarted' /\ Confirmations'
  <2>1. current[j] \in Path
    BY <1>6 DEF AskFails, Fills, Awaiting
  <2>2. job[j] # "none" /\ job' = job
    BY <1>6, AtWork DEF AskFails, Fills, Settle
  <2>3. CASE AskFails(j)
    BY <2>1, <2>2, <2>3, RowStep DEF AskFails, Settle
  <2>4. ASSUME NEW s \in {"synced", "failed"}, Settle(j, current[j], s) PROVE Unstarted' /\ Confirmations'
    BY <2>1, <2>2, <2>4, RowStep DEF Settle
  <2>5. Fills(j) => \E s \in {"synced", "failed"} : Settle(j, current[j], s)
    BY DEF Fills
  <2> QED
    BY <1>6, <2>3, <2>4, <2>5
<1>7. ASSUME NEW j \in Job, NEW found \in Scans[j], Start(j, found)
      PROVE  Unstarted' /\ Confirmations'
  <2>1. job'[j] # "none" /\ \A k \in Job : job'[k] = "none" => job[k] = "none"
    BY <1>7 DEF Start, Superseded
  <2>2. \A x \in Row : x[1] = j => ~confirmed[x]
    BY <1>7 DEF Start, Unstarted, Confirmations
  <2>3. \A x \in Row : x[1] # j => state'[x] = state[x]
    BY <1>7 DEF Start, Insert
  <2>4. confirmed' = confirmed
    BY <1>7 DEF Start
  <2>5. Unstarted'
    BY <2>1, <2>3 DEF Unstarted, Row
  <2>6. Confirmations'
    BY <2>2, <2>3, <2>4 DEF Confirmations
  <2> QED
    BY <2>5, <2>6
<1>8. CASE Dies
  BY <1>8, RecoveryStep DEF Dies, Unstarted, Confirmations
<1>9. ASSUME NEW j \in Job, NEW found \in Scans[j], NEW part \in SUBSET found, DiesStarting(j, part)
      PROVE  Unstarted' /\ Confirmations'
  <2> DEFINE series == [x \in Row |-> IF x[1] = j /\ x[2] \in part THEN "pending" ELSE state[x]]
             status == Superseded(j, "scanning")
  <2>1. status \in [Job -> JobStatus] /\ series \in [Row -> SeriesState]
    BY DEF Superseded, JobStatus, SeriesState
  <2>2. \A x \in Row : x[1] = j => ~confirmed[x]
    BY <1>9 DEF DiesStarting, Unstarted, Confirmations
  <2>3. \A x \in Row : status[x[1]] = "none" => series[x] = "absent"
    BY DEF Superseded, Unstarted, Row
  <2>4. \A x \in Row : confirmed[x] => series[x] \notin {"absent", "pending", "matching"}
    BY <2>2 DEF Confirmations
  <2>5. Restart(status, series)
    BY <1>9 DEF DiesStarting
  <2> HIDE DEF series, status
  <2> QED
    BY <2>1, <2>3, <2>4, <2>5, RecoveryStep
<1> QED
  BY <1>2, <1>3, <1>4, <1>5, <1>6, <1>7, <1>8, <1>9 DEF Next, Requests, Runs, Matches, Syncs

\* What one step does to a confirmed series that no worker is matching.
LEMMA ChoiceStep ==
  ASSUME ChoiceInv, Next, NEW x \in Row, confirmed[x], x[2] \notin matching[x[1]]
  PROVE  ChoiceKept(x)
<1> USE DEF ChoiceInv, Inv, TypeOK
<1>1. ASSUME UNCHANGED <<manga, matching>>, confirmed'[x] PROVE ChoiceKept(x)
  BY <1>1 DEF ChoiceKept
<1>2. CASE BulkRun \/ \E m \in Manga : Follow(m) \/ Unfollow(m)
  BY <1>1, <1>2 DEF BulkRun, rows, run, Follow, Unfollow
<1>3. ASSUME NEW j \in Job, \/ Resume(j) \/ Sync(j) \/ Cancel(j) \/ Lists(j) \/ NoSource(j) \/ Stops(j)
                            \/ SyncEnds(j) \/ SyncStops(j) \/ Adds(j) \/ AskFails(j) \/ Fills(j)
                            \/ \E p \in Path : Asks(j, p) \/ Unmatched(j, p) \/ Attaches(j, p)
                            \/ \E found \in Scans[j] : Start(j, found)
      PROVE  ChoiceKept(x)
  BY <1>1, <1>3 DEF Resume, Sync, Cancel, Lists, NoSource, Stops, SyncEnds, SyncStops, Adds, AskFails, Fills,
     Asks, Unmatched, Attaches, Settle, Start, rows, run
<1>4. ASSUME NEW j \in Job, GoesOn(j) \/ \E mode \in {"auto", "all"} : Confirm(j, mode)
      PROVE  ChoiceKept(x)
  <2>1. UNCHANGED <<manga, matching>>
    BY <1>4 DEF GoesOn, Confirm, run
  <2>2. confirmed'[x]
    BY <1>4 DEF GoesOn, Confirm, Sure
  <2> QED
    BY <1>1, <2>1, <2>2
<1>5. ASSUME NEW j \in Job, NEW p \in Path, Claim(j, p) PROVE ChoiceKept(x)
  <2>1. x # <<j, p>>
    BY <1>5 DEF Claim, Confirmations
  <2>2. UNCHANGED <<manga, confirmed>> /\ matching' = [matching EXCEPT ![j] = @ \cup {p}]
    BY <1>5 DEF Claim, Takes
  <2> QED
    BY <2>1, <2>2 DEF ChoiceKept, Row
<1>6. ASSUME NEW j \in Job, NEW p \in Path, Abandons(j, p) PROVE ChoiceKept(x)
  BY <1>6 DEF Abandons, rows, ChoiceKept, Row
<1>7. ASSUME NEW j \in Job, NEW p \in Path, NEW t \in {"none", "review", "auto"}, NEW m \in Manga \cup {NoManga},
             Finds(j, p, t, m)
      PROVE  ChoiceKept(x)
  <2>1. x # <<j, p>>
    BY <1>7 DEF Finds
  <2>2. confirmed' = confirmed /\ manga'[x] = manga[x] /\ matching' = [matching EXCEPT ![j] = @ \ {p}]
    BY <1>7, <2>1 DEF Finds
  <2> QED
    BY <2>2 DEF ChoiceKept, Row
<1>8. ASSUME NEW j \in Job, NEW p \in Path, NEW m \in Manga, Choose(j, p, m) PROVE ChoiceKept(x)
  <2>1. matching' = matching /\ confirmed'[x]
    BY <1>8 DEF Choose, run
  <2>2. CASE x = <<j, p>>
    BY <1>8, <2>1, <2>2 DEF ChoiceKept
  <2>3. CASE x # <<j, p>>
    BY <1>8, <2>1, <2>3 DEF ChoiceKept, Choose
  <2> QED
    BY <2>2, <2>3
<1>9. CASE Dies \/ \E j \in Job : \E found \in Scans[j] : \E part \in SUBSET found : DiesStarting(j, part)
  <2>1. UNCHANGED <<manga, confirmed>> /\ matching' = [j \in Job |-> {}]
    BY <1>9 DEF Dies, DiesStarting, Restart
  <2> QED
    BY <2>1 DEF ChoiceKept, Row
<1> QED
  BY <1>2, <1>3, <1>4, <1>5, <1>6, <1>7, <1>8, <1>9 DEF Next, Requests, Runs, Matches, Syncs

\* A confirmed series is never matched again, and only the user changes its
\* match, unless a worker was matching it when it was chosen.
THEOREM ConfirmedChoicesKept == Spec => ChoicesKept
<1> DEFINE P == \A x \in Row : confirmed[x] /\ x[2] \notin matching[x[1]] => ChoiceKept(x)
<1>1. Init => ChoiceInv
  BY InitInv DEF ChoiceInv, Claimed, Unstarted, Confirmations, Init, Row
<1>2. ChoiceInv /\ [Next]_vars => ChoiceInv'
  BY StepKeepsInv, ClaimedKeeps, ConfirmationsKeep DEF ChoiceInv
<1>3. ChoiceInv /\ Next => P
  BY ChoiceStep
<1>4. Spec => [][P]_vars
  BY <1>1, <1>2, <1>3, PTL DEF Spec
<1> QED
  BY <1>4, PTL DEF ChoicesKept

-----------------------------------------------------------------------------
(* Cancelling                                                               *)

LEMMA CancelStep ==
  ASSUME TypeOK, Next, NEW j \in cancelled
  PROVE  matching'[j] \subseteq matching[j] /\ current'[j] \in {current[j], NoPath}
<1> USE DEF TypeOK
<1>1. CASE UNCHANGED <<matching, current>>
  BY <1>1
<1>2. ASSUME NEW k \in Job,
             \/ Resume(k) \/ Sync(k) \/ Cancel(k) \/ \E mode \in {"auto", "all"} : Confirm(k, mode)
             \/ \E p \in Path, m \in Manga : Choose(k, p, m)
             \/ Lists(k) \/ NoSource(k) \/ Stops(k) \/ GoesOn(k) \/ SyncEnds(k) \/ SyncStops(k) \/ Adds(k)
             \/ \E found \in Scans[k] : Start(k, found)
      PROVE  UNCHANGED <<matching, current>>
  BY <1>2 DEF Resume, Sync, Cancel, Confirm, Choose, Lists, NoSource, Stops, GoesOn, SyncEnds, SyncStops, Adds, Start, run
<1>3. CASE BulkRun \/ \E m \in Manga : Follow(m) \/ Unfollow(m)
  BY <1>1, <1>3 DEF BulkRun, Follow, Unfollow, run
<1>5. ASSUME NEW k \in Job, \/ AskFails(k) \/ Fills(k)
                            \/ \E p \in Path : Unmatched(k, p) \/ Attaches(k, p)
      PROVE  matching' = matching /\ current'[j] \in {current[j], NoPath}
  BY <1>5 DEF AskFails, Fills, Unmatched, Attaches, Settle
<1>6. ASSUME NEW k \in Job, NEW p \in Path, Claim(k, p) \/ Asks(k, p)
      PROVE  matching'[j] = matching[j] /\ current'[j] = current[j]
  BY <1>6 DEF Claim, Takes, Asks, NextSeries
<1>7. ASSUME NEW k \in Job, NEW p \in Path, \/ Abandons(k, p)
                                            \/ \E t \in {"none", "review", "auto"}, m \in Manga \cup {NoManga} : Finds(k, p, t, m)
      PROVE  matching'[j] \subseteq matching[j] /\ current' = current
  <2>1. matching' = [matching EXCEPT ![k] = @ \ {p}] /\ current' = current
    BY <1>7 DEF Abandons, Finds
  <2> QED
    BY <2>1
<1>8. CASE Dies \/ \E k \in Job : \E found \in Scans[k] : \E part \in SUBSET found : DiesStarting(k, part)
  BY <1>8 DEF Dies, DiesStarting, Restart
<1> QED
  BY <1>1, <1>2, <1>3, <1>5, <1>6, <1>7, <1>8 DEF Next, Requests, Runs, Matches, Syncs

\* A cancelled run begins nothing more.
THEOREM CancelledRunsStop == Spec => CancelStops
<1> DEFINE P == \A j \in cancelled : phase[j] # "idle" =>
                   /\ matching'[j] \subseteq matching[j]
                   /\ current'[j] \in {current[j], NoPath}
<1>1. Inv /\ Next => P
  BY CancelStep DEF Inv
<1>2. Spec => [][P]_vars
  BY <1>1, ImportInvariant, PTL DEF Spec
<1> QED
  BY <1>2, PTL DEF CancelStops

-----------------------------------------------------------------------------
(* The end of a run                                                         *)

\* A run that awaits a source awaits one of the series it has to settle, and a
\* series in the hands of a worker is not waiting for one.
Asked == \A j \in Job : phase[j] \in {"asking", "filling"} => current[j] \in todo[j]
Apart == \A j \in Job : \A p \in matching[j] : state[<<j, p>>] # "pending"
EndInv == ChoiceInv /\ Asked /\ Apart

\* What a run has before it: two steps for each series to match, three for each
\* one to sync, and those between the phases.
Waiting(j) == SeriesIn(j, {"pending"})
Left(j) ==
  CASE phase[j] = "listing" -> 3 * Cardinality(Path) + 2 * Cardinality(Waiting(j)) + 3
    [] phase[j] = "matching" ->
         3 * Cardinality(Path) + 2 * Cardinality(Waiting(j)) + Cardinality(matching[j]) + 2
    [] phase[j] = "syncing" -> 3 * Cardinality(todo[j]) + 1
    [] phase[j] = "asking" -> 3 * Cardinality(todo[j])
    [] phase[j] = "filling" -> 3 * Cardinality(todo[j]) - 1
    [] OTHER -> 0

\* What is left of a run is bounded by the folder; its own steps use it up, and
\* nothing anybody else does meanwhile adds to it.
Shrinks(j) ==
  Running(j) /\ Running(j)' => /\ Left(j)' <= Left(j)
                               /\ Runs(j) => Left(j)' < Left(j)
LeftIsBounded == \A j \in Job : Left(j) \in 0..(5 * Cardinality(Path) + 3)

LEMMA Counted ==
  ASSUME NEW S, S \subseteq Path
  PROVE  IsFiniteSet(S) /\ Cardinality(S) \in Nat /\ Cardinality(S) <= Cardinality(Path)
<1>1. IsFiniteSet(Path)
  BY ImportAssumption
<1>2. IsFiniteSet(S) /\ Cardinality(S) <= Cardinality(Path)
  BY <1>1, FS_Subset
<1> QED
  BY <1>2, FS_CardinalityType

LEMMA Fewer ==
  ASSUME NEW S, NEW T, S \subseteq T, T \subseteq Path
  PROVE  Cardinality(S) <= Cardinality(T)
BY Counted, FS_Subset

LEMMA OneFewer ==
  ASSUME NEW S, NEW x \in S, S \subseteq Path
  PROVE  Cardinality(S \ {x}) = Cardinality(S) - 1
BY Counted, FS_RemoveElement

LEMMA OneMore ==
  ASSUME NEW S, NEW x, x \notin S, S \subseteq Path
  PROVE  Cardinality(S \cup {x}) = Cardinality(S) + 1
BY Counted, FS_AddElement

\* Only a run that is under way makes steps of a run, and it runs alone.
LEMMA RunsRun ==
  ASSUME Inv, Claimed, NEW j \in Job, Runs(j)
  PROVE  Running(j) /\ \A k \in Job : Running(k) => k = j
<1>1. phase[j] # "idle"
  <2>1. CASE Matches(j)
    BY <2>1 DEF Matches, Lists, NoSource, Stops, GoesOn, Matched, Claim, FreeWorker, Abandons, Finds, Claimed
  <2>2. CASE Syncs(j)
    BY <2>2 DEF Syncs, SyncEnds, SyncStops, AskFails, Adds, Fills, Unmatched, Attaches, Asks, NextSeries
  <2> QED
    BY <2>1, <2>2 DEF Runs
<1>2. Running(j)
  BY <1>1 DEF Running
<1> QED
  BY <1>2 DEF Inv, RunsHoldSlot

\* Steps of others and of the user leave a run where it is.
LEMMA OthersLeave ==
  ASSUME Inv, Claimed, [Next]_vars, NEW j \in Job, Running(j), ~Runs(j)
  PROVE  \/ ~Running(j)' /\ matching'[j] = {}
         \/ /\ UNCHANGED <<phase[j], matching[j], todo[j], current[j]>>
            /\ \A p \in Path : state'[<<j, p>>] = "pending" => state[<<j, p>>] = "pending"
<1> DEFINE Left_ == /\ UNCHANGED <<phase[j], matching[j], todo[j], current[j]>>
                    /\ \A p \in Path : state'[<<j, p>>] = "pending" => state[<<j, p>>] = "pending"
<1>0. slot # {} /\ TypeOK
  BY DEF Inv, RunsHoldSlot
<1>1. ~(\E k \in Job : (\E found \in Scans[k] : Start(k, found)) \/ Resume(k) \/ Sync(k))
  BY <1>0 DEF Start, Resume, Sync, Begin
<1>2. ~(\E k \in Job : \E found \in Scans[k] : \E part \in SUBSET found : DiesStarting(k, part))
  BY <1>0 DEF DiesStarting
<1>3. ~(\E k \in Job : Runs(k))
  BY RunsRun
<1>4. Dies => ~Running(j)' /\ matching'[j] = {}
  BY DEF Dies, Restart, Running
<1>5. ASSUME NEW k \in Job, Cancel(k) \/ \E mode \in {"auto", "all"} : Confirm(k, mode)
      PROVE  Left_
  BY <1>5 DEF Cancel, Confirm, run, rows
<1>6. ASSUME NEW k \in Job, NEW q \in Path, NEW m \in Manga, Choose(k, q, m) PROVE Left_
  BY <1>0, <1>6 DEF Choose, run, TypeOK, Row
<1>7. BulkRun \/ UNCHANGED vars \/ (\E m \in Manga : Follow(m) \/ Unfollow(m)) => Left_
  BY DEF BulkRun, vars, run, rows, Follow, Unfollow
<1> HIDE DEF Left_
<1>8. (~Running(j)' /\ matching'[j] = {}) \/ Left_
  BY <1>1, <1>2, <1>3, <1>4, <1>5, <1>6, <1>7 DEF Next, Requests
<1> QED
  BY <1>8 DEF Left_

\* A run that begins has everything before it.
LEMMA BegunAfresh ==
  ASSUME Inv, Claimed, [Next]_vars, NEW j \in Job, ~Running(j)
  PROVE  phase'[j] \in {"idle", "listing", "syncing"} /\ matching'[j] = {}
<1>0. TypeOK /\ phase[j] = "idle" /\ matching[j] = {}
  BY DEF Inv, Running, Claimed
<1> USE <1>0 DEF TypeOK
<1>1. ASSUME NEW k \in Job, (\E found \in Scans[k] : Start(k, found)) \/ Resume(k) \/ Sync(k)
      PROVE  phase'[j] \in {"idle", "listing", "syncing"} /\ matching' = matching
  BY <1>1 DEF Start, Resume, Sync, ReadRows
<1>2. ASSUME NEW k \in Job, Runs(k)
      PROVE  phase'[j] = "idle" /\ matching'[j] = {}
  <2>1. k # j
    BY <1>2, RunsRun
  <2>2. CASE Matches(k)
    BY <2>1, <2>2 DEF Matches, Lists, NoSource, Stops, GoesOn, ReadRows, End, Claim, Takes, Abandons, Finds
  <2>3. CASE Syncs(k)
    BY <2>1, <2>3 DEF Syncs, SyncEnds, SyncStops, AskFails, Adds, Fills, Unmatched, Attaches, Asks, Settle, End
  <2> QED
    BY <1>2, <2>2, <2>3 DEF Runs
<1>3. CASE Dies \/ \E k \in Job : \E found \in Scans[k] : \E part \in SUBSET found : DiesStarting(k, part)
  BY <1>3 DEF Dies, DiesStarting, Restart
<1>4. CASE BulkRun \/ UNCHANGED vars \/ \E m \in Manga : Follow(m) \/ Unfollow(m)
  BY <1>4 DEF BulkRun, vars, run, Follow, Unfollow
<1>5. ASSUME NEW k \in Job, \/ Cancel(k)
                            \/ \E mode \in {"auto", "all"} : Confirm(k, mode)
                            \/ \E p \in Path, m \in Manga : Choose(k, p, m)
      PROVE  UNCHANGED <<phase, matching>>
  BY <1>5 DEF Cancel, Confirm, Choose, run
<1> QED
  BY <1>1, <1>2, <1>3, <1>4, <1>5 DEF Next, Requests

LEMMA EndInit == Init => EndInv
<1>1. Init => Inv
  BY InitInv
<1>2. Init => Claimed /\ Unstarted /\ Confirmations /\ Asked /\ Apart
  BY DEF Init, Claimed, Unstarted, Confirmations, Asked, Apart, Row
<1> QED
  BY <1>1, <1>2 DEF EndInv, ChoiceInv

\* Its own steps: a worker's claim or answer uses up one.
LEMMA MatchingShrinks ==
  ASSUME Inv, Claimed, Apart, NEW j \in Job, Matches(j), Running(j)'
  PROVE  /\ Left(j)' < Left(j)
         /\ phase'[j] \in {"matching", "syncing"}
         /\ \A p \in matching'[j] : state'[<<j, p>>] # "pending"
<1> DEFINE N == Cardinality(Path)
           w == Waiting(j)
           v == Waiting(j)'
           m == matching[j]
           n == matching'[j]
           d == todo'[j]
           Goal == /\ Left(j)' < Left(j)
                   /\ phase'[j] \in {"matching", "syncing"}
                   /\ \A p \in n : state'[<<j, p>>] # "pending"
<1>0. /\ TypeOK /\ w \subseteq Path /\ v \subseteq Path /\ m \subseteq Path
      /\ \A p \in m : state[<<j, p>>] # "pending"
  BY DEF Inv, Waiting, SeriesIn, TypeOK, Apart
<1>1. /\ phase[j] = "listing" => Left(j) = 3 * N + 2 * Cardinality(w) + 3
      /\ phase[j] = "matching" => Left(j) = 3 * N + 2 * Cardinality(w) + Cardinality(m) + 2
      /\ phase'[j] = "matching" => Left(j)' = 3 * N + 2 * Cardinality(v) + Cardinality(n) + 2
      /\ phase'[j] = "syncing" => Left(j)' = 3 * Cardinality(d) + 1
  BY DEF Left
<1> HIDE DEF N, w, v, m, n, d
<1>2. /\ N \in Nat /\ Cardinality(w) \in Nat /\ Cardinality(v) \in Nat /\ Cardinality(m) \in Nat
      /\ Cardinality({}) = 0
  BY <1>0, Counted, ImportAssumption, FS_CardinalityType, FS_EmptySet DEF N
<1>3. CASE Lists(j)
  <2>1. phase[j] = "listing" /\ phase'[j] = "matching" /\ v = w /\ n = {} /\ m = {}
    BY <1>0, <1>3 DEF Lists, TypeOK, Claimed, Waiting, SeriesIn, rows, v, w, n, m
  <2>2. Left(j)' < Left(j)
    BY <1>1, <1>2, <2>1
  <2> QED
    BY <2>1, <2>2 DEF n
<1>4. ~(NoSource(j) \/ Stops(j))
  BY <1>0 DEF NoSource, Stops, End, Running, TypeOK
<1>5. ASSUME NEW p \in Path, Claim(j, p) PROVE Goal
  <2>1. /\ p \in w /\ v = w \ {p} /\ n = m \cup {p} /\ p \notin m
        /\ phase[j] = "matching" /\ phase'[j] = "matching"
    BY <1>0, <1>5 DEF Claim, FreeWorker, Takes, TypeOK, Waiting, SeriesIn, Row, v, w, n, m
  <2>2. Cardinality(v) = Cardinality(w) - 1 /\ Cardinality(n) = Cardinality(m) + 1
    BY <1>0, <2>1, OneFewer, OneMore
  <2>3. Left(j)' < Left(j)
    BY <1>1, <1>2, <2>1, <2>2
  <2>4. \A q \in n : state'[<<j, q>>] # "pending"
    BY <1>0, <1>5, <2>1 DEF Claim, Takes, TypeOK, Row, m
  <2> QED
    BY <2>1, <2>3, <2>4
<1>6. ASSUME NEW p \in Path,
             \/ Abandons(j, p)
             \/ \E t \in {"none", "review", "auto"}, x \in Manga \cup {NoManga} : Finds(j, p, t, x)
      PROVE  Goal
  <2>1. /\ p \in m /\ n = m \ {p} /\ phase' = phase
        /\ state' = state \/ state' = [state EXCEPT ![<<j, p>>] = "matched"]
    BY <1>0, <1>6 DEF Abandons, Finds, TypeOK, rows, n, m
  <2>2. phase[j] = "matching"
    BY <1>6 DEF Abandons, Finds, Claimed
  <2>3. \A q \in Path : state'[<<j, q>>] = "pending" => state[<<j, q>>] = "pending"
    BY <1>0, <2>1 DEF TypeOK, Row
  <2>4. v \subseteq w
    BY <2>3 DEF v, w, Waiting, SeriesIn
  <2>5. Cardinality(v) <= Cardinality(w) /\ Cardinality(n) = Cardinality(m) - 1
    BY <1>0, <2>1, <2>4, Fewer, OneFewer
  <2>6. Left(j)' < Left(j)
    BY <1>1, <1>2, <2>1, <2>2, <2>5
  <2>7. \A q \in n : state'[<<j, q>>] # "pending"
    BY <1>0, <2>1, <2>3
  <2> QED
    BY <2>1, <2>2, <2>6, <2>7
<1>7. CASE GoesOn(j)
  <2>1. /\ phase[j] = "matching" /\ phase'[j] = "syncing" /\ m = {} /\ n = {} /\ d \subseteq Path
    BY <1>0, <1>7 DEF GoesOn, Matched, ReadRows, TypeOK, SeriesIn, d, m, n
  <2>2. Cardinality(d) \in Nat /\ Cardinality(d) <= N
    BY <2>1, Counted DEF N
  <2>3. Left(j)' < Left(j)
    BY <1>1, <1>2, <2>1, <2>2
  <2> QED
    BY <2>1, <2>3 DEF n
<1> HIDE DEF Goal
<1>8. Lists(j) => Goal
  BY <1>3 DEF Goal, n
<1>9. GoesOn(j) => Goal
  BY <1>7 DEF Goal, n
<1>10. Goal
  BY <1>4, <1>5, <1>6, <1>8, <1>9 DEF Matches
<1> QED
  BY <1>10 DEF Goal, n

\* ... and so does asking for a series, adding it and settling it.
LEMMA SyncingShrinks ==
  ASSUME Inv, Claimed, Asked, NEW j \in Job, Syncs(j), Running(j)'
  PROVE  /\ Left(j)' < Left(j)
         /\ matching'[j] = {}
         /\ phase'[j] \in {"asking", "filling"} => current'[j] \in todo'[j]
<1> DEFINE t == todo[j]
           d == todo'[j]
           Asking == phase'[j] \in {"asking", "filling"} => current'[j] \in todo'[j]
<1>0. TypeOK /\ t \subseteq Path
  BY DEF Inv, TypeOK
<1>1. /\ phase[j] = "syncing" => Left(j) = 3 * Cardinality(t) + 1
      /\ phase[j] = "asking" => Left(j) = 3 * Cardinality(t)
      /\ phase[j] = "filling" => Left(j) = 3 * Cardinality(t) - 1
      /\ phase'[j] = "syncing" => Left(j)' = 3 * Cardinality(d) + 1
      /\ phase'[j] = "asking" => Left(j)' = 3 * Cardinality(d)
      /\ phase'[j] = "filling" => Left(j)' = 3 * Cardinality(d) - 1
  BY DEF Left
<1>2. Cardinality(t) \in Nat
  BY <1>0, Counted
<1>3. phase[j] \in {"syncing", "asking", "filling"} /\ matching' = matching
  BY DEF Syncs, SyncEnds, SyncStops, AskFails, Adds, Fills, Unmatched, Attaches, Asks, NextSeries, Settle
<1>4. matching'[j] = {}
  BY <1>3 DEF Claimed
<1>5. ~(SyncEnds(j) \/ SyncStops(j))
  BY <1>0 DEF SyncEnds, SyncStops, End, Running, TypeOK
<1>6. ASSUME NEW p \in t, NEW s, Settle(j, p, s)
      PROVE  Left(j)' < Left(j) /\ Asking
  <2>1. d = t \ {p} /\ phase'[j] = "syncing"
    BY <1>0, <1>6 DEF Settle, TypeOK
  <2> HIDE DEF t, d
  <2>2. Cardinality(d) = Cardinality(t) - 1
    BY <1>0, <2>1, OneFewer
  <2>3. Left(j)' < Left(j)
    BY <1>1, <1>2, <1>3, <2>1, <2>2
  <2> QED
    BY <2>1, <2>3
<1>7. AskFails(j) \/ Fills(j) => \E p \in t, s \in SeriesState : Settle(j, p, s)
  BY DEF AskFails, Fills, Asked, SeriesState
<1>8. (\E p \in Path : Unmatched(j, p) \/ Attaches(j, p)) => \E p \in t, s \in SeriesState : Settle(j, p, s)
  BY DEF Unmatched, Attaches, NextSeries, SeriesState
<1>9. ASSUME NEW p \in Path, Asks(j, p) PROVE Left(j)' < Left(j) /\ Asking
  <2>1. d = t /\ phase[j] = "syncing" /\ phase'[j] = "asking" /\ p \in t /\ current'[j] = p
    BY <1>0, <1>9 DEF Asks, NextSeries, TypeOK
  <2>2. Left(j)' < Left(j)
    <3> HIDE DEF t, d
    <3> QED
      BY <1>1, <1>2, <2>1
  <2> QED
    BY <2>1, <2>2
<1>10. CASE Adds(j)
  <2>1. d = t /\ phase[j] = "asking" /\ phase'[j] = "filling" /\ current' = current /\ current[j] \in t
    BY <1>0, <1>10 DEF Adds, TypeOK, Asked
  <2>2. Left(j)' < Left(j)
    <3> HIDE DEF t, d
    <3> QED
      BY <1>1, <1>2, <2>1
  <2> QED
    BY <1>4, <2>1, <2>2
<1> HIDE DEF Asking
<1>11. Adds(j) => Left(j)' < Left(j) /\ Asking
  BY <1>10 DEF Asking
<1>12. Left(j)' < Left(j) /\ Asking
  BY <1>5, <1>6, <1>7, <1>8, <1>9, <1>11 DEF Syncs
<1> QED
  BY <1>4, <1>12 DEF Asking

LEMMA StepKeepsEnd == EndInv /\ [Next]_vars => Asked' /\ Apart'
<1> SUFFICES ASSUME EndInv, [Next]_vars, NEW j \in Job
             PROVE  /\ phase'[j] \in {"asking", "filling"} => current'[j] \in todo'[j]
                    /\ \A p \in matching'[j] : state'[<<j, p>>] # "pending"
  BY DEF Asked, Apart
<1>0. Inv /\ Claimed /\ Asked /\ Apart /\ TypeOK
  BY DEF EndInv, ChoiceInv, Inv
<1>1. CASE ~Running(j)
  BY <1>0, <1>1, BegunAfresh
<1>2. CASE Running(j) /\ ~Runs(j)
  <2>1. CASE ~Running(j)' /\ matching'[j] = {}
    BY <2>1 DEF Running
  <2>2. CASE /\ UNCHANGED <<phase[j], matching[j], todo[j], current[j]>>
             /\ \A p \in Path : state'[<<j, p>>] = "pending" => state[<<j, p>>] = "pending"
    <3>1. matching[j] \subseteq Path
      BY <1>0 DEF TypeOK
    <3> QED
      BY <1>0, <2>2, <3>1 DEF Asked, Apart
  <2> QED
    BY <1>0, <1>2, <2>1, <2>2, OthersLeave
<1>3. CASE Runs(j) /\ Running(j)'
  <2>1. CASE Matches(j)
    BY <1>0, <1>3, <2>1, MatchingShrinks
  <2>2. CASE Syncs(j)
    BY <1>0, <1>3, <2>2, SyncingShrinks
  <2> QED
    BY <1>3, <2>1, <2>2 DEF Runs
<1>4. CASE Runs(j) /\ ~Running(j)'
  <2>1. phase'[j] = "idle"
    BY <1>4 DEF Running
  <2>2. ASSUME matching[j] # {} PROVE phase'[j] # "idle"
    <3>1. phase[j] = "matching"
      BY <1>0, <2>2 DEF Claimed
    <3>2. ~(Lists(j) \/ NoSource(j) \/ Stops(j) \/ GoesOn(j) \/ Syncs(j))
      BY <2>2, <3>1 DEF Lists, NoSource, Stops, GoesOn, Matched, Syncs, SyncEnds, SyncStops, AskFails, Adds,
                        Fills, Unmatched, Attaches, Asks, NextSeries
    <3> QED
      BY <1>4, <3>1, <3>2 DEF Runs, Matches, Claim, Takes, Abandons, Finds
  <2>3. matching'[j] = {}
    <3>1. matching[j] = {}
      BY <2>1, <2>2
    <3>2. CASE Matches(j)
      <4>1. ~(\E p \in Path : Claim(j, p))
        BY <1>0, <2>1, <1>4 DEF Claim, FreeWorker, Takes, Running
      <4> QED
        BY <3>1, <3>2, <4>1 DEF Matches, Lists, NoSource, Stops, GoesOn, Abandons, Finds
    <3>3. CASE Syncs(j)
      BY <3>1, <3>3 DEF Syncs, SyncEnds, SyncStops, AskFails, Adds, Fills, Unmatched, Attaches, Asks, Settle
    <3> QED
      BY <1>4, <3>2, <3>3 DEF Runs
  <2> QED
    BY <2>1, <2>3
<1> QED
  BY <1>1, <1>2, <1>3, <1>4

LEMMA LeftInRange == EndInv => LeftIsBounded
<1> SUFFICES ASSUME EndInv, NEW j \in Job
             PROVE  Left(j) \in 0..(5 * Cardinality(Path) + 3)
  BY DEF LeftIsBounded
<1> DEFINE N == Cardinality(Path)
           w == Waiting(j)
           m == matching[j]
           t == todo[j]
<1>0. TypeOK /\ Asked /\ Apart
  BY DEF EndInv, ChoiceInv, Inv
<1>1. w \subseteq Path /\ m \subseteq Path /\ t \subseteq Path /\ w \cap m = {}
  BY <1>0 DEF Waiting, SeriesIn, TypeOK, Apart
<1>2. phase[j] \in {"asking", "filling"} => t # {}
  BY <1>0 DEF Asked
<1>3. /\ phase[j] = "listing" => Left(j) = 3 * N + 2 * Cardinality(w) + 3
      /\ phase[j] = "matching" => Left(j) = 3 * N + 2 * Cardinality(w) + Cardinality(m) + 2
      /\ phase[j] = "syncing" => Left(j) = 3 * Cardinality(t) + 1
      /\ phase[j] = "asking" => Left(j) = 3 * Cardinality(t)
      /\ phase[j] = "filling" => Left(j) = 3 * Cardinality(t) - 1
      /\ phase[j] = "idle" => Left(j) = 0
  BY DEF Left
<1>4. phase[j] \in {"idle", "listing", "matching", "syncing", "asking", "filling"}
  BY <1>0 DEF TypeOK, Phase
<1> HIDE DEF w, m, t, N
<1>5. /\ N \in Nat /\ Cardinality(w) \in Nat /\ Cardinality(m) \in Nat /\ Cardinality(t) \in Nat
      /\ Cardinality(w) <= N /\ Cardinality(t) <= N
      /\ IsFiniteSet(w) /\ IsFiniteSet(m) /\ IsFiniteSet(t)
  BY <1>1, Counted, ImportAssumption, FS_CardinalityType DEF N
<1>6. Cardinality(w) + Cardinality(m) <= N
  <2> DEFINE u == w \cup m
  <2>1. u \subseteq Path /\ Cardinality(w \cap m) = 0
    BY <1>1, FS_EmptySet
  <2>2. Cardinality(u) = Cardinality(w) + Cardinality(m) - Cardinality(w \cap m)
    BY <1>5, FS_Union
  <2> HIDE DEF u
  <2>3. Cardinality(u) <= N
    BY <2>1, Counted DEF N
  <2> QED
    BY <1>5, <2>1, <2>2, <2>3
<1>7. phase[j] \in {"asking", "filling"} => Cardinality(t) >= 1
  BY <1>2, <1>5, FS_EmptySet
<1>8. Left(j) \in 0..(5 * N + 3)
  BY <1>3, <1>4, <1>5, <1>6, <1>7
<1> QED
  BY <1>8 DEF N

\* A run only ever gets shorter, through its own steps, and takes no more than
\* five steps for each series of the folder and four: what RunsEnd needs besides
\* fairness (service.ts:277-371, matcher.ts and syncer.ts).
THEOREM RunsShrink == Spec => []LeftIsBounded /\ [][\A j \in Job : Shrinks(j)]_vars
<1>1. EndInv /\ [Next]_vars => EndInv'
  <2> SUFFICES ASSUME EndInv, [Next]_vars PROVE EndInv'
    OBVIOUS
  <2>1. Inv' /\ Claimed' /\ Unstarted' /\ Confirmations'
    BY StepKeepsInv, ClaimedKeeps, ConfirmationsKeep DEF EndInv, ChoiceInv
  <2>2. Asked' /\ Apart'
    BY StepKeepsEnd
  <2> QED
    BY <2>1, <2>2 DEF EndInv, ChoiceInv
<1>2. EndInv /\ [Next]_vars => [\A j \in Job : Shrinks(j)]_vars
  <2> SUFFICES ASSUME EndInv, [Next]_vars, NEW j \in Job, Running(j), Running(j)'
               PROVE  Left(j)' <= Left(j) /\ (Runs(j) => Left(j)' < Left(j))
    BY DEF Shrinks
  <2>0. Inv /\ Claimed /\ Asked /\ Apart /\ TypeOK
    BY DEF EndInv, ChoiceInv, Inv
  <2>1. Left(j) \in Int /\ Left(j)' \in Int
    <3>1. LeftIsBounded /\ LeftIsBounded'
      BY <1>1, LeftInRange, PTL
    <3> QED
      BY <3>1 DEF LeftIsBounded
  <2>2. CASE Runs(j)
    <3>1. Left(j)' < Left(j)
      BY <2>0, <2>2, MatchingShrinks, SyncingShrinks DEF Runs
    <3> QED
      BY <2>1, <3>1
  <2>3. CASE ~Runs(j)
    <3>1. /\ UNCHANGED <<phase[j], matching[j], todo[j]>>
          /\ \A p \in Path : state'[<<j, p>>] = "pending" => state[<<j, p>>] = "pending"
      BY <2>0, <2>3, OthersLeave
    <3>2. Waiting(j)' \subseteq Waiting(j) /\ Waiting(j) \subseteq Path
      BY <3>1 DEF Waiting, SeriesIn
    <3> DEFINE w == Waiting(j)
               v == Waiting(j)'
    <3>3. v \subseteq w /\ w \subseteq Path
      BY <3>2
    <3> HIDE DEF w, v
    <3>4. Cardinality(v) <= Cardinality(w) /\ Cardinality(v) \in Nat /\ Cardinality(w) \in Nat
      BY <3>3, Fewer, Counted
    <3>5. CASE phase[j] = "listing"
      <4>1. Left(j)' = 3 * Cardinality(Path) + 2 * Cardinality(v) + 3
        BY <3>1, <3>5 DEF Left, v
      <4>2. Left(j) = 3 * Cardinality(Path) + 2 * Cardinality(w) + 3
        BY <3>5 DEF Left, w
      <4> QED
        BY <2>3, <3>4, <4>1, <4>2, Counted
    <3>6. CASE phase[j] = "matching"
      <4>1. Left(j)' = 3 * Cardinality(Path) + 2 * Cardinality(v) + Cardinality(matching[j]) + 2
        BY <3>1, <3>6 DEF Left, v
      <4>2. Left(j) = 3 * Cardinality(Path) + 2 * Cardinality(w) + Cardinality(matching[j]) + 2
        BY <3>6 DEF Left, w
      <4>3. Cardinality(matching[j]) \in Nat
        BY <2>0, Counted DEF TypeOK
      <4> QED
        BY <2>3, <3>4, <4>1, <4>2, <4>3, Counted
    <3>7. CASE phase[j] \notin {"listing", "matching"}
      <4>1. Left(j)' = Left(j)
        BY <3>1, <3>7 DEF Left
      <4> QED
        BY <2>1, <2>3, <4>1
    <3> QED
      BY <3>5, <3>6, <3>7
  <2> QED
    BY <2>2, <2>3
<1> QED
  BY EndInit, LeftInRange, <1>1, <1>2, PTL DEF Spec
=============================================================================
