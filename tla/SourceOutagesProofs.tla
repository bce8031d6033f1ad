------------------------- MODULE SourceOutagesProofs -------------------------
(***************************************************************************)
(* Proofs about SourceOutages, for any jobs, entries, waits and windows.   *)
(***************************************************************************)
EXTENDS SourceOutages, TLAPS

\* The inductive invariant: an escalated row exists, so that no failure opens
\* it anew.
Inv == TypeOK /\ EscalationEarned

\* A row does not go from open to closed.
StaysOpen == ~(outage = "open" /\ outage' = "closed")

-----------------------------------------------------------------------------
(* What the operators on the row and on the ladder preserve                 *)

LEMMA Bounds ==
  /\ Window \in Nat /\ Silence \in Nat /\ LongAgo \in Nat
  /\ Escalation \in Nat /\ Escalation > 0
  /\ RetryMax \in Nat /\ RetryCap \in Nat
BY OutagesAssumption

LEMMA NoteKeeps ==
  ASSUME WaveOK, EscalationEarned, NEW open \in BOOLEAN, Note(open)
  PROVE  WaveOK' /\ EscalationEarned' /\ KeepsEscalation /\ StaysOpen
<1> USE Bounds DEF WaveOK, EscalationEarned, KeepsEscalation, StaysOpen
<1>1. CASE UNCHANGED wave
  BY <1>1 DEF wave
<1>2. CASE seen' = 0 /\ Refresh
  BY <1>2 DEF Refresh
<1>3. CASE seen' = 0 /\ Reopen
  <2> USE <1>3 DEF Reopen
  <2>1. WaveOK'
    OBVIOUS
  <2>2. EscalationEarned'
    OBVIOUS
  <2>3. KeepsEscalation
    <3>1. closedFor < Silence \/ closedFor >= Silence
      OBVIOUS
    <3> QED BY <3>1, Zenon
  <2>4. StaysOpen
    OBVIOUS
  <2> QED BY <2>1, <2>2, <2>3, <2>4
<1>4. CASE seen' = 0 /\ Open
  <2> USE <1>4 DEF Open
  <2>1. WaveOK'
    <3>1. 0 \in 0..Escalation /\ 0 \in 0..LongAgo
      OBVIOUS
    <3> QED BY <3>1, Zenon
  <2>2. EscalationEarned'
    OBVIOUS
  <2>3. KeepsEscalation
    OBVIOUS
  <2>4. StaysOpen
    OBVIOUS
  <2> QED BY <2>1, <2>2, <2>3, <2>4
<1> QED BY <1>1, <1>2, <1>3, <1>4 DEF Note

LEMMA NoteInfraKeeps ==
  ASSUME WaveOK, EscalationEarned, NEW ended, NoteInfra(ended)
  PROVE  WaveOK' /\ EscalationEarned' /\ KeepsEscalation /\ StaysOpen
<1>1. (Cardinality(Recent(ended)) >= OutageEntries) \in BOOLEAN
  OBVIOUS
<1>2. Note(Cardinality(Recent(ended)) >= OutageEntries)
  BY DEF NoteInfra
<1> HIDE DEF Note
<1> QED BY <1>1, <1>2, NoteKeeps

LEMMA CloseKeeps ==
  ASSUME WaveOK, EscalationEarned, outage = "open", Close
  PROVE  WaveOK' /\ EscalationEarned' /\ KeepsEscalation
BY OutagesAssumption DEF WaveOK, EscalationEarned, KeepsEscalation, Close

LEMMA SameWave ==
  ASSUME WaveOK, EscalationEarned, UNCHANGED wave
  PROVE  WaveOK' /\ EscalationEarned' /\ KeepsEscalation /\ StaysOpen
BY DEF wave, WaveOK, EscalationEarned, KeepsEscalation, StaysOpen

LEMMA FirstDelay == Delay[0] \in 0..LongAgo
<1>1. 0 \in 0..RetryCap
  BY OutagesAssumption
<1> QED BY <1>1, OutagesAssumption

\* The jobs keep their types and those that stay failed are at the foot of the
\* ladder, when the delisted ones are among those that still have a job.
LEMMA RestartedKeeps ==
  ASSUME JobsOK, NEW after \in [Job -> {"none", "pending", "failed"}],
         Restarted(after),
         lost' \subseteq {j \in Job : after[j] \in {"pending", "failed"}}
  PROVE  /\ JobsOK'
         /\ \A j \in Job : status'[j] = "failed" => retries'[j] = 0 /\ idle'[j] >= Delay[0]
<1> USE OutagesAssumption, FirstDelay DEF JobsOK, Restarted
<1>1. status' \in [Job -> {"none", "pending", "failed"}]
  OBVIOUS
<1>2. retries' \in [Job -> 0..RetryCap]
  OBVIOUS
<1>3. idle' \in [Job -> 0..LongAgo]
  OBVIOUS
<1>4. lost' \subseteq JobsIn({"pending", "failed"})'
  BY DEF JobsIn
<1>5. ASSUME NEW j \in Job, status'[j] = "failed"
      PROVE  retries'[j] = 0 /\ idle'[j] >= Delay[0]
  BY <1>5
<1> QED BY <1>1, <1>2, <1>3, <1>4, <1>5

-----------------------------------------------------------------------------
(* Each action                                                              *)

\* What every step does.
Kept == TypeOK' /\ EscalationEarned' /\ KeepsEscalation /\ RestartsLadder

LEMMA InitInv == Init => Inv
<1> SUFFICES ASSUME Init PROVE Inv
  OBVIOUS
<1>1. 0 \in 0..Escalation /\ 0 \in 0..LongAgo /\ 0 \in 0..Silence
  BY Bounds
<1>2. WaveOK /\ EscalationEarned
  BY <1>1, Zenon DEF Init, WaveOK, EscalationEarned
<1>3. JobsOK
  BY Bounds DEF Init, JobsOK
<1>4. EntriesOK
  BY DEF Init, EntriesOK
<1> QED BY <1>2, <1>3, <1>4 DEF Inv, TypeOK

\* A step that leaves the row alone, or only notes a failure.
LEMMA KeptUnlessClosed ==
  ASSUME WaveOK', JobsOK', EntriesOK', EscalationEarned', KeepsEscalation, StaysOpen
  PROVE  Kept
BY DEF Kept, TypeOK, RestartsLadder, StaysOpen

LEMMA AskKeeps == ASSUME Inv, NEW j \in Job, Ask(j) PROVE Kept
<1> USE DEF Inv, TypeOK, Ask
<1>1. JobsOK'
  BY OutagesAssumption DEF JobsOK, JobsIn
<1>2. EntriesOK'
  BY DEF EntriesOK, entries
<1> QED BY <1>1, <1>2, SameWave, KeptUnlessClosed

LEMMA DropKeeps == ASSUME Inv, NEW j \in Job, Drop(j) PROVE Kept
<1> USE DEF Inv, TypeOK, Drop
<1>1. JobsOK'
  BY OutagesAssumption DEF JobsOK, JobsIn
<1>2. EntriesOK'
  BY DEF EntriesOK, entries
<1> QED BY <1>1, <1>2, SameWave, KeptUnlessClosed

LEMMA SweepKeeps == ASSUME Inv, Sweep PROVE Kept
<1> USE DEF Inv, TypeOK, Sweep
<1>1. JobsOK'
  BY OutagesAssumption DEF JobsOK, JobsIn, Older
<1>2. EntriesOK'
  BY DEF EntriesOK, entries
<1> QED BY <1>1, <1>2, SameWave, KeptUnlessClosed

LEMMA FailsKeeps == ASSUME Inv, NEW j \in Job, NEW infra \in BOOLEAN, Fails(j, infra) PROVE Kept
<1> USE DEF Inv, TypeOK, Fails
<1>1. JobsOK'
  BY OutagesAssumption DEF JobsOK, JobsIn
<1>2. EntriesOK'
  BY DEF EntriesOK, entries
<1>3. CASE NoteInfra({j})
  BY <1>1, <1>2, <1>3, NoteInfraKeeps, KeptUnlessClosed
<1>4. CASE UNCHANGED wave
  BY <1>1, <1>2, <1>4, SameWave, KeptUnlessClosed
<1> QED BY <1>3, <1>4

LEMMA BlamedKeeps == ASSUME Inv, NEW e \in Entry, Blamed(e) PROVE Kept
<1> USE DEF Inv, TypeOK, Blamed
<1>1. JobsOK'
  BY DEF JobsOK, JobsIn, jobs
<1>2. EntriesOK'
  BY DEF EntriesOK, entries
<1> QED BY <1>1, <1>2, NoteInfraKeeps, KeptUnlessClosed

LEMMA CompletesKeeps == ASSUME Inv, NEW j \in Job, Completes(j) PROVE Kept
<1> DEFINE after == [status EXCEPT ![j] = "none"]
<1>1. EntriesOK'
  BY DEF Inv, TypeOK, Completes, EntriesOK, entries
<1>2. /\ after \in [Job -> {"none", "pending", "failed"}]
      /\ lost' \subseteq {k \in Job : after[k] \in {"pending", "failed"}}
  BY DEF Inv, TypeOK, JobsOK, JobsIn, Completes
<1>3. CASE outage = "open" /\ Close /\ Restarted(after)
  <2>1. /\ JobsOK'
        /\ \A k \in Job : status'[k] = "failed" => retries'[k] = 0 /\ idle'[k] >= Delay[0]
    BY <1>2, <1>3, RestartedKeeps DEF Inv, TypeOK
  <2>2. WaveOK' /\ EscalationEarned' /\ KeepsEscalation
    BY <1>3, CloseKeeps DEF Inv, TypeOK
  <2> QED BY <1>1, <2>1, <2>2 DEF Kept, TypeOK, RestartsLadder
<1>4. CASE status' = after /\ UNCHANGED <<retries, idle, wave>>
  <2>1. JobsOK'
    BY <1>2, <1>4 DEF Inv, TypeOK, JobsOK, JobsIn
  <2> QED BY <1>1, <1>4, <2>1, SameWave, KeptUnlessClosed DEF Inv, TypeOK
<1> QED BY <1>3, <1>4 DEF Completes

LEMMA CheckSucceedsKeeps ==
  ASSUME Inv, NEW e \in Entry, NEW S \in SUBSET Job, CheckSucceeds(e, S)
  PROVE  Kept
<1> USE DEF Inv, TypeOK, CheckSucceeds
<1>1. JobsOK'
  BY DEF JobsOK, JobsIn, Delistable, JobsOf
<1>2. EntriesOK'
  BY DEF EntriesOK
<1> QED BY <1>1, <1>2, SameWave, KeptUnlessClosed

LEMMA CheckFailsKeeps ==
  ASSUME Inv, NEW e \in Entry, NEW thrown \in BOOLEAN, CheckFails(e, thrown)
  PROVE  Kept
<1> USE DEF Inv, TypeOK, CheckFails
<1>1. JobsOK'
  BY DEF JobsOK, JobsIn, jobs
<1>2. EntriesOK'
  BY DEF EntriesOK
<1> QED BY <1>1, <1>2, NoteKeeps, KeptUnlessClosed

LEMMA MaintainKeeps == ASSUME Inv, Maintain PROVE Kept
<1>1. EntriesOK'
  BY DEF Inv, TypeOK, Maintain, EntriesOK, entries
<1>2. CASE outage = "open" /\ Close /\ Restarted(status) /\ UNCHANGED lost
  <2>1. /\ status \in [Job -> {"none", "pending", "failed"}]
        /\ lost' \subseteq {k \in Job : status[k] \in {"pending", "failed"}}
    BY <1>2 DEF Inv, TypeOK, JobsOK, JobsIn
  <2>2. /\ JobsOK'
        /\ \A k \in Job : status'[k] = "failed" => retries'[k] = 0 /\ idle'[k] >= Delay[0]
    BY <1>2, <2>1, RestartedKeeps DEF Inv, TypeOK
  <2>3. WaveOK' /\ EscalationEarned' /\ KeepsEscalation
    BY <1>2, CloseKeeps DEF Inv, TypeOK
  <2> QED BY <1>1, <2>2, <2>3 DEF Kept, TypeOK, RestartsLadder
<1>3. CASE /\ outage = "open"
           /\ escalated' = (escalated \/ started >= Escalation)
           /\ UNCHANGED <<outage, started, seen, closedFor, jobs>>
  <2>1. JobsOK'
    BY <1>3 DEF Inv, TypeOK, JobsOK, JobsIn, jobs
  <2>2. WaveOK' /\ EscalationEarned' /\ KeepsEscalation /\ StaysOpen
    BY <1>3, OutagesAssumption DEF Inv, TypeOK, WaveOK, EscalationEarned, KeepsEscalation, StaysOpen
  <2> QED BY <1>1, <2>1, <2>2, KeptUnlessClosed
<1> QED BY <1>2, <1>3 DEF Maintain

LEMMA HoldKeeps == ASSUME Inv, NEW e \in Entry, Hold(e) PROVE Kept
<1> USE DEF Inv, TypeOK, Hold
<1>1. JobsOK'
  BY DEF JobsOK, JobsIn, jobs
<1>2. EntriesOK'
  BY DEF EntriesOK
<1> QED BY <1>1, <1>2, SameWave, KeptUnlessClosed

LEMMA LeaveKeeps == ASSUME Inv, NEW e \in Entry, NEW S \in SUBSET Job, Leave(e, S) PROVE Kept
<1> USE DEF Inv, TypeOK, Leave
<1>1. JobsOK'
  BY OutagesAssumption DEF JobsOK, JobsIn, JobsOf
<1>2. EntriesOK'
  BY DEF EntriesOK, CheckedAnew
<1> QED BY <1>1, <1>2, SameWave, KeptUnlessClosed

LEMMA ReturnKeeps == ASSUME Inv, NEW e \in Entry, NEW S \in SUBSET Job, Return(e, S) PROVE Kept
<1> USE DEF Inv, TypeOK, Return
<1>1. JobsOK'
  BY DEF JobsOK, JobsIn
<1>2. EntriesOK'
  BY DEF EntriesOK, CheckedAnew
<1> QED BY <1>1, <1>2, SameWave, KeptUnlessClosed

LEMMA TickKeeps == ASSUME Inv, Tick PROVE Kept
<1> USE OutagesAssumption DEF Inv, TypeOK, Tick
<1>1. JobsOK'
  BY DEF JobsOK, JobsIn, Older
<1>2. EntriesOK'
  BY DEF EntriesOK, entries
<1>3. WaveOK' /\ EscalationEarned' /\ KeepsEscalation /\ StaysOpen
  BY DEF WaveOK, EscalationEarned, KeepsEscalation, StaysOpen, Older
<1> QED BY <1>1, <1>2, <1>3, KeptUnlessClosed

LEMMA StepKeeps == ASSUME Inv, [Next]_vars PROVE Kept
<1>1. CASE UNCHANGED vars
  <2>1. JobsOK' /\ EntriesOK' /\ UNCHANGED wave
    BY <1>1 DEF vars, jobs, entries, Inv, TypeOK, JobsOK, JobsIn, EntriesOK
  <2> QED BY <2>1, SameWave, KeptUnlessClosed DEF Inv, TypeOK
<1>2. CASE Requested
  BY <1>2, AskKeeps, DropKeeps, HoldKeeps, LeaveKeeps, ReturnKeeps DEF Requested
<1>3. CASE Unattended
  BY <1>3, SweepKeeps, MaintainKeeps, TickKeeps, CompletesKeeps, FailsKeeps,
     BlamedKeeps, CheckSucceedsKeeps, CheckFailsKeeps DEF Unattended
<1> QED BY <1>1, <1>2, <1>3 DEF Next

-----------------------------------------------------------------------------
(* The theorems                                                             *)

\* The row, the ladder and the entries keep the shape the code relies on.
THEOREM OutagesInvariant == Spec => []Inv
<1>1. Inv /\ [Next]_vars => Inv'
  BY StepKeeps DEF Kept, Inv
<1> QED BY InitInv, <1>1, PTL DEF Spec

\* Every variable keeps its type, no delisted chapter outlives its job and no
\* failed check the entry's move, whatever is asked and whatever fails.
THEOREM OutagesTypeCorrect == Spec => []TypeOK
<1>1. Inv => TypeOK
  BY DEF Inv
<1> QED BY OutagesInvariant, <1>1, PTL

\* armOutageEscalation() and noteSourceFailure() lift the suspension of
\* migrations only for a wave as old as OUTAGE_ESCALATION_MS, flaps included.
THEOREM EscalationsAreEarned == Spec => []EscalationEarned
<1>1. Inv => EscalationEarned
  BY DEF Inv
<1> QED BY OutagesInvariant, <1>1, PTL

\* Only a failure long after the source healed suspends migrations again.
THEOREM EscalationsStand == Spec => EscalationStands
<1>1. Inv /\ [Next]_vars => [KeepsEscalation]_vars
  BY StepKeeps DEF Kept
<1> QED BY OutagesInvariant, <1>1, PTL DEF Spec, EscalationStands

\* Both ways of closing an outage, a download that completes and silence, put
\* every failed job of the source at the foot of the ladder, ready to go.
THEOREM ClosingsRestart == Spec => ClosingRestarts
<1>1. Inv /\ [Next]_vars => [RestartsLadder]_vars
  BY StepKeeps DEF Kept
<1> QED BY OutagesInvariant, <1>1, PTL DEF Spec, ClosingRestarts

-----------------------------------------------------------------------------
(* Retries are not put off                                                  *)

\* No event puts a failed job back: the time it has waited grows, and the rung
\* it waits on never rises before it is tried.
NoSetback ==
  \A j \in Job : status[j] = "failed" /\ status'[j] = "failed" =>
    idle'[j] >= idle[j] /\ retries'[j] <= retries[j]

\* A job the sweep would take stays one until it is taken, asked for or dropped,
\* or the sweep has a reason to skip it.
StaysDue == \A j \in Due : status'[j] = "failed" /\ Eligible(j)' => j \in Due'

\* Restarting the ladder takes a job that is due to the foot of it, where it is
\* due all the same: the base delay is the shortest.
KeepsPlace ==
  \A j \in Job : status[j] = "failed" /\ status'[j] = "failed" =>
    /\ idle'[j] >= idle[j]
    /\ retries'[j] = retries[j] \/ retries'[j] = 0

LEMMA StepKeepsPlace == ASSUME Inv, Next PROVE KeepsPlace
<1>1. JobsOK
  BY DEF Inv, TypeOK
<1>2. ASSUME UNCHANGED <<retries, idle>>
      PROVE  KeepsPlace
  BY <1>1, <1>2 DEF JobsOK, KeepsPlace
<1>3. ASSUME NEW after, Restarted(after)
      PROVE  KeepsPlace
  BY <1>1, <1>3, FirstDelay DEF JobsOK, KeepsPlace, Restarted
<1>4. CASE \E j \in Job : Ask(j) \/ Drop(j)
  BY <1>1, <1>4 DEF Ask, Drop, JobsOK, KeepsPlace
<1>5. CASE Sweep
  BY <1>1, <1>5 DEF Sweep, JobsOK, KeepsPlace
<1>6. CASE \E j \in Job, infra \in BOOLEAN : Fails(j, infra)
  BY <1>1, <1>6 DEF Fails, JobsOK, KeepsPlace
<1>7. CASE \E j \in Job : Completes(j)
  BY <1>2, <1>3, <1>7, Zenon DEF Completes
<1>8. CASE Maintain
  BY <1>2, <1>3, <1>8, Zenon DEF Maintain, jobs
<1>9. CASE Tick
  BY <1>1, <1>9, Bounds DEF Tick, Older, JobsOK, KeepsPlace
<1>10. CASE \E e \in Entry, S \in SUBSET Job : Leave(e, S)
  BY <1>1, <1>10 DEF Leave, JobsOK, KeepsPlace
<1>11. CASE \E e \in Entry : \/ Blamed(e) \/ Hold(e)
                             \/ \E S \in SUBSET Job : CheckSucceeds(e, S) \/ Return(e, S)
                             \/ \E thrown \in BOOLEAN : CheckFails(e, thrown)
  BY <1>2, <1>11 DEF Blamed, Hold, CheckSucceeds, Return, CheckFails, jobs
<1> QED BY <1>4, <1>5, <1>6, <1>7, <1>8, <1>9, <1>10, <1>11 DEF Next, Requested, Unattended

LEMMA StepPutsNothingOff == ASSUME Inv, [Next]_vars PROVE [NoSetback /\ StaysDue]_vars
<1> SUFFICES ASSUME Next PROVE NoSetback /\ StaysDue
  OBVIOUS
<1>1. KeepsPlace /\ JobsOK /\ JobsOK'
  BY StepKeepsPlace, StepKeeps DEF Inv, Kept, TypeOK
<1>2. NoSetback
  BY <1>1, Bounds DEF JobsOK, KeepsPlace, NoSetback
<1>3. ASSUME NEW j \in Due, status'[j] = "failed", Eligible(j)'
      PROVE  j \in Due'
  <2>1. /\ j \in Job /\ status[j] = "failed" /\ idle[j] > Delay[retries[j]]
        /\ retries[j] \in 0..RetryCap /\ idle[j] \in Nat /\ idle'[j] \in Nat
    BY <1>1, Bounds DEF Due, JobsIn, JobsOK
  <2>2. idle'[j] >= idle[j] /\ (retries'[j] = retries[j] \/ retries'[j] = 0)
    BY <1>1, <1>3, <2>1 DEF KeepsPlace
  <2>3. Delay[0] \in Nat /\ Delay[retries[j]] \in Nat /\ Delay[0] <= Delay[retries[j]]
    BY <2>1, Bounds, OutagesAssumption
  <2>4. idle'[j] > Delay[retries'[j]]
    BY <2>1, <2>2, <2>3
  <2> QED BY <1>3, <2>1, <2>4 DEF Due, JobsIn
<1> QED BY <1>2, <1>3 DEF StaysDue

\* "NOT abandoned" (queue.ts:60-66), as far as safety goes: checks, outages that
\* open, close or are silent, other downloads and the user's requests for other
\* chapters never make a failed job wait longer, and one that is due stays due.
\* That the sweep then comes is the liveness RetriesGoOn adds.
THEOREM RetriesAreNotPutOff == Spec => [][NoSetback /\ StaysDue]_vars
BY StepPutsNothingOff, OutagesInvariant, PTL DEF Spec
-----------------------------------------------------------------------------
(* A suspension has an end                                                  *)

\* The clock of a wave is only set back by a failure that follows a long
\* recovery, and a failure noted once the wave is old enough ends the
\* suspension of migrations.
ClockRuns == outage # "none" /\ started' < started => outage = "closed" /\ closedFor >= Silence
LateFailureEscalates ==
  outage = "open" /\ outage' = "open" /\ seen' < seen /\ started >= Escalation => escalated'
WaveGoesOn == ClockRuns /\ LateFailureEscalates

LEMMA SameWaveGoesOn == ASSUME Inv, UNCHANGED <<outage, started, seen>> PROVE WaveGoesOn
BY Bounds DEF Inv, TypeOK, WaveOK, WaveGoesOn, ClockRuns, LateFailureEscalates

LEMMA NoteGoesOn == ASSUME Inv, NEW open, Note(open) PROVE WaveGoesOn
<1> USE DEF Inv, TypeOK, WaveOK, WaveGoesOn, ClockRuns, LateFailureEscalates
<1>1. CASE UNCHANGED wave
  BY <1>1, SameWaveGoesOn DEF wave
<1>2. CASE Refresh
  <2>1. ClockRuns
    BY <1>2, Bounds DEF Refresh
  <2>2. LateFailureEscalates
    BY <1>2, Zenon DEF Refresh
  <2> QED BY <2>1, <2>2
<1>3. CASE Reopen
  BY <1>3, Bounds DEF Reopen
<1>4. CASE Open
  BY <1>4 DEF Open
<1> QED BY <1>1, <1>2, <1>3, <1>4 DEF Note

LEMMA CloseGoesOn == ASSUME Inv, outage = "open", Close PROVE WaveGoesOn
BY Bounds DEF Inv, TypeOK, WaveOK, WaveGoesOn, ClockRuns, LateFailureEscalates, Close

LEMMA TickGoesOn == ASSUME Inv, Tick PROVE WaveGoesOn
<1>1. started \in Nat /\ seen \in Nat
  BY Bounds DEF Inv, TypeOK, WaveOK
<1>2. started' >= started /\ seen' >= seen
  BY <1>1, Bounds DEF Tick, Older
<1>3. started' \in Nat /\ seen' \in Nat
  BY <1>1, Bounds DEF Tick, Older
<1> QED BY <1>1, <1>2, <1>3 DEF WaveGoesOn, ClockRuns, LateFailureEscalates

LEMMA StepGoesOn == ASSUME Inv, [Next]_vars PROVE [WaveGoesOn]_vars
<1> SUFFICES ASSUME Next PROVE WaveGoesOn
  OBVIOUS
<1>1. CASE UNCHANGED wave
  BY <1>1, SameWaveGoesOn DEF wave
<1>2. ASSUME NEW open, Note(open) PROVE WaveGoesOn
  BY <1>2, NoteGoesOn
<1>3. CASE \E j \in Job, infra \in BOOLEAN : Fails(j, infra)
  BY <1>1, <1>2, <1>3, Zenon DEF Fails, NoteInfra
<1>4. CASE \E j \in Job : Completes(j)
  BY <1>1, <1>4, CloseGoesOn, Zenon DEF Completes
<1>5. CASE Maintain
  BY <1>5, CloseGoesOn, SameWaveGoesOn, Zenon DEF Maintain
<1>6. CASE \E e \in Entry : Blamed(e) \/ \E thrown \in BOOLEAN : CheckFails(e, thrown)
  BY <1>2, <1>6, Zenon DEF Blamed, NoteInfra, CheckFails
<1>7. CASE Tick
  BY <1>7, TickGoesOn
<1>8. CASE Sweep \/ Requested \/ \E e \in Entry, S \in SUBSET Job : CheckSucceeds(e, S)
  BY <1>1, <1>8 DEF Sweep, Requested, Ask, Drop, Hold, Leave, Return, CheckSucceeds
<1> QED BY <1>3, <1>4, <1>5, <1>6, <1>7, <1>8 DEF Next, Unattended

\* "a quick reopen (flap) resumes the previous wave" (outages.ts:72-75): however
\* a source flaps, its wave grows older until a failure escalates it, unless it
\* was well for as long as the silence.  That time passes, and that failures or
\* silence come, is what SuspensionEnds adds.
THEOREM SuspensionsAge == Spec => [][WaveGoesOn]_vars
BY StepGoesOn, OutagesInvariant, PTL DEF Spec
=============================================================================
