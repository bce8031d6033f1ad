------------------------- MODULE DownloadQueueProofs -------------------------
(***************************************************************************)
(* What DownloadQueue.tla promises for any rows, sources, requests and     *)
(* limits.  The inductive invariant is TypeOK /\ RunsMatchRows /\          *)
(* SlotAccounting: a slot can be given back only because SlotAccounting    *)
(* says that the counter covers the ended runs (`settling`), and the       *)
(* counter stays exact only because RunsMatchRows says that a queued row   *)
(* has no run yet, so that the rows a pass starts are new runs.  The order *)
(* of starts rests on RowOrder besides, the invariant that the ids order   *)
(* the rows, and on the well-foundedness of the numbers they stand for.    *)
(***************************************************************************)
EXTENDS DownloadQueue, FiniteSetTheorems, WellFoundedInduction, TLAPS

USE QueueAssumption

\* The rows of source s that run under the workers wk.
RunsUnder(wk, s) == {j \in Of(s, Job) : wk[j] \in Live}

\* SlotAccounting and the row/worker half of RunsMatchRows, for the rows,
\* workers and counters a handler leaves to its scheduling pass.
Matches(st, wk) == \A j \in Job : wk[j] = "none" <=> st[j] # "downloading"

Covers(act, wk, sett) ==
  \A s \in Source :
    LET held == Cardinality(RunsUnder(wk, s)) + sett[s]
    IN /\ act[s] >= held
       /\ "write" \notin Faults => act[s] = held

-----------------------------------------------------------------------------
(* Finite sets of rows                                                      *)

\* Rows are finitely many, so every set of rows has a size.
LEMMA RowsFinite ==
  ASSUME NEW S, S \subseteq Job
  PROVE  IsFiniteSet(S) /\ Cardinality(S) \in Nat
BY FS_Subset, FS_CardinalityType

\* A larger set of rows is at least as large.
LEMMA RowsMonotone ==
  ASSUME NEW S, NEW T, S \subseteq T, T \subseteq Job
  PROVE  Cardinality(S) <= Cardinality(T)
BY RowsFinite, FS_Subset

\* Sizes of disjoint sets of rows add up.
LEMMA RowsDisjoint ==
  ASSUME NEW S, NEW T, S \subseteq Job, T \subseteq Job, S \cap T = {}
  PROVE  Cardinality(S \cup T) = Cardinality(S) + Cardinality(T)
<1>1. IsFiniteSet(S) /\ IsFiniteSet(T)
  BY RowsFinite
<1>2. Cardinality(S) \in Nat /\ Cardinality(T) \in Nat
  BY RowsFinite
<1>3. Cardinality(S \cup T) = Cardinality(S) + Cardinality(T) - Cardinality(S \cap T)
  BY <1>1, FS_Union, Zenon
<1>4. Cardinality(S \cap T) = 0
  BY FS_EmptySet
<1> QED BY <1>2, <1>3, <1>4

\* Every value a setting can have is a positive number.
LEMMA QueuePositive == MaxSlots \in Nat /\ \A n \in 1..MaxSlots : n \in Nat \ {0}
OBVIOUS

-----------------------------------------------------------------------------
(* The scheduling pass                                                      *)

\* The runs a pass starts and the slots it takes for them.
Starts(Q, st, wk, act) ==
  /\ Begin(Q, st, wk)
  /\ active' \in [Source -> Nat]
  /\ \A s \in Source : active'[s] >= act[s] + Cardinality(Of(s, Q))
  /\ "write" \notin Faults =>
       /\ \A s \in Source : active'[s] = act[s] + Cardinality(Of(s, Q))
       /\ IF paused' THEN Q = {} ELSE Picks(Q, st, act)

\* A pass starts some queued rows Q and takes at least a slot for each of
\* them, and exactly one unless a write is refused.
LEMMA ScheduleEffect ==
  ASSUME NEW STATE st, NEW STATE wk, NEW STATE act, act \in [Source -> Nat], Schedule(st, wk, act)
  PROVE  \E Q \in SUBSET {j \in Job : st[j] = "queued"} : Starts(Q, st, wk, act)
<1> DEFINE queued == {j \in Job : st[j] = "queued"}
<1>1. PICK P \in SUBSET queued :
         /\ IF paused' THEN P = {} ELSE Picks(P, st, act)
         /\ \/ /\ Begin(P, st, wk)
               /\ active' = [s \in Source |-> act[s] + Cardinality(Of(s, P))]
            \/ \E f \in P : AbortAt(f, P, st, wk, act)
  BY DEF Schedule
<1>2. \A R \in SUBSET P, s \in Source :
         /\ Of(s, R) \subseteq Of(s, P) /\ Of(s, P) \subseteq Job
         /\ Cardinality(Of(s, R)) \in Nat /\ Cardinality(Of(s, P)) \in Nat
         /\ Cardinality(Of(s, R)) <= Cardinality(Of(s, P))
  <2> SUFFICES ASSUME NEW R \in SUBSET P, NEW s \in Source
               PROVE  /\ Of(s, R) \subseteq Of(s, P) /\ Of(s, P) \subseteq Job
                      /\ Cardinality(Of(s, R)) \in Nat /\ Cardinality(Of(s, P)) \in Nat
                      /\ Cardinality(Of(s, R)) <= Cardinality(Of(s, P))
    OBVIOUS
  <2>1. Of(s, R) \subseteq Of(s, P) /\ Of(s, P) \subseteq Job
    BY DEF Of
  <2> QED BY <2>1, RowsFinite, RowsMonotone
<1>5. \A s \in Source : Cardinality(Of(s, P)) \in Nat
  BY <1>2
<1>3. CASE /\ Begin(P, st, wk)
           /\ active' = [s \in Source |-> act[s] + Cardinality(Of(s, P))]
  <2>1. active' \in [Source -> Nat]
    <3> HIDE DEF queued
    <3> QED BY <1>5, <1>3
  <2>2. \A s \in Source : active'[s] = act[s] + Cardinality(Of(s, P))
    BY <1>3
  <2>3. \A s \in Source : active'[s] >= act[s] + Cardinality(Of(s, P))
    BY <2>1, <2>2, <1>5
  <2> QED BY <1>1, <1>3, <2>1, <2>2, <2>3 DEF Starts
<1>4. ASSUME NEW f \in P, AbortAt(f, P, st, wk, act)
      PROVE  \E Q \in SUBSET queued :
               /\ Begin(Q, st, wk)
               /\ active' \in [Source -> Nat]
               /\ \A s \in Source : active'[s] >= act[s] + Cardinality(Of(s, Q))
               /\ "write" \in Faults
  <2> DEFINE Q == {j \in P : IF SourceOf[j] = SourceOf[f] THEN <<j, f>> \in older'
                             ELSE HeadBefore(SourceOf[j], SourceOf[f], st)}
  <2>1. /\ Begin(Q, st, wk)
        /\ "write" \in Faults
        /\ active' = [s \in Source |->
             IF Reached(s, f, st) THEN act[s] + Cardinality(Of(s, P)) ELSE act[s]]
    BY <1>4 DEF AbortAt
  <2>2. active' \in [Source -> Nat]
    <3> HIDE DEF Q
    <3> QED BY <2>1, <1>5
  <2>3. Q \in SUBSET P
    OBVIOUS
  <2>4. ASSUME NEW s \in Source, ~Reached(s, f, st)
        PROVE  Of(s, Q) = {}
    BY <2>4 DEF Of, Reached
  <2> HIDE DEF Q
  <2>5. ASSUME NEW s \in Source
        PROVE  active'[s] >= act[s] + Cardinality(Of(s, Q))
    <3>1. /\ Cardinality(Of(s, Q)) \in Nat /\ Cardinality(Of(s, P)) \in Nat
          /\ Cardinality(Of(s, Q)) <= Cardinality(Of(s, P))
      BY <1>2, <2>3
    <3>2. CASE Reached(s, f, st)
      BY <2>1, <3>1, <3>2
    <3>3. CASE ~Reached(s, f, st)
      <4>1. Cardinality(Of(s, Q)) = 0
        BY <2>4, <3>3, FS_EmptySet
      <4> QED BY <2>1, <3>3, <4>1
    <3> QED BY <3>2, <3>3
  <2>6. Q \in SUBSET queued
    BY <2>3
  <2> QED BY <2>1, <2>2, <2>5, <2>6
<1> QED BY <1>1, <1>3, <1>4 DEF Starts

\* A pass keeps rows and workers in step and slots covered.
LEMMA SchedulePreserves ==
  ASSUME NEW STATE st, st \in [Job -> Status], NEW STATE wk, wk \in [Job -> Phase],
         NEW STATE act, act \in [Source -> Nat], settling' \in [Source -> Nat],
         Matches(st, wk), Covers(act, wk, settling'),
         Schedule(st, wk, act)
  PROVE  /\ status' \in [Job -> Status]
         /\ worker' \in [Job -> Phase]
         /\ active' \in [Source -> Nat]
         /\ \A j \in Job : st[j] # "queued" => status'[j] = st[j]
         /\ \A j \in Job : st[j] = "queued" => status'[j] \in {"queued", "downloading"}
         /\ Matches(status', worker')
         /\ Covers(active', worker', settling')
<1>0. PICK Q \in SUBSET {j \in Job : st[j] = "queued"} : Starts(Q, st, wk, act)
  BY ScheduleEffect
<1>1. /\ Begin(Q, st, wk)
      /\ active' \in [Source -> Nat]
      /\ \A s \in Source : active'[s] >= act[s] + Cardinality(Of(s, Q))
      /\ "write" \notin Faults =>
           \A s \in Source : active'[s] = act[s] + Cardinality(Of(s, Q))
  BY <1>0 DEF Starts
<1>2. /\ status' = [j \in Job |-> IF j \in Q THEN "downloading" ELSE st[j]]
      /\ worker' = [j \in Job |-> IF j \in Q THEN "listing" ELSE wk[j]]
  BY <1>1 DEF Begin
<1>3. \A j \in Q : j \in Job /\ st[j] = "queued" /\ wk[j] = "none"
  BY DEF Matches
<1>4. status' \in [Job -> Status] /\ worker' \in [Job -> Phase]
  BY <1>2 DEF Status, Phase, Live
<1>5. Matches(status', worker')
  BY <1>2, <1>3 DEF Matches
<1>6. Covers(active', worker', settling')
  <2> SUFFICES ASSUME NEW s \in Source
               PROVE  LET held == Cardinality(RunsUnder(worker', s)) + settling'[s]
                      IN /\ active'[s] >= held
                         /\ "write" \notin Faults => active'[s] = held
    BY DEF Covers
  <2>1. RunsUnder(worker', s) = RunsUnder(wk, s) \cup Of(s, Q)
    BY <1>2, <1>3 DEF RunsUnder, Of, Live
  <2>2. RunsUnder(wk, s) \cap Of(s, Q) = {}
    BY <1>3 DEF RunsUnder, Of, Live
  <2>3. RunsUnder(wk, s) \subseteq Job /\ Of(s, Q) \subseteq Job
    BY DEF RunsUnder, Of
  <2>4. Cardinality(RunsUnder(worker', s)) = Cardinality(RunsUnder(wk, s)) + Cardinality(Of(s, Q))
    BY <2>1, <2>2, <2>3, RowsDisjoint
  <2>5. Cardinality(RunsUnder(wk, s)) \in Nat /\ Cardinality(Of(s, Q)) \in Nat
    BY <2>3, RowsFinite
  <2>6. /\ act[s] >= Cardinality(RunsUnder(wk, s)) + settling'[s]
        /\ "write" \notin Faults => act[s] = Cardinality(RunsUnder(wk, s)) + settling'[s]
    BY DEF Covers
  <2> QED BY <1>1, <2>4, <2>5, <2>6
<1> QED BY <1>1, <1>2, <1>3, <1>4, <1>5, <1>6
-----------------------------------------------------------------------------
(* The inductive invariant                                                  *)

Inv == TypeOK /\ RunsMatchRows /\ SlotAccounting

Present(st) == {j \in Job : st[j] # "absent"}

\* The part of the type invariant about the row order, the entry links and
\* the settings, which no run and no pass touches.
LEMMA InvParts ==
  ASSUME TypeOK
  PROVE  /\ linked \subseteq Present(status)
         /\ older \subseteq Present(status) \X Present(status)
BY DEF TypeOK, With, Present, Status

\* A handler that ends with a pass preserves the invariant when it leaves
\* running rows alone, changes no worker, and leaves slots that cover the
\* workers and the settling runs.
LEMMA PassPreserves ==
  ASSUME Inv,
         NEW STATE st, st \in [Job -> Status],
         NEW STATE act, act \in [Source -> Nat], settling' \in [Source -> Nat],
         \A j \in Job : st[j] = "downloading" <=> status[j] = "downloading",
         Covers(act, worker, settling'),
         cancelFlags' = cancelFlags,
         linked' \subseteq Present(st),
         older' \subseteq Present(st) \X Present(st),
         paused' \in BOOLEAN,
         parallelSources' \in 1..MaxSlots, concurrencyPerSource' \in 1..MaxSlots,
         Schedule(st, worker, act)
  PROVE  Inv'
<1>1. Matches(st, worker)
  BY DEF Inv, RunsMatchRows, Matches
<1>2. /\ status' \in [Job -> Status]
      /\ worker' \in [Job -> Phase]
      /\ active' \in [Source -> Nat]
      /\ \A j \in Job : st[j] # "queued" => status'[j] = st[j]
      /\ \A j \in Job : st[j] = "queued" => status'[j] \in {"queued", "downloading"}
      /\ Matches(status', worker')
      /\ Covers(active', worker', settling')
  BY <1>1, SchedulePreserves DEF Inv, TypeOK
<1>3. Present(status') = Present(st)
  BY <1>2 DEF Present
<1>4. TypeOK'
  <2>1. With(Status \ {"absent"})' = Present(status')
    BY <1>2 DEF With, Present, Status
  <2> QED BY <1>2, <1>3, <2>1 DEF TypeOK, Inv
<1>5. RunsMatchRows'
  <2>1. cancelFlags' \subseteq With({"downloading"})'
    BY <1>2 DEF Inv, TypeOK, RunsMatchRows, With
  <2> QED BY <1>2, <2>1 DEF RunsMatchRows, Matches
<1>6. SlotAccounting'
  BY <1>2 DEF SlotAccounting, Covers, Runs, RunsUnder
<1> QED BY <1>4, <1>5, <1>6 DEF Inv

\* The invariant says that the slots cover the workers and settling runs.
LEMMA InvCovers == Inv => Covers(active, worker, settling)
BY DEF Inv, SlotAccounting, Covers, Runs, RunsUnder

\* Rows that stopped, or that did not exist, go to the queue, then the pass.
LEMMA RequestPreserves ==
  ASSUME Inv, NEW S \in SUBSET Job,
         \A j \in S : status[j] # "downloading",
         linked' \subseteq Present(Become(S, "queued")),
         older' \subseteq Present(Become(S, "queued")) \X Present(Become(S, "queued")),
         UNCHANGED <<cancelFlags, settling>>,
         paused' \in BOOLEAN,
         parallelSources' \in 1..MaxSlots, concurrencyPerSource' \in 1..MaxSlots,
         Schedule(Become(S, "queued"), worker, active)
  PROVE  Inv'
<1>1. Become(S, "queued") \in [Job -> Status]
  BY DEF Inv, TypeOK, Become, Status
<1>2. \A j \in Job : Become(S, "queued")[j] = "downloading" <=> status[j] = "downloading"
  BY DEF Become
<1>3. Covers(active, worker, settling')
  BY InvCovers
<1>4. active \in [Source -> Nat] /\ settling' \in [Source -> Nat]
  BY DEF Inv, TypeOK
<1> HIDE DEF Inv
<1> QED BY <1>1, <1>2, <1>3, <1>4, PassPreserves

\* enqueue() adds its new rows to the id order and to the entry links.
LEMMA EnqueuePreserves ==
  ASSUME Inv, NEW batch \in Batches, NEW ref \in EntryRefs, Enqueue(batch, ref)
  PROVE  Inv'
<1> DEFINE asked == Range(batch)
           new == asked \cap With({"absent"})
           S == new \cup (asked \cap With(Requeueable))
           st == Become(S, "queued")
<1>1. asked \subseteq Job
  BY DEF Range
<1>2. S \in SUBSET Job /\ \A j \in S : status[j] # "downloading"
  BY <1>1 DEF With, Requeueable
<1>3. asked \subseteq Present(st) /\ Present(status) \subseteq Present(st)
  BY <1>1 DEF Present, Become, With
<1>4. linked' \subseteq Present(st)
  <2>1. linked' = IF ref THEN linked \cup asked ELSE linked
    BY DEF Enqueue
  <2>2. linked \subseteq Present(status)
    BY InvParts DEF Inv
  <2> HIDE DEF st, asked
  <2> QED BY <1>3, <2>1, <2>2
<1>5. older' \subseteq Present(st) \X Present(st)
  <2>1. older' = older \cup Newer(batch, new)
    BY DEF Enqueue
  <2>2. older \subseteq Present(status) \X Present(status)
    BY InvParts DEF Inv
  <2>3. Newer(batch, new) \subseteq (Present(status) \cup asked) \X asked
    <3> SUFFICES ASSUME NEW p \in Job \X new,
                        status[p[1]] # "absent" \/ \E m \in DOMAIN batch : batch[m] = p[1]
                 PROVE  p \in (Present(status) \cup asked) \X asked
      BY DEF Newer
    <3>1. p[2] \in asked /\ p[1] \in Job /\ p = <<p[1], p[2]>>
      OBVIOUS
    <3>2. p[1] \in Present(status) \cup asked
      BY <3>1 DEF Present, Range
    <3> QED BY <3>1, <3>2
  <2> HIDE DEF st, asked
  <2> QED BY <1>3, <2>1, <2>2, <2>3
<1>6. /\ UNCHANGED <<cancelFlags, settling, knobs>>
      /\ Schedule(st, worker, active)
  BY DEF Enqueue
<1>7. /\ paused' \in BOOLEAN
      /\ parallelSources' \in 1..MaxSlots /\ concurrencyPerSource' \in 1..MaxSlots
  BY <1>6 DEF Inv, TypeOK, knobs
<1> HIDE DEF Inv, S
<1> QED BY <1>2, <1>4, <1>5, <1>6, <1>7, RequestPreserves

\* Handlers that queue existing stopped rows, or none, leave links and order.
LEMMA RequeuePreserves ==
  ASSUME Inv, NEW S \in SUBSET Job,
         \A j \in S : status[j] \notin {"downloading", "absent"},
         UNCHANGED <<linked, older, cancelFlags, settling>>,
         paused' \in BOOLEAN,
         parallelSources' \in 1..MaxSlots, concurrencyPerSource' \in 1..MaxSlots,
         Schedule(Become(S, "queued"), worker, active)
  PROVE  Inv'
<1>1. Present(Become(S, "queued")) = Present(status)
  BY DEF Present, Become
<1>2. linked \subseteq Present(status) /\ older \subseteq Present(status) \X Present(status)
  BY InvParts DEF Inv
<1> HIDE DEF Inv
<1> QED BY <1>1, <1>2, RequestPreserves

\* Handlers that only run the pass.
LEMMA BarePassPreserves ==
  ASSUME Inv, UNCHANGED <<linked, older, cancelFlags, settling>>,
         paused' \in BOOLEAN,
         parallelSources' \in 1..MaxSlots, concurrencyPerSource' \in 1..MaxSlots,
         Schedule(status, worker, active)
  PROVE  Inv'
<1>1. Become({}, "queued") = status
  BY DEF Become, Inv, TypeOK
<1> HIDE DEF Inv
<1> QED BY <1>1, RequeuePreserves

\* Giving a slot back is safe because the counter still covers an ended run of
\* that source: it cannot go below zero (queue.ts:604-610).
LEMMA SettlePreserves ==
  ASSUME Inv, NEW s \in Source, Settle(s)
  PROVE  Inv'
<1>1. /\ settling[s] > 0
      /\ settling' = [settling EXCEPT ![s] = @ - 1]
      /\ UNCHANGED <<linked, older, cancelFlags, knobs>>
      /\ Schedule(status, worker, GiveBack(s))
  BY DEF Settle
<1>2. TypeOK /\ Covers(active, worker, settling)
  BY InvCovers DEF Inv
<1>3. settling' \in [Source -> Nat]
  BY <1>1, <1>2 DEF TypeOK
<1>4. \A t \in Source : Cardinality(RunsUnder(worker, t)) \in Nat
  BY RowsFinite DEF RunsUnder, Of
<1>5. active[s] > 0
  BY <1>1, <1>2, <1>4 DEF Covers, TypeOK
<1>6. GiveBack(s) \in [Source -> Nat]
  BY <1>2, <1>5 DEF GiveBack, TypeOK
<1>7. Covers(GiveBack(s), worker, settling')
  BY <1>1, <1>2, <1>4 DEF Covers, GiveBack, TypeOK
<1>8. linked \subseteq Present(status) /\ older \subseteq Present(status) \X Present(status)
  BY <1>2, InvParts
<1>9. /\ status \in [Job -> Status] /\ cancelFlags' = cancelFlags
      /\ paused' \in BOOLEAN
      /\ parallelSources' \in 1..MaxSlots /\ concurrencyPerSource' \in 1..MaxSlots
  BY <1>1, <1>2 DEF TypeOK, knobs
<1> HIDE DEF Inv
<1> QED BY <1>1, <1>3, <1>6, <1>7, <1>8, <1>9, PassPreserves

-----------------------------------------------------------------------------
(* Handlers without a pass                                                  *)

\* A run that ends, with a new status or stranded, moves from the workers of
\* its source to the settling runs.
LEMMA EndPreservesSlots ==
  ASSUME Inv, NEW j \in Job, worker[j] \in Live, NEW w \in {"none", "stranded"},
         worker' = [worker EXCEPT ![j] = w],
         settling' = [settling EXCEPT ![SourceOf[j]] = @ + 1],
         active' = active
  PROVE  SlotAccounting' /\ settling' \in [Source -> Nat]
<1>1. TypeOK /\ Covers(active, worker, settling)
  BY InvCovers DEF Inv
<1>2. settling' \in [Source -> Nat]
  BY <1>1 DEF TypeOK
<1>3. \A s \in Source : RunsUnder(worker, s) \subseteq Job /\ IsFiniteSet(RunsUnder(worker, s))
  BY RowsFinite DEF RunsUnder, Of
<1>4. \A s \in Source : Cardinality(RunsUnder(worker, s)) \in Nat
  BY <1>3, RowsFinite
<1>5. j \in RunsUnder(worker, SourceOf[j])
  BY DEF RunsUnder, Of
<1>6. RunsUnder(worker', SourceOf[j]) = RunsUnder(worker, SourceOf[j]) \ {j}
  BY <1>1 DEF RunsUnder, Of, TypeOK, Live
<1>7. Cardinality(RunsUnder(worker', SourceOf[j])) = Cardinality(RunsUnder(worker, SourceOf[j])) - 1
  <2> DEFINE R == RunsUnder(worker, SourceOf[j])
  <2>1. IsFiniteSet(R) /\ j \in R
    BY <1>3, <1>5
  <2> HIDE DEF R
  <2>2. Cardinality(R \ {j}) = IF j \in R THEN Cardinality(R) - 1 ELSE Cardinality(R)
    BY <2>1, FS_RemoveElement, Zenon
  <2>3. RunsUnder(worker', SourceOf[j]) = R \ {j}
    BY <1>6 DEF R
  <2> QED BY <2>1, <2>2, <2>3 DEF R
<1>8. \A s \in Source : s # SourceOf[j] => RunsUnder(worker', s) = RunsUnder(worker, s)
  BY <1>1 DEF RunsUnder, Of, TypeOK, Live
<1>9. Covers(active', worker', settling')
  <2> SUFFICES ASSUME NEW s \in Source
               PROVE  LET held == Cardinality(RunsUnder(worker', s)) + settling'[s]
                      IN /\ active'[s] >= held
                         /\ "write" \notin Faults => active'[s] = held
    BY DEF Covers
  <2>1. Cardinality(RunsUnder(worker', s)) + settling'[s] =
          Cardinality(RunsUnder(worker, s)) + settling[s]
    <3>1. CASE s = SourceOf[j]
      <4>1. settling'[s] = settling[s] + 1 /\ settling[s] \in Nat
        BY <1>1, <3>1 DEF TypeOK
      <4> QED BY <1>4, <1>7, <3>1, <4>1
    <3>2. CASE s # SourceOf[j]
      <4>1. settling'[s] = settling[s]
        BY <1>1, <3>2 DEF TypeOK
      <4> QED BY <1>8, <3>2, <4>1
    <3> QED BY <3>1, <3>2
  <2> QED BY <1>1, <2>1 DEF Covers
<1> QED BY <1>2, <1>9 DEF SlotAccounting, Covers, Runs, RunsUnder

\* The end of a run writes the status, drops the flag and leaves the slot to
\* Settle.
LEMMA FinishPreserves ==
  ASSUME Inv, NEW j \in Job, NEW outcome \in Finished, worker[j] \in Live, Finish(j, outcome)
  PROVE  Inv'
<1>1. /\ status' = Become({j}, outcome)
      /\ worker' = [worker EXCEPT ![j] = "none"]
      /\ cancelFlags' = cancelFlags \ {j}
      /\ settling' = [settling EXCEPT ![SourceOf[j]] = @ + 1]
      /\ UNCHANGED <<linked, older, active, knobs>>
  BY DEF Finish, DropFlag
<1>2. SlotAccounting' /\ settling' \in [Source -> Nat]
  BY <1>1, EndPreservesSlots
<1>3. TypeOK /\ RunsMatchRows /\ status[j] = "downloading"
  BY DEF Inv, RunsMatchRows, Live
<1>4. status' \in [Job -> Status] /\ worker' \in [Job -> Phase]
  BY <1>1, <1>3 DEF TypeOK, Become, Status, Phase
<1>5. With(Status \ {"absent"})' = With(Status \ {"absent"})
  BY <1>1, <1>3 DEF With, Become, TypeOK, Status, Finished
<1>6. TypeOK'
  BY <1>1, <1>2, <1>3, <1>4, <1>5 DEF TypeOK, knobs
<1>7. RunsMatchRows'
  BY <1>1, <1>3 DEF RunsMatchRows, With, Become, TypeOK, Finished
<1> QED BY <1>2, <1>6, <1>7 DEF Inv

\* A run whose last write is refused leaves its row "downloading" and still
\* gives its slot back.
LEMMA FinishUnsavedPreserves ==
  ASSUME Inv, NEW j \in Job, FinishUnsaved(j)
  PROVE  Inv'
<1>1. /\ worker[j] \in Live
      /\ worker' = [worker EXCEPT ![j] = "stranded"]
      /\ cancelFlags' = cancelFlags \ {j}
      /\ settling' = [settling EXCEPT ![SourceOf[j]] = @ + 1]
      /\ UNCHANGED <<status, linked, older, active, knobs>>
  BY DEF FinishUnsaved, DropFlag, rows
<1>2. SlotAccounting' /\ settling' \in [Source -> Nat]
  BY <1>1, EndPreservesSlots
<1>3. TypeOK'
  BY <1>1, <1>2 DEF Inv, TypeOK, With, Phase, knobs
<1>4. RunsMatchRows'
  BY <1>1 DEF Inv, TypeOK, RunsMatchRows, With, Live
<1> QED BY <1>2, <1>3, <1>4 DEF Inv

\* A run that goes on keeps its row, its slot and its source.
LEMMA GotoPreserves ==
  ASSUME Inv, NEW j \in Job, NEW phase \in Live, worker[j] \in Live, Goto(j, phase)
  PROVE  Inv'
<1>1. /\ worker' = [worker EXCEPT ![j] = phase]
      /\ UNCHANGED <<status, linked, older, cancelFlags, settling, active, knobs>>
  BY DEF Goto, rows, slots
<1>2. \A s \in Source : Runs(s)' = Runs(s)
  BY <1>1 DEF Runs, Of, Inv, TypeOK
<1>3. TypeOK'
  BY <1>1 DEF Inv, TypeOK, With, Phase, knobs
<1>4. RunsMatchRows'
  BY <1>1 DEF Inv, TypeOK, RunsMatchRows, With, Live
<1>5. SlotAccounting'
  BY <1>1, <1>2 DEF Inv, SlotAccounting
<1> QED BY <1>3, <1>4, <1>5 DEF Inv

\* Every step of a run either goes on or ends it.
LEMMA WorkPreserves ==
  ASSUME Inv, NEW j \in Job, Work(j)
  PROVE  Inv'
<1>1. worker[j] \in Live
  BY DEF Work, ListPages, LeavePause, NextPage, LeaveLoop, Pack, Live
<1>2. \/ \E outcome \in Finished : Finish(j, outcome)
      \/ \E phase \in Live : Goto(j, phase)
  BY Zenon DEF Work, ListPages, LeavePause, NextPage, LeaveLoop, Pack, Checkpoint, Live, Finished
<1> HIDE DEF Inv
<1> QED BY <1>1, <1>2, FinishPreserves, GotoPreserves

\* The rows of S are deleted: none of them is running.
LEMMA DeletePreserves ==
  ASSUME Inv, NEW S \in SUBSET Job,
         \A j \in S : status[j] # "downloading",
         Delete(S), UNCHANGED <<worker, slots, knobs>>,
         cancelFlags' \subseteq cancelFlags \cup With({"downloading"})
  PROVE  Inv'
<1>1. /\ status' = Become(S, "absent")
      /\ linked' = linked \ S
      /\ older' = {p \in older : p[1] \notin S /\ p[2] \notin S}
      /\ UNCHANGED <<worker, settling, active, knobs>>
  BY DEF Delete, OlderWithout, slots
<1>2. TypeOK /\ RunsMatchRows /\ SlotAccounting
  BY DEF Inv
<1>3. status' \in [Job -> Status]
  BY <1>1, <1>2 DEF TypeOK, Become, Status
<1>4. With(Status \ {"absent"})' = With(Status \ {"absent"}) \ S
  BY <1>1, <1>2 DEF TypeOK, With, Become, Status
<1>5. With({"downloading"})' = With({"downloading"})
  BY <1>1 DEF With, Become
<1>6. cancelFlags' \subseteq With({"downloading"})
  BY <1>2 DEF RunsMatchRows
<1>7. TypeOK'
  <2>1. linked' \subseteq With(Status \ {"absent"})'
    BY <1>1, <1>2, <1>4 DEF TypeOK
  <2>2. older' \subseteq With(Status \ {"absent"})' \X With(Status \ {"absent"})'
    BY <1>1, <1>2, <1>4 DEF TypeOK
  <2>3. cancelFlags' \subseteq Job
    BY <1>6 DEF With
  <2> QED BY <1>1, <1>2, <1>3, <2>1, <2>2, <2>3 DEF TypeOK, knobs
<1>8. RunsMatchRows'
  <2>1. \A j \in Job : worker'[j] = "none" <=> status'[j] # "downloading"
    BY <1>1, <1>2 DEF RunsMatchRows, Become
  <2> QED BY <1>5, <1>6, <2>1 DEF RunsMatchRows
<1>9. SlotAccounting'
  BY <1>1, <1>2 DEF SlotAccounting, Runs
<1> QED BY <1>7, <1>8, <1>9 DEF Inv

\* cancel() of a queued row: the row has no run and no flag.
LEMMA CancelQueuedPreserves ==
  ASSUME Inv, NEW j \in Job, CancelQueued(j)
  PROVE  Inv'
<1>1. /\ status[j] = "queued"
      /\ status' = Become({j}, "cancelled")
      /\ UNCHANGED <<linked, older, worker, cancelFlags, settling, active, knobs>>
  BY DEF CancelQueued, run, slots
<1>2. TypeOK /\ RunsMatchRows /\ SlotAccounting
  BY DEF Inv
<1>3. status' \in [Job -> Status]
  BY <1>1, <1>2 DEF TypeOK, Become, Status, Finished
<1>4. With(Status \ {"absent"})' = With(Status \ {"absent"})
  BY <1>1, <1>2 DEF TypeOK, With, Become, Status, Finished
<1>5. TypeOK'
  BY <1>1, <1>2, <1>3, <1>4 DEF TypeOK, knobs
<1>6. RunsMatchRows'
  BY <1>1, <1>2 DEF RunsMatchRows, With, Become
<1>7. SlotAccounting'
  BY <1>1, <1>2 DEF SlotAccounting, Runs
<1> QED BY <1>5, <1>6, <1>7 DEF Inv

\* cancel() of a running row: the row it flags is "downloading".
LEMMA CancelRunningPreserves ==
  ASSUME Inv, NEW j \in Job, CancelRunning(j)
  PROVE  Inv'
<1>1. /\ status[j] = "downloading"
      /\ cancelFlags' = cancelFlags \cup {j}
      /\ UNCHANGED <<status, linked, older, worker, settling, active, knobs>>
  BY DEF CancelRunning, rows, slots
<1>2. With(Status \ {"absent"})' = With(Status \ {"absent"}) /\ With({"downloading"})' = With({"downloading"})
  BY <1>1 DEF With
<1>3. TypeOK'
  BY <1>1, <1>2 DEF Inv, TypeOK, knobs
<1>4. RunsMatchRows'
  BY <1>1, <1>2 DEF Inv, RunsMatchRows, With
<1>5. SlotAccounting'
  BY <1>1 DEF Inv, SlotAccounting, Runs
<1> QED BY <1>3, <1>4, <1>5 DEF Inv

\* pause() changes the gate only.
LEMMA PausePreserves ==
  ASSUME Inv, Pause
  PROVE  Inv'
<1>1. /\ paused' = TRUE
      /\ UNCHANGED <<status, linked, older, worker, cancelFlags, settling, active,
                     parallelSources, concurrencyPerSource>>
  BY DEF Pause, rows, run, slots
<1>2. TypeOK'
  BY <1>1 DEF Inv, TypeOK, With
<1>3. RunsMatchRows'
  BY <1>1 DEF Inv, RunsMatchRows, With
<1>4. SlotAccounting'
  BY <1>1 DEF Inv, SlotAccounting, Runs
<1> QED BY <1>2, <1>3, <1>4 DEF Inv

\* Without a run, empty counters are exact.
LEMMA NoRunsNoSlots ==
  ASSUME \A j \in Job : worker[j] = "none",
         settling = [s \in Source |-> 0], active = [s \in Source |-> 0]
  PROVE  SlotAccounting
<1>1. \A s \in Source : Runs(s) = {}
  BY DEF Runs, Of, Live
<1>2. \A s \in Source : Cardinality(Runs(s)) = 0
  BY <1>1, FS_EmptySet
<1> QED BY <1>2 DEF SlotAccounting

\* The next process: _recover() leaves no row "downloading", and no counter
\* survives.
LEMMA RestartPreserves ==
  ASSUME Inv, NEW old \in SUBSET Job, Restart(old)
  PROVE  Inv'
<1>1. /\ status' = [j \in Job |-> IF j \in old THEN "absent" ELSE
                                  IF status[j] = "downloading" THEN "queued" ELSE status[j]]
      /\ linked' = linked \ old
      /\ older' = {p \in older : p[1] \notin old /\ p[2] \notin old}
      /\ worker' = [j \in Job |-> "none"]
      /\ cancelFlags' = {}
      /\ settling' = [s \in Source |-> 0]
      /\ active' = [s \in Source |-> 0]
      /\ paused' = FALSE
      /\ UNCHANGED <<parallelSources, concurrencyPerSource>>
  BY DEF Restart, Recovered, OlderWithout
<1>2. TypeOK
  BY DEF Inv
<1>3. status' \in [Job -> Status]
  BY <1>1, <1>2 DEF TypeOK, Status
<1>4. With(Status \ {"absent"})' = With(Status \ {"absent"}) \ old
  BY <1>1, <1>2 DEF TypeOK, With, Status
<1>5. TypeOK'
  <2>1. linked' \subseteq With(Status \ {"absent"})'
    BY <1>1, <1>2, <1>4 DEF TypeOK
  <2>2. older' \subseteq With(Status \ {"absent"})' \X With(Status \ {"absent"})'
    BY <1>1, <1>2, <1>4 DEF TypeOK
  <2> QED BY <1>1, <1>2, <1>3, <2>1, <2>2 DEF TypeOK, Phase
<1>6. RunsMatchRows'
  BY <1>1 DEF RunsMatchRows
<1>7. SlotAccounting'
  <2>1. \A s \in Source : Runs(s)' = {}
    BY <1>1 DEF Runs, Of, Live
  <2>2. \A s \in Source : Cardinality(Runs(s)') = 0
    BY <2>1, FS_EmptySet
  <2> QED BY <1>1, <2>2 DEF SlotAccounting
<1> QED BY <1>5, <1>6, <1>7 DEF Inv

-----------------------------------------------------------------------------
(* The specification                                                        *)

\* An empty database: no row, no run, no slot.
LEMMA InitInv == Init => Inv
<1> SUFFICES ASSUME Init PROVE Inv
  OBVIOUS
<1>1. SlotAccounting
  BY NoRunsNoSlots DEF Init
<1>2. RunsMatchRows
  BY DEF Init, RunsMatchRows
<1>3. TypeOK
  BY DEF Init, TypeOK, Status, Phase
<1> QED BY <1>1, <1>2, <1>3 DEF Inv

\* What the client may ask for preserves the invariant, request by request.
LEMMA ClientPreserves == Inv /\ Client => Inv'
<1> SUFFICES ASSUME Inv, Client PROVE Inv'
  OBVIOUS
<1>0. /\ paused \in BOOLEAN
      /\ parallelSources \in 1..MaxSlots /\ concurrencyPerSource \in 1..MaxSlots
  BY DEF Inv, TypeOK
<1> HIDE DEF Inv
<1>1. CASE \E batch \in Batches, ref \in EntryRefs : Enqueue(batch, ref)
  BY <1>1, EnqueuePreserves
<1>2. ASSUME NEW S \in SUBSET Job, Retry(S)
      PROVE  Inv'
  <2>1. \A j \in S : status[j] \notin {"downloading", "absent"}
    BY <1>2 DEF Retry, With
  <2> QED BY <1>0, <1>2, <2>1, RequeuePreserves DEF Retry, knobs
<1>3. ASSUME NEW S \in SUBSET Job, ClearHistory(S)
      PROVE  Inv'
  <2>1. \A j \in S : status[j] # "downloading"
    BY <1>3 DEF ClearHistory, With, Finished
  <2> QED BY <1>3, <2>1, DeletePreserves DEF ClearHistory, run
<1>4. CASE \E j \in Job : CancelQueued(j) \/ CancelRunning(j)
  BY <1>4, CancelQueuedPreserves, CancelRunningPreserves
<1>5. CASE ClearQueue
  <2>1. With({"queued"}) \in SUBSET Job /\ \A j \in With({"queued"}) : status[j] # "downloading"
    BY DEF With
  <2> QED BY <1>5, <2>1, DeletePreserves DEF ClearQueue
<1>6. CASE Pause
  BY <1>6, PausePreserves
<1>7. CASE Resume
  BY <1>0, <1>7, BarePassPreserves DEF Resume
<1>8. ASSUME NEW n \in 1..MaxSlots, SetParallelSources(n) \/ SetConcurrency(n)
      PROVE  Inv'
  BY <1>0, <1>8, BarePassPreserves DEF SetParallelSources, SetConcurrency
<1> QED BY <1>1, <1>2, <1>3, <1>4, <1>5, <1>6, <1>7, <1>8 DEF Client

\* Every step preserves the invariant.
LEMMA NextPreserves == Inv /\ [Next]_vars => Inv'
<1> SUFFICES ASSUME Inv, [Next]_vars PROVE Inv'
  OBVIOUS
<1>0. /\ paused \in BOOLEAN
      /\ parallelSources \in 1..MaxSlots /\ concurrencyPerSource \in 1..MaxSlots
  BY DEF Inv, TypeOK
<1>1. CASE UNCHANGED vars
  <2>1. UNCHANGED <<status, linked, older, worker, cancelFlags, settling, active,
                    paused, parallelSources, concurrencyPerSource>>
    BY <1>1 DEF vars, rows, run, slots, knobs
  <2> QED BY <2>1 DEF Inv, TypeOK, RunsMatchRows, SlotAccounting, With, Runs
<1> HIDE DEF Inv
<1>2. CASE Tick
  BY <1>0, <1>2, BarePassPreserves DEF Tick, knobs
<1>3. CASE \E s \in Source : Settle(s)
  BY <1>3, SettlePreserves
<1>4. CASE \E j \in Job : Work(j)
  BY <1>4, WorkPreserves
<1>5. CASE Client
  BY <1>5, ClientPreserves
<1>6. ASSUME NEW S \in SUBSET Job, Sweep(S)
      PROVE  Inv'
  <2>1. \A j \in S : status[j] \notin {"downloading", "absent"}
    BY <1>6 DEF Sweep, With
  <2> QED BY <1>0, <1>6, <2>1, RequeuePreserves DEF Sweep, knobs
<1>7. ASSUME NEW S \in SUBSET Job, PruneHistory(S)
      PROVE  Inv'
  <2>1. \A j \in S : status[j] # "downloading"
    BY <1>7 DEF PruneHistory, Prunable, With
  <2> QED BY <1>7, <2>1, DeletePreserves DEF PruneHistory, run
<1>8. CASE \E j \in Job : FinishUnsaved(j)
  BY <1>8, FinishUnsavedPreserves
<1>9. CASE \E old \in SUBSET Job : Restart(old)
  BY <1>9, RestartPreserves
<1> QED BY <1>1, <1>2, <1>3, <1>4, <1>5, <1>6, <1>7, <1>8, <1>9
      DEF Next, Internal, Timers, Failures

\* The invariant holds in every reachable state.
THEOREM Invariance == Spec => []Inv
BY InitInv, NextPreserves, PTL DEF Spec

\* Every variable keeps its type, whatever rows, sources and requests there are.
THEOREM TypeCorrectness == Spec => []TypeOK
<1>1. Inv => TypeOK
  BY DEF Inv
<1> QED BY <1>1, Invariance, PTL

\* Rows, runs and cancel flags stay in step: no row says "downloading" without
\* a run behind it, and no flag outlives its run.
THEOREM RunsAreMatched == Spec => []RunsMatchRows
<1>1. Inv => RunsMatchRows
  BY DEF Inv
<1> QED BY <1>1, Invariance, PTL

\* No slot is ever given back twice or lost while every write succeeds, for
\* any number of sources, rows and slots.
THEOREM SlotsAreExact == Spec => []SlotAccounting
<1>1. Inv => SlotAccounting
  BY DEF Inv
<1> QED BY <1>1, Invariance, PTL

-----------------------------------------------------------------------------
(* The order of the rows                                                    *)

\* Ids are a strict linear order on the rows there are: AUTOINCREMENT hands no
\* id out twice, not even after a delete (schema of download_jobs).  Without
\* it "older" would not tell two rows apart and ORDER BY id would mean nothing.
RowOrder ==
  /\ \A i \in Job : <<i, i>> \notin older
  /\ \A i, j, k \in Job : <<i, j>> \in older /\ <<j, k>> \in older => <<i, k>> \in older
  /\ \A i, j \in Present(status) : i = j \/ <<i, j>> \in older \/ <<j, i>> \in older

\* A nonempty set of numbers has a least one.
LEMMA LeastNumber ==
  ASSUME NEW T \in SUBSET Nat, T # {}
  PROVE  \E m \in T : \A n \in T : m <= n
<1> DEFINE R == OpToRel(<, Nat)
<1>1. IsWellFoundedOn(R, Nat)
  BY NatLessThanWellFounded
<1>2. \A x, y \in Nat : x < y => <<x, y>> \in R
  BY DEF OpToRel
<1> HIDE DEF R
<1>3. PICK m \in T : \A n \in T : ~ (<<n, m>> \in R)
  BY <1>1, WFMin
<1>4. \A n \in T : ~(n < m)
  BY <1>2, <1>3
<1>5. \A n \in T : m \in Int /\ n \in Int
  OBVIOUS
<1>6. \A n \in T : m <= n
  BY <1>4, <1>5
<1> QED BY <1>6

\* The fresh ids of a batch follow all earlier ones and each other in the
\* order of first occurrence.
LEMMA NewerExtends ==
  ASSUME TypeOK, RowOrder, NEW batch \in Seq(Job),
         NEW new, new = Range(batch) \cap With({"absent"}),
         older' = older \cup Newer(batch, new),
         Present(status') = Present(status) \cup new
  PROVE  RowOrder'
<1>1. /\ older \subseteq Present(status) \X Present(status)
      /\ new \subseteq Job /\ new \cap Present(status) = {}
      /\ Present(status) \subseteq Job
  BY InvParts DEF With, Present
<1>2. DOMAIN batch = 1..Len(batch) /\ Len(batch) \in Nat
  OBVIOUS
<1> DEFINE Before(i, j) == \E m \in DOMAIN batch : batch[m] = i /\ j \notin {batch[n] : n \in 1..m}
<1>3. \A i, j \in Job : <<i, j>> \in Newer(batch, new) <=>
                         j \in new /\ (i \in Present(status) \/ Before(i, j))
  BY DEF Newer, Present
<1>4. \A i \in Job : ~Before(i, i)
  BY <1>2
<1>5. ASSUME NEW i \in Job, NEW j \in Job, NEW k \in Job, Before(i, j), Before(j, k)
      PROVE  Before(i, k)
  <2>1. PICK m \in DOMAIN batch : batch[m] = i /\ j \notin {batch[n] : n \in 1..m}
    BY <1>5
  <2>2. PICK l \in DOMAIN batch : batch[l] = j /\ k \notin {batch[n] : n \in 1..l}
    BY <1>5
  <2>3. m < l
    BY <1>2, <2>1, <2>2
  <2>4. \A n \in 1..m : n \in 1..l
    BY <1>2, <2>3
  <2>5. k \notin {batch[n] : n \in 1..m}
    BY <2>2, <2>4
  <2> QED BY <2>1, <2>5
<1>6. ASSUME NEW i \in new, NEW j \in new, i # j
      PROVE  Before(i, j) \/ Before(j, i)
  <2> DEFINE T == {m \in DOMAIN batch : batch[m] \in {i, j}}
  <2>1. T \in SUBSET Nat /\ T # {}
    BY <1>2 DEF Range
  <2> HIDE DEF T
  <2>2. PICK m \in T : \A n \in T : m <= n
    BY <2>1, LeastNumber
  <2>3. m \in DOMAIN batch /\ batch[m] \in {i, j}
    BY DEF T
  <2>4. \A n \in 1..m : n \in DOMAIN batch /\ (batch[n] \in {i, j} => n = m)
    <3> SUFFICES ASSUME NEW n \in 1..m
                 PROVE  n \in DOMAIN batch /\ (batch[n] \in {i, j} => n = m)
      OBVIOUS
    <3>1. n \in DOMAIN batch /\ n \in Int /\ n <= m /\ m \in Int
      BY <1>2, <2>3
    <3>2. batch[n] \in {i, j} => m <= n
      BY <2>2, <3>1 DEF T
    <3> QED BY <3>1, <3>2
  <2>5. CASE batch[m] = i
    <3>1. j \notin {batch[n] : n \in 1..m}
      BY <1>6, <2>4, <2>5
    <3> QED BY <2>3, <2>5, <3>1
  <2>6. CASE batch[m] = j
    <3>1. i \notin {batch[n] : n \in 1..m}
      BY <1>6, <2>4, <2>6
    <3> QED BY <2>3, <2>6, <3>1
  <2> QED BY <2>3, <2>5, <2>6
<1> HIDE DEF Before
<1>7. \A i \in Job : <<i, i>> \notin older'
  BY <1>1, <1>3, <1>4 DEF RowOrder
<1>8. ASSUME NEW i \in Job, NEW j \in Job, NEW k \in Job, <<i, j>> \in older', <<j, k>> \in older'
      PROVE  <<i, k>> \in older'
  <2>1. CASE <<i, j>> \in older
    <3>1. CASE <<j, k>> \in older
      BY <2>1, <3>1 DEF RowOrder
    <3>2. CASE <<j, k>> \in Newer(batch, new)
      BY <1>1, <1>3, <2>1, <3>2
    <3> QED BY <1>8, <3>1, <3>2
  <2>2. CASE <<i, j>> \in Newer(batch, new)
    <3>1. j \in new /\ <<j, k>> \in Newer(batch, new)
      BY <1>1, <1>3, <1>8, <2>2
    <3>2. Before(j, k) /\ k \in new /\ (i \in Present(status) \/ Before(i, j))
      BY <1>1, <1>3, <2>2, <3>1
    <3>3. i \in Present(status) \/ Before(i, k)
      BY <1>5, <3>2
    <3> QED BY <1>3, <3>2, <3>3
  <2> QED BY <1>8, <2>1, <2>2
<1>9. ASSUME NEW i \in Present(status'), NEW j \in Present(status')
      PROVE  i = j \/ <<i, j>> \in older' \/ <<j, i>> \in older'
  <2>1. CASE i \in Present(status) /\ j \in Present(status)
    BY <2>1 DEF RowOrder
  <2>2. CASE i \in Present(status) /\ j \in new
    BY <1>1, <1>3, <2>2
  <2>3. CASE i \in new /\ j \in Present(status)
    BY <1>1, <1>3, <2>3
  <2>4. CASE i \in new /\ j \in new
    BY <1>1, <1>3, <1>6, <2>4
  <2> QED BY <1>9, <2>1, <2>2, <2>3, <2>4
<1> QED BY <1>7, <1>8, <1>9 DEF RowOrder

\* Deleting rows, or none, keeps the order of the others.
LEMMA OrderKept ==
  ASSUME TypeOK, RowOrder, NEW S \in SUBSET Job, older' = OlderWithout(S),
         Present(status') \subseteq Present(status) \ S
  PROVE  RowOrder'
BY DEF RowOrder, OlderWithout, Present

\* A handler that leaves the ids alone and creates no row keeps the order.
LEMMA SameOrder ==
  ASSUME TypeOK, RowOrder, older' = older, Present(status') \subseteq Present(status)
  PROVE  RowOrder'
BY DEF RowOrder

\* A pass after the statuses `mid` starts some of the queued rows.
LEMMA PassStarts ==
  ASSUME Inv, NEW STATE st, NEW STATE act, act \in [Source -> Nat], Schedule(st, worker, act)
  PROVE  \E picks \in SUBSET {j \in Job : st[j] = "queued"} :
           status' = [j \in Job |-> IF j \in picks THEN "downloading" ELSE st[j]]
<1>1. PICK Q \in SUBSET {j \in Job : st[j] = "queued"} : Starts(Q, st, worker, act)
  BY ScheduleEffect
<1>2. status' = [j \in Job |-> IF j \in Q THEN "downloading" ELSE st[j]]
  BY <1>1 DEF Starts, Begin
<1> QED BY <1>2

\* A pass creates and deletes no row.
LEMMA PassKeepsRows ==
  ASSUME Inv, NEW STATE st, NEW STATE act, act \in [Source -> Nat], Schedule(st, worker, act)
  PROVE  Present(status') = Present(st)
<1>1. PICK picks \in SUBSET {j \in Job : st[j] = "queued"} :
        status' = [j \in Job |-> IF j \in picks THEN "downloading" ELSE st[j]]
  <2> HIDE DEF Inv
  <2> QED BY PassStarts
<1>2. \A j \in Job : status'[j] # "absent" <=> st[j] # "absent"
  BY <1>1
<1> QED BY <1>2 DEF Present

\* A slot can be given back: the counter stays a number.
LEMMA GivenBack ==
  ASSUME Inv, NEW s \in Source, settling[s] > 0
  PROVE  active[s] > 0 /\ GiveBack(s) \in [Source -> Nat]
<1>1. TypeOK /\ Cardinality(Runs(s)) \in Nat
  BY RowsFinite DEF Inv, Runs, Of
<1>2. active[s] > 0
  BY <1>1 DEF Inv, TypeOK, SlotAccounting
<1> QED BY <1>1, <1>2 DEF GiveBack, TypeOK

\* enqueue() gives fresh ids to its new rows only.
LEMMA EnqueueKeepsOrder ==
  ASSUME Inv, RowOrder, NEW batch \in Batches, NEW ref \in EntryRefs, Enqueue(batch, ref)
  PROVE  RowOrder'
<1> DEFINE new == Range(batch) \cap With({"absent"})
           st == Become(new \cup (Range(batch) \cap With(Requeueable)), "queued")
<1>1. TypeOK /\ active \in [Source -> Nat] /\ batch \in Seq(Job)
  BY DEF Inv, TypeOK
<1>2. older' = older \cup Newer(batch, new) /\ Schedule(st, worker, active)
  BY DEF Enqueue
<1>3. Present(st) = Present(status) \cup new
  BY <1>1 DEF Present, Become, With, Range, Requeueable
<1> HIDE DEF Inv, st
<1>4. Present(status') = Present(status) \cup new
  BY <1>1, <1>2, <1>3, PassKeepsRows
<1> QED BY <1>1, <1>2, <1>4, NewerExtends

\* Every step keeps the ids a strict linear order.
LEMMA NextKeepsOrder == Inv /\ RowOrder /\ [Next]_vars => RowOrder'
<1> SUFFICES ASSUME Inv, RowOrder, [Next]_vars PROVE RowOrder'
  OBVIOUS
<1>1. TypeOK /\ active \in [Source -> Nat]
  BY DEF Inv, TypeOK
<1> HIDE DEF Inv
<1>2. ASSUME NEW S \in SUBSET Job, \A j \in S : status[j] # "absent", older' = older,
             Schedule(Become(S, "queued"), worker, active)
      PROVE  RowOrder'
  <2>1. Present(Become(S, "queued")) = Present(status)
    BY <1>2 DEF Present, Become
  <2> QED BY <1>1, <1>2, <2>1, PassKeepsRows, SameOrder
<1>3. ASSUME older' = older, Schedule(status, worker, active)
      PROVE  RowOrder'
  BY <1>1, <1>3, PassKeepsRows, SameOrder
<1>4. ASSUME NEW s \in Source, Settle(s)
      PROVE  RowOrder'
  <2>1. settling[s] > 0 /\ older' = older /\ Schedule(status, worker, GiveBack(s))
    BY <1>4 DEF Settle
  <2>2. GiveBack(s) \in [Source -> Nat]
    BY <2>1, GivenBack
  <2> QED BY <1>1, <2>1, <2>2, PassKeepsRows, SameOrder
<1>5. ASSUME NEW S \in SUBSET Job, Delete(S)
      PROVE  RowOrder'
  <2>1. older' = OlderWithout(S) /\ Present(status') = Present(status) \ S
    BY <1>5 DEF Delete, Present, Become
  <2> QED BY <1>1, <2>1, OrderKept
<1>6. ASSUME NEW S \in SUBSET Job, Retry(S) \/ Sweep(S)
      PROVE  RowOrder'
  <2>1. \A j \in S : status[j] # "absent"
    BY <1>6 DEF Retry, Sweep, With
  <2> QED BY <1>2, <1>6, <2>1 DEF Retry, Sweep
<1>7. CASE Tick \/ Resume \/ \E n \in 1..MaxSlots : SetParallelSources(n) \/ SetConcurrency(n)
  BY <1>3, <1>7 DEF Tick, Resume, SetParallelSources, SetConcurrency
<1>8. ASSUME NEW j \in Job, Work(j)
      PROVE  RowOrder'
  <2>1. worker[j] \in Live /\ status[j] = "downloading"
    BY <1>8 DEF Work, ListPages, LeavePause, NextPage, LeaveLoop, Pack, Live, Inv, RunsMatchRows
  <2>2. \/ \E outcome \in Finished : Finish(j, outcome)
        \/ \E phase \in Live : Goto(j, phase)
    BY <1>8, Zenon DEF Work, ListPages, LeavePause, NextPage, LeaveLoop, Pack, Checkpoint, Live, Finished
  <2>3. older' = older /\ Present(status') \subseteq Present(status)
    BY <2>1, <2>2 DEF Finish, Goto, rows, Present, Become, Finished
  <2> QED BY <1>1, <2>3, SameOrder
<1>9. CASE UNCHANGED <<status, older>>
  BY <1>1, <1>9, SameOrder
<1>10. ASSUME NEW j \in Job, CancelQueued(j)
       PROVE  RowOrder'
  <2>1. older' = older /\ Present(status') \subseteq Present(status)
    BY <1>10 DEF CancelQueued, Present, Become
  <2> QED BY <1>1, <2>1, SameOrder
<1>11. ASSUME NEW old \in SUBSET Job, Restart(old)
       PROVE  RowOrder'
  <2>1. older' = OlderWithout(old) /\ Present(status') \subseteq Present(status) \ old
    BY <1>11 DEF Restart, Recovered, Present
  <2> QED BY <1>1, <2>1, OrderKept
<1>12. CASE Client
  <2>1. CASE \E S \in SUBSET Job : ClearHistory(S)
    BY <1>5, <2>1 DEF ClearHistory
  <2>2. CASE ClearQueue
    <3>1. With({"queued"}) \in SUBSET Job
      BY DEF With
    <3> QED BY <1>5, <2>2, <3>1 DEF ClearQueue
  <2>3. CASE Pause \/ \E j \in Job : CancelRunning(j)
    BY <1>9, <2>3 DEF Pause, CancelRunning, rows
  <2> QED BY <1>6, <1>7, <1>10, <1>12, <2>1, <2>2, <2>3, EnqueueKeepsOrder DEF Client
<1>13. CASE Timers
  BY <1>5, <1>6, <1>13 DEF Timers, PruneHistory
<1>14. CASE Failures
  BY <1>9, <1>11, <1>14 DEF Failures, FinishUnsaved, rows
<1>15. CASE Internal
  BY <1>4, <1>7, <1>8, <1>15 DEF Internal
<1>16. CASE UNCHANGED vars
  BY <1>9, <1>16 DEF vars, rows
<1> QED BY <1>12, <1>13, <1>14, <1>15, <1>16 DEF Next

\* No two rows ever share an id: the ids are a strict linear order in every
\* reachable state, with repeated chapters in a batch, deletes and crashes.
THEOREM IdsAreOrdered == Spec => []RowOrder
<1>1. Init => RowOrder
  BY DEF Init, RowOrder, Present
<1> QED BY <1>1, Invariance, NextKeepsOrder, PTL DEF Spec

-----------------------------------------------------------------------------
(* Concurrency limits                                                       *)

\* The rows of P that are started when the write of row f is refused.
CutAt(f, P, st) ==
  {j \in P : IF SourceOf[j] = SourceOf[f] THEN <<j, f>> \in older'
             ELSE HeadBefore(SourceOf[j], SourceOf[f], st)}

\* What a pass that picked the rows P really starts: all of them, or the ones
\* before the row f whose write is refused.
StartsOf(P, started, st, act) ==
  /\ P # {} => Picks(P, st, act)
  /\ started \subseteq P
  /\ Begin(started, st, worker)
  /\ \/ started = P /\ \A s \in Source : active'[s] = act[s] + Cardinality(Of(s, P))
     \/ \E f \in P :
          /\ started = CutAt(f, P, st)
          /\ \A s \in Source : active'[s] = IF Reached(s, f, st)
                                            THEN act[s] + Cardinality(Of(s, P)) ELSE act[s]

\* Every pass is of that shape.
LEMMA PassPicks ==
  ASSUME NEW STATE st, NEW STATE act, act \in [Source -> Nat], Schedule(st, worker, act)
  PROVE  \E P \in SUBSET {j \in Job : st[j] = "queued"} :
           \E started \in SUBSET Job : StartsOf(P, started, st, act)
<1>1. PICK P \in SUBSET {j \in Job : st[j] = "queued"} :
         /\ IF paused' THEN P = {} ELSE Picks(P, st, act)
         /\ \/ /\ Begin(P, st, worker)
               /\ active' = [s \in Source |-> act[s] + Cardinality(Of(s, P))]
            \/ \E f \in P : AbortAt(f, P, st, worker, act)
  BY DEF Schedule
<1>2. P # {} => Picks(P, st, act)
  BY <1>1
<1>3. CASE /\ Begin(P, st, worker)
           /\ active' = [s \in Source |-> act[s] + Cardinality(Of(s, P))]
  <2>1. \A s \in Source : active'[s] = act[s] + Cardinality(Of(s, P))
    BY <1>3
  <2>2. StartsOf(P, P, st, act)
    BY <1>2, <1>3, <2>1 DEF StartsOf
  <2> QED BY <2>2
<1>4. ASSUME NEW f \in P, AbortAt(f, P, st, worker, act)
      PROVE  \E started \in SUBSET Job : StartsOf(P, started, st, act)
  <2> DEFINE started == CutAt(f, P, st)
  <2>1. started \in SUBSET Job /\ started \subseteq P
    BY DEF CutAt
  <2>2. /\ Begin(started, st, worker)
        /\ active' = [s \in Source |->
             IF Reached(s, f, st) THEN act[s] + Cardinality(Of(s, P)) ELSE act[s]]
    BY <1>4 DEF AbortAt, CutAt
  <2>3. started = CutAt(f, P, st)
    OBVIOUS
  <2> HIDE DEF started
  <2>4. \A s \in Source : active'[s] = IF Reached(s, f, st)
                                       THEN act[s] + Cardinality(Of(s, P)) ELSE act[s]
    BY <2>2
  <2>5. StartsOf(P, started, st, act)
    BY <1>2, <2>1, <2>2, <2>3, <2>4 DEF StartsOf
  <2> QED BY <2>1, <2>5
<1> QED BY <1>1, <1>3, <1>4

\* The limits as the counter sees them: a step that starts runs leaves their
\* source within concurrencyPerSource, and gives a first slot to a source only
\* while parallelSources sources or fewer download.
StartsWithinSlots ==
  \A s \in Source :
    Runs(s)' \ Runs(s) # {} =>
      /\ Cardinality(Runs(s)') <= concurrencyPerSource'
      /\ active[s] = 0 => Cardinality({t \in Source : Runs(t)' # {}}) <= parallelSources'

\* A pass whose counter covers the runs stays within both limits, also when it
\* stops half way: the sources with a run after it are the busy ones and the
\* admitted ones.
LEMMA PassWithinLimits ==
  ASSUME Inv,
         NEW STATE st, NEW STATE act, act \in [Source -> Nat], settling' \in [Source -> Nat],
         Covers(act, worker, settling'),
         \A s \in Source : active[s] = 0 => act[s] = 0,
         \A j \in Job : st[j] = "downloading" <=> status[j] = "downloading",
         parallelSources' \in 1..MaxSlots, concurrencyPerSource' \in 1..MaxSlots,
         Schedule(st, worker, act)
  PROVE  StartsWithinSlots
<1>0. PICK P \in SUBSET {j \in Job : st[j] = "queued"} :
        \E Q \in SUBSET Job : StartsOf(P, Q, st, act)
  <2> HIDE DEF Inv
  <2> QED BY PassPicks
<1>01. PICK Q \in SUBSET Job : StartsOf(P, Q, st, act)
  BY <1>0
<1>02. Q \subseteq P /\ (P # {} => Picks(P, st, act)) /\ Begin(Q, st, worker)
  BY <1>01 DEF StartsOf
<1>1. \A j \in P : j \in Job /\ worker[j] = "none"
  BY DEF Inv, RunsMatchRows
<1>2. \A s \in Source : /\ Runs(s)' = Runs(s) \cup Of(s, Q)
                        /\ Of(s, Q) \subseteq Of(s, P)
  BY <1>02, <1>1 DEF Begin, Runs, Of, Live
<1>3. SUFFICES ASSUME NEW s \in Source, Runs(s)' \ Runs(s) # {}
               PROVE  /\ Cardinality(Runs(s)') <= concurrencyPerSource'
                      /\ active[s] = 0 =>
                           Cardinality({t \in Source : Runs(t)' # {}}) <= parallelSources'
  BY DEF StartsWithinSlots
<1>4. Of(s, P) # {}
  BY <1>2, <1>3
<1>5. Picks(P, st, act)
  BY <1>02, <1>4 DEF Of
<1>6. PICK S \in SUBSET Idle(st, act) :
        /\ Admits(S, st, act)
        /\ \A t \in Source :
             LET queued == QueuedOf(t, st)
                 room == concurrencyPerSource' - act[t]
             IN Cardinality(Of(t, P)) =
                  IF room <= 0 \/ (act[t] = 0 /\ t \notin S) THEN 0
                  ELSE Least(room, Cardinality(queued))
  BY <1>5 DEF Picks
<1>7. \A t \in Source : /\ Cardinality(Of(t, Q)) \in Nat
                        /\ Cardinality(Of(t, P)) \in Nat
                        /\ Cardinality(Of(t, Q)) <= Cardinality(Of(t, P))
                        /\ Cardinality(QueuedOf(t, st)) \in Nat
                        /\ Cardinality(Runs(t)) \in Nat
  <2> SUFFICES ASSUME NEW t \in Source
               PROVE  /\ Cardinality(Of(t, Q)) \in Nat
                      /\ Cardinality(Of(t, P)) \in Nat
                      /\ Cardinality(Of(t, Q)) <= Cardinality(Of(t, P))
                      /\ Cardinality(QueuedOf(t, st)) \in Nat
                      /\ Cardinality(Runs(t)) \in Nat
    OBVIOUS
  <2>1. Of(t, Q) \subseteq Of(t, P) /\ Of(t, P) \subseteq Job
    BY <1>2 DEF Of
  <2>2. QueuedOf(t, st) \subseteq Job /\ Runs(t) \subseteq Job
    BY DEF Of, QueuedOf, Runs
  <2> QED BY <2>1, <2>2, RowsFinite, RowsMonotone
<1>8. \A t \in Source : Of(t, P) # {} => Cardinality(Of(t, P)) # 0
  <2> SUFFICES ASSUME NEW t \in Source, Of(t, P) # {}
               PROVE  Cardinality(Of(t, P)) # 0
    OBVIOUS
  <2>1. IsFiniteSet(Of(t, P))
    BY <1>1, RowsFinite DEF Of
  <2> QED BY <2>1, FS_EmptySet
<1>9. \A t \in Source : act[t] >= Cardinality(Runs(t))
  <2> SUFFICES ASSUME NEW t \in Source
               PROVE  act[t] >= Cardinality(Runs(t))
    OBVIOUS
  <2>1. act[t] >= Cardinality(RunsUnder(worker, t)) + settling'[t]
    BY DEF Covers
  <2>2. RunsUnder(worker, t) = Runs(t)
    BY DEF RunsUnder, Runs
  <2>3. act[t] \in Nat /\ settling'[t] \in Nat /\ Cardinality(Runs(t)) \in Nat
    BY <1>7
  <2> QED BY <2>1, <2>2, <2>3
<1>10. Cardinality(Runs(s)') <= concurrencyPerSource'
  <2>1. Runs(s) \cap Of(s, Q) = {} /\ Runs(s) \subseteq Job /\ Of(s, Q) \subseteq Job
    BY <1>02, <1>1 DEF Runs, Of, Live
  <2>2. Cardinality(Runs(s)') = Cardinality(Runs(s)) + Cardinality(Of(s, Q))
    BY <1>2, <2>1, RowsDisjoint
  <2>3. act[s] >= Cardinality(Runs(s))
    BY <1>9
  <2>4. Cardinality(Of(s, P)) # 0
    BY <1>4, <1>8
  <2>5. Cardinality(Of(s, P)) <= concurrencyPerSource' - act[s]
    BY <1>6, <1>7, <2>4 DEF Least
  <2>6. concurrencyPerSource' \in Int /\ act[s] \in Int
    BY QueuePositive
  <2> QED BY <1>7, <2>2, <2>3, <2>5, <2>6
<1>11. ASSUME active[s] = 0
       PROVE  Cardinality({t \in Source : Runs(t)' # {}}) <= parallelSources'
  <2> DEFINE busy == Busy(act)
             after == {t \in Source : Runs(t)' # {}}
  <2>1. act[s] = 0
    BY <1>11
  <2>2. s \in S
    BY <1>4, <1>6, <1>8, <2>1
  <2>3. busy \subseteq Source /\ S \subseteq Source /\ busy \cap S = {}
    BY DEF Busy, Idle
  <2>4. IsFiniteSet(busy) /\ IsFiniteSet(S) /\ IsFiniteSet(busy \cup S)
    <3>1. IsFiniteSet(Source) /\ busy \cup S \subseteq Source
      BY <2>3
    <3> QED BY <2>3, <3>1, FS_Subset
  <2>5. after \subseteq busy \cup S
    <3> SUFFICES ASSUME NEW t \in Source, Runs(t)' # {}, act[t] = 0
                 PROVE  t \in S
      BY DEF Busy
    <3>1. Runs(t) = {}
      <4>1. Cardinality(Runs(t)) = 0
        BY <1>7, <1>9
      <4>2. IsFiniteSet(Runs(t))
        BY RowsFinite DEF Runs, Of
      <4> QED BY <4>1, <4>2, FS_EmptySet
    <3>2. Of(t, P) # {}
      BY <1>2, <3>1
    <3> QED BY <1>6, <1>8, <3>2
  <2>6. Cardinality(after) <= Cardinality(busy \cup S) /\ Cardinality(after) \in Nat
    <3> HIDE DEF after, busy
    <3>1. IsFiniteSet(after) /\ Cardinality(after) <= Cardinality(busy \cup S)
      BY <2>4, <2>5, FS_Subset
    <3> QED BY <3>1, FS_CardinalityType
  <2>7. Cardinality(busy \cup S) = Cardinality(busy) + Cardinality(S)
    <3>1. Cardinality(busy \cup S) = Cardinality(busy) + Cardinality(S) - Cardinality(busy \cap S)
      BY <2>4, FS_Union, Zenon
    <3>2. Cardinality(busy) \in Nat /\ Cardinality(S) \in Nat
      BY <2>4, FS_CardinalityType
    <3>3. Cardinality(busy \cap S) = 0
      BY <2>3, FS_EmptySet
    <3> QED BY <3>1, <3>2, <3>3
  <2>8. Cardinality(S) # 0
    BY <2>2, <2>4, FS_EmptySet
  <2>9. Cardinality(S) <= Free(act) /\ Cardinality(S) \in Nat /\ Cardinality(busy) \in Nat
    <3>1. Cardinality(S) \in Nat /\ Cardinality(busy) \in Nat
      BY <2>4, FS_CardinalityType
    <3>2. Cardinality(Idle(st, act)) \in Nat
      <4>1. IsFiniteSet(Idle(st, act))
        BY FS_Subset DEF Idle
      <4> QED BY <4>1, FS_CardinalityType
    <3>3. Free(act) \in Int
      BY <3>1, QueuePositive DEF Free
    <3>4. Cardinality(S) = IF Free(act) <= 0 THEN 0 ELSE Least(Free(act), Cardinality(Idle(st, act)))
      BY <1>6 DEF Admits
    <3> QED BY <2>8, <3>1, <3>2, <3>3, <3>4 DEF Least
  <2>10. Cardinality(S) <= parallelSources' - Cardinality(busy) /\ parallelSources' \in Int
    BY <2>9, QueuePositive DEF Free
  <2> QED BY <2>6, <2>7, <2>9, <2>10
<1> QED BY <1>10, <1>11

\* A handler that queues the rows of S, perhaps none, and runs a pass.
Requeues(S) ==
  /\ S \subseteq With({"absent", "failed", "cancelled"})
  /\ settling' = settling
  /\ parallelSources' \in 1..MaxSlots
  /\ concurrencyPerSource' \in 1..MaxSlots
  /\ Schedule(Become(S, "queued"), worker, active)

\* The kinds of steps, as far as statuses, workers and slots can tell.
LEMMA StepKinds ==
  ASSUME Inv, Next
  PROVE  \/ \E S \in SUBSET Job : Requeues(S)
         \/ \E s \in Source : Settle(s)
         \/ \E j \in Job, outcome \in Finished : worker[j] \in Live /\ Finish(j, outcome)
         \/ \E j \in Job, phase \in Live : worker[j] \in Live /\ Goto(j, phase)
         \/ \E j \in Job : FinishUnsaved(j) \/ CancelQueued(j) \/ CancelRunning(j)
         \/ \E S \in SUBSET With(Finished) : Delete(S) /\ UNCHANGED <<run, slots, knobs>>
         \/ ClearQueue
         \/ Pause
         \/ \E old \in SUBSET Job : Restart(old)
<1>0. /\ parallelSources \in 1..MaxSlots /\ concurrencyPerSource \in 1..MaxSlots
      /\ status = Become({}, "queued")
      /\ {} \subseteq With({"absent", "failed", "cancelled"})
  BY DEF Inv, TypeOK, Become
<1>1. ASSUME NEW j \in Job, Work(j)
      PROVE  \/ \E outcome \in Finished : worker[j] \in Live /\ Finish(j, outcome)
             \/ \E phase \in Live : worker[j] \in Live /\ Goto(j, phase)
  BY <1>1, Zenon DEF Work, ListPages, LeavePause, NextPage, LeaveLoop, Pack, Checkpoint, Live, Finished
<1>2. ASSUME \/ Tick \/ Resume
             \/ \E n \in 1..MaxSlots : SetParallelSources(n) \/ SetConcurrency(n)
      PROVE  Requeues({})
  BY <1>0, <1>2 DEF Tick, Resume, SetParallelSources, SetConcurrency, Requeues, knobs
<1>3. ASSUME NEW batch \in Batches, NEW ref \in EntryRefs, Enqueue(batch, ref)
      PROVE  \E S \in SUBSET Job : Requeues(S)
  <2> DEFINE S == (Range(batch) \cap With({"absent"})) \cup (Range(batch) \cap With(Requeueable))
  <2>1. S \subseteq With({"absent", "failed", "cancelled"}) /\ S \in SUBSET Job
    BY DEF With, Requeueable
  <2>2. settling' = settling /\ UNCHANGED knobs /\ Schedule(Become(S, "queued"), worker, active)
    BY <1>3 DEF Enqueue
  <2> HIDE DEF S
  <2>3. Requeues(S)
    BY <1>0, <2>1, <2>2 DEF Requeues, knobs
  <2> QED BY <2>1, <2>3
<1>4. ASSUME NEW S \in SUBSET Job, Retry(S) \/ Sweep(S)
      PROVE  Requeues(S)
  <2>1. S \subseteq With({"absent", "failed", "cancelled"})
    BY <1>4 DEF Retry, Sweep, With
  <2> QED BY <1>0, <1>4, <2>1 DEF Retry, Sweep, Requeues, knobs
<1>5. ASSUME NEW S \in SUBSET Job, ClearHistory(S) \/ PruneHistory(S)
      PROVE  S \subseteq With(Finished) /\ Delete(S) /\ UNCHANGED <<run, slots, knobs>>
  <2>1. S \subseteq With(Finished)
    BY <1>5 DEF ClearHistory, PruneHistory, Prunable, With, Finished
  <2> QED BY <1>5, <2>1 DEF ClearHistory, PruneHistory, run
<1> HIDE DEF Inv
<1> QED BY <1>1, <1>2, <1>3, <1>4, <1>5 DEF Next, Internal, Client, Timers, Failures

\* Every step takes slots for new runs within the two limits.
LEMMA NextWithinSlots ==
  ASSUME Inv, [Next]_vars
  PROVE  StartsWithinSlots \/ UNCHANGED vars
<1>1. SUFFICES ASSUME Next PROVE StartsWithinSlots
  OBVIOUS
<1>2. TypeOK /\ Covers(active, worker, settling)
  BY InvCovers DEF Inv
<1>4. ASSUME NEW S \in SUBSET Job, Requeues(S)
      PROVE  StartsWithinSlots
  <2>1. \A j \in Job : Become(S, "queued")[j] = "downloading" <=> status[j] = "downloading"
    BY <1>4 DEF Requeues, Become, With
  <2>2. /\ active \in [Source -> Nat] /\ settling' \in [Source -> Nat]
        /\ Covers(active, worker, settling')
    BY <1>2, <1>4 DEF Requeues, TypeOK
  <2> HIDE DEF Inv
  <2> QED BY <1>4, <2>1, <2>2, PassWithinLimits DEF Requeues
<1>5. ASSUME NEW u \in Source, Settle(u)
      PROVE  StartsWithinSlots
  <2>1. /\ settling[u] > 0
        /\ settling' = [settling EXCEPT ![u] = @ - 1]
        /\ UNCHANGED knobs
        /\ Schedule(status, worker, GiveBack(u))
    BY <1>5 DEF Settle
  <2>2. settling' \in [Source -> Nat]
    BY <1>2, <2>1 DEF TypeOK
  <2>3. \A t \in Source : Cardinality(RunsUnder(worker, t)) \in Nat
    BY RowsFinite DEF RunsUnder, Of
  <2>4. active[u] > 0
    BY <1>2, <2>1, <2>3 DEF Covers, TypeOK
  <2>5. GiveBack(u) \in [Source -> Nat]
    BY <1>2, <2>4 DEF GiveBack, TypeOK
  <2>6. Covers(GiveBack(u), worker, settling')
    BY <1>2, <2>1, <2>3 DEF Covers, GiveBack, TypeOK
  <2>7. \A s \in Source : active[s] = 0 => GiveBack(u)[s] = 0
    BY <1>2, <2>4 DEF GiveBack, TypeOK
  <2>8. parallelSources' \in 1..MaxSlots /\ concurrencyPerSource' \in 1..MaxSlots
    BY <1>2, <2>1 DEF TypeOK, knobs
  <2> HIDE DEF Inv
  <2> QED BY <2>1, <2>2, <2>5, <2>6, <2>7, <2>8, PassWithinLimits
<1>6. ASSUME \A s \in Source : Runs(s)' \subseteq Runs(s)
      PROVE  StartsWithinSlots
  BY <1>6 DEF StartsWithinSlots
<1>7. ASSUME NEW j \in Job, NEW w \in Phase, worker[j] \in Live, worker' = [worker EXCEPT ![j] = w]
      PROVE  StartsWithinSlots
  <2>1. \A s \in Source : Runs(s)' \subseteq Runs(s)
    BY <1>2, <1>7 DEF TypeOK, Runs, Of
  <2> QED BY <1>6, <2>1
<1>8. ASSUME worker' = worker \/ worker' = [j \in Job |-> "none"]
      PROVE  StartsWithinSlots
  <2>1. \A s \in Source : Runs(s)' \subseteq Runs(s)
    BY <1>8 DEF Runs, Of, Live
  <2> QED BY <1>6, <2>1
<1>9. CASE \E j \in Job, outcome \in Finished : worker[j] \in Live /\ Finish(j, outcome)
  BY <1>7, <1>9 DEF Finish, Phase
<1>10. CASE \E j \in Job, phase \in Live : worker[j] \in Live /\ Goto(j, phase)
  BY <1>7, <1>10 DEF Goto, Phase
<1>11. CASE \E j \in Job : FinishUnsaved(j) \/ CancelQueued(j) \/ CancelRunning(j)
  <2>1. CASE \E j \in Job : FinishUnsaved(j)
    BY <1>7, <2>1 DEF FinishUnsaved, Phase
  <2>2. CASE \E j \in Job : CancelQueued(j) \/ CancelRunning(j)
    BY <1>8, <2>2 DEF CancelQueued, CancelRunning, run
  <2> QED BY <1>11, <2>1, <2>2
<1>12. CASE \/ \E S \in SUBSET With(Finished) : Delete(S) /\ UNCHANGED <<run, slots, knobs>>
            \/ ClearQueue \/ Pause
  BY <1>8, <1>12 DEF ClearQueue, Pause, run
<1>13. CASE \E old \in SUBSET Job : Restart(old)
  BY <1>8, <1>13 DEF Restart
<1> HIDE DEF Inv
<1> QED BY <1>1, <1>4, <1>5, <1>9, <1>10, <1>11, <1>12, <1>13, StepKinds

\* No step starts a run beyond the limits the counter enforces, for any rows,
\* sources and settings, also when the pass is cut off by a refused write: the
\* slots that leak then only make the queue more careful.
THEOREM SlotsBoundRuns == Spec => [][StartsWithinSlots]_vars
<1>1. Inv /\ [Next]_vars => [StartsWithinSlots]_vars
  BY NextWithinSlots
<1> QED BY <1>1, Invariance, PTL DEF Spec

\* While every write succeeds the counter is exact, so that a source without
\* slots is one without runs.
LEMMA ExactSlots ==
  ASSUME Inv, "write" \notin Faults, StartsWithinSlots
  PROVE  StartsWithinLimits
<1>1. ASSUME NEW s \in Source, Runs(s) = {}, settling[s] = 0
      PROVE  active[s] = 0
  <2>1. active[s] = Cardinality(Runs(s)) + settling[s]
    BY DEF Inv, SlotAccounting
  <2> QED BY <1>1, <2>1, FS_EmptySet
<1> QED BY <1>1 DEF StartsWithinSlots, StartsWithinLimits

\* While every write succeeds, no step starts a run beyond the two limits, for
\* any rows, sources and settings.
THEOREM LimitsHold == ASSUME "write" \notin Faults PROVE Spec => WithinLimits
<1>1. Inv /\ [Next]_vars => [StartsWithinLimits]_vars
  BY NextWithinSlots, ExactSlots
<1> QED BY <1>1, Invariance, PTL DEF Spec, WithinLimits

-----------------------------------------------------------------------------
(* Runs start in id order                                                   *)

\* A pass starts runs in id order, also when it stops half way.
LEMMA PassInOrder ==
  ASSUME Inv, RowOrder',
         NEW STATE st, NEW STATE act, act \in [Source -> Nat],
         \A j \in Job : st[j] = "downloading" => status[j] = "downloading",
         \A s \in Source : active[s] = 0 => act[s] = 0,
         concurrencyPerSource' \in 1..MaxSlots,
         Schedule(st, worker, act)
  PROVE  StartsInOrder
<1>0. PICK P \in SUBSET {j \in Job : st[j] = "queued"} :
        \E started \in SUBSET Job : StartsOf(P, started, st, act)
  <2> HIDE DEF Inv
  <2> QED BY PassPicks
<1>01. PICK started \in SUBSET Job : StartsOf(P, started, st, act)
  BY <1>0
<1>1. /\ P # {} => Picks(P, st, act)
      /\ started \subseteq P
      /\ status' = [j \in Job |-> IF j \in started THEN "downloading" ELSE st[j]]
      /\ \/ started = P /\ \A s \in Source : active'[s] = act[s] + Cardinality(Of(s, P))
         \/ \E f \in P :
              /\ started = CutAt(f, P, st)
              /\ \A s \in Source : active'[s] = IF Reached(s, f, st)
                                                THEN act[s] + Cardinality(Of(s, P)) ELSE act[s]
  BY <1>01 DEF StartsOf, Begin
<1>2. SUFFICES ASSUME NEW j \in Job, status[j] # "downloading", status'[j] = "downloading",
                      NEW i \in Job, status'[i] = "queued", <<i, j>> \in older'
               PROVE  /\ SourceOf[i] # SourceOf[j]
                      /\ \/ active[SourceOf[j]] > 0 \/ active'[SourceOf[i]] > 0
                         \/ \E k \in Job : /\ SourceOf[k] = SourceOf[j]
                                           /\ status'[k] = "downloading"
                                           /\ <<k, i>> \in older'
  BY DEF StartsInOrder
<1> DEFINE s == SourceOf[j]
           t == SourceOf[i]
<1>3. j \in started /\ j \in P /\ i \notin started /\ st[i] = "queued" /\ st[j] = "queued"
  BY <1>1, <1>2
<1>4. PICK S \in SUBSET Idle(st, act) :
        /\ Admits(S, st, act)
        /\ \A u \in Source :
             LET queued == QueuedOf(u, st)
                 room == concurrencyPerSource' - act[u]
                 mine == Of(u, P)
             IN /\ Cardinality(mine) =
                     IF room <= 0 \/ (act[u] = 0 /\ u \notin S) THEN 0
                     ELSE Least(room, Cardinality(queued))
                /\ FirstOf(mine, queued)
  BY <1>1, <1>3 DEF Picks
<1>5. /\ \A k \in Job : <<k, k>> \notin older'
      /\ \A k, l, m \in Job : <<k, l>> \in older' /\ <<l, m>> \in older' => <<k, m>> \in older'
      /\ \A k, l \in Job : st[k] = "queued" /\ st[l] = "queued" =>
                             k = l \/ <<k, l>> \in older' \/ <<l, k>> \in older'
  <2>1. \A k \in Job : st[k] = "queued" => k \in Present(status')
    BY <1>1 DEF Present
  <2> QED BY <2>1 DEF RowOrder
\* The rows of a source start from its oldest one on.
<1>6. ASSUME NEW k \in Job, SourceOf[k] = s, st[k] = "queued", <<k, j>> \in older'
      PROVE  k \in started
  <2>1. FirstOf(Of(s, P), QueuedOf(s, st))
    BY <1>4
  <2>2. k \in P
    <3> SUFFICES ASSUME k \notin P PROVE FALSE
      OBVIOUS
    <3>1. j \in Of(s, P) /\ k \in QueuedOf(s, st) \ Of(s, P)
      BY <1>3, <1>6 DEF Of, QueuedOf
    <3>2. <<j, k>> \in older'
      BY <2>1, <3>1 DEF FirstOf
    <3> QED BY <1>5, <1>6, <3>2
  <2>3. CASE started = P
    BY <2>2, <2>3
  <2>4. ASSUME NEW f \in P, started = CutAt(f, P, st)
        PROVE  k \in started
    <3>1. IF s = SourceOf[f] THEN <<j, f>> \in older' ELSE HeadBefore(s, SourceOf[f], st)
      BY <1>3, <2>4 DEF CutAt
    <3>2. s = SourceOf[f] => <<k, f>> \in older'
      BY <1>5, <1>6, <3>1
    <3> QED BY <1>6, <2>2, <2>4, <3>1, <3>2 DEF CutAt
  <2> QED BY <1>1, <2>3, <2>4
<1>7. s # t
  BY <1>2, <1>3, <1>6
<1>8. ASSUME NEW k \in QueuedOf(s, st), <<k, i>> \in older'
      PROVE  \E l \in Job : /\ SourceOf[l] = s
                            /\ status'[l] = "downloading"
                            /\ <<l, i>> \in older'
  <2>1. k \in Job /\ SourceOf[k] = s /\ st[k] = "queued"
    BY DEF QueuedOf, Of
  <2>2. <<k, j>> \in older'
    BY <1>2, <1>5, <1>8, <2>1
  <2>3. status'[k] = "downloading"
    BY <1>1, <1>6, <2>1, <2>2
  <2> QED BY <1>8, <2>1, <2>3
<1>9. ASSUME active[s] = 0, active'[t] = 0
      PROVE  \E k \in QueuedOf(s, st) : <<k, i>> \in older'
  <2>1. act[s] = 0 /\ s \in Source /\ t \in Source
    BY <1>9
  <2>2. \A u \in Source : Cardinality(Of(u, P)) \in Nat /\ Of(u, P) \subseteq Job
    <3>1. \A u \in Source : Of(u, P) \subseteq Job
      BY DEF Of
    <3> QED BY <3>1, RowsFinite
  <2>3. s \in S
    <3>1. j \in Of(s, P) /\ IsFiniteSet(Of(s, P))
      BY <1>3, <2>1, <2>2, RowsFinite DEF Of
    <3>2. Cardinality(Of(s, P)) # 0
      BY <3>1, FS_EmptySet
    <3> QED BY <1>4, <2>1, <3>2
  <2>4. act[t] = 0
    BY <1>1, <1>9, <2>1, <2>2
  <2>5. i \in QueuedOf(t, st) /\ t \in Idle(st, act)
    BY <1>3, <2>1, <2>4 DEF QueuedOf, Of, Idle
  <2>6. CASE t \notin S
    <3>1. HeadBefore(s, t, st)
      BY <1>4, <2>3, <2>5, <2>6 DEF Admits
    <3> QED BY <2>5, <3>1 DEF HeadBefore
  <2>7. CASE t \in S
    <3>1. Cardinality(Of(t, P)) # 0
      <4>1. IsFiniteSet(QueuedOf(t, st)) /\ Cardinality(QueuedOf(t, st)) \in Nat
        BY RowsFinite DEF QueuedOf, Of
      <4>2. Cardinality(QueuedOf(t, st)) # 0
        BY <2>5, <4>1, FS_EmptySet
      <4>3. concurrencyPerSource' \in Nat \ {0}
        BY QueuePositive
      <4>4. Cardinality(Of(t, P)) = Least(concurrencyPerSource', Cardinality(QueuedOf(t, st)))
        BY <1>4, <2>1, <2>4, <2>7, <4>3
      <4> QED BY <4>1, <4>2, <4>3, <4>4 DEF Least
    <3>2. ~ \A u \in Source : active'[u] = act[u] + Cardinality(Of(u, P))
      BY <1>9, <2>1, <2>2, <2>4, <3>1
    <3>3. PICK f \in P :
            /\ started = CutAt(f, P, st)
            /\ \A u \in Source : active'[u] = IF Reached(u, f, st)
                                              THEN act[u] + Cardinality(Of(u, P)) ELSE act[u]
      BY <1>1, <3>2
    <3>4. ~Reached(t, f, st)
      BY <1>9, <2>1, <2>2, <2>4, <3>1, <3>3
    <3>5. t # SourceOf[f] /\ ~HeadBefore(t, SourceOf[f], st)
      BY <3>4 DEF Reached
    <3>6. PICK l \in QueuedOf(SourceOf[f], st) : <<i, l>> \notin older'
      BY <2>5, <3>5 DEF HeadBefore
    <3>7. l \in Job /\ st[l] = "queued" /\ SourceOf[l] = SourceOf[f]
      BY DEF QueuedOf, Of
    <3>8. <<l, i>> \in older'
      BY <1>3, <1>5, <3>5, <3>6, <3>7
    <3>9. CASE s = SourceOf[f]
      BY <3>8, <3>9
    <3>10. CASE s # SourceOf[f]
      <4>1. HeadBefore(s, SourceOf[f], st)
        BY <1>3, <3>3, <3>10 DEF CutAt
      <4>2. PICK k \in QueuedOf(s, st) : <<k, l>> \in older'
        BY <4>1 DEF HeadBefore
      <4>3. k \in Job
        BY DEF QueuedOf, Of
      <4> QED BY <1>5, <3>7, <3>8, <4>2, <4>3
    <3> QED BY <3>9, <3>10
  <2> QED BY <2>6, <2>7
<1>10. active[s] \in Nat /\ active'[t] \in Nat
  <2>1. \A u \in Source : Cardinality(Of(u, P)) \in Nat
    <3>1. \A u \in Source : Of(u, P) \subseteq Job
      BY DEF Of
    <3> QED BY <3>1, RowsFinite
  <2>2. active'[t] \in Nat
    BY <1>1, <2>1
  <2> QED BY <2>2 DEF Inv, TypeOK
<1>11. CASE active[s] = 0 /\ active'[t] = 0
  BY <1>7, <1>8, <1>9, <1>11
<1>12. CASE active[s] # 0
  BY <1>7, <1>10, <1>12
<1>13. CASE active'[t] # 0
  BY <1>7, <1>10, <1>13
<1> QED BY <1>11, <1>12, <1>13

\* Every step starts runs in id order, or starts none.
LEMMA NextInOrder ==
  ASSUME Inv, RowOrder, RowOrder', [Next]_vars
  PROVE  StartsInOrder \/ UNCHANGED vars
<1>1. SUFFICES ASSUME Next PROVE StartsInOrder
  OBVIOUS
<1>2. TypeOK /\ active \in [Source -> Nat]
  BY DEF Inv, TypeOK
<1>3. ASSUME NEW S \in SUBSET Job, Requeues(S)
      PROVE  StartsInOrder
  <2>1. \A j \in Job : Become(S, "queued")[j] = "downloading" => status[j] = "downloading"
    BY DEF Become
  <2> HIDE DEF Inv
  <2> QED BY <1>2, <1>3, <2>1, PassInOrder DEF Requeues
<1>4. ASSUME NEW u \in Source, Settle(u)
      PROVE  StartsInOrder
  <2>1. settling[u] > 0 /\ UNCHANGED knobs /\ Schedule(status, worker, GiveBack(u))
    BY <1>4 DEF Settle
  <2>2. active[u] > 0 /\ GiveBack(u) \in [Source -> Nat]
    <3> HIDE DEF Inv
    <3> QED BY <2>1, GivenBack
  <2>3. \A s \in Source : active[s] = 0 => GiveBack(u)[s] = 0
    BY <1>2, <2>2 DEF GiveBack
  <2>4. concurrencyPerSource' \in 1..MaxSlots
    BY <1>2, <2>1 DEF TypeOK, knobs
  <2> HIDE DEF Inv
  <2> QED BY <2>1, <2>2, <2>3, <2>4, PassInOrder
<1>5. ASSUME \A j \in Job : status'[j] = "downloading" => status[j] = "downloading"
      PROVE  StartsInOrder
  BY <1>5 DEF StartsInOrder
<1>6. CASE \E j \in Job, outcome \in Finished : worker[j] \in Live /\ Finish(j, outcome)
  <2>1. \A j \in Job : status'[j] = "downloading" => status[j] = "downloading"
    BY <1>6 DEF Finish, Become, Finished
  <2> QED BY <1>5, <2>1
<1>7. CASE \/ \E j \in Job, phase \in Live : worker[j] \in Live /\ Goto(j, phase)
           \/ \E j \in Job : FinishUnsaved(j) \/ CancelRunning(j)
           \/ Pause
  BY <1>5, <1>7 DEF Goto, FinishUnsaved, CancelRunning, Pause, rows
<1>8. CASE \E j \in Job : CancelQueued(j)
  <2>1. \A j \in Job : status'[j] = "downloading" => status[j] = "downloading"
    BY <1>8 DEF CancelQueued, Become
  <2> QED BY <1>5, <2>1
<1>9. ASSUME NEW S, Delete(S)
      PROVE  StartsInOrder
  <2>1. \A j \in Job : status'[j] = "downloading" => status[j] = "downloading"
    BY <1>9 DEF Delete, Become
  <2> QED BY <1>5, <2>1
<1>10. CASE \E old \in SUBSET Job : Restart(old)
  <2>1. \A j \in Job : status'[j] = "downloading" => status[j] = "downloading"
    BY <1>10 DEF Restart, Recovered
  <2> QED BY <1>5, <2>1
<1> HIDE DEF Inv
<1> QED BY <1>1, <1>3, <1>4, <1>6, <1>7, <1>8, <1>9, <1>10, StepKinds DEF ClearQueue

\* No row overtakes an older one of its source and no idle source an idle one
\* with an older head, for any rows, settings, crashes and refused writes.
THEOREM RunsStartInOrder == Spec => OldestFirst
<1>1. Inv /\ RowOrder /\ RowOrder' /\ [Next]_vars => [StartsInOrder]_vars
  BY NextInOrder
<1> QED BY <1>1, Invariance, IdsAreOrdered, PTL DEF Spec, OldestFirst

-----------------------------------------------------------------------------
(* No slot idles                                                            *)

\* A pass that no failure cuts off leaves no room: a source with a row left in
\* the queue has its share, or gets nothing because the source slots are taken.
LEMMA PassFillsSlots ==
  ASSUME "write" \notin Faults,
         NEW STATE st, NEW STATE wk, NEW STATE act, act \in [Source -> Nat],
         parallelSources' \in 1..MaxSlots, concurrencyPerSource' \in 1..MaxSlots,
         Schedule(st, wk, act)
  PROVE  NoSlotIdles'
<1>1. PICK Q \in SUBSET {j \in Job : st[j] = "queued"} : Starts(Q, st, wk, act)
  BY ScheduleEffect
<1>2. SUFFICES ASSUME ~paused', NEW s \in Source, QueuedOf(s, status') # {}
               PROVE  \/ active'[s] >= concurrencyPerSource'
                      \/ active'[s] = 0 /\ Cardinality(Busy(active')) >= parallelSources'
  BY DEF NoSlotIdles, QueuedOf, Busy, Of
<1>3. /\ status' = [j \in Job |-> IF j \in Q THEN "downloading" ELSE st[j]]
      /\ active' \in [Source -> Nat]
      /\ \A t \in Source : active'[t] = act[t] + Cardinality(Of(t, Q))
      /\ Picks(Q, st, act)
  BY <1>1, <1>2 DEF Starts, Begin
<1>4. PICK S \in SUBSET Idle(st, act) :
        /\ Admits(S, st, act)
        /\ \A t \in Source :
             LET queued == QueuedOf(t, st)
                 room == concurrencyPerSource' - act[t]
             IN Cardinality(Of(t, Q)) =
                  IF room <= 0 \/ (act[t] = 0 /\ t \notin S) THEN 0
                  ELSE Least(room, Cardinality(queued))
  BY <1>3 DEF Picks
<1>5. \A t \in Source : /\ Of(t, Q) \subseteq QueuedOf(t, st)
                        /\ QueuedOf(t, st) \subseteq Job
                        /\ QueuedOf(t, status') = QueuedOf(t, st) \ Of(t, Q)
  BY <1>3 DEF Of, QueuedOf
<1>6. \A t \in Source : /\ Cardinality(Of(t, Q)) \in Nat
                        /\ Cardinality(QueuedOf(t, st)) \in Nat
                        /\ IsFiniteSet(QueuedOf(t, st))
  BY <1>5, RowsFinite
<1>7. parallelSources' \in Nat \ {0} /\ concurrencyPerSource' \in Nat \ {0}
  BY QueuePositive
<1>8. CASE act[s] # 0 \/ s \in S
  <2>1. Cardinality(Of(s, Q)) < Cardinality(QueuedOf(s, st))
    <3>1. Of(s, Q) # QueuedOf(s, st)
      BY <1>2, <1>5
    <3>2. /\ Cardinality(Of(s, Q)) <= Cardinality(QueuedOf(s, st))
          /\ Cardinality(Of(s, Q)) = Cardinality(QueuedOf(s, st)) => Of(s, Q) = QueuedOf(s, st)
      BY <1>5, <1>6, FS_Subset
    <3> QED BY <1>6, <3>1, <3>2
  <2>2. Cardinality(Of(s, Q)) = IF concurrencyPerSource' - act[s] <= 0 THEN 0
                                ELSE Least(concurrencyPerSource' - act[s], Cardinality(QueuedOf(s, st)))
    BY <1>4, <1>8
  <2>3. active'[s] >= concurrencyPerSource'
    BY <1>3, <1>6, <1>7, <2>1, <2>2 DEF Least
  <2> QED BY <2>3
<1>9. CASE act[s] = 0 /\ s \notin S
  <2> DEFINE busy == Busy(act)
             idle == Idle(st, act)
             after == Busy(active')
  <2>1. active'[s] = 0
    BY <1>3, <1>4, <1>9
  <2>2. s \in idle
    BY <1>2, <1>5, <1>9 DEF Idle
  <2>3. /\ busy \subseteq Source /\ idle \subseteq Source /\ S \subseteq idle
        /\ after \subseteq Source /\ busy \cap S = {}
    BY DEF Busy, Idle
  <2>4. /\ IsFiniteSet(busy) /\ IsFiniteSet(idle) /\ IsFiniteSet(S) /\ IsFiniteSet(after)
        /\ Cardinality(busy) \in Nat /\ Cardinality(idle) \in Nat
        /\ Cardinality(S) \in Nat /\ Cardinality(after) \in Nat
    <3>1. \A R : R \subseteq Source => IsFiniteSet(R) /\ Cardinality(R) \in Nat
      BY FS_Subset, FS_CardinalityType
    <3>2. S \subseteq Source
      BY <2>3
    <3> HIDE DEF busy, idle, after
    <3> QED BY <2>3, <3>1, <3>2
  <2>5. Cardinality(S) < Cardinality(idle)
    <3>1. S # idle
      BY <1>9, <2>2
    <3>2. /\ Cardinality(S) <= Cardinality(idle)
          /\ Cardinality(S) = Cardinality(idle) => S = idle
      <4> HIDE DEF idle
      <4> QED BY <2>3, <2>4, FS_Subset
    <3> QED BY <2>4, <3>1, <3>2
  <2>6. Cardinality(S) >= Free(act)
    <3>1. Cardinality(S) = IF Free(act) <= 0 THEN 0 ELSE Least(Free(act), Cardinality(idle))
      BY <1>4 DEF Admits
    <3>2. Free(act) \in Int
      BY <1>7, <2>4 DEF Free
    <3> QED BY <2>4, <2>5, <3>1, <3>2 DEF Least
  <2>7. busy \subseteq after
    BY <1>3, <1>6 DEF Busy
  <2>8. S \subseteq after
    <3> SUFFICES ASSUME NEW t \in S
                 PROVE  t \in Source /\ active'[t] > 0
      BY DEF Busy
    <3>1. t \in Source /\ act[t] = 0 /\ QueuedOf(t, st) # {}
      BY DEF Idle
    <3>2. Cardinality(QueuedOf(t, st)) # 0
      BY <1>6, <3>1, FS_EmptySet
    <3>3. Cardinality(Of(t, Q)) = Least(concurrencyPerSource', Cardinality(QueuedOf(t, st)))
      BY <1>4, <1>7, <3>1
    <3>4. Cardinality(QueuedOf(t, st)) > 0
      BY <1>6, <3>1, <3>2
    <3>5. active'[t] = Cardinality(Of(t, Q))
      BY <1>3, <1>6, <3>1
    <3> QED BY <1>6, <1>7, <3>1, <3>3, <3>4, <3>5 DEF Least
  <2> HIDE DEF busy, idle, after
  <2>9. Cardinality(busy \cup S) <= Cardinality(after)
    BY <2>4, <2>7, <2>8, FS_Subset
  <2>10. Cardinality(busy \cup S) = Cardinality(busy) + Cardinality(S)
    <3>1. Cardinality(busy \cup S) = Cardinality(busy) + Cardinality(S) - Cardinality(busy \cap S)
      BY <2>4, FS_Union, Zenon
    <3>2. Cardinality(busy \cap S) = 0
      BY <2>3, FS_EmptySet
    <3> QED BY <2>4, <3>1, <3>2
  <2>11. Cardinality(S) >= parallelSources' - Cardinality(busy)
    BY <2>6 DEF Free, busy
  <2>12. Cardinality(after) >= parallelSources'
    BY <1>7, <2>4, <2>9, <2>10, <2>11
  <2> QED BY <2>1, <2>12 DEF after
<1> QED BY <1>8, <1>9

\* A handler without a pass frees no slot and queues no row, so it cannot leave
\* a slot idle: only a pass raises a setting, gives slots back or adds rows.
LEMMA NextFillsSlots ==
  ASSUME Inv, "write" \notin Faults, "crash" \notin Faults, NoSlotIdles, [Next]_vars
  PROVE  NoSlotIdles'
<1>1. TypeOK /\ active \in [Source -> Nat]
  BY DEF Inv, TypeOK
<1>2. ASSUME NEW S \in SUBSET Job, Requeues(S)
      PROVE  NoSlotIdles'
  BY <1>1, <1>2, PassFillsSlots DEF Requeues
<1>3. ASSUME NEW u \in Source, Settle(u)
      PROVE  NoSlotIdles'
  <2>1. settling[u] > 0 /\ UNCHANGED knobs /\ Schedule(status, worker, GiveBack(u))
    BY <1>3 DEF Settle
  <2>2. GiveBack(u) \in [Source -> Nat]
    <3> HIDE DEF Inv
    <3> QED BY <2>1, GivenBack
  <2>3. parallelSources' \in 1..MaxSlots /\ concurrencyPerSource' \in 1..MaxSlots
    BY <1>1, <2>1 DEF TypeOK, knobs
  <2> QED BY <2>1, <2>2, <2>3, PassFillsSlots
<1>4. ASSUME \A j \in Job : status'[j] = "queued" => status[j] = "queued",
             UNCHANGED <<active, knobs>>
      PROVE  NoSlotIdles'
  <2>1. \A s \in Source : QueuedOf(s, status)' \subseteq QueuedOf(s, status)
    BY <1>4 DEF QueuedOf, Of
  <2>2. Busy(active)' = Busy(active)
    BY <1>4
  <2> QED BY <1>4, <2>1, <2>2 DEF NoSlotIdles, knobs
<1>5. CASE \E j \in Job, outcome \in Finished : worker[j] \in Live /\ Finish(j, outcome)
  <2>1. /\ \A j \in Job : status'[j] = "queued" => status[j] = "queued"
        /\ UNCHANGED <<active, knobs>>
    BY <1>5 DEF Finish, Become, Finished
  <2> QED BY <1>4, <2>1
<1>6. CASE \E j \in Job, phase \in Live : worker[j] \in Live /\ Goto(j, phase)
  BY <1>4, <1>6 DEF Goto, rows, slots
<1>7. ~ \E j \in Job : FinishUnsaved(j)
  BY DEF FinishUnsaved
<1>8. CASE \E j \in Job : FinishUnsaved(j) \/ CancelQueued(j) \/ CancelRunning(j)
  <2>1. CASE \E j \in Job : CancelQueued(j)
    <3>1. /\ \A j \in Job : status'[j] = "queued" => status[j] = "queued"
          /\ UNCHANGED <<active, knobs>>
      BY <2>1 DEF CancelQueued, Become, slots
    <3> QED BY <1>4, <3>1
  <2>2. CASE \E j \in Job : CancelRunning(j)
    BY <1>4, <2>2 DEF CancelRunning, rows, slots
  <2> QED BY <1>7, <1>8, <2>1, <2>2
<1>9. ASSUME NEW S, Delete(S), UNCHANGED <<slots, knobs>>
      PROVE  NoSlotIdles'
  <2>1. /\ \A j \in Job : status'[j] = "queued" => status[j] = "queued"
        /\ UNCHANGED <<active, knobs>>
    BY <1>9 DEF Delete, Become, slots
  <2> QED BY <1>4, <2>1
<1>10. CASE Pause
  BY <1>10 DEF Pause, NoSlotIdles
<1>11. CASE UNCHANGED vars
  <2>1. UNCHANGED <<status, active, knobs>>
    BY <1>11 DEF vars, rows, slots
  <2> QED BY <1>4, <2>1
<1>12. ~ \E old \in SUBSET Job : Restart(old)
  BY DEF Restart
<1> HIDE DEF Inv
<1> QED BY <1>2, <1>3, <1>5, <1>6, <1>8, <1>9, <1>10, <1>11, <1>12, StepKinds DEF ClearQueue

\* Without failures, no slot idles while a row that could use it waits, for any
\* rows, sources and settings.  A crash breaks this until the first tick of the
\* next process, a refused write for as long as the slots it leaks last.
THEOREM SlotsAreFilled ==
  ASSUME "write" \notin Faults, "crash" \notin Faults
  PROVE  Spec => []NoSlotIdles
<1>1. Init => NoSlotIdles
  BY DEF Init, NoSlotIdles, QueuedOf, Of
<1>2. Inv /\ NoSlotIdles /\ [Next]_vars => NoSlotIdles'
  BY NextFillsSlots
<1> QED BY <1>1, <1>2, Invariance, PTL DEF Spec

-----------------------------------------------------------------------------
(* Cancel requests                                                          *)

\* A run that was asked to stop takes no further page: it stays where it waits,
\* packs what it has, or ends, and only its end consumes the request.
CancelBites ==
  \A j \in Job : j \in cancelFlags /\ worker'[j] \in Live =>
    /\ j \in cancelFlags'
    /\ worker'[j] = worker[j] \/ (worker[j] = "fetching" /\ worker'[j] = "packing")

\* A pass starts only rows without a worker, so it leaves a flagged run alone.
LEMMA PassKeepsRuns ==
  ASSUME Inv, NEW STATE st, NEW STATE act, act \in [Source -> Nat],
         \A j \in Job : st[j] = "queued" => status[j] # "downloading",
         cancelFlags' = cancelFlags,
         Schedule(st, worker, act)
  PROVE  CancelBites
<1>1. PICK Q \in SUBSET {j \in Job : st[j] = "queued"} : Starts(Q, st, worker, act)
  <2> HIDE DEF Inv
  <2> QED BY ScheduleEffect
<1>2. worker' = [j \in Job |-> IF j \in Q THEN "listing" ELSE worker[j]]
  BY <1>1 DEF Starts, Begin
<1>3. \A j \in cancelFlags : status[j] = "downloading"
  BY DEF Inv, RunsMatchRows, With
<1> QED BY <1>2, <1>3 DEF CancelBites

\* Every step that moves a flagged run is a check that ends it, or its end.
LEMMA NextHearsCancels ==
  ASSUME Inv, [Next]_vars
  PROVE  CancelBites \/ UNCHANGED vars
<1>1. SUFFICES ASSUME Next PROVE CancelBites
  OBVIOUS
<1>2. TypeOK /\ active \in [Source -> Nat]
  BY DEF Inv, TypeOK
<1>3. ASSUME NEW S \in SUBSET Job, \A j \in S : status[j] # "downloading",
             cancelFlags' = cancelFlags, Schedule(Become(S, "queued"), worker, active)
      PROVE  CancelBites
  <2>1. \A j \in Job : Become(S, "queued")[j] = "queued" => status[j] # "downloading"
    BY <1>3 DEF Become
  <2> HIDE DEF Inv
  <2> QED BY <1>2, <1>3, <2>1, PassKeepsRuns
<1>4. ASSUME NEW batch \in Batches, NEW ref \in EntryRefs, Enqueue(batch, ref)
      PROVE  CancelBites
  <2> DEFINE S == (Range(batch) \cap With({"absent"})) \cup (Range(batch) \cap With(Requeueable))
  <2>1. S \in SUBSET Job /\ \A j \in S : status[j] # "downloading"
    BY DEF With, Requeueable
  <2>2. cancelFlags' = cancelFlags /\ Schedule(Become(S, "queued"), worker, active)
    BY <1>4 DEF Enqueue
  <2> HIDE DEF S
  <2> QED BY <1>3, <2>1, <2>2
<1>5. ASSUME NEW S \in SUBSET Job, Retry(S) \/ Sweep(S)
      PROVE  CancelBites
  <2>1. \A j \in S : status[j] # "downloading"
    BY <1>5 DEF Retry, Sweep, With
  <2>2. cancelFlags' = cancelFlags /\ Schedule(Become(S, "queued"), worker, active)
    BY <1>5 DEF Retry, Sweep
  <2> QED BY <1>3, <2>1, <2>2
<1>6. CASE \/ Tick \/ Resume
           \/ \E n \in 1..MaxSlots : SetParallelSources(n) \/ SetConcurrency(n)
  <2>1. Become({}, "queued") = status
    BY <1>2 DEF Become, TypeOK
  <2>2. cancelFlags' = cancelFlags /\ Schedule(Become({}, "queued"), worker, active)
    BY <1>6, <2>1 DEF Tick, Resume, SetParallelSources, SetConcurrency
  <2> QED BY <1>3, <2>2
<1>7. ASSUME NEW s \in Source, Settle(s)
      PROVE  CancelBites
  <2>1. settling[s] > 0 /\ cancelFlags' = cancelFlags /\ Schedule(status, worker, GiveBack(s))
    BY <1>7 DEF Settle
  <2>2. GiveBack(s) \in [Source -> Nat]
    <3> HIDE DEF Inv
    <3> QED BY <2>1, GivenBack
  <2> HIDE DEF Inv
  <2> QED BY <2>1, <2>2, PassKeepsRuns
<1>8. ASSUME NEW j \in Job, NEW outcome \in Finished, Finish(j, outcome)
      PROVE  CancelBites
  BY <1>2, <1>8 DEF Finish, DropFlag, TypeOK, CancelBites, Live
<1>9. ASSUME NEW j \in Job, NEW phase \in Live, Goto(j, phase),
             j \notin cancelFlags \/ (worker[j] = "fetching" /\ phase = "packing")
      PROVE  CancelBites
  BY <1>2, <1>9 DEF Goto, TypeOK, CancelBites
<1>10. ASSUME NEW j \in Job, NEW phase \in Live, Checkpoint(j, phase)
       PROVE  CancelBites
  <2>1. CASE j \in cancelFlags
    <3>1. Finish(j, "cancelled") /\ "cancelled" \in Finished
      BY <1>10, <2>1 DEF Checkpoint, Finished
    <3> QED BY <1>8, <3>1
  <2>2. CASE j \notin cancelFlags
    BY <1>9, <1>10, <2>2 DEF Checkpoint
  <2> QED BY <2>1, <2>2
<1>11. ASSUME NEW j \in Job, Work(j)
       PROVE  CancelBites
  <2>1. {"listing", "held", "fetching", "packing"} = Live
        /\ {"completed", "failed", "cancelled"} = Finished
    BY DEF Live, Finished
  <2>2. CASE ListPages(j) \/ LeavePause(j) \/ NextPage(j)
    BY <1>8, <1>10, <2>1, <2>2 DEF ListPages, LeavePause, NextPage
  <2>3. CASE LeaveLoop(j) \/ Pack(j)
    BY <1>8, <1>9, <2>1, <2>3 DEF LeaveLoop, Pack
  <2> QED BY <1>11, <2>2, <2>3 DEF Work
<1>12. ASSUME cancelFlags \subseteq cancelFlags', worker' = worker
       PROVE  CancelBites
  BY <1>12 DEF CancelBites
<1>13. CASE \/ \E j \in Job : CancelQueued(j) \/ CancelRunning(j)
            \/ \E S \in SUBSET Job : ClearHistory(S) \/ PruneHistory(S)
            \/ ClearQueue \/ Pause
  <2>1. cancelFlags \subseteq cancelFlags' /\ worker' = worker
    BY <1>13 DEF CancelQueued, CancelRunning, ClearHistory, PruneHistory, ClearQueue, Pause, run
  <2> QED BY <1>12, <2>1
<1>14. ASSUME NEW j \in Job, FinishUnsaved(j)
       PROVE  CancelBites
  BY <1>2, <1>14 DEF FinishUnsaved, DropFlag, TypeOK, CancelBites, Live
<1>15. ASSUME NEW old \in SUBSET Job, Restart(old)
       PROVE  CancelBites
  BY <1>15 DEF Restart, CancelBites, Live
<1> HIDE DEF Inv
<1> QED BY <1>1, <1>4, <1>5, <1>6, <1>7, <1>11, <1>13, <1>14, <1>15
        DEF Next, Internal, Client, Timers, Failures

\* A cancel request on a running row bites: whatever else happens, the run
\* fetches no further page and the request outlives everything but the run's
\* end (_checkCancel() and the finally block of _runJob()).  This is the safety
\* half of CancelIsHeard; that the run moves at all is liveness.
THEOREM CancelsBite == Spec => [][CancelBites]_vars
<1>1. Inv /\ [Next]_vars => [CancelBites]_vars
  BY NextHearsCancels
<1> QED BY <1>1, Invariance, PTL DEF Spec

-----------------------------------------------------------------------------
(* Refinement                                                               *)

\* Every step of the queue is a step of the lifecycle of its rows, or leaves
\* the rows alone.
LEMMA NextRefines ==
  ASSUME Inv, [Next]_vars
  PROVE  Lifecycle!Next \/ UNCHANGED status
<1>1. CASE UNCHANGED vars
  BY <1>1 DEF vars, rows
<1>2. TypeOK /\ RunsMatchRows
  BY DEF Inv
<1> DEFINE Pass(S) ==
      \E picks \in SUBSET {j \in Job : Become(S, "queued")[j] = "queued"} :
        status' = [j \in Job |-> IF j \in picks THEN "downloading" ELSE Become(S, "queued")[j]]
<1>3. ASSUME NEW S \in SUBSET Job, S \subseteq With({"absent", "failed", "cancelled"}), Pass(S)
      PROVE  Lifecycle!Next
  <2>1. Lifecycle!Become(S, "queued") = Become(S, "queued")
    BY DEF Lifecycle!Become, Become
  <2>2. Lifecycle!Request(S)
    BY <1>3, <2>1 DEF Lifecycle!Request, Lifecycle!ThenStart, Lifecycle!With, With
  <2> QED BY <2>2 DEF Lifecycle!Next
<1>4. ASSUME NEW S \in SUBSET Job, Requeues(S)
      PROVE  Lifecycle!Next
  <2>1. Schedule(Become(S, "queued"), worker, active) /\ active \in [Source -> Nat]
    BY <1>2, <1>4 DEF Requeues, TypeOK
  <2>2. Pass(S)
    <3> HIDE DEF Inv
    <3> QED BY <2>1, PassStarts
  <2> QED BY <1>3, <1>4, <2>2 DEF Requeues
<1>5. ASSUME NEW s \in Source, Settle(s)
      PROVE  Lifecycle!Next
  <2>1. Become({}, "queued") = status
    BY <1>2 DEF Become, TypeOK
  <2>2. GiveBack(s) \in [Source -> Nat]
    <3>1. \A t \in Source : Cardinality(Runs(t)) \in Nat
      BY RowsFinite DEF Runs, Of
    <3>2. active[s] > 0
      BY <1>2, <1>5, <3>1 DEF Inv, TypeOK, SlotAccounting, Settle
    <3> QED BY <1>2, <3>2 DEF GiveBack, TypeOK
  <2>3. Schedule(status, worker, GiveBack(s))
    BY <1>5 DEF Settle
  <2>4. \E picks \in SUBSET {j \in Job : status[j] = "queued"} :
          status' = [j \in Job |-> IF j \in picks THEN "downloading" ELSE status[j]]
    <3> HIDE DEF Inv
    <3> QED BY <2>2, <2>3, PassStarts
  <2>5. Pass({})
    BY <2>1, <2>4
  <2> HIDE DEF Pass
  <2>6. {} \subseteq With({"absent", "failed", "cancelled"}) /\ {} \in SUBSET Job
    OBVIOUS
  <2> QED BY <1>3, <2>5, <2>6
<1>6. ASSUME NEW j \in Job, NEW outcome \in Finished, worker[j] \in Live, Finish(j, outcome)
      PROVE  Lifecycle!Next
  <2>1. status[j] = "downloading" /\ status' = Become({j}, outcome)
    BY <1>2, <1>6 DEF RunsMatchRows, Finish, Live
  <2>2. Lifecycle!Finish(j, outcome)
    BY <2>1 DEF Lifecycle!Finish, Lifecycle!Become, Lifecycle!Finished, Become, Finished
  <2>3. outcome \in Lifecycle!Finished
    BY DEF Lifecycle!Finished, Finished
  <2> QED BY <2>2, <2>3 DEF Lifecycle!Next
<1>7. ASSUME NEW j \in Job, CancelQueued(j)
      PROVE  Lifecycle!Next
  <2>1. Lifecycle!Withdraw({j}, "cancelled")
    BY <1>7 DEF CancelQueued, Lifecycle!Withdraw, Lifecycle!With, Lifecycle!Become, Become
  <2> QED BY <2>1 DEF Lifecycle!Next
<1>8. ASSUME ClearQueue
      PROVE  Lifecycle!Next
  <2>1. Lifecycle!Withdraw(With({"queued"}), "absent") /\ With({"queued"}) \in SUBSET Job
    BY <1>8 DEF ClearQueue, Delete, With, Lifecycle!Withdraw, Lifecycle!With, Lifecycle!Become, Become
  <2> QED BY <2>1 DEF Lifecycle!Next
<1>9. ASSUME NEW S \in SUBSET With(Finished), Delete(S)
      PROVE  Lifecycle!Next
  <2>1. Lifecycle!Forget(S) /\ S \in SUBSET Job
    BY <1>9 DEF Delete, With, Finished, Lifecycle!Forget, Lifecycle!With, Lifecycle!Finished,
                Lifecycle!Become, Become
  <2> QED BY <2>1 DEF Lifecycle!Next
<1>10. ASSUME NEW old \in SUBSET Job, Restart(old)
       PROVE  Lifecycle!Next
  <2>1. old \subseteq With(Finished)
    BY <1>10 DEF Restart, Prunable, With, Finished
  <2>2. Lifecycle!Restart(old)
    BY <1>10, <2>1 DEF Restart, Recovered, With, Finished, Lifecycle!Restart, Lifecycle!With,
                       Lifecycle!Finished
  <2> QED BY <2>2 DEF Lifecycle!Next
<1>11. ASSUME \/ \E j \in Job : FinishUnsaved(j) \/ CancelRunning(j)
              \/ \E j \in Job, phase \in Live : Goto(j, phase)
              \/ Pause
       PROVE  UNCHANGED status
  BY <1>11 DEF FinishUnsaved, CancelRunning, Goto, Pause, rows
<1> HIDE DEF Inv, Pass
<1> QED BY <1>1, <1>4, <1>5, <1>6, <1>7, <1>8, <1>9, <1>10, <1>11, StepKinds

\* The queue implements the lifecycle of JobLifecycle.tla, for any rows,
\* sources and limits, with crashes and refused writes.
THEOREM QueueImplementsLifecycle == Spec => ImplementsLifecycle
<1>1. Init => Lifecycle!Init
  BY DEF Init, Lifecycle!Init
<1>2. Inv /\ [Next]_vars => [Lifecycle!Next]_status
  BY NextRefines
<1> QED BY <1>1, <1>2, Invariance, PTL DEF Spec, ImplementsLifecycle, Lifecycle!Spec
=============================================================================
