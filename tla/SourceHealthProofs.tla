------------------------- MODULE SourceHealthProofs -------------------------
(***************************************************************************)
(* Proofs about SourceHealth: what the user sees of a source agrees with   *)
(* its last check, whatever passes, requests and failures overlap, but for *)
(* the fault that strikes between the two statements of a result; a sweep  *)
(* takes the first of the due sources and no more than its quota.          *)
(***************************************************************************)
EXTENDS SourceHealth, FiniteSetTheorems, TLAPS

\* TypeOK is inductive and the others follow step by step from it.
Inv == TypeOK /\ CheckingIsReal

Rows == {Untested} \cup [ok : BOOLEAN, failures : 0..Rungs, wait : {w \in Int : w >= -Late}]

\* A row that is a result is not the missing one.
LEMMA RowIs ==
  ASSUME TypeOK, NEW s \in Source, s \in Tested
  PROVE  row[s] \in [ok : BOOLEAN, failures : 0..Rungs, wait : {w \in Int : w >= -Late}]
BY DEF TypeOK, Tested

\* A result is not the missing row.
LEMMA ResultIsRow ==
  ASSUME NEW ok \in BOOLEAN, NEW f \in 0..Rungs, NEW w \in Int, w >= -Late
  PROVE  [ok |-> ok, failures |-> f, wait |-> w] \in Rows \ {Untested}
<1> DEFINE r == [ok |-> ok, failures |-> f, wait |-> w]
<1>1. r \in [ok : BOOLEAN, failures : 0..Rungs, wait : {x \in Int : x >= -Late}]
  OBVIOUS
<1>2. r \in [ok : BOOLEAN, failures : 0..Rungs, wait : Int]
  OBVIOUS
<1> QED BY <1>1, <1>2, ConstantsOK DEF Rows

LEMMA SuccessIsRow == [ok |-> TRUE, failures |-> 0, wait |-> Refresh] \in Rows
<1>1. Refresh \in Int /\ Refresh >= -Late /\ 0 \in 0..Rungs
  BY ConstantsOK
<1> QED BY <1>1 DEF Rows

LEMMA FailureIsRow ==
  ASSUME NEW f \in 0..Rungs, NEW w \in Int, w >= -Late
  PROVE  [ok |-> FALSE, failures |-> f, wait |-> w] \in Rows
BY DEF Rows

\* The ladder never returns a deadline that has passed.
LEMMA RetryDelayIs ==
  ASSUME NEW n \in 1..Rungs, NEW class
  PROVE  RetryDelay(n, class) \in Nat \ {0}
<1> DEFINE rung == IF class = "dead" THEN Least(n + 2, Rungs) ELSE n
<1>1. rung \in 1..Rungs
  BY ConstantsOK DEF Least
<1> HIDE DEF rung
<1>2. Delay[rung] \in Nat \ {0} /\ AntibotCap \in Nat \ {0}
  BY <1>1, ConstantsOK
<1>3. RetryDelay(n, class) = IF class = "antibot" THEN Least(Delay[rung], AntibotCap) ELSE Delay[rung]
  BY DEF RetryDelay, rung
<1> QED BY <1>2, <1>3 DEF Least

LEMMA FailuresIs ==
  ASSUME TypeOK, NEW s \in Source
  PROVE  Failures(s) \in 1..Rungs
<1>1. CASE s \in Tested
  <2>1. row[s].failures \in 0..Rungs
    BY <1>1, RowIs
  <2> QED BY <1>1, <2>1, ConstantsOK DEF Failures, Least
<1>2. CASE s \notin Tested
  BY <1>2, ConstantsOK DEF Failures, Least
<1> QED BY <1>1, <1>2

\* Time passing changes deadlines only.
LEMMA SoonerIs ==
  ASSUME TypeOK, NEW s \in Source, s \in Tested
  PROVE  /\ Sooner(row[s]) \in Rows \ {Untested}
         /\ Sooner(row[s]).ok = row[s].ok
<1> DEFINE w == IF row[s].wait = -Late THEN row[s].wait ELSE row[s].wait - 1
<1>1. row[s] \in [ok : BOOLEAN, failures : 0..Rungs, wait : {x \in Int : x >= -Late}]
  BY RowIs
<1>2. w \in Int /\ w >= -Late
  BY <1>1, ConstantsOK
<1>3. Sooner(row[s]) = [ok |-> row[s].ok, failures |-> row[s].failures, wait |-> w]
  BY <1>1 DEF Sooner
<1> HIDE DEF w
<1> QED BY <1>1, <1>2, <1>3, ResultIsRow

LEMMA Start == Init => Inv
<1> SUFFICES ASSUME Init PROVE Inv
  OBVIOUS
<1>1. TypeOK
  BY ConstantsOK DEF Init, TypeOK, Idle, Busy
<1> QED BY <1>1 DEF Init, Inv, CheckingIsReal
-----------------------------------------------------------------------------
(* Types                                                                    *)

\* The passes and their probes.
PassesOK ==
  /\ running \subseteq Pass /\ todo \in [Pass -> SUBSET Source]
  /\ probes \in [Pass -> [Source -> {"none", "asking", "probing"}]]
  /\ \A p \in Pass \ running : todo[p] = {} /\ \A s \in Source : probes[p][s] = "none"

RestOK ==
  /\ listed \subseteq Source /\ hidden \subseteq Source /\ checking \subseteq Source
  /\ row \in [Source -> Rows]
  /\ faults \in 0..Budget

LEMMA TypeSplit == TypeOK <=> PassesOK /\ RestOK
<1>1. \A p : Busy(p) = {} <=> \A s \in Source : probes[p][s] = "none"
  BY DEF Busy
<1> QED BY <1>1 DEF TypeOK, PassesOK, RestOK, Rows

\* What a pass starts with is a set of sources.
LEMMA TargetsAre ==
  ASSUME TypeOK, NEW r, NEW S \in Targets(r)
  PROVE  S \subseteq Source
BY DEF Targets, DueIn, TypeOK

LEMMA BeginIs ==
  ASSUME PassesOK, NEW p \in Pass, NEW S \in SUBSET Source, Begin(p, S), probes' = probes
  PROVE  PassesOK'
BY DEF PassesOK, Begin

\* A probe moves only in a pass that runs.
LEMMA ProbeRuns ==
  ASSUME PassesOK, NEW p \in Pass, NEW s \in Source, probes[p][s] # "none"
  PROVE  p \in running
BY DEF PassesOK

LEMMA ProbeMoves ==
  ASSUME PassesOK, NEW p \in running, NEW s \in Source,
         NEW x \in {"none", "asking", "probing"},
         probes' = [probes EXCEPT ![p][s] = x], UNCHANGED <<running, todo>>
  PROVE  PassesOK'
BY DEF PassesOK

LEMMA PassesPreserved == TypeOK /\ [Next]_vars => PassesOK'
<1> SUFFICES ASSUME TypeOK, [Next]_vars PROVE PassesOK'
  OBVIOUS
<1> USE TypeSplit
<1>1. CASE Tick
  <2>1. CASE UNCHANGED passes
    BY <2>1 DEF PassesOK, passes
  <2>2. CASE ~UNCHANGED passes
    <3> DEFINE r == [s \in Source |-> IF s \in Tested THEN Sooner(row[s]) ELSE Untested]
    <3>1. PICK S \in Targets(r) : Begin("sweep", S)
      BY <1>1, <2>2 DEF Tick, passes
    <3>2. probes' = probes
      BY <1>1 DEF Tick
    <3> HIDE DEF r
    <3>3. S \in SUBSET Source
      BY <3>1, TargetsAre
    <3> QED BY <3>1, <3>2, <3>3, BeginIs DEF Pass
  <2> QED BY <2>1, <2>2
<1>2. CASE User
  <2>1. CASE HideBroken
    BY <2>1 DEF PassesOK, passes, HideBroken
  <2>2. ASSUME NEW S \in SUBSET Source, CheckSome(S) PROVE PassesOK'
    BY <2>2, BeginIs DEF CheckSome, Pass
  <2>3. CASE CheckAll
    <3>1. listed \in SUBSET Source
      BY DEF RestOK
    <3> QED BY <2>3, <3>1, BeginIs DEF CheckAll, Pass
  <2> QED BY <1>2, <2>1, <2>2, <2>3 DEF User
<1>3. ASSUME NEW p \in Pass, NEW s \in Source, Take(p, s) PROVE PassesOK'
  <2>1. p \in running
    BY <1>3 DEF Take, PassesOK
  <2>2. todo' = [todo EXCEPT ![p] = @ \ {s}] /\ running' = running
    BY <1>3 DEF Take
  <2>3. probes' = probes \/ probes' = [probes EXCEPT ![p][s] = "asking"]
    BY <1>3 DEF Take
  <2>4. PassesOK
    OBVIOUS
  <2>5. todo' \in [Pass -> SUBSET Source] /\ \A o \in Pass \ {p} : todo'[o] = todo[o]
    BY <2>2, <2>4 DEF PassesOK
  <2>6. /\ probes' \in [Pass -> [Source -> {"none", "asking", "probing"}]]
        /\ \A o \in Pass \ {p} : probes'[o] = probes[o]
    BY <2>3, <2>4 DEF PassesOK
  <2> QED BY <2>1, <2>2, <2>4, <2>5, <2>6 DEF PassesOK
<1>4. ASSUME NEW p \in Pass, NEW s \in Source, Answer(p, s) \/ Unrecorded(p, s)
      PROVE  PassesOK'
  <2>1. /\ probes[p][s] # "none" /\ UNCHANGED <<running, todo>>
        /\ \E x \in {"none", "asking", "probing"} : probes' = [probes EXCEPT ![p][s] = x]
    BY <1>4 DEF Answer, Ask, Result, Unrecorded
  <2> QED BY <2>1, ProbeRuns, ProbeMoves
<1>5. ASSUME NEW p \in Pass, Finish(p) PROVE PassesOK'
  BY <1>5 DEF Finish, PassesOK, Busy
<1>6. ASSUME NEW S \in SUBSET Source, Relist(S) PROVE PassesOK'
  BY <1>6 DEF Relist, PassesOK, passes
<1>7. CASE Dead
  BY <1>7 DEF Dead, PassesOK, Idle
<1>8. CASE UNCHANGED vars
  BY <1>8 DEF vars, PassesOK, passes
<1> QED BY <1>1, <1>2, <1>3, <1>4, <1>5, <1>6, <1>7, <1>8 DEF Next, Restart, DiesRecording

\* A recorded result replaces one row.
LEMMA RecordedIs ==
  ASSUME TypeOK, NEW s \in Source, NEW class
  PROVE  \E r \in Rows : Recorded(s, class) = [row EXCEPT ![s] = r]
<1>1. [ok |-> TRUE, failures |-> 0, wait |-> Refresh] \in Rows
  BY SuccessIsRow
<1>2. Failures(s) \in 1..Rungs
  BY FailuresIs
<1> DEFINE f == Failures(s)
<1>3. RetryDelay(f, class) \in Nat \ {0}
  <2> HIDE DEF f
  <2> QED BY <1>2, RetryDelayIs DEF f
<1>4. [ok |-> FALSE, failures |-> f, wait |-> RetryDelay(f, class)] \in Rows
  <2> DEFINE w == RetryDelay(f, class)
  <2>1. f \in 0..Rungs /\ w \in Int /\ w >= -Late
    BY <1>2, <1>3, ConstantsOK
  <2> HIDE DEF f, w
  <2>2. [ok |-> FALSE, failures |-> f, wait |-> w] \in Rows
    BY <2>1, FailureIsRow
  <2> QED BY <2>2 DEF w
<1> QED BY <1>1, <1>4 DEF Recorded

LEMMA RestPreserved == TypeOK /\ [Next]_vars => RestOK'
<1> SUFFICES ASSUME TypeOK, [Next]_vars PROVE RestOK'
  OBVIOUS
<1>0. RestOK /\ Untested \in Rows
  BY TypeSplit DEF Rows
<1>1. CASE Tick
  <2>1. row' = [s \in Source |-> IF s \in Tested THEN Sooner(row[s]) ELSE Untested]
        /\ UNCHANGED <<listed, hidden, checking, faults>>
    BY <1>1 DEF Tick
  <2>2. \A s \in Source : s \in Tested => Sooner(row[s]) \in Rows
    BY SoonerIs
  <2>3. row' \in [Source -> Rows]
    BY <1>0, <2>1, <2>2
  <2> QED BY <1>0, <2>1, <2>3 DEF RestOK
<1>2. CASE User
  <2>1. hidden' \subseteq Source /\ UNCHANGED <<listed, row, checking, faults>>
    BY <1>0, <1>2 DEF User, CheckSome, CheckAll, HideBroken, store, Tested, RestOK
  <2> QED BY <1>0, <2>1 DEF RestOK
<1>3. ASSUME NEW p \in Pass, NEW s \in Source, Take(p, s) PROVE RestOK'
  BY <1>0, <1>3 DEF Take, RestOK, store
<1>4. ASSUME NEW p \in Pass, NEW s \in Source, Ask(p, s) PROVE RestOK'
  BY <1>0, <1>4 DEF Ask, Gone, RestOK
<1>5. ASSUME NEW p \in Pass, NEW s \in Source, NEW class, Result(p, s, class) PROVE RestOK'
  <2>1. PICK r \in Rows : row' = [row EXCEPT ![s] = r]
    BY <1>5, RecordedIs DEF Result
  <2>2. /\ hidden' \subseteq hidden /\ checking' \subseteq checking
        /\ UNCHANGED <<listed, faults>>
    BY <1>5 DEF Result, Shown
  <2> QED BY <1>0, <2>1, <2>2 DEF RestOK
<1>6. ASSUME NEW p \in Pass, NEW s \in Source, Unrecorded(p, s) PROVE RestOK'
  <2>1. row' = row \/ \E r \in Rows : row' = [row EXCEPT ![s] = r]
    BY <1>6, RecordedIs DEF Unrecorded
  <2>2. /\ checking' \subseteq checking /\ faults < Budget /\ faults' = faults + 1
        /\ UNCHANGED <<listed, hidden>>
    BY <1>6 DEF Unrecorded, Unmarked, Failing
  <2> QED BY <1>0, <2>1, <2>2, ConstantsOK DEF RestOK
<1>7. ASSUME NEW p \in Pass, Finish(p) PROVE RestOK'
  BY <1>0, <1>7 DEF Finish, RestOK, store
<1>8. ASSUME NEW S \in SUBSET Source, Relist(S) PROVE RestOK'
  BY <1>0, <1>8 DEF Relist, RestOK, store
<1>9. ASSUME Restart \/ \E p \in Pass, s \in Source : DiesRecording(p, s) PROVE RestOK'
  <2>1. row' = row \/ \E s \in Source : \E r \in Rows : row' = [row EXCEPT ![s] = r]
    BY <1>9, RecordedIs DEF Restart, DiesRecording
  <2>2. /\ checking' = {} /\ faults < Budget /\ faults' = faults + 1
        /\ UNCHANGED <<listed, hidden>>
    BY <1>9 DEF Restart, DiesRecording, Dead, Failing
  <2> QED BY <1>0, <2>1, <2>2, ConstantsOK DEF RestOK
<1>10. CASE UNCHANGED vars
  BY <1>0, <1>10 DEF vars, RestOK, store
<1> QED BY <1>1, <1>2, <1>3, <1>4, <1>5, <1>6, <1>7, <1>8, <1>9, <1>10 DEF Next, Answer

\* The state keeps its types for any sources, quota, ladder and failures.
THEOREM TypeCorrect == Spec => []TypeOK
<1>1. Init => TypeOK
  BY Start DEF Inv
<1>2. TypeOK /\ [Next]_vars => TypeOK'
  <2> SUFFICES ASSUME TypeOK, [Next]_vars PROVE TypeOK'
    OBVIOUS
  <2>1. PassesOK' /\ RestOK'
    BY PassesPreserved, RestPreserved
  <2> QED BY <2>1, TypeSplit, PTL
<1> QED BY <1>1, <1>2, PTL DEF Spec
-----------------------------------------------------------------------------
(* What the user sees                                                       *)

\* A step that leaves no other source unseen, or one with a fault, will do.
LEMMA QuietShows ==
  ASSUME TypeOK, Unseen' \subseteq Unseen, faults' = faults, Ended \cap Unseen' = {}
  PROVE  ShowsAnswering
<1> DEFINE more == Unseen' \ Unseen
<1>1. more = {}
  OBVIOUS
<1>2. Cardinality(more) = 0
  <2> HIDE DEF more
  <2> QED BY <1>1, FS_EmptySet
<1>3. faults' - faults = 0
  BY ConstantsOK DEF TypeOK
<1> QED BY <1>2, <1>3 DEF ShowsAnswering

LEMMA FaultShows ==
  ASSUME TypeOK, NEW s, Unseen' \subseteq Unseen \cup {s}, faults' = faults + 1
  PROVE  ShowsAnswering
<1> DEFINE more == Unseen' \ Unseen
<1>1. more \subseteq {s} /\ IsFiniteSet({s}) /\ Cardinality({s}) = 1
  BY FS_Singleton
<1> HIDE DEF more
<1>2. Cardinality(more) <= 1
  BY <1>1, FS_Subset
<1>3. faults' - faults = 1 /\ faults' # faults
  BY ConstantsOK DEF TypeOK
<1> QED BY <1>2, <1>3 DEF ShowsAnswering, more

\* Passing time, requests and relisting end no probe and leave nothing unseen.
LEMMA OthersShow ==
  ASSUME TypeOK,
         \/ Tick \/ User \/ (\E p \in Pass : Finish(p))
         \/ (\E S \in SUBSET Source : Relist(S)) \/ UNCHANGED vars
  PROVE  ShowsAnswering
<1>0. row \in [Source -> Rows] /\ hidden \subseteq Source
  BY DEF TypeOK, Rows
<1>1. probes' = probes /\ faults' = faults
  BY DEF Tick, User, CheckSome, CheckAll, HideBroken, Finish, Relist, passes, vars
<1>2. Ended = {}
  BY <1>1 DEF Ended
<1>3. Unseen' \subseteq Unseen
  <2>1. CASE Tick
    <3>1. /\ hidden' = hidden
          /\ row' = [s \in Source |-> IF s \in Tested THEN Sooner(row[s]) ELSE Untested]
      BY <2>1 DEF Tick
    <3> SUFFICES ASSUME NEW s \in hidden, row'[s] # Untested, row'[s].ok
                 PROVE  row[s] # Untested /\ row[s].ok
      BY <3>1 DEF Unseen
    <3>2. s \in Source /\ s \in Tested
      BY <1>0, <3>1
    <3>3. row'[s].ok = row[s].ok
      BY <3>1, <3>2, SoonerIs
    <3> QED BY <3>2, <3>3 DEF Tested
  <2>2. CASE User
    <3>1. row' = row /\ \A s \in hidden' : s \in hidden \/ ~row[s].ok
      BY <2>2 DEF User, CheckSome, CheckAll, HideBroken, store
    <3> QED BY <3>1 DEF Unseen
  <2>3. CASE UNCHANGED store
    BY <2>3 DEF Unseen, store
  <2> QED BY <2>1, <2>2, <2>3 DEF Finish, Relist, vars
<1> QED BY <1>1, <1>2, <1>3, QuietShows

LEMMA ProbesShow ==
  ASSUME TypeOK, NEW p \in Pass, NEW s \in Source, Take(p, s) \/ Answer(p, s)
  PROVE  ShowsAnswering
<1>0. /\ row \in [Source -> Rows] /\ hidden \subseteq Source
      /\ probes \in [Pass -> [Source -> {"none", "asking", "probing"}]]
  BY DEF TypeOK, Rows
<1>1. CASE Take(p, s)
  <2>1. /\ UNCHANGED <<store, faults>> /\ s \notin Busy(p)
        /\ probes' = probes \/ probes' = [probes EXCEPT ![p][s] = "asking"]
    BY <1>1 DEF Take
  <2>2. Ended = {}
    BY <1>0, <2>1 DEF Ended
  <2>3. Unseen' = Unseen
    BY <2>1 DEF Unseen, store
  <2> QED BY <2>1, <2>2, <2>3, QuietShows
<1>2. CASE Ask(p, s)
  <2>1. /\ hidden' = hidden /\ faults' = faults /\ probes[p][s] = "asking"
        /\ row' = row \/ row' = [row EXCEPT ![s] = Untested]
        /\ \E x \in {"none", "probing"} : probes' = [probes EXCEPT ![p][s] = x]
    BY <1>2 DEF Ask, Gone
  <2>2. Ended = {}
    BY <1>0, <2>1 DEF Ended
  <2>3. Unseen' \subseteq Unseen
    BY <1>0, <2>1 DEF Unseen
  <2> QED BY <2>1, <2>2, <2>3, QuietShows
<1>3. ASSUME NEW class, Result(p, s, class) PROVE ShowsAnswering
  <2>1. /\ row' = Recorded(s, class) /\ hidden' = Shown(s, class)
        /\ faults' = faults /\ probes' = [probes EXCEPT ![p][s] = "none"]
    BY <1>3 DEF Result
  <2>2. \A t \in Source \ {s} : row'[t] = row[t]
    BY <1>0, <2>1 DEF Recorded
  <2>3. hidden' \subseteq hidden /\ (s \in hidden' => ~row'[s].ok)
    BY <1>0, <2>1 DEF Recorded, Shown
  <2>4. Unseen' \subseteq Unseen /\ s \notin Unseen'
    BY <1>0, <2>2, <2>3 DEF Unseen
  <2>5. Ended \subseteq {s}
    BY <1>0, <2>1 DEF Ended
  <2> QED BY <2>1, <2>4, <2>5, QuietShows
<1> QED BY <1>1, <1>2, <1>3 DEF Answer

LEMMA FaultsShow ==
  ASSUME TypeOK, Restart \/ \E p \in Pass, t \in Source : Unrecorded(p, t) \/ DiesRecording(p, t)
  PROVE  ShowsAnswering
<1>0. row \in [Source -> Rows] /\ hidden \subseteq Source
  BY DEF TypeOK, Rows
<1>1. PICK s : /\ hidden' = hidden /\ faults' = faults + 1
               /\ row' = row \/ row' = Recorded(s, "ok")
  BY DEF Restart, Unrecorded, DiesRecording, Dead, Failing
<1>2. \A t \in Source \ {s} : row'[t] = row[t]
  BY <1>0, <1>1 DEF Recorded
<1>3. Unseen' \subseteq Unseen \cup {s}
  BY <1>0, <1>1, <1>2 DEF Unseen
<1> QED BY <1>1, <1>3, FaultShows

\* An answer shows its source again, whatever passes and requests overlap: each
\* statement of _recordResult() that is refused or cut by a death leaves at most
\* one answering source hidden, and the next result of that source clears it.
THEOREM AnsweringSourcesShow == Spec => AnsweringIsShown
<1>1. TypeOK /\ [Next]_vars => [ShowsAnswering]_vars
  BY OthersShow, ProbesShow, FaultsShow DEF Next
<1> QED BY <1>1, TypeCorrect, PTL DEF Spec, AnsweringIsShown

LEMMA CheckingPreserved == TypeOK /\ CheckingIsReal /\ [Next]_vars => CheckingIsReal'
<1> SUFFICES ASSUME TypeOK, CheckingIsReal, [Next]_vars PROVE CheckingIsReal'
  OBVIOUS
<1>0. probes \in [Pass -> [Source -> {"none", "asking", "probing"}]] /\ checking \subseteq Source
  BY DEF TypeOK
<1>1. ASSUME NEW p \in Pass, NEW s \in Source, Take(p, s) PROVE CheckingIsReal'
  <2>1. checking' = checking
    BY <1>1 DEF Take
  <2>2. CASE probes' = probes
    BY <2>1, <2>2 DEF CheckingIsReal
  <2>3. CASE probes' = [probes EXCEPT ![p][s] = "asking"] /\ s \notin checking
    <3>1. \A t \in checking, o \in Pass : probes'[o][t] = probes[o][t]
      BY <1>0, <2>3
    <3> QED BY <2>1, <3>1 DEF CheckingIsReal
  <2> QED BY <1>1, <2>2, <2>3 DEF Take
<1>2. ASSUME NEW p \in Pass, NEW s \in Source, Ask(p, s) PROVE CheckingIsReal'
  <2>1. CASE s \in listed
    <3>1. /\ checking' = checking \cup {s} /\ probes'[p][s] = "probing"
          /\ \A t \in Source \ {s}, o \in Pass : probes'[o][t] = probes[o][t]
      BY <1>0, <1>2, <2>1 DEF Ask
    <3> QED BY <1>0, <3>1 DEF CheckingIsReal
  <2>2. CASE s \notin listed
    <3>1. checking' = checking /\ probes[p][s] = "asking"
          /\ \A t \in Source, o \in Pass : probes[o][t] = "probing" => probes'[o][t] = "probing"
      BY <1>0, <1>2, <2>2 DEF Ask
    <3> QED BY <1>0, <3>1 DEF CheckingIsReal
  <2> QED BY <2>1, <2>2
<1>3. ASSUME NEW p \in Pass, NEW s \in Source,
             (\E class : Result(p, s, class)) \/ Unrecorded(p, s)
      PROVE  CheckingIsReal'
  <2>1. /\ probes' = [probes EXCEPT ![p][s] = "none"]
        /\ \/ checking' = checking \ {s}
           \/ checking' = checking /\ probes[p][s] = "asking"
    BY <1>3 DEF Result, Unrecorded, Unmarked
  <2>2. \A t \in Source \ {s}, o \in Pass : probes'[o][t] = probes[o][t]
    BY <1>0, <2>1
  <2>3. CASE checking' = checking \ {s}
    BY <1>0, <2>2, <2>3 DEF CheckingIsReal
  <2>4. CASE checking' = checking /\ probes[p][s] = "asking"
    <3>1. \A t \in Source, o \in Pass : probes[o][t] = "probing" => probes'[o][t] = "probing"
      BY <1>0, <2>1, <2>4
    <3> QED BY <1>0, <2>4, <3>1 DEF CheckingIsReal
  <2> QED BY <2>1, <2>3, <2>4
<1>4. CASE Dead
  BY <1>4 DEF Dead, CheckingIsReal
<1>5. CASE UNCHANGED <<checking, probes>>
  BY <1>5 DEF CheckingIsReal
<1>6. Tick \/ User => UNCHANGED <<checking, probes>>
  BY DEF Tick, User, CheckSome, CheckAll, HideBroken, passes
<1>7. (\E p \in Pass : Finish(p)) => UNCHANGED <<checking, probes>>
  BY DEF Finish
<1>8. (\E S \in SUBSET Source : Relist(S)) \/ UNCHANGED vars => UNCHANGED <<checking, probes>>
  BY DEF Relist, vars, passes
<1> QED BY <1>1, <1>2, <1>3, <1>4, <1>5, <1>6, <1>7, <1>8
        DEF Next, Answer, Restart, DiesRecording

\* Nothing is shown as being checked that no probe is checking.
THEOREM ChecksAreReal == Spec => []CheckingIsReal
<1>1. Init => CheckingIsReal
  BY Start DEF Inv
<1> QED BY <1>1, CheckingPreserved, TypeCorrect, PTL DEF Spec
-----------------------------------------------------------------------------
(* What a sweep takes on                                                    *)

\* What a pass has yet to probe or is probing.
Pending(p) == todo[p] \cup Busy(p)

\* A sweep that starts takes every source that is among the first due: one that
\* is passed over saw a whole quota of others that it is not ahead of.
SweepTakesFirst == (Tick /\ "sweep" \notin running) => First' \subseteq todo'["sweep"]

\* A source leaves a pass only once it is no longer due (its result put the
\* deadline off, or its row went), or to a probe that runs elsewhere, or with a
\* failure of the server.
NoneForgotten ==
  \A p \in Pass : \A s \in Pending(p) \ Pending(p)' :
    s \notin DueIn(row') \/ s \in checking \/ faults' # faults

\* A sweep never has more on its hands than SWEEP_QUOTA, and a pass never more
\* probes in flight than PROBE_CONCURRENCY.
SweepsAreBounded ==
  /\ Cardinality(Pending("sweep")) <= Quota
  /\ \A p \in Pass : Cardinality(Busy(p)) <= Workers

\* Any set of sources can be counted.
LEMMA Counted ==
  ASSUME NEW S, S \subseteq Source
  PROVE  IsFiniteSet(S) /\ Cardinality(S) \in Nat
<1>1. IsFiniteSet(Source)
  BY ConstantsOK
<1>2. IsFiniteSet(S)
  BY <1>1, FS_Subset
<1> QED BY <1>2, FS_CardinalityType

LEMMA Fewer ==
  ASSUME NEW S, NEW T, S \subseteq T, T \subseteq Source
  PROVE  Cardinality(S) <= Cardinality(T) /\ (Cardinality(S) = Cardinality(T) => S = T)
<1>1. IsFiniteSet(T)
  BY Counted
<1> QED BY <1>1, FS_Subset

\* What a starting sweep takes holds no more than the quota, and leaves out a
\* due source only for a quota of others it is not ahead of.
LEMMA TargetsFill ==
  ASSUME NEW r, NEW S \in Targets(r), S \subseteq Source,
         NEW s \in DueIn(r), Cardinality({t \in DueIn(r) \ {s} : ~Ahead(r, s, t)}) < Quota
  PROVE  s \in S
<1> SUFFICES ASSUME s \notin S PROVE FALSE
  OBVIOUS
<1> DEFINE due == S \cap DueIn(r)
           peers == {t \in DueIn(r) \ {s} : ~Ahead(r, s, t)}
<1>1. /\ Cardinality(due) = Least(Quota, Cardinality(DueIn(r)))
      /\ \A x \in due, y \in DueIn(r) \ due : ~Ahead(r, y, x)
  BY DEF Targets
<1>2. due \subseteq peers
  BY <1>1
<1>3. peers \subseteq DueIn(r) /\ DueIn(r) \subseteq Source /\ due \subseteq DueIn(r) /\ peers \subseteq Source
  BY DEF DueIn
<1>4. s \in DueIn(r) /\ s \notin due /\ Cardinality(peers) < Quota
  OBVIOUS
<1> HIDE DEF due, peers
<1>5. Cardinality(due) <= Cardinality(peers)
  BY <1>2, <1>3, Fewer
<1>6. /\ Cardinality(due) \in Nat /\ Cardinality(peers) \in Nat
      /\ Cardinality(DueIn(r)) \in Nat /\ Quota \in Nat
  BY <1>3, Counted, ConstantsOK
<1>7. Cardinality(due) = Cardinality(DueIn(r))
  BY <1>1, <1>4, <1>5, <1>6 DEF Least
<1>8. due = DueIn(r)
  BY <1>3, <1>7, Fewer
<1> QED BY <1>4, <1>8

LEMMA TargetsFit ==
  ASSUME NEW r, NEW S \in Targets(r), S \subseteq Source
  PROVE  Cardinality(S) <= Quota
<1> DEFINE due == S \cap DueIn(r)
           rest == S \ due
           new == {s \in listed : r[s] = Untested}
<1>1. /\ Cardinality(due) = Least(Quota, Cardinality(DueIn(r)))
      /\ Cardinality(rest) = Least(Quota - Cardinality(due), Cardinality(new))
  BY DEF Targets
<1>2. due \subseteq Source /\ rest \subseteq Source /\ due \cap rest = {} /\ S = due \cup rest
      /\ DueIn(r) \subseteq Source
  BY DEF DueIn
<1> HIDE DEF due, new, rest
<1>3. /\ IsFiniteSet(due) /\ IsFiniteSet(rest) /\ Cardinality(DueIn(r)) \in Nat
      /\ Cardinality(due) \in Nat /\ Cardinality(rest) \in Nat /\ Quota \in Nat
  BY <1>2, Counted, ConstantsOK
<1>4. Cardinality(S) = Cardinality(due) + Cardinality(rest)
  <2>1. Cardinality({}) = 0
    BY FS_EmptySet
  <2>2. Cardinality(due \cup rest) = Cardinality(due) + Cardinality(rest) - Cardinality(due \cap rest)
    BY <1>3, FS_Union
  <2>3. Cardinality(S) = Cardinality(due \cup rest) /\ Cardinality(due \cap rest) = 0
    BY <1>2, <2>1
  <2> QED BY <1>3, <2>2, <2>3
<1>5. Cardinality(due) <= Quota
  BY <1>1, <1>3 DEF Least
<1>6. CASE Quota - Cardinality(due) < Cardinality(new)
  <2>1. Cardinality(rest) = Quota - Cardinality(due)
    BY <1>1, <1>6 DEF Least
  <2> QED BY <1>3, <1>4, <2>1
<1>7. CASE ~(Quota - Cardinality(due) < Cardinality(new))
  <2>1. Cardinality(rest) = Cardinality(new)
    BY <1>1, <1>7 DEF Least
  <2> QED BY <1>3, <1>4, <1>7, <2>1
<1> QED BY <1>6, <1>7

\* A period either leaves the passes alone or starts a sweep with nothing on its
\* hands.
LEMMA TickStarts ==
  ASSUME TypeOK, Tick, "sweep" \notin running
  PROVE  \E S \in Targets(row') : S \subseteq Source /\ todo' = [todo EXCEPT !["sweep"] = S]
<1>1. TypeOK => todo \in [Pass -> SUBSET Source] /\ todo["sweep"] = {}
  BY DEF TypeOK, Pass
<1>2. PICK S \in Targets(row') :
        IF S = {} THEN UNCHANGED <<running, todo>> ELSE Begin("sweep", S)
  BY DEF Tick
<1>3. S \subseteq Source
  BY <1>2, TargetsAre
<1>4. todo' = [todo EXCEPT !["sweep"] = S]
  <2>1. CASE S = {}
    BY <1>1, <1>2, <2>1
  <2>2. CASE S # {}
    BY <1>2, <2>2 DEF Begin
  <2> QED BY <2>1, <2>2
<1> QED BY <1>2, <1>3, <1>4

LEMMA StartsTakeFirst == TypeOK => SweepTakesFirst
<1> SUFFICES ASSUME TypeOK, Tick, "sweep" \notin running, NEW s \in First'
             PROVE  s \in todo'["sweep"]
  BY DEF SweepTakesFirst
<1>1. PICK S \in Targets(row') : S \subseteq Source /\ todo' = [todo EXCEPT !["sweep"] = S]
  BY TickStarts
<1>2. s \in DueIn(row') /\ Cardinality({t \in DueIn(row') \ {s} : ~Ahead(row', s, t)}) < Quota
  BY DEF First
<1>3. s \in S
  BY <1>1, <1>2, TargetsFill
<1>4. todo'["sweep"] = S
  BY <1>1 DEF TypeOK, Pass
<1> QED BY <1>3, <1>4

\* What the other steps do to the pending work and to the probes in flight.
LEMMA PendingKept ==
  ASSUME TypeOK, [Next]_vars, ~(Tick /\ "sweep" \notin running)
  PROVE  Pending("sweep")' \subseteq Pending("sweep")
<1> DEFINE Same == UNCHANGED <<todo["sweep"], probes>>
<1>0. /\ todo \in [Pass -> SUBSET Source] /\ "sweep" \in Pass /\ "check" \in Pass
      /\ probes \in [Pass -> [Source -> {"none", "asking", "probing"}]]
  BY DEF TypeOK, Pass
<1>1. ASSUME Same PROVE Pending("sweep")' \subseteq Pending("sweep")
  BY <1>1 DEF Pending, Busy
<1>2. Tick => Same
  BY DEF Tick
<1>3. User => Same
  BY <1>0 DEF User, CheckSome, CheckAll, HideBroken, Begin, passes
<1>4. ASSUME NEW p \in Pass, NEW s \in Source, Take(p, s)
      PROVE  Pending("sweep")' \subseteq Pending("sweep")
  <2>1. /\ s \in todo[p] /\ todo' = [todo EXCEPT ![p] = todo[p] \ {s}]
        /\ probes' = probes \/ probes' = [probes EXCEPT ![p][s] = "asking"]
    BY <1>4 DEF Take
  <2>2. todo'["sweep"] \subseteq todo["sweep"] /\ (p = "sweep" => s \in todo["sweep"])
    BY <1>0, <2>1
  <2>3. \A t \in Source : probes'["sweep"][t] = probes["sweep"][t] \/ (p = "sweep" /\ t = s)
    BY <1>0, <2>1
  <2> QED BY <2>2, <2>3 DEF Pending, Busy
<1>5. ASSUME NEW p \in Pass, NEW s \in Source, Answer(p, s) \/ Unrecorded(p, s)
      PROVE  Pending("sweep")' \subseteq Pending("sweep")
  <2>1. /\ probes[p][s] # "none" /\ todo' = todo
        /\ \E x \in {"none", "asking", "probing"} : probes' = [probes EXCEPT ![p][s] = x]
    BY <1>5 DEF Answer, Ask, Result, Unrecorded
  <2>2. \A t \in Source : probes'["sweep"][t] = probes["sweep"][t] \/ probes["sweep"][t] # "none"
    BY <1>0, <2>1
  <2> QED BY <2>1, <2>2 DEF Pending, Busy
<1>6. (\E p \in Pass : Finish(p)) => Same
  BY DEF Finish
<1>7. (\E S \in SUBSET Source : Relist(S)) => Same
  BY DEF Relist, passes
<1>8. Dead => Pending("sweep")' \subseteq Pending("sweep")
  BY <1>0 DEF Dead, Pending, Busy, Idle
<1>9. UNCHANGED vars => Same
  BY DEF vars, passes
<1> HIDE DEF Same
<1> QED BY <1>1, <1>2, <1>3, <1>4, <1>5, <1>6, <1>7, <1>8, <1>9
        DEF Next, Restart, DiesRecording

LEMMA BusyKept ==
  ASSUME TypeOK, [Next]_vars, NEW p \in Pass
  PROVE  \/ Busy(p)' \subseteq Busy(p)
         \/ Cardinality(Busy(p)) < Workers /\ \E s \in Source : Busy(p)' \subseteq Busy(p) \cup {s}
<1> DEFINE Kept == Busy(p)' \subseteq Busy(p)
<1>0. probes \in [Pass -> [Source -> {"none", "asking", "probing"}]]
  BY DEF TypeOK
<1>1. ASSUME probes' = probes PROVE Kept
  BY <1>1 DEF Busy
<1>2. Tick \/ User \/ (\E o \in Pass : Finish(o)) => probes' = probes
  BY DEF Tick, User, CheckSome, CheckAll, HideBroken, Finish, passes
<1>3. (\E S \in SUBSET Source : Relist(S)) \/ UNCHANGED vars => probes' = probes
  BY DEF Relist, vars, passes
<1>4. ASSUME NEW o \in Pass, NEW s \in Source, Take(o, s)
      PROVE  Kept \/ (Cardinality(Busy(p)) < Workers /\ Busy(p)' \subseteq Busy(p) \cup {s})
  <2>1. /\ Cardinality(Busy(o)) < Workers
        /\ probes' = probes \/ probes' = [probes EXCEPT ![o][s] = "asking"]
    BY <1>4 DEF Take
  <2>2. \A t \in Source : probes'[p][t] = probes[p][t] \/ (p = o /\ t = s)
    BY <1>0, <2>1
  <2> QED BY <2>1, <2>2 DEF Busy
<1>5. ASSUME NEW o \in Pass, NEW s \in Source, Answer(o, s) \/ Unrecorded(o, s)
      PROVE  Kept
  <2>1. /\ probes[o][s] # "none"
        /\ \E x \in {"none", "asking", "probing"} : probes' = [probes EXCEPT ![o][s] = x]
    BY <1>5 DEF Answer, Ask, Result, Unrecorded
  <2>2. \A t \in Source : probes'[p][t] = probes[p][t] \/ probes[p][t] # "none"
    BY <1>0, <2>1
  <2> QED BY <2>2 DEF Busy
<1>6. Dead => Kept
  BY <1>0 DEF Dead, Busy, Idle
<1> HIDE DEF Kept
<1>7. Kept \/ (\E s \in Source : Cardinality(Busy(p)) < Workers /\ Busy(p)' \subseteq Busy(p) \cup {s})
  BY <1>1, <1>2, <1>3, <1>4, <1>5, <1>6 DEF Next, Restart, DiesRecording
<1> QED BY <1>7 DEF Kept

LEMMA BoundsPreserved == TypeOK /\ SweepsAreBounded /\ [Next]_vars => SweepsAreBounded'
<1> SUFFICES ASSUME TypeOK, SweepsAreBounded, [Next]_vars PROVE SweepsAreBounded'
  OBVIOUS
<1>0. /\ todo \in [Pass -> SUBSET Source] /\ "sweep" \in Pass /\ Workers \in Nat /\ Quota \in Nat
      /\ \A p : Busy(p) \subseteq Source
      /\ \A p : Busy(p)' \subseteq Source
  BY ConstantsOK DEF TypeOK, Pass, Busy
<1>1. Cardinality(Pending("sweep")') <= Quota
  <2>1. CASE Tick /\ "sweep" \notin running
    <3>1. PICK S \in Targets(row') : S \subseteq Source /\ todo' = [todo EXCEPT !["sweep"] = S]
      BY <2>1, TickStarts
    <3>2. probes' = probes /\ Busy("sweep") = {}
      BY <1>0, <2>1 DEF Tick, TypeOK
    <3>3. Pending("sweep")' = S
      BY <1>0, <3>1, <3>2 DEF Pending, Busy
    <3>4. Cardinality(S) <= Quota
      BY <3>1, TargetsFit
    <3> QED BY <3>3, <3>4
  <2>2. CASE ~(Tick /\ "sweep" \notin running)
    <3>1. Pending("sweep")' \subseteq Pending("sweep") /\ Pending("sweep") \subseteq Source
      BY <1>0, <2>2, PendingKept DEF Pending
    <3> DEFINE new == Pending("sweep")'
               old == Pending("sweep")
    <3>2. new \subseteq old /\ old \subseteq Source /\ Cardinality(old) <= Quota
      BY <3>1 DEF SweepsAreBounded
    <3> HIDE DEF new, old
    <3>3. Cardinality(new) <= Cardinality(old) /\ Cardinality(new) \in Nat /\ Cardinality(old) \in Nat
      BY <3>2, Fewer, Counted
    <3>4. Cardinality(new) <= Quota
      BY <1>0, <3>2, <3>3
    <3> QED BY <3>4 DEF new
  <2> QED BY <2>1, <2>2
<1>2. ASSUME NEW p \in Pass PROVE Cardinality(Busy(p)') <= Workers
  <2> DEFINE new == Busy(p)'
             old == Busy(p)
  <2>1. new \subseteq Source /\ old \subseteq Source /\ Cardinality(old) <= Workers
    BY <1>0 DEF SweepsAreBounded
  <2>2. new \subseteq old \/ (Cardinality(old) < Workers /\ \E s \in Source : new \subseteq old \cup {s})
    BY BusyKept
  <2> HIDE DEF new, old
  <2>3. IsFiniteSet(old) /\ Cardinality(new) \in Nat /\ Cardinality(old) \in Nat
    BY <2>1, Counted
  <2>4. CASE new \subseteq old
    <3>1. Cardinality(new) <= Cardinality(old)
      BY <2>1, <2>4, Fewer
    <3> QED BY <1>0, <2>1, <2>3, <3>1 DEF new
  <2>5. CASE Cardinality(old) < Workers /\ \E s \in Source : new \subseteq old \cup {s}
    <3>1. PICK s \in Source : new \subseteq old \cup {s}
      BY <2>5
    <3>2. Cardinality(old \cup {s}) = IF s \in old THEN Cardinality(old) ELSE Cardinality(old) + 1
      BY <2>3, FS_AddElement
    <3>3. old \cup {s} \subseteq Source
      BY <2>1
    <3>4. Cardinality(new) <= Cardinality(old \cup {s})
      BY <3>1, <3>3, Fewer
    <3>5. Cardinality(old \cup {s}) <= Cardinality(old) + 1 /\ Cardinality(old \cup {s}) \in Nat
      BY <2>3, <3>2
    <3>6. Cardinality(new) <= Workers
      BY <1>0, <2>3, <2>5, <3>4, <3>5
    <3> QED BY <3>6 DEF new
  <2> QED BY <2>2, <2>4, <2>5
<1> QED BY <1>1, <1>2 DEF SweepsAreBounded

\* A sweep stays within its quota and a pass within its workers, whatever is due,
\* gone or asked for meanwhile (health.ts:120-140, 250-270).
THEOREM SweepsStayBounded == Spec => []SweepsAreBounded
<1>1. Init => SweepsAreBounded
  <2> SUFFICES ASSUME Init PROVE SweepsAreBounded
    OBVIOUS
  <2>1. \A p \in Pass : todo[p] = {} /\ Busy(p) = {}
    BY DEF Init, Idle, Busy
  <2>2. Pending("sweep") = {}
    BY <2>1 DEF Pending, Pass
  <2>3. Cardinality({}) = 0 /\ Quota \in Nat /\ Workers \in Nat
    BY FS_EmptySet, ConstantsOK
  <2>4. Cardinality(Pending("sweep")) <= Quota
    BY <2>2, <2>3
  <2>5. \A p \in Pass : Cardinality(Busy(p)) <= Workers
    BY <2>1, <2>3
  <2> QED BY <2>4, <2>5 DEF SweepsAreBounded
<1> QED BY <1>1, BoundsPreserved, TypeCorrect, PTL DEF Spec

LEMMA StepsForgetNone == TypeOK /\ [Next]_vars => NoneForgotten
<1> SUFFICES ASSUME TypeOK, [Next]_vars, NEW p \in Pass, NEW s \in Pending(p), s \notin Pending(p)'
             PROVE  s \notin DueIn(row') \/ s \in checking \/ faults' # faults
  BY DEF NoneForgotten
<1> DEFINE Goal == s \notin DueIn(row') \/ s \in checking \/ faults' # faults
<1>0. /\ todo \in [Pass -> SUBSET Source] /\ faults \in Int
      /\ probes \in [Pass -> [Source -> {"none", "asking", "probing"}]]
      /\ row \in [Source -> Rows] /\ s \in Source
      /\ \A o \in Pass \ running : Pending(o) = {}
  BY ConstantsOK DEF TypeOK, Pending, Busy, Rows
<1>1. p \in running
  BY <1>0
<1>2. Pending(p)' # Pending(p)
  OBVIOUS
<1>3. todo'[p] # todo[p] \/ probes' # probes
  BY <1>2 DEF Pending, Busy
<1>4. Tick \/ (\E o \in Pass : Finish(o)) \/ UNCHANGED vars => FALSE
  <2>1. Tick => todo'[p] = todo[p] /\ probes' = probes
    BY <1>0, <1>1 DEF Tick, Begin, Pass
  <2>2. (\E o \in Pass : Finish(o)) \/ UNCHANGED vars => todo'[p] = todo[p] /\ probes' = probes
    BY DEF Finish, vars, passes
  <2> QED BY <1>3, <2>1, <2>2
<1>5. User \/ (\E S \in SUBSET Source : Relist(S)) => FALSE
  <2>1. CheckAll \/ HideBroken \/ (\E S \in SUBSET Source : CheckSome(S)) => todo'[p] = todo[p] /\ probes' = probes
    BY <1>0, <1>1 DEF CheckAll, CheckSome, HideBroken, Begin, Pass, passes
  <2>2. (\E S \in SUBSET Source : Relist(S)) => todo'[p] = todo[p] /\ probes' = probes
    BY DEF Relist, passes
  <2> QED BY <1>3, <2>1, <2>2 DEF User
<1>6. ASSUME NEW o \in Pass, NEW t \in Source, Take(o, t) PROVE Goal
  <2>1. /\ todo' = [todo EXCEPT ![o] = todo[o] \ {t}]
        /\ t \notin checking => probes' = [probes EXCEPT ![o][t] = "asking"]
        /\ t \in checking => probes' = probes
        /\ t \notin Busy(o)
    BY <1>6 DEF Take
  <2>2. CASE t \in checking
    <3>1. todo[p] \ {t} \subseteq todo'[p] /\ probes' = probes
      BY <1>0, <2>1, <2>2
    <3>2. s = t
      BY <1>0, <3>1 DEF Pending, Busy
    <3> QED BY <2>2, <3>2
  <2>3. CASE t \notin checking
    <3>1. todo[p] \subseteq todo'[p] \cup Busy(p)' /\ Busy(p) \subseteq Busy(p)'
      BY <1>0, <2>1, <2>3 DEF Busy
    <3> QED BY <3>1 DEF Pending
  <2> QED BY <2>2, <2>3
<1>7. ASSUME NEW o \in Pass, NEW t \in Source, Ask(o, t) PROVE Goal
  <2>1. CASE t \in listed
    <3>1. todo' = todo /\ probes' = [probes EXCEPT ![o][t] = "probing"]
      BY <1>7, <2>1 DEF Ask
    <3>2. todo[p] = todo'[p] /\ Busy(p) \subseteq Busy(p)'
      BY <1>0, <3>1 DEF Busy
    <3> QED BY <3>2 DEF Pending
  <2>2. CASE t \notin listed
    <3>1. todo' = todo /\ probes' = [probes EXCEPT ![o][t] = "none"] /\ row' = [row EXCEPT ![t] = Untested]
      BY <1>7, <2>2 DEF Ask, Gone
    <3>2. s = t
      BY <1>0, <3>1 DEF Pending, Busy
    <3> QED BY <1>0, <3>1, <3>2 DEF DueIn
  <2> QED BY <2>1, <2>2
<1>8. ASSUME NEW o \in Pass, NEW t \in Source, NEW class, Result(o, t, class) PROVE Goal
  <2>1. todo' = todo /\ probes' = [probes EXCEPT ![o][t] = "none"]
    BY <1>8 DEF Result
  <2>2. s = t
    BY <1>0, <2>1 DEF Pending, Busy
  <2> DEFINE f == Failures(t)
             w == RetryDelay(f, class)
  <2>3. w \in Nat \ {0} /\ Refresh \in Nat \ {0}
    <3>1. f \in 1..Rungs
      BY FailuresIs
    <3> HIDE DEF f
    <3> QED BY <3>1, RetryDelayIs, ConstantsOK
  <2>4. row'[t].wait = Refresh \/ row'[t].wait = w
    <3>1. row' = [row EXCEPT ![t] = IF class = "ok" THEN [ok |-> TRUE, failures |-> 0, wait |-> Refresh]
                                    ELSE [ok |-> FALSE, failures |-> f, wait |-> w]]
      BY <1>8 DEF Result, Recorded
    <3> HIDE DEF f, w
    <3> QED BY <1>0, <3>1
  <2> HIDE DEF w, f
  <2>5. row'[t].wait \in Nat \ {0}
    BY <2>3, <2>4
  <2>6. t \notin DueIn(row')
    BY <2>5 DEF DueIn
  <2> QED BY <2>2, <2>6
<1>9. Restart \/ (\E o \in Pass, t \in Source : Unrecorded(o, t) \/ DiesRecording(o, t)) => Goal
  BY <1>0 DEF Unrecorded, Restart, DiesRecording, Dead, Failing
<1> HIDE DEF Goal
<1>10. Goal
  BY <1>4, <1>5, <1>6, <1>7, <1>8, <1>9 DEF Next, Answer
<1> QED BY <1>10 DEF Goal

\* Every sweep takes the first of the due sources, and what a pass took is only
\* let go with a new deadline, without a row, or to another probe: the steps that
\* DueIsProbed rests on (health.ts:124-125, 182-188, 250-310).
THEOREM DueSourcesAreTaken == Spec => [][SweepTakesFirst /\ NoneForgotten]_vars
<1>1. TypeOK /\ [Next]_vars => [SweepTakesFirst /\ NoneForgotten]_vars
  BY StartsTakeFirst, StepsForgetNone
<1> QED BY <1>1, TypeCorrect, PTL DEF Spec
=============================================================================
