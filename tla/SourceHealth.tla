---------------------------- MODULE SourceHealth ----------------------------
(***************************************************************************)
(* The health of the sources: SourceHealthService of sources/health.ts.    *)
(* A rolling sweep probes the sources whose deadline has passed and a few  *)
(* that were never probed; the user has sources checked at any moment, and *)
(* hides those that fail.  Deadlines are counted in periods of the sweep.  *)
(***************************************************************************)
EXTENDS Integers, FiniteSets

CONSTANTS
  Source,
  Backed,       \* the sources of a followed series
  Untested,     \* no row
  Quota,        \* SWEEP_QUOTA
  Workers,      \* PROBE_CONCURRENCY
  Rungs,        \* how many delays the ladder has
  Delay,        \* RETRY_LADDER_MS
  AntibotCap,   \* the longest delay of a protected source
  Refresh,      \* OK_REFRESH_MS
  Late,         \* bound on how long past its deadline a source is told apart
  Faults,       \* what may go wrong: "crash", "write"
  Budget        \* bound on how often it does

Waits == {Delay[n] : n \in 1..Rungs} \cup {AntibotCap, Refresh}

ASSUME ConstantsOK ==
  /\ IsFiniteSet(Source) /\ Backed \subseteq Source
  /\ {Quota, Workers, Rungs, AntibotCap, Refresh} \subseteq Nat \ {0} /\ {Late, Budget} \subseteq Nat
  /\ Delay \in [1..Rungs -> Nat \ {0}]
  /\ Untested \notin [ok : BOOLEAN, failures : 0..Rungs, wait : Int]
  /\ Faults \subseteq {"crash", "write"}

VARIABLES
  listed,     \* the sources the registry has an adapter for
  row,        \* source_health
  hidden,     \* source_flags
  checking,   \* the sources being probed
  running,    \* the passes under way; "sweep" stands for sweeping = true
  todo,       \* what each still has to probe
  probes,     \* where its probe of a source is
  faults      \* how much of the budget is used

store == <<row, hidden>>
passes == <<running, todo, probes>>
vars == <<listed, store, checking, passes, faults>>

\* The rolling re-check, and a check that was asked for.
Pass == {"sweep", "check"}
-----------------------------------------------------------------------------
(* Deadlines                                                                *)

Least(a, b) == IF a < b THEN a ELSE b

\* retryDelayMs(): dead sources skip two rungs, protected ones stay low.
RetryDelay(n, class) ==
  LET rung == IF class = "dead" THEN Least(n + 2, Rungs) ELSE n
  IN  IF class = "antibot" THEN Least(Delay[rung], AntibotCap) ELSE Delay[rung]

Tested == {s \in Source : row[s] # Untested}

\* _nextFailureCount(), up to where it makes no difference.
Failures(s) == Least(IF s \in Tested THEN row[s].failures + 1 ELSE 1, Rungs)

\* One period later; what is long overdue is no longer told apart.
Sooner(r) == [r EXCEPT !.wait = IF @ = -Late THEN @ ELSE @ - 1]

\* The sources due now, and who of two comes first.
DueIn(r) == {s \in Source : r[s] # Untested /\ r[s].wait <= 0}
Ahead(r, s, t) ==
  \/ s \in Backed /\ t \notin Backed
  \/ (s \in Backed <=> t \in Backed) /\ r[s].wait < r[t].wait
-----------------------------------------------------------------------------
(* Passes                                                                   *)

Begin(p, S) ==
  /\ running' = running \cup {p}
  /\ todo' = [todo EXCEPT ![p] = S]

\* _dueSources(): the due sources in order, filled up with untested ones.
Targets(r) ==
  {S \in SUBSET (DueIn(r) \cup {s \in listed : r[s] = Untested}) :
     LET due == S \cap DueIn(r)
         untested == {s \in listed : r[s] = Untested}
     IN  /\ Cardinality(due) = Least(Quota, Cardinality(DueIn(r)))
         /\ \A s \in due, t \in DueIn(r) \ due : ~Ahead(r, t, s)
         /\ Cardinality(S \ due) = Least(Quota - Cardinality(due), Cardinality(untested))}

\* A period passes and the timer calls sweep(), which returns when the previous
\* one still runs or nothing is to be probed.
Tick ==
  LET r == [s \in Source |-> IF s \in Tested THEN Sooner(row[s]) ELSE Untested]
  IN  /\ row' = r
      /\ IF "sweep" \in running
           THEN UNCHANGED <<running, todo>>
           ELSE \E S \in Targets(r) :
                  IF S = {} THEN UNCHANGED <<running, todo>> ELSE Begin("sweep", S)
      /\ UNCHANGED <<listed, hidden, checking, probes, faults>>

\* POST /api/sources/health/check, or the first probes after the start.
CheckSome(S) ==
  /\ "check" \notin running /\ S # {}
  /\ Begin("check", S)
  /\ UNCHANGED <<listed, store, checking, probes, faults>>

\* probeAll() shows every source again first.
CheckAll ==
  /\ "check" \notin running
  /\ hidden' = {}
  /\ Begin("check", listed)
  /\ UNCHANGED <<listed, row, checking, probes, faults>>

Busy(p) == {s \in Source : probes[p][s] # "none"}

\* A worker of probeMany() takes a source; probeOne() leaves it when it is being
\* probed elsewhere.
Take(p, s) ==
  /\ s \in todo[p] /\ Cardinality(Busy(p)) < Workers /\ s \notin Busy(p)
  /\ todo' = [todo EXCEPT ![p] = @ \ {s}]
  /\ probes' = IF s \in checking THEN probes ELSE [probes EXCEPT ![p][s] = "asking"]
  /\ UNCHANGED <<listed, store, checking, running, faults>>

\* The workers are done.
Finish(p) ==
  /\ p \in running /\ todo[p] = {} /\ Busy(p) = {}
  /\ running' = running \ {p}
  /\ UNCHANGED <<listed, store, checking, todo, probes, faults>>
-----------------------------------------------------------------------------
(* One probe                                                                *)

\* getAdapter() answers: the adapter, or none and the row goes; mutants keep it
\* with its deadline.
GoneKept(s) == row
Gone(s) == [row EXCEPT ![s] = Untested]
Ask(p, s) ==
  /\ probes[p][s] = "asking"
  /\ IF s \in listed
       THEN /\ probes' = [probes EXCEPT ![p][s] = "probing"]
            /\ checking' = checking \cup {s} /\ row' = row
       ELSE /\ probes' = [probes EXCEPT ![p][s] = "none"]
            /\ row' = Gone(s) /\ checking' = checking
  /\ UNCHANGED <<listed, hidden, running, todo, faults>>

\* The first statement of _recordResult(): the row of the source.
Recorded(s, class) ==
  [row EXCEPT ![s] =
     IF class = "ok"
       THEN [ok |-> TRUE, failures |-> 0, wait |-> Refresh]
       ELSE [ok |-> FALSE, failures |-> Failures(s), wait |-> RetryDelay(Failures(s), class)]]

\* The second, after a success: the flag goes; a mutant keeps it.
StillHidden(s, class) == hidden
Shown(s, class) == IF class = "ok" THEN hidden \ {s} ELSE hidden

\* Both statements, each committed by itself.  Nothing is awaited between them:
\* what falls in between is a refused statement or a death, the next actions.
Result(p, s, class) ==
  /\ probes[p][s] = "probing"
  /\ row' = Recorded(s, class)
  /\ hidden' = Shown(s, class)
  /\ probes' = [probes EXCEPT ![p][s] = "none"]
  /\ checking' = checking \ {s}
  /\ UNCHANGED <<listed, running, todo, faults>>

Failing(fault) ==
  /\ fault \in Faults /\ faults < Budget
  /\ faults' = faults + 1

\* A statement of a probe is refused: the only one of a failure, either one of a
\* success, or the removal of a row that is gone.  The probe ends and its mark
\* goes; a mutant leaves it.
Marked(s) == checking
Unmarked(s) == checking \ {s}
Unrecorded(p, s) ==
  /\ Failing("write")
  /\ \/ /\ probes[p][s] = "probing"
        /\ row' \in {row, Recorded(s, "ok")} /\ checking' = Unmarked(s)
     \/ /\ probes[p][s] = "asking" /\ s \notin listed
        /\ UNCHANGED <<row, checking>>
  /\ probes' = [probes EXCEPT ![p][s] = "none"]
  /\ UNCHANGED <<listed, hidden, running, todo>>
-----------------------------------------------------------------------------
(* The others                                                               *)

\* hideBroken()
HideBroken ==
  /\ hidden' = hidden \cup {s \in Tested : ~row[s].ok}
  /\ UNCHANGED <<listed, row, checking, passes, faults>>

\* The registry is reloaded, or the next image has other sources.
Relist(S) ==
  /\ listed' = S
  /\ UNCHANGED <<store, checking, passes, faults>>

Idle == [p \in Pass |-> [s \in Source |-> "none"]]

\* The process dies and starts again; sets, timers and passes were in memory.
Dead ==
  /\ Failing("crash")
  /\ checking' = {} /\ running' = {}
  /\ todo' = [p \in Pass |-> {}] /\ probes' = Idle
  /\ UNCHANGED <<listed, hidden>>

Restart == Dead /\ row' = row

\* It dies between the two statements of a success.
DiesRecording(p, s) ==
  /\ probes[p][s] = "probing"
  /\ row' = Recorded(s, "ok")
  /\ Dead
-----------------------------------------------------------------------------
Init ==
  /\ listed \in SUBSET Source
  /\ row = [s \in Source |-> Untested] /\ hidden = {}
  /\ checking = {} /\ running = {}
  /\ todo = [p \in Pass |-> {}] /\ probes = Idle
  /\ faults = 0

Answer(p, s) ==
  Ask(p, s) \/ (\E class \in {"ok", "dead", "antibot", "transient"} : Result(p, s, class))

User ==
  \/ \E S \in SUBSET Source : CheckSome(S)
  \/ CheckAll \/ HideBroken

Next ==
  \/ Tick
  \/ \E p \in Pass, s \in Source : 
       Take(p, s) \/ Answer(p, s) \/ Unrecorded(p, s) \/ DiesRecording(p, s)
  \/ \E p \in Pass : Finish(p)
  \/ User
  \/ \E S \in SUBSET Source : Relist(S)
  \/ Restart

Spec == Init /\ [][Next]_vars

(***************************************************************************)
(* Fairness.  The timer fires, the workers go on, and every probe is       *)
(* answered: each of its requests has a timeout.                           *)
(***************************************************************************)
Fairness ==
  /\ WF_vars(Tick)
  /\ \A p \in Pass : WF_vars(Finish(p))
  /\ \A p \in Pass, s \in Source : WF_vars(Take(p, s)) /\ WF_vars(Answer(p, s))

FairSpec == Spec /\ Fairness
-----------------------------------------------------------------------------
(* Properties                                                               *)

\* Every variable has its type, and a pass that does not run does nothing.
TypeOK ==
  /\ listed \subseteq Source /\ hidden \subseteq Source /\ checking \subseteq Source
  /\ row \in [Source -> {Untested} \cup
               [ok : BOOLEAN, failures : 0..Rungs, wait : {w \in Int : w >= -Late}]]
  /\ running \subseteq Pass /\ todo \in [Pass -> SUBSET Source]
  /\ probes \in [Pass -> [Source -> {"none", "asking", "probing"}]]
  /\ \A p \in Pass \ running : todo[p] = {} /\ Busy(p) = {}
  /\ faults \in 0..Budget

\* The sources that answered their last check and are hidden all the same.
Unseen == {s \in hidden : row[s] # Untested /\ row[s].ok}
Ended == {s \in Source : \E p \in Pass : probes[p][s] = "probing" /\ probes'[p][s] = "none"}

\* "A hidden (broken) source that answers again re-surfaces on its own"
\* (health.ts:376-379), also one that an earlier fault left hidden: only a fault
\* between the two statements keeps a source that answered hidden, each fault at
\* most one, and no pass, request or hiding that overlaps the check does.
ShowsAnswering ==
  /\ Cardinality(Unseen' \ Unseen) <= faults' - faults
  /\ faults' = faults => Ended \cap Unseen' = {}
AnsweringIsShown == [][ShowsAnswering]_vars

\* A source is only shown as being checked while a probe of it is under way
\* (health.ts:110-112, 150-152).
CheckingIsReal == \A s \in checking : \E p \in Pass : probes[p][s] = "probing"

\* No source stays for ever among the first that are due: it is probed, and the
\* row of one that is gone does not eat the quota (health.ts:124-125, 250-270).
First == {s \in DueIn(row) :
            Cardinality({t \in DueIn(row) \ {s} : ~Ahead(row, s, t)}) < Quota}
DueIsProbed == \A s \in Source : []<>(s \notin First)
=============================================================================
