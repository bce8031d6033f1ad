---------------------------- MODULE JobLifecycle ----------------------------
(***************************************************************************)
(* What the download queue promises about one row of `download_jobs`,      *)
(* whatever its workers, slots and timers do: which status may follow      *)
(* which.  Every handler of the queue may end with a scheduling pass, so   *)
(* a step is a status change followed by the start of some queued rows.    *)
(*                                                                         *)
(* DownloadQueue.tla is the detailed specification that implements it.     *)
(***************************************************************************)
CONSTANT Job        \* the rows a client may ask for: (source, manga, chapter)

VARIABLE status     \* status of each row, "absent" when there is none

Finished == {"completed", "failed", "cancelled"}
Status == {"absent", "queued", "downloading"} \cup Finished

\* Rows that have one of the given statuses.
With(S) == {j \in Job : status[j] \in S}

TypeOK == status \in [Job -> Status]

Init == status = [j \in Job |-> "absent"]

\* The rows of S take status v, the others keep theirs.
Become(S, v) == [j \in Job |-> IF j \in S THEN v ELSE status[j]]

\* The handler leaves the statuses `mid` and its pass starts some queued rows.
ThenStart(mid) ==
  \E picks \in SUBSET {j \in Job : mid[j] = "queued"} :
    status' = [j \in Job |-> IF j \in picks THEN "downloading" ELSE mid[j]]

\* A client or the retry sweep asks for rows: only rows with no active or
\* completed run behind them are (re)queued.
Request(S) ==
  /\ S \subseteq With({"absent", "failed", "cancelled"})
  /\ ThenStart(Become(S, "queued"))

\* A run ends; a row can only be completed or failed by a run.
Finish(j, outcome) ==
  /\ status[j] = "downloading"
  /\ outcome \in Finished
  /\ status' = Become({j}, outcome)

\* Queued rows leave the queue without running: cancelled one by one, or
\* deleted together.
Withdraw(S, v) ==
  /\ S \subseteq With({"queued"})
  /\ v \in {"cancelled", "absent"}
  /\ status' = Become(S, v)

\* Finished rows are removed from the history.
Forget(S) ==
  /\ S \subseteq With(Finished)
  /\ status' = Become(S, "absent")

\* The server restarts: interrupted runs go back to the queue and old
\* history is dropped.
Restart(S) ==
  /\ S \subseteq With(Finished)
  /\ status' = [j \in Job |-> CASE j \in S -> "absent"
                                [] status[j] = "downloading" -> "queued"
                                [] OTHER -> status[j]]

Next ==
  \E S \in SUBSET Job :
    \/ Request(S)
    \/ \E v \in {"cancelled", "absent"} : Withdraw(S, v)
    \/ Forget(S)
    \/ Restart(S)
    \/ \E j \in Job, outcome \in Finished : Finish(j, outcome)

Spec == Init /\ [][Next]_status

=============================================================================
