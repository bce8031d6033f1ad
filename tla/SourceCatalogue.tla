-------------------------- MODULE SourceCatalogue --------------------------
(***************************************************************************)
(* Which sources the server offers.  SourceRegistry (core/src/sources/     *)
(* registry.ts) holds the native connectors, which the sources pack may    *)
(* give other sites, and every legacy connector whose site no native one   *)
(* covers; the pack is fetched, written and applied without a restart by   *)
(* syncSourcesPack() of sources/pack-updater.ts.                           *)
(*                                                                         *)
(* Packs are numbered in the order they are published; 0 is no pack.       *)
(***************************************************************************)
EXTENDS Naturals

CONSTANTS
  Native, Legacy,   \* ids of the native and of the legacy connectors
  Host, NoHost,     \* sites; an unusable url
  SameSite,         \* pairs of hosts of the same site
  MaxVersion,       \* bound on the packs published
  NativeHost,       \* where a pack says the native connectors are
  LegacyHost,
  Faults,           \* what may go wrong: "network", "disk", "crash", "delete"
  Budget            \* bound on how often it does

Version == 0..MaxVersion

ASSUME ConstantsOK ==
  /\ MaxVersion \in Nat \ {0} /\ Budget \in Nat
  /\ SameSite \subseteq Host \X Host
  /\ NativeHost \in [Version -> [Native -> Host]]
  /\ LegacyHost \in [Legacy -> Host \cup {NoHost}] /\ NoHost \notin Host
  /\ Faults \subseteq {"network", "disk", "crash", "delete"}

VARIABLES
  upstream,   \* the pack that is published
  file,       \* sources-overrides.json: the pack it holds
  record,     \* the version in the kv store
  up,         \* the process runs
  overrides,  \* the pack in memory
  built,      \* the pack the native connectors were made with
  served,     \* the legacy connectors among the adapters
  shadowed,   \* those kept aside
  pack,       \* where the update is; "idle" stands for running = false
  applied,    \* the version it read before the request
  faults      \* how much of the budget is used

disk == <<file, record>>
registry == <<built, served, shadowed>>
vars == <<upstream, disk, up, overrides, registry, pack, applied, faults>>
-----------------------------------------------------------------------------
(* The registry                                                             *)

NativeSites(v) == {NativeHost[v][n] : n \in Native}

\* stillShadowed(): its site is one of these hosts.
Clash(l, hosts) ==
  LegacyHost[l] # NoHost /\ \E h \in hosts : <<h, LegacyHost[l]>> \in SameSite

\* _load(): the legacy connectors beside freshly made native ones.
Admitted(v) == {l \in Legacy \ Native : ~Clash(l, NativeSites(v))}

\* The hosts reloadNatives() compares with: those of every adapter, legacy ones
\* included.  A mutant leaves out the native ones.
AdapterSites(v, S) == NativeSites(v) \cup ({LegacyHost[l] : l \in S} \ {NoHost})
LegacySites(v, S) == {LegacyHost[l] : l \in S} \ {NoHost}
Compared(v, S) == AdapterSites(v, S)

\* reloadNatives(): adapters that clash are put aside, and those aside that do
\* not come back unless their id is taken.
ReloadNatives(v) ==
  LET hosts == Compared(v, served)
      out == {l \in served : Clash(l, hosts)}
      aside == shadowed \cup out
      kept == served \ out
      back == {l \in aside : ~Clash(l, hosts) /\ l \notin Native \cup kept}
  IN  /\ built' = v
      /\ served' = kept \cup back
      /\ shadowed' = aside \ back
-----------------------------------------------------------------------------
(* The process                                                              *)

\* createEngine() and the first use of the registry.
Boot ==
  /\ ~up
  /\ up' = TRUE
  /\ overrides' = file /\ built' = file
  /\ served' = Admitted(file) /\ shadowed' = Legacy \ Admitted(file)
  /\ UNCHANGED <<upstream, disk, pack, applied, faults>>

Spend(kind) ==
  /\ kind \in Faults /\ faults < Budget
  /\ faults' = faults + 1

\* The process is killed or stopped.
Die ==
  /\ up /\ Spend("crash")
  /\ up' = FALSE
  /\ pack' = "idle"
  /\ UNCHANGED <<upstream, disk, overrides, registry, applied>>

\* Somebody deletes the file from the data directory.
Delete ==
  /\ Spend("delete")
  /\ file' = 0
  /\ UNCHANGED <<upstream, record, up, overrides, registry, pack, applied>>
-----------------------------------------------------------------------------
(* The pack                                                                 *)

Publish ==
  /\ upstream < MaxVersion
  /\ upstream' = upstream + 1
  /\ UNCHANGED <<disk, up, overrides, registry, pack, applied, faults>>

\* syncSourcesPack(), from the daily poll or the route; a second one is refused.
Ask ==
  /\ up /\ pack = "idle"
  /\ pack' = "fetching" /\ applied' = record
  /\ UNCHANGED <<upstream, disk, up, overrides, registry, faults>>

\* No answer in time, an error status or an invalid pack; or the file cannot be
\* written.
FetchFails ==
  /\ pack = "fetching"
  /\ Spend("network") \/ Spend("disk")
  /\ pack' = "idle"
  /\ UNCHANGED <<upstream, disk, up, overrides, registry, applied>>

\* Another version, or overridesFileReadable() says no; a mutant looks at the
\* versions only.
Another == upstream # applied
Wanted == upstream # applied \/ file = 0

\* The answer: nothing to do, or the file is replaced and read again.
Fetched ==
  /\ pack = "fetching"
  /\ IF Wanted
       THEN pack' = "recording" /\ file' = upstream /\ overrides' = upstream
       ELSE pack' = "idle" /\ UNCHANGED <<file, overrides>>
  /\ UNCHANGED <<upstream, record, up, registry, applied, faults>>

\* kvSet(), and the caller re-creates the native connectors.
Applied ==
  /\ pack = "recording"
  /\ pack' = "idle"
  /\ record' = overrides
  /\ ReloadNatives(overrides)
  /\ UNCHANGED <<upstream, file, up, overrides, applied, faults>>

\* kvSet() fails: the new overrides are in memory, the connectors are not made.
RecordFails ==
  /\ pack = "recording" /\ Spend("disk")
  /\ pack' = "idle"
  /\ UNCHANGED <<upstream, disk, up, overrides, registry, applied>>
-----------------------------------------------------------------------------
Init ==
  /\ upstream = 1 /\ file = 0 /\ record = 0
  /\ up = FALSE /\ overrides = 0 /\ built = 0
  /\ served = {} /\ shadowed = Legacy
  /\ pack = "idle" /\ applied = 0 /\ faults = 0

Next ==
  \/ Boot \/ Die \/ Delete \/ Publish
  \/ Ask \/ FetchFails \/ Fetched \/ Applied \/ RecordFails

Spec == Init /\ [][Next]_vars

(***************************************************************************)
(* Fairness.  The container is restarted, the poll runs every day, its     *)
(* request is answered or given up after 30 seconds, and what follows the  *)
(* answer is synchronous.                                                  *)
(***************************************************************************)
Fairness ==
  /\ WF_vars(Boot) /\ WF_vars(Ask)
  /\ WF_vars(Fetched \/ FetchFails) /\ WF_vars(Applied \/ RecordFails)

FairSpec == Spec /\ Fairness
-----------------------------------------------------------------------------
(* Properties                                                               *)

\* Every variable has its type.
TypeOK ==
  /\ upstream \in Version \ {0} /\ {file, record, overrides, built, applied} \subseteq Version
  /\ up \in BOOLEAN
  /\ served \subseteq Legacy /\ shadowed \subseteq Legacy
  /\ pack \in {"idle", "fetching", "recording"}
  /\ faults \in 0..Budget

\* No legacy connector is lost or held twice.
LegacyAccounted == served \cap shadowed = {} /\ served \cup shadowed = Legacy

\* "A site we curate natively stays ours" (registry.ts:5-8), wherever the packs
\* move the native connectors.
CuratedSitesStayOurs ==
  up => \A l \in served : l \notin Native /\ ~Clash(l, NativeSites(built))

\* The native connectors end up where the published pack says, after any two
\* failures; packs are published in order.  A third one may strand them: the
\* file is deleted, the process restarts, and the version the file is written
\* again for cannot be recorded, which it already is.
PackReached == <>[](up /\ built = upstream)

\* A legacy connector is "skipped when its id is already taken by a native
\* connector, but also when it points at the same site" (registry.ts:5-8), and
\* not otherwise: it comes "then every legacy Hakuneko connector".
OnlyCuratedSitesMissing ==
  up => \A l \in Legacy \ served : l \in Native \/ Clash(l, NativeSites(built))
=============================================================================
