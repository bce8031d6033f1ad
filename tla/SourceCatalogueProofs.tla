----------------------- MODULE SourceCatalogueProofs -----------------------
(***************************************************************************)
(* Proofs about SourceCatalogue: a reload of the native connectors neither *)
(* loses a legacy one nor offers one beside a native connector of its site, *)
(* and the update only finds nothing to do when there is nothing to do.    *)
(***************************************************************************)
EXTENDS SourceCatalogue, TLAPS

\* Only a running process has an update under way, and the legacy connectors
\* offered are none of the native ones and clash with none of them.
Offered(S, v) == \A l \in S : l \notin Native /\ ~Clash(l, NativeSites(v))

Inv ==
  /\ TypeOK /\ LegacyAccounted
  /\ pack # "idle" => up
  /\ up => Offered(served, built)

LEMMA Start == Init => Inv
<1> SUFFICES ASSUME Init PROVE Inv
  OBVIOUS
<1>1. 0 \in Version /\ 1 \in Version \ {0} /\ 0 \in 0..Budget
  BY ConstantsOK DEF Version
<1>2. TypeOK
  BY <1>1 DEF Init, TypeOK
<1> QED BY <1>2 DEF Init, Inv, LegacyAccounted

\* More hosts to compare with only make more connectors clash.
LEMMA ClashGrows ==
  ASSUME NEW l \in Legacy, NEW H, NEW G, H \subseteq G, Clash(l, H)
  PROVE  Clash(l, G)
BY DEF Clash

\* _load() divides the legacy connectors.
LEMMA AdmittedIs ==
  ASSUME NEW v
  PROVE  /\ Admitted(v) \subseteq Legacy
         /\ Offered(Admitted(v), v)
BY DEF Admitted, Offered

\* reloadNatives() divides them anew, without offering one that clashes.
LEMMA ReloadIs ==
  ASSUME Inv, up, NEW v \in Version, ReloadNatives(v)
  PROVE  /\ built' = v /\ served' \subseteq Legacy /\ shadowed' \subseteq Legacy
         /\ LegacyAccounted'
         /\ Offered(served', v)
<1> DEFINE hosts == Compared(v, served)
           out == {l \in served : Clash(l, hosts)}
           aside == shadowed \cup out
           kept == served \ out
           back == {l \in aside : ~Clash(l, hosts) /\ l \notin Native \cup kept}
<1>1. built' = v /\ served' = kept \cup back /\ shadowed' = aside \ back
  BY DEF ReloadNatives
<1>2. /\ served \subseteq Legacy /\ shadowed \subseteq Legacy
      /\ served \cap shadowed = {} /\ served \cup shadowed = Legacy
      /\ \A l \in served : l \notin Native
  BY DEF Inv, TypeOK, LegacyAccounted, Offered
<1>3. NativeSites(v) \subseteq hosts
  BY DEF Compared, AdapterSites
<1> HIDE DEF hosts
<1>4. \A l \in served' : l \in Legacy /\ l \notin Native /\ ~Clash(l, hosts)
  BY <1>1, <1>2
<1>5. Offered(served', v)
  BY <1>3, <1>4, ClashGrows DEF Offered
<1>6. /\ served' \subseteq Legacy /\ shadowed' \subseteq Legacy
      /\ served' \cap shadowed' = {} /\ served' \cup shadowed' = Legacy
  BY <1>1, <1>2
<1> QED BY <1>1, <1>5, <1>6 DEF LegacyAccounted

LEMMA Preserved == Inv /\ [Next]_vars => Inv'
<1> SUFFICES ASSUME Inv, [Next]_vars PROVE Inv'
  OBVIOUS
<1>1. CASE Boot
  <2>1. /\ up' = TRUE /\ overrides' = file /\ built' = file
        /\ served' = Admitted(file) /\ shadowed' = Legacy \ Admitted(file)
        /\ UNCHANGED <<upstream, file, record, pack, applied, faults>>
    BY <1>1 DEF Boot, disk
  <2>2. /\ served' \subseteq Legacy /\ Offered(served', built')
    BY <2>1, AdmittedIs
  <2>3. LegacyAccounted' /\ shadowed' \subseteq Legacy
    BY <2>1, <2>2 DEF LegacyAccounted
  <2>4. TypeOK'
    BY <2>1, <2>2, <2>3 DEF Inv, TypeOK
  <2>5. Offered(served, built)'
    BY <2>2 DEF Offered
  <2> QED BY <2>1, <2>3, <2>4, <2>5 DEF Inv
<1>2. CASE Applied
  <2>1. /\ up /\ overrides \in Version /\ ReloadNatives(overrides) /\ pack' = "idle"
        /\ record' = overrides
        /\ UNCHANGED <<upstream, file, up, overrides, applied, faults>>
    BY <1>2 DEF Applied, Inv, TypeOK
  <2>2. /\ built' = overrides /\ served' \subseteq Legacy /\ shadowed' \subseteq Legacy
        /\ LegacyAccounted' /\ Offered(served', overrides)
    BY <2>1, ReloadIs
  <2>3. TypeOK'
    BY <2>1, <2>2 DEF Inv, TypeOK
  <2>4. Offered(served, built)'
    BY <2>2 DEF Offered
  <2> QED BY <2>1, <2>2, <2>3, <2>4 DEF Inv
<1>3. CASE Die \/ Delete \/ Publish \/ Ask \/ FetchFails \/ Fetched \/ RecordFails \/ UNCHANGED vars
  <2>1. UNCHANGED registry
    BY <1>3 DEF Die, Delete, Publish, Ask, FetchFails, Fetched, RecordFails, vars
  <2>2. up' => up
    BY <1>3 DEF Die, Delete, Publish, Ask, FetchFails, Fetched, RecordFails, vars
  <2>3. LegacyAccounted' /\ (up' => Offered(served, built)')
    BY <2>1, <2>2 DEF Inv, LegacyAccounted, Offered, registry
  <2>4. pack' # "idle" => up'
    BY <1>3 DEF Inv, Die, Delete, Publish, Ask, FetchFails, Fetched, RecordFails, vars
  <2>5. faults' \in 0..Budget
    BY <1>3, ConstantsOK
    DEF Inv, TypeOK, Die, Delete, Publish, Ask, FetchFails, Fetched, RecordFails, Spend, vars
  <2>6. upstream' \in Version \ {0}
    BY <1>3, ConstantsOK
    DEF Inv, TypeOK, Version, Die, Delete, Publish, Ask, FetchFails, Fetched, RecordFails, vars
  <2>7. /\ {file', record', overrides', applied'} \subseteq Version
        /\ up' \in BOOLEAN /\ pack' \in {"idle", "fetching", "recording"}
    <3>1. 0 \in Version /\ TypeOK
      BY ConstantsOK DEF Version, Inv
    <3>2. CASE Fetched
      BY <3>1, <3>2 DEF TypeOK, Fetched, disk
    <3>3. CASE Delete \/ Ask
      BY <3>1, <3>3 DEF TypeOK, Delete, Ask, disk
    <3>4. CASE Die \/ Publish \/ FetchFails \/ RecordFails \/ UNCHANGED vars
      BY <3>1, <3>4 DEF TypeOK, Die, Publish, FetchFails, RecordFails, vars, disk
    <3> QED BY <1>3, <3>2, <3>3, <3>4
  <2>8. TypeOK'
    BY <2>1, <2>5, <2>6, <2>7 DEF Inv, TypeOK, registry
  <2> QED BY <2>3, <2>4, <2>8 DEF Inv
<1> QED BY <1>1, <1>2, <1>3 DEF Next

\* The registry stays coherent through every reload.
THEOREM RegistryInvariant == Spec => []Inv
<1>1. Init => Inv
  BY Start
<1>2. Inv /\ [Next]_vars => Inv'
  BY Preserved
<1> QED BY <1>1, <1>2, PTL DEF Spec

\* Every variable has its type and every legacy connector is in one place.
THEOREM TypeCorrect == Spec => [](TypeOK /\ LegacyAccounted)
<1>1. Inv => TypeOK /\ LegacyAccounted
  BY DEF Inv
<1> QED BY <1>1, RegistryInvariant, PTL

\* A site of a native connector is offered by no legacy one.
THEOREM CuratedSites == Spec => []CuratedSitesStayOurs
<1>1. Inv => CuratedSitesStayOurs
  BY DEF Inv, Offered, CuratedSitesStayOurs
<1> QED BY <1>1, RegistryInvariant, PTL
-----------------------------------------------------------------------------
(* The update                                                               *)

\* The update declines an answer only when the native connectors already are
\* where the published pack says.
PollMissesNone == [][Fetched /\ ~Wanted => built = upstream]_vars

\* At least n failures are used, of kinds among which these are.
Spent(K, n) == K \subseteq Faults /\ n <= faults

\* How the file, the recorded version and what was made of them may differ, and
\* what it takes: the file falls behind the record by being deleted, a process
\* falls behind it by starting without the file, and stays behind with the file
\* in place only when the version could not be recorded again.
FileFollows ==
  /\ {file, record, overrides, built} \subseteq 0..upstream
  /\ pack # "idle" => up /\ applied = record
  /\ up => file = overrides \/ (file = 0 /\ Spent({"delete"}, 1))
  /\ record > file => file = 0 /\ Spent({"delete"}, 1)
  /\ ~up /\ record > 0 => Spent({"crash"}, 1)
  /\ ~up /\ record > file => Spent({"crash", "delete"}, 2)
  /\ up /\ built < record => Spent({"crash", "delete"}, 2)
  /\ up /\ built < record /\ file # 0 /\ pack # "recording" => Spent({"crash", "delete", "disk"}, 3)

LEMMA NumbersAre ==
  ASSUME Inv
  PROVE  /\ upstream \in Nat \ {0} /\ file \in Nat /\ record \in Nat /\ overrides \in Nat
         /\ built \in Nat /\ applied \in Nat /\ faults \in Nat /\ up \in BOOLEAN
BY ConstantsOK DEF Inv, TypeOK, Version

LEMMA FollowsPreserved == Inv /\ FileFollows /\ [Next]_vars => FileFollows'
<1> SUFFICES ASSUME Inv, FileFollows, [Next]_vars PROVE FileFollows'
  OBVIOUS
<1>0. /\ upstream \in Nat \ {0} /\ file \in Nat /\ record \in Nat /\ overrides \in Nat
      /\ built \in Nat /\ applied \in Nat /\ faults \in Nat
  BY NumbersAre
<1> USE <1>0 DEF FileFollows, Spent
<1>1. CASE Boot
  BY <1>1 DEF Boot, disk
<1>2. CASE Die
  BY <1>2 DEF Die, Spend, disk, registry
<1>3. CASE Delete
  BY <1>3 DEF Delete, Spend, registry
<1>4. CASE Publish
  BY <1>4 DEF Publish, disk, registry
<1>5. CASE Ask
  BY <1>5 DEF Ask, disk, registry
<1>6. CASE FetchFails
  BY <1>6 DEF FetchFails, Spend, disk, registry
<1>7. CASE Fetched
  BY <1>7 DEF Fetched, Wanted, registry
<1>8. CASE Applied
  BY <1>8 DEF Applied, ReloadNatives
<1>9. CASE RecordFails
  BY <1>9 DEF RecordFails, Spend, disk, registry
<1>10. CASE UNCHANGED vars
  BY <1>10 DEF vars, disk, registry
<1> QED BY <1>1, <1>2, <1>3, <1>4, <1>5, <1>6, <1>7, <1>8, <1>9, <1>10 DEF Next

\* Unless the file is deleted, the process restarted and the version not recorded,
\* the daily update never says "nothing to do" while the native connectors are
\* elsewhere than the published pack has them (pack-updater.ts:67-95): what
\* PackReached rests on.
THEOREM UpdatesAreNotMissed ==
  ASSUME Budget <= 2 \/ ~({"crash", "delete", "disk"} \subseteq Faults)
  PROVE  Spec => PollMissesNone
<1>1. Init => FileFollows
  BY DEF Init, FileFollows
<1>2. Inv /\ FileFollows /\ [Next]_vars => [Fetched /\ ~Wanted => built = upstream]_vars
  <2> SUFFICES ASSUME Inv, FileFollows, Fetched, ~Wanted PROVE built = upstream
    OBVIOUS
  <2>1. up /\ upstream = record /\ file # 0 /\ pack = "fetching"
    BY DEF FileFollows, Fetched, Wanted
  <2>2. faults <= Budget /\ Budget \in Nat /\ faults \in Nat
    BY ConstantsOK DEF Inv, TypeOK
  <2>3. ~Spent({"crash", "delete", "disk"}, 3)
    BY <2>2 DEF Spent
  <2>4. ~(built < record)
    BY <2>1, <2>3 DEF FileFollows
  <2>5. built <= upstream
    BY NumbersAre DEF FileFollows
  <2> QED BY <2>1, <2>4, <2>5, NumbersAre
<1> QED BY <1>1, <1>2, FollowsPreserved, RegistryInvariant, PTL DEF Spec, PollMissesNone
=============================================================================
