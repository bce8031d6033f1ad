---------------------------- MODULE SourceUpdate ----------------------------
(***************************************************************************)
(* The synced copy of the legacy connectors: syncConnectors() of           *)
(* sources/updater.ts replaces it on disk, createEngine() and              *)
(* loadConnectors() of core/src/engine.ts read it at the next start.       *)
(*                                                                         *)
(* The replacement is one synchronous stretch of code after the await of   *)
(* the clone, so nothing of the program runs between its steps, but every  *)
(* file operation may fail and the process may die inside any of them.     *)
(*                                                                         *)
(* The content of a file is named by what wrote it: an upstream commit, or *)
(* an image of the server for the connectors it bundles.                   *)
(***************************************************************************)
EXTENDS Naturals, FiniteSets

CONSTANTS
  File,            \* names of connectors
  Patched,         \* CONNECTOR_OVERRIDES
  Image,           \* images of the server that may be deployed
  Bundle,          \* the connectors each image bundles
  Commit,          \* commits of the upstream repository
  Pin,             \* the commit each image is pinned to (CONNECTORS_COMMIT)
  Tree,            \* the connectors of each commit
  MinConnectors,   \* MIN_CONNECTORS
  Nothing, Torn,   \* no file; a file cut short
  Faults,          \* what may go wrong: "disk", "crash", "upgrade"
  Budget           \* bound on how often it does

ASSUME ConstantsOK ==
  /\ Bundle \in [Image -> SUBSET File] /\ \A i \in Image : Patched \subseteq Bundle[i]
  /\ Pin \in [Image -> Commit] /\ Tree \in [Commit -> SUBSET File]
  /\ MinConnectors \in Nat /\ Budget \in Nat
  /\ Image \cap Commit = {} /\ Nothing # Torn
  /\ {Nothing, Torn} \cap (Image \cup Commit) = {}
  /\ Faults \subseteq {"disk", "crash", "upgrade"}

VARIABLES
  vendor,     \* <data>/vendor: its connectors, engine and manifest
  backup,     \* <data>/vendor.bak
  record,     \* the commit in the kv store
  image,      \* the deployed image
  up,         \* the process runs
  loaded,     \* the content each connector was imported with
  step,       \* where the sync is; "idle" stands for running = false
  commit,     \* the commit it cloned
  found,      \* history: the tree it started from
  exiting,    \* a restart is due
  faults      \* how much of the budget is used

disk == <<vendor, backup, record>>
sync == <<step, commit, found>>
vars == <<disk, image, up, loaded, sync, exiting, faults>>
-----------------------------------------------------------------------------
(* Trees                                                                    *)

Content == Image \cup Commit \cup {Nothing, Torn}

\* A manifest gives each connector the content it was written with; a tree
\* without one, or with one cut short, has Nothing.
Trees ==
  [files : [File -> Content], engine : Content, manifest : [File -> Content] \cup {Nothing}]

NoTree == [files |-> [f \in File |-> Nothing], engine |-> Nothing, manifest |-> Nothing]

\* The built-in vendor directory: no manifest.
BuiltIn ==
  [files |-> [f \in File |-> IF f \in Bundle[image] THEN image ELSE Nothing],
   engine |-> image, manifest |-> Nothing]

\* The connectors `which` written over those of a tree, and what a copy leaves
\* that stopped on the way: some of them, and perhaps a torn one.
Written(t, which, content) ==
  [t EXCEPT !.files = [f \in File |-> IF f \in which THEN content ELSE @[f]]]
CutShort(t, which, content) ==
  LET copied(S) == Written(t, S, content)
  IN  UNION {{copied(S)} \cup {Written(copied(S), {f}, Torn) : f \in which \ S} : S \in SUBSET which}

\* What a complete sync of a commit by an image leaves.
Synced(c, i) ==
  LET files == [f \in File |-> IF f \in Patched THEN i ELSE IF f \in Tree[c] THEN c ELSE Nothing]
  IN  [files |-> files, engine |-> c, manifest |-> files]

Present(t) == {f \in File : t.files[f] # Nothing}
-----------------------------------------------------------------------------
(* Start of the process                                                     *)

\* directoryHasConnectors(): the synced copy shadows the built-in directory.
Shadows == Present(vendor) # {}

\* The self-healing of createEngine(): the files change, the manifest does not.
Healed == IF Shadows THEN Written(vendor, Patched, image) ELSE vendor

\* manifestMatches(): unlisted or changed connectors are refused, none is
\* without a manifest.
Accepted(t) ==
  {f \in Present(t) : t.manifest # Nothing => t.manifest[f] = t.files[f]}

\* Connectors import the engine beside them; an import of something cut short
\* may fail.
Importable(t) == IF t.engine = Nothing THEN {} ELSE Accepted(t)
Sound(t) == IF t.engine = Torn THEN {} ELSE {f \in Importable(t) : t.files[f] # Torn}

\* createEngine(), loadConnectors()
Boot ==
  /\ ~up
  /\ vendor' = Healed
  /\ LET t == IF Shadows THEN Healed ELSE BuiltIn
     IN  \E S \in SUBSET Importable(t) :
           /\ Sound(t) \subseteq S
           /\ loaded' = [f \in File |-> IF f \in S THEN t.files[f] ELSE Nothing]
  /\ up' = TRUE
  /\ UNCHANGED <<backup, record, image, sync, exiting, faults>>

\* It dies while it heals.
DieBooting ==
  /\ ~up /\ Shadows
  /\ "crash" \in Faults /\ faults < Budget
  /\ vendor' \in CutShort(vendor, Patched, image)
  /\ faults' = faults + 1
  /\ UNCHANGED <<backup, record, image, up, loaded, sync, exiting>>

\* Another image is deployed.
Upgrade(i) ==
  /\ ~up
  /\ "upgrade" \in Faults /\ faults < Budget
  /\ image' = i
  /\ faults' = faults + 1
  /\ UNCHANGED <<disk, up, loaded, sync, exiting>>
-----------------------------------------------------------------------------
(* The sync                                                                 *)

Goto(s) == step' = s /\ UNCHANGED <<commit, found>>

\* POST /api/sources/update.  A second request is refused while it runs.
Request ==
  /\ up /\ step = "idle"
  /\ step' = "cloning" /\ found' = vendor
  /\ UNCHANGED <<disk, image, up, loaded, commit, exiting, faults>>

\* validateTree()
Plausible(files) == Cardinality(files) >= MinConnectors

\* The clone is there and validated, or it is refused.
Cloned ==
  /\ step = "cloning"
  /\ commit' = Pin[image]
  /\ step' = IF Plausible(Tree[Pin[image]]) THEN "clearing" ELSE "idle"
  /\ UNCHANGED <<disk, image, up, loaded, found, exiting, faults>>

\* Git or the network fails.
CloneFails ==
  /\ step = "cloning"
  /\ Goto("idle")
  /\ UNCHANGED <<disk, image, up, loaded, exiting, faults>>

\* The left-over backup is removed.
Clear ==
  /\ step = "clearing" /\ Goto("moving")
  /\ backup' = NoTree
  /\ UNCHANGED <<vendor, record, image, up, loaded, exiting, faults>>

\* The previous copy is renamed; a mutant copies it instead.
Kept == vendor
Moved == NoTree
Move ==
  /\ step = "moving" /\ Goto("connectors")
  /\ backup' = vendor /\ vendor' = Moved
  /\ UNCHANGED <<record, image, up, loaded, exiting, faults>>

\* The upstream connectors are copied; a mutant lists them at once.
Listed(t) == [t EXCEPT !.manifest = t.files]
Unlisted(t) == t
CopyConnectors ==
  /\ step = "connectors" /\ Goto("engine")
  /\ vendor' = Unlisted(Written(vendor, Tree[commit], commit))
  /\ UNCHANGED <<backup, record, image, up, loaded, exiting, faults>>

CopyEngine ==
  /\ step = "engine" /\ Goto("patches")
  /\ vendor' = [vendor EXCEPT !.engine = commit]
  /\ UNCHANGED <<backup, record, image, up, loaded, exiting, faults>>

CopyPatches ==
  /\ step = "patches" /\ Goto("manifest")
  /\ vendor' = Written(vendor, Patched, image)
  /\ UNCHANGED <<backup, record, image, up, loaded, exiting, faults>>

\* The new tree is validated and its manifest written.
WriteManifest ==
  /\ step = "manifest"
  /\ IF Plausible(Present(vendor))
       THEN Goto("discarding") /\ vendor' = [vendor EXCEPT !.manifest = vendor.files]
       ELSE Goto("removing") /\ vendor' = vendor
  /\ UNCHANGED <<backup, record, image, up, loaded, exiting, faults>>

Discard ==
  /\ step = "discarding" /\ Goto("recording")
  /\ backup' = NoTree
  /\ UNCHANGED <<vendor, record, image, up, loaded, exiting, faults>>

\* kvSet(), and the route restarts the process when the commit is another one.
Record ==
  /\ step = "recording" /\ Goto("idle")
  /\ record' = commit
  /\ exiting' = (exiting \/ commit # record)
  /\ UNCHANGED <<vendor, backup, image, up, loaded, faults>>

\* The way back: the new tree is removed, then the previous one renamed.
Remove ==
  /\ step = "removing" /\ Goto("restoring")
  /\ vendor' = NoTree
  /\ UNCHANGED <<backup, record, image, up, loaded, exiting, faults>>

\* A mutant forgets the previous copy.
Unrestored == NoTree
Restored == backup
Restore ==
  /\ step = "restoring" /\ Goto("idle")
  /\ vendor' = Restored /\ backup' = NoTree
  /\ UNCHANGED <<record, image, up, loaded, exiting, faults>>
-----------------------------------------------------------------------------
(* Failures                                                                 *)

\* What a step that stops on the way leaves of the tree.  A manifest cut short
\* is no manifest; what is left of a backup is never read.
Remains ==
  CASE step = "connectors" -> CutShort(vendor, Tree[commit], commit)
    [] step = "engine"     -> {vendor, [vendor EXCEPT !.engine = Torn]}
    [] step = "patches"    -> CutShort(vendor, Patched, image)
    [] step = "removing"   ->
         {[Written(vendor, S, Nothing) EXCEPT !.engine = e] :
            S \in SUBSET File, e \in {vendor.engine, Torn, Nothing}}
    [] OTHER -> {vendor}

InTry == {"connectors", "engine", "patches", "manifest"}
Outside == {"clearing", "moving", "discarding", "recording"}

\* A file operation or the record of the sync fails (disk full): inside the
\* inner try the previous copy is brought back, elsewhere the sync ends there.
Fail ==
  /\ step \in InTry \cup Outside
  /\ "disk" \in Faults /\ faults < Budget
  /\ vendor' \in Remains
  /\ Goto(IF step \in InTry THEN "removing" ELSE "idle")
  /\ faults' = faults + 1
  /\ UNCHANGED <<backup, record, image, up, loaded, exiting>>

\* Nothing of the process is left.
Stop ==
  /\ up' = FALSE
  /\ exiting' = FALSE
  /\ loaded' = [f \in File |-> Nothing]
  /\ Goto("idle")
  /\ UNCHANGED <<backup, record, image>>

\* The timer of the route: it fires between two steps of the program only.
Exit ==
  /\ up /\ exiting /\ step \in {"idle", "cloning"}
  /\ Stop
  /\ UNCHANGED <<vendor, faults>>

\* The process is killed or stopped.
Die ==
  /\ up
  /\ "crash" \in Faults /\ faults < Budget
  /\ vendor' \in Remains
  /\ faults' = faults + 1
  /\ Stop
-----------------------------------------------------------------------------
Init ==
  /\ vendor = NoTree /\ backup = NoTree /\ record = Nothing
  /\ image \in Image /\ up = FALSE
  /\ loaded = [f \in File |-> Nothing]
  /\ step = "idle" /\ commit = Nothing /\ found = NoTree
  /\ exiting = FALSE /\ faults = 0

Steps ==
  \/ Request \/ Cloned \/ CloneFails
  \/ Clear \/ Move \/ CopyConnectors \/ CopyEngine \/ CopyPatches \/ WriteManifest
  \/ Discard \/ Record \/ Remove \/ Restore

Next ==
  \/ Boot \/ DieBooting \/ \E i \in Image : Upgrade(i)
  \/ Steps
  \/ Fail \/ Exit \/ Die

Spec == Init /\ [][Next]_vars
-----------------------------------------------------------------------------
(* Properties                                                               *)

StepName ==
  {"idle", "cloning", "removing", "restoring"} \cup InTry \cup Outside

\* Every variable has its type.
TypeOK ==
  /\ vendor \in Trees /\ backup \in Trees /\ found \in Trees
  /\ record \in Commit \cup {Nothing} /\ commit \in Commit \cup {Nothing}
  /\ image \in Image /\ loaded \in [File -> Content]
  /\ up \in BOOLEAN /\ exiting \in BOOLEAN
  /\ step \in StepName /\ faults \in 0..Budget

\* A manifest vouches for a whole tree of one commit (updater.ts:56-57): its
\* engine is there and only the patched connectors, which every start copies
\* again, may differ from it.
Vouches(t) ==
  \E c \in Commit, i \in Image :
    /\ t.engine = c /\ t.manifest = Synced(c, i).manifest
    /\ \A f \in File \ Patched : t.files[f] = t.manifest[f]
ManifestVouches == vendor.manifest # Nothing => Vouches(vendor)

\* The server never runs connectors of two commits at once, whatever a sync or
\* a start left behind when it was interrupted.
LoadedFromOneCommit ==
  \A f, g \in File : {loaded[f], loaded[g]} \subseteq Commit => loaded[f] = loaded[g]

\* A sync that ends, well or not, leaves the tree it found or a complete new
\* one (updater.ts:92-121).
EndsWhole ==
  step # "idle" /\ step' = "idle" /\ up' /\ vendor' # found =>
    commit \in Commit /\ vendor' = Synced(commit, image)
AllOrNothing == [][EndsWhole]_vars
=============================================================================
