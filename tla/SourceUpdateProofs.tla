------------------------- MODULE SourceUpdateProofs -------------------------
(***************************************************************************)
(* Proofs about SourceUpdate: whatever is interrupted and whatever fails,  *)
(* the synced copy on disk is of one commit, and a manifest is only found  *)
(* in a complete one.                                                      *)
(***************************************************************************)
EXTENDS SourceUpdate, TLAPS

\* The connectors a tree has of upstream are of one commit.
OneCommit(files) ==
  \A f, g \in File : files[f] \in Commit /\ files[g] \in Commit => files[f] = files[g]

Coherent(t) ==
  /\ t \in Trees
  /\ OneCommit(t.files)
  /\ t.manifest # Nothing => Vouches(t)

\* What the steps of the sync find: a commit, the tree they started from, and
\* the new one as far as it is written.
Progress ==
  /\ step # "idle" => up
  /\ step \notin {"idle", "cloning"} => commit \in Commit
  /\ step \in {"cloning", "clearing", "moving"} => vendor = found
  /\ step \in InTry \cup {"removing", "restoring"} => backup = found
  /\ step = "connectors" => vendor = NoTree
  /\ step = "engine" => vendor = Written(NoTree, Tree[commit], commit)
  /\ step = "patches" =>
       vendor = [Written(NoTree, Tree[commit], commit) EXCEPT !.engine = commit]
  /\ step = "manifest" => vendor = [Synced(commit, image) EXCEPT !.manifest = Nothing]
  /\ step \in {"discarding", "recording"} => vendor = Synced(commit, image)
  /\ step = "removing" => vendor.manifest = Nothing

Inv ==
  /\ TypeOK /\ Progress
  /\ Coherent(vendor) /\ Coherent(backup)
  /\ OneCommit(loaded)
-----------------------------------------------------------------------------
(* Trees                                                                    *)

LEMMA NoTreeCoherent == NoTree \in Trees /\ Coherent(NoTree)
BY ConstantsOK DEF NoTree, Trees, Content, Coherent, OneCommit

\* Writing changes the connectors named and nothing else of the tree.
LEMMA WrittenIs ==
  ASSUME NEW t \in Trees, NEW which \in SUBSET File, NEW content \in Content
  PROVE  /\ Written(t, which, content) \in Trees
         /\ Written(t, which, content).engine = t.engine
         /\ Written(t, which, content).manifest = t.manifest
         /\ \A f \in File : Written(t, which, content).files[f] =
              IF f \in which THEN content ELSE t.files[f]
BY DEF Trees, Written

LEMMA CutShortIs ==
  ASSUME NEW t \in Trees, NEW which \in SUBSET File, NEW content \in Content,
         NEW u \in CutShort(t, which, content)
  PROVE  /\ u \in Trees /\ u.engine = t.engine /\ u.manifest = t.manifest
         /\ \A f \in File : u.files[f] \in {t.files[f], content, Torn}
         /\ \A f \in File \ which : u.files[f] = t.files[f]
<1>1. PICK S \in SUBSET which :
        u = Written(t, S, content) \/ \E f \in which \ S : u = Written(Written(t, S, content), {f}, Torn)
  BY DEF CutShort
<1> DEFINE w == Written(t, S, content)
<1>2. /\ w \in Trees /\ w.engine = t.engine /\ w.manifest = t.manifest
      /\ \A f \in File : w.files[f] = IF f \in S THEN content ELSE t.files[f]
  BY WrittenIs
<1>3. CASE u = w
  BY <1>2, <1>3
<1>4. CASE \E f \in which \ S : u = Written(w, {f}, Torn)
  <2>1. PICK g \in which \ S : u = Written(w, {g}, Torn)
    BY <1>4
  <2> HIDE DEF w
  <2>2. /\ u \in Trees /\ u.engine = w.engine /\ u.manifest = w.manifest
        /\ \A f \in File : u.files[f] = IF f \in {g} THEN Torn ELSE w.files[f]
    BY <1>2, <2>1, WrittenIs DEF Content
  <2> QED BY <1>2, <2>2
<1> QED BY <1>1, <1>3, <1>4

LEMMA SyncedIs ==
  ASSUME NEW c \in Commit, NEW i \in Image
  PROVE  /\ Synced(c, i) \in Trees /\ Synced(c, i).engine = c
         /\ Synced(c, i).manifest = Synced(c, i).files
         /\ \A f \in File : Synced(c, i).files[f] =
              IF f \in Patched THEN i ELSE IF f \in Tree[c] THEN c ELSE Nothing
BY DEF Synced, Trees, Content

\* What the first copy leaves.
LEMMA CopiedIs ==
  ASSUME NEW c \in Commit
  PROVE  /\ Written(NoTree, Tree[c], c) \in Trees
         /\ Written(NoTree, Tree[c], c).engine = Nothing
         /\ Written(NoTree, Tree[c], c).manifest = Nothing
         /\ \A f \in File : Written(NoTree, Tree[c], c).files[f] =
              IF f \in Tree[c] THEN c ELSE Nothing
<1> DEFINE which == Tree[c]
<1>1. which \in SUBSET File /\ c \in Content /\ NoTree \in Trees
  BY NoTreeCoherent, ConstantsOK DEF Content
<1> HIDE DEF which
<1> DEFINE w == Written(NoTree, which, c)
<1>2. /\ w \in Trees /\ w.engine = NoTree.engine /\ w.manifest = NoTree.manifest
      /\ \A f \in File : w.files[f] = IF f \in which THEN c ELSE NoTree.files[f]
  BY <1>1, WrittenIs
<1> HIDE DEF w
<1>3. /\ w \in Trees /\ w.engine = Nothing /\ w.manifest = Nothing
      /\ \A f \in File : w.files[f] = IF f \in which THEN c ELSE Nothing
  BY <1>2 DEF NoTree
<1> QED BY <1>3 DEF w, which

\* A tree is its connectors, its engine and its manifest.
LEMMA SameTree ==
  ASSUME NEW t \in Trees, NEW u \in Trees,
         t.files = u.files, t.engine = u.engine, t.manifest = u.manifest
  PROVE  t = u
BY DEF Trees

LEMMA SyncedCoherent ==
  ASSUME NEW c \in Commit, NEW i \in Image
  PROVE  Coherent(Synced(c, i))
<1>1. OneCommit(Synced(c, i).files)
  BY SyncedIs, ConstantsOK DEF OneCommit
<1>2. Vouches(Synced(c, i))
  BY SyncedIs DEF Vouches
<1> QED BY <1>1, <1>2, SyncedIs DEF Coherent

\* Patching a coherent tree, wholly or in part, leaves it coherent.
LEMMA PatchedCoherent ==
  ASSUME NEW t, Coherent(t), NEW i \in Image,
         NEW u \in Trees, u.engine = t.engine, u.manifest = t.manifest,
         \A f \in File : u.files[f] \in {t.files[f], i, Torn},
         \A f \in File \ Patched : u.files[f] = t.files[f]
  PROVE  Coherent(u)
<1>1. OneCommit(u.files)
  BY ConstantsOK DEF Coherent, OneCommit
<1>2. ASSUME u.manifest # Nothing PROVE Vouches(u)
  BY <1>2 DEF Coherent, Vouches
<1> QED BY <1>1, <1>2 DEF Coherent

\* A tree without a manifest of which only one commit was written.
LEMMA BareCoherent ==
  ASSUME NEW u \in Trees, NEW c \in Commit, u.manifest = Nothing,
         \A f \in File : u.files[f] \in {c, Nothing, Torn} \cup Image
  PROVE  Coherent(u)
BY ConstantsOK DEF Coherent, OneCommit
-----------------------------------------------------------------------------
(* The invariant                                                            *)

LEMMA Start == Init => Inv
<1> SUFFICES ASSUME Init PROVE Inv
  OBVIOUS
<1>1. Coherent(vendor) /\ Coherent(backup) /\ found \in Trees
  BY NoTreeCoherent DEF Init, Coherent
<1>5. loaded \in [File -> Content] /\ 0 \in 0..Budget
  BY ConstantsOK DEF Init, Content
<1>2. TypeOK
  BY <1>1, <1>5 DEF Init, TypeOK, Coherent, StepName
<1>3. Progress
  BY DEF Init, Progress, InTry
<1>4. OneCommit(loaded)
  BY ConstantsOK DEF Init, OneCommit
<1> QED BY <1>1, <1>2, <1>3, <1>4 DEF Inv

\* What a step that stops on the way leaves is coherent, and without a manifest
\* unless the tree was complete.
LEMMA RemainsCoherent ==
  ASSUME Inv, NEW u \in Remains
  PROVE  /\ Coherent(u)
         /\ step \notin InTry \cup {"removing"} => u = vendor
         /\ step \in InTry \cup {"removing"} => u.manifest = Nothing
<1>1. /\ vendor \in Trees /\ Coherent(vendor) /\ image \in Image
      /\ step \notin {"idle", "cloning"} => commit \in Commit
  BY DEF Inv, TypeOK, Progress
<1> DEFINE new == Written(NoTree, Tree[commit], commit)
<1>2. ASSUME commit \in Commit
      PROVE  /\ new \in Trees /\ new.engine = Nothing /\ new.manifest = Nothing
             /\ \A f \in File : new.files[f] \in {commit, Nothing}
  BY <1>2, CopiedIs
<1> HIDE DEF new
<1>3. CASE step = "connectors"
  <2>1. vendor = NoTree /\ commit \in Commit
    BY <1>1, <1>3 DEF Inv, Progress
  <2>2. u \in CutShort(vendor, Tree[commit], commit)
    BY <1>3 DEF Remains
  <2>5. Tree[commit] \in SUBSET File /\ commit \in Content
    BY <2>1, ConstantsOK DEF Content
  <2> DEFINE which == Tree[commit]
  <2>7. which \in SUBSET File /\ u \in CutShort(vendor, which, commit)
    BY <2>2, <2>5
  <2> HIDE DEF which
  <2>3. /\ u \in Trees /\ u.manifest = vendor.manifest
        /\ \A f \in File : u.files[f] \in {vendor.files[f], commit, Torn}
    BY <1>1, <2>5, <2>7, CutShortIs
  <2>4. u.manifest = Nothing /\ \A f \in File : u.files[f] \in {commit, Nothing, Torn} \cup Image
    BY <2>1, <2>3 DEF NoTree
  <2>6. Coherent(u)
    BY <2>1, <2>3, <2>4, BareCoherent
  <2> QED BY <1>3, <2>4, <2>6 DEF InTry
<1>4. CASE step = "engine"
  <2>1. vendor = new /\ commit \in Commit
    BY <1>1, <1>4 DEF Inv, Progress, new
  <2>2. u \in {vendor, [vendor EXCEPT !.engine = Torn]}
    BY <1>4 DEF Remains
  <2>5. vendor.manifest = Nothing
    BY <1>2, <2>1
  <2>3. u \in Trees /\ u.manifest = Nothing /\ u.files = vendor.files
    BY <1>1, <2>2, <2>5 DEF Trees, Content
  <2>4. Coherent(u)
    BY <1>2, <2>1, <2>3, BareCoherent
  <2> QED BY <1>4, <2>3, <2>4 DEF InTry
<1>5. CASE step = "patches"
  <2>1. commit \in Commit /\ vendor = [new EXCEPT !.engine = commit]
    BY <1>1, <1>5 DEF Inv, Progress, new
  <2>2. u \in CutShort(vendor, Patched, image)
    BY <1>5 DEF Remains
  <2>3. Patched \in SUBSET File
    BY <1>1, ConstantsOK
  <2>4. /\ u \in Trees /\ u.manifest = vendor.manifest
        /\ \A f \in File : u.files[f] \in {vendor.files[f], image, Torn}
    BY <1>1, <2>2, <2>3, CutShortIs DEF Content
  <2>5. vendor.files = new.files /\ vendor.manifest = Nothing
    BY <1>2, <2>1 DEF Trees
  <2>6. u.manifest = Nothing /\ \A f \in File : u.files[f] \in {commit, Nothing, Torn} \cup Image
    BY <1>1, <1>2, <2>1, <2>4, <2>5
  <2>7. Coherent(u)
    BY <2>1, <2>4, <2>6, BareCoherent
  <2> QED BY <1>5, <2>6, <2>7 DEF InTry
<1>6. CASE step = "removing"
  <2>1. PICK S \in SUBSET File, e \in {vendor.engine, Torn, Nothing} :
          u = [Written(vendor, S, Nothing) EXCEPT !.engine = e]
    BY <1>6 DEF Remains
  <2> DEFINE w == Written(vendor, S, Nothing)
  <2>2. /\ w \in Trees /\ w.manifest = vendor.manifest
        /\ \A f \in File : w.files[f] = IF f \in S THEN Nothing ELSE vendor.files[f]
    BY <1>1, WrittenIs DEF Content
  <2>3. vendor.manifest = Nothing
    BY <1>6 DEF Inv, Progress
  <2> HIDE DEF w
  <2>4. u \in Trees /\ u.manifest = Nothing /\ u.files = w.files
    BY <1>1, <2>1, <2>2, <2>3 DEF Trees, Content, w
  <2>5. OneCommit(u.files)
    BY <1>1, <2>2, <2>4, ConstantsOK DEF Coherent, OneCommit
  <2> QED BY <1>6, <2>4, <2>5 DEF Coherent
<1>7. CASE step \notin {"connectors", "engine", "patches", "removing"}
  <2>1. u = vendor
    BY <1>7 DEF Remains
  <2>2. step = "manifest" => vendor.manifest = Nothing
    <3>1. ASSUME step = "manifest" PROVE vendor = [Synced(commit, image) EXCEPT !.manifest = Nothing]
      BY <3>1 DEF Inv, Progress
    <3> QED BY <1>1, <3>1, SyncedIs DEF Trees
  <2> QED BY <1>1, <1>7, <2>1, <2>2 DEF InTry
<1> QED BY <1>3, <1>4, <1>5, <1>6, <1>7

LEMMA BootPreserves == Inv /\ Boot => Inv'
<1> SUFFICES ASSUME Inv, Boot PROVE Inv'
  OBVIOUS
<1>1. /\ vendor \in Trees /\ Coherent(vendor) /\ image \in Image /\ step = "idle"
      /\ Patched \in SUBSET File /\ image \in Content
  BY ConstantsOK DEF Inv, TypeOK, Progress, Boot, Content
<1>2. Coherent(Healed)
  <2> DEFINE w == Written(vendor, Patched, image)
  <2>1. /\ w \in Trees /\ w.engine = vendor.engine /\ w.manifest = vendor.manifest
        /\ \A f \in File : w.files[f] = IF f \in Patched THEN image ELSE vendor.files[f]
    BY <1>1, WrittenIs
  <2> HIDE DEF w
  <2>2. Coherent(w)
    BY <1>1, <2>1, PatchedCoherent
  <2> QED BY <1>1, <2>2 DEF Healed, w
<1> DEFINE t == IF Shadows THEN Healed ELSE BuiltIn
<1>3. /\ OneCommit(t.files) /\ t.files \in [File -> Content]
  <2>1. CASE Shadows
    BY <1>2, <2>1 DEF Coherent, Trees
  <2>2. CASE ~Shadows
    <3>1. /\ BuiltIn.files \in [File -> Content]
          /\ \A f \in File : BuiltIn.files[f] \in Image \cup {Nothing}
      BY <1>1 DEF BuiltIn, Content
    <3> QED BY <2>2, <3>1, ConstantsOK DEF OneCommit
  <2> QED BY <2>1, <2>2
<1>4. PICK S : loaded' = [f \in File |-> IF f \in S THEN t.files[f] ELSE Nothing]
  BY DEF Boot
<1> HIDE DEF t
<1>5. loaded' \in [File -> Content] /\ OneCommit(loaded')
  BY <1>3, <1>4, ConstantsOK DEF OneCommit, Content
<1>6. /\ vendor' = Healed /\ up' = TRUE /\ step' = "idle"
      /\ UNCHANGED <<backup, record, image, commit, found, exiting, faults>>
  BY <1>1 DEF Boot, sync
<1>7. TypeOK'
  BY <1>2, <1>5, <1>6, <1>1 DEF Inv, TypeOK, Coherent
<1>8. Progress'
  BY <1>6 DEF Progress, InTry
<1>9. Coherent(vendor)' /\ Coherent(backup)' /\ OneCommit(loaded)'
  BY <1>2, <1>5, <1>6 DEF Inv
<1> QED BY <1>7, <1>8, <1>9 DEF Inv

LEMMA DieBootingPreserves == Inv /\ DieBooting => Inv'
<1> SUFFICES ASSUME Inv, DieBooting PROVE Inv'
  OBVIOUS
<1>1. /\ vendor \in Trees /\ Coherent(vendor) /\ image \in Image /\ step = "idle"
      /\ Patched \in SUBSET File /\ image \in Content
      /\ vendor' \in CutShort(vendor, Patched, image)
  BY ConstantsOK DEF Inv, TypeOK, Progress, DieBooting, Content
<1>2. /\ vendor' \in Trees /\ vendor'.engine = vendor.engine /\ vendor'.manifest = vendor.manifest
      /\ \A f \in File : vendor'.files[f] \in {vendor.files[f], image, Torn}
      /\ \A f \in File \ Patched : vendor'.files[f] = vendor.files[f]
  BY <1>1, CutShortIs
<1>3. Coherent(vendor')
  BY <1>1, <1>2, PatchedCoherent
<1>4. /\ step' = "idle" /\ faults' \in 0..Budget
      /\ UNCHANGED <<backup, record, image, up, loaded, commit, found, exiting>>
  BY <1>1, ConstantsOK DEF DieBooting, sync, Inv, TypeOK
<1>5. TypeOK'
  BY <1>2, <1>4 DEF Inv, TypeOK, StepName
<1>6. Progress'
  BY <1>4 DEF Progress, InTry
<1>7. Coherent(vendor)' /\ Coherent(backup)' /\ OneCommit(loaded)'
  BY <1>3, <1>4 DEF Inv
<1> QED BY <1>5, <1>6, <1>7 DEF Inv

\* The steps that leave the trees alone.
LEMMA QuietPreserves ==
  Inv /\ (Request \/ Cloned \/ CloneFails \/ Record \/ (\E i \in Image : Upgrade(i))) => Inv'
<1> SUFFICES ASSUME Inv,
                    Request \/ Cloned \/ CloneFails \/ Record \/ (\E i \in Image : Upgrade(i))
             PROVE  Inv'
  OBVIOUS
<1>1. Coherent(vendor)' /\ Coherent(backup)' /\ OneCommit(loaded)' /\ UNCHANGED <<vendor, backup, loaded>>
  BY DEF Inv, Request, Cloned, CloneFails, Record, Upgrade, disk
<1>2. CASE Request
  <2>1. TypeOK'
    BY <1>2 DEF Inv, TypeOK, Request, disk, StepName
  <2>2. Progress'
    BY <1>2 DEF Inv, Progress, Request, disk, InTry
  <2> QED BY <1>1, <2>1, <2>2 DEF Inv
<1>3. CASE Cloned
  <2>1. commit' \in Commit
    BY <1>3, ConstantsOK DEF Inv, TypeOK, Cloned
  <2>2. TypeOK'
    BY <1>3, <2>1 DEF Inv, TypeOK, Cloned, disk, StepName, Outside
  <2>3. Progress'
    BY <1>3, <2>1 DEF Inv, Progress, Cloned, disk, InTry
  <2> QED BY <1>1, <2>2, <2>3 DEF Inv
<1>4. CASE CloneFails
  <2>1. TypeOK'
    BY <1>4 DEF Inv, TypeOK, CloneFails, Goto, disk, StepName
  <2>2. Progress'
    BY <1>4 DEF Inv, Progress, CloneFails, Goto, disk, InTry
  <2> QED BY <1>1, <2>1, <2>2 DEF Inv
<1>5. CASE Record
  <2>1. commit \in Commit
    BY <1>5 DEF Inv, Progress, Record
  <2>2. TypeOK'
    BY <1>5, <2>1 DEF Inv, TypeOK, Record, Goto, StepName
  <2>3. Progress'
    BY <1>5 DEF Inv, Progress, Record, Goto, InTry
  <2> QED BY <1>1, <2>2, <2>3 DEF Inv
<1>6. CASE \E i \in Image : Upgrade(i)
  <2>1. step = "idle" /\ step' = "idle" /\ image' \in Image /\ faults' \in 0..Budget
    BY <1>6, ConstantsOK DEF Inv, TypeOK, Progress, Upgrade, sync
  <2>2. TypeOK'
    BY <1>6, <2>1 DEF Inv, TypeOK, Upgrade, disk, sync
  <2>3. Progress'
    BY <2>1 DEF Progress, InTry
  <2> QED BY <1>1, <2>2, <2>3 DEF Inv
<1> QED BY <1>2, <1>3, <1>4, <1>5, <1>6

\* The steps that replace the tree.
LEMMA MovePreserves == Inv /\ (Clear \/ Move \/ Discard \/ Remove \/ Restore) => Inv'
<1> SUFFICES ASSUME Inv, Clear \/ Move \/ Discard \/ Remove \/ Restore PROVE Inv'
  OBVIOUS
<1>1. /\ Coherent(vendor') /\ Coherent(backup')
      /\ UNCHANGED <<record, image, up, loaded, commit, found, exiting, faults>>
  BY NoTreeCoherent DEF Inv, Clear, Move, Discard, Remove, Restore, Moved, Restored, Goto
<1>2. Coherent(vendor)' /\ Coherent(backup)' /\ OneCommit(loaded)'
  BY <1>1 DEF Inv
<1>3. step' \in StepName
  BY DEF Clear, Move, Discard, Remove, Restore, Goto, StepName, InTry, Outside
<1>4. TypeOK'
  BY <1>1, <1>3 DEF Inv, TypeOK, Coherent
<1>5. Progress'
  <2>1. CASE Clear
    BY <2>1, <1>1 DEF Inv, Progress, Clear, Goto, InTry
  <2>2. CASE Move
    BY <2>2, <1>1 DEF Inv, Progress, Move, Moved, Goto, InTry
  <2>3. CASE Discard
    BY <2>3, <1>1 DEF Inv, Progress, Discard, Goto, InTry
  <2>4. CASE Remove
    BY <2>4, <1>1 DEF Inv, Progress, Remove, Goto, InTry
  <2>5. CASE Restore
    BY <2>5, <1>1 DEF Inv, Progress, Restore, Goto, InTry
  <2> QED BY <2>1, <2>2, <2>3, <2>4, <2>5
<1> QED BY <1>2, <1>4, <1>5 DEF Inv

\* The steps that write the new tree.
LEMMA CopyPreserves ==
  Inv /\ (CopyConnectors \/ CopyEngine \/ CopyPatches \/ WriteManifest) => Inv'
<1> SUFFICES ASSUME Inv, CopyConnectors \/ CopyEngine \/ CopyPatches \/ WriteManifest
             PROVE  Inv'
  OBVIOUS
<1>1. UNCHANGED <<backup, record, image, up, loaded, commit, found, exiting, faults>>
  BY DEF CopyConnectors, CopyEngine, CopyPatches, WriteManifest, Goto
<1>2. /\ commit \in Commit /\ image \in Image /\ up /\ backup = found
      /\ Tree[commit] \in SUBSET File /\ Patched \in SUBSET File
      /\ commit \in Content /\ image \in Content
  BY ConstantsOK
  DEF Inv, TypeOK, Progress, CopyConnectors, CopyEngine, CopyPatches, WriteManifest, InTry, Content
<1>3. step' \in StepName
  BY DEF CopyConnectors, CopyEngine, CopyPatches, WriteManifest, Goto, StepName, InTry, Outside
<1> DEFINE new == Written(NoTree, Tree[commit], commit)
<1>4. /\ new \in Trees /\ new.engine = Nothing /\ new.manifest = Nothing
      /\ \A f \in File : new.files[f] = IF f \in Tree[commit] THEN commit ELSE Nothing
  BY <1>2, CopiedIs
<1> DEFINE bare == [new EXCEPT !.engine = commit]
<1> DEFINE full == [Synced(commit, image) EXCEPT !.manifest = Nothing]
<1>5. /\ bare \in Trees /\ bare.engine = commit /\ bare.manifest = Nothing
      /\ bare.files = new.files
  BY <1>2, <1>4 DEF Trees
<1>6. /\ full \in Trees /\ full.engine = commit /\ full.manifest = Nothing
      /\ full.files = Synced(commit, image).files
  BY <1>2, SyncedIs DEF Trees
<1>7. Written(bare, Patched, image) = full
  <2> DEFINE w == Written(bare, Patched, image)
  <2>1. /\ w \in Trees /\ w.engine = commit /\ w.manifest = Nothing
        /\ \A f \in File : w.files[f] = IF f \in Patched THEN image ELSE new.files[f]
    <3> HIDE DEF bare, new
    <3>1. bare \in Trees /\ Patched \in SUBSET File /\ image \in Content
      BY <1>2, <1>5
    <3>2. /\ w \in Trees /\ w.engine = bare.engine /\ w.manifest = bare.manifest
          /\ \A f \in File : w.files[f] = IF f \in Patched THEN image ELSE bare.files[f]
      BY <3>1, WrittenIs
    <3> QED BY <1>5, <3>2
  <2>2. \A f \in File : w.files[f] = full.files[f]
    BY <1>2, <1>4, <1>6, <2>1, SyncedIs
  <2> HIDE DEF w, full
  <2>3. w.files = full.files
    BY <1>6, <2>1, <2>2 DEF Trees
  <2>4. w = full
    BY <1>6, <2>1, <2>3, SameTree
  <2> QED BY <2>4 DEF w
<1>8. [full EXCEPT !.manifest = full.files] = Synced(commit, image)
  <2> DEFINE listed == [full EXCEPT !.manifest = full.files]
  <2> HIDE DEF full
  <2>1. /\ listed \in Trees /\ listed.files = full.files /\ listed.engine = full.engine
        /\ listed.manifest = full.files
    BY <1>6 DEF Trees
  <2> HIDE DEF listed
  <2>2. listed = Synced(commit, image)
    BY <1>2, <1>6, <2>1, SyncedIs, SameTree
  <2> QED BY <2>2 DEF listed
<1>9. Coherent(new) /\ Coherent(bare) /\ Coherent(full) /\ Coherent(Synced(commit, image))
  <2>1. \A f \in File : full.files[f] \in {commit, Nothing, Torn} \cup Image
    BY <1>2, <1>6, SyncedIs
  <2> HIDE DEF new, bare, full
  <2> QED BY <1>2, <1>4, <1>5, <1>6, <2>1, BareCoherent, SyncedCoherent
<1> HIDE DEF new, bare, full
<1>10. CASE CopyConnectors
  <2>1. step' = "engine" /\ vendor' = new
    BY <1>10 DEF CopyConnectors, Unlisted, Goto, Inv, Progress, new
  <2>2. Progress'
    BY <1>1, <1>2, <2>1 DEF Progress, InTry, new
  <2> QED BY <1>1, <1>3, <1>4, <1>9, <2>1, <2>2 DEF Inv, TypeOK
<1>11. CASE CopyEngine
  <2>1. step' = "patches" /\ vendor' = bare
    BY <1>11 DEF CopyEngine, Goto, Inv, Progress, new, bare
  <2>2. Progress'
    BY <1>1, <1>2, <2>1 DEF Progress, InTry, new, bare
  <2> QED BY <1>1, <1>3, <1>5, <1>9, <2>1, <2>2 DEF Inv, TypeOK
<1>12. CASE CopyPatches
  <2>1. step' = "manifest" /\ vendor = bare
    BY <1>12 DEF CopyPatches, Goto, Inv, Progress, new, bare
  <2>2. vendor' = full
    BY <1>7, <1>12, <2>1 DEF CopyPatches
  <2>3. Progress'
    BY <1>1, <1>2, <2>1, <2>2 DEF Progress, InTry, full
  <2> QED BY <1>1, <1>3, <1>6, <1>9, <2>1, <2>2, <2>3 DEF Inv, TypeOK
<1>13. CASE WriteManifest
  <2>1. vendor = full
    BY <1>13 DEF WriteManifest, Inv, Progress, full
  <2>2. \/ step' = "discarding" /\ vendor' = Synced(commit, image)
        \/ step' = "removing" /\ vendor' = full
    BY <1>8, <1>13, <2>1 DEF WriteManifest, Goto
  <2>3. Progress'
    BY <1>1, <1>2, <1>6, <2>2 DEF Progress, InTry
  <2>4. vendor' \in Trees /\ Coherent(vendor')
    BY <1>2, <1>6, <1>9, <2>2, SyncedIs
  <2> QED BY <1>1, <1>3, <2>3, <2>4 DEF Inv, TypeOK
<1> QED BY <1>10, <1>11, <1>12, <1>13

LEMMA FailPreserves == Inv /\ (Fail \/ Exit \/ Die) => Inv'
<1> SUFFICES ASSUME Inv, Fail \/ Exit \/ Die PROVE Inv'
  OBVIOUS
<1>1. /\ Coherent(vendor') /\ vendor' \in Trees
      /\ UNCHANGED <<backup, record, image, commit, found>>
  <2>1. CASE vendor' \in Remains
    BY <2>1, RemainsCoherent DEF Fail, Exit, Die, Stop, Goto, Coherent
  <2>2. CASE Exit
    BY <2>2 DEF Exit, Stop, Goto, Inv, TypeOK
  <2> QED BY <2>1, <2>2 DEF Fail, Die
<1>2. faults' \in 0..Budget /\ step' \in StepName
  BY ConstantsOK DEF Fail, Exit, Die, Stop, Goto, StepName, Inv, TypeOK
<1>3. CASE Fail
  <2>1. step' = IF step \in InTry THEN "removing" ELSE "idle"
    BY <1>3 DEF Fail, Goto
  <2>2. step \in InTry => vendor'.manifest = Nothing
    BY <1>3, RemainsCoherent DEF Fail
  <2>3. /\ up' = up /\ loaded' = loaded /\ exiting' = exiting
        /\ step \in InTry => up /\ commit \in Commit /\ backup = found
    BY <1>3 DEF Fail, Inv, Progress, InTry
  <2>4. Progress'
    BY <1>1, <2>1, <2>2, <2>3 DEF Progress, InTry
  <2> QED BY <1>1, <1>2, <2>3, <2>4 DEF Inv, TypeOK
<1>4. CASE Exit \/ Die
  <2>1. /\ step' = "idle" /\ up' = FALSE /\ exiting' = FALSE
        /\ loaded' = [f \in File |-> Nothing]
    BY <1>4 DEF Exit, Die, Stop, Goto
  <2>2. loaded' \in [File -> Content] /\ OneCommit(loaded')
    BY <2>1, ConstantsOK DEF Content, OneCommit
  <2>3. Progress'
    BY <2>1 DEF Progress, InTry
  <2> QED BY <1>1, <1>2, <2>1, <2>2, <2>3 DEF Inv, TypeOK
<1> QED BY <1>3, <1>4

\* A step that changes nothing.
LEMMA StutterPreserves == Inv /\ UNCHANGED vars => Inv'
BY DEF Inv, TypeOK, Progress, vars, disk, sync

LEMMA Preserved == Inv /\ [Next]_vars => Inv'
BY BootPreserves, DieBootingPreserves, QuietPreserves, MovePreserves, CopyPreserves,
   FailPreserves, StutterPreserves
DEF Next, Steps
-----------------------------------------------------------------------------
(* The theorems                                                             *)

\* The trees on disk are coherent at every moment, whatever was interrupted.
THEOREM TreeInvariant == Spec => []Inv
<1>1. Init => Inv
  BY Start
<1>2. Inv /\ [Next]_vars => Inv'
  BY Preserved
<1> QED BY <1>1, <1>2, PTL DEF Spec

\* Every variable has its type.
THEOREM TypeCorrect == Spec => []TypeOK
<1>1. Inv => TypeOK
  BY DEF Inv
<1> QED BY <1>1, TreeInvariant, PTL

\* A manifest is only ever found in a whole tree of one commit.
THEOREM ManifestsAreEarned == Spec => []ManifestVouches
<1>1. Inv => ManifestVouches
  BY DEF Inv, Coherent, ManifestVouches
<1> QED BY <1>1, TreeInvariant, PTL

\* The server runs the connectors of one commit.
THEOREM OneCatalogue == Spec => []LoadedFromOneCommit
<1>1. Inv => LoadedFromOneCommit
  BY DEF Inv, OneCommit, LoadedFromOneCommit
<1> QED BY <1>1, TreeInvariant, PTL

\* A sync that ends leaves the tree it found or a complete new one.
THEOREM SyncsEndWhole == Spec => AllOrNothing
<1>1. Inv /\ [Next]_vars => [EndsWhole]_vars
  <2> SUFFICES ASSUME Inv, [Next]_vars, step # "idle", step' = "idle", up', vendor' # found
               PROVE  commit \in Commit /\ vendor' = Synced(commit, image)
    BY DEF EndsWhole
  <2>1. CASE Request \/ Cloned \/ CloneFails
    BY <2>1 DEF Inv, Progress, Request, Cloned, CloneFails, disk
  <2>2. CASE Record
    BY <2>2 DEF Inv, Progress, Record
  <2>3. CASE Restore
    BY <2>3 DEF Inv, Progress, Restore, Restored
  <2>4. CASE Fail
    <3>1. step \in Outside /\ vendor' = vendor
      <4>1. step \in Outside
        BY <2>4 DEF Fail, Goto
      <4>2. step \notin InTry \cup {"removing"} /\ vendor' \in Remains
        BY <2>4, <4>1 DEF Outside, InTry, Fail
      <4> QED BY <4>1, <4>2, RemainsCoherent
    <3> QED BY <3>1 DEF Inv, Progress, Outside
  <2>5. CASE Exit \/ Die
    BY <2>5 DEF Exit, Die, Stop
  <2>6. CASE Boot \/ DieBooting \/ \E i \in Image : Upgrade(i)
    BY <2>6 DEF Inv, Progress, Boot, DieBooting, Upgrade
  <2>7. CASE \/ Clear \/ Move \/ CopyConnectors \/ CopyEngine \/ CopyPatches
             \/ WriteManifest \/ Discard \/ Remove
    BY <2>7 DEF Clear, Move, CopyConnectors, CopyEngine, CopyPatches, WriteManifest,
                Discard, Remove, Goto
  <2>8. CASE UNCHANGED vars
    BY <2>8 DEF vars, sync
  <2> QED BY <2>1, <2>2, <2>3, <2>4, <2>5, <2>6, <2>7, <2>8 DEF Next, Steps
<1> QED BY <1>1, TreeInvariant, PTL DEF Spec, AllOrNothing
=============================================================================
