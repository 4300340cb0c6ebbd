------------------------- MODULE VaultMigrationProofs -------------------------
(***************************************************************************)
(* Proofs about VaultMigration: the types for any number of migrators, and *)
(* what a lone one promises for any paths, bundles, edits and crashes.     *)
(***************************************************************************)
EXTENDS VaultMigration, FiniteSetTheorems, TLAPS

-----------------------------------------------------------------------------
(* The invariant. *)

Types ==
  /\ TypeOK
  /\ userEdits \subseteq Paths \X UserContents
  /\ team \in Teams

(* The edits made before the last read of a migration. *)
Early == userEdits \ lateEdits

KeptIn(node) == \A w \in Early : Holds(node, {w})

EarlyEditsKept == \A w \in Early : Holds(target, {w}) \/ Holds(recovery, {w}) \/ Holds(stage, {w})

(* Every manifest is the new one or was there at first. *)
Known == {Wanted} \cup {node.manifest : node \in InitialTargets \ {Absent}}

Origins ==
  \A node \in {target, stage, recovery} : node # Absent => node.manifest \in Known \cup {NoManifest}

Reading == {"manifest", "regate", "reinspect", "validate", "legacy", "mkdir", "write", "verify",
            "semantics", "reread", "discard"}

Installed == {"readback", "cleanup", "rmdir", "uninstall"}

(* m is the only one that ever ran, and discards nothing but its stage. *)
Apart(m) == (\A n \in Migrators \ {m} : at[n] = "idle") /\ victim[m] \in {"none", "stage"}

Settled(m) ==
  Untouched /\ at[m] \in {"cleanup", "rmdir", "done"} => Written(target, Wanted)

LoneSettled == \A m \in team : Apart(m) /\ Settled(m)

(* Where the early edits are when m runs alone: from its first look at the target to its
   last read of it in the target, at the renames there are none, and then they are in
   what it installed, or in the stage it moved that back to. *)
Placed(m) ==
  /\ at[m] \in {"validate", "legacy", "mkdir", "write", "verify", "semantics", "reread"} =>
       source[m].manifest \in Known \ {NoManifest}
  /\ at[m] \in {"legacy", "mkdir", "write", "verify", "semantics", "reread"} =>
       OwnsFiles(source[m].manifest, source[m].files)
  /\ at[m] \in Reading \cup Installed => KeptIn(target)
  /\ at[m] \in {"recover", "install"} => Early = {}
  /\ at[m] \in {"install", "restore"} => target = Absent
  /\ at[m] \in Installed => stage = Absent
  /\ at[m] = "restore" => KeptIn(stage)

LonePlaced == EarlyEditsKept /\ Origins /\ \A m \in team : Placed(m)

Inductive == Types /\ (Lone => LoneSettled /\ LonePlaced)

-----------------------------------------------------------------------------
(* Trees. *)

LEMMA FreshTrees ==
  /\ EmptyTree \in Tree
  /\ EmptyTree.manifest = NoManifest /\ \A path \in Paths : EmptyTree.files[path] = NoFile
BY DEF EmptyTree, Tree, NoFiles, Files

LEMMA EditedTrees ==
  ASSUME NEW t \in Tree
  PROVE  /\ \A path \in Paths, text \in Contents \cup {NoFile} :
              /\ WithFile(t, path, text) \in Tree
              /\ WithFile(t, path, text).manifest = t.manifest
              /\ WithFile(t, path, text).files[path] = text
              /\ \A other \in Paths \ {path} : WithFile(t, path, text).files[other] = t.files[other]
         /\ \A m \in Manifest \cup {NoManifest} :
              /\ WithManifest(t, m) \in Tree
              /\ WithManifest(t, m).manifest = m /\ WithManifest(t, m).files = t.files
BY DEF Tree, Files, WithFile, WithManifest

LEMMA EmptierTrees ==
  ASSUME NEW t \in Tree, NEW u \in Emptier(t) \cup EmptierYet(t)
  PROVE  u \in Tree /\ u.manifest \in {t.manifest, NoManifest}
<1>1. CASE u \in Emptier(t)
  BY <1>1, EditedTrees DEF Emptier
<1>2. CASE u \in EmptierYet(t)
  BY <1>2, EditedTrees DEF EmptierYet
<1> QED
  BY <1>1, <1>2

LEMMA ArtifactType ==
  \A m \in Manifest : \A path \in Paths : m.artifacts[path] \in Contents \cup {NoFile}
BY DEF Manifest, Files

-----------------------------------------------------------------------------
(* Types. *)

LEMMA InitTypes == Init => Types
<1> SUFFICES ASSUME Init PROVE Types
  OBVIOUS
<1>1. target \in Node
  BY MigrationAssumption DEF Init
<1>2. asked \subseteq Manifest
  BY <1>1, MarkAssumption DEF Init, Whole, Node, Tree
<1>3. EmptyTree \in Tree
  BY FreshTrees
<1>4. 0 \in 0..MaxEdits /\ 0 \in 0..MaxAborts
  BY MigrationAssumption
<1> QED
  BY <1>1, <1>2, <1>3, <1>4 DEF Init, Types, TypeOK, Node, Resting

(* Every step keeps the types. *)
LEMMA NextTypes == ASSUME Types, [Next]_<<vars, team>> PROVE Types'
<1> USE DEF Types, TypeOK, Goto, vaultVars, migratorVars, userVars
<1>0. /\ Wanted \in Manifest /\ {target, stage, recovery} \subseteq Node /\ Node = Tree \cup {Absent}
      /\ team' = team
  BY MigrationAssumption DEF Next, Node
<1>1. ASSUME NEW m \in Migrators, Start(m) PROVE Types'
  BY <1>0, <1>1, FreshTrees DEF Start, Running
<1>2. ASSUME NEW m \in Migrators, Gate(m) PROVE Types'
  BY <1>0, <1>2 DEF Gate, Resting, Running
<1>3. ASSUME NEW m \in Migrators, ReadManifest(m) PROVE Types'
  <2>1. source' \in [Migrators -> Tree]
    <3>1. target # Absent /\ target.manifest # NoManifest => target.manifest \in Manifest
      BY <1>0 DEF Tree
    <3> QED
      BY <1>0, <1>3, <3>1, FreshTrees, EditedTrees DEF ReadManifest
  <2> QED
    BY <1>0, <1>3, <2>1 DEF ReadManifest, Resting, Running
<1>4. ASSUME NEW m \in Migrators, Reinspect(m) PROVE Types'
  BY <1>0, <1>4 DEF Reinspect, Resting, Running
<1>5. ASSUME NEW m \in Migrators, ValidateSource(m) PROVE Types'
  <2>1. source' \in [Migrators -> Tree]
    <3>1. target # Absent => [source[m] EXCEPT !.files = target.files] \in Tree
      BY <1>0 DEF Tree
    <3> QED
      BY <1>0, <1>5, <3>1 DEF ValidateSource
  <2> QED
    BY <1>0, <1>5, <2>1 DEF ValidateSource, Resting, Running
<1>6. ASSUME NEW m \in Migrators, VerifyLegacy(m) PROVE Types'
  BY <1>0, <1>6 DEF VerifyLegacy, Resting, Running
<1>7. ASSUME NEW m \in Migrators, MakeStage(m) PROVE Types'
  BY <1>0, <1>7, FreshTrees DEF MakeStage, Resting, Running
<1>8. ASSUME NEW m \in Migrators, WriteArtifact(m) PROVE Types'
  <2>1. stage' \in Node
    <3>1. PICK path \in todo[m] :
            stage' = WithFile(IF stage = Absent THEN EmptyTree ELSE stage,
                              path, Wanted.artifacts[path])
      BY <1>8 DEF WriteArtifact
    <3>2. path \in Paths /\ Wanted.artifacts[path] \in Contents \cup {NoFile}
      BY <1>0, ArtifactType DEF FilesOf
    <3>3. (IF stage = Absent THEN EmptyTree ELSE stage) \in Tree
      BY <1>0, FreshTrees
    <3> QED
      BY <1>0, <3>1, <3>2, <3>3, EditedTrees
  <2> QED
    BY <1>0, <1>8, <2>1 DEF WriteArtifact
<1>9. ASSUME NEW m \in Migrators, WriteManifest(m) PROVE Types'
  <2>1. stage' \in Node
    BY <1>0, <1>9, EditedTrees DEF WriteManifest
  <2> QED
    BY <1>0, <1>9, <2>1 DEF WriteManifest, Resting, Running
<1>10. ASSUME NEW m \in Migrators, VerifyStage(m) PROVE Types'
  BY <1>0, <1>10 DEF VerifyStage, Resting, Running
<1>11. ASSUME NEW m \in Migrators, VerifySemantics(m) PROVE Types'
  BY <1>0, <1>11 DEF VerifySemantics, Resting, Running
<1>12. ASSUME NEW m \in Migrators, RereadSource(m) PROVE Types'
  BY <1>0, <1>12 DEF RereadSource, Resting, Running
<1>13. ASSUME NEW m \in Migrators, OpenStage(m) PROVE Types'
  BY <1>0, <1>13 DEF OpenStage, Resting, Running
<1>14. ASSUME NEW m \in Migrators, DiscardEntry(m) PROVE Types'
  <2>1. {target', stage', recovery'} \subseteq Node
    BY <1>0, <1>14, EmptierTrees DEF DiscardEntry
  <2> QED
    BY <1>0, <1>14, <2>1 DEF DiscardEntry
<1>15. ASSUME NEW m \in Migrators, RemoveStage(m) PROVE Types'
  BY <1>0, <1>15 DEF RemoveStage, Resting, Running
<1>16. ASSUME NEW m \in Migrators, MoveToRecovery(m) PROVE Types'
  BY <1>0, <1>16 DEF MoveToRecovery, Follow, Resting, Running
<1>17. ASSUME NEW m \in Migrators, Install(m) PROVE Types'
  BY <1>0, <1>17 DEF Install, Follow, Resting, Running
<1>18. ASSUME NEW m \in Migrators, ReadBack(m) PROVE Types'
  BY <1>0, <1>18 DEF ReadBack, Resting, Running
<1>19. ASSUME NEW m \in Migrators, Uninstall(m) PROVE Types'
  BY <1>0, <1>19 DEF Uninstall, Follow, Resting, Running
<1>20. ASSUME NEW m \in Migrators, Restore(m) PROVE Types'
  BY <1>0, <1>20 DEF Restore, Follow, Resting, Running
<1>21. ASSUME NEW m \in Migrators, RemoveEntry(m) PROVE Types'
  <2>1. recovery' \in Node
    BY <1>0, <1>21, EmptierTrees DEF RemoveEntry, Vacant
  <2> QED
    BY <1>0, <1>21, <2>1 DEF RemoveEntry, Resting, Running
<1>22. ASSUME NEW m \in Migrators, RemoveRecovery(m) PROVE Types'
  BY <1>0, <1>22 DEF RemoveRecovery, Resting, Running
<1>23. ASSUME NEW m \in Migrators, Abort(m) PROVE Types'
  BY <1>0, <1>23, MigrationAssumption DEF Abort, Resting, Running
<1>24. ASSUME UserEdit PROVE Types'
  <2>1. target' \in Node
    BY <1>0, <1>24, EditedTrees, MigrationAssumption DEF UserEdit
  <2>2. /\ edits' \in 0..MaxEdits /\ lateEdits' \subseteq userEdits'
        /\ userEdits' \subseteq Paths \X UserContents
    BY <1>24, MigrationAssumption DEF UserEdit
  <2> QED
    BY <1>0, <1>24, <2>1, <2>2 DEF UserEdit
<1>25. ASSUME Inspector PROVE Types'
  BY <1>0, <1>25 DEF Inspector, ClearStage, RestoreRecovery, DropRecovery
<1>26. CASE UNCHANGED vars
  BY <1>0, <1>26 DEF vars
<1> QED
  BY <1>1, <1>2, <1>3, <1>4, <1>5, <1>6, <1>7, <1>8, <1>9, <1>10, <1>11, <1>12, <1>13, <1>14,
     <1>15, <1>16, <1>17, <1>18, <1>19, <1>20, <1>21, <1>22, <1>23, <1>24, <1>25, <1>26
  DEF Next, Step

-----------------------------------------------------------------------------
(* A team of one. *)

LEMMA LoneTeam == ASSUME Types, Lone PROVE \E m \in Migrators : team = {m}
<1>1. team \subseteq Migrators /\ IsFiniteSet(Migrators)
  BY MigrationAssumption DEF Types
<1>2. IsFiniteSet(team)
  BY <1>1, FS_Subset
<1>3. \E m : team = {m}
  BY <1>2, FS_Singleton DEF Lone
<1> QED
  BY <1>1, <1>3

(* Whoever is not in the team has never run, so every step of a migrator is its. *)
LEMMA LoneSteps ==
  ASSUME Types, NEW m \in Migrators, team = {m}, Apart(m),
         NEW n \in Migrators, Start(n) \/ Step(n) \/ Abort(n)
  PROVE  n = m
<1>1. Start(n) => n \in team
  BY DEF Start
<1>2. Step(n) \/ Abort(n) => at[n] # "idle"
  BY DEF Step, Gate, ReadManifest, Reinspect, ValidateSource, VerifyLegacy, MakeStage,
     WriteArtifact, WriteManifest, VerifyStage, VerifySemantics, RereadSource, OpenStage,
     DiscardEntry, RemoveStage, MoveToRecovery, Install, ReadBack, Uninstall, Restore,
     RemoveEntry, RemoveRecovery, Abort, Running
<1> QED
  BY <1>1, <1>2 DEF Apart

(* At most one process discards anything: the victims follow the stage alone. *)
LEMMA ApartStays ==
  ASSUME Types, NEW m \in Migrators, team = {m}, Apart(m), Next
  PROVE  Apart(m)'
<1> USE DEF Types, TypeOK, Apart, Goto, vaultVars, migratorVars
<1>1. victim[m] = "none" \/ at[m] = "discard"
  OBVIOUS
<1>2. ASSUME Start(m) PROVE Apart(m)'
  BY <1>2 DEF Start
<1>3. ASSUME Gate(m) \/ ReadManifest(m) \/ Reinspect(m) \/ ValidateSource(m) \/ VerifyLegacy(m)
      PROVE  Apart(m)'
  BY <1>3 DEF Gate, ReadManifest, Reinspect, ValidateSource, VerifyLegacy
<1>4. ASSUME MakeStage(m) \/ WriteArtifact(m) \/ WriteManifest(m) \/ VerifyStage(m)
             \/ VerifySemantics(m) \/ RereadSource(m)
      PROVE  Apart(m)'
  BY <1>4 DEF MakeStage, WriteArtifact, WriteManifest, VerifyStage, VerifySemantics, RereadSource
<1>5. ASSUME OpenStage(m) \/ DiscardEntry(m) \/ RemoveStage(m) PROVE Apart(m)'
  BY <1>5 DEF OpenStage, DiscardEntry, RemoveStage
<1>6. ASSUME MoveToRecovery(m) \/ Install(m) \/ ReadBack(m) \/ Uninstall(m) \/ Restore(m)
      PROVE  Apart(m)'
  BY <1>1, <1>6 DEF MoveToRecovery, Install, ReadBack, Uninstall, Restore, Follow
<1>7. ASSUME RemoveEntry(m) \/ RemoveRecovery(m) \/ Abort(m) PROVE Apart(m)'
  BY <1>1, <1>7 DEF RemoveEntry, RemoveRecovery, Abort
<1>8. ASSUME UserEdit \/ Inspector PROVE Apart(m)'
  BY <1>8 DEF UserEdit, Inspector, ClearStage, RestoreRecovery, DropRecovery
<1>9. \A n \in Migrators : Start(n) \/ Step(n) \/ Abort(n) => n = m
  BY LoneSteps
<1> QED
  BY <1>2, <1>3, <1>4, <1>5, <1>6, <1>7, <1>8, <1>9 DEF Next, Step

-----------------------------------------------------------------------------
(* What a lone migration reports is so. *)

LEMMA SettledStays ==
  ASSUME Types, NEW m \in Migrators, team = {m}, Apart(m), Settled(m), Next
  PROVE  Settled(m)'
<1> USE DEF Types, TypeOK, Goto, vaultVars, migratorVars, userVars, Untouched
<1>1. ASSUME Start(m) \/ Gate(m) \/ ReadManifest(m) \/ ValidateSource(m) \/ VerifyLegacy(m)
             \/ MakeStage(m) \/ WriteArtifact(m) \/ WriteManifest(m) \/ VerifyStage(m)
             \/ VerifySemantics(m) \/ RereadSource(m) \/ OpenStage(m) \/ RemoveStage(m)
             \/ MoveToRecovery(m) \/ Install(m) \/ Uninstall(m) \/ Restore(m) \/ Abort(m)
      PROVE  Settled(m)'
  <2>1. at'[m] \notin {"cleanup", "rmdir", "done"}
    BY <1>1 DEF Start, Gate, ReadManifest, ValidateSource, VerifyLegacy, MakeStage, WriteArtifact,
       WriteManifest, VerifyStage, VerifySemantics, RereadSource, OpenStage, RemoveStage,
       MoveToRecovery, Install, Uninstall, Restore, Abort
  <2> QED
    BY <2>1 DEF Settled
<1>2. ASSUME Reinspect(m) PROVE Settled(m)'
  <2>1. at'[m] = "done" => Written(target, Wanted)
    BY <1>2 DEF Reinspect, Acceptable, Written
  <2>2. at'[m] \notin {"cleanup", "rmdir"} /\ UNCHANGED target
    BY <1>2 DEF Reinspect
  <2> QED
    BY <2>1, <2>2 DEF Settled
<1>3. ASSUME ReadBack(m) PROVE Settled(m)'
  <2>1. at'[m] \in {"cleanup", "rmdir", "done"} => Written(target, Wanted)
    BY <1>3 DEF ReadBack
  <2> QED
    BY <1>3, <2>1 DEF Settled, ReadBack
<1>4. ASSUME DiscardEntry(m) PROVE Settled(m)'
  BY <1>4 DEF DiscardEntry, Settled
<1>5. ASSUME RemoveEntry(m) \/ RemoveRecovery(m) PROVE Settled(m)'
  <2>1. at[m] \in {"cleanup", "rmdir"} /\ UNCHANGED <<target, edits>>
    BY <1>5 DEF RemoveEntry, RemoveRecovery
  <2> QED
    BY <2>1 DEF Settled
<1>6. ASSUME UserEdit PROVE Settled(m)'
  <2>1. edits' = edits + 1 /\ edits \in Nat
    BY <1>6, MigrationAssumption DEF UserEdit
  <2>2. edits' # 0
    BY <2>1
  <2> QED
    BY <2>2 DEF Settled
<1>7. ASSUME Inspector PROVE Settled(m)'
  <2>1. Written(target, Wanted) => Whole(target)
    BY MigrationAssumption, MarkAssumption DEF Written, Whole, Vacant
  <2> QED
    BY <1>7, <2>1 DEF Inspector, ClearStage, RestoreRecovery, DropRecovery, Settled
<1>8. \A n \in Migrators : Start(n) \/ Step(n) \/ Abort(n) => n = m
  BY LoneSteps
<1> QED
  BY <1>1, <1>2, <1>3, <1>4, <1>5, <1>6, <1>7, <1>8 DEF Next, Step

LEMMA NextSettled ==
  ASSUME Types, Lone => LoneSettled, [Next]_<<vars, team>>
  PROVE  (Lone => LoneSettled)'
<1> SUFFICES ASSUME Lone' PROVE LoneSettled'
  OBVIOUS
<1>1. team' = team /\ Lone
  BY DEF Next, Lone
<1>2. PICK m \in Migrators : team = {m}
  BY <1>1, LoneTeam
<1>3. Apart(m) /\ Settled(m)
  BY <1>1, <1>2 DEF LoneSettled
<1>4. CASE Next
  <2>1. Apart(m)' /\ Settled(m)'
    BY <1>2, <1>3, <1>4, ApartStays, SettledStays
  <2> QED
    BY <1>1, <1>2, <2>1 DEF LoneSettled
<1>5. CASE UNCHANGED <<vars, team>>
  BY <1>1, <1>2, <1>3, <1>5 DEF LoneSettled, Apart, Settled, Untouched, Written, Vacant, OwnsFiles,
     vars, vaultVars, migratorVars, userVars
<1> QED
  BY <1>4, <1>5

LEMMA InitSettled == Init => (Lone => LoneSettled)
<1> SUFFICES ASSUME Init PROVE LoneSettled
  OBVIOUS
<1>1. team \subseteq Migrators
  BY MigrationAssumption DEF Init
<1> QED
  BY <1>1 DEF Init, LoneSettled, Apart, Settled

(* Every reachable state is well typed, for any number of migrators. *)
THEOREM TypeCorrect == Spec => []TypeOK
<1>1. Types => TypeOK
  BY DEF Types
<1> QED
  BY <1>1, InitTypes, NextTypes, PTL DEF Spec

(* A lone migration that reports success leaves the whole new bundle in the target,
   wherever earlier attempts were interrupted, until a user edits a note. *)
THEOREM LoneMigrates == Spec => []Migrated
<1> DEFINE IInv == Types /\ (Lone => LoneSettled)
<1>1. Init => IInv
  BY InitTypes, InitSettled
<1>2. IInv /\ [Next]_<<vars, team>> => IInv'
  BY NextTypes, NextSettled
<1>3. IInv => Migrated
  <2> SUFFICES ASSUME IInv, Lone, Untouched, NEW m \in Migrators, at[m] = "done"
               PROVE  Written(target, Wanted)
    BY DEF Migrated
  <2>1. PICK l \in Migrators : team = {l}
    BY LoneTeam
  <2>2. l = m
    BY <2>1 DEF LoneSettled, Apart
  <2> QED
    BY <2>1, <2>2 DEF LoneSettled, Settled
<1> QED
  BY <1>1, <1>2, <1>3, PTL DEF Spec

-----------------------------------------------------------------------------
(* Early edits survive a lone migration. *)

One(m) == EarlyEditsKept /\ Origins /\ Placed(m)

(* A step that leaves the user's histories and a directory alone leaves what it keeps. *)
LEMMA Frame ==
  ASSUME UNCHANGED userVars
  PROVE  /\ Early' = Early
         /\ UNCHANGED target => KeptIn(target)' = KeptIn(target)
         /\ UNCHANGED stage => KeptIn(stage)' = KeptIn(stage)
         /\ UNCHANGED vaultVars => EarlyEditsKept' = EarlyEditsKept /\ Origins' = Origins
BY DEF userVars, vaultVars, Early, KeptIn, EarlyEditsKept, Origins, Holds

(* Nothing is kept where there is no directory. *)
LEMMA KeptNowhere == KeptIn(Absent) => Early = {}
BY DEF KeptIn, Holds

(* Steps of a lone migrator that write no directory. *)
LEMMA PlacedByLooking ==
  ASSUME Types, UserTextIsOwn, NEW m \in Migrators, One(m),
         \/ Start(m) \/ Gate(m) \/ ReadManifest(m) \/ Reinspect(m) \/ ValidateSource(m)
         \/ VerifyLegacy(m) \/ VerifyStage(m) \/ VerifySemantics(m) \/ RereadSource(m)
         \/ OpenStage(m) \/ ReadBack(m) \/ Abort(m)
  PROVE  One(m)'
<1> USE DEF Types, TypeOK, Goto, migratorVars
<1>1. UNCHANGED <<vaultVars, userVars>>
  BY DEF Start, Gate, ReadManifest, Reinspect, ValidateSource, VerifyLegacy, VerifyStage,
     VerifySemantics, RereadSource, OpenStage, ReadBack, Abort
<1>2. /\ EarlyEditsKept' /\ Origins' /\ Early' = Early
      /\ KeptIn(target)' = KeptIn(target) /\ KeptIn(stage)' = KeptIn(stage)
  BY <1>1, Frame DEF One, vaultVars
<1>3. UNCHANGED <<target, stage>>
  BY <1>1 DEF vaultVars
<1> SUFFICES Placed(m)'
  BY <1>2 DEF One
<1>4. ASSUME Start(m) \/ Abort(m) PROVE Placed(m)'
  BY <1>4 DEF Start, Abort, Placed, Reading, Installed
<1>5. ASSUME Gate(m) PROVE Placed(m)'
  <2>1. stage = Absent /\ recovery = Absent => KeptIn(target)
    BY DEF One, EarlyEditsKept, KeptIn, Holds
  <2>2. at'[m] \in {"manifest", "reinspect"} => KeptIn(target)
    BY <1>5, <2>1 DEF Gate, Leftovers
  <2>3. at'[m] \in {"manifest", "reinspect", "failed"}
    BY <1>5 DEF Gate
  <2> QED
    BY <1>2, <2>2, <2>3 DEF Placed, Reading, Installed
<1>6. ASSUME ReadManifest(m) PROVE Placed(m)'
  <2>1. /\ at[m] = "manifest" /\ at'[m] \in {"failed", "regate", "validate"}
        /\ at'[m] = "validate" => source'[m] = WithManifest(EmptyTree, target.manifest)
    BY <1>6 DEF ReadManifest
  <2>2. at'[m] = "validate" => target # Absent /\ target.manifest # NoManifest
    BY <1>6 DEF ReadManifest
  <2>3. at'[m] = "validate" => target.manifest \in Known \ {NoManifest}
    BY <2>2 DEF One, Origins
  <2>4. at'[m] = "validate" => source'[m].manifest \in Known \ {NoManifest}
    BY <2>1, <2>3 DEF WithManifest, EmptyTree
  <2>5. KeptIn(target)
    BY <2>1 DEF One, Placed, Reading
  <2> QED
    BY <1>2, <2>1, <2>4, <2>5 DEF Placed, Reading, Installed
<1>7. ASSUME Reinspect(m) PROVE Placed(m)'
  BY <1>7 DEF Reinspect, Placed, Reading, Installed
<1>8. ASSUME ValidateSource(m) PROVE Placed(m)'
  <2>1. at[m] = "validate" /\ at'[m] \in {"legacy", "failed"}
    BY <1>8 DEF ValidateSource
  <2>2. KeptIn(target) /\ source[m].manifest \in Known \ {NoManifest}
    BY <2>1 DEF One, Placed, Reading
  <2>3. at'[m] = "legacy" =>
          source'[m].manifest = source[m].manifest /\ source'[m].files = target.files
    BY <1>8 DEF ValidateSource, Tree
  <2>4. at'[m] = "legacy" => OwnsFiles(source[m].manifest, target.files)
    BY <1>8 DEF ValidateSource
  <2> QED
    BY <1>2, <2>1, <2>2, <2>3, <2>4 DEF Placed, Reading, Installed
<1>9. ASSUME VerifyLegacy(m) \/ VerifyStage(m) \/ VerifySemantics(m) PROVE Placed(m)'
  <2>1. /\ at[m] \in {"legacy", "verify", "semantics"} /\ source' = source
        /\ at'[m] \in {"mkdir", "failed", "semantics", "discard", "reread"}
    BY <1>9 DEF VerifyLegacy, VerifyStage, VerifySemantics
  <2> QED
    BY <1>2, <2>1 DEF One, Placed, Reading, Installed
<1>10. ASSUME RereadSource(m) PROVE Placed(m)'
  <2>1. at[m] = "reread" /\ at'[m] \in {"failed", "discard", "recover"}
    BY <1>10 DEF RereadSource
  <2>2. KeptIn(target) /\ source[m].manifest \in Known \ {NoManifest}
        /\ OwnsFiles(source[m].manifest, source[m].files)
    BY <2>1 DEF One, Placed, Reading
  <2>3. ASSUME at'[m] = "recover" PROVE Early = {}
    <3>1. target = source[m]
      BY <1>10, <2>3 DEF RereadSource
    <3>2. SUFFICES ASSUME NEW w \in Early PROVE FALSE
      OBVIOUS
    <3>3. w[1] \in Paths /\ w[2] \in UserContents
      BY <3>2 DEF Early
    <3>4. target.files[w[1]] = w[2]
      BY <2>2, <3>2 DEF KeptIn, Holds
    <3>5. target.files[w[1]] = target.manifest.artifacts[w[1]]
      BY <2>2, <3>1, <3>3 DEF OwnsFiles
    <3>6. target.manifest.artifacts[w[1]] \notin UserContents
      BY <2>2, <3>1, <3>3 DEF UserTextIsOwn, Known
    <3> QED
      BY <3>3, <3>4, <3>5, <3>6
  <2> QED
    BY <1>2, <2>1, <2>2, <2>3 DEF Placed, Reading, Installed
<1>11. ASSUME OpenStage(m) PROVE Placed(m)'
  <2>1. at[m] = "discard" /\ at'[m] \in {"failed", "discard"}
    BY <1>11 DEF OpenStage
  <2> QED
    BY <1>2, <2>1 DEF One, Placed, Reading, Installed
<1>12. ASSUME ReadBack(m) PROVE Placed(m)'
  <2>1. at[m] = "readback" /\ at'[m] \in {"cleanup", "uninstall"}
    BY <1>12 DEF ReadBack
  <2> QED
    BY <1>2, <1>3, <2>1 DEF One, Placed, Reading, Installed
<1> QED
  BY <1>4, <1>5, <1>6, <1>7, <1>8, <1>9, <1>10, <1>11, <1>12

(* Steps of a lone migrator that write only the stage. *)
LEMMA PlacedByStaging ==
  ASSUME Types, NEW m \in Migrators, One(m), Apart(m),
         \/ MakeStage(m) \/ WriteArtifact(m) \/ WriteManifest(m)
         \/ DiscardEntry(m) \/ RemoveStage(m)
  PROVE  One(m)'
<1> USE DEF Types, TypeOK, Goto, migratorVars
<1>1. /\ UNCHANGED <<target, recovery, source, userVars>>
      /\ at[m] \in {"mkdir", "write", "discard"}
      /\ at'[m] \in {"write", "verify", "discard", "failed"}
      /\ at'[m] \in {"write", "verify"} => at[m] \in {"mkdir", "write"}
  BY DEF MakeStage, WriteArtifact, WriteManifest, DiscardEntry, RemoveStage, Apart
<1>2. KeptIn(target)' /\ Early' = Early
  BY <1>1, Frame DEF One, Placed, Reading
<1>3. EarlyEditsKept'
  BY <1>2 DEF KeptIn, EarlyEditsKept
<1>4. stage' # Absent => stage'.manifest \in Known \cup {NoManifest}
  <2>1. stage # Absent => stage \in Tree /\ stage.manifest \in Known \cup {NoManifest}
    BY DEF One, Origins, Node
  <2>2. CASE MakeStage(m)
    BY <2>1, <2>2, FreshTrees DEF MakeStage
  <2>3. CASE WriteArtifact(m)
    <3>1. PICK path \in todo[m] :
            stage' = WithFile(IF stage = Absent THEN EmptyTree ELSE stage,
                              path, Wanted.artifacts[path])
      BY <2>3 DEF WriteArtifact
    <3>2. path \in Paths /\ Wanted.artifacts[path] \in Contents \cup {NoFile}
      BY ArtifactType, MigrationAssumption DEF FilesOf
    <3> QED
      BY <2>1, <3>1, <3>2, FreshTrees, EditedTrees
  <2>4. CASE WriteManifest(m)
    BY <2>1, <2>4, EditedTrees, MigrationAssumption DEF WriteManifest, Known
  <2>5. CASE DiscardEntry(m)
    BY <2>1, <2>5, EmptierTrees DEF DiscardEntry, Apart
  <2>6. CASE RemoveStage(m)
    BY <2>1, <2>6 DEF RemoveStage
  <2> QED
    BY <2>2, <2>3, <2>4, <2>5, <2>6
<1>5. Origins'
  BY <1>1, <1>4 DEF One, Origins, Known
<1>6. Placed(m)'
  BY <1>1, <1>2 DEF One, Placed, Reading, Installed
<1> QED
  BY <1>3, <1>5, <1>6 DEF One

(* The renames of a lone migrator, and the removal of the recovery. *)
LEMMA PlacedByMoving ==
  ASSUME Types, NEW m \in Migrators, One(m),
         \/ MoveToRecovery(m) \/ Install(m) \/ Uninstall(m) \/ Restore(m)
         \/ RemoveEntry(m) \/ RemoveRecovery(m)
  PROVE  One(m)'
<1> USE DEF Types, TypeOK, Goto
<1>1. UNCHANGED <<source, userVars>> /\ Early' = Early
  BY Frame DEF MoveToRecovery, Install, Uninstall, Restore, RemoveEntry, RemoveRecovery
<1>2. Origins'
  <2>1. recovery # Absent => recovery \in Tree
    BY DEF Node
  <2>2. CASE RemoveEntry(m)
    BY <2>1, <2>2, EmptierTrees DEF RemoveEntry, Vacant, One, Origins, Known
  <2> QED
    BY <2>2 DEF MoveToRecovery, Install, Uninstall, Restore, RemoveRecovery, One, Origins, Known
<1>3. ASSUME MoveToRecovery(m) PROVE One(m)'
  <2>1. Early' = {}
    BY <1>1, <1>3 DEF MoveToRecovery, One, Placed
  <2>2. at'[m] \in {"install", "failed"} /\ (at'[m] = "install" => target' = Absent)
    BY <1>3 DEF MoveToRecovery
  <2> QED
    BY <1>2, <2>1, <2>2 DEF One, Placed, EarlyEditsKept, Reading, Installed
<1>4. ASSUME Install(m) PROVE One(m)'
  <2>1. Early' = {}
    BY <1>1, <1>4 DEF Install, One, Placed
  <2>2. /\ at'[m] \in {"readback", "restore"} /\ (at'[m] = "readback" => stage' = Absent)
        /\ at'[m] = "restore" => target' = Absent
    BY <1>4 DEF Install, One, Placed
  <2> QED
    BY <1>2, <2>1, <2>2 DEF One, Placed, EarlyEditsKept, KeptIn, Reading, Installed
<1>5. ASSUME Uninstall(m) PROVE One(m)'
  <2>1. at'[m] = "restore" /\ target' = Absent
    BY <1>5, FreshTrees DEF Uninstall, One, Placed, Installed, Vacant
  <2>2. KeptIn(target) /\ stage = Absent
    BY <1>5 DEF Uninstall, One, Placed, Installed
  <2>3. KeptIn(stage)'
    <3>1. CASE target = Absent
      <4>1. Early' = {}
        BY <1>1, <2>2, <3>1, KeptNowhere
      <4> QED
        BY <4>1 DEF KeptIn
    <3>2. CASE target # Absent
      <4>1. stage' = target
        BY <1>5, <2>2, <3>2 DEF Uninstall, Vacant
      <4> QED
        BY <1>1, <2>2, <4>1 DEF KeptIn, Holds
    <3> QED
      BY <3>1, <3>2
  <2>4. EarlyEditsKept'
    BY <2>3 DEF KeptIn, EarlyEditsKept
  <2> QED
    BY <1>2, <2>1, <2>3, <2>4 DEF One, Placed, Reading, Installed
<1>6. ASSUME Restore(m) PROVE One(m)'
  <2>1. at'[m] = "failed" /\ KeptIn(stage) /\ UNCHANGED stage
    BY <1>6 DEF Restore, One, Placed
  <2>2. KeptIn(stage)'
    BY <1>1, <2>1, Frame
  <2>3. EarlyEditsKept'
    BY <2>2 DEF KeptIn, EarlyEditsKept
  <2> QED
    BY <1>2, <2>1, <2>3 DEF One, Placed, Reading, Installed
<1>7. ASSUME RemoveEntry(m) \/ RemoveRecovery(m) PROVE One(m)'
  <2>1. /\ UNCHANGED <<target, stage>> /\ at[m] \in {"cleanup", "rmdir"}
        /\ at'[m] \in {"cleanup", "rmdir", "done", "failed"}
    BY <1>7 DEF RemoveEntry, RemoveRecovery
  <2>2. KeptIn(target)' /\ stage' = Absent
    BY <1>1, <2>1, Frame DEF One, Placed, Installed
  <2>3. EarlyEditsKept'
    BY <2>2 DEF KeptIn, EarlyEditsKept
  <2> QED
    BY <1>2, <2>1, <2>2, <2>3 DEF One, Placed, Reading, Installed
<1> QED
  BY <1>3, <1>4, <1>5, <1>6, <1>7

(* What the user writes beside one migrator: the note is in the target, and it is not an
   early one when the migrator has made its last read. *)
LEMMA PlacedByEdit ==
  ASSUME Types, NEW m \in Migrators, One(m), Apart(m), UserEdit
  PROVE  One(m)'
<1> USE DEF Types, TypeOK
<1>1. /\ target \in Tree /\ UNCHANGED <<stage, recovery, at, source>>
  BY DEF UserEdit, Node, migratorVars
<1>2. PICK path \in Paths, text \in UserContents \cup {NoFile} :
        LET written == IF text = NoFile THEN {} ELSE {<<path, text>>}
            kept(writings) == {w \in writings : w[1] # path}
        IN  /\ target' = WithFile(target, path, text)
            /\ userEdits' = kept(userEdits) \cup written
            /\ lateEdits' = kept(lateEdits) \cup (IF Unguarded THEN written ELSE {})
  BY DEF UserEdit
<1>3. text \in Contents \cup {NoFile}
  BY MigrationAssumption
<1>4. /\ target' \in Tree /\ target'.manifest = target.manifest /\ target'.files[path] = text
      /\ \A other \in Paths \ {path} : target'.files[other] = target.files[other]
  BY <1>1, <1>2, <1>3, EditedTrees
<1>5. target' # Absent
  BY <1>4, MarkAssumption
<1>6. \A w \in Early' :
        \/ w \in Early /\ w[1] \in Paths \ {path}
        \/ ~Unguarded /\ w[1] = path /\ w[2] = text
  BY <1>2 DEF Early
<1>7. \A w \in Early' : Holds(target, {w}) \/ w \notin Early => Holds(target', {w})
  BY <1>4, <1>5, <1>6 DEF Holds
<1>8. EarlyEditsKept'
  BY <1>1, <1>6, <1>7 DEF One, EarlyEditsKept, Holds
<1>9. Origins'
  BY <1>1, <1>4, MarkAssumption DEF One, Origins, Known
<1>10. Placed(m)'
  <2>1. KeptIn(target) => KeptIn(target)'
    BY <1>6, <1>7 DEF KeptIn, Holds
  <2>2. at[m] \notin {"install", "restore"}
    BY <1>1, MarkAssumption DEF One, Placed
  <2>3. at[m] = "recover" => Early' = {}
    BY <1>6 DEF One, Placed, Unguarded
  <2> QED
    BY <1>1, <2>1, <2>2, <2>3 DEF One, Placed, Reading, Installed, Known
<1> QED
  BY <1>8, <1>9, <1>10 DEF One

(* Nobody who looks at the leftovers throws a note away. *)
LEMMA PlacedByInspector ==
  ASSUME Types, NEW m \in Migrators, One(m), Inspector
  PROVE  One(m)'
<1> USE DEF Types, TypeOK, migratorVars
<1>1. Quiet /\ UNCHANGED <<at, source, userVars>> /\ Early' = Early
  BY Frame DEF Inspector, ClearStage, RestoreRecovery, DropRecovery
<1>2. Placed(m)'
  BY <1>1 DEF Quiet, Resting, Placed, Reading, Installed
<1>3. Origins'
  BY DEF Inspector, ClearStage, RestoreRecovery, DropRecovery, One, Origins, Known
<1>4. \A node : ~Holds(node, userEdits) => \A w \in Early : ~Holds(node, {w})
  BY DEF Holds, Early
<1>5. EarlyEditsKept'
  <2>1. CASE ClearStage
    BY <1>1, <1>4, <2>1 DEF ClearStage, One, EarlyEditsKept, Holds
  <2>2. CASE RestoreRecovery
    BY <1>1, <1>4, <2>2 DEF RestoreRecovery, One, EarlyEditsKept, Holds
  <2>3. CASE DropRecovery
    BY <1>1, <1>4, <2>3 DEF DropRecovery, One, EarlyEditsKept, Holds
  <2> QED
    BY <2>1, <2>2, <2>3 DEF Inspector
<1> QED
  BY <1>2, <1>3, <1>5 DEF One

LEMMA NextPlaced ==
  ASSUME Types, UserTextIsOwn, Lone => LoneSettled /\ LonePlaced, [Next]_<<vars, team>>
  PROVE  (Lone => LonePlaced)'
<1> SUFFICES ASSUME Lone' PROVE LonePlaced'
  OBVIOUS
<1>1. team' = team /\ Lone
  BY DEF Next, Lone
<1>2. PICK m \in Migrators : team = {m}
  BY <1>1, LoneTeam
<1>3. Apart(m) /\ One(m)
  BY <1>1, <1>2 DEF LoneSettled, LonePlaced, One
<1>4. CASE Next
  <2>1. \A n \in Migrators : Start(n) \/ Step(n) \/ Abort(n) => n = m
    BY <1>2, <1>3, LoneSteps
  <2>2. One(m)'
    BY <1>3, <1>4, <2>1, PlacedByLooking, PlacedByStaging, PlacedByMoving, PlacedByEdit,
       PlacedByInspector DEF Next, Step
  <2> QED
    BY <1>1, <1>2, <2>2 DEF One, LonePlaced
<1>5. CASE UNCHANGED <<vars, team>>
  <2>1. UNCHANGED <<vaultVars, userVars, at, source, target, stage>>
    BY <1>5 DEF vars, vaultVars, migratorVars
  <2>2. EarlyEditsKept' /\ Origins' /\ Early' = Early
        /\ KeptIn(target)' = KeptIn(target) /\ KeptIn(stage)' = KeptIn(stage)
    BY <1>3, <2>1, Frame DEF One
  <2>3. Placed(m)'
    BY <1>3, <2>1, <2>2 DEF One, Placed
  <2> QED
    BY <1>1, <1>2, <2>2, <2>3 DEF LonePlaced
<1> QED
  BY <1>4, <1>5

LEMMA InitPlaced == Init => (Lone => LonePlaced)
<1> SUFFICES ASSUME Init PROVE LonePlaced
  OBVIOUS
<1>1. team \subseteq Migrators /\ Early = {}
  BY MigrationAssumption DEF Init, Early
<1>2. Origins
  BY DEF Init, Origins, Known
<1> QED
  BY <1>1, <1>2 DEF Init, LonePlaced, Placed, EarlyEditsKept, Reading, Installed

(* A note the user wrote before a lone migration began its last read of the source is in
   the target, the recovery or the stage ever after, whatever fails or crashes, if no
   bundle records a text of the user's: a note that a manifest records is, as it stands,
   the exporter's. *)
THEOREM EditsSurviveMigration == ASSUME UserTextIsOwn PROVE Spec => []EarlyEditsSurvive
<1>1. Init => Inductive
  BY InitTypes, InitSettled, InitPlaced DEF Inductive
<1>2. Inductive /\ [Next]_<<vars, team>> => Inductive'
  BY NextTypes, NextSettled, NextPlaced DEF Inductive
<1>3. Inductive => EarlyEditsSurvive
  BY DEF Inductive, LonePlaced, EarlyEditsKept, Early, EarlyEditsSurvive
<1> QED
  BY <1>1, <1>2, <1>3, PTL DEF Spec

-----------------------------------------------------------------------------
(* A lone migration implements AtomicVault. *)

(* Until the first edit a lone migrator moves away only a whole target and installs only
   the whole new bundle, and then it has nothing to undo. *)
Guarded(m) ==
  /\ at[m] \in {"validate", "legacy", "mkdir", "write", "verify", "semantics", "reread"} =>
       source[m].manifest # NoManifest
  /\ at[m] \in {"legacy", "mkdir", "write", "verify", "semantics", "reread"} =>
       OwnsFiles(source[m].manifest, source[m].files)
  /\ at[m] # "idle" => Wanted \in asked

Unspoiled(m) ==
  /\ at[m] \in {"semantics", "reread", "recover", "install"} => Written(stage, Wanted)
  /\ at[m] = "recover" => Whole(target)
  /\ at[m] = "install" => target = Absent
  /\ at[m] = "readback" => Written(target, Wanted)
  /\ at[m] \notin {"uninstall", "restore"}

LoneAtomic == \A m \in team : Guarded(m) /\ (Untouched => Unspoiled(m))

LEMMA GuardedStays ==
  ASSUME Types, NEW m \in Migrators, team = {m}, Apart(m), Guarded(m), Next
  PROVE  Guarded(m)'
<1> USE DEF Types, TypeOK, Goto, migratorVars
<1>1. ASSUME Start(m) \/ Abort(m) PROVE Guarded(m)'
  BY <1>1 DEF Start, Abort, Guarded, Running
<1>2. ASSUME ReadManifest(m) PROVE Guarded(m)'
  <2>1. /\ at[m] = "manifest" /\ at'[m] \in {"failed", "regate", "validate"}
        /\ at'[m] = "validate" => source'[m] = WithManifest(EmptyTree, target.manifest)
        /\ at'[m] = "validate" => target.manifest # NoManifest
        /\ asked' = asked
    BY <1>2 DEF ReadManifest
  <2> QED
    BY <2>1 DEF Guarded, WithManifest, EmptyTree
<1>3. ASSUME ValidateSource(m) PROVE Guarded(m)'
  <2>1. /\ at[m] = "validate" /\ at'[m] \in {"legacy", "failed"} /\ asked' = asked
        /\ at'[m] = "legacy" => OwnsFiles(source[m].manifest, target.files)
    BY <1>3 DEF ValidateSource
  <2>2. at'[m] = "legacy" =>
          source'[m].manifest = source[m].manifest /\ source'[m].files = target.files
    BY <1>3 DEF ValidateSource, Tree
  <2> QED
    BY <2>1, <2>2 DEF Guarded
<1>4. ASSUME Gate(m) \/ Reinspect(m) \/ VerifyLegacy(m) \/ MakeStage(m) \/ WriteArtifact(m)
             \/ WriteManifest(m) \/ VerifyStage(m) \/ VerifySemantics(m) \/ RereadSource(m)
             \/ OpenStage(m) \/ DiscardEntry(m) \/ RemoveStage(m) \/ MoveToRecovery(m)
             \/ Install(m) \/ ReadBack(m) \/ Uninstall(m) \/ Restore(m) \/ RemoveEntry(m)
             \/ RemoveRecovery(m)
      PROVE  Guarded(m)'
  <2>1. UNCHANGED <<source, asked>> /\ at[m] # "idle"
    BY <1>4 DEF Gate, Reinspect, VerifyLegacy, MakeStage, WriteArtifact, WriteManifest,
       VerifyStage, VerifySemantics, RereadSource, OpenStage, DiscardEntry, RemoveStage,
       MoveToRecovery, Install, ReadBack, Uninstall, Restore, RemoveEntry, RemoveRecovery
  <2>2. /\ at'[m] \in {"mkdir", "write", "verify", "semantics", "reread"} =>
             at[m] \in {"legacy", "mkdir", "write", "verify", "semantics"}
        /\ at'[m] \notin {"validate", "legacy"}
    BY <1>4 DEF Gate, Reinspect, VerifyLegacy, MakeStage, WriteArtifact, WriteManifest,
       VerifyStage, VerifySemantics, RereadSource, OpenStage, DiscardEntry, RemoveStage,
       MoveToRecovery, Install, ReadBack, Uninstall, Restore, RemoveEntry, RemoveRecovery
  <2> QED
    BY <2>1, <2>2 DEF Guarded
<1>5. ASSUME UserEdit \/ Inspector PROVE Guarded(m)'
  BY <1>5 DEF UserEdit, Inspector, ClearStage, RestoreRecovery, DropRecovery, Guarded
<1>6. \A n \in Migrators : Start(n) \/ Step(n) \/ Abort(n) => n = m
  BY LoneSteps
<1> QED
  BY <1>1, <1>2, <1>3, <1>4, <1>5, <1>6 DEF Next, Step

(* The first edit is never forgotten. *)
LEMMA EditsStay == ASSUME Types, Next, Untouched' PROVE Untouched /\ edits' = edits
<1>1. edits \in Nat /\ edits' = 0
  BY MigrationAssumption DEF Types, TypeOK, Untouched
<1>2. edits' \in {edits, edits + 1}
  BY DEF Next, Step, Inspector, Start, Gate, ReadManifest, Reinspect, ValidateSource,
     VerifyLegacy, MakeStage, WriteArtifact, WriteManifest, VerifyStage, VerifySemantics,
     RereadSource, OpenStage, DiscardEntry, RemoveStage, MoveToRecovery, Install, ReadBack,
     Uninstall, Restore, RemoveEntry, RemoveRecovery, Abort, UserEdit, ClearStage,
     RestoreRecovery, DropRecovery, userVars
<1> QED
  BY <1>1, <1>2 DEF Untouched

LEMMA NoEditYet == ASSUME Types, Untouched', UserEdit PROVE FALSE
<1>1. edits \in Nat /\ edits' = 0
  BY MigrationAssumption DEF Types, TypeOK, Untouched
<1> QED
  BY <1>1 DEF UserEdit

LEMMA WholeTrees ==
  /\ \A node : Written(node, Wanted) => Whole(node) /\ node.manifest = Wanted
  /\ \A node : Whole(node) => ~Vacant(node)
<1>1. Wanted # NoManifest
  BY MigrationAssumption, MarkAssumption
<1> QED
  BY <1>1 DEF Written, Whole, Vacant, EmptyTree

LEMMA UnspoiledStays ==
  ASSUME Types, NEW m \in Migrators, team = {m}, Apart(m), Guarded(m), Unspoiled(m), Next,
         Untouched'
  PROVE  Unspoiled(m)'
<1> USE DEF Types, TypeOK, Goto, vaultVars, migratorVars
<1>1. ASSUME Start(m) \/ Gate(m) \/ ReadManifest(m) \/ Reinspect(m) \/ ValidateSource(m)
             \/ VerifyLegacy(m) \/ MakeStage(m) \/ WriteArtifact(m) \/ WriteManifest(m)
             \/ OpenStage(m) \/ DiscardEntry(m) \/ RemoveStage(m) \/ RemoveEntry(m)
             \/ RemoveRecovery(m) \/ Uninstall(m) \/ Restore(m) \/ Abort(m)
      PROVE  Unspoiled(m)'
  <2>1. at'[m] \notin {"semantics", "reread", "recover", "install", "readback", "uninstall",
                       "restore"}
    BY <1>1 DEF Start, Gate, ReadManifest, Reinspect, ValidateSource, VerifyLegacy, MakeStage,
       WriteArtifact, WriteManifest, OpenStage, DiscardEntry, RemoveStage, RemoveEntry,
       RemoveRecovery, Uninstall, Restore, Abort, Unspoiled
  <2> QED
    BY <2>1 DEF Unspoiled
<1>2. ASSUME VerifyStage(m) PROVE Unspoiled(m)'
  <2>1. /\ at'[m] \in {"semantics", "failed"} /\ stage' = stage
        /\ at'[m] = "semantics" => Written(stage, Wanted)
    BY <1>2 DEF VerifyStage
  <2> QED
    BY <2>1 DEF Unspoiled
<1>3. ASSUME VerifySemantics(m) PROVE Unspoiled(m)'
  <2>1. at[m] = "semantics" /\ at'[m] \in {"failed", "discard", "reread"} /\ stage' = stage
    BY <1>3 DEF VerifySemantics
  <2> QED
    BY <2>1 DEF Unspoiled
<1>4. ASSUME RereadSource(m) PROVE Unspoiled(m)'
  <2>1. /\ at[m] = "reread" /\ at'[m] \in {"failed", "discard", "recover"}
        /\ stage' = stage /\ target' = target
        /\ at'[m] = "recover" => target # Absent /\ target = source[m]
    BY <1>4 DEF RereadSource
  <2>2. at'[m] = "recover" => Whole(target)
    BY <2>1 DEF Guarded, Whole
  <2> QED
    BY <2>1, <2>2 DEF Unspoiled
<1>5. ASSUME MoveToRecovery(m) PROVE Unspoiled(m)'
  <2>1. /\ at[m] = "recover" /\ at'[m] \in {"failed", "install"} /\ stage' = stage
        /\ at'[m] = "install" => target' = Absent
    BY <1>5 DEF MoveToRecovery
  <2> QED
    BY <2>1 DEF Unspoiled
<1>6. ASSUME Install(m) PROVE Unspoiled(m)'
  <2>1. at[m] = "install" /\ target = Absent /\ Written(stage, Wanted)
    BY <1>6 DEF Install, Unspoiled
  <2>2. at'[m] = "readback" /\ target' = stage
    BY <1>6, <2>1 DEF Install, Written, Vacant
  <2> QED
    BY <2>1, <2>2 DEF Unspoiled
<1>7. ASSUME ReadBack(m) PROVE Unspoiled(m)'
  <2>1. at'[m] = "cleanup"
    BY <1>7 DEF ReadBack, Unspoiled
  <2> QED
    BY <2>1 DEF Unspoiled
<1>8. ASSUME Inspector PROVE Unspoiled(m)'
  <2>1. at' = at /\ at[m] \in Resting
    BY <1>8 DEF Inspector, ClearStage, RestoreRecovery, DropRecovery, Quiet
  <2> QED
    BY <2>1 DEF Unspoiled, Resting
<1>9. \A n \in Migrators : Start(n) \/ Step(n) \/ Abort(n) => n = m
  BY LoneSteps
<1> QED
  BY <1>1, <1>2, <1>3, <1>4, <1>5, <1>6, <1>7, <1>8, <1>9, NoEditYet DEF Next, Step

(* What is published changes only when the new bundle is installed. *)
PublishesRightly ==
  \/ Published' = Published /\ asked' \in {asked, asked \cup {Wanted}}
  \/ Published' = Wanted /\ Wanted \in asked /\ asked' = asked

LEMMA PublishStep ==
  ASSUME Types, NEW m \in Migrators, team = {m}, Apart(m), Settled(m), Guarded(m),
         Unspoiled(m), Next, Untouched, Untouched'
  PROVE  PublishesRightly
<1> USE DEF Types, TypeOK, Goto
<1>1. ASSUME UNCHANGED <<target, recovery>>, asked' \in {asked, asked \cup {Wanted}}
      PROVE  PublishesRightly
  BY <1>1 DEF PublishesRightly, Published, Whole
<1>2. ASSUME \/ Start(m) \/ Gate(m) \/ ReadManifest(m) \/ Reinspect(m) \/ ValidateSource(m)
             \/ VerifyLegacy(m) \/ MakeStage(m) \/ WriteArtifact(m) \/ WriteManifest(m)
             \/ VerifyStage(m) \/ VerifySemantics(m) \/ RereadSource(m)
             \/ OpenStage(m) \/ DiscardEntry(m) \/ RemoveStage(m) \/ ReadBack(m) \/ Abort(m)
      PROVE  PublishesRightly
  <2>1. UNCHANGED <<target, recovery>> /\ asked' \in {asked, asked \cup {Wanted}}
    BY <1>2 DEF Start, Gate, ReadManifest, Reinspect, ValidateSource, VerifyLegacy, MakeStage,
       WriteArtifact, WriteManifest, VerifyStage, VerifySemantics, RereadSource, OpenStage,
       DiscardEntry, RemoveStage, ReadBack, Abort, Apart, vaultVars
  <2> QED
    BY <1>1, <2>1
<1>3. ASSUME MoveToRecovery(m) PROVE PublishesRightly
  <2>1. CASE UNCHANGED <<target, recovery>>
    BY <1>1, <1>3, <2>1 DEF MoveToRecovery
  <2>2. CASE ~UNCHANGED <<target, recovery>>
    <3>1. recovery' = target /\ target' = Absent /\ asked' = asked /\ Whole(target)
      BY <1>3, <2>2 DEF MoveToRecovery, Unspoiled
    <3> QED
      BY <3>1 DEF PublishesRightly, Published, Whole
  <2> QED
    BY <2>1, <2>2
<1>4. ASSUME Install(m) PROVE PublishesRightly
  <2>1. /\ at[m] = "install" /\ target = Absent /\ Written(stage, Wanted)
        /\ Wanted \in asked
    BY <1>4 DEF Install, Unspoiled, Guarded
  <2>2. target' = stage /\ asked' = asked
    BY <1>4, <2>1 DEF Install, Written, Vacant
  <2>3. Whole(stage) /\ stage.manifest = Wanted
    BY <2>1, WholeTrees
  <2>4. Whole(target') /\ target'.manifest = Wanted
    BY <2>2, <2>3
  <2>5. Published' = Wanted
    BY <2>4 DEF Published, Whole
  <2> QED
    BY <2>1, <2>2, <2>5 DEF PublishesRightly
<1>5. ASSUME RemoveEntry(m) \/ RemoveRecovery(m) PROVE PublishesRightly
  <2>1. /\ at[m] \in {"cleanup", "rmdir"} /\ target' = target /\ asked' = asked
    BY <1>5 DEF RemoveEntry, RemoveRecovery
  <2>2. Whole(target)
    BY <2>1, WholeTrees DEF Settled
  <2> QED
    BY <2>1, <2>2 DEF PublishesRightly, Published, Whole
<1>6. ~Uninstall(m) /\ ~Restore(m)
  BY DEF Uninstall, Restore, Unspoiled
<1>7. ASSUME Inspector PROVE PublishesRightly
  <2>1. CASE ClearStage
    BY <1>1, <2>1 DEF ClearStage
  <2>2. CASE RestoreRecovery
    BY <2>2 DEF RestoreRecovery, PublishesRightly, Published, Whole
  <2>3. CASE DropRecovery
    BY <2>3 DEF DropRecovery, PublishesRightly, Published, Whole
  <2> QED
    BY <1>7, <2>1, <2>2, <2>3 DEF Inspector
<1>8. \A n \in Migrators : Start(n) \/ Step(n) \/ Abort(n) => n = m
  BY LoneSteps
<1> QED
  BY <1>2, <1>3, <1>4, <1>5, <1>6, <1>7, <1>8, NoEditYet DEF Next, Step

(* A manifest, or none: never what stands for a spoiled namespace. *)
LEMMA PublishedType == ASSUME Types PROVE Published \in Manifest \cup {NoManifest}
<1>1. \A node \in Node : Whole(node) => node.manifest \in Manifest
  BY DEF Whole, Node, Tree
<1>2. {target, recovery} \subseteq Node
  BY DEF Types, TypeOK
<1> QED
  BY <1>1, <1>2 DEF Published

LEMMA StepPublishes ==
  ASSUME Types, NEW m \in Migrators, team = {m}, Apart(m), Settled(m), Guarded(m),
         Untouched => Unspoiled(m), [Next]_<<vars, team>>
  PROVE  [Atomic!Next]_(Atomic!vars)
<1> DEFINE Content == IF Untouched THEN Published ELSE Absent
<1>1. CASE UNCHANGED <<vars, team>>
  <2>1. UNCHANGED <<target, recovery, edits, asked>>
    BY <1>1 DEF vars, vaultVars, userVars
  <2> QED
    BY <2>1 DEF Atomic!vars, Published, Whole, Untouched
<1>2. CASE Next /\ Untouched'
  <2>1. Untouched
    BY <1>2, EditsStay
  <2>2. PublishesRightly
    BY <1>2, <2>1, PublishStep
  <2>3. Content = Published /\ Content' = Published'
    BY <1>2, <2>1
  <2>4. Published # Absent
    BY PublishedType, MarkAssumption
  <2> QED
    BY <1>2, <2>1, <2>2, <2>3, <2>4
    DEF PublishesRightly, Atomic!Next, Atomic!Ask, Atomic!Publish, Atomic!vars
<1>3. CASE Next /\ ~Untouched'
  <2>1. Content' = Absent
    BY <1>3
  <2>2. CASE \E n \in Migrators : Start(n)
    <3>1. Content' = Content /\ asked' = asked \cup {Wanted}
      BY <1>3, <2>2 DEF Start, userVars, Untouched
    <3> QED
      BY <3>1 DEF Atomic!Next, Atomic!Ask
  <2>3. CASE ~\E n \in Migrators : Start(n)
    <3>1. asked' = asked
      BY <1>3, <2>3 DEF Next, Step, Inspector, Gate, ReadManifest, Reinspect, ValidateSource,
         VerifyLegacy, MakeStage, WriteArtifact, WriteManifest, VerifyStage, VerifySemantics,
         RereadSource, OpenStage, DiscardEntry, RemoveStage, MoveToRecovery, Install, ReadBack,
         Uninstall, Restore, RemoveEntry, RemoveRecovery, Abort, UserEdit, ClearStage,
         RestoreRecovery, DropRecovery
    <3> QED
      BY <2>1, <3>1 DEF Atomic!Next, Atomic!Spoil
  <2> QED
    BY <2>2, <2>3
<1> QED
  BY <1>1, <1>2, <1>3

LEMMA InitPublishes == Init => Atomic!Init
<1> SUFFICES ASSUME Init PROVE Atomic!Init
  OBVIOUS
<1>1. ~Whole(recovery) /\ Untouched
  BY DEF Init, Whole, Untouched
<1>2. CASE ~Whole(target)
  BY <1>1, <1>2 DEF Init, Published, Atomic!Init
<1>3. CASE Whole(target)
  <2>1. /\ target \in InitialTargets \ {Absent} /\ target.manifest # NoManifest
        /\ Published = target.manifest /\ asked = {target.manifest}
    BY <1>3 DEF Init, Whole, Published
  <2> QED
    BY <1>1, <2>1 DEF Atomic!Init
<1> QED
  BY <1>2, <1>3

AtomicInv == Types /\ Lone /\ LoneSettled /\ LoneAtomic

LEMMA NextAtomic == AtomicInv /\ [Next]_<<vars, team>> => AtomicInv' /\ [Atomic!Next]_(Atomic!vars)
<1> SUFFICES ASSUME AtomicInv, [Next]_<<vars, team>>
             PROVE  AtomicInv' /\ [Atomic!Next]_(Atomic!vars)
  OBVIOUS
<1>1. Types' /\ Lone' /\ LoneSettled'
  <2>1. Types' /\ (Lone => LoneSettled)'
    BY NextTypes, NextSettled DEF AtomicInv
  <2>2. Lone'
    BY DEF AtomicInv, Next, Lone
  <2> QED
    BY <2>1, <2>2
<1>2. PICK m \in Migrators : team = {m}
  BY LoneTeam DEF AtomicInv
<1>3. Types /\ Apart(m) /\ Settled(m) /\ Guarded(m) /\ (Untouched => Unspoiled(m)) /\ team' = team
  BY <1>2 DEF AtomicInv, LoneSettled, LoneAtomic, Next
<1>4. CASE Next
  <2>1. Guarded(m)'
    BY <1>2, <1>3, <1>4, GuardedStays
  <2>2. (Untouched => Unspoiled(m))'
    BY <1>2, <1>3, <1>4, EditsStay, UnspoiledStays
  <2> QED
    BY <1>1, <1>2, <1>3, <1>4, <2>1, <2>2, StepPublishes DEF AtomicInv, LoneAtomic
<1>5. CASE UNCHANGED <<vars, team>>
  <2>1. LoneAtomic'
    BY <1>2, <1>3, <1>5 DEF LoneAtomic, Guarded, Unspoiled, Untouched, Written, Whole, Vacant,
       OwnsFiles, vars, vaultVars, migratorVars, userVars
  <2> QED
    BY <1>1, <1>2, <1>3, <1>5, <2>1, StepPublishes DEF AtomicInv
<1> QED
  BY <1>4, <1>5

LEMMA InitAtomic == Init /\ Lone => AtomicInv
<1> SUFFICES ASSUME Init, Lone PROVE AtomicInv
  OBVIOUS
<1>1. Types /\ LoneSettled
  BY InitTypes, InitSettled
<1>2. LoneAtomic
  <2>1. team \subseteq Migrators
    BY MigrationAssumption DEF Init
  <2> QED
    BY <2>1 DEF Init, LoneAtomic, Guarded, Unspoiled
<1> QED
  BY <1>1, <1>2 DEF AtomicInv

(* Whatever fails or crashes, a lone migration replaces the v1 bundle by the new one in
   one step, as AtomicVault promises for exports, until a user edits the notes. *)
THEOREM LoneIsAtomic == Spec /\ Lone => AtomicMigration
<1> QED
  BY InitPublishes, InitAtomic, NextAtomic, PTL DEF Spec, AtomicMigration, Atomic!Spec

=============================================================================
