------------------------ MODULE VaultNamespaceProofs ------------------------
(***************************************************************************)
(* Proofs about VaultNamespace, for any set of exporters, any paths and    *)
(* bundles and any number of crashes.                                      *)
(***************************************************************************)
EXTENDS VaultNamespace, TLAPS

-----------------------------------------------------------------------------
(* Trees. *)

(* An empty directory and a freshly written bundle are trees. *)
LEMMA FreshTrees ==
  /\ EmptyTree \in Tree
  /\ \A m \in Manifest : BundleTree(m) \in Tree
BY DEF EmptyTree, Tree, NoFiles, Files, BundleTree, Manifest

(* Writing or removing one file, or the manifest, of a tree gives a tree. *)
LEMMA EditedTrees ==
  ASSUME NEW t \in Tree
  PROVE  /\ \A path \in Paths, text \in Contents \cup {NoFile} :
              WithFile(t, path, text) \in Tree
         /\ \A m \in Manifest \cup {NoManifest} : WithManifest(t, m) \in Tree
BY DEF Tree, Files, WithFile, WithManifest

(* Writing a file or a manifest fills a tree; a file leaves its manifest. *)
LEMMA FilledTrees ==
  ASSUME NEW t \in Tree
  PROVE  /\ \A path \in Paths, text \in Contents : ~Vacant(WithFile(t, path, text))
         /\ \A m \in Manifest : ~Vacant(WithManifest(t, m))
         /\ \A path, text : WithFile(t, path, text).manifest = t.manifest
         /\ \A m : WithManifest(t, m).manifest = m
         /\ EmptyTree.manifest = NoManifest
<1>1. ASSUME NEW path \in Paths, NEW text \in Contents
      PROVE  ~Vacant(WithFile(t, path, text))
  <2>1. WithFile(t, path, text) # Absent
    BY EditedTrees, MarkAssumption
  <2>2. WithFile(t, path, text).files[path] = text
    BY DEF WithFile, Tree, Files
  <2>3. EmptyTree.files[path] = NoFile
    BY DEF EmptyTree, NoFiles
  <2> QED
    BY <2>1, <2>2, <2>3, TreeAssumption DEF Vacant
<1>2. ASSUME NEW m \in Manifest PROVE ~Vacant(WithManifest(t, m))
  <2>1. WithManifest(t, m) # Absent
    BY EditedTrees, MarkAssumption
  <2>2. WithManifest(t, m).manifest = m
    BY DEF WithManifest, Tree
  <2> QED
    BY <2>1, <2>2, MarkAssumption DEF Vacant, EmptyTree
<1>3. \A path, text : WithFile(t, path, text).manifest = t.manifest
  BY DEF WithFile, Tree
<1>4. \A m : WithManifest(t, m).manifest = m
  BY DEF WithManifest, Tree
<1>5. EmptyTree.manifest = NoManifest
  BY DEF EmptyTree
<1> QED
  BY <1>1, <1>2, <1>3, <1>4, <1>5

(* The contents of an artifact are contents. *)
LEMMA ArtifactType ==
  \A m \in Manifest : \A path \in Paths : m.artifacts[path] \in Contents \cup {NoFile}
BY DEF Manifest, Files

-----------------------------------------------------------------------------
(* Types. *)

LEMMA InitTypeOK == Init => TypeOK
<1> SUFFICES ASSUME Init PROVE TypeOK
  OBVIOUS
<1>1. target \in Node
  BY FreshTrees, RequestAssumption DEF Init, Node
<1>2. asked \subseteq Requests
  <2>1. \A r \in Requests : BundleTree(r).manifest = r
    BY DEF BundleTree
  <2> QED
    BY <2>1, RequestAssumption DEF Init, Vacant
<1> QED
  BY <1>1, <1>2, RequestAssumption DEF Init, TypeOK, Node, Resting, Running, Phases

(* Every step of the exporters, the user and the inspector keeps the types. *)
LEMMA NextTypeOK == TypeOK /\ [Next]_vars => TypeOK'
<1> SUFFICES ASSUME TypeOK, [Next]_vars PROVE TypeOK'
  OBVIOUS
<1> USE DEF TypeOK, Goto, vaultVars, userVars, Resting, Running
<1>1. ASSUME NEW e \in Exporters, Start(e) PROVE TypeOK'
  BY <1>1 DEF Start, Phases, Node
<1>2. ASSUME NEW e \in Exporters, Gate(e) PROVE TypeOK'
  BY <1>2, FreshTrees, EditedTrees, RequestAssumption DEF Gate, Node
<1>3. ASSUME NEW e \in Exporters, Refuse(e) PROVE TypeOK'
  BY <1>3, FreshTrees, EditedTrees, RequestAssumption DEF Refuse, Node
<1>4. ASSUME NEW e \in Exporters, Diff(e) PROVE TypeOK'
  BY <1>4, FreshTrees, EditedTrees, RequestAssumption DEF Diff, Node, Phases
<1>5. ASSUME NEW e \in Exporters, Preflight(e) PROVE TypeOK'
  BY <1>5, FreshTrees, EditedTrees, RequestAssumption DEF Preflight, Node, Phases
<1>6. ASSUME NEW e \in Exporters, VerifySnapshot(e) PROVE TypeOK'
  BY <1>6, FreshTrees, EditedTrees, RequestAssumption DEF VerifySnapshot, Node
<1>7. ASSUME NEW e \in Exporters, Reject(e) PROVE TypeOK'
  BY <1>7, FreshTrees, EditedTrees, RequestAssumption DEF Reject, Node
<1>8. ASSUME NEW e \in Exporters, MakeStage(e) PROVE TypeOK'
  BY <1>8, FreshTrees, EditedTrees, RequestAssumption DEF MakeStage, Node, FilesOf
<1>9. ASSUME NEW e \in Exporters, WriteArtifact(e) PROVE TypeOK'
  BY <1>9, FreshTrees, EditedTrees, ArtifactType, RequestAssumption DEF WriteArtifact, Node
<1>10. ASSUME NEW e \in Exporters, WriteManifest(e) PROVE TypeOK'
  BY <1>10, FreshTrees, EditedTrees, RequestAssumption DEF WriteManifest, Node
<1>11. ASSUME NEW e \in Exporters, VerifyStage(e) PROVE TypeOK'
  BY <1>11, FreshTrees, EditedTrees, RequestAssumption DEF VerifyStage, Node, Phases
<1>12. ASSUME NEW e \in Exporters, ProbeTarget(e) PROVE TypeOK'
  BY <1>12, FreshTrees, EditedTrees, RequestAssumption DEF ProbeTarget, Node
<1>13. ASSUME NEW e \in Exporters, MoveToRecovery(e) PROVE TypeOK'
  BY <1>13, FreshTrees, EditedTrees, RequestAssumption DEF MoveToRecovery, Node
<1>14. ASSUME NEW e \in Exporters, Install(e) PROVE TypeOK'
  BY <1>14, FreshTrees, EditedTrees, RequestAssumption DEF Install, Node
<1>15. ASSUME NEW e \in Exporters, ReadBack(e) PROVE TypeOK'
  BY <1>15, FreshTrees, EditedTrees, RequestAssumption DEF ReadBack, Node
<1>16. ASSUME NEW e \in Exporters, RemoveEntry(e) PROVE TypeOK'
  <2>1. recovery \in Tree
    BY <1>16, FreshTrees DEF RemoveEntry, Vacant, Node
  <2>2. recovery' \in Node
    BY <1>16, <2>1, EditedTrees DEF RemoveEntry, Node
  <2>3. at' \in [Exporters -> Resting \cup Running]
    BY <1>16 DEF RemoveEntry
  <2>4. /\ \A f \in Exporters : at'[f] \in Running => at[f] \in Running
        /\ UNCHANGED <<target, stage, phase, request, snapshot, hadTarget, todo,
                       asked, userEdits, lateEdits, edits, aborts>>
    BY <1>16 DEF RemoveEntry
  <2> QED
    BY <2>2, <2>3, <2>4
<1>17. ASSUME NEW e \in Exporters, RemoveRecovery(e) PROVE TypeOK'
  BY <1>17, FreshTrees, EditedTrees, RequestAssumption DEF RemoveRecovery, Node
<1>18. ASSUME NEW e \in Exporters, Abort(e) PROVE TypeOK'
  BY <1>18, FreshTrees, EditedTrees, RequestAssumption DEF Abort, Node
<1>19. ASSUME UserEdit PROVE TypeOK'
  BY <1>19, EditedTrees, RequestAssumption DEF UserEdit, Node, exporterVars
<1>20. ASSUME Inspector PROVE TypeOK'
  BY <1>20 DEF Inspector, ClearStage, RestoreRecovery, DropRecovery, Node, exporterVars
<1>21. CASE UNCHANGED vars
  BY <1>21 DEF vars, exporterVars
<1> QED
  BY <1>1, <1>2, <1>3, <1>4, <1>5, <1>6, <1>7, <1>8, <1>9, <1>10, <1>11, <1>12, <1>13, <1>14, <1>15, <1>16, <1>17, <1>18, <1>19, <1>20, <1>21 DEF Next, Step

(* Every reachable state is well typed: VaultNamespace's variables hold
   nothing but trees of the vault and the locals of commit_inner. *)
THEOREM TypeCorrect == Spec => []TypeOK
<1>1. Init => TypeOK
  BY InitTypeOK
<1>2. TypeOK /\ [Next]_vars => TypeOK'
  BY NextTypeOK
<1> QED
  BY <1>1, <1>2, PTL DEF Spec

-----------------------------------------------------------------------------
(* Trees that hold something. *)

(* A whole bundle is no empty directory. *)
LEMMA WholeIsNotVacant == \A node : Whole(node) => ~Vacant(node)
BY DEF Whole, Vacant, EmptyTree

(* What verify_written_namespace accepts is the wanted bundle, whole. *)
LEMMA WrittenIsWhole ==
  \A node, m : m # NoManifest /\ Written(node, m) => Whole(node) /\ node.manifest = m
BY DEF Written, Whole, Vacant

(* A request is no mark for a missing manifest. *)
LEMMA RequestsAreManifests == \A r \in Requests : r \in Manifest /\ r # NoManifest
BY RequestAssumption, MarkAssumption

LEMMA InitInductive == ASSUME NeverEmpty PROVE Init => Inductive
<1> SUFFICES ASSUME Init PROVE Inductive
  OBVIOUS
<1>1. target # EmptyTree /\ stage = Absent /\ recovery = Absent
  BY DEF Init, NeverEmpty
<1>2. \A e \in Exporters : at[e] = "idle"
  BY DEF Init
<1>3. recovery # EmptyTree
  BY <1>1, FreshTrees, MarkAssumption
<1>4. target # Absent => target.manifest \in asked
  BY <1>1 DEF Init, Vacant
<1>5. Provenance
  BY <1>1, <1>2, <1>4 DEF Provenance, Running
<1>6. CleanupIsSafe /\ OneHolder
  BY <1>2 DEF CleanupIsSafe, OneHolder, Holders
<1> QED
  BY <1>1, <1>2, <1>3, <1>5, <1>6
  DEF Inductive, CleanersHold, EmptiedLast, NoEmptyTarget, StageFilled, Staged,
      TodoIsWanted

(* An edit is not forgotten. *)
LEMMA EditsStay ==
  ASSUME TypeOK, [Next]_vars, Untouched'
  PROVE  Untouched
<1>1. edits \in Nat /\ edits' = 0
  BY RequestAssumption DEF TypeOK, Untouched
<1>2. edits' \in {edits, edits + 1}
  BY DEF Next, Step, Inspector, Start, Gate, Refuse, Diff, Preflight, VerifySnapshot, Reject,
     MakeStage, WriteArtifact, WriteManifest, VerifyStage, ProbeTarget, MoveToRecovery,
     Install, ReadBack, RemoveEntry, RemoveRecovery, Abort, UserEdit, ClearStage,
     RestoreRecovery, DropRecovery, vars, userVars
<1> QED
  BY <1>1, <1>2 DEF Untouched

(* Steps that touch no path of the vault only move one exporter on; none of
   them enters the part of the commit the invariant speaks about, except by
   the probe and the read back. *)
LEMMA NextInductive ==
  ASSUME TypeOK, TypeOK', Inductive, [Next]_vars
  PROVE  Inductive'
<1> SUFFICES ASSUME Untouched, Untouched' PROVE Inductive'
  BY EditsStay DEF Inductive
<1> USE DEF Goto, vaultVars, userVars, Resting, Running, TypeOK
<1> USE DEF Inductive, CleanupIsSafe, OneHolder, Holders, CleanersHold, EmptiedLast,
            NoEmptyTarget, StageFilled, Staged, TodoIsWanted
<1>1. ASSUME NEW e \in Exporters, Start(e) PROVE Inductive'
  <2>1. (CleanupIsSafe /\ CleanersHold /\ TodoIsWanted)'
    BY <1>1 DEF Start
  <2>2. OneHolder'
    BY <1>1 DEF Start
  <2>3. (EmptiedLast /\ NoEmptyTarget)'
    BY <1>1 DEF Start
  <2>4. StageFilled'
    BY <1>1 DEF Start
  <2>5. Provenance'
    BY <1>1 DEF Start, Provenance
  <2> QED
    BY <2>1, <2>2, <2>3, <2>4, <2>5
<1>2. ASSUME NEW e \in Exporters, Gate(e) PROVE Inductive'
  <2>1. (CleanupIsSafe /\ CleanersHold /\ TodoIsWanted)'
    BY <1>2 DEF Gate
  <2>2. OneHolder'
    BY <1>2 DEF Gate
  <2>3. (EmptiedLast /\ NoEmptyTarget)'
    BY <1>2 DEF Gate
  <2>4. StageFilled'
    BY <1>2 DEF Gate
  <2>5. Provenance'
    BY <1>2 DEF Gate, Provenance
  <2> QED
    BY <2>1, <2>2, <2>3, <2>4, <2>5
<1>3. ASSUME NEW e \in Exporters, Refuse(e) PROVE Inductive'
  <2>1. (CleanupIsSafe /\ CleanersHold /\ TodoIsWanted)'
    BY <1>3 DEF Refuse
  <2>2. OneHolder'
    BY <1>3 DEF Refuse
  <2>3. (EmptiedLast /\ NoEmptyTarget)'
    BY <1>3 DEF Refuse
  <2>4. StageFilled'
    BY <1>3 DEF Refuse
  <2>5. Provenance'
    BY <1>3 DEF Refuse, Provenance
  <2> QED
    BY <2>1, <2>2, <2>3, <2>4, <2>5
<1>4. ASSUME NEW e \in Exporters, Diff(e) PROVE Inductive'
  <2>1. (CleanupIsSafe /\ CleanersHold /\ TodoIsWanted)'
    BY <1>4 DEF Diff
  <2>2. OneHolder'
    BY <1>4 DEF Diff
  <2>3. (EmptiedLast /\ NoEmptyTarget)'
    BY <1>4 DEF Diff
  <2>4. StageFilled'
    BY <1>4 DEF Diff
  <2>5. Provenance'
    BY <1>4 DEF Diff, Provenance
  <2> QED
    BY <2>1, <2>2, <2>3, <2>4, <2>5
<1>5. ASSUME NEW e \in Exporters, Preflight(e) PROVE Inductive'
  <2>1. (CleanupIsSafe /\ CleanersHold /\ TodoIsWanted)'
    BY <1>5 DEF Preflight
  <2>2. OneHolder'
    BY <1>5 DEF Preflight
  <2>3. (EmptiedLast /\ NoEmptyTarget)'
    BY <1>5 DEF Preflight
  <2>4. StageFilled'
    BY <1>5 DEF Preflight
  <2>5. Provenance'
    BY <1>5 DEF Preflight, Provenance
  <2> QED
    BY <2>1, <2>2, <2>3, <2>4, <2>5
<1>6. ASSUME NEW e \in Exporters, VerifySnapshot(e) PROVE Inductive'
  <2>1. (CleanupIsSafe /\ CleanersHold /\ TodoIsWanted)'
    BY <1>6 DEF VerifySnapshot
  <2>2. OneHolder'
    BY <1>6 DEF VerifySnapshot
  <2>3. (EmptiedLast /\ NoEmptyTarget)'
    BY <1>6 DEF VerifySnapshot
  <2>4. StageFilled'
    BY <1>6 DEF VerifySnapshot
  <2>5. Provenance'
    BY <1>6 DEF VerifySnapshot, Provenance
  <2> QED
    BY <2>1, <2>2, <2>3, <2>4, <2>5
<1>7. ASSUME NEW e \in Exporters, Reject(e) PROVE Inductive'
  <2>1. (CleanupIsSafe /\ CleanersHold /\ TodoIsWanted)'
    BY <1>7 DEF Reject
  <2>2. OneHolder'
    BY <1>7 DEF Reject
  <2>3. (EmptiedLast /\ NoEmptyTarget)'
    BY <1>7 DEF Reject
  <2>4. StageFilled'
    BY <1>7 DEF Reject
  <2>5. Provenance'
    BY <1>7 DEF Reject, Provenance
  <2> QED
    BY <2>1, <2>2, <2>3, <2>4, <2>5
<1>8. ASSUME NEW e \in Exporters, MakeStage(e) PROVE Inductive'
  <2>1. (CleanupIsSafe /\ CleanersHold /\ TodoIsWanted)'
    BY <1>8 DEF MakeStage
  <2>2. OneHolder'
    BY <1>8 DEF MakeStage
  <2>3. (EmptiedLast /\ NoEmptyTarget)'
    BY <1>8 DEF MakeStage
  <2>4. StageFilled'
    BY <1>8, FreshTrees, MarkAssumption DEF MakeStage, Vacant
  <2>5. Provenance'
    BY <1>8, FreshTrees, FilledTrees DEF MakeStage, Provenance
  <2> QED
    BY <2>1, <2>2, <2>3, <2>4, <2>5
<1>9. ASSUME NEW e \in Exporters, WriteArtifact(e) PROVE Inductive'
  <2>1. (CleanupIsSafe /\ CleanersHold /\ TodoIsWanted)'
    BY <1>9 DEF WriteArtifact
  <2>2. OneHolder'
    BY <1>9 DEF WriteArtifact
  <2>3. (EmptiedLast /\ NoEmptyTarget)'
    BY <1>9 DEF WriteArtifact
  <2>4. StageFilled'
    <3>1. PICK path \in todo[e] :
            stage' = WithFile(IF stage = Absent THEN EmptyTree ELSE stage,
                              path, request[e].artifacts[path])
      BY <1>9 DEF WriteArtifact
    <3>2. path \in Paths /\ request[e].artifacts[path] \in Contents
      BY <1>9, ArtifactType, RequestAssumption DEF WriteArtifact, FilesOf
    <3>3. ~Vacant(stage')
      BY <3>1, <3>2, FreshTrees, FilledTrees DEF Node
    <3> QED
      BY <1>9, <3>3 DEF WriteArtifact
  <2>5. Provenance'
    <3>1. PICK path \in todo[e] :
            stage' = WithFile(IF stage = Absent THEN EmptyTree ELSE stage,
                              path, request[e].artifacts[path])
      BY <1>9 DEF WriteArtifact
    <3>2. stage'.manifest \in asked \cup {NoManifest}
      BY <3>1, FreshTrees, FilledTrees DEF Node, Provenance
    <3> QED
      BY <1>9, <3>2 DEF WriteArtifact, Provenance
  <2> QED
    BY <2>1, <2>2, <2>3, <2>4, <2>5
<1>10. ASSUME NEW e \in Exporters, WriteManifest(e) PROVE Inductive'
  <2>1. (CleanupIsSafe /\ CleanersHold /\ TodoIsWanted)'
    BY <1>10 DEF WriteManifest
  <2>2. OneHolder'
    BY <1>10 DEF WriteManifest
  <2>3. (EmptiedLast /\ NoEmptyTarget)'
    BY <1>10 DEF WriteManifest
  <2>4. StageFilled'
    BY <1>10, FilledTrees, RequestAssumption DEF WriteManifest, Node, Vacant
  <2>5. Provenance'
    BY <1>10, FilledTrees DEF WriteManifest, Provenance, Node
  <2> QED
    BY <2>1, <2>2, <2>3, <2>4, <2>5
<1>11. ASSUME NEW e \in Exporters, VerifyStage(e) PROVE Inductive'
  <2>1. (CleanupIsSafe /\ CleanersHold /\ TodoIsWanted)'
    BY <1>11 DEF VerifyStage
  <2>2. OneHolder'
    BY <1>11 DEF VerifyStage
  <2>3. (EmptiedLast /\ NoEmptyTarget)'
    BY <1>11 DEF VerifyStage
  <2>4. StageFilled'
    BY <1>11 DEF VerifyStage, Written
  <2>5. Provenance'
    BY <1>11 DEF VerifyStage, Provenance
  <2> QED
    BY <2>1, <2>2, <2>3, <2>4, <2>5
<1>12. ASSUME NEW e \in Exporters, ProbeTarget(e) PROVE Inductive'
  <2>1. (CleanupIsSafe /\ CleanersHold /\ TodoIsWanted)'
    BY <1>12 DEF ProbeTarget
  <2>2. OneHolder'
    BY <1>12 DEF ProbeTarget
  <2>3. (EmptiedLast /\ NoEmptyTarget)'
    BY <1>12 DEF ProbeTarget
  <2>4. StageFilled'
    BY <1>12 DEF ProbeTarget
  <2>5. Provenance'
    BY <1>12 DEF ProbeTarget, Provenance
  <2> QED
    BY <2>1, <2>2, <2>3, <2>4, <2>5
<1>13. ASSUME NEW e \in Exporters, MoveToRecovery(e) PROVE Inductive'
  <2>1. (CleanupIsSafe /\ CleanersHold /\ TodoIsWanted)'
    BY <1>13 DEF MoveToRecovery
  <2>2. OneHolder'
    BY <1>13 DEF MoveToRecovery, Vacant
  <2>3. (EmptiedLast /\ NoEmptyTarget)'
    BY <1>13, FreshTrees, MarkAssumption DEF MoveToRecovery, Vacant
  <2>4. StageFilled'
    BY <1>13 DEF MoveToRecovery, Vacant
  <2>5. Provenance'
    BY <1>13 DEF MoveToRecovery, Provenance
  <2> QED
    BY <2>1, <2>2, <2>3, <2>4, <2>5
<1>14. ASSUME NEW e \in Exporters, Install(e) PROVE Inductive'
  <2>1. (CleanupIsSafe /\ CleanersHold /\ TodoIsWanted)'
    BY <1>14 DEF Install, Written
  <2>2. OneHolder'
    BY <1>14 DEF Install
  <2>3. (EmptiedLast /\ NoEmptyTarget)'
    BY <1>14, WholeIsNotVacant DEF Install, Vacant
  <2>4. StageFilled'
    BY <1>14 DEF Install
  <2>5. Provenance'
    BY <1>14 DEF Install, Provenance
  <2> QED
    BY <2>1, <2>2, <2>3, <2>4, <2>5
<1>15. ASSUME NEW e \in Exporters, ReadBack(e) PROVE Inductive'
  <2>1. (CleanupIsSafe /\ CleanersHold /\ TodoIsWanted)'
    BY <1>15 DEF ReadBack
  <2>2. OneHolder'
    BY <1>15 DEF ReadBack
  <2>3. (EmptiedLast /\ NoEmptyTarget)'
    BY <1>15 DEF ReadBack
  <2>4. StageFilled'
    BY <1>15 DEF ReadBack
  <2>5. Provenance'
    BY <1>15 DEF ReadBack, Provenance
  <2> QED
    BY <2>1, <2>2, <2>3, <2>4, <2>5
<1>16. ASSUME NEW e \in Exporters, RemoveEntry(e) PROVE Inductive'
  <2>0. Whole(target) /\ target # Absent /\ target # EmptyTree
    BY <1>16, WrittenIsWhole, WholeIsNotVacant, RequestsAreManifests
    DEF RemoveEntry, Vacant
  <2>1. /\ UNCHANGED <<target, stage, hadTarget, phase, request, todo, asked>>
        /\ at' = [at EXCEPT ![e] = IF recovery' = EmptyTree THEN "rmdir" ELSE "cleanup"]
        /\ at[e] = "cleanup"
    BY <1>16 DEF RemoveEntry
  <2>2. /\ recovery \in Tree
        /\ recovery' \in Tree
        /\ recovery'.manifest \in {recovery.manifest, NoManifest}
    BY <1>16, FreshTrees, EditedTrees, FilledTrees DEF RemoveEntry, Vacant, Node
  <2>3. (CleanupIsSafe /\ CleanersHold /\ TodoIsWanted)'
    BY <2>1
  <2>4. OneHolder'
    BY <2>1, <2>2, MarkAssumption DEF Vacant
  <2>5. (EmptiedLast /\ NoEmptyTarget /\ StageFilled)'
    BY <2>0, <2>1
  <2>6. Provenance'
    BY <2>1, <2>2, MarkAssumption DEF Provenance
  <2> QED
    BY <2>3, <2>4, <2>5, <2>6
<1>17. ASSUME NEW e \in Exporters, RemoveRecovery(e) PROVE Inductive'
  <2>1. (CleanupIsSafe /\ CleanersHold /\ TodoIsWanted)'
    BY <1>17 DEF RemoveRecovery
  <2>2. OneHolder'
    BY <1>17 DEF RemoveRecovery, Vacant
  <2>3. (EmptiedLast /\ NoEmptyTarget)'
    BY <1>17, FreshTrees, MarkAssumption DEF RemoveRecovery, Vacant
  <2>4. StageFilled'
    BY <1>17 DEF RemoveRecovery, Vacant
  <2>5. Provenance'
    BY <1>17 DEF RemoveRecovery, Provenance
  <2> QED
    BY <2>1, <2>2, <2>3, <2>4, <2>5
<1>18. ASSUME NEW e \in Exporters, Abort(e) PROVE Inductive'
  <2>1. (CleanupIsSafe /\ CleanersHold /\ TodoIsWanted)'
    BY <1>18 DEF Abort
  <2>2. OneHolder'
    BY <1>18 DEF Abort
  <2>3. (EmptiedLast /\ NoEmptyTarget)'
    BY <1>18 DEF Abort
  <2>4. StageFilled'
    BY <1>18 DEF Abort
  <2>5. Provenance'
    BY <1>18 DEF Abort, Provenance
  <2> QED
    BY <2>1, <2>2, <2>3, <2>4, <2>5
<1>19. ASSUME UserEdit PROVE Inductive'
  BY <1>19 DEF UserEdit, Untouched
<1>20. ASSUME Inspector PROVE Inductive'
  <2>1. /\ UNCHANGED <<exporterVars, asked>>
        /\ \A e \in Exporters : at[e] \in Resting
    BY <1>20 DEF Inspector, Quiet, ClearStage, RestoreRecovery, DropRecovery
  <2>2. (CleanupIsSafe /\ OneHolder /\ CleanersHold /\ StageFilled /\ TodoIsWanted)'
    BY <2>1 DEF exporterVars
  <2>3. (EmptiedLast /\ NoEmptyTarget)'
    BY <1>20, FreshTrees, MarkAssumption, WholeIsNotVacant
    DEF Inspector, ClearStage, RestoreRecovery, DropRecovery, Vacant
  <2>4. Provenance'
    BY <1>20, <2>1
    DEF Inspector, ClearStage, RestoreRecovery, DropRecovery, Provenance, exporterVars
  <2> QED
    BY <2>2, <2>3, <2>4
<1>21. CASE UNCHANGED vars
  BY <1>21 DEF vars, exporterVars, Provenance, Whole, Written, Vacant
<1> QED
  BY <1>1, <1>2, <1>3, <1>4, <1>5, <1>6, <1>7, <1>8, <1>9, <1>10, <1>11, <1>12, <1>13, <1>14, <1>15, <1>16, <1>17, <1>18, <1>19, <1>20, <1>21 DEF Next, Step

(* The invariant holds whatever the exporters race for and wherever they are
   killed: commit_inner's checks and renames are what it rests on. *)
THEOREM InductiveHolds == ASSUME NeverEmpty PROVE Spec => [](TypeOK /\ Inductive)
<1>1. Init => TypeOK /\ Inductive
  BY InitTypeOK, InitInductive
<1>2. TypeOK /\ Inductive /\ [Next]_vars => (TypeOK /\ Inductive)'
  BY NextTypeOK, NextInductive
<1> QED
  BY <1>1, <1>2, PTL DEF Spec

(* remove_dir_all(recovery) in commit_inner runs only while the target holds,
   whole, the bundle its exporter was asked for. *)
THEOREM SafeCleanup == ASSUME NeverEmpty PROVE Spec => []CleanupIsSafe
<1>1. Inductive => CleanupIsSafe
  BY DEF Inductive, CleanupIsSafe
<1> QED
  BY <1>1, InductiveHolds, PTL

(* Between the rename to the recovery and its removal, the recovery belongs to
   one exporter: the gate of the others and rename's refusal to replace a
   directory that is not empty keep everyone else out. *)
THEOREM SingleHolder == ASSUME NeverEmpty PROVE Spec => []OneHolder
<1>1. Inductive => OneHolder
  BY DEF Inductive, OneHolder
<1> QED
  BY <1>1, InductiveHolds, PTL

-----------------------------------------------------------------------------
(* Refinement of AtomicVault. *)

(* The register starts out as what the target holds. *)
LEMMA InitPublishes == Init => Atomic!Init
<1> SUFFICES ASSUME Init PROVE Atomic!Init
  OBVIOUS
<1>1. ~Whole(recovery) /\ Untouched
  BY DEF Init, Whole, Untouched
<1>2. CASE Vacant(target)
  BY <1>1, <1>2, WholeIsNotVacant DEF Init, Published, Atomic!Init
<1>3. CASE ~Vacant(target)
  <2>1. PICK r \in Requests : target = BundleTree(r)
    BY <1>3, RequestAssumption DEF Init, Vacant
  <2>2. target # Absent /\ target.manifest = r /\ r # NoManifest
    BY <1>3, <2>1, RequestsAreManifests DEF Vacant, BundleTree
  <2>3. Whole(target)
    BY <2>1, <2>2 DEF Whole, OwnsFiles, BundleTree
  <2> QED
    BY <1>1, <1>3, <2>2, <2>3 DEF Init, Published, Atomic!Init
<1> QED
  BY <1>2, <1>3

(* Only the second rename of a commit publishes, a bundle that was asked for;
   every other step of every process leaves the register alone. *)
Still == Published' = Published /\ asked' = asked
Asking == Published' = Published /\ \E r \in Requests : asked' = asked \cup {r}
Publishing == asked' = asked /\ \E r \in Requests : r \in asked /\ Published' = r

LEMMA PublishStep ==
  ASSUME TypeOK, Inductive, Untouched, Untouched', [Next]_vars
  PROVE  Still \/ Asking \/ Publishing
<1>1. ASSUME NEW e \in Exporters, Start(e) PROVE Asking
  BY <1>1 DEF Start, vaultVars, Asking, Published, Whole
<1>2. ASSUME NEW e \in Exporters,
             \/ Gate(e) \/ Refuse(e) \/ Diff(e) \/ Preflight(e) \/ VerifySnapshot(e)
             \/ Reject(e) \/ MakeStage(e) \/ WriteArtifact(e) \/ WriteManifest(e)
             \/ VerifyStage(e) \/ ProbeTarget(e) \/ ReadBack(e) \/ Abort(e)
      PROVE  Still
  <2>1. UNCHANGED <<target, recovery, asked>>
    BY <1>2
    DEF Gate, Refuse, Diff, Preflight, VerifySnapshot, Reject, MakeStage, WriteArtifact,
        WriteManifest, VerifyStage, ProbeTarget, ReadBack, Abort, vaultVars
  <2> QED
    BY <2>1 DEF Still, Published, Whole
<1>3. ASSUME NEW e \in Exporters, MoveToRecovery(e) PROVE Still
  <2>1. CASE at'[e] = "install" /\ target' = Absent
    BY <1>3, <2>1, WholeIsNotVacant DEF MoveToRecovery, Still, Published, Whole, Vacant
  <2>2. CASE UNCHANGED <<target, recovery>>
    BY <1>3, <2>2 DEF MoveToRecovery, Still, Published, Whole
  <2> QED
    BY <1>3, <2>1, <2>2 DEF MoveToRecovery, Goto, TypeOK
<1>4. ASSUME NEW e \in Exporters, Install(e) PROVE Still \/ Publishing
  <2>1. recovery' = recovery /\ asked' = asked
    BY <1>4 DEF Install
  <2>2. CASE target' = target
    BY <2>1, <2>2 DEF Still, Published, Whole
  <2>3. CASE target' = stage /\ ~Whole(stage) /\ Vacant(target)
    BY <2>1, <2>3, WholeIsNotVacant DEF Still, Published, Whole
  <2>4. CASE target' = stage /\ Whole(stage)
    <3>1. stage.manifest \in asked /\ stage.manifest \in Requests
      BY <2>4 DEF Inductive, Provenance, Whole, TypeOK
    <3>2. Published' = stage.manifest
      BY <2>4 DEF Published, Whole
    <3> QED
      BY <2>1, <3>1, <3>2 DEF Publishing
  <2> QED
    BY <1>4, <2>2, <2>3, <2>4 DEF Install
<1>5. ASSUME NEW e \in Exporters, RemoveEntry(e) PROVE Still
  <2>1. Whole(target)
    BY <1>5, WrittenIsWhole, RequestsAreManifests
    DEF RemoveEntry, Inductive, CleanupIsSafe, TypeOK, Running
  <2>2. UNCHANGED <<target, asked>>
    BY <1>5 DEF RemoveEntry
  <2> QED
    BY <2>1, <2>2 DEF Still, Published, Whole
<1>6. ASSUME NEW e \in Exporters, RemoveRecovery(e) PROVE Still
  <2>1. UNCHANGED <<target, asked>>
    BY <1>6 DEF RemoveRecovery
  <2>2. recovery' = recovery \/ (~Whole(recovery) /\ ~Whole(recovery)')
    BY <1>6, WholeIsNotVacant DEF RemoveRecovery, Vacant, Whole
  <2> QED
    BY <2>1, <2>2 DEF Still, Published, Whole
<1>7. ASSUME UserEdit PROVE Still
  BY <1>7 DEF UserEdit, Untouched
<1>8. ASSUME Inspector PROVE Still
  <2>1. asked' = asked
    BY <1>8 DEF Inspector, ClearStage, RestoreRecovery, DropRecovery
  <2>2. CASE ClearStage
    BY <2>1, <2>2 DEF ClearStage, Still, Published, Whole
  <2>3. CASE RestoreRecovery
    BY <2>1, <2>3 DEF RestoreRecovery, Still, Published, Whole
  <2>4. CASE DropRecovery
    BY <2>1, <2>4 DEF DropRecovery, Still, Published, Whole
  <2> QED
    BY <1>8, <2>2, <2>3, <2>4 DEF Inspector
<1>9. ASSUME UNCHANGED vars PROVE Still
  <2>1. UNCHANGED <<target, recovery, asked>>
    BY <1>9 DEF vars, vaultVars
  <2> QED
    BY <2>1 DEF Still, Published, Whole
<1> QED
  BY <1>1, <1>2, <1>3, <1>4, <1>5, <1>6, <1>7, <1>8, <1>9 DEF Next, Step

(* A step of the vault is one of the register, the first edit of a user and
   whatever follows included. *)
LEMMA NextPublishes ==
  ASSUME TypeOK, TypeOK', Inductive, [Next]_vars
  PROVE  [Atomic!Next]_(Atomic!vars)
<1> DEFINE Content == IF Untouched THEN Published ELSE Absent
<1>1. CASE Untouched'
  <2>1. Untouched
    BY <1>1, EditsStay
  <2>2. Content = Published /\ Content' = Published'
    BY <1>1, <2>1
  <2>3. Published # Absent
    BY <2>1, RequestAssumption, MarkAssumption
    DEF Published, Whole, Vacant, Inductive, Provenance, TypeOK
  <2> QED
    BY <2>2, <2>3, <2>1, <1>1, PublishStep
    DEF Still, Asking, Publishing, Atomic!Next, Atomic!Ask, Atomic!Publish, Atomic!vars
<1>2. CASE ~Untouched'
  <2>1. Content' = Absent
    BY <1>2
  <2>2. CASE \E e \in Exporters : Start(e)
    <3>1. Content' = Content /\ \E r \in Requests : asked' = asked \cup {r}
      BY <1>2, <2>2 DEF Start, userVars, Untouched
    <3> QED
      BY <3>1 DEF Atomic!Next, Atomic!Ask
  <2>3. CASE ~\E e \in Exporters : Start(e)
    <3>1. asked' = asked
      BY <2>3
      DEF Next, Step, Inspector, Gate, Refuse, Diff, Preflight, VerifySnapshot, Reject,
          MakeStage, WriteArtifact, WriteManifest, VerifyStage, ProbeTarget,
          MoveToRecovery, Install, ReadBack, RemoveEntry, RemoveRecovery, Abort,
          UserEdit, ClearStage, RestoreRecovery, DropRecovery, vars
    <3> QED
      BY <2>1, <3>1 DEF Atomic!Next, Atomic!Spoil
  <2> QED
    BY <2>2, <2>3
<1> QED
  BY <1>1, <1>2

(* Seen through target and recovery, a vault any number of exporters race for
   is AtomicVault's register: it holds one whole bundle that was asked for and
   changes in one step. *)
THEOREM VaultIsAtomic == ASSUME NeverEmpty PROVE Spec => AtomicNamespace
<1>1. Init => Atomic!Init
  BY InitPublishes
<1>2. TypeOK /\ TypeOK' /\ Inductive /\ [Next]_vars => [Atomic!Next]_(Atomic!vars)
  BY NextPublishes
<1> QED
  BY <1>1, <1>2, InductiveHolds, PTL DEF Spec, AtomicNamespace, Atomic!Spec

(* A whole bundle, once published, is not lost to crashes or races until a
   user edits the notes. *)
THEOREM BundleSurvives == ASSUME NeverEmpty PROVE Spec => NeverLost
<1>1. TypeOK /\ TypeOK' /\ Inductive /\ [Next]_vars
      => [Untouched' /\ Published # NoManifest => Published' # NoManifest]_vars
  <2> SUFFICES ASSUME TypeOK, TypeOK', Inductive, [Next]_vars, Untouched',
                      Published # NoManifest
               PROVE  Published' # NoManifest
    OBVIOUS
  <2> QED
    BY EditsStay, PublishStep, RequestsAreManifests DEF Still, Asking, Publishing
<1> QED
  BY <1>1, InductiveHolds, PTL DEF Spec, NeverLost

-----------------------------------------------------------------------------
(* Edits of the user. *)

(* The strengthening of EarlyEditsSurvive that every step keeps: an early edit
   is in the target itself, and there is none while a commit is between its
   last read and the rename; no exporter writes what the user writes. *)
EditsInTarget == \A w \in userEdits \ lateEdits : Holds(target, {w})

NoneUnguarded == Unguarded => userEdits \subseteq lateEdits

CleanStage ==
  stage # Absent => \A path \in Paths : stage.files[path] \notin UserContents

Origins ==
  \A node \in {target, stage, recovery} :
    node # Absent => node.manifest \in Requests \cup {NoManifest}

EditsKept == EditsInTarget /\ NoneUnguarded /\ CleanStage /\ Origins

(* What it means to hold one writing. *)
LEMMA HoldsOne ==
  \A node, w : Holds(node, {w}) <=> node # Absent /\ node.files[w[1]] = w[2]
BY DEF Holds

(* An empty tree holds nothing. *)
LEMMA VacantHoldsNothing ==
  ASSUME NEW node, Vacant(node), NEW w \in Paths \X UserContents
  PROVE  ~Holds(node, {w})
<1>1. w[1] \in Paths /\ w[2] # NoFile
  BY RequestAssumption, TreeAssumption
<1>2. CASE node = Absent
  BY <1>2, HoldsOne
<1>3. CASE node = EmptyTree
  <2>1. EmptyTree.files[w[1]] = NoFile
    BY <1>1 DEF EmptyTree, NoFiles
  <2> QED
    BY <1>1, <1>3, <2>1, HoldsOne
<1> QED
  BY <1>2, <1>3 DEF Vacant

(* A tree the inspection accepts holds nothing the user wrote: it is empty, or
   exactly the bundle its manifest records. *)
LEMMA AcceptedIsClean ==
  ASSUME UserTextIsOwn, TypeOK, Origins, NEW want, Acceptable(target, want),
         NEW w \in Paths \X UserContents
  PROVE  ~Holds(target, {w})
<1>1. w[1] \in Paths /\ w[2] \in UserContents /\ w[2] # NoFile
  BY RequestAssumption, TreeAssumption
<1>2. CASE Vacant(target)
  BY <1>2, VacantHoldsNothing
<1>3. CASE ~Vacant(target)
  <2>1. /\ target # Absent
        /\ target.manifest # NoManifest
        /\ OwnsFiles(target.manifest, target.files)
    BY <1>3 DEF Acceptable, Parses
  <2>2. target.manifest \in Requests
    BY <2>1 DEF Origins
  <2>3. target.files[w[1]] = target.manifest.artifacts[w[1]]
    BY <1>1, <2>1 DEF OwnsFiles
  <2> QED
    BY <1>1, <2>2, <2>3, HoldsOne DEF UserTextIsOwn
<1> QED
  BY <1>2, <1>3

(* A step that leaves the three trees and the edits alone, and does not enter
   the window between the last read and the rename, keeps the invariant. *)
LEMMA EditsFrame ==
  ASSUME EditsKept, UNCHANGED <<vaultVars, userEdits, lateEdits>>,
         Unguarded' => Unguarded
  PROVE  EditsKept'
<1>1. EditsInTarget'
  BY DEF EditsKept, EditsInTarget, Holds, vaultVars
<1>2. NoneUnguarded'
  BY DEF EditsKept, NoneUnguarded, vaultVars
<1>3. (CleanStage /\ Origins)'
  BY DEF EditsKept, CleanStage, Origins, vaultVars
<1> QED
  BY <1>1, <1>2, <1>3 DEF EditsKept

LEMMA InitEditsKept == Init => EditsKept
<1> SUFFICES ASSUME Init PROVE EditsKept
  OBVIOUS
<1>1. target # Absent => target.manifest \in Requests \cup {NoManifest}
  BY FilledTrees, RequestAssumption DEF Init, BundleTree, EmptyTree
<1> QED
  BY <1>1
  DEF Init, EditsKept, EditsInTarget, NoneUnguarded, CleanStage, Origins

LEMMA NextEditsKept ==
  ASSUME UserTextIsOwn, TypeOK, TypeOK', EditsKept, [Next]_vars
  PROVE  EditsKept'
<1> USE DEF Goto, TypeOK
<1>0. \A w \in userEdits : w \in Paths \X UserContents /\ w[1] \in Paths
  OBVIOUS
<1>1. ASSUME NEW e \in Exporters,
             \/ Start(e) \/ Gate(e) \/ Refuse(e) \/ Diff(e) \/ Preflight(e)
             \/ Reject(e) \/ VerifyStage(e) \/ ReadBack(e) \/ Abort(e)
             \/ ProbeTarget(e)
      PROVE  EditsKept'
  <2>1. UNCHANGED <<vaultVars, userEdits, lateEdits>>
    BY <1>1 DEF Start, Gate, Refuse, Diff, Preflight, Reject, VerifyStage, ReadBack,
                Abort, ProbeTarget, userVars
  <2>2. at'[e] \in {"probe", "recover"} => at[e] \in {"probe", "recover"}
    BY <1>1 DEF Start, Gate, Refuse, Diff, Preflight, Reject, VerifyStage, ReadBack,
                Abort, ProbeTarget
  <2>3. \A f \in Exporters \ {e} : at'[f] = at[f]
    BY <1>1 DEF Start, Gate, Refuse, Diff, Preflight, Reject, VerifyStage, ReadBack,
                Abort, ProbeTarget
  <2>4. Unguarded' => Unguarded
    BY <2>2, <2>3 DEF Unguarded
  <2> QED
    BY <2>1, <2>4, EditsFrame
<1>2. ASSUME NEW e \in Exporters, VerifySnapshot(e) PROVE EditsKept'
  <2>1. UNCHANGED <<vaultVars, userEdits, lateEdits>> /\ Acceptable(target, request[e])
    BY <1>2 DEF VerifySnapshot, userVars
  <2>2. \A w \in userEdits \ lateEdits : FALSE
    BY <1>0, <2>1, AcceptedIsClean DEF EditsKept, EditsInTarget
  <2>3. NoneUnguarded'
    BY <2>1, <2>2 DEF NoneUnguarded
  <2>4. (EditsInTarget /\ CleanStage /\ Origins)'
    BY <2>1 DEF EditsKept, EditsInTarget, CleanStage, Origins, Holds, vaultVars
  <2> QED
    BY <2>3, <2>4 DEF EditsKept
<1>3. ASSUME NEW e \in Exporters,
             MakeStage(e) \/ WriteArtifact(e) \/ WriteManifest(e)
      PROVE  EditsKept'
  <2>1. UNCHANGED <<target, recovery, userEdits, lateEdits>>
    BY <1>3 DEF MakeStage, WriteArtifact, WriteManifest, userVars
  <2>2. Unguarded' => Unguarded
    BY <1>3 DEF Unguarded, MakeStage, WriteArtifact, WriteManifest
  <2>3. (EditsInTarget /\ NoneUnguarded)'
    BY <2>1, <2>2 DEF EditsKept, EditsInTarget, NoneUnguarded, Holds
  <2>4. EmptyTree.manifest = NoManifest
        /\ \A path \in Paths : EmptyTree.files[path] \notin UserContents
    BY RequestAssumption, TreeAssumption DEF EmptyTree, NoFiles
  <2>5. CASE MakeStage(e)
    BY <2>1, <2>3, <2>4, <2>5 DEF MakeStage, EditsKept, CleanStage, Origins
  <2>6. CASE WriteArtifact(e)
    <3> DEFINE base == IF stage = Absent THEN EmptyTree ELSE stage
    <3>1. PICK path \in todo[e] : stage' = WithFile(base, path, request[e].artifacts[path])
      BY <2>6 DEF WriteArtifact
    <3>2. request[e] \in Requests /\ path \in Paths
      BY <2>6, <3>1 DEF WriteArtifact, Running
    <3>3. /\ base \in Tree
          /\ base.manifest \in Requests \cup {NoManifest}
          /\ \A other \in Paths : base.files[other] \notin UserContents
      BY <2>4, FreshTrees DEF EditsKept, CleanStage, Origins, Node
    <3> HIDE DEF base
    <3>4. /\ stage'.manifest = base.manifest
          /\ \A other \in Paths :
               stage'.files[other] \in {base.files[other], request[e].artifacts[path]}
      BY <3>1, <3>2, <3>3 DEF WithFile, Tree, Files
    <3>5. (CleanStage)'
      BY <2>1, <3>2, <3>3, <3>4 DEF CleanStage, UserTextIsOwn
    <3>6. Origins'
      BY <2>1, <3>3, <3>4 DEF Origins, EditsKept
    <3> QED
      BY <3>5, <3>6, <2>3 DEF EditsKept
  <2>7. CASE WriteManifest(e)
    <3>1. CASE stage = Absent
      BY <2>1, <2>3, <2>7, <3>1 DEF WriteManifest, EditsKept, CleanStage, Origins
    <3>2. CASE stage # Absent
      <4>1. stage' = WithManifest(stage, request[e]) /\ request[e] \in Requests
        BY <2>7, <3>2 DEF WriteManifest, Running
      <4>2. stage'.files = stage.files /\ stage'.manifest = request[e]
        BY <3>2, <4>1 DEF WithManifest, Node, Tree
      <4> QED
        BY <2>1, <2>3, <3>2, <4>1, <4>2 DEF EditsKept, CleanStage, Origins
    <3> QED
      BY <3>1, <3>2, <2>3 DEF EditsKept
  <2> QED
    BY <1>3, <2>3, <2>5, <2>6, <2>7 DEF EditsKept
<1>4. ASSUME NEW e \in Exporters, MoveToRecovery(e) PROVE EditsKept'
  <2>1. UNCHANGED <<stage, userEdits, lateEdits>>
    BY <1>4 DEF MoveToRecovery, userVars
  <2>2. userEdits \subseteq lateEdits
    BY <1>4 DEF MoveToRecovery, EditsKept, NoneUnguarded, Unguarded
  <2>3. (EditsInTarget /\ NoneUnguarded /\ CleanStage)'
    BY <2>1, <2>2 DEF EditsKept, EditsInTarget, NoneUnguarded, CleanStage
  <2>4. Origins'
    BY <1>4 DEF MoveToRecovery, EditsKept, Origins
  <2> QED
    BY <2>3, <2>4 DEF EditsKept
<1>5. ASSUME NEW e \in Exporters, Install(e) PROVE EditsKept'
  <2>1. UNCHANGED <<recovery, userEdits, lateEdits>>
    BY <1>5 DEF Install, userVars
  <2>2. Unguarded' => Unguarded
    BY <1>5 DEF Install, Unguarded
  <2>3. CASE UNCHANGED <<target, stage>>
    BY <2>1, <2>2, <2>3, EditsFrame DEF vaultVars
  <2>4. CASE Vacant(target) /\ target' = stage /\ stage' = Absent
    <3>1. userEdits \subseteq lateEdits
      BY <1>0, <2>4, VacantHoldsNothing DEF EditsKept, EditsInTarget
    <3> QED
      BY <2>1, <2>2, <2>4, <3>1
      DEF EditsKept, EditsInTarget, NoneUnguarded, CleanStage, Origins
  <2> QED
    BY <1>5, <2>3, <2>4 DEF Install
<1>6. ASSUME NEW e \in Exporters, RemoveEntry(e) \/ RemoveRecovery(e) PROVE EditsKept'
  <2>1. UNCHANGED <<target, stage, userEdits, lateEdits>>
    BY <1>6 DEF RemoveEntry, RemoveRecovery, userVars
  <2>2. Unguarded' => Unguarded
    BY <1>6 DEF RemoveEntry, RemoveRecovery, Unguarded
  <2>3. recovery' # Absent => recovery'.manifest \in Requests \cup {NoManifest}
    <3>1. CASE RemoveEntry(e)
      <4>1. recovery \in Tree
        BY <3>1 DEF RemoveEntry, Vacant, Node
      <4> QED
        BY <3>1, <4>1, FilledTrees, MarkAssumption DEF RemoveEntry, EditsKept, Origins
    <3>2. CASE RemoveRecovery(e)
      BY <3>2 DEF RemoveRecovery, EditsKept, Origins
    <3> QED
      BY <1>6, <3>1, <3>2
  <2> QED
    BY <2>1, <2>2, <2>3
    DEF EditsKept, EditsInTarget, NoneUnguarded, CleanStage, Origins, Holds
<1>7. ASSUME UserEdit PROVE EditsKept'
  <2>1. PICK path \in Paths, text \in UserContents \cup {NoFile} :
          LET written == IF text = NoFile THEN {} ELSE {<<path, text>>}
              kept(writings) == {w \in writings : w[1] # path}
          IN  /\ target' = WithFile(target, path, text)
              /\ userEdits' = kept(userEdits) \cup written
              /\ lateEdits' = kept(lateEdits) \cup (IF Unguarded THEN written ELSE {})
    BY <1>7 DEF UserEdit
  <2>2. target \in Tree /\ UNCHANGED <<stage, recovery, at>>
    BY <1>7 DEF UserEdit, Node, exporterVars
  <2>3. /\ target' # Absent
        /\ target'.manifest = target.manifest
        /\ target'.files[path] = text
        /\ \A other \in Paths \ {path} : target'.files[other] = target.files[other]
    <3>1. target' \in Tree
      BY <2>1, <2>2, EditedTrees, RequestAssumption
    <3> QED
      BY <2>1, <2>2, <3>1, MarkAssumption DEF WithFile, Tree, Files
  <2>4. \A w \in userEdits' \ lateEdits' :
          \/ w = <<path, text>>
          \/ w \in userEdits \ lateEdits /\ w[1] # path
    BY <2>1
  <2>5. EditsInTarget'
    <3> SUFFICES ASSUME NEW w \in userEdits' \ lateEdits' PROVE Holds(target', {w})
      BY DEF EditsInTarget, Holds
    <3>1. CASE w = <<path, text>>
      BY <2>3, <3>1, HoldsOne
    <3>2. CASE w \in userEdits \ lateEdits /\ w[1] # path
      <4>1. Holds(target, {w}) /\ w[1] \in Paths \ {path}
        BY <1>0, <3>2 DEF EditsKept, EditsInTarget
      <4>2. target.files[w[1]] = w[2]
        BY <4>1, HoldsOne
      <4> QED
        BY <2>3, <4>1, <4>2, HoldsOne
    <3> QED
      BY <2>4, <3>1, <3>2
  <2>6. NoneUnguarded'
    BY <2>1, <2>2 DEF EditsKept, NoneUnguarded, Unguarded
  <2>7. (CleanStage /\ Origins)'
    BY <2>2, <2>3, MarkAssumption DEF EditsKept, CleanStage, Origins
  <2> QED
    BY <2>5, <2>6, <2>7 DEF EditsKept
<1>8. ASSUME Inspector PROVE EditsKept'
  <2>1. /\ UNCHANGED <<at, userEdits, lateEdits>>
        /\ stage' \in {stage, Absent}
        /\ ~Unguarded
    BY <1>8 DEF Inspector, ClearStage, RestoreRecovery, DropRecovery, Quiet, Unguarded,
                exporterVars, userVars, Resting
  <2>2. NoneUnguarded' /\ CleanStage'
    BY <2>1 DEF EditsKept, NoneUnguarded, CleanStage, Unguarded
  <2>3. CASE target' = target
    BY <1>8, <2>1, <2>2, <2>3
    DEF Inspector, ClearStage, RestoreRecovery, DropRecovery, EditsKept, EditsInTarget,
        Origins, Holds
  <2>4. CASE RestoreRecovery
    <3>1. \A w \in userEdits : ~Holds(target, {w})
      BY <2>4 DEF RestoreRecovery, Holds
    <3>2. userEdits \subseteq lateEdits
      BY <3>1 DEF EditsKept, EditsInTarget
    <3> QED
      BY <2>1, <2>2, <2>4, <3>2 DEF RestoreRecovery, EditsKept, EditsInTarget, Origins
  <2> QED
    BY <1>8, <2>3, <2>4 DEF Inspector, ClearStage, DropRecovery
<1>9. CASE UNCHANGED vars
  BY <1>9, EditsFrame DEF vars, exporterVars, userVars, Unguarded
<1> QED
  BY <1>1, <1>2, <1>3, <1>4, <1>5, <1>6, <1>7, <1>8, <1>9 DEF Next, Step

(* A note the user wrote before the last read of a commit stays in the target,
   however many exporters race and wherever they are killed: verify_snapshot
   refuses a target with such a note, and rename refuses to replace it. *)
THEOREM EditsSurviveCommits ==
  ASSUME UserTextIsOwn PROVE Spec => []EarlyEditsSurvive
<1>1. Init => TypeOK /\ EditsKept
  BY InitTypeOK, InitEditsKept
<1>2. TypeOK /\ EditsKept /\ [Next]_vars => (TypeOK /\ EditsKept)'
  BY NextTypeOK, NextEditsKept
<1>3. EditsKept => EarlyEditsSurvive
  BY DEF EditsKept, EditsInTarget, EarlyEditsSurvive
<1> QED
  BY <1>1, <1>2, <1>3, PTL DEF Spec

=============================================================================
