--------------------------- MODULE VaultMigration ---------------------------
(***************************************************************************)
(* `xtask index export --migrate-profile`: replace a namespace an earlier  *)
(* release wrote (a v1 manifest) by the bundle of the current profile      *)
(* (ManagedNamespace::migrate_v1, src/src/generated_namespace.rs).         *)
(*                                                                         *)
(* Like a commit (module VaultNamespace) a migration stages the new bundle *)
(* and moves it into place over a recovery, without a lock.  Unlike one it *)
(* undoes a failed install, and it removes a stage it cannot use.  The     *)
(* fifteen failpoints of the code lie between the calls that are actions   *)
(* here; an injected failure is an Abort.                                  *)
(***************************************************************************)
EXTENDS VaultTrees, FiniteSets

CONSTANTS
  Migrators,      \* processes running a migration
  Teams,          \* which of them may be started together
  Legacy,         \* v1 manifest of the bundle the declared legacy projection gives
  Wanted,         \* manifest of the bundle of the current profile
  InitialTargets, \* what the target may hold at first
  UserContents,   \* contents only the user writes
  MaxEdits,       \* bound on the edits of the user
  MaxAborts       \* bound on crashes and failed calls

ASSUME MigrationAssumption ==
  /\ IsFiniteSet(Migrators)
  /\ Teams \subseteq SUBSET Migrators
  /\ Legacy \in Manifest /\ Legacy.schema = "v1"
  /\ Wanted \in Manifest /\ Wanted.schema = "v3" /\ FilesOf(Wanted) # {}
  /\ InitialTargets \subseteq Node
  /\ UserContents \subseteq Contents
  /\ MaxEdits \in Nat
  /\ MaxAborts \in Nat

VARIABLES
  target,     \* the managed namespace
  stage,      \* .<leaf>.sim-stage
  recovery,   \* .<leaf>.sim-recovery
  at,         \* the next call of each migrator
  source,     \* the v1 manifest and the digests a migrator validated
  todo,       \* artifacts write_stage has still to write
  victim,     \* where the directory is that a migrator is discarding entries of
  asked,      \* history: bundles somebody asked for, and the initial one
  userEdits,  \* history: <<path, contents>> the user wrote and did not rewrite
  lateEdits,  \* history: those written between a last read and the rename
  edits,      \* number of edits so far
  aborts,     \* number of crashes and failed calls so far
  team        \* the processes that take part

vaultVars == <<target, stage, recovery>>
migratorVars == <<at, source, todo, victim>>
userVars == <<userEdits, lateEdits, edits>>
vars == <<vaultVars, migratorVars, asked, userVars, aborts>>

Resting == {"idle", "done", "failed", "panicked"}

Running == {"gate", "manifest", "regate", "reinspect", "validate", "legacy", "mkdir",
            "write", "verify", "semantics", "reread", "discard", "recover",
            "install", "readback", "uninstall", "restore", "cleanup", "rmdir"}

Init ==
  /\ target \in InitialTargets
  /\ stage = Absent
  /\ recovery = Absent
  /\ at = [m \in Migrators |-> "idle"]
  /\ source = [m \in Migrators |-> EmptyTree]
  /\ todo = [m \in Migrators |-> {}]
  /\ victim = [m \in Migrators |-> "none"]
  /\ asked = IF Whole(target) THEN {target.manifest} ELSE {}
  /\ userEdits = {}
  /\ lateEdits = {}
  /\ edits = 0
  /\ aborts = 0
  /\ team \in Teams

Goto(m, step) == at' = [at EXCEPT ![m] = step]

Start(m) ==
  /\ m \in team /\ at[m] \in Resting
  /\ asked' = asked \cup {Wanted}
  /\ source' = [source EXCEPT ![m] = EmptyTree]
  /\ todo' = [todo EXCEPT ![m] = {}]
  /\ victim' = [victim EXCEPT ![m] = "none"]
  /\ Goto(m, "gate")
  /\ UNCHANGED <<vaultVars, userVars, aborts>>

-----------------------------------------------------------------------------
(* Before the stage is written: what is there, and is it ours to migrate? *)

Leftovers == stage # Absent \/ recovery # Absent

(* No leftover of an interrupted run may exist; asked again by inspect_current
   when the manifest turns out to be a current one. *)
Gate(m) ==
  /\ \/ at[m] = "gate" /\ Goto(m, IF Leftovers THEN "failed" ELSE "manifest")
     \/ at[m] = "regate" /\ Goto(m, IF Leftovers THEN "failed" ELSE "reinspect")
  /\ UNCHANGED <<vaultVars, source, todo, victim, asked, userVars, aborts>>

(* A current manifest means the migration was made before; a v1 manifest must
   name this namespace, profile, granularity and Index; any other is refused. *)
ReadManifest(m) ==
  /\ at[m] = "manifest"
  /\ IF target = Absent \/ target.manifest = NoManifest
       THEN Goto(m, "failed") /\ UNCHANGED source
       ELSE \/ /\ Parses(target)
               /\ Goto(m, "regate") /\ UNCHANGED source
            \/ /\ target.manifest.schema = "v1"
               /\ target.manifest.owner = Legacy.owner
               /\ target.manifest.index = Legacy.index
               /\ source' = [source EXCEPT ![m] = WithManifest(EmptyTree, target.manifest)]
               /\ Goto(m, "validate")
            \/ /\ ~Parses(target)
               /\ \/ target.manifest.schema # "v1"
                  \/ target.manifest.owner # Legacy.owner
                  \/ target.manifest.index # Legacy.index
               /\ Goto(m, "failed") /\ UNCHANGED source
  /\ UNCHANGED <<vaultVars, todo, victim, asked, userVars, aborts>>

(* Mutant: any bundle of this owner counts as migrated. *)
MutReinspect(m) ==
  /\ at[m] = "reinspect"
  /\ Goto(m, IF Vacant(target) THEN "panicked"
             ELSE IF Acceptable(target, Wanted) THEN "done"
             ELSE "failed")
  /\ UNCHANGED <<vaultVars, source, todo, victim, asked, userVars, aborts>>

(* The target is read again: it must be the wanted bundle.  The code holds a
   target that vanished or was emptied meanwhile for unreachable!(). *)
Reinspect(m) ==
  /\ at[m] = "reinspect"
  /\ Goto(m, IF Vacant(target) THEN "panicked"
             ELSE IF Acceptable(target, Wanted) /\ target.manifest = Wanted THEN "done"
             ELSE "failed")
  /\ UNCHANGED <<vaultVars, source, todo, victim, asked, userVars, aborts>>

(* validate_owned_files_v1 on the digests of every file. *)
ValidateSource(m) ==
  /\ at[m] = "validate"
  /\ IF target # Absent /\ OwnsFiles(source[m].manifest, target.files)
       THEN /\ source' = [source EXCEPT ![m].files = target.files]
            /\ Goto(m, "legacy")
       ELSE Goto(m, "failed") /\ UNCHANGED source
  /\ UNCHANGED <<vaultVars, todo, victim, asked, userVars, aborts>>

(* verify_legacy_v1 decodes the v1 notes, read once more, and compares them
   with the legacy projection of the Index. *)
VerifyLegacy(m) ==
  /\ at[m] = "legacy"
  /\ Goto(m, IF /\ target # Absent
                /\ FilesOf(source[m].manifest) = FilesOf(Legacy)
                /\ \A path \in FilesOf(Legacy) : target.files[path] = Legacy.artifacts[path]
             THEN "mkdir" ELSE "failed")
  /\ UNCHANGED <<vaultVars, source, todo, victim, asked, userVars, aborts>>

-----------------------------------------------------------------------------
(* write_stage, as in a commit. *)

MakeStage(m) ==
  /\ at[m] = "mkdir"
  /\ stage' = IF stage = Absent THEN EmptyTree ELSE stage
  /\ todo' = [todo EXCEPT ![m] = FilesOf(Wanted)]
  /\ Goto(m, "write")
  /\ UNCHANGED <<target, recovery, source, victim, asked, userVars, aborts>>

WriteArtifact(m) ==
  /\ at[m] = "write"
  /\ \E path \in todo[m] :
       /\ \A other \in todo[m] : path <= other
       /\ stage' = WithFile(IF stage = Absent THEN EmptyTree ELSE stage,
                             path, Wanted.artifacts[path])
       /\ todo' = [todo EXCEPT ![m] = @ \ {path}]
  /\ UNCHANGED <<target, recovery, at, source, victim, asked, userVars, aborts>>

WriteManifest(m) ==
  /\ at[m] = "write" /\ todo[m] = {}
  /\ IF stage = Absent
       THEN Goto(m, "failed") /\ UNCHANGED stage
       ELSE Goto(m, "verify") /\ stage' = WithManifest(stage, Wanted)
  /\ UNCHANGED <<target, recovery, source, todo, victim, asked, userVars, aborts>>

VerifyStage(m) ==
  /\ at[m] = "verify"
  /\ Goto(m, IF Written(stage, Wanted) THEN "semantics" ELSE "failed")
  /\ UNCHANGED <<vaultVars, source, todo, victim, asked, userVars, aborts>>

(* bundle_from_root reads the wanted files back, verify_v2 decodes them. *)
VerifySemantics(m) ==
  /\ at[m] = "semantics"
  /\ Goto(m, IF stage = Absent \/ \E path \in FilesOf(Wanted) : stage.files[path] = NoFile
               THEN "failed"
             ELSE IF \E path \in FilesOf(Wanted) : stage.files[path] # Wanted.artifacts[path]
               THEN "discard"
             ELSE "reread")
  /\ UNCHANGED <<vaultVars, source, todo, victim, asked, userVars, aborts>>

(* Mutant: only the manifest is read again. *)
MutRereadSource(m) ==
  /\ at[m] = "reread"
  /\ Goto(m, IF target = Absent \/ target.manifest = NoManifest THEN "failed"
             ELSE IF target.manifest # source[m].manifest THEN "discard"
             ELSE "recover")
  /\ UNCHANGED <<vaultVars, source, todo, victim, asked, userVars, aborts>>

(* Re-read every source byte after staging. *)
RereadSource(m) ==
  /\ at[m] = "reread"
  /\ Goto(m, IF target = Absent \/ target.manifest = NoManifest THEN "failed"
             ELSE IF target # source[m] THEN "discard"
             ELSE "recover")
  /\ UNCHANGED <<vaultVars, source, todo, victim, asked, userVars, aborts>>

(* `let _ = remove_dir_all(stage)`: open the directory, remove its entries,
   remove the path.  Entries are removed through the open directory, wherever
   a rename has taken it meanwhile; any error ends the removal. *)
OpenStage(m) ==
  /\ at[m] = "discard" /\ victim[m] = "none"
  /\ IF stage = Absent
       THEN Goto(m, "failed") /\ UNCHANGED victim
       ELSE victim' = [victim EXCEPT ![m] = "stage"] /\ UNCHANGED at
  /\ UNCHANGED <<vaultVars, source, todo, asked, userVars, aborts>>

Emptier(node) ==
  IF node.manifest # NoManifest THEN {WithManifest(node, NoManifest)} ELSE {}

EmptierYet(node) ==
  {WithFile(node, path, NoFile) : path \in {p \in Paths : node.files[p] # NoFile}}

DiscardEntry(m) ==
  /\ at[m] = "discard"
  /\ \/ /\ victim[m] = "stage" /\ stage # Absent
        /\ stage' \in Emptier(stage) \cup EmptierYet(stage)
        /\ UNCHANGED <<target, recovery>>
     \/ /\ victim[m] = "target" /\ target # Absent
        /\ target' \in Emptier(target) \cup EmptierYet(target)
        /\ UNCHANGED <<stage, recovery>>
     \/ /\ victim[m] = "recovery" /\ recovery # Absent
        /\ recovery' \in Emptier(recovery) \cup EmptierYet(recovery)
        /\ UNCHANGED <<target, stage>>
  /\ UNCHANGED <<migratorVars, asked, userVars, aborts>>

Emptied(m) ==
  \/ victim[m] = "gone"
  \/ victim[m] = "stage" /\ Vacant(stage)
  \/ victim[m] = "target" /\ Vacant(target)
  \/ victim[m] = "recovery" /\ Vacant(recovery)

RemoveStage(m) ==
  /\ at[m] = "discard" /\ Emptied(m)
  /\ stage' = IF stage = EmptyTree THEN Absent ELSE stage
  /\ victim' = [n \in Migrators |-> IF n = m THEN "none"
                                    ELSE IF victim[n] = "stage" /\ stage' = Absent THEN "gone"
                                    ELSE victim[n]]
  /\ Goto(m, "failed")
  /\ UNCHANGED <<target, recovery, source, todo, asked, userVars, aborts>>

-----------------------------------------------------------------------------
(* Moving the stage into place, and back when that fails. *)

(* An open directory moves with its path and goes with one it replaces. *)
Follow(from, to) ==
  victim' = [m \in Migrators |-> IF victim[m] = from THEN to
                                 ELSE IF victim[m] = to THEN "gone" ELSE victim[m]]

(* Mutant: an old recovery is cleared away first. *)
MutMoveToRecovery(m) ==
  /\ at[m] = "recover"
  /\ IF target # Absent
       THEN /\ recovery' = target
            /\ target' = Absent
            /\ Follow("target", "recovery")
            /\ Goto(m, "install")
       ELSE Goto(m, "failed") /\ UNCHANGED <<target, recovery, victim>>
  /\ UNCHANGED <<stage, source, todo, asked, userVars, aborts>>

MoveToRecovery(m) ==
  /\ at[m] = "recover"
  /\ IF target # Absent /\ Vacant(recovery)
       THEN /\ recovery' = target
            /\ target' = Absent
            /\ Follow("target", "recovery")
            /\ Goto(m, "install")
       ELSE Goto(m, "failed") /\ UNCHANGED <<target, recovery, victim>>
  /\ UNCHANGED <<stage, source, todo, asked, userVars, aborts>>

Install(m) ==
  /\ at[m] = "install"
  /\ IF stage # Absent /\ Vacant(target)
       THEN /\ target' = stage
            /\ stage' = Absent
            /\ Follow("stage", "target")
            /\ Goto(m, "readback")
       ELSE Goto(m, "restore") /\ UNCHANGED <<target, stage, victim>>
  /\ UNCHANGED <<recovery, source, todo, asked, userVars, aborts>>

(* Mutant: the installed bundle is compared with the source. *)
MutReadBack(m) ==
  /\ at[m] = "readback"
  /\ Goto(m, IF Written(target, source[m].manifest) THEN "cleanup" ELSE "uninstall")
  /\ UNCHANGED <<vaultVars, source, todo, victim, asked, userVars, aborts>>

ReadBack(m) ==
  /\ at[m] = "readback"
  /\ Goto(m, IF Written(target, Wanted) THEN "cleanup" ELSE "uninstall")
  /\ UNCHANGED <<vaultVars, source, todo, victim, asked, userVars, aborts>>

(* let _ = rename(target, stage) *)
Uninstall(m) ==
  /\ at[m] = "uninstall"
  /\ IF target # Absent /\ Vacant(stage)
       THEN /\ stage' = target
            /\ target' = Absent
            /\ Follow("target", "stage")
       ELSE UNCHANGED <<target, stage, victim>>
  /\ Goto(m, "restore")
  /\ UNCHANGED <<recovery, source, todo, asked, userVars, aborts>>

(* let _ = rename(recovery, target) *)
Restore(m) ==
  /\ at[m] = "restore"
  /\ IF recovery # Absent /\ Vacant(target)
       THEN /\ target' = recovery
            /\ recovery' = Absent
            /\ Follow("recovery", "target")
       ELSE UNCHANGED <<target, recovery, victim>>
  /\ Goto(m, "failed")
  /\ UNCHANGED <<stage, source, todo, asked, userVars, aborts>>

RemoveEntry(m) ==
  /\ at[m] = "cleanup" /\ ~Vacant(recovery)
  /\ recovery' \in Emptier(recovery) \cup EmptierYet(recovery)
  /\ Goto(m, IF recovery' = EmptyTree THEN "rmdir" ELSE "cleanup")
  /\ UNCHANGED <<target, stage, source, todo, victim, asked, userVars, aborts>>

RemoveRecovery(m) ==
  /\ at[m] = "rmdir" \/ (at[m] = "cleanup" /\ Vacant(recovery))
  /\ IF recovery = EmptyTree
       THEN /\ recovery' = Absent
            /\ victim' = [n \in Migrators |->
                            IF victim[n] = "recovery" THEN "gone" ELSE victim[n]]
            /\ Goto(m, "done")
       ELSE Goto(m, "failed") /\ UNCHANGED <<recovery, victim>>
  /\ UNCHANGED <<target, stage, source, todo, asked, userVars, aborts>>

-----------------------------------------------------------------------------
(* What happens around the migrators. *)

Abort(m) ==
  /\ at[m] \in Running
  /\ aborts < MaxAborts
  /\ aborts' = aborts + 1
  /\ victim' = [victim EXCEPT ![m] = "none"]
  /\ Goto(m, "failed")
  /\ UNCHANGED <<vaultVars, source, todo, asked, userVars>>

Unguarded == \E m \in Migrators : at[m] = "recover"

(* The user writes or removes one file of the target. *)
UserEdit ==
  /\ target # Absent
  /\ edits < MaxEdits
  /\ edits' = edits + 1
  /\ \E path \in Paths, text \in UserContents \cup {NoFile} :
       LET written == IF text = NoFile THEN {} ELSE {<<path, text>>}
           kept(writings) == {w \in writings : w[1] # path}
       IN  /\ target' = WithFile(target, path, text)
           /\ userEdits' = kept(userEdits) \cup written
           /\ lateEdits' = kept(lateEdits) \cup (IF Unguarded THEN written ELSE {})
  /\ UNCHANGED <<stage, recovery, migratorVars, asked, aborts>>

Quiet == \A m \in Migrators : at[m] \in Resting

Holds(node, writings) ==
  node # Absent /\ \E w \in writings : node.files[w[1]] = w[2]

(* Somebody looks at the leftovers of an interrupted run while none runs, puts
   the recovery back unless the target is whole, and clears the stage last. *)
ClearStage ==
  /\ Quiet
  /\ stage # Absent /\ recovery = Absent /\ ~Holds(stage, userEdits)
  /\ stage' = Absent
  /\ UNCHANGED <<target, recovery, migratorVars, asked, userVars, aborts>>

RestoreRecovery ==
  /\ Quiet
  /\ recovery # Absent
  /\ ~Whole(target) /\ ~Holds(target, userEdits)
  /\ target' = recovery
  /\ recovery' = Absent
  /\ UNCHANGED <<stage, migratorVars, asked, userVars, aborts>>

DropRecovery ==
  /\ Quiet
  /\ recovery # Absent
  /\ Whole(target) /\ ~Holds(recovery, userEdits)
  /\ recovery' = Absent
  /\ UNCHANGED <<target, stage, migratorVars, asked, userVars, aborts>>

-----------------------------------------------------------------------------

Step(m) ==
  \/ Gate(m) \/ ReadManifest(m) \/ Reinspect(m) \/ ValidateSource(m) \/ VerifyLegacy(m)
  \/ MakeStage(m) \/ WriteArtifact(m) \/ WriteManifest(m) \/ VerifyStage(m)
  \/ VerifySemantics(m) \/ RereadSource(m)
  \/ OpenStage(m) \/ DiscardEntry(m) \/ RemoveStage(m)
  \/ MoveToRecovery(m) \/ Install(m) \/ ReadBack(m) \/ Uninstall(m) \/ Restore(m)
  \/ RemoveEntry(m) \/ RemoveRecovery(m)

Inspector == ClearStage \/ RestoreRecovery \/ DropRecovery

Next ==
  /\ \/ \E m \in Migrators : Start(m) \/ Step(m) \/ Abort(m)
     \/ UserEdit
     \/ Inspector
  /\ UNCHANGED team

Spec == Init /\ [][Next]_<<vars, team>>

FairSpec ==
  /\ Spec
  /\ \A m \in Migrators : WF_vars(Start(m)) /\ WF_vars(Step(m))
  /\ SF_vars(ClearStage) /\ SF_vars(RestoreRecovery) /\ SF_vars(DropRecovery)

-----------------------------------------------------------------------------
(* Properties. *)

TypeOK ==
  /\ {target, stage, recovery} \subseteq Node
  /\ at \in [Migrators -> Resting \cup Running]
  /\ source \in [Migrators -> Tree]
  /\ todo \in [Migrators -> SUBSET FilesOf(Wanted)]
  /\ victim \in [Migrators -> {"none", "stage", "target", "recovery", "gone"}]
  /\ \A m \in Migrators : victim[m] # "none" => at[m] = "discard"
  /\ asked \subseteq Manifest
  /\ lateEdits \subseteq userEdits
  /\ edits \in 0..MaxEdits /\ aborts \in 0..MaxAborts

Published ==
  IF Whole(target) THEN target.manifest
  ELSE IF Whole(recovery) THEN recovery.manifest
  ELSE NoManifest

Untouched == edits = 0

Lone == Cardinality(team) = 1

(* Racing migrations, wherever they are killed, replace the v1 bundle by the
   new one in one step, as module AtomicVault promises for exports, until a
   user edits the notes. *)
Atomic == INSTANCE AtomicVault WITH
  Bundles <- {Legacy, Wanted} \cup {node.manifest : node \in InitialTargets \ {Absent}},
  Nothing <- NoManifest, Spoiled <- Absent,
  content <- IF Untouched THEN Published ELSE Absent

AtomicMigration == Atomic!Spec

(* The installed bundle is never changed in place but by the user: others only
   rename it.  src/BROCHURE.md:19, "transactionally materializes". *)
InstalledIsIntact ==
  [][Written(target, Wanted) /\ edits' = edits => target' \in {target, Absent}]_vars

(* "every_migration_failpoint_reopens_to_a_classified_state"
   (src/src/index_vault_write_tests.rs): a lone migration, wherever it stops,
   leaves the v1 notes to go back to and, when the target is gone, the whole
   new bundle to go on with. *)
Classified ==
  Lone /\ Untouched =>
    \/ target # Absent /\ recovery = Absent
    \/ target = Absent /\ Written(stage, Wanted) /\ Whole(recovery)
    \/ target # Absent /\ recovery # Absent /\ (Written(target, Wanted) \/ Whole(recovery))

(* A lone migration that reports success leaves the new bundle, unless a user
   edits it. *)
Migrated ==
  \A m \in Migrators : Lone /\ Untouched /\ at[m] = "done" => Written(target, Wanted)

(* What the theorem about EarlyEditsSurvive assumes: neither the new bundle nor a
   manifest that is there at first records the text of a note the user writes. *)
UserTextIsOwn ==
  \A m \in {Wanted} \cup {node.manifest : node \in InitialTargets \ {Absent}} :
    m # NoManifest => \A path \in Paths : m.artifacts[path] \notin UserContents

(* A note the user wrote before a lone migration began its last read of the source
   is never destroyed by it. *)
EarlyEditsSurvive ==
  Lone => \A w \in userEdits \ lateEdits :
    Holds(target, {w}) \/ Holds(recovery, {w}) \/ Holds(stage, {w})

(* The code's own assertion: a target whose current manifest was read cannot
   have vanished when it is inspected (unreachable!()). *)
NeverPanics == \A m \in Migrators : at[m] # "panicked"

(* Run again after each interruption, with the leftovers inspected, a lone
   migration of a genuine v1 namespace ends with the new bundle in place. *)
Converges ==
  Lone /\ target = BundleTree(Legacy) /\ []Untouched => <>[]Written(target, Wanted)

=============================================================================
