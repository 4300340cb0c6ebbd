--------------------------- MODULE VaultNamespace ---------------------------
(***************************************************************************)
(* `xtask index export` in write mode: exporters that stage, verify and    *)
(* install a generated Markdown bundle over a managed namespace of a vault *)
(* (src/src/index_vault.rs, src/src/generated_namespace.rs).               *)
(*                                                                         *)
(* The vault holds three paths all exporters of a namespace share: the     *)
(* target the user reads, the sibling stage a bundle is built in, and the  *)
(* sibling recovery the previous target is kept in while the new one is    *)
(* moved into place.  There is no lock: exporters see each other only      *)
(* through these paths.  An action is one file-system call of the code (a  *)
(* read of a whole tree is one action), so exporters, a user editing notes *)
(* in the target and crashes interleave between any two calls.             *)
(***************************************************************************)
EXTENDS VaultTrees, FiniteSets

CONSTANTS
  Exporters,       \* processes running `index export`
  Requests,        \* manifests of the bundles exporters may be asked for
  InitialTargets,  \* what the target may hold at first
  UserContents,    \* contents only the user writes
  MaxEdits,        \* bound on the edits of the user
  MaxAborts        \* bound on crashes and failed calls

ASSUME RequestAssumption ==
  /\ Requests \subseteq Manifest
  /\ \A r \in Requests : r.schema = "v3" /\ FilesOf(r) # {}
  /\ InitialTargets \subseteq {EmptyTree, Absent} \cup {BundleTree(r) : r \in Requests}
  /\ UserContents \subseteq Contents
  /\ MaxEdits \in Nat
  /\ MaxAborts \in Nat

VARIABLES
  target,      \* the managed namespace
  stage,       \* .<leaf>.sim-stage
  recovery,    \* .<leaf>.sim-recovery
  at,          \* the next call of each exporter
  phase,       \* which of its four inspections an exporter runs
  request,     \* the bundle an exporter was asked for
  snapshot,    \* the target preflight saw
  hadTarget,   \* whether the target existed before the install
  todo,        \* artifacts write_stage has still to write
  asked,       \* history: every bundle asked for, and the initial one
  userEdits,   \* history: <<path, contents>> the user wrote and did not rewrite
  lateEdits,   \* history: those written between a last inspection and the rename
  edits,       \* number of edits so far
  aborts       \* number of crashes and failed calls so far

vaultVars == <<target, stage, recovery>>
exporterVars == <<at, phase, request, snapshot, hadTarget, todo>>
userVars == <<userEdits, lateEdits, edits>>
vars == <<vaultVars, exporterVars, asked, userVars, aborts>>

Phases == {"diff", "preflight", "recheck", "final"}

Resting == {"idle", "done", "failed"}

Running == {"gate", "read", "reject", "mkdir", "write", "verify", "probe",
            "recover", "install", "readback", "cleanup", "rmdir"}

-----------------------------------------------------------------------------

Init ==
  /\ target \in InitialTargets
  /\ stage = Absent
  /\ recovery = Absent
  /\ at = [e \in Exporters |-> "idle"]
  /\ phase = [e \in Exporters |-> "diff"]
  /\ request = [e \in Exporters |-> NoManifest]
  /\ snapshot = [e \in Exporters |-> Absent]
  /\ hadTarget = [e \in Exporters |-> FALSE]
  /\ todo = [e \in Exporters |-> {}]
  /\ asked = IF Vacant(target) THEN {} ELSE {target.manifest}
  /\ userEdits = {}
  /\ lateEdits = {}
  /\ edits = 0
  /\ aborts = 0

Goto(e, step) == at' = [at EXCEPT ![e] = step]

(* export: a run starts with the bundle of the Index it was given. *)
Start(e) ==
  /\ at[e] \in Resting
  /\ \E r \in Requests :
       /\ request' = [request EXCEPT ![e] = r]
       /\ asked' = asked \cup {r}
  /\ phase' = [phase EXCEPT ![e] = "diff"]
  /\ snapshot' = [snapshot EXCEPT ![e] = Absent]
  /\ hadTarget' = [hadTarget EXCEPT ![e] = FALSE]
  /\ todo' = [todo EXCEPT ![e] = {}]
  /\ Goto(e, "gate")
  /\ UNCHANGED <<vaultVars, userVars, aborts>>

-----------------------------------------------------------------------------
(* inspect_current_inner, the same code for all four inspections: first no
   leftover of an interrupted run may exist (the final inspection allows the
   stage this run wrote), then the target is read. *)

(* Mutant: the final inspection refuses the stage this run wrote. *)
MutGate(e) ==
  /\ at[e] = "gate"
  /\ Goto(e, IF recovery # Absent \/ stage # Absent THEN "failed" ELSE "read")
  /\ UNCHANGED <<vaultVars, phase, request, snapshot, hadTarget, todo,
                 asked, userVars, aborts>>

Gate(e) ==
  /\ at[e] = "gate"
  /\ IF recovery # Absent \/ (phase[e] # "final" /\ stage # Absent)
       THEN Goto(e, "failed")
       ELSE Goto(e, "read")
  /\ UNCHANGED <<vaultVars, phase, request, snapshot, hadTarget, todo,
                 asked, userVars, aborts>>

Refuse(e) ==
  /\ at[e] = "read"
  /\ ~Acceptable(target, request[e])
  /\ Goto(e, "failed")
  /\ UNCHANGED <<vaultVars, phase, request, snapshot, hadTarget, todo,
                 asked, userVars, aborts>>

(* diff: nothing to do when no artifact changed. *)
Diff(e) ==
  /\ at[e] = "read" /\ phase[e] = "diff"
  /\ Acceptable(target, request[e])
  /\ IF ChangedPaths(target, request[e]) = {}
       THEN Goto(e, "done") /\ UNCHANGED phase
       ELSE Goto(e, "gate") /\ phase' = [phase EXCEPT ![e] = "preflight"]
  /\ UNCHANGED <<vaultVars, request, snapshot, hadTarget, todo, asked,
                 userVars, aborts>>

(* preflight: keep what the target held. *)
Preflight(e) ==
  /\ at[e] = "read" /\ phase[e] = "preflight"
  /\ Acceptable(target, request[e])
  /\ snapshot' = [snapshot EXCEPT ![e] = target]
  /\ phase' = [phase EXCEPT ![e] = "recheck"]
  /\ Goto(e, "gate")
  /\ UNCHANGED <<vaultVars, request, hadTarget, todo, asked, userVars, aborts>>

(* Mutant: the final inspection accepts a target it cannot own any more. *)
MutVerifySnapshot(e) ==
  /\ at[e] = "read" /\ phase[e] \in {"recheck", "final"}
  /\ \/ phase[e] = "recheck" /\ target # snapshot[e] /\ Goto(e, "failed")
     \/ phase[e] = "recheck" /\ target = snapshot[e] /\ Goto(e, "reject")
     \/ phase[e] = "final" /\ Goto(e, "probe")
  /\ UNCHANGED <<vaultVars, phase, request, snapshot, hadTarget, todo,
                 asked, userVars, aborts>>

(* verify_snapshot: once before the stage is written, once after. *)
VerifySnapshot(e) ==
  /\ at[e] = "read" /\ phase[e] \in {"recheck", "final"}
  /\ Acceptable(target, request[e])
  /\ \/ target # snapshot[e] /\ Goto(e, "failed")
     \/ target = snapshot[e] /\ phase[e] = "recheck" /\ Goto(e, "reject")
     \/ target = snapshot[e] /\ phase[e] = "final" /\ Goto(e, "probe")
  /\ UNCHANGED <<vaultVars, phase, request, snapshot, hadTarget, todo,
                 asked, userVars, aborts>>
-----------------------------------------------------------------------------
(* commit_inner up to the final inspection: build and verify the stage. *)

(* The second look for leftovers, right before anything is written. *)
Reject(e) ==
  /\ at[e] = "reject"
  /\ IF stage # Absent \/ recovery # Absent
       THEN Goto(e, "failed")
       ELSE Goto(e, "mkdir")
  /\ UNCHANGED <<vaultVars, phase, request, snapshot, hadTarget, todo,
                 asked, userVars, aborts>>

(* create_dir_all succeeds when the directory is already there. *)
MakeStage(e) ==
  /\ at[e] = "mkdir"
  /\ stage' = IF stage = Absent THEN EmptyTree ELSE stage
  /\ todo' = [todo EXCEPT ![e] = FilesOf(request[e])]
  /\ Goto(e, "write")
  /\ UNCHANGED <<target, recovery, phase, request, snapshot, hadTarget,
                 asked, userVars, aborts>>

(* write_artifact, in path order; its create_dir_all of the parent brings
   back a stage directory that was moved away meanwhile. *)
WriteArtifact(e) ==
  /\ at[e] = "write"
  /\ \E path \in todo[e] :
       /\ \A other \in todo[e] : path <= other
       /\ stage' = WithFile(IF stage = Absent THEN EmptyTree ELSE stage,
                             path, request[e].artifacts[path])
       /\ todo' = [todo EXCEPT ![e] = @ \ {path}]
  /\ UNCHANGED <<target, recovery, at, phase, request, snapshot, hadTarget,
                 asked, userVars, aborts>>

(* The manifest is written last, into a directory that must exist. *)
WriteManifest(e) ==
  /\ at[e] = "write" /\ todo[e] = {}
  /\ IF stage = Absent
       THEN Goto(e, "failed") /\ UNCHANGED stage
       ELSE Goto(e, "verify") /\ stage' = WithManifest(stage, request[e])
  /\ UNCHANGED <<target, recovery, phase, request, snapshot, hadTarget, todo,
                 asked, userVars, aborts>>

VerifyStage(e) ==
  /\ at[e] = "verify"
  /\ IF Written(stage, request[e])
       THEN Goto(e, "gate") /\ phase' = [phase EXCEPT ![e] = "final"]
       ELSE Goto(e, "failed") /\ UNCHANGED phase
  /\ UNCHANGED <<vaultVars, request, snapshot, hadTarget, todo, asked,
                 userVars, aborts>>

-----------------------------------------------------------------------------
(* commit_inner from the final inspection on: move the stage into place. *)

(* target.exists() *)
ProbeTarget(e) ==
  /\ at[e] = "probe"
  /\ hadTarget' = [hadTarget EXCEPT ![e] = target # Absent]
  /\ Goto(e, IF target # Absent THEN "recover" ELSE "install")
  /\ UNCHANGED <<vaultVars, phase, request, snapshot, todo, asked, userVars,
                 aborts>>

(* Mutant: an old recovery is cleared away first. *)
MutMoveToRecovery(e) ==
  /\ at[e] = "recover"
  /\ IF target # Absent
       THEN /\ recovery' = target
            /\ target' = Absent
            /\ Goto(e, "install")
       ELSE /\ Goto(e, "failed")
            /\ UNCHANGED <<target, recovery>>
  /\ UNCHANGED <<stage, phase, request, snapshot, hadTarget, todo, asked,
                 userVars, aborts>>

(* rename(target, recovery): a directory may replace an empty directory. *)
MoveToRecovery(e) ==
  /\ at[e] = "recover"
  /\ IF target # Absent /\ Vacant(recovery)
       THEN /\ recovery' = target
            /\ target' = Absent
            /\ Goto(e, "install")
       ELSE /\ Goto(e, "failed")
            /\ UNCHANGED <<target, recovery>>
  /\ UNCHANGED <<stage, phase, request, snapshot, hadTarget, todo, asked,
                 userVars, aborts>>

(* rename(stage, target); a failure is returned without moving the recovery
   back. *)
Install(e) ==
  /\ at[e] = "install"
  /\ IF stage # Absent /\ Vacant(target)
       THEN /\ target' = stage
            /\ stage' = Absent
            /\ Goto(e, "readback")
       ELSE /\ Goto(e, "failed")
            /\ UNCHANGED <<target, stage>>
  /\ UNCHANGED <<recovery, phase, request, snapshot, hadTarget, todo, asked,
                 userVars, aborts>>

(* Mutant: the installed tree is not read back. *)
MutReadBack(e) ==
  /\ at[e] = "readback"
  /\ Goto(e, IF hadTarget[e] THEN "cleanup" ELSE "done")
  /\ UNCHANGED <<vaultVars, phase, request, snapshot, hadTarget, todo, asked,
                 userVars, aborts>>

(* verify_written_namespace of the target; a mismatch is returned without
   undoing the install. *)
ReadBack(e) ==
  /\ at[e] = "readback"
  /\ \/ ~Written(target, request[e]) /\ Goto(e, "failed")
     \/ Written(target, request[e]) /\ hadTarget[e] /\ Goto(e, "cleanup")
     \/ Written(target, request[e]) /\ ~hadTarget[e] /\ Goto(e, "done")
  /\ UNCHANGED <<vaultVars, phase, request, snapshot, hadTarget, todo, asked,
                 userVars, aborts>>

(* remove_dir_all(recovery) removes one entry after the other, in any order,
   then the emptied directory itself. *)
RemoveEntry(e) ==
  /\ at[e] = "cleanup" /\ ~Vacant(recovery)
  /\ \/ /\ recovery.manifest # NoManifest
        /\ recovery' = WithManifest(recovery, NoManifest)
     \/ \E path \in Paths :
          /\ recovery.files[path] # NoFile
          /\ recovery' = WithFile(recovery, path, NoFile)
  /\ Goto(e, IF recovery' = EmptyTree THEN "rmdir" ELSE "cleanup")
  /\ UNCHANGED <<target, stage, phase, request, snapshot, hadTarget, todo,
                 asked, userVars, aborts>>

(* Another exporter may have moved the target over the emptied recovery. *)
RemoveRecovery(e) ==
  /\ at[e] = "rmdir" \/ (at[e] = "cleanup" /\ Vacant(recovery))
  /\ IF recovery = EmptyTree
       THEN recovery' = Absent /\ Goto(e, "done")
       ELSE Goto(e, "failed") /\ UNCHANGED recovery
  /\ UNCHANGED <<target, stage, phase, request, snapshot, hadTarget, todo,
                 asked, userVars, aborts>>

-----------------------------------------------------------------------------
(* What happens around the exporters. *)

(* The process is killed, or a call fails and the error is returned: nothing
   is cleaned up. *)
Abort(e) ==
  /\ at[e] \in Running
  /\ aborts < MaxAborts
  /\ aborts' = aborts + 1
  /\ Goto(e, "failed")
  /\ UNCHANGED <<vaultVars, phase, request, snapshot, hadTarget, todo, asked,
                 userVars>>

(* Between the read of the final inspection and the rename of the target. *)
Unguarded == \E e \in Exporters : at[e] \in {"probe", "recover"}

(* The user writes or removes one file of the target, be it a managed note
   or a file of their own. *)
UserEdit ==
  /\ target # Absent
  /\ edits < MaxEdits
  /\ edits' = edits + 1
  /\ \E path \in Paths, text \in UserContents \cup {NoFile} :
       LET written == IF text = NoFile THEN {} ELSE {<<path, text>>}
           kept(writings) == {w \in writings : w[1] # path}
       IN  /\ target' = WithFile(target, path, text)
           /\ userEdits' = kept(userEdits) \cup written
           /\ lateEdits' = kept(lateEdits) \cup (IF Unguarded THEN written ELSE {})
  /\ UNCHANGED <<stage, recovery, exporterVars, asked, aborts>>

(* "inspect it before retrying": what someone who looks at the leftovers of
   an interrupted run does while no exporter runs.  The stage is never the
   only copy of anything; a recovery is put back unless the target is whole;
   notes the user wrote are not thrown away. *)
Quiet == \A e \in Exporters : at[e] \in Resting

Holds(node, writings) ==
  node # Absent /\ \E w \in writings : node.files[w[1]] = w[2]

ClearStage ==
  /\ Quiet
  /\ stage # Absent
  /\ stage' = Absent
  /\ UNCHANGED <<target, recovery, exporterVars, asked, userVars, aborts>>

RestoreRecovery ==
  /\ Quiet
  /\ recovery # Absent
  /\ ~Whole(target) /\ ~Holds(target, userEdits)
  /\ target' = recovery
  /\ recovery' = Absent
  /\ UNCHANGED <<stage, exporterVars, asked, userVars, aborts>>

DropRecovery ==
  /\ Quiet
  /\ recovery # Absent
  /\ Whole(target) /\ ~Holds(recovery, userEdits)
  /\ recovery' = Absent
  /\ UNCHANGED <<target, stage, exporterVars, asked, userVars, aborts>>

-----------------------------------------------------------------------------

Step(e) ==
  \/ Gate(e) \/ Refuse(e) \/ Diff(e) \/ Preflight(e) \/ VerifySnapshot(e)
  \/ Reject(e) \/ MakeStage(e) \/ WriteArtifact(e) \/ WriteManifest(e)
  \/ VerifyStage(e) \/ ProbeTarget(e) \/ MoveToRecovery(e) \/ Install(e)
  \/ ReadBack(e) \/ RemoveEntry(e) \/ RemoveRecovery(e)

Inspector == ClearStage \/ RestoreRecovery \/ DropRecovery

Next ==
  \/ \E e \in Exporters : Start(e) \/ Step(e) \/ Abort(e)
  \/ UserEdit
  \/ Inspector

Spec == Init /\ [][Next]_vars

(* What convergence needs: an exporter that is scheduled and, once it was
   run, run again, and someone who sooner or later inspects the leftovers the
   refusals name, though not between any two particular runs. *)
FairSpec ==
  /\ Spec
  /\ \A e \in Exporters : WF_vars(at[e] # "idle" /\ Start(e)) /\ WF_vars(Step(e))
  /\ SF_vars(ClearStage) /\ SF_vars(RestoreRecovery) /\ SF_vars(DropRecovery)

-----------------------------------------------------------------------------
(* Properties. *)

TypeOK ==
  /\ target \in Node
  /\ stage \in Node
  /\ recovery \in Node
  /\ at \in [Exporters -> Resting \cup Running]
  /\ phase \in [Exporters -> Phases]
  /\ request \in [Exporters -> Requests \cup {NoManifest}]
  /\ \A e \in Exporters : at[e] \in Running => request[e] \in Requests
  /\ snapshot \in [Exporters -> Node]
  /\ hadTarget \in [Exporters -> BOOLEAN]
  /\ todo \in [Exporters -> SUBSET Paths]
  /\ asked \subseteq Requests
  /\ userEdits \subseteq Paths \X UserContents
  /\ lateEdits \subseteq userEdits
  /\ edits \in 0..MaxEdits
  /\ aborts \in 0..MaxAborts

(* What someone who falls back from a broken target to the recovery finds. *)
Published ==
  IF Whole(target) THEN target.manifest
  ELSE IF Whole(recovery) THEN recovery.manifest
  ELSE NoManifest

Untouched == edits = 0

(* The namespace seen through target and recovery behaves like a register
   that holds one whole bundle and changes atomically (module AtomicVault),
   until a user edits it. *)
Atomic == INSTANCE AtomicVault WITH
  Bundles <- Requests, Nothing <- NoManifest, Spoiled <- Absent,
  content <- IF Untouched THEN Published ELSE Absent

AtomicNamespace == Atomic!Spec

(* Once a whole bundle is in place, one is to be found in the target or in
   the recovery until a user edits the notes, however many exporters race and
   wherever they are killed (commit_inner keeps the recovery until the install
   is verified). *)
NeverLost ==
  [][Untouched' /\ Published # NoManifest => Published' # NoManifest]_vars

(* An exporter removes the recovery only while the target holds exactly the
   bundle this exporter was asked for, although other exporters write to the
   same stage and rename the same paths. *)
CleanupIsSafe ==
  Untouched =>
    \A e \in Exporters : at[e] = "cleanup" => Written(target, request[e])

(* At most one exporter has a previous target in the recovery, and until that
   exporter starts to remove it nobody else has emptied or replaced it. *)
Holders ==
  {e \in Exporters : hadTarget[e] /\ at[e] \in {"install", "readback", "cleanup"}}

OneHolder ==
  Untouched =>
    /\ \A e, f \in Holders : e = f
    /\ Holders # {} => ~Vacant(recovery)

(* The strengthening of CleanupIsSafe and OneHolder that every step keeps
   until a user edits a note, if the target was not an empty directory at
   first. *)
Staged(e) ==
  \/ at[e] \in {"probe", "recover", "install"}
  \/ phase[e] = "final" /\ at[e] \in {"gate", "read"}

Provenance ==
  /\ \A e \in Exporters : at[e] \in Running => request[e] \in asked
  /\ \A node \in {target, stage, recovery} :
       node # Absent => node.manifest \in asked \cup {NoManifest}

CleanersHold == \A e \in Exporters : at[e] = "cleanup" => hadTarget[e]

EmptiedLast == recovery = EmptyTree => Whole(target)

NoEmptyTarget == Vacant(recovery) => target # EmptyTree

StageFilled ==
  \A e \in Exporters :
    Staged(e) /\ target = Absent /\ Vacant(recovery) => ~Vacant(stage)

TodoIsWanted ==
  \A e \in Exporters : at[e] = "write" => todo[e] \subseteq FilesOf(request[e])

Inductive ==
  Untouched =>
    /\ CleanupIsSafe
    /\ OneHolder
    /\ CleanersHold
    /\ EmptiedLast
    /\ NoEmptyTarget
    /\ StageFilled
    /\ TodoIsWanted
    /\ Provenance

(* What the theorems about Inductive assume: from an empty directory one
   exporter can delete what another one installed, see the README. *)
NeverEmpty == EmptyTree \notin InitialTargets

(* What the theorem about EarlyEditsSurvive assumes: no exporter generates the
   text of a note the user wrote. *)
UserTextIsOwn ==
  \A r \in Requests : \A path \in Paths : r.artifacts[path] \notin UserContents

(* A note the user wrote before the final inspection of a commit began its
   last read is never destroyed: the commit refuses, or it keeps the note. *)
EarlyEditsSurvive ==
  \A w \in userEdits \ lateEdits : Holds(target, {w}) \/ Holds(recovery, {w})

(* "Write mode ... refuses edited managed notes" (src/README.md:137), taken at its
   word: no note the user wrote is ever destroyed. *)
EditsSurvive ==
  \A w \in userEdits : Holds(target, {w}) \/ Holds(recovery, {w})

(* No other exporter was ever started, and no user edited a note. *)
Alone(e) == Untouched /\ \A f \in Exporters \ {e} : at[f] = "idle"

(* Success also means a namespace `--check` accepts for the same Index: "`--check`
   first proves ownership and byte currency" (src/README.md:134-135). *)
DoneIsCurrent ==
  \A e \in Exporters : at[e] = "done" => Current(target, request[e])

(* Run again with one Index after each interruption, with the leftovers
   inspected, a lone exporter ends up with the wanted files in place and they
   stay there. *)
Converges ==
  \A e \in Exporters, r \in Requests :
    []Alone(e) /\ <>[](request[e] = r)
      => <>[](Whole(target) /\ target.files = r.artifacts)

=============================================================================
