---------------------------- MODULE BuildInputs ----------------------------
(***************************************************************************)
(* The commands that make and use exact build inputs: build-inputs select, *)
(* materialize, derive and finalize (src/src/build_inputs.rs and           *)
(* build_inputs/) and sealed-resources capture and materialize             *)
(* (src/src/sealed_resources.rs).                                          *)
(*                                                                         *)
(* Each command makes one thing at a place of its own and refuses a place  *)
(* that is taken.  A tree is staged under a name nobody else uses, and     *)
(* renamed; a record is created; a selected view is built where it stays.  *)
(* Between any two calls owners may edit their sources, and users what was *)
(* made.                                                                   *)
(***************************************************************************)
EXTENDS MaterializedTree

CONSTANTS
  Runs,      \* invocations of the commands
  Sources,   \* what the owners' sources may be at first
  Limits,    \* the entry and byte limits of each command's tree
  Nothing,   \* nothing at a path
  NoRecord,  \* a directory without a record
  MaxEdits   \* bound on edits by owners and users

Kinds == {"capture", "seal", "materialize", "derive", "finalize", "select"}

Entry == [files : Files \cup [{"metadata", "graph"} -> Files],
          record : Files \cup {NoRecord}]

ASSUME InputsAssumption ==
  /\ Sources \subseteq Files
  /\ Limits \in [Kinds -> Limit]
  /\ MaxEdits \in Nat
  /\ Nothing \notin File \cup Entry /\ NoRecord \notin Files

VARIABLES
  owner,    \* the sources under the owner roots
  place,    \* what is at the destination of each command
  issued,   \* the record of the last thing a command made there, as it wrote it
  kind,     \* the command each run is
  pc,       \* what each run does next
  pinned,   \* the record whose digest a run was started with
  left,     \* the files a run still has to look at
  looked,   \* the file a run is about to read, its mode and length as seen
  stage,    \* the tree a run has staged, or what it has seen
  edits,    \* number of edits so far
  touched,  \* history: the places a user changed
  crossed   \* history: the runs during which there was an edit

runVars == <<kind, pc, pinned, left, looked, stage>>
vars == <<owner, place, issued, runVars, edits, touched, crossed>>

EmptyDirectory == [files |-> NoFiles, record |-> NoRecord]

(* What a source or a tree holds at a path. *)
At(files, path) == IF path \in DOMAIN files THEN files[path] ELSE Nothing

TreeOf(k) == IF place[k] = Nothing THEN NoFiles ELSE place[k].files

(* finalize materializes the assembled trees again; the others copy their owners. *)
Source(r) == IF kind[r] = "finalize" THEN TreeOf("materialize") ELSE owner

(* The first thing a command looks at, after its arguments. *)
FirstStep == [capture |-> "list", seal |-> "pin", materialize |-> "probe",
              derive |-> "pin", finalize |-> "probe", select |-> "probe"]

Live(r) == pc[r] \notin {FirstStep[kind[r]], "done", "failed"}

Goto(r, step) == pc' = [pc EXCEPT ![r] = step]

(* A selection and materialized trees may be there from earlier runs. *)
Init ==
  /\ owner \in Sources
  /\ \E before \in {{}, {"capture", "materialize"}} :
       /\ place = [k \in Kinds |-> IF k \in before THEN [files |-> owner, record |-> owner]
                                   ELSE Nothing]
       /\ issued = [k \in Kinds |-> IF k \in before THEN owner ELSE NoRecord]
  /\ kind \in [Runs -> Kinds]
  /\ pc = [r \in Runs |-> FirstStep[kind[r]]]
  /\ pinned = [r \in Runs |-> NoRecord]
  /\ left = [r \in Runs |-> {}]
  /\ looked = [r \in Runs |-> Nothing]
  /\ stage = [r \in Runs |-> NewTree]
  /\ edits = 0 /\ touched = {} /\ crossed = {}

RunKept == UNCHANGED <<kind, pinned, left, looked, stage>>
WorldKept == UNCHANGED <<owner, edits, touched, crossed>>
-----------------------------------------------------------------------------
(* Arguments and pinned inputs. *)

(* The command whose record a run is started with. *)
PinnedKind(r) == IF kind[r] = "seal" THEN "capture" ELSE "materialize"

(* Mutant: the record is used without looking at its digest. *)
MutPin(r) ==
  LET from == PinnedKind(r) IN
  /\ pc[r] = "pin"
  /\ place[from] # Nothing /\ place[from].record # NoRecord
  /\ pinned' = [pinned EXCEPT ![r] = place[from].record]
  /\ left' = [left EXCEPT ![r] = IF kind[r] = "derive" THEN DOMAIN TreeOf("materialize")
                                 ELSE @]
  /\ Goto(r, CASE kind[r] = "seal" -> "probe" [] kind[r] = "derive" -> "verify"
                [] OTHER -> "list")
  /\ UNCHANGED <<kind, looked, stage, place, issued>> /\ WorldKept

(* The record is read once, and has the digest that was given for it: that of what the
   earlier command wrote. *)
Pin(r) ==
  LET from == PinnedKind(r) IN
  /\ pc[r] = "pin"
  /\ place[from] # Nothing /\ place[from].record # NoRecord
  /\ place[from].record = issued[from]
  /\ pinned' = [pinned EXCEPT ![r] = place[from].record]
  /\ left' = [left EXCEPT ![r] = IF kind[r] = "derive" THEN DOMAIN TreeOf("materialize")
                                 ELSE @]
  /\ Goto(r, CASE kind[r] = "seal" -> "probe" [] kind[r] = "derive" -> "verify"
                [] OTHER -> "list")
  /\ UNCHANGED <<kind, looked, stage, place, issued>> /\ WorldKept

(* The look at the destination, long before the rename.  What follows is done in a
   directory of the run's own. *)
Probe(r) ==
  /\ pc[r] = "probe"
  /\ place[kind[r]] = Nothing
  /\ Goto(r, CASE kind[r] = "select" -> "create" [] kind[r] = "derive" -> "invoke"
                [] kind[r] = "finalize" -> "pin" [] OTHER -> "list")
  /\ RunKept /\ WorldKept /\ UNCHANGED <<place, issued>>

(* Any early return, failing call or kill; what was staged stays where it is. *)
Fail(r) ==
  /\ Live(r)
  /\ Goto(r, "failed")
  /\ left' = [left EXCEPT ![r] = {}] /\ stage' = [stage EXCEPT ![r] = NewTree]
  /\ UNCHANGED <<kind, pinned, looked>> /\ WorldKept /\ UNCHANGED <<place, issued>>
-----------------------------------------------------------------------------
(* Copying sources. *)

(* What is to be copied: the files of the selection, or what the listing shows. *)
Listing(r) == IF kind[r] = "seal" THEN DOMAIN pinned[r] ELSE DOMAIN Source(r)

List(r) ==
  /\ pc[r] = "list"
  /\ left' = [left EXCEPT ![r] = Listing(r)]
  /\ Goto(r, "look")
  /\ UNCHANGED <<kind, pinned, looked, stage, place, issued>> /\ WorldKept

(* Members are taken in the order of their names; the kind and the mode of a source
   are looked up by its path. *)
Look(r) ==
  /\ pc[r] = "look" /\ left[r] # {}
  /\ LET path == Min(left[r]) IN
       /\ At(Source(r), path) # Nothing
       /\ looked' = [looked EXCEPT ![r] =
                       [path |-> path, executable |-> Source(r)[path].executable,
                        bytes |-> Size[Source(r)[path].body]]]
  /\ Goto(r, "read")
  /\ UNCHANGED <<kind, pinned, left, stage, place, issued>> /\ WorldKept

(* A capture counts the files it takes and a root, the others every entry of the tree
   they make.  A file that is captured must still have the length that was seen. *)
Affordable(r, tree) ==
  IF kind[r] = "capture"
  THEN /\ Cardinality(DOMAIN tree.files) < Limits["capture"].entries
       /\ tree.bytes <= Limits["capture"].bytes
       /\ Size[tree.files[looked[r].path].body] = looked[r].bytes
  ELSE WithinBudget(tree, Limits[kind[r]])

(* Then it is opened and read.  A selected view is written where it stays. *)
Read(r) ==
  LET path == looked[r].path
      tree == WriteFile(stage[r], path, [body |-> Source(r)[path].body,
                                         executable |-> looked[r].executable])
  IN /\ pc[r] = "read"
     /\ At(Source(r), path) # Nothing
     /\ Affordable(r, tree)
     /\ stage' = [stage EXCEPT ![r] = tree]
     /\ left' = [left EXCEPT ![r] = @ \ {path}]
     /\ looked' = [looked EXCEPT ![r] = Nothing]
     /\ place' = IF kind[r] = "select" THEN [place EXCEPT !["select"].files = tree.files]
                 ELSE place
     /\ Goto(r, "look")
     /\ UNCHANGED <<kind, pinned, issued>> /\ WorldKept

(* The record is made of what was read; sealed resources must be what was selected,
   and a finalized record must be that of the assembled trees. *)
Finish(r) ==
  /\ pc[r] = "look" /\ left[r] = {}
  /\ kind[r] \in {"seal", "finalize"} => stage[r].files = pinned[r]
  /\ Goto(r, IF kind[r] = "select" THEN "invoke" ELSE "publish")
  /\ RunKept /\ WorldKept /\ UNCHANGED <<place, issued>>
-----------------------------------------------------------------------------
(* Deriving from a materialized tree. *)

(* One file of the tree has the recorded bytes and mode. *)
VerifyFile(r) ==
  /\ pc[r] = "verify"
  /\ \E path \in left[r] :
       /\ path \in DOMAIN pinned[r]
       /\ At(TreeOf("materialize"), path) = pinned[r][path]
       /\ left' = [left EXCEPT ![r] = @ \ {path}]
       /\ stage' = [stage EXCEPT ![r].dirs = @ \cup {path}]
  /\ UNCHANGED <<kind, pc, pinned, looked, place, issued>> /\ WorldKept

(* Mutant: recorded files that are missing from the tree are not noticed. *)
MutVerified(r) ==
  /\ pc[r] = "verify" /\ left[r] = {}
  /\ Goto(r, "probe")
  /\ RunKept /\ WorldKept /\ UNCHANGED <<place, issued>>

(* No recorded file was missing. *)
Verified(r) ==
  /\ pc[r] = "verify" /\ left[r] = {}
  /\ stage[r].dirs = DOMAIN pinned[r]
  /\ Goto(r, "probe")
  /\ RunKept /\ WorldKept /\ UNCHANGED <<place, issued>>

(* Cargo reads the tree twice: for its metadata, then for its unit graph.  The view of
   a selection is read too; its bindings are checked again afterwards. *)
Invoke(r) ==
  /\ pc[r] \in {"invoke", "invoke_graph"}
  /\ IF kind[r] = "derive"
       THEN stage' = [stage EXCEPT ![r].files =
              IF pc[r] = "invoke" THEN [output \in {"metadata"} |-> TreeOf("materialize")]
              ELSE [output \in {"metadata", "graph"} |->
                      IF output = "graph" THEN TreeOf("materialize") ELSE @["metadata"]]]
       ELSE UNCHANGED stage
  /\ Goto(r, IF pc[r] = "invoke" THEN "invoke_graph"
             ELSE IF kind[r] = "select" THEN "revalidate" ELSE "publish")
  /\ UNCHANGED <<kind, pinned, left, looked, place, issued>> /\ WorldKept
-----------------------------------------------------------------------------
(* Publication. *)

(* Mutant: create_dir_all, which does not mind a directory that is there. *)
MutCreateView(r) ==
  /\ pc[r] = "create"
  /\ place' = IF place["select"] = Nothing
              THEN [place EXCEPT !["select"] = EmptyDirectory] ELSE place
  /\ Goto(r, "list")
  /\ UNCHANGED issued /\ RunKept /\ WorldKept

(* A selected view is built in place; create_dir fails on whatever is there. *)
CreateView(r) ==
  /\ pc[r] = "create"
  /\ place["select"] = Nothing
  /\ place' = [place EXCEPT !["select"] = EmptyDirectory]
  /\ Goto(r, "list")
  /\ UNCHANGED issued /\ RunKept /\ WorldKept

(* The owner's manifests and the copies in the view are still what was bound. *)
Revalidate(r) ==
  /\ pc[r] = "revalidate"
  /\ \A path \in DOMAIN stage[r].files :
       /\ At(owner, path) # Nothing /\ owner[path].body = stage[r].files[path].body
       /\ At(TreeOf("select"), path) = stage[r].files[path]
  /\ Goto(r, "publish")
  /\ RunKept /\ WorldKept /\ UNCHANGED <<place, issued>>

(* What a record says: the files as they were read; a derivation names the record it
   was started with. *)
RecordOf(r) == IF kind[r] = "derive" THEN pinned[r] ELSE stage[r].files

(* Mutant: the record a user may have begun, or another run finished, is written over. *)
MutPublish(r) ==
  /\ pc[r] = "publish"
  /\ place' = [place EXCEPT ![kind[r]] = [files |-> stage[r].files, record |-> RecordOf(r)]]
  /\ issued' = [issued EXCEPT ![kind[r]] = RecordOf(r)]
  /\ Goto(r, "done")
  /\ RunKept /\ WorldKept

(* rename puts a directory in the place of nothing or of an empty directory; write_new
   creates a file; a view gets its receipt, by write_new too, and is complete. *)
Publish(r) ==
  LET here == place[kind[r]] IN
  /\ pc[r] = "publish"
  /\ CASE kind[r] = "select" -> here # Nothing /\ here.record = NoRecord
       [] kind[r] \in {"capture", "finalize"} -> here = Nothing
       [] OTHER -> here \in {Nothing, EmptyDirectory}
  /\ place' = [place EXCEPT ![kind[r]] =
                 [files |-> IF kind[r] = "select" THEN @.files ELSE stage[r].files,
                  record |-> RecordOf(r)]]
  /\ issued' = [issued EXCEPT ![kind[r]] = RecordOf(r)]
  /\ Goto(r, "done")
  /\ RunKept /\ WorldKept
-----------------------------------------------------------------------------
(* Owners and users. *)

Edited(kinds) ==
  /\ edits < MaxEdits
  /\ edits' = edits + 1
  /\ touched' = touched \cup kinds
  /\ crossed' = crossed \cup {r \in Runs : Live(r)}
  /\ UNCHANGED <<issued, runVars>>

(* One file is changed, added or removed. *)
WithFile(files, path, file) ==
  [p \in DOMAIN files \cup {path} |-> IF p = path THEN file ELSE files[p]]

WithEdit(files) ==
  {WithFile(files, path, file) : path \in Paths, file \in File}
    \cup {Restrict(files, DOMAIN files \ {path}) : path \in Paths}

OwnerEdit ==
  /\ owner' \in WithEdit(owner)
  /\ Edited({}) /\ UNCHANGED place

(* A user changes a materialized tree, or the record of a selection or of the trees. *)
UserEdit ==
  \E k \in {"capture", "materialize"} :
    /\ place[k] # Nothing
    /\ \/ k = "materialize" /\ \E files \in WithEdit(place[k].files) :
            place' = [place EXCEPT ![k].files = files]
       \/ \E files \in WithEdit(NoFiles) : place' = [place EXCEPT ![k].record = files]
    /\ Edited({k}) /\ UNCHANGED owner

(* A user makes a directory where a command is going to put its tree. *)
UserMakes ==
  \E k \in Kinds \ {"capture", "finalize"} :
    /\ place[k] = Nothing
    /\ \E files \in WithEdit(NoFiles) \cup {NoFiles} :
         place' = [place EXCEPT ![k] = [files |-> files, record |-> NoRecord]]
    /\ Edited({k}) /\ UNCHANGED owner
-----------------------------------------------------------------------------
RunStep(r) ==
  \/ Pin(r) \/ Probe(r) \/ Fail(r)
  \/ List(r) \/ Look(r) \/ Read(r) \/ Finish(r)
  \/ VerifyFile(r) \/ Verified(r) \/ Invoke(r)
  \/ CreateView(r) \/ Revalidate(r) \/ Publish(r)

Next == (\E r \in Runs : RunStep(r)) \/ OwnerEdit \/ UserEdit \/ UserMakes

Spec == Init /\ [][Next]_vars
-----------------------------------------------------------------------------
Complete(k) == place[k] # Nothing /\ place[k].record # NoRecord

(* Nothing is replaced: once there is a complete tree or record, or a directory with
   something in it that no run is building, no command changes it, however many looked
   at the place while it was empty (the exists checks of build_inputs.rs:232,
   derive.rs:162, sealed_resources.rs:318 and selected_view.rs:210 are long over when
   the rename or the receipt comes). *)
NothingIsReplaced ==
  [][\A k \in Kinds :
       \/ place'[k] = place[k]
       \/ place[k] \in {Nothing, EmptyDirectory}
       \/ k = "select" /\ ~Complete(k)
       \/ edits' # edits]_vars

(* Success is the caller's own: at most one run of a command succeeds, and until a user
   changes it the place holds exactly the files that run read and the record of them;
   a view has its receipt only when it is whole and one run built it. *)
SuccessIsPublished ==
  /\ \A r, s \in Runs : kind[r] = kind[s] /\ pc[r] = "done" /\ pc[s] = "done" => r = s
  /\ \A r \in Runs : pc[r] = "done" /\ kind[r] \notin touched =>
       place[kind[r]] = [files |-> stage[r].files, record |-> RecordOf(r)]
  /\ \A k \in Kinds \ {"derive"} : Complete(k) /\ k \notin touched =>
       place[k].files = place[k].record

(* Sealed means selected: whatever is edited and whenever, sealed resources are the
   files of the selection whose digest was given, and a finalized record is the record
   of the assembled trees. *)
SealedIsSelected ==
  \A r \in Runs :
    /\ pc[r] = "done" /\ kind[r] = "seal" => stage[r].files = issued["capture"]
    /\ pc[r] = "done" /\ kind[r] = "finalize" => stage[r].files = issued["materialize"]

(* A derivation is of the recorded trees: with no edit while it ran, both outputs of
   Cargo were computed from exactly the files of the record, whatever was changed
   between the materialization and the derivation. *)
DerivedIsRecorded ==
  \A r \in Runs : pc[r] = "done" /\ kind[r] = "derive" /\ r \notin crossed =>
    stage[r].files = [output \in {"metadata", "graph"} |-> issued["materialize"]]

(* No complete tree exceeds the limits it was made under, when its entries and bytes
   are counted afresh. *)
TreesAreWithinLimits ==
  \A r \in Runs : pc[r] = "done" /\ kind[r] \notin {"capture", "derive"} =>
    /\ EntriesOf(stage[r].files) <= Limits[kind[r]].entries
    /\ BytesOf(stage[r].files) <= Limits[kind[r]].bytes
-----------------------------------------------------------------------------
(* What follows is said by documents or comments of the code, and the code does not
   keep it; no run checks it. *)

(* "Every file the report names must currently have exactly the recorded bytes" when
   Cargo runs (derive.rs, require_tree_matches_record). *)
DerivedIsRecordedAlways ==
  \A r \in Runs : pc[r] = "done" /\ kind[r] = "derive" =>
    stage[r].files = [output \in {"metadata", "graph"} |-> pinned[r]]

(* "exact selection captured": every file of a selection was, at one moment, a source
   with that content and that mode. *)
CapturedIsExact ==
  [][\A r \in Runs : pc[r] = "read" /\ pc'[r] = "look" =>
       stage'[r].files[looked[r].path] = Source(r)[looked[r].path]]_vars

=============================================================================
