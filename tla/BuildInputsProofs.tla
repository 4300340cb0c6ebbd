------------------------- MODULE BuildInputsProofs -------------------------
(* What holds of the build-input commands for any number of runs, paths, contents,
   limits and edits. *)
EXTENDS BuildInputs, CargoGraph, TLAPS, FiniteSetTheorems, WellFoundedInduction

StepsOf ==
  [capture |-> {"list", "look", "read", "publish", "done", "failed"},
   seal |-> {"pin", "probe", "list", "look", "read", "publish", "done", "failed"},
   materialize |-> {"probe", "list", "look", "read", "publish", "done", "failed"},
   derive |-> {"pin", "verify", "probe", "invoke", "invoke_graph", "publish", "done", "failed"},
   finalize |-> {"probe", "pin", "list", "look", "read", "publish", "done", "failed"},
   select |-> {"probe", "create", "list", "look", "read", "invoke", "invoke_graph",
               "revalidate", "publish", "done", "failed"}]
Steps == UNION {StepsOf[k] : k \in Kinds}

Looks == [path : Paths, executable : BOOLEAN, bytes : Nat]
Outputs(names) == [names -> Files]
Tree == [files : Files \cup Outputs({"metadata"}) \cup Outputs({"metadata", "graph"}),
         dirs : SUBSET (Dirs \cup Paths), entries : Nat, bytes : Nat]

InputsTypeOK ==
  /\ owner \in Files
  /\ place \in [Kinds -> Entry \cup {Nothing}]
  /\ \A k \in Kinds \ {"derive"} : place[k] # Nothing => place[k].files \in Files
  /\ issued \in [Kinds -> Files \cup {NoRecord}]
  /\ kind \in [Runs -> Kinds]
  /\ pc \in [Runs -> Steps]
  /\ pinned \in [Runs -> Files \cup {NoRecord}]
  /\ left \in [Runs -> SUBSET Paths]
  /\ looked \in [Runs -> Looks \cup {Nothing}]
  /\ stage \in [Runs -> Tree]
  /\ edits \in Nat /\ touched \in SUBSET Kinds /\ crossed \in SUBSET Runs

(* A run takes the steps of its command, and stages what the command makes. *)
StagesItsKind(r) ==
  /\ pc[r] \in StepsOf[kind[r]]
  /\ pc[r] = "read" => looked[r] \in Looks
  /\ kind[r] # "derive" => stage[r].files \in Files
  /\ kind[r] = "derive" /\ pc[r] = "invoke_graph" => stage[r].files \in Outputs({"metadata"})
  /\ kind[r] = "derive" /\ pc[r] \in {"publish", "done"} =>
       stage[r].files \in Outputs({"metadata", "graph"})

(* It begins with an empty tree. *)
BeginsEmpty(r) ==
  pc[r] \in {"pin", "create", "list"} \/ (kind[r] # "derive" /\ pc[r] = "probe") =>
    stage[r] = NewTree

(* The record it was started with is the one that was issued, and is still in place or
   was edited there: nobody can issue another. *)
HasPinned(r) ==
  \/ kind[r] \in {"seal", "derive"} /\ pc[r] \notin {"pin", "failed"}
  \/ kind[r] = "finalize" /\ pc[r] \notin {"probe", "pin", "failed"}
PinnedWasIssued(r) ==
  /\ HasPinned(r) => pinned[r] # NoRecord
  /\ pinned[r] # NoRecord => Complete(PinnedKind(r)) /\ pinned[r] = issued[PinnedKind(r)]

(* A view under construction is the one at the place, and has no receipt. *)
Builds(r) ==
  kind[r] = "select" /\ pc[r] \in {"list", "look", "read", "invoke", "invoke_graph", "revalidate", "publish"}
BuildsInPlace(r) ==
  Builds(r) => place["select"] = [files |-> stage[r].files, record |-> NoRecord]

(* What is published was compared with what was pinned. *)
ComparedFirst(r) ==
  kind[r] \in {"seal", "finalize"} /\ pc[r] \in {"publish", "done"} => stage[r].files = pinned[r]

(* What a successful run made is at its place, as it made it unless a user changed it. *)
MadeItsPlace(r) ==
  pc[r] = "done" =>
    /\ Complete(kind[r])
    /\ kind[r] \notin touched =>
         place[kind[r]] = [files |-> stage[r].files, record |-> RecordOf(r)]

(* A derivation that nobody disturbs has compared the tree with the record up to the
   files it still has to look at, then reads that very tree. *)
DerivesRecorded(r) ==
  kind[r] = "derive" /\ r \notin crossed =>
    /\ pc[r] = "verify" =>
         /\ DOMAIN TreeOf("materialize") = left[r] \cup stage[r].dirs
         /\ \A path \in stage[r].dirs :
              path \in DOMAIN pinned[r] /\ TreeOf("materialize")[path] = pinned[r][path]
    /\ pc[r] \in {"probe", "invoke", "invoke_graph"} => TreeOf("materialize") = pinned[r]
    /\ pc[r] = "invoke_graph" => stage[r].files = [output \in {"metadata"} |-> pinned[r]]
    /\ pc[r] \in {"publish", "done"} =>
         stage[r].files = [output \in {"metadata", "graph"} |-> pinned[r]]

RunOK(r) ==
  /\ StagesItsKind(r) /\ BeginsEmpty(r) /\ PinnedWasIssued(r) /\ BuildsInPlace(r)
  /\ ComparedFirst(r) /\ MadeItsPlace(r) /\ DerivesRecorded(r)

(* At most one run builds a view, at most one of each command succeeds, and a record
   that no user changed says what is beside it. *)
Alone ==
  /\ \A r, s \in Runs : Builds(r) /\ Builds(s) => r = s
  /\ \A r, s \in Runs : kind[r] = kind[s] /\ pc[r] = "done" /\ pc[s] = "done" => r = s
RecordsAreTrue ==
  \A k \in Kinds \ {"derive"} : Complete(k) /\ k \notin touched => place[k].files = place[k].record

InputsInv ==
  /\ InputsTypeOK /\ (\A r \in Runs : RunOK(r)) /\ Alone /\ RecordsAreTrue
-----------------------------------------------------------------------------
LEMMA FilesFacts ==
  /\ NoFiles \in Files /\ DOMAIN NoFiles = {}
  /\ \A files \in Files : DOMAIN files \subseteq Paths /\ \A path \in DOMAIN files : files[path] \in File
  /\ \A paths \in SUBSET Paths : \A files \in [paths -> File] : files \in Files
  /\ EmptyDirectory \in Entry
  /\ \A entry \in Entry : entry # Nothing
<1>1. NoFiles \in [{} -> File]
  BY DEF NoFiles
<1>2. NoFiles \in Files
  BY <1>1 DEF Files
<1>3. NoRecord \notin Files /\ Nothing \notin Entry
  BY InputsAssumption
<1>4. EmptyDirectory \in Entry
  BY <1>2 DEF EmptyDirectory, Entry
<1>5. DOMAIN NoFiles = {}
  BY DEF NoFiles
<1>6. \A files \in Files : DOMAIN files \subseteq Paths /\ \A path \in DOMAIN files : files[path] \in File
  BY DEF Files
<1>7. \A paths \in SUBSET Paths : \A files \in [paths -> File] : files \in Files
  BY DEF Files
<1> QED
  BY <1>2, <1>3, <1>4, <1>5, <1>6, <1>7

LEMMA NewTreeType == NewTree \in Tree /\ NewTree.files = NoFiles /\ NewTree.dirs = {}
  BY FilesFacts DEF NewTree, Tree

LEMMA WriteFileType ==
  ASSUME NEW tree \in Tree, tree.files \in Files, NEW path \in Paths, NEW file \in File
  PROVE  WriteFile(tree, path, file) \in Tree /\ WriteFile(tree, path, file).files \in Files
<1> DEFINE files == [p \in DOMAIN tree.files \cup {path} |-> IF p = path THEN file ELSE tree.files[p]]
<1>1. files \in Files
  <2>1. files \in [DOMAIN tree.files \cup {path} -> File]
    BY FilesFacts
  <2>2. DOMAIN tree.files \cup {path} \subseteq Paths
    BY FilesFacts
  <2> QED
    BY <2>1, <2>2, FilesFacts
<1>2. Cardinality(Above[path] \ tree.dirs) \in Nat
  BY TreeAssumption, FS_Subset, FS_CardinalityType
<1>3. tree.dirs \cup Above[path] \subseteq Dirs \cup Paths
  BY TreeAssumption DEF Tree
<1>4. Size[file.body] \in Nat
  BY TreeAssumption DEF File
<1>5. /\ tree.entries + Cardinality(Above[path] \ tree.dirs) + 1 \in Nat
      /\ tree.bytes + Size[file.body] \in Nat
  BY <1>2, <1>4 DEF Tree
<1> HIDE DEF files
<1>6. WriteFile(tree, path, file) =
        [files |-> files, dirs |-> tree.dirs \cup Above[path],
         entries |-> tree.entries + Cardinality(Above[path] \ tree.dirs) + 1,
         bytes |-> tree.bytes + Size[file.body]]
  BY DEF WriteFile, files
<1> QED
  BY <1>1, <1>3, <1>5, <1>6 DEF Tree

LEMMA EditType ==
  ASSUME NEW files \in Files, NEW other \in WithEdit(files)
  PROVE  other \in Files
<1>1. ASSUME NEW path \in Paths, NEW file \in File, other = WithFile(files, path, file)
      PROVE  other \in Files
  <2>1. other \in [DOMAIN files \cup {path} -> File] /\ DOMAIN files \cup {path} \subseteq Paths
    BY <1>1, FilesFacts DEF WithFile
  <2> QED
    BY <2>1, FilesFacts
<1>2. ASSUME NEW path \in Paths, other = Restrict(files, DOMAIN files \ {path})
      PROVE  other \in Files
  <2>1. other = [p \in DOMAIN files \ {path} |-> files[p]]
    BY <1>2 DEF Restrict
  <2>2. other \in [DOMAIN files \ {path} -> File] /\ DOMAIN files \ {path} \subseteq Paths
    BY <2>1, FilesFacts
  <2> QED
    BY <2>2, FilesFacts
<1>3. \/ \E path \in Paths, file \in File : other = WithFile(files, path, file)
      \/ \E path \in Paths : other = Restrict(files, DOMAIN files \ {path})
  BY DEF WithEdit
<1> QED
  BY <1>1, <1>2, <1>3

LEMMA KindsAre == Kinds = {"capture", "seal", "materialize", "derive", "finalize", "select"}
  BY DEF Kinds

LEMMA InputsInvInit == Init => InputsInv
<1> SUFFICES ASSUME Init PROVE InputsInv
  OBVIOUS
<1> USE DEF Init
<1>1. owner \in Files /\ [files |-> owner, record |-> owner] \in Entry
  BY InputsAssumption DEF Entry
<1>2. PICK before \in {{}, {"capture", "materialize"}} :
        /\ place = [k \in Kinds |-> IF k \in before THEN [files |-> owner, record |-> owner]
                                    ELSE Nothing]
        /\ issued = [k \in Kinds |-> IF k \in before THEN owner ELSE NoRecord]
  OBVIOUS
<1>3. \A r \in Runs : kind[r] \in Kinds /\ pc[r] = FirstStep[kind[r]] /\ stage[r] = NewTree /\ pinned[r] = NoRecord
  OBVIOUS
<1>4. \A r \in Runs : /\ pc[r] \in StepsOf[kind[r]] /\ pc[r] \in {"list", "pin", "probe"}
                      /\ kind[r] \in {"seal", "derive"} => pc[r] = "pin"
                      /\ kind[r] \in {"finalize", "select"} => pc[r] = "probe"
  BY <1>3 DEF Kinds, FirstStep, StepsOf
<1>5. InputsTypeOK
  <2>1. place \in [Kinds -> Entry \cup {Nothing}] /\ issued \in [Kinds -> Files \cup {NoRecord}]
    BY <1>1, <1>2
  <2>2. \A k \in Kinds \ {"derive"} : place[k] # Nothing => place[k].files \in Files
    BY <1>1, <1>2
  <2>3. pc \in [Runs -> Steps]
    BY <1>3, <1>4 DEF Steps
  <2> QED
    BY <1>1, <2>1, <2>2, <2>3, NewTreeType, InputsAssumption DEF InputsTypeOK
<1>6. \A r \in Runs : RunOK(r)
  <2> SUFFICES ASSUME NEW r \in Runs PROVE RunOK(r)
    OBVIOUS
  <2>1. StagesItsKind(r) /\ BeginsEmpty(r)
    BY <1>3, <1>4, NewTreeType, FilesFacts DEF StagesItsKind, BeginsEmpty
  <2>2. PinnedWasIssued(r) /\ BuildsInPlace(r)
    BY <1>3, <1>4 DEF PinnedWasIssued, HasPinned, BuildsInPlace, Builds
  <2>3. ComparedFirst(r) /\ MadeItsPlace(r) /\ DerivesRecorded(r)
    BY <1>3, <1>4 DEF ComparedFirst, MadeItsPlace, DerivesRecorded
  <2> QED
    BY <2>1, <2>2, <2>3 DEF RunOK
<1>7. Alone
  BY <1>4 DEF Alone, Builds
<1>8. RecordsAreTrue
  BY <1>2 DEF RecordsAreTrue, Complete
<1> QED
  BY <1>5, <1>6, <1>7, <1>8 DEF InputsInv

LEMMA RunFacts ==
  ASSUME InputsInv, NEW r \in Runs
  PROVE  /\ InputsTypeOK /\ RunOK(r)
         /\ kind[r] \in Kinds /\ pc[r] \in StepsOf[kind[r]] /\ stage[r] \in Tree
         /\ TreeOf("materialize") \in Files /\ Source(r) \in Files
         /\ \A files \in Files : \A path : At(files, path) # Nothing => path \in DOMAIN files
  BY FilesFacts DEF InputsInv, InputsTypeOK, RunOK, StagesItsKind, TreeOf, Source, Kinds, At

(* A step that leaves what runs share alone and neither publishes nor begins a view. *)
LEMMA Quiet ==
  ASSUME InputsInv, NEW r \in Runs,
         UNCHANGED <<owner, place, issued, kind, edits, touched, crossed>>,
         \A q \in Runs \ {r} : /\ pc'[q] = pc[q] /\ pinned'[q] = pinned[q] /\ left'[q] = left[q]
                              /\ looked'[q] = looked[q] /\ stage'[q] = stage[q],
         InputsTypeOK', RunOK(r)', Builds(r)' => Builds(r), pc'[r] # "done"
  PROVE  InputsInv'
<1>1. ASSUME NEW q \in Runs \ {r} PROVE RunOK(q)'
  <2>1. RunOK(q)
    BY DEF InputsInv
  <2>2. StagesItsKind(q)' /\ BeginsEmpty(q)'
    BY <2>1 DEF RunOK, StagesItsKind, BeginsEmpty
  <2>3. PinnedWasIssued(q)' /\ BuildsInPlace(q)' /\ ComparedFirst(q)'
    BY <2>1 DEF RunOK, PinnedWasIssued, HasPinned, Complete, PinnedKind, BuildsInPlace, Builds, ComparedFirst
  <2>4. MadeItsPlace(q)' /\ DerivesRecorded(q)'
    BY <2>1 DEF RunOK, MadeItsPlace, Complete, RecordOf, DerivesRecorded, TreeOf
  <2> QED
    BY <2>2, <2>3, <2>4 DEF RunOK
<1>2. Alone'
  <2>1. \A q \in Runs : (Builds(q)' => Builds(q)) /\ (pc'[q] = "done" => pc[q] = "done")
    BY DEF Builds
  <2> QED
    BY <2>1 DEF InputsInv, Alone
<1>3. RecordsAreTrue'
  BY DEF InputsInv, RecordsAreTrue, Complete
<1> QED
  BY <1>1, <1>2, <1>3 DEF InputsInv

LEMMA PinInv == ASSUME InputsInv, NEW r \in Runs, Pin(r) PROVE InputsInv'
<1> DEFINE from == PinnedKind(r)
           step == CASE kind[r] = "seal" -> "probe" [] kind[r] = "derive" -> "verify" [] OTHER -> "list"
<1>1. /\ pc[r] = "pin" /\ Complete(from) /\ place[from].record = issued[from]
      /\ pinned' = [pinned EXCEPT ![r] = place[from].record]
      /\ left' = [left EXCEPT ![r] = IF kind[r] = "derive" THEN DOMAIN TreeOf("materialize") ELSE @]
      /\ pc' = [pc EXCEPT ![r] = step]
      /\ UNCHANGED <<owner, place, issued, kind, looked, stage, edits, touched, crossed>>
  BY DEF Pin, Goto, WorldKept, Complete
<1>2. /\ kind[r] \in {"seal", "derive", "finalize"} /\ from \in Kinds
      /\ kind[r] = "seal" => step = "probe"
      /\ kind[r] = "derive" => step = "verify"
      /\ kind[r] = "finalize" => step = "list"
  BY <1>1, RunFacts DEF StepsOf, Kinds, PinnedKind
<1>3. place[from].record \in Files
  BY <1>1, <1>2, RunFacts DEF InputsTypeOK, Complete, Entry
<1>4. step \in StepsOf[kind[r]] /\ step \in Steps
  BY <1>2 DEF StepsOf, Steps, Kinds
<1>5. stage[r] = NewTree
  BY <1>1, RunFacts DEF RunOK, BeginsEmpty
<1> HIDE DEF from, step
<1>6. InputsTypeOK'
  BY <1>1, <1>3, <1>4, RunFacts, FilesFacts DEF InputsTypeOK
<1>7. pc'[r] = step /\ pinned'[r] = place[from].record /\ stage'[r] = stage[r] /\ kind'[r] = kind[r]
  BY <1>1, RunFacts DEF InputsTypeOK
<1>8. RunOK(r)'
  <2>1. StagesItsKind(r)' /\ BeginsEmpty(r)'
    BY <1>2, <1>4, <1>5, <1>7, NewTreeType, FilesFacts DEF StagesItsKind, BeginsEmpty
  <2>2. PinnedWasIssued(r)'
    BY <1>1, <1>2, <1>3, <1>7, InputsAssumption DEF PinnedWasIssued, Complete, PinnedKind, from
  <2>3. BuildsInPlace(r)' /\ ComparedFirst(r)' /\ MadeItsPlace(r)'
    BY <1>2, <1>7 DEF BuildsInPlace, Builds, ComparedFirst, MadeItsPlace
  <2>4. DerivesRecorded(r)'
    <3>1. kind[r] = "derive" => left'[r] = DOMAIN TreeOf("materialize")
      BY <1>1, RunFacts DEF InputsTypeOK
    <3>2. TreeOf("materialize")' = TreeOf("materialize")
      BY <1>1 DEF TreeOf
    <3> QED
      BY <1>2, <1>5, <1>7, <3>1, <3>2, NewTreeType DEF DerivesRecorded
  <2> QED
    BY <2>1, <2>2, <2>3, <2>4 DEF RunOK
<1> QED
  BY <1>1, <1>2, <1>6, <1>7, <1>8, Quiet DEF Builds, InputsInv, InputsTypeOK

LEMMA ProbeInv == ASSUME InputsInv, NEW r \in Runs, Probe(r) PROVE InputsInv'
<1> DEFINE step == CASE kind[r] = "select" -> "create" [] kind[r] = "derive" -> "invoke"
                     [] kind[r] = "finalize" -> "pin" [] OTHER -> "list"
<1>1. /\ pc[r] = "probe" /\ place[kind[r]] = Nothing /\ pc' = [pc EXCEPT ![r] = step]
      /\ UNCHANGED <<owner, place, issued, kind, pinned, left, looked, stage, edits, touched, crossed>>
  BY DEF Probe, Goto, RunKept, WorldKept
<1>2. /\ kind[r] \in {"seal", "materialize", "derive", "finalize", "select"}
      /\ kind[r] = "select" => step = "create"
      /\ kind[r] = "derive" => step = "invoke"
      /\ kind[r] = "finalize" => step = "pin"
      /\ kind[r] \in {"seal", "materialize"} => step = "list"
  BY <1>1, RunFacts DEF StepsOf, Kinds
<1>3. step \in StepsOf[kind[r]] /\ step \in Steps
  BY <1>2 DEF StepsOf, Steps, Kinds
<1>4. kind[r] # "derive" => stage[r] = NewTree
  BY <1>1, RunFacts DEF RunOK, BeginsEmpty
<1> HIDE DEF step
<1>5. InputsTypeOK'
  BY <1>1, <1>3, RunFacts DEF InputsTypeOK
<1>6. pc'[r] = step
  BY <1>1, RunFacts DEF InputsTypeOK
<1>7. RunOK(r)'
  <2>1. StagesItsKind(r)' /\ BeginsEmpty(r)'
    BY <1>1, <1>2, <1>3, <1>4, <1>6, NewTreeType, FilesFacts DEF StagesItsKind, BeginsEmpty
  <2>2. PinnedWasIssued(r)'
    BY <1>1, <1>2, <1>6, RunFacts DEF RunOK, PinnedWasIssued, HasPinned, Complete, PinnedKind
  <2>3. BuildsInPlace(r)' /\ ComparedFirst(r)' /\ MadeItsPlace(r)'
    BY <1>1, <1>2, <1>6 DEF BuildsInPlace, Builds, ComparedFirst, MadeItsPlace
  <2>4. DerivesRecorded(r)'
    BY <1>1, <1>2, <1>6, RunFacts DEF RunOK, DerivesRecorded, TreeOf
  <2> QED
    BY <2>1, <2>2, <2>3, <2>4 DEF RunOK
<1> QED
  BY <1>1, <1>2, <1>5, <1>6, <1>7, Quiet DEF Builds, InputsInv, InputsTypeOK

LEMMA FailInv == ASSUME InputsInv, NEW r \in Runs, Fail(r) PROVE InputsInv'
<1>1. /\ pc' = [pc EXCEPT ![r] = "failed"]
      /\ left' = [left EXCEPT ![r] = {}] /\ stage' = [stage EXCEPT ![r] = NewTree]
      /\ UNCHANGED <<owner, place, issued, kind, pinned, looked, edits, touched, crossed>>
  BY DEF Fail, Goto, WorldKept
<1>2. "failed" \in StepsOf[kind[r]] /\ "failed" \in Steps
  BY RunFacts DEF StepsOf, Steps, Kinds
<1>3. InputsTypeOK'
  BY <1>1, <1>2, NewTreeType, RunFacts DEF InputsTypeOK
<1>4. pc'[r] = "failed" /\ stage'[r] = NewTree
  BY <1>1, RunFacts DEF InputsTypeOK
<1>5. RunOK(r)'
  <2>1. StagesItsKind(r)' /\ BeginsEmpty(r)'
    BY <1>1, <1>2, <1>4, NewTreeType, FilesFacts DEF StagesItsKind, BeginsEmpty
  <2>2. PinnedWasIssued(r)'
    BY <1>1, <1>4, RunFacts DEF RunOK, PinnedWasIssued, HasPinned, Complete, PinnedKind
  <2>3. BuildsInPlace(r)' /\ ComparedFirst(r)' /\ MadeItsPlace(r)' /\ DerivesRecorded(r)'
    BY <1>4 DEF BuildsInPlace, Builds, ComparedFirst, MadeItsPlace, DerivesRecorded
  <2> QED
    BY <2>1, <2>2, <2>3 DEF RunOK
<1> QED
  BY <1>1, <1>3, <1>4, <1>5, Quiet DEF Builds, InputsInv, InputsTypeOK

LEMMA ListInv == ASSUME InputsInv, NEW r \in Runs, List(r) PROVE InputsInv'
<1>1. /\ pc[r] = "list" /\ left' = [left EXCEPT ![r] = Listing(r)] /\ pc' = [pc EXCEPT ![r] = "look"]
      /\ UNCHANGED <<owner, place, issued, kind, pinned, looked, stage, edits, touched, crossed>>
  BY DEF List, Goto, WorldKept
<1>2. kind[r] \in Kinds \ {"derive"} /\ "look" \in StepsOf[kind[r]] /\ "look" \in Steps
  BY <1>1, RunFacts DEF StepsOf, Steps, Kinds
<1>3. Listing(r) \subseteq Paths
  <2>1. kind[r] = "seal" => pinned[r] \in Files
    BY <1>1, RunFacts DEF InputsTypeOK, RunOK, PinnedWasIssued, HasPinned
  <2> QED
    BY <2>1, RunFacts, FilesFacts DEF Listing
<1>4. InputsTypeOK'
  BY <1>1, <1>2, <1>3, RunFacts DEF InputsTypeOK
<1>5. pc'[r] = "look"
  BY <1>1, RunFacts DEF InputsTypeOK
<1>6. RunOK(r)'
  <2>1. StagesItsKind(r)' /\ BeginsEmpty(r)'
    BY <1>1, <1>2, <1>5, RunFacts DEF RunOK, StagesItsKind, BeginsEmpty
  <2>2. PinnedWasIssued(r)' /\ BuildsInPlace(r)'
    BY <1>1, <1>5, RunFacts DEF RunOK, PinnedWasIssued, HasPinned, Complete, PinnedKind, BuildsInPlace, Builds
  <2>3. ComparedFirst(r)' /\ MadeItsPlace(r)' /\ DerivesRecorded(r)'
    BY <1>5 DEF ComparedFirst, MadeItsPlace, DerivesRecorded
  <2> QED
    BY <2>1, <2>2, <2>3 DEF RunOK
<1> QED
  BY <1>1, <1>4, <1>5, <1>6, Quiet DEF Builds, InputsInv, InputsTypeOK

LEMMA LookInv == ASSUME InputsInv, NEW r \in Runs, Look(r) PROVE InputsInv'
<1> DEFINE path == Min(left[r])
           seen == [path |-> path, executable |-> Source(r)[path].executable,
                    bytes |-> Size[Source(r)[path].body]]
<1>1. /\ pc[r] = "look" /\ At(Source(r), path) # Nothing
      /\ looked' = [looked EXCEPT ![r] = seen] /\ pc' = [pc EXCEPT ![r] = "read"]
      /\ UNCHANGED <<owner, place, issued, kind, pinned, left, stage, edits, touched, crossed>>
  BY DEF Look, Goto, WorldKept
<1>2. kind[r] \in Kinds \ {"derive"} /\ "read" \in StepsOf[kind[r]] /\ "read" \in Steps
  BY <1>1, RunFacts DEF StepsOf, Steps, Kinds
<1> HIDE DEF path
<1>3. seen \in Looks
  <2>1. path \in Paths /\ Source(r)[path] \in File
    BY <1>1, RunFacts, FilesFacts
  <2> QED
    BY <2>1, TreeAssumption DEF Looks, File
<1> HIDE DEF seen
<1>4. InputsTypeOK'
  BY <1>1, <1>2, <1>3, RunFacts DEF InputsTypeOK
<1>5. pc'[r] = "read" /\ looked'[r] = seen
  BY <1>1, RunFacts DEF InputsTypeOK
<1>6. RunOK(r)'
  <2>1. StagesItsKind(r)' /\ BeginsEmpty(r)'
    BY <1>1, <1>2, <1>3, <1>5, RunFacts DEF RunOK, StagesItsKind, BeginsEmpty
  <2>2. PinnedWasIssued(r)' /\ BuildsInPlace(r)'
    BY <1>1, <1>5, RunFacts DEF RunOK, PinnedWasIssued, HasPinned, Complete, PinnedKind, BuildsInPlace, Builds
  <2>3. ComparedFirst(r)' /\ MadeItsPlace(r)' /\ DerivesRecorded(r)'
    BY <1>5 DEF ComparedFirst, MadeItsPlace, DerivesRecorded
  <2> QED
    BY <2>1, <2>2, <2>3 DEF RunOK
<1> QED
  BY <1>1, <1>4, <1>5, <1>6, Quiet DEF Builds, InputsInv, InputsTypeOK

LEMMA FinishInv == ASSUME InputsInv, NEW r \in Runs, Finish(r) PROVE InputsInv'
<1> DEFINE step == IF kind[r] = "select" THEN "invoke" ELSE "publish"
<1>1. /\ pc[r] = "look" /\ (kind[r] \in {"seal", "finalize"} => stage[r].files = pinned[r])
      /\ pc' = [pc EXCEPT ![r] = step]
      /\ UNCHANGED <<owner, place, issued, kind, pinned, left, looked, stage, edits, touched, crossed>>
  BY DEF Finish, Goto, RunKept, WorldKept
<1>2. kind[r] \in Kinds \ {"derive"} /\ step \in StepsOf[kind[r]] /\ step \in Steps
  BY <1>1, RunFacts DEF StepsOf, Steps, Kinds
<1>3. InputsTypeOK'
  BY <1>1, <1>2, RunFacts DEF InputsTypeOK
<1>4. pc'[r] = step
  BY <1>1, RunFacts DEF InputsTypeOK
<1>5. RunOK(r)'
  <2>1. StagesItsKind(r)' /\ BeginsEmpty(r)'
    BY <1>1, <1>2, <1>4, RunFacts DEF RunOK, StagesItsKind, BeginsEmpty
  <2>2. PinnedWasIssued(r)' /\ BuildsInPlace(r)'
    BY <1>1, <1>4, RunFacts DEF RunOK, PinnedWasIssued, HasPinned, Complete, PinnedKind, BuildsInPlace, Builds
  <2>3. ComparedFirst(r)' /\ MadeItsPlace(r)' /\ DerivesRecorded(r)'
    BY <1>1, <1>2, <1>4 DEF ComparedFirst, MadeItsPlace, DerivesRecorded
  <2> QED
    BY <2>1, <2>2, <2>3 DEF RunOK
<1> QED
  BY <1>1, <1>3, <1>4, <1>5, Quiet DEF Builds, InputsInv, InputsTypeOK

LEMMA RevalidateInv == ASSUME InputsInv, NEW r \in Runs, Revalidate(r) PROVE InputsInv'
<1>1. /\ pc[r] = "revalidate" /\ pc' = [pc EXCEPT ![r] = "publish"]
      /\ UNCHANGED <<owner, place, issued, kind, pinned, left, looked, stage, edits, touched, crossed>>
  BY DEF Revalidate, Goto, RunKept, WorldKept
<1>2. kind[r] = "select" /\ "publish" \in StepsOf[kind[r]] /\ "publish" \in Steps
  BY <1>1, RunFacts DEF StepsOf, Steps, Kinds
<1>3. InputsTypeOK'
  BY <1>1, <1>2, RunFacts DEF InputsTypeOK
<1>4. pc'[r] = "publish"
  BY <1>1, RunFacts DEF InputsTypeOK
<1>5. RunOK(r)'
  <2>1. StagesItsKind(r)' /\ BeginsEmpty(r)'
    BY <1>1, <1>2, <1>4, RunFacts DEF RunOK, StagesItsKind, BeginsEmpty
  <2>2. PinnedWasIssued(r)' /\ BuildsInPlace(r)'
    BY <1>1, <1>2, <1>4, RunFacts DEF RunOK, PinnedWasIssued, HasPinned, Complete, PinnedKind, BuildsInPlace, Builds
  <2>3. ComparedFirst(r)' /\ MadeItsPlace(r)' /\ DerivesRecorded(r)'
    BY <1>1, <1>2, <1>4 DEF ComparedFirst, MadeItsPlace, DerivesRecorded
  <2> QED
    BY <2>1, <2>2, <2>3 DEF RunOK
<1> QED
  BY <1>1, <1>2, <1>3, <1>4, <1>5, Quiet DEF Builds, InputsInv, InputsTypeOK

LEMMA VerifyFileInv == ASSUME InputsInv, NEW r \in Runs, VerifyFile(r) PROVE InputsInv'
<1> PICK path \in left[r] :
      /\ path \in DOMAIN pinned[r] /\ At(TreeOf("materialize"), path) = pinned[r][path]
      /\ left' = [left EXCEPT ![r] = @ \ {path}]
      /\ stage' = [stage EXCEPT ![r].dirs = @ \cup {path}]
  BY DEF VerifyFile
<1>1. /\ pc[r] = "verify"
      /\ UNCHANGED <<owner, place, issued, kind, pc, pinned, looked, edits, touched, crossed>>
  BY DEF VerifyFile, WorldKept
<1>2. kind[r] = "derive" /\ pinned[r] \in Files
  <2>1. kind[r] = "derive"
    BY <1>1, RunFacts DEF StepsOf, Kinds
  <2> QED
    BY <1>1, <2>1, RunFacts DEF RunOK, PinnedWasIssued, HasPinned, InputsTypeOK
<1>3. path \in DOMAIN TreeOf("materialize") /\ TreeOf("materialize")[path] = pinned[r][path]
  <2>1. pinned[r][path] # Nothing
    BY <1>2, FilesFacts, InputsAssumption
  <2>2. path \in DOMAIN TreeOf("materialize")
    BY <2>1 DEF At
  <2> QED
    BY <2>2 DEF At
<1>4. /\ stage'[r] \in Tree /\ stage'[r].files = stage[r].files
      /\ stage'[r].dirs = stage[r].dirs \cup {path} /\ left'[r] = left[r] \ {path}
      /\ path \in Paths
  <2>1. left'[r] = left[r] \ {path} /\ path \in Paths
    BY RunFacts DEF InputsTypeOK
  <2> DEFINE tree == [stage[r] EXCEPT !.dirs = @ \cup {path}]
  <2>2. tree \in Tree /\ tree.files = stage[r].files /\ tree.dirs = stage[r].dirs \cup {path}
    <3>1. stage[r].dirs \cup {path} \subseteq Dirs \cup Paths
      BY <2>1, RunFacts DEF Tree
    <3> QED
      BY <3>1, RunFacts DEF Tree
  <2>3. stage'[r] = tree
    BY RunFacts DEF InputsTypeOK
  <2> QED
    BY <2>1, <2>2, <2>3
<1>5. InputsTypeOK'
  <2>1. \A q \in Runs \ {r} : stage'[q] = stage[q] /\ left'[q] = left[q]
    BY RunFacts DEF InputsTypeOK
  <2>2. stage' \in [Runs -> Tree]
    BY <1>4, <2>1, RunFacts DEF InputsTypeOK
  <2>3. left' \in [Runs -> SUBSET Paths]
    BY <1>4, <2>1, RunFacts DEF InputsTypeOK
  <2> QED
    BY <1>1, <2>2, <2>3, RunFacts DEF InputsTypeOK
<1>6. RunOK(r)'
  <2>1. StagesItsKind(r)' /\ BeginsEmpty(r)'
    BY <1>1, <1>2, RunFacts DEF RunOK, StagesItsKind, BeginsEmpty
  <2>2. PinnedWasIssued(r)'
    BY <1>1, RunFacts DEF RunOK, PinnedWasIssued, HasPinned, Complete, PinnedKind
  <2>3. BuildsInPlace(r)' /\ ComparedFirst(r)' /\ MadeItsPlace(r)'
    BY <1>1 DEF BuildsInPlace, Builds, ComparedFirst, MadeItsPlace
  <2>4. DerivesRecorded(r)'
    <3>1. TreeOf("materialize")' = TreeOf("materialize")
      BY <1>1 DEF TreeOf
    <3>2. r \notin crossed => DOMAIN TreeOf("materialize") = left'[r] \cup stage'[r].dirs
      <4>1. r \notin crossed => DOMAIN TreeOf("materialize") = left[r] \cup stage[r].dirs
        BY <1>1, <1>2, RunFacts DEF RunOK, DerivesRecorded
      <4> QED
        BY <4>1, <1>3, <1>4
    <3>3. r \notin crossed => \A p \in stage'[r].dirs :
            p \in DOMAIN pinned[r] /\ TreeOf("materialize")[p] = pinned[r][p]
      BY <1>1, <1>2, <1>3, <1>4, RunFacts DEF RunOK, DerivesRecorded
    <3> QED
      BY <1>1, <3>1, <3>2, <3>3 DEF DerivesRecorded
  <2> QED
    BY <2>1, <2>2, <2>3, <2>4 DEF RunOK
<1> QED
  BY <1>1, <1>5, <1>6, Quiet DEF Builds, InputsInv, InputsTypeOK

LEMMA VerifiedInv == ASSUME InputsInv, NEW r \in Runs, Verified(r) PROVE InputsInv'
<1>1. /\ pc[r] = "verify" /\ left[r] = {} /\ stage[r].dirs = DOMAIN pinned[r]
      /\ pc' = [pc EXCEPT ![r] = "probe"]
      /\ UNCHANGED <<owner, place, issued, kind, pinned, left, looked, stage, edits, touched, crossed>>
  BY DEF Verified, Goto, RunKept, WorldKept
<1>2. kind[r] = "derive" /\ "probe" \in StepsOf[kind[r]] /\ "probe" \in Steps
  BY <1>1, RunFacts DEF StepsOf, Steps, Kinds
<1>3. InputsTypeOK'
  BY <1>1, <1>2, RunFacts DEF InputsTypeOK
<1>4. pc'[r] = "probe"
  BY <1>1, RunFacts DEF InputsTypeOK
<1>5. r \notin crossed => TreeOf("materialize") = pinned[r]
  <2> SUFFICES ASSUME r \notin crossed PROVE TreeOf("materialize") = pinned[r]
    OBVIOUS
  <2>1. /\ DOMAIN TreeOf("materialize") = DOMAIN pinned[r]
        /\ \A path \in DOMAIN pinned[r] : TreeOf("materialize")[path] = pinned[r][path]
    BY <1>1, <1>2, RunFacts DEF RunOK, DerivesRecorded
  <2>2. pinned[r] \in Files /\ TreeOf("materialize") \in Files
    BY <1>1, <1>2, RunFacts DEF RunOK, PinnedWasIssued, HasPinned, InputsTypeOK
  <2>3. \A f, g \in Files : DOMAIN f = DOMAIN g /\ (\A path \in DOMAIN g : f[path] = g[path]) => f = g
    BY DEF Files
  <2> QED
    BY <2>1, <2>2, <2>3
<1>6. RunOK(r)'
  <2>1. StagesItsKind(r)' /\ BeginsEmpty(r)'
    BY <1>1, <1>2, <1>4, RunFacts DEF RunOK, StagesItsKind, BeginsEmpty
  <2>2. PinnedWasIssued(r)'
    BY <1>1, <1>2, <1>4, RunFacts DEF RunOK, PinnedWasIssued, HasPinned, Complete, PinnedKind
  <2>3. BuildsInPlace(r)' /\ ComparedFirst(r)' /\ MadeItsPlace(r)'
    BY <1>4 DEF BuildsInPlace, Builds, ComparedFirst, MadeItsPlace
  <2>4. DerivesRecorded(r)'
    BY <1>1, <1>4, <1>5 DEF DerivesRecorded, TreeOf
  <2> QED
    BY <2>1, <2>2, <2>3, <2>4 DEF RunOK
<1> QED
  BY <1>1, <1>3, <1>4, <1>6, Quiet DEF Builds, InputsInv, InputsTypeOK

LEMMA InvokeInv == ASSUME InputsInv, NEW r \in Runs, Invoke(r) PROVE InputsInv'
<1> DEFINE step == IF pc[r] = "invoke" THEN "invoke_graph"
                   ELSE IF kind[r] = "select" THEN "revalidate" ELSE "publish"
           tree == TreeOf("materialize")
<1>1. /\ pc[r] \in {"invoke", "invoke_graph"} /\ pc' = [pc EXCEPT ![r] = step]
      /\ UNCHANGED <<owner, place, issued, kind, pinned, left, looked, edits, touched, crossed>>
  BY DEF Invoke, Goto, WorldKept
<1>2. /\ pc[r] = "invoke" => step = "invoke_graph"
      /\ pc[r] = "invoke_graph" /\ kind[r] = "select" => step = "revalidate"
      /\ pc[r] = "invoke_graph" /\ kind[r] = "derive" => step = "publish"
  OBVIOUS
<1>3. kind[r] \in {"derive", "select"} /\ step \in StepsOf[kind[r]] /\ step \in Steps
  BY <1>1, <1>2, RunFacts DEF StepsOf, Steps, Kinds
<1>4. pc'[r] = step
  BY <1>1, RunFacts DEF InputsTypeOK
<1> HIDE DEF step
<1>5. /\ kind[r] = "select" => stage' = stage
      /\ kind[r] = "derive" /\ pc[r] = "invoke" =>
           stage' = [stage EXCEPT ![r].files = [output \in {"metadata"} |-> tree]]
      /\ kind[r] = "derive" /\ pc[r] = "invoke_graph" =>
           stage' = [stage EXCEPT ![r].files =
             [output \in {"metadata", "graph"} |-> IF output = "graph" THEN tree ELSE @["metadata"]]]
  BY DEF Invoke
<1>6. /\ \A q \in Runs \ {r} : stage'[q] = stage[q]
      /\ stage' \in [Runs -> Tree]
      /\ kind[r] = "derive" /\ pc[r] = "invoke" =>
           stage'[r].files = [output \in {"metadata"} |-> tree]
      /\ kind[r] = "derive" /\ pc[r] = "invoke_graph" =>
           /\ stage'[r].files = [output \in {"metadata", "graph"} |->
                                   IF output = "graph" THEN tree ELSE stage[r].files["metadata"]]
           /\ stage'[r].files \in Outputs({"metadata", "graph"})
  <2>1. CASE kind[r] = "select"
    BY <1>5, <2>1, RunFacts DEF InputsTypeOK
  <2>2. CASE kind[r] = "derive" /\ pc[r] = "invoke"
    <3> DEFINE files == [output \in {"metadata"} |-> tree]
    <3>1. files \in Outputs({"metadata"})
      BY RunFacts DEF Outputs
    <3>2. stage' = [stage EXCEPT ![r].files = files]
      BY <1>5, <2>2
    <3> HIDE DEF files
    <3>3. /\ stage' \in [Runs -> Tree] /\ stage'[r].files = files
          /\ \A q \in Runs \ {r} : stage'[q] = stage[q]
      BY <3>1, <3>2, RunFacts DEF InputsTypeOK, Tree
    <3> QED
      BY <2>2, <3>3 DEF files
  <2>3. CASE kind[r] = "derive" /\ pc[r] = "invoke_graph"
    <3> DEFINE files == [output \in {"metadata", "graph"} |->
                          IF output = "graph" THEN tree ELSE stage[r].files["metadata"]]
    <3>1. files \in Outputs({"metadata", "graph"})
      <4>1. stage[r].files["metadata"] \in Files
        BY <2>3, RunFacts DEF RunOK, StagesItsKind, Outputs
      <4> QED
        BY <4>1, RunFacts DEF Outputs
    <3>2. stage' = [stage EXCEPT ![r].files = files]
      BY <1>5, <2>3, RunFacts DEF InputsTypeOK
    <3> HIDE DEF files
    <3>3. /\ stage' \in [Runs -> Tree] /\ stage'[r].files = files
          /\ \A q \in Runs \ {r} : stage'[q] = stage[q]
      BY <3>1, <3>2, RunFacts DEF InputsTypeOK, Tree
    <3> QED
      BY <2>3, <3>1, <3>3 DEF files
  <2> QED
    BY <1>1, <1>3, <2>1, <2>2, <2>3
<1>7. InputsTypeOK'
  BY <1>1, <1>3, <1>6, RunFacts DEF InputsTypeOK
<1>8. RunOK(r)'
  <2>1. StagesItsKind(r)' /\ BeginsEmpty(r)'
    <3>1. kind[r] = "derive" /\ pc[r] = "invoke" => stage'[r].files \in Outputs({"metadata"})
      BY <1>6, RunFacts DEF Outputs
    <3> QED
      BY <1>1, <1>2, <1>3, <1>4, <1>5, <1>6, <3>1, RunFacts DEF RunOK, StagesItsKind, BeginsEmpty
  <2>2. PinnedWasIssued(r)'
    BY <1>1, <1>3, RunFacts DEF RunOK, PinnedWasIssued, HasPinned, Complete, PinnedKind
  <2>3. BuildsInPlace(r)'
    BY <1>1, <1>3, <1>5, RunFacts DEF RunOK, BuildsInPlace, Builds
  <2>4. ComparedFirst(r)' /\ MadeItsPlace(r)'
    BY <1>1, <1>2, <1>3, <1>4 DEF ComparedFirst, MadeItsPlace
  <2>5. DerivesRecorded(r)'
    <3> SUFFICES ASSUME kind[r] = "derive", r \notin crossed PROVE DerivesRecorded(r)'
      BY <1>1 DEF DerivesRecorded
    <3>1. tree' = tree /\ tree = pinned[r]
      BY <1>1, RunFacts DEF RunOK, DerivesRecorded, TreeOf
    <3>2. CASE pc[r] = "invoke"
      BY <1>1, <1>2, <1>4, <1>6, <3>1, <3>2 DEF DerivesRecorded
    <3>3. CASE pc[r] = "invoke_graph"
      <4>1. stage[r].files = [output \in {"metadata"} |-> pinned[r]]
        BY <3>3, RunFacts DEF RunOK, DerivesRecorded
      <4>2. stage'[r].files = [output \in {"metadata", "graph"} |-> pinned[r]]
        BY <1>6, <3>1, <3>3, <4>1
      <4> QED
        BY <1>1, <1>2, <1>4, <3>3, <4>2 DEF DerivesRecorded
    <3> QED
      BY <1>1, <3>2, <3>3
  <2> QED
    BY <2>1, <2>2, <2>3, <2>4, <2>5 DEF RunOK
<1> QED
  BY <1>1, <1>2, <1>3, <1>4, <1>6, <1>7, <1>8, Quiet DEF Builds, InputsInv, InputsTypeOK

(* A step that changes what is at the place of its own command, where nothing is complete
   and no other run builds. *)
LEMMA Loud ==
  ASSUME InputsInv, NEW r \in Runs,
         UNCHANGED <<owner, kind, edits, touched, crossed>>,
         \A q \in Runs \ {r} : /\ pc'[q] = pc[q] /\ pinned'[q] = pinned[q] /\ left'[q] = left[q]
                              /\ looked'[q] = looked[q] /\ stage'[q] = stage[q],
         \A k \in Kinds \ {kind[r]} : place'[k] = place[k] /\ issued'[k] = issued[k],
         ~Complete(kind[r]),
         kind[r] = "select" => \A q \in Runs \ {r} : ~Builds(q),
         InputsTypeOK', RunOK(r)',
         Complete(kind[r])' /\ kind[r] # "derive" /\ kind[r] \notin touched =>
           place'[kind[r]].files = place'[kind[r]].record
  PROVE  InputsInv'
<1>1. ASSUME NEW q \in Runs \ {r} PROVE RunOK(q)'
  <2>1. RunOK(q) /\ kind[q] \in Kinds /\ PinnedKind(q) \in Kinds
    BY <1>1, RunFacts DEF PinnedKind, Kinds
  <2>2. StagesItsKind(q)' /\ BeginsEmpty(q)' /\ ComparedFirst(q)'
    BY <2>1 DEF RunOK, StagesItsKind, BeginsEmpty, ComparedFirst
  <2>3. PinnedWasIssued(q)'
    BY <2>1 DEF RunOK, PinnedWasIssued, HasPinned, Complete, PinnedKind
  <2>4. BuildsInPlace(q)'
    <3> SUFFICES ASSUME Builds(q) PROVE BuildsInPlace(q)'
      BY DEF BuildsInPlace, Builds
    <3>1. kind[r] # "select" /\ "select" \in Kinds
      BY DEF Builds, Kinds
    <3> QED
      BY <2>1, <3>1 DEF RunOK, BuildsInPlace, Builds
  <2>5. MadeItsPlace(q)'
    <3> SUFFICES ASSUME pc[q] = "done" PROVE MadeItsPlace(q)'
      BY DEF MadeItsPlace
    <3>1. kind[q] # kind[r]
      BY <2>1 DEF RunOK, MadeItsPlace
    <3> QED
      BY <2>1, <3>1 DEF RunOK, MadeItsPlace, Complete, RecordOf
  <2>6. DerivesRecorded(q)'
    <3> SUFFICES ASSUME kind[q] = "derive", q \notin crossed PROVE DerivesRecorded(q)'
      BY DEF DerivesRecorded
    <3>1. HasPinned(q) => place'["materialize"] = place["materialize"]
      <4>1. HasPinned(q) => Complete("materialize")
        BY <2>1 DEF RunOK, PinnedWasIssued, PinnedKind
      <4> QED
        BY <4>1 DEF Kinds
    <3>2. pc[q] \in {"verify", "probe", "invoke", "invoke_graph"} => HasPinned(q)
      BY DEF HasPinned
    <3>3. pc[q] \in {"verify", "probe", "invoke", "invoke_graph"} =>
            TreeOf("materialize")' = TreeOf("materialize")
      BY <3>1, <3>2 DEF TreeOf
    <3> QED
      BY <2>1, <3>3 DEF RunOK, DerivesRecorded
  <2> QED
    BY <2>2, <2>3, <2>4, <2>5, <2>6 DEF RunOK
<1>2. Alone'
  <2>1. \A q \in Runs \ {r} : (Builds(q)' <=> Builds(q))
    BY DEF Builds
  <2>2. \A q \in Runs : pc[q] = "done" => kind[q] # kind[r]
    BY DEF InputsInv, RunOK, MadeItsPlace
  <2>3. Builds(r)' => \A q \in Runs \ {r} : ~Builds(q)'
    BY <2>1 DEF Builds
  <2>4. \A p, q \in Runs : Builds(p)' /\ Builds(q)' => p = q
    BY <2>1, <2>3 DEF InputsInv, Alone
  <2> QED
    BY <2>2, <2>4 DEF InputsInv, Alone
<1>3. RecordsAreTrue'
  <2> SUFFICES ASSUME NEW k \in Kinds \ {"derive"}, Complete(k)', k \notin touched
               PROVE  place'[k].files = place'[k].record
    BY DEF RecordsAreTrue
  <2>1. CASE k = kind[r]
    BY <2>1
  <2>2. CASE k # kind[r]
    BY <2>2 DEF InputsInv, RecordsAreTrue, Complete
  <2> QED
    BY <2>1, <2>2
<1> QED
  BY <1>1, <1>2, <1>3 DEF InputsInv

LEMMA ReadInv == ASSUME InputsInv, NEW r \in Runs, Read(r) PROVE InputsInv'
<1> DEFINE path == looked[r].path
           file == [body |-> Source(r)[path].body, executable |-> looked[r].executable]
           tree == WriteFile(stage[r], path, file)
<1>1. /\ pc[r] = "read" /\ At(Source(r), path) # Nothing
      /\ stage' = [stage EXCEPT ![r] = tree] /\ left' = [left EXCEPT ![r] = @ \ {path}]
      /\ looked' = [looked EXCEPT ![r] = Nothing] /\ pc' = [pc EXCEPT ![r] = "look"]
      /\ UNCHANGED <<owner, issued, kind, pinned, edits, touched, crossed>>
  BY DEF Read, Goto, WorldKept
<1>2. /\ kind[r] = "select" => place' = [place EXCEPT !["select"].files = tree.files]
      /\ kind[r] # "select" => place' = place
  BY DEF Read
<1>3. kind[r] \in Kinds \ {"derive"} /\ "look" \in StepsOf[kind[r]] /\ "look" \in Steps
  BY <1>1, RunFacts DEF StepsOf, Steps, Kinds
<1>4. tree \in Tree /\ tree.files \in Files
  <2>1. looked[r] \in Looks /\ stage[r] \in Tree /\ stage[r].files \in Files
    BY <1>1, <1>3, RunFacts DEF RunOK, StagesItsKind
  <2>2. path \in Paths /\ file \in File
    <3>1. Source(r)[path] \in File
      BY <1>1, RunFacts, FilesFacts
    <3> QED
      BY <2>1, <3>1 DEF Looks, File
  <2> QED
    BY <2>1, <2>2, WriteFileType
<1> HIDE DEF tree, path
<1>5. /\ pc'[r] = "look" /\ stage'[r] = tree
      /\ \A q \in Runs \ {r} : /\ pc'[q] = pc[q] /\ left'[q] = left[q]
                               /\ looked'[q] = looked[q] /\ stage'[q] = stage[q]
  BY <1>1, RunFacts DEF InputsTypeOK
<1>6. kind[r] = "select" =>
        /\ ~Complete("select") /\ \A q \in Runs \ {r} : ~Builds(q)
        /\ place' = [place EXCEPT !["select"] = [files |-> tree.files, record |-> NoRecord]]
  <2> SUFFICES ASSUME kind[r] = "select"
               PROVE  /\ ~Complete("select") /\ \A q \in Runs \ {r} : ~Builds(q)
                      /\ place' = [place EXCEPT !["select"] = [files |-> tree.files, record |-> NoRecord]]
    OBVIOUS
  <2>1. Builds(r)
    BY <1>1 DEF Builds
  <2>2. place["select"] = [files |-> stage[r].files, record |-> NoRecord]
    BY <2>1, RunFacts DEF RunOK, BuildsInPlace
  <2>3. \A q \in Runs \ {r} : ~Builds(q)
    BY <2>1 DEF InputsInv, Alone
  <2>4. [place["select"] EXCEPT !.files = tree.files] = [files |-> tree.files, record |-> NoRecord]
    BY <2>2
  <2> QED
    BY <1>2, <2>2, <2>3, <2>4 DEF Complete
<1>7. InputsTypeOK'
  <2>1. \A q \in Runs : stage'[q] \in Tree
    BY <1>4, <1>5, RunFacts DEF InputsTypeOK
  <2>2. /\ place' \in [Kinds -> Entry \cup {Nothing}]
        /\ \A k \in Kinds \ {"derive"} : place'[k] # Nothing => place'[k].files \in Files
    <3>1. CASE kind[r] = "select"
      <4>1. [files |-> tree.files, record |-> NoRecord] \in Entry
        BY <1>4 DEF Entry
      <4> QED
        BY <1>4, <1>6, <3>1, <4>1, RunFacts DEF InputsTypeOK
    <3>2. CASE kind[r] # "select"
      BY <1>2, <3>2, RunFacts DEF InputsTypeOK
    <3> QED
      BY <3>1, <3>2
  <2>3. /\ stage' \in [Runs -> Tree] /\ left' \in [Runs -> SUBSET Paths]
        /\ looked' \in [Runs -> Looks \cup {Nothing}] /\ pc' \in [Runs -> Steps]
    BY <1>1, <1>3, <2>1, RunFacts DEF InputsTypeOK
  <2> QED
    BY <1>1, <2>2, <2>3, RunFacts DEF InputsTypeOK
<1>8. RunOK(r)'
  <2>1. StagesItsKind(r)' /\ BeginsEmpty(r)'
    BY <1>1, <1>3, <1>4, <1>5, RunFacts DEF StagesItsKind, BeginsEmpty
  <2>2. PinnedWasIssued(r)'
    <3>1. PinnedKind(r) # "select" /\ (PinnedKind(r) \in Kinds)
      BY DEF PinnedKind, Kinds
    <3>2. Complete(PinnedKind(r))' = Complete(PinnedKind(r))
      BY <1>1, <1>2, <1>6, <3>1, RunFacts DEF Complete, PinnedKind, InputsTypeOK
    <3> QED
      BY <1>1, <1>5, <3>2, RunFacts DEF RunOK, PinnedWasIssued, HasPinned, PinnedKind
  <2>3. BuildsInPlace(r)'
    <3> SUFFICES ASSUME kind[r] = "select" PROVE BuildsInPlace(r)'
      BY <1>1 DEF BuildsInPlace, Builds
    <3>1. place'["select"] = [files |-> tree.files, record |-> NoRecord]
      BY <1>6, RunFacts DEF InputsTypeOK, Kinds
    <3> QED
      BY <1>5, <3>1 DEF BuildsInPlace
  <2>4. ComparedFirst(r)' /\ MadeItsPlace(r)' /\ DerivesRecorded(r)'
    BY <1>5 DEF ComparedFirst, MadeItsPlace, DerivesRecorded
  <2> QED
    BY <2>1, <2>2, <2>3, <2>4 DEF RunOK
<1>9. CASE kind[r] = "select"
  <2>1. /\ \A k \in Kinds \ {kind[r]} : place'[k] = place[k]
        /\ ~Complete("select")'
    BY <1>6, <1>9, RunFacts DEF InputsTypeOK, Complete, Kinds
  <2> QED
    BY <1>1, <1>5, <1>6, <1>7, <1>8, <1>9, <2>1, Loud DEF InputsInv, InputsTypeOK
<1>10. CASE kind[r] # "select"
  BY <1>1, <1>2, <1>5, <1>7, <1>8, <1>10, Quiet DEF Builds, InputsInv, InputsTypeOK
<1> QED
  BY <1>9, <1>10

LEMMA CreateViewInv == ASSUME InputsInv, NEW r \in Runs, CreateView(r) PROVE InputsInv'
<1>1. /\ pc[r] = "create" /\ place["select"] = Nothing
      /\ place' = [place EXCEPT !["select"] = EmptyDirectory] /\ pc' = [pc EXCEPT ![r] = "list"]
      /\ UNCHANGED <<owner, issued, kind, pinned, left, looked, stage, edits, touched, crossed>>
  BY DEF CreateView, Goto, RunKept, WorldKept
<1>2. kind[r] = "select" /\ "list" \in StepsOf[kind[r]] /\ "list" \in Steps
  BY <1>1, RunFacts DEF StepsOf, Steps, Kinds
<1>3. stage[r] = NewTree /\ stage[r].files = NoFiles
  BY <1>1, RunFacts, NewTreeType DEF RunOK, BeginsEmpty
<1>4. InputsTypeOK'
  BY <1>1, <1>2, RunFacts, FilesFacts DEF InputsTypeOK, EmptyDirectory
<1>5. pc'[r] = "list" /\ place'["select"] = EmptyDirectory
  BY <1>1, <1>2, RunFacts DEF InputsTypeOK
<1>6. \A q \in Runs : ~Builds(q)
  <2>1. \A q \in Runs : Builds(q) => place["select"] = [files |-> stage[q].files, record |-> NoRecord]
                                     /\ stage[q].files \in Files
    BY RunFacts DEF RunOK, BuildsInPlace, StagesItsKind, Builds
  <2>2. \A files \in Files : [files |-> files, record |-> NoRecord] # Nothing
    BY FilesFacts DEF Entry
  <2> QED
    BY <1>1, <2>1, <2>2
<1>7. RunOK(r)'
  <2>1. StagesItsKind(r)' /\ BeginsEmpty(r)'
    BY <1>1, <1>2, <1>3, <1>5, RunFacts DEF RunOK, StagesItsKind, BeginsEmpty
  <2>2. PinnedWasIssued(r)'
    <3>1. place'[PinnedKind(r)] = place[PinnedKind(r)]
      BY <1>1, RunFacts DEF PinnedKind, InputsTypeOK, Kinds
    <3> QED
      BY <1>1, <1>2, <3>1, RunFacts DEF RunOK, PinnedWasIssued, HasPinned, Complete, PinnedKind
  <2>3. BuildsInPlace(r)'
    BY <1>1, <1>3, <1>5 DEF BuildsInPlace, EmptyDirectory
  <2>4. ComparedFirst(r)' /\ MadeItsPlace(r)' /\ DerivesRecorded(r)'
    BY <1>5 DEF ComparedFirst, MadeItsPlace, DerivesRecorded
  <2> QED
    BY <2>1, <2>2, <2>3, <2>4 DEF RunOK
<1>8. /\ \A k \in Kinds \ {"select"} : place'[k] = place[k]
      /\ ~Complete("select") /\ ~Complete("select")'
  BY <1>1, <1>5, RunFacts DEF InputsTypeOK, Complete, EmptyDirectory
<1> QED
  BY <1>1, <1>2, <1>4, <1>6, <1>7, <1>8, Loud DEF InputsInv, InputsTypeOK

LEMMA PublishInv ==
  ASSUME InputsInv, NEW r \in Runs, Publish(r)
  PROVE  InputsInv' /\ ~Complete(kind[r])
<1> DEFINE k == kind[r]
           entry == [files |-> stage[r].files, record |-> RecordOf(r)]
<1>1. /\ pc[r] = "publish" /\ pc' = [pc EXCEPT ![r] = "done"]
      /\ issued' = [issued EXCEPT ![k] = RecordOf(r)]
      /\ UNCHANGED <<owner, kind, pinned, left, looked, stage, edits, touched, crossed>>
  BY DEF Publish, Goto, RunKept, WorldKept
<1>2. k \in Kinds /\ "done" \in StepsOf[k] /\ "done" \in Steps
  BY RunFacts DEF StepsOf, Steps, Kinds
<1>3. /\ k = "select" => place[k] # Nothing /\ place[k].record = NoRecord
      /\ k # "select" => place[k] \in {Nothing, EmptyDirectory}
  <2>1. CASE k = "select"
    BY <2>1 DEF Publish
  <2>2. CASE k \in {"capture", "finalize"}
    BY <2>2 DEF Publish
  <2>3. CASE k \notin {"select", "capture", "finalize"}
    BY <2>3 DEF Publish
  <2> QED
    BY <2>1, <2>2, <2>3
<1>4. ~Complete(k)
  BY <1>3 DEF Complete, EmptyDirectory
<1>5. RecordOf(r) \in Files /\ entry \in Entry /\ (k # "derive" => entry.files \in Files /\ RecordOf(r) = stage[r].files)
  <2>1. CASE k = "derive"
    <3>1. pinned[r] \in Files
      BY <1>1, <2>1, RunFacts DEF RunOK, PinnedWasIssued, HasPinned, InputsTypeOK
    <3>2. stage[r].files \in Outputs({"metadata", "graph"})
      BY <1>1, <2>1, RunFacts DEF RunOK, StagesItsKind
    <3> QED
      BY <2>1, <3>1, <3>2 DEF RecordOf, Entry, Outputs
  <2>2. CASE k # "derive"
    <3>1. stage[r].files \in Files
      BY <2>2, RunFacts DEF RunOK, StagesItsKind
    <3> QED
      BY <2>2, <3>1 DEF RecordOf, Entry
  <2> QED
    BY <2>1, <2>2
<1>6. place' = [place EXCEPT ![k] = entry]
  <2>1. place' = [place EXCEPT ![k] = [files |-> IF k = "select" THEN @.files ELSE stage[r].files,
                                       record |-> RecordOf(r)]]
    BY DEF Publish
  <2>2. k = "select" => place[k].files = stage[r].files
    <3>1. k = "select" => Builds(r)
      BY <1>1 DEF Builds
    <3>2. BuildsInPlace(r)
      BY RunFacts DEF RunOK
    <3>3. Builds(r) => place["select"].files = stage[r].files
      BY <3>2 DEF BuildsInPlace
    <3> QED
      BY <3>1, <3>3
  <2> QED
    BY <1>2, <2>1, <2>2, RunFacts DEF InputsTypeOK
<1>7. k = "select" => \A q \in Runs \ {r} : ~Builds(q)
  BY <1>1 DEF InputsInv, Alone, Builds
<1>8. /\ pc'[r] = "done" /\ place'[k] = entry /\ issued'[k] = RecordOf(r)
      /\ \A q \in Runs \ {r} : pc'[q] = pc[q]
      /\ \A j \in Kinds \ {k} : place'[j] = place[j] /\ issued'[j] = issued[j]
  BY <1>1, <1>2, <1>6, RunFacts DEF InputsTypeOK
<1> HIDE DEF entry
<1>9. InputsTypeOK'
  <2>1. /\ place' \in [Kinds -> Entry \cup {Nothing}] /\ issued' \in [Kinds -> Files \cup {NoRecord}]
        /\ pc' \in [Runs -> Steps]
    BY <1>1, <1>2, <1>5, <1>6, RunFacts DEF InputsTypeOK
  <2>2. \A j \in Kinds \ {"derive"} : place'[j] # Nothing => place'[j].files \in Files
    BY <1>2, <1>5, <1>8, RunFacts DEF InputsTypeOK
  <2> QED
    BY <1>1, <2>1, <2>2, RunFacts DEF InputsTypeOK
<1>10. Complete(k)'
  <2>1. entry # Nothing /\ entry.record = RecordOf(r) /\ RecordOf(r) # NoRecord
    BY <1>5, FilesFacts, InputsAssumption DEF entry
  <2> QED
    BY <1>1, <1>8, <2>1 DEF Complete
<1>11. RunOK(r)'
  <2>1. StagesItsKind(r)' /\ BeginsEmpty(r)'
    BY <1>1, <1>2, <1>8, RunFacts DEF RunOK, StagesItsKind, BeginsEmpty
  <2>2. PinnedWasIssued(r)'
    <3>1. PinnedKind(r) \in Kinds /\ (pinned[r] # NoRecord => PinnedKind(r) # k)
      BY <1>4, RunFacts DEF RunOK, PinnedWasIssued, PinnedKind, Kinds
    <3> QED
      BY <1>1, <1>8, <3>1, RunFacts DEF RunOK, PinnedWasIssued, HasPinned, Complete, PinnedKind
  <2>3. BuildsInPlace(r)' /\ ComparedFirst(r)'
    BY <1>1, <1>8, RunFacts DEF RunOK, BuildsInPlace, Builds, ComparedFirst
  <2>4. MadeItsPlace(r)'
    <3>1. RecordOf(r)' = RecordOf(r) /\ stage'[r] = stage[r] /\ kind' = kind
      BY <1>1 DEF RecordOf
    <3>2. place'[k] = [files |-> stage'[r].files, record |-> RecordOf(r)']
      BY <1>8, <3>1 DEF entry
    <3> QED
      BY <1>10, <3>1, <3>2 DEF MadeItsPlace
  <2>5. DerivesRecorded(r)'
    <3>1. k = "derive" /\ r \notin crossed =>
            stage[r].files = [output \in {"metadata", "graph"} |-> pinned[r]]
      BY <1>1, RunFacts DEF RunOK, DerivesRecorded
    <3>2. stage' = stage /\ pinned' = pinned /\ kind' = kind /\ crossed' = crossed
      BY <1>1
    <3>3. k = "derive" /\ r \notin crossed =>
            stage'[r].files = [output \in {"metadata", "graph"} |-> pinned'[r]]
      BY <3>1, <3>2
    <3> QED
      BY <1>8, <3>2, <3>3 DEF DerivesRecorded
  <2> QED
    BY <2>1, <2>2, <2>3, <2>4, <2>5 DEF RunOK
<1>12. k # "derive" => place'[k].files = place'[k].record
  BY <1>5, <1>8 DEF entry
<1>13. InputsInv'
  BY <1>1, <1>4, <1>7, <1>8, <1>9, <1>11, <1>12, Loud DEF InputsInv, InputsTypeOK
<1> QED
  BY <1>4, <1>13

(* An edit keeps every record in place, marks the runs it crosses and the places it
   changes, and never is at a view that a run builds. *)
LEMMA EditKeeps ==
  ASSUME InputsInv, UNCHANGED <<issued, kind, pc, pinned, left, looked, stage>>,
         InputsTypeOK', NEW changed \in SUBSET Kinds, touched' = touched \cup changed,
         crossed' = crossed \cup {r \in Runs : Live(r)},
         \A k \in Kinds \ changed : place'[k] = place[k],
         \A k \in changed : Complete(k) => Complete(k)',
         "select" \in changed => place["select"] = Nothing
  PROVE  InputsInv'
<1>1. \A k \in Kinds : Complete(k) => Complete(k)'
  BY DEF Complete
<1>2. ASSUME NEW r \in Runs PROVE RunOK(r)'
  <2>1. RunOK(r) /\ kind[r] \in Kinds /\ PinnedKind(r) \in Kinds /\ "select" \in Kinds
    BY RunFacts DEF PinnedKind, Kinds
  <2>2. StagesItsKind(r)' /\ BeginsEmpty(r)' /\ ComparedFirst(r)'
    BY <2>1 DEF RunOK, StagesItsKind, BeginsEmpty, ComparedFirst
  <2>3. PinnedWasIssued(r)'
    <3>1. PinnedKind(r)' = PinnedKind(r) /\ (HasPinned(r)' <=> HasPinned(r))
      BY DEF PinnedKind, HasPinned
    <3>2. PinnedWasIssued(r)
      BY <2>1 DEF RunOK
    <3> QED
      BY <1>1, <2>1, <3>1, <3>2 DEF PinnedWasIssued, Complete
  <2>4. BuildsInPlace(r)'
    <3> SUFFICES ASSUME Builds(r) PROVE BuildsInPlace(r)'
      BY DEF BuildsInPlace, Builds
    <3>1. place["select"] = [files |-> stage[r].files, record |-> NoRecord] /\ stage[r].files \in Files
      BY <2>1 DEF RunOK, BuildsInPlace, StagesItsKind, Builds
    <3>2. place["select"] # Nothing
      BY <3>1, FilesFacts DEF Entry
    <3> QED
      BY <2>1, <3>1, <3>2 DEF BuildsInPlace
  <2>5. MadeItsPlace(r)'
    <3> SUFFICES ASSUME pc[r] = "done" PROVE MadeItsPlace(r)'
      BY DEF MadeItsPlace
    <3>1. RecordOf(r)' = RecordOf(r) /\ kind' = kind /\ stage' = stage
      BY DEF RecordOf
    <3>2. Complete(kind[r])'
      BY <1>1, <2>1 DEF RunOK, MadeItsPlace
    <3>3. kind[r] \notin touched' => place'[kind[r]] = [files |-> stage[r].files, record |-> RecordOf(r)]
      BY <2>1 DEF RunOK, MadeItsPlace
    <3>4. Complete(kind[r])' <=> place'[kind'[r]] # Nothing /\ place'[kind'[r]].record # NoRecord
      BY <3>1 DEF Complete
    <3> QED
      BY <3>1, <3>2, <3>3, <3>4 DEF MadeItsPlace, Complete
  <2>6. DerivesRecorded(r)'
    <3> SUFFICES ASSUME kind[r] = "derive", r \notin crossed' PROVE DerivesRecorded(r)'
      BY DEF DerivesRecorded
    <3>1. r \notin crossed /\ pc[r] \in {"pin", "done", "failed"}
      BY DEF Live, FirstStep
    <3> QED
      BY <2>1, <3>1 DEF RunOK, DerivesRecorded
  <2> QED
    BY <2>2, <2>3, <2>4, <2>5, <2>6 DEF RunOK
<1>3. Alone'
  BY DEF InputsInv, Alone, Builds
<1>4. RecordsAreTrue'
  BY DEF InputsInv, RecordsAreTrue, Complete
<1> QED
  BY <1>2, <1>3, <1>4 DEF InputsInv

LEMMA OwnerEditInv == ASSUME InputsInv, OwnerEdit PROVE InputsInv'
<1>1. /\ owner' \in WithEdit(owner) /\ edits' = edits + 1 /\ touched' = touched \cup {}
      /\ crossed' = crossed \cup {r \in Runs : Live(r)}
      /\ UNCHANGED <<place, issued, kind, pc, pinned, left, looked, stage>>
  BY DEF OwnerEdit, Edited, runVars
<1>2. InputsTypeOK'
  BY <1>1, EditType DEF InputsInv, InputsTypeOK
<1> DEFINE changed == {}
<1>3. changed \in SUBSET Kinds /\ touched' = touched \cup changed
  BY <1>1
<1>4. /\ \A k \in Kinds \ changed : place'[k] = place[k]
      /\ \A k \in changed : Complete(k) => Complete(k)'
      /\ "select" \notin changed
  BY <1>1
<1> HIDE DEF changed
<1> QED
  BY <1>1, <1>2, <1>3, <1>4, EditKeeps

LEMMA UserEditInv == ASSUME InputsInv, UserEdit PROVE InputsInv'
<1> PICK k \in {"capture", "materialize"} :
      /\ place[k] # Nothing
      /\ \/ k = "materialize" /\ \E files \in WithEdit(place[k].files) :
              place' = [place EXCEPT ![k].files = files]
         \/ \E files \in WithEdit(NoFiles) : place' = [place EXCEPT ![k].record = files]
      /\ Edited({k}) /\ UNCHANGED owner
  BY DEF UserEdit
<1>1. /\ edits' = edits + 1 /\ touched' = touched \cup {k}
      /\ crossed' = crossed \cup {r \in Runs : Live(r)}
      /\ UNCHANGED <<owner, issued, kind, pc, pinned, left, looked, stage>>
  BY DEF Edited, runVars
<1>2. k \in Kinds \ {"derive"} /\ k # "select" /\ place[k] \in Entry /\ place[k].files \in Files
  BY DEF Kinds, InputsInv, InputsTypeOK
<1>3. PICK files \in Files : \/ place' = [place EXCEPT ![k].files = files]
                            \/ place' = [place EXCEPT ![k].record = files]
  BY <1>2, EditType, FilesFacts
<1>4. /\ place'[k] \in Entry /\ place'[k].files \in Files
      /\ place[k].record # NoRecord => place'[k].record # NoRecord
      /\ place' \in [Kinds -> Entry \cup {Nothing}]
      /\ \A j \in Kinds \ {k} : place'[j] = place[j]
  <2>1. [place[k] EXCEPT !.files = files] \in Entry /\ [place[k] EXCEPT !.record = files] \in Entry
    BY <1>2 DEF Entry
  <2>2. place \in [Kinds -> Entry \cup {Nothing}]
    BY DEF InputsInv, InputsTypeOK
  <2>3. \/ place'[k] = [place[k] EXCEPT !.files = files]
        \/ place'[k] = [place[k] EXCEPT !.record = files]
    BY <1>2, <1>3, <2>2
  <2>4. place'[k] \in Entry /\ place'[k].files \in Files
    BY <1>2, <2>1, <2>3 DEF Entry
  <2>5. place[k].record # NoRecord => place'[k].record # NoRecord
    BY <1>2, <2>3, InputsAssumption DEF Entry
  <2>6. \A j \in Kinds \ {k} : place'[j] = place[j]
    BY <1>3, <2>2
  <2>7. place' \in [Kinds -> Entry \cup {Nothing}]
    BY <1>2, <1>3, <2>1, <2>2
  <2> QED
    BY <2>4, <2>5, <2>6, <2>7
<1>5. InputsTypeOK'
  <2>1. \A j \in Kinds \ {"derive"} : place'[j] # Nothing => place'[j].files \in Files
    BY <1>2, <1>4 DEF InputsInv, InputsTypeOK
  <2> QED
    BY <1>1, <1>2, <1>4, <2>1 DEF InputsInv, InputsTypeOK
<1>6. Complete(k) => Complete(k)'
  BY <1>4, FilesFacts DEF Complete
<1> QED
  BY <1>1, <1>2, <1>4, <1>5, <1>6, EditKeeps

LEMMA UserMakesInv == ASSUME InputsInv, UserMakes PROVE InputsInv'
<1> PICK k \in Kinds \ {"capture", "finalize"}, files \in WithEdit(NoFiles) \cup {NoFiles} :
      /\ place[k] = Nothing
      /\ place' = [place EXCEPT ![k] = [files |-> files, record |-> NoRecord]]
      /\ Edited({k}) /\ UNCHANGED owner
  BY DEF UserMakes
<1>1. /\ edits' = edits + 1 /\ touched' = touched \cup {k}
      /\ crossed' = crossed \cup {r \in Runs : Live(r)}
      /\ UNCHANGED <<owner, issued, kind, pc, pinned, left, looked, stage>>
  BY DEF Edited, runVars
<1>2. files \in Files /\ [files |-> files, record |-> NoRecord] \in Entry
  <2>1. files \in Files
    BY EditType, FilesFacts
  <2> QED
    BY <2>1 DEF Entry
<1>3. InputsTypeOK'
  <2>1. /\ place' \in [Kinds -> Entry \cup {Nothing}]
        /\ \A j \in Kinds \ {"derive"} : place'[j] # Nothing => place'[j].files \in Files
    BY <1>2 DEF InputsInv, InputsTypeOK
  <2> QED
    BY <1>1, <2>1 DEF InputsInv, InputsTypeOK
<1>4. \A j \in Kinds \ {k} : place'[j] = place[j]
  BY DEF InputsInv, InputsTypeOK
<1> QED
  BY <1>1, <1>3, <1>4, EditKeeps DEF Complete

LEMMA InputsInvNext == ASSUME InputsInv, [Next]_vars PROVE InputsInv'
<1>1. CASE \E r \in Runs : RunStep(r)
  <2> PICK r \in Runs : RunStep(r)
    BY <1>1
  <2>1. CASE Pin(r) \/ Probe(r) \/ Fail(r)
    BY <2>1, PinInv, ProbeInv, FailInv
  <2>2. CASE List(r) \/ Look(r) \/ Read(r) \/ Finish(r)
    BY <2>2, ListInv, LookInv, ReadInv, FinishInv
  <2>3. CASE VerifyFile(r) \/ Verified(r) \/ Invoke(r)
    BY <2>3, VerifyFileInv, VerifiedInv, InvokeInv
  <2>4. CASE CreateView(r) \/ Revalidate(r) \/ Publish(r)
    BY <2>4, CreateViewInv, RevalidateInv, PublishInv
  <2> QED
    BY <2>1, <2>2, <2>3, <2>4 DEF RunStep
<1>2. CASE OwnerEdit
  BY <1>2, OwnerEditInv
<1>3. CASE UserEdit
  BY <1>3, UserEditInv
<1>4. CASE UserMakes
  BY <1>4, UserMakesInv
<1>5. CASE UNCHANGED vars
  <2>1. UNCHANGED <<owner, place, issued, kind, pc, pinned, left, looked, stage, edits, touched, crossed>>
    BY <1>5 DEF vars, runVars
  <2>2. InputsTypeOK' /\ Alone' /\ RecordsAreTrue'
    BY <2>1 DEF InputsInv, InputsTypeOK, Alone, Builds, RecordsAreTrue, Complete
  <2>3. ASSUME NEW r \in Runs PROVE RunOK(r)'
    <3>1. RunOK(r)
      BY DEF InputsInv
    <3>2. StagesItsKind(r)' /\ BeginsEmpty(r)' /\ PinnedWasIssued(r)' /\ BuildsInPlace(r)'
      BY <2>1, <3>1 DEF RunOK, StagesItsKind, BeginsEmpty, PinnedWasIssued, HasPinned, Complete,
                        PinnedKind, BuildsInPlace, Builds
    <3>3. ComparedFirst(r)' /\ MadeItsPlace(r)' /\ DerivesRecorded(r)'
      BY <2>1, <3>1 DEF RunOK, ComparedFirst, MadeItsPlace, Complete, RecordOf, DerivesRecorded, TreeOf
    <3> QED
      BY <3>2, <3>3 DEF RunOK
  <2> QED
    BY <2>2, <2>3 DEF InputsInv
<1> QED
  BY <1>1, <1>2, <1>3, <1>4, <1>5 DEF Next

LEMMA InputsInvHolds == Spec => []InputsInv
  BY InputsInvInit, InputsInvNext, PTL DEF Spec
-----------------------------------------------------------------------------
(* One run of a command succeeds at most, and what it made is in its place with the
   record of it, whole, until a user changes it (the renames and receipts of
   build_inputs.rs, derive.rs, finalize.rs, selected_view.rs and sealed_resources.rs). *)
THEOREM SuccessMeansPublished == Spec => []SuccessIsPublished
<1>1. InputsInv => SuccessIsPublished
  BY DEF InputsInv, Alone, RecordsAreTrue, RunOK, MadeItsPlace, SuccessIsPublished
<1> QED
  BY <1>1, InputsInvHolds, PTL

(* Sealed resources are the selection that was asked for, and finalized trees the
   assembled ones, whoever edits what in between (sealed_resources.rs:303-454 and
   build_inputs/finalize.rs:10-112). *)
THEOREM SealedMeansSelected == Spec => []SealedIsSelected
<1>1. ASSUME InputsInv PROVE SealedIsSelected
  <2> SUFFICES ASSUME NEW r \in Runs, pc[r] = "done", kind[r] \in {"seal", "finalize"}
               PROVE  stage[r].files = issued[PinnedKind(r)]
    BY DEF SealedIsSelected, PinnedKind
  <2>1. PinnedWasIssued(r) /\ ComparedFirst(r)
    BY <1>1 DEF InputsInv, RunOK
  <2>2. HasPinned(r)
    BY DEF HasPinned
  <2> QED
    BY <2>1, <2>2 DEF PinnedWasIssued, ComparedFirst
<1> QED
  BY <1>1, InputsInvHolds, PTL

(* A derivation that nothing was edited under is of the recorded trees, whatever was
   edited before it (build_inputs/derive.rs:117-340). *)
THEOREM DerivedMeansRecorded == Spec => []DerivedIsRecorded
<1>1. ASSUME InputsInv PROVE DerivedIsRecorded
  <2> SUFFICES ASSUME NEW r \in Runs, pc[r] = "done", kind[r] = "derive", r \notin crossed
               PROVE  stage[r].files = [output \in {"metadata", "graph"} |-> issued["materialize"]]
    BY DEF DerivedIsRecorded
  <2>1. PinnedWasIssued(r) /\ DerivesRecorded(r)
    BY <1>1 DEF InputsInv, RunOK
  <2>2. HasPinned(r) /\ PinnedKind(r) = "materialize"
    BY DEF HasPinned, PinnedKind
  <2>3. pinned[r] = issued["materialize"]
    BY <2>1, <2>2 DEF PinnedWasIssued
  <2> QED
    BY <2>1, <2>3 DEF DerivesRecorded
<1> QED
  BY <1>1, InputsInvHolds, PTL

(* No command replaces what is complete, or what it did not make: the rename and the
   creation of a receipt refuse what came after the place was looked at
   (build_inputs.rs:168-278, sealed_resources.rs:303-391). *)
THEOREM CommandsReplaceNothing == Spec => NothingIsReplaced
<1> DEFINE Kept == \A k \in Kinds :
                     \/ place'[k] = place[k]
                     \/ place[k] \in {Nothing, EmptyDirectory}
                     \/ k = "select" /\ ~Complete(k)
                     \/ edits' # edits
<1>1. ASSUME InputsInv, [Next]_vars PROVE [Kept]_vars
  <2> SUFFICES ASSUME Next, edits' = edits PROVE Kept
    BY <1>1
  <2>1. ~OwnerEdit /\ ~UserEdit /\ ~UserMakes
    BY <1>1 DEF InputsInv, InputsTypeOK, OwnerEdit, UserEdit, UserMakes, Edited
  <2> PICK r \in Runs : RunStep(r)
    BY <2>1 DEF Next
  <2>2. place \in [Kinds -> Entry \cup {Nothing}]
    BY <1>1 DEF InputsInv, InputsTypeOK
  <2>3. CASE Publish(r)
    <3>1. \A k \in Kinds \ {kind[r]} : place'[k] = place[k]
      BY <2>2, <2>3 DEF Publish
    <3>2. kind[r] = "select" => ~Complete("select")
      BY <1>1, <2>3, PublishInv
    <3>3. CASE kind[r] \in {"capture", "finalize"}
      BY <2>3, <3>1, <3>3 DEF Publish
    <3>4. CASE kind[r] \notin {"capture", "finalize", "select"}
      BY <2>3, <3>1, <3>4 DEF Publish
    <3> QED
      BY <3>1, <3>2, <3>3, <3>4
  <2>4. CASE CreateView(r)
    BY <2>2, <2>4 DEF CreateView
  <2>5. CASE Read(r)
    <3>1. CASE kind[r] = "select"
      <4>1. Builds(r)
        BY <2>5, <3>1 DEF Read, Builds
      <4>2. ~Complete("select")
        <5>1. BuildsInPlace(r)
          BY <1>1 DEF InputsInv, RunOK
        <5>2. place["select"] = [files |-> stage[r].files, record |-> NoRecord]
          BY <4>1, <5>1 DEF BuildsInPlace
        <5> QED
          BY <5>2 DEF Complete
      <4>3. \A k \in Kinds \ {"select"} : place'[k] = place[k]
        BY <2>2, <2>5, <3>1 DEF Read
      <4> QED
        BY <4>2, <4>3
    <3>2. CASE kind[r] # "select"
      BY <2>5, <3>2 DEF Read
    <3> QED
      BY <3>1, <3>2
  <2>6. CASE Pin(r) \/ Probe(r) \/ Fail(r) \/ List(r) \/ Look(r) \/ Finish(r)
             \/ VerifyFile(r) \/ Verified(r) \/ Invoke(r) \/ Revalidate(r)
    <3>1. place' = place
      BY <2>6 DEF Pin, Probe, Fail, List, Look, Finish, VerifyFile, Verified, Invoke, Revalidate
    <3> QED
      BY <3>1
  <2> QED
    BY <2>3, <2>4, <2>5, <2>6 DEF RunStep
<1> QED
  BY <1>1, InputsInvHolds, PTL DEF Spec, NothingIsReplaced
-----------------------------------------------------------------------------
(* What holds of a subset if it holds of all smaller ones holds of every subset. *)
LEMMA SubsetInduction ==
  ASSUME NEW S, IsFiniteSet(S), NEW Good,
         \A T \in SUBSET S : (\A U \in SUBSET T : U # T => U \in Good) => T \in Good
  PROVE  \A T \in SUBSET S : T \in Good
<1> DEFINE R == StrictSubsetOrdering(S)
           Bad == {T \in SUBSET S : T \notin Good}
<1>1. IsWellFoundedOn(R, SUBSET S)
  BY FS_StrictSubsetOrderingWellFounded, FS_FiniteSubsetsOfFinite
<1>2. \A T, U \in SUBSET S : U \subseteq T /\ U # T => <<U, T>> \in R
  BY DEF StrictSubsetOrdering
<1> HIDE DEF R
<1>3. ASSUME Bad # {} PROVE FALSE
  <2>1. Bad \subseteq SUBSET S
    OBVIOUS
  <2>2. \E T \in Bad : \A U \in Bad : <<U, T>> \notin R
    <3> HIDE DEF Bad
    <3> QED
      BY <1>1, <1>3, <2>1, WFMin
  <2>3. PICK T \in Bad : \A U \in Bad : <<U, T>> \notin R
    BY <2>2
  <2>4. \A U \in SUBSET T : U # T => U \in Good
    <3>1. SUFFICES ASSUME NEW U \in SUBSET T, U # T, U \notin Good PROVE FALSE
      OBVIOUS
    <3>2. T \in SUBSET S /\ U \in SUBSET S /\ U \in Bad
      BY <2>3, <3>1
    <3>3. <<U, T>> \in R
      BY <1>2, <3>1, <3>2
    <3> QED
      BY <2>3, <3>2, <3>3
  <2> QED
    BY <2>3, <2>4
<1> QED
  BY <1>3

(* A sum over the subsets of S, one element after the other in any order. *)
Sums(h, f, S) ==
  /\ h \in [SUBSET S -> Nat]
  /\ h[{}] = 0
  /\ \A T \in SUBSET S : \A x \in T : h[T] = f[x] + h[T \ {x}]

Extends(g, h, S) == \A T \in SUBSET S : g[T] = h[T]

LEMMA SumsExtend ==
  ASSUME NEW S, NEW a, a \notin S, NEW f, \A x \in S \cup {a} : f[x] \in Nat,
         NEW h, Sums(h, f, S)
  PROVE  \E g : Sums(g, f, S \cup {a}) /\ Extends(g, h, S)
<1> DEFINE g == [T \in SUBSET (S \cup {a}) |-> IF a \in T THEN f[a] + h[T \ {a}] ELSE h[T]]
<1> USE DEF Sums
<1>1. \A T \in SUBSET (S \cup {a}) : T \ {a} \in SUBSET S /\ (a \notin T => T \in SUBSET S)
  OBVIOUS
<1>2. g \in [SUBSET (S \cup {a}) -> Nat]
  BY <1>1
<1>3. g[{}] = 0
  BY <1>1
<1>4. ASSUME NEW T \in SUBSET (S \cup {a}), NEW x \in T PROVE g[T] = f[x] + g[T \ {x}]
  <2>1. CASE x = a
    <3>1. g[T] = f[a] + h[T \ {a}]
      BY <1>4, <2>1
    <3>2. g[T \ {x}] = h[T \ {a}]
      BY <1>4, <2>1
    <3> QED
      BY <2>1, <3>1, <3>2
  <2>2. CASE x # a /\ a \notin T
    BY <1>1, <2>2
  <2>3. CASE x # a /\ a \in T
    <3>1. T \ {a} \in SUBSET S /\ x \in T \ {a}
      BY <1>1, <2>3
    <3>2. h[T \ {a}] = f[x] + h[(T \ {a}) \ {x}]
      BY <3>1
    <3>3. g[T] = f[a] + h[T \ {a}]
      BY <2>3
    <3>4. g[T \ {x}] = f[a] + h[(T \ {x}) \ {a}]
      BY <2>3
    <3>5. (T \ {x}) \ {a} = (T \ {a}) \ {x} /\ (T \ {a}) \ {x} \in SUBSET S
      BY <3>1
    <3>6. f[a] \in Nat /\ f[x] \in Nat /\ h[(T \ {a}) \ {x}] \in Nat
      BY <3>1, <3>5
    <3> HIDE DEF g
    <3>7. g[T] = f[a] + (f[x] + h[(T \ {a}) \ {x}])
      BY <3>2, <3>3
    <3>8. g[T \ {x}] = f[a] + h[(T \ {a}) \ {x}]
      BY <3>4, <3>5
    <3> QED
      BY <3>6, <3>7, <3>8
  <2> QED
    BY <2>1, <2>2, <2>3
<1>5. Extends(g, h, S)
  BY DEF Extends
<1> HIDE DEF g
<1>6. Sums(g, f, S \cup {a})
  BY <1>2, <1>3, <1>4
<1> QED
  BY <1>5, <1>6

LEMMA SumsExist ==
  ASSUME NEW S, IsFiniteSet(S), NEW f, \A x \in S : f[x] \in Nat
  PROVE  \E h : Sums(h, f, S)
<1> DEFINE Good == {T \in SUBSET S : \E h : Sums(h, f, T)}
<1>1. ASSUME NEW T \in SUBSET S, \A U \in SUBSET T : U # T => U \in Good PROVE T \in Good
  <2>1. CASE T = {}
    <3> DEFINE h == [U \in {{}} |-> 0]
    <3>1. SUBSET {} = {{}}
      OBVIOUS
    <3>2. Sums(h, f, {})
      BY <3>1 DEF Sums
    <3> QED
      BY <2>1, <3>2
  <2>2. CASE T # {}
    <3>1. PICK a \in T : TRUE
      BY <2>2
    <3>2. T \ {a} \in Good
      BY <1>1
    <3>3. PICK h : Sums(h, f, T \ {a})
      BY <3>2
    <3>4. T = (T \ {a}) \cup {a} /\ a \notin T \ {a}
      OBVIOUS
    <3>5. \A x \in (T \ {a}) \cup {a} : f[x] \in Nat
      OBVIOUS
    <3>6. \E g : Sums(g, f, (T \ {a}) \cup {a})
      BY <3>3, <3>4, <3>5, SumsExtend
    <3>7. \E g : Sums(g, f, T)
      BY <3>4, <3>6
    <3> QED
      BY <3>7
  <2> QED
    BY <2>1, <2>2
<1> HIDE DEF Good
<1>2. S \in Good
  BY <1>1, SubsetInduction
<1> QED
  BY <1>2 DEF Good

(* The bytes of a tree are such a sum: MapThenSumSet takes the files in some order. *)
LEMMA BytesAreSummed ==
  ASSUME NEW files, IsFiniteSet(DOMAIN files),
         NEW f, \A path \in DOMAIN files : f[path] = Size[files[path].body],
         NEW h, Sums(h, f, DOMAIN files)
  PROVE  BytesOf(files) = h[DOMAIN files]
<1> DEFINE S == DOMAIN files
           Any(T) == CHOOSE x \in T : TRUE
           Body(g) == [T \in SUBSET S |-> IF T = {} THEN 0
                                          ELSE Size[files[Any(T)].body] + g[T \ {Any(T)}]]
           iter == CHOOSE g : g = Body(g)
           Good == {T \in SUBSET S : iter[T] = h[T]}
<1>1. BytesOf(files) = iter[S]
  BY DEF BytesOf, MapThenSumSet, MapThenFoldSet
<1>2. \A T \in SUBSET S : T # {} => Any(T) \in T /\ f[Any(T)] = Size[files[Any(T)].body]
  OBVIOUS
<1>3. h = Body(h)
  <2> HIDE DEF Any
  <2>1. h = [T \in SUBSET S |-> h[T]]
    BY DEF Sums
  <2>2. \A T \in SUBSET S : h[T] = IF T = {} THEN 0
                                   ELSE Size[files[Any(T)].body] + h[T \ {Any(T)}]
    BY <1>2 DEF Sums
  <2> QED
    BY <2>1, <2>2
<1>4. iter = Body(iter)
  <2> HIDE DEF Body
  <2> QED
    BY <1>3
<1>5. ASSUME NEW T \in SUBSET S, \A U \in SUBSET T : U # T => U \in Good PROVE T \in Good
  <2> HIDE DEF iter, Any
  <2>1. CASE T = {}
    BY <1>4, <2>1 DEF Sums
  <2>2. CASE T # {}
    <3>1. Any(T) \in T /\ f[Any(T)] = Size[files[Any(T)].body]
      BY <1>2, <2>2
    <3>2. T \ {Any(T)} \in Good
      BY <1>5, <3>1
    <3>3. iter[T] = Size[files[Any(T)].body] + iter[T \ {Any(T)}]
      BY <1>4, <2>2
    <3>4. h[T] = f[Any(T)] + h[T \ {Any(T)}]
      BY <3>1 DEF Sums
    <3> QED
      BY <3>1, <3>2, <3>3, <3>4
  <2> QED
    BY <2>1, <2>2
<1> HIDE DEF Good
<1>6. S \in Good
  BY <1>5, SubsetInduction
<1> QED
  BY <1>1, <1>6 DEF Good

(* What TreeWriter counted is what the tree holds. *)
Counted(tree) ==
  /\ IsFiniteSet(DOMAIN tree.files)
  /\ tree.dirs = UNION {Above[path] : path \in DOMAIN tree.files}
  /\ tree.entries = 1 + Cardinality(DOMAIN tree.files) + Cardinality(tree.dirs)
  /\ tree.bytes = BytesOf(tree.files)

LEMMA NewTreeCounted == Counted(NewTree)
<1>1. NewTree.files = NoFiles /\ NewTree.dirs = {} /\ NewTree.entries = 1 /\ NewTree.bytes = 0
  BY DEF NewTree
<1>2. DOMAIN NoFiles = {} /\ IsFiniteSet({}) /\ Cardinality({}) = 0
  BY FilesFacts, FS_EmptySet
<1>3. BytesOf(NoFiles) = 0
  <2> DEFINE f == [path \in {} |-> 0]
  <2>1. PICK h : Sums(h, f, {})
    BY <1>2, SumsExist
  <2>2. BytesOf(NoFiles) = h[{}]
    <3>1. IsFiniteSet(DOMAIN NoFiles) /\ Sums(h, f, DOMAIN NoFiles)
      BY <1>2, <2>1
    <3>2. \A path \in DOMAIN NoFiles : f[path] = Size[NoFiles[path].body]
      BY <1>2
    <3>3. BytesOf(NoFiles) = h[DOMAIN NoFiles]
      BY <3>1, <3>2, BytesAreSummed
    <3> QED
      BY <1>2, <3>3
  <2> QED
    BY <2>1, <2>2 DEF Sums
<1>4. UNION {Above[path] : path \in {}} = {}
  OBVIOUS
<1> QED
  BY <1>1, <1>2, <1>3, <1>4 DEF Counted

(* A file more costs its bytes. *)
LEMMA BytesOfOneMore ==
  ASSUME NEW files \in Files, IsFiniteSet(DOMAIN files), NEW path \in Paths, path \notin DOMAIN files,
         NEW more \in Files, DOMAIN more = DOMAIN files \cup {path},
         \A p \in DOMAIN files : more[p] = files[p]
  PROVE  BytesOf(files) \in Nat /\ BytesOf(more) = BytesOf(files) + Size[more[path].body]
<1> DEFINE f == [p \in DOMAIN more |-> Size[more[p].body]]
<1>1. \A p \in DOMAIN files \cup {path} : f[p] \in Nat
  <2>1. \A p \in DOMAIN more : more[p].body \in Bodies
    BY FilesFacts DEF File
  <2> QED
    BY <2>1, TreeAssumption
<1>2. /\ \A p \in DOMAIN files : f[p] = Size[files[p].body]
      /\ \A p \in DOMAIN more : f[p] = Size[more[p].body]
      /\ f[path] = Size[more[path].body]
  OBVIOUS
<1> HIDE DEF f
<1>3. PICK h : Sums(h, f, DOMAIN files)
  BY <1>1, SumsExist
<1>4. PICK g : Sums(g, f, DOMAIN files \cup {path}) /\ Extends(g, h, DOMAIN files)
  BY <1>1, <1>3, SumsExtend
<1>5. BytesOf(files) = h[DOMAIN files]
  BY <1>2, <1>3, BytesAreSummed
<1>6. BytesOf(more) = g[DOMAIN files \cup {path}]
  <2>1. IsFiniteSet(DOMAIN more) /\ Sums(g, f, DOMAIN more)
    BY <1>4, FS_AddElement
  <2>2. BytesOf(more) = g[DOMAIN more]
    BY <1>2, <2>1, BytesAreSummed
  <2> QED
    BY <2>2
<1>7. g[DOMAIN files \cup {path}] = f[path] + h[DOMAIN files]
  <2>1. g[DOMAIN files \cup {path}] = f[path] + g[(DOMAIN files \cup {path}) \ {path}]
    BY <1>4 DEF Sums
  <2>2. (DOMAIN files \cup {path}) \ {path} = DOMAIN files
    OBVIOUS
  <2>3. g[DOMAIN files] = h[DOMAIN files]
    BY <1>4 DEF Extends
  <2> QED
    BY <2>1, <2>2, <2>3, Zenon
<1>8. h[DOMAIN files] \in Nat /\ f[path] \in Nat
  BY <1>1, <1>3 DEF Sums
<1> QED
  BY <1>2, <1>5, <1>6, <1>7, <1>8

LEMMA WriteFileCounted ==
  ASSUME NEW tree \in Tree, tree.files \in Files, Counted(tree),
         NEW path \in Paths, path \notin DOMAIN tree.files, NEW file \in File
  PROVE  Counted(WriteFile(tree, path, file))
<1> DEFINE wrote == WriteFile(tree, path, file)
           names == DOMAIN tree.files
           fresh == Above[path] \ tree.dirs
<1>1. /\ wrote.files = [p \in names \cup {path} |-> IF p = path THEN file ELSE tree.files[p]]
      /\ wrote.dirs = tree.dirs \cup Above[path]
      /\ wrote.entries = tree.entries + Cardinality(fresh) + 1
      /\ wrote.bytes = tree.bytes + Size[file.body]
  BY DEF WriteFile
<1>2. wrote.files \in Files
  BY WriteFileType
<1> HIDE DEF wrote
<1>3. DOMAIN wrote.files = names \cup {path} /\ wrote.files[path] = file
      /\ \A p \in names : wrote.files[p] = tree.files[p]
  BY <1>1
<1>4. IsFiniteSet(names \cup {path}) /\ Cardinality(names \cup {path}) = Cardinality(names) + 1
      /\ Cardinality(names) \in Nat
  BY FS_AddElement, FS_CardinalityType DEF Counted
<1>5. wrote.dirs = UNION {Above[p] : p \in DOMAIN wrote.files}
  BY <1>1, <1>3 DEF Counted
<1>6. Cardinality(wrote.dirs) = Cardinality(tree.dirs) + Cardinality(fresh)
      /\ Cardinality(tree.dirs) \in Nat /\ Cardinality(fresh) \in Nat
  <2>1. tree.dirs \subseteq Dirs /\ Above[path] \subseteq Dirs
    BY FilesFacts, TreeAssumption DEF Counted
  <2>2. IsFiniteSet(tree.dirs) /\ IsFiniteSet(fresh)
    BY <2>1, TreeAssumption, FS_Subset
  <2>3. tree.dirs \cap fresh = {} /\ tree.dirs \cup fresh = wrote.dirs
    BY <1>1
  <2>4. Cardinality(tree.dirs \cup fresh) =
          Cardinality(tree.dirs) + Cardinality(fresh) - Cardinality(tree.dirs \cap fresh)
    BY <2>2, FS_Union
  <2>5. Cardinality(tree.dirs) \in Nat /\ Cardinality(fresh) \in Nat
    BY <2>2, FS_CardinalityType
  <2>6. Cardinality(tree.dirs \cap fresh) = 0
    BY <2>3, FS_EmptySet
  <2>7. Cardinality(wrote.dirs) = Cardinality(tree.dirs \cup fresh)
    BY <2>3
  <2> HIDE DEF fresh
  <2> QED
    BY <2>4, <2>5, <2>6, <2>7
<1>7. wrote.bytes = BytesOf(wrote.files)
  <2>1. BytesOf(wrote.files) = BytesOf(tree.files) + Size[wrote.files[path].body]
    BY <1>2, <1>3, BytesOfOneMore DEF Counted
  <2> QED
    BY <1>1, <1>3, <2>1 DEF Counted
<1>8. wrote.entries = 1 + Cardinality(DOMAIN wrote.files) + Cardinality(wrote.dirs)
  BY <1>1, <1>3, <1>4, <1>6 DEF Counted
<1>9. Counted(wrote)
  BY <1>3, <1>4, <1>5, <1>7, <1>8 DEF Counted
<1> QED
  BY <1>9 DEF wrote

(* A run that makes a tree writes each file once, and stays within the limits. *)
CountsItsTree(r) ==
  kind[r] # "derive" =>
    /\ Counted(stage[r])
    /\ kind[r] # "capture" => WithinBudget(stage[r], Limits[kind[r]])
    /\ pc[r] \in {"look", "read"} => left[r] \cap DOMAIN stage[r].files = {}
    /\ pc[r] = "read" => looked[r].path \in left[r]

TreesCounted == \A r \in Runs : CountsItsTree(r)

LEMMA NewTreeFits ==
  ASSUME NEW k \in Kinds PROVE WithinBudget(NewTree, Limits[k])
<1>1. Limits[k].entries \in Nat \ {0} /\ Limits[k].bytes \in Nat
  BY InputsAssumption DEF Limit
<1> QED
  BY <1>1 DEF WithinBudget, NewTree

LEMMA LeastIsMember ==
  ASSUME NEW S, S \subseteq Nat, S # {} PROVE Min(S) \in S
<1> DEFINE R == OpToRel(<, Nat)
<1>1. IsWellFoundedOn(R, Nat)
  BY NatLessThanWellFounded
<1>2. \A x, y \in Nat : x < y => <<x, y>> \in R
  BY DEF OpToRel
<1> HIDE DEF R
<1>3. PICK x \in S : \A y \in S : <<y, x>> \notin R
  BY <1>1, WFMin
<1>4. \A y \in S : x =< y
  <2> SUFFICES ASSUME NEW y \in S PROVE x =< y
    OBVIOUS
  <2>1. x \in Nat /\ y \in Nat /\ ~(y < x)
    BY <1>2, <1>3
  <2> QED
    BY <2>1
<1> QED
  BY <1>4 DEF Min

LEMMA TreesCountedInit == Init => TreesCounted
<1> SUFFICES ASSUME Init, NEW r \in Runs PROVE CountsItsTree(r)
  BY DEF TreesCounted
<1>1. stage[r] = NewTree /\ kind[r] \in Kinds /\ pc[r] = FirstStep[kind[r]]
  BY DEF Init
<1>2. pc[r] \notin {"look", "read"}
  BY <1>1 DEF FirstStep, Kinds
<1> QED
  BY <1>1, <1>2, NewTreeCounted, NewTreeFits DEF CountsItsTree

LEMMA TreesCountedRead ==
  ASSUME InputsInv, NEW r \in Runs, CountsItsTree(r), Read(r)
  PROVE  CountsItsTree(r)'
<1> DEFINE path == looked[r].path
           file == [body |-> Source(r)[path].body, executable |-> looked[r].executable]
           tree == WriteFile(stage[r], path, file)
<1>1. /\ pc[r] = "read" /\ At(Source(r), path) # Nothing /\ Affordable(r, tree)
      /\ stage' = [stage EXCEPT ![r] = tree] /\ left' = [left EXCEPT ![r] = @ \ {path}]
      /\ pc' = [pc EXCEPT ![r] = "look"] /\ kind' = kind
  BY DEF Read, Goto
<1>2. kind[r] \in Kinds \ {"derive"}
  BY <1>1, RunFacts DEF StepsOf, Kinds
<1>3. stage[r] \in Tree /\ stage[r].files \in Files /\ path \in Paths /\ file \in File
  <2>1. looked[r] \in Looks /\ stage[r] \in Tree /\ stage[r].files \in Files
    BY <1>1, <1>2, RunFacts DEF RunOK, StagesItsKind
  <2>2. Source(r)[path] \in File
    BY <1>1, RunFacts, FilesFacts
  <2> QED
    BY <2>1, <2>2 DEF Looks, File
<1>4. path \in left[r] /\ path \notin DOMAIN stage[r].files /\ Counted(stage[r])
      /\ left[r] \cap DOMAIN stage[r].files = {}
  BY <1>1, <1>2 DEF CountsItsTree
<1>5. Counted(tree)
  BY <1>3, <1>4, WriteFileCounted
<1>6. kind[r] # "capture" => WithinBudget(tree, Limits[kind[r]])
  BY <1>1 DEF Affordable
<1>7. DOMAIN tree.files = DOMAIN stage[r].files \cup {path}
  BY DEF WriteFile
<1> HIDE DEF tree
<1>8. stage'[r] = tree /\ pc'[r] = "look" /\ left'[r] = left[r] \ {path}
  BY <1>1, RunFacts DEF InputsTypeOK
<1> QED
  BY <1>1, <1>4, <1>5, <1>6, <1>7, <1>8 DEF CountsItsTree

LEMMA TreesCountedNext == ASSUME InputsInv, TreesCounted, [Next]_vars PROVE TreesCounted'
<1> SUFFICES ASSUME NEW q \in Runs PROVE CountsItsTree(q)'
  BY DEF TreesCounted
<1>1. CountsItsTree(q) /\ InputsTypeOK /\ kind[q] \in Kinds
  BY RunFacts DEF TreesCounted
<1>2. CASE UNCHANGED runVars
  BY <1>1, <1>2 DEF CountsItsTree, runVars
<1>3. ASSUME NEW r \in Runs, RunStep(r), r # q PROVE CountsItsTree(q)'
  <2>1. /\ kind'[q] = kind[q] /\ pc'[q] = pc[q] /\ left'[q] = left[q]
        /\ looked'[q] = looked[q] /\ stage'[q] = stage[q]
    <3>1. CASE Pin(r) \/ Probe(r) \/ Fail(r) \/ List(r) \/ Look(r)
      BY <1>1, <1>3, <3>1 DEF InputsTypeOK, Pin, Probe, Fail, List, Look, Goto, RunKept
    <3>2. CASE Read(r)
      BY <1>1, <1>3, <3>2 DEF InputsTypeOK, Read, Goto
    <3>3. CASE Finish(r) \/ VerifyFile(r) \/ Verified(r) \/ Invoke(r)
      BY <1>1, <1>3, <3>3 DEF InputsTypeOK, Finish, VerifyFile, Verified, Invoke, Goto, RunKept
    <3>4. CASE CreateView(r) \/ Revalidate(r) \/ Publish(r)
      BY <1>1, <1>3, <3>4 DEF InputsTypeOK, CreateView, Revalidate, Publish, Goto, RunKept
    <3> QED
      BY <1>3, <3>1, <3>2, <3>3, <3>4 DEF RunStep
  <2> QED
    BY <1>1, <2>1 DEF CountsItsTree
<1>4. ASSUME RunStep(q) PROVE CountsItsTree(q)'
  <2> SUFFICES ASSUME kind[q] # "derive" PROVE CountsItsTree(q)'
    <3>1. kind' = kind
      BY <1>4 DEF RunStep, Pin, Probe, Fail, List, Look, Read, Finish, VerifyFile, Verified, Invoke,
                  CreateView, Revalidate, Publish, RunKept
    <3> QED
      BY <3>1 DEF CountsItsTree
  <2>1. CASE Pin(q) \/ Probe(q) \/ CreateView(q)
    <3>1. kind' = kind /\ stage' = stage /\ pc'[q] \notin {"look", "read"}
      BY <1>1, <2>1 DEF InputsTypeOK, Pin, Probe, CreateView, Goto, RunKept
    <3> QED
      BY <1>1, <3>1 DEF CountsItsTree
  <2>2. CASE Finish(q) \/ Revalidate(q) \/ Publish(q) \/ Verified(q)
    <3>1. kind' = kind /\ stage' = stage /\ pc'[q] \notin {"look", "read"}
      BY <1>1, <2>2 DEF InputsTypeOK, Finish, Revalidate, Publish, Verified, Goto, RunKept
    <3> QED
      BY <1>1, <3>1 DEF CountsItsTree
  <2>3. CASE Invoke(q)
    <3>1. kind' = kind /\ stage' = stage /\ pc'[q] \notin {"look", "read"}
      BY <1>1, <2>3 DEF InputsTypeOK, Invoke, Goto
    <3> QED
      BY <1>1, <3>1 DEF CountsItsTree
  <2>4. CASE VerifyFile(q)
    BY <1>1, <2>4, RunFacts DEF VerifyFile, StepsOf, Kinds
  <2>5. CASE Fail(q)
    <3>1. kind' = kind /\ stage'[q] = NewTree /\ pc'[q] = "failed"
      BY <1>1, <2>5 DEF InputsTypeOK, Fail, Goto
    <3> QED
      BY <1>1, <3>1, NewTreeCounted, NewTreeFits DEF CountsItsTree
  <2>6. CASE List(q)
    <3>1. kind' = kind /\ stage' = stage /\ pc'[q] = "look" /\ stage[q] = NewTree
      BY <1>1, <2>6, RunFacts DEF InputsTypeOK, List, Goto, RunOK, BeginsEmpty
    <3>2. DOMAIN stage[q].files = {}
      BY <3>1, NewTreeType, FilesFacts
    <3> QED
      BY <1>1, <3>1, <3>2 DEF CountsItsTree
  <2>7. CASE Look(q)
    <3>1. /\ kind' = kind /\ stage' = stage /\ left' = left /\ pc[q] = "look" /\ pc'[q] = "read"
          /\ left[q] # {} /\ looked'[q].path = Min(left[q])
      BY <1>1, <2>7 DEF InputsTypeOK, Look, Goto
    <3>2. Min(left[q]) \in left[q]
      <4>1. left[q] \subseteq Nat
        BY <1>1, TreeAssumption DEF InputsTypeOK
      <4> QED
        BY <3>1, <4>1, LeastIsMember
    <3> QED
      BY <1>1, <3>1, <3>2 DEF CountsItsTree
  <2>8. CASE Read(q)
    BY <1>1, <2>8, TreesCountedRead
  <2> QED
    BY <1>4, <2>1, <2>2, <2>3, <2>4, <2>5, <2>6, <2>7, <2>8 DEF RunStep
<1>5. CASE OwnerEdit \/ UserEdit \/ UserMakes
  <2>1. UNCHANGED runVars
    BY <1>5 DEF OwnerEdit, UserEdit, UserMakes, Edited
  <2> QED
    BY <1>2, <2>1
<1>6. CASE UNCHANGED vars
  BY <1>2, <1>6 DEF vars
<1>7. CASE \E r \in Runs : RunStep(r)
  BY <1>3, <1>4, <1>7
<1> QED
  BY <1>5, <1>6, <1>7 DEF Next

(* No complete tree exceeds the limits it was made under, when its entries and bytes are
   counted afresh (add_entry of build_inputs/tree.rs, ViewBudget of selected_view/view.rs). *)
THEOREM TreesFit == Spec => []TreesAreWithinLimits
<1>1. ASSUME TreesCounted PROVE TreesAreWithinLimits
  <2> SUFFICES ASSUME NEW r \in Runs, kind[r] \notin {"capture", "derive"}
               PROVE  /\ EntriesOf(stage[r].files) <= Limits[kind[r]].entries
                      /\ BytesOf(stage[r].files) <= Limits[kind[r]].bytes
    BY DEF TreesAreWithinLimits
  <2>1. Counted(stage[r]) /\ WithinBudget(stage[r], Limits[kind[r]])
    BY <1>1 DEF TreesCounted, CountsItsTree
  <2>2. EntriesOf(stage[r].files) = stage[r].entries /\ BytesOf(stage[r].files) = stage[r].bytes
    BY <2>1 DEF Counted, EntriesOf
  <2> QED
    BY <2>1, <2>2 DEF WithinBudget
<1>2. TreesCounted /\ InputsInv /\ InputsInv' /\ [Next]_vars => TreesCounted'
  BY TreesCountedNext
<1> QED
  BY <1>1, <1>2, TreesCountedInit, InputsInvHolds, PTL DEF Spec
-----------------------------------------------------------------------------
(* What the walks over the unit graph and over Cargo.lock reach, and what is copied of it. *)

(* A set of numbers that has zero and the successor of each of its members has all. *)
LEMMA SetInduction ==
  ASSUME NEW S, S \subseteq Nat, 0 \in S, \A n \in S : n + 1 \in S
  PROVE  S = Nat
<1> DEFINE R == OpToRel(<, Nat)
           T == Nat \ S
<1>1. IsWellFoundedOn(R, Nat)
  BY NatLessThanWellFounded
<1>2. \A x, y \in Nat : <<x, y>> \in R <=> x < y
  BY DEF OpToRel
<1>3. SUFFICES ASSUME T # {} PROVE FALSE
  OBVIOUS
<1> HIDE DEF R
<1>4. PICK x \in T : \A y \in T : <<y, x>> \notin R
  BY <1>1, <1>3, WFMin
<1>5. x \in Nat /\ x # 0 /\ x - 1 \in Nat
  BY <1>4
<1>6. x - 1 \in S
  <2>1. (x - 1) < x /\ x \in Nat
    BY <1>5
  <2>2. <<x - 1, x>> \in R
    BY <1>2, <1>5, <2>1
  <2> QED
    BY <1>4, <1>5, <2>2
<1> QED
  BY <1>4, <1>5, <1>6

(* What is reached in one more step. *)
Further(edges, reached) == reached \cup UNION {edges[p] : p \in reached \cap DOMAIN edges}

Reaches(w, edges, start, N) ==
  w = [n \in 0..N |-> IF n = 0 THEN start ELSE Further(edges, w[n - 1])]

LEMMA WalkExists ==
  ASSUME NEW edges, NEW start, NEW N \in Nat
  PROVE  \E w : Reaches(w, edges, start, N)
<1> DEFINE S == {M \in Nat : \E w : Reaches(w, edges, start, M)}
<1>1. 0 \in S
  <2> DEFINE w == [n \in 0..0 |-> start]
  <2>1. Reaches(w, edges, start, 0)
    <3>1. \A n \in 0..0 : n = 0
      OBVIOUS
    <3> QED
      BY <3>1 DEF Reaches
  <2> QED
    BY <2>1
<1>2. ASSUME NEW M \in S PROVE M + 1 \in S
  <2>1. PICK w : Reaches(w, edges, start, M)
    OBVIOUS
  <2> DEFINE v == [n \in 0..(M + 1) |-> IF n = M + 1 THEN Further(edges, w[M]) ELSE w[n]]
  <2>2. M \in Nat /\ M + 1 \in Nat /\ 0..M \subseteq 0..(M + 1) /\ M \in 0..M
    OBVIOUS
  <2>3. ASSUME NEW n \in 0..(M + 1)
        PROVE  v[n] = IF n = 0 THEN start ELSE Further(edges, v[n - 1])
    <3>1. CASE n = 0
      <4>1. 0 \in 0..M /\ 0 # M + 1 /\ w[0] = start
        BY <2>1, <2>2 DEF Reaches
      <4> QED
        BY <3>1, <4>1
    <3>2. CASE n # 0 /\ n # M + 1
      <4>1. n \in 0..M /\ n - 1 \in 0..(M + 1) /\ n - 1 # M + 1 /\ n \in 0..(M + 1)
        BY <2>2, <3>2
      <4>2. w[n] = Further(edges, w[n - 1])
        BY <2>1, <3>2, <4>1 DEF Reaches
      <4>3. v[n] = w[n] /\ v[n - 1] = w[n - 1]
        BY <3>2, <4>1
      <4> QED
        BY <3>2, <4>2, <4>3
    <3>3. CASE n = M + 1
      <4>1. n # 0 /\ n - 1 = M /\ M \in 0..(M + 1) /\ M # M + 1
        BY <2>2, <3>3
      <4>2. v[n] = Further(edges, w[M]) /\ v[M] = w[M]
        BY <3>3, <4>1
      <4> QED
        BY <4>1, <4>2
    <3> QED
      BY <3>1, <3>2, <3>3
  <2>4. v = [n \in 0..(M + 1) |-> v[n]]
    OBVIOUS
  <2> HIDE DEF v
  <2>5. Reaches(v, edges, start, M + 1)
    BY <2>3, <2>4 DEF Reaches
  <2> QED
    BY <2>2, <2>5
<1> HIDE DEF S
<1>3. S = Nat
  <2>1. S \subseteq Nat
    BY DEF S
  <2> QED
    BY <1>1, <1>2, <2>1, SetInduction
<1> QED
  BY <1>3 DEF S

Closed(edges, C) == \A p \in C \cap DOMAIN edges : edges[p] \subseteq C

(* What a worklist reaches is the least set that has what it starts with and is closed:
   each step before the last reaches a package more, and there are no more of them. *)
LEMMA WorklistIsLeast ==
  ASSUME NEW edges, IsFiniteSet(DOMAIN edges), NEW start
  PROVE  /\ start \subseteq Closure(edges, start)
         /\ Closed(edges, Closure(edges, start))
         /\ \A C : start \subseteq C /\ Closed(edges, C) => Closure(edges, start) \subseteq C
<1> DEFINE N == Cardinality(DOMAIN edges)
           Step(g) == [n \in 0..N |-> IF n = 0 THEN start
                        ELSE g[n - 1] \cup UNION {edges[p] : p \in g[n - 1] \cap DOMAIN edges}]
           w == CHOOSE g : g = Step(g)
           known(n) == w[n] \cap DOMAIN edges
           S == {n \in Nat : n <= N => Closed(edges, w[n]) \/ Cardinality(known(n)) > n}
<1>1. N \in Nat
  BY FS_CardinalityType
<1>2. Closure(edges, start) = w[N]
  BY DEF Closure
<1>3. w = Step(w)
  <2>1. PICK g : Reaches(g, edges, start, N)
    BY <1>1, WalkExists
  <2>2. g = Step(g)
    BY <2>1 DEF Reaches, Further
  <2> HIDE DEF Step
  <2> QED
    BY <2>2
<1> HIDE DEF w, N
<1>4. w[0] = start /\ \A n \in Nat : n + 1 <= N => w[n + 1] = Further(edges, w[n])
  <2>1. w[0] = start
    <3>1. 0 \in 0..N
      BY <1>1
    <3> QED
      BY <1>3, <3>1
  <2>2. ASSUME NEW n \in Nat, n + 1 <= N PROVE w[n + 1] = Further(edges, w[n])
    <3>1. n + 1 \in 0..N /\ n + 1 # 0 /\ (n + 1) - 1 = n
      BY <1>1, <2>2
    <3>2. w[n + 1] = w[n] \cup UNION {edges[p] : p \in w[n] \cap DOMAIN edges}
      BY <1>3, <3>1
    <3> QED
      BY <3>2 DEF Further
  <2> QED
    BY <2>1, <2>2
<1> HIDE DEF Step
<1>5. \A n \in Nat : IsFiniteSet(known(n)) /\ Cardinality(known(n)) \in Nat
                     /\ Cardinality(known(n)) <= N
  BY FS_Subset, FS_CardinalityType DEF N
<1>6. S = Nat
  <2>1. 0 \in S
    <3>1. CASE known(0) = {}
      BY <3>1 DEF Closed
    <3>2. CASE known(0) # {}
      <4>1. Cardinality(known(0)) # 0
        BY <1>5, <3>2, FS_EmptySet
      <4> HIDE DEF known
      <4> QED
        BY <1>5, <4>1
    <3> QED
      BY <3>1, <3>2
  <2>2. ASSUME NEW n \in S PROVE n + 1 \in S
    <3> SUFFICES ASSUME n + 1 <= N
                 PROVE  Closed(edges, w[n + 1]) \/ Cardinality(known(n + 1)) > n + 1
      OBVIOUS
    <3>1. n \in Nat /\ n <= N /\ w[n + 1] = Further(edges, w[n])
      BY <1>1, <1>4
    <3>2. known(n) \subseteq known(n + 1)
      BY <3>1 DEF Further
    <3>3. CASE Closed(edges, w[n])
      <4>1. w[n + 1] = w[n]
        BY <3>1, <3>3 DEF Closed, Further
      <4> QED
        BY <3>3, <4>1
    <3>4. CASE known(n + 1) = known(n)
      BY <3>1, <3>4 DEF Closed, Further
    <3>5. CASE ~Closed(edges, w[n]) /\ known(n + 1) # known(n)
      <4>1. Cardinality(known(n)) > n
        BY <3>1, <3>5
      <4>2. Cardinality(known(n)) <= Cardinality(known(n + 1))
            /\ Cardinality(known(n)) # Cardinality(known(n + 1))
        <5> HIDE DEF known
        <5>1. IsFiniteSet(known(n + 1)) /\ known(n) \in SUBSET known(n + 1)
          BY <1>5, <3>1, <3>2
        <5>2. /\ Cardinality(known(n)) <= Cardinality(known(n + 1))
              /\ Cardinality(known(n + 1)) = Cardinality(known(n)) => known(n + 1) = known(n)
          BY <5>1, FS_Subset
        <5> QED
          BY <3>5, <5>2
      <4>3. Cardinality(known(n)) \in Nat /\ Cardinality(known(n + 1)) \in Nat
        <5> HIDE DEF known
        <5> QED
          BY <1>5, <3>1
      <4> HIDE DEF known
      <4> QED
        BY <3>1, <4>1, <4>2, <4>3
    <3> QED
      BY <3>3, <3>4, <3>5
  <2> HIDE DEF S
  <2>3. S \subseteq Nat
    BY DEF S
  <2> QED
    BY <2>1, <2>2, <2>3, SetInduction
<1>7. Closed(edges, w[N])
  <2>1. N \in S
    BY <1>1, <1>6
  <2>2. Closed(edges, w[N]) \/ Cardinality(known(N)) > N
    BY <1>1, <2>1
  <2>3. Cardinality(known(N)) \in Nat /\ Cardinality(known(N)) <= N
    BY <1>1, <1>5
  <2> HIDE DEF known, S
  <2> QED
    BY <1>1, <2>2, <2>3
<1>8. ASSUME NEW C, start \subseteq C, Closed(edges, C) PROVE w[N] \subseteq C /\ start \subseteq w[N]
  <2> DEFINE G == {n \in Nat : n <= N => w[n] \subseteq C /\ start \subseteq w[n]}
  <2>1. 0 \in G
    BY <1>4, <1>8
  <2>2. ASSUME NEW n \in G PROVE n + 1 \in G
    <3> SUFFICES ASSUME n + 1 <= N PROVE w[n + 1] \subseteq C /\ start \subseteq w[n + 1]
      OBVIOUS
    <3>1. n \in Nat /\ n <= N /\ w[n + 1] = Further(edges, w[n])
      BY <1>1, <1>4
    <3>2. w[n] \subseteq C /\ start \subseteq w[n]
      BY <3>1
    <3> QED
      BY <1>8, <3>1, <3>2 DEF Closed, Further
  <2> HIDE DEF G
  <2>3. G = Nat
    <3>1. G \subseteq Nat
      BY DEF G
    <3> QED
      BY <2>1, <2>2, <3>1, SetInduction
  <2> QED
    BY <1>1, <2>3 DEF G
<1>9. start \subseteq w[N]
  <2> DEFINE All == start \cup UNION {edges[p] : p \in DOMAIN edges}
  <2>1. start \subseteq All /\ Closed(edges, All)
    BY DEF Closed
  <2> QED
    BY <1>8, <2>1
<1> QED
  BY <1>2, <1>7, <1>8, <1>9

Premises(ws) ==
  /\ IsFiniteSet(DOMAIN ws.nodes) /\ IsFiniteSet(ws.lock)
  /\ \A p \in DOMAIN ws.nodes \cup ws.patches : p.local \in BOOLEAN
  /\ Accepted(ws) /\ LockAgrees(ws) /\ LocalsAreNamed(ws) /\ PatchesAreEnough(ws)

(* What selected packages need. *)
Needed(ws) == Closure(ws.nodes, ws.units)

(* What the rows of the lock that are visited stand for. *)
Locked(ws) == {row.package : row \in Visited(ws)}

LEMMA NeededIsLeast ==
  ASSUME NEW ws, Premises(ws)
  PROVE  /\ ws.units \subseteq Needed(ws) /\ Needed(ws) \subseteq DOMAIN ws.nodes
         /\ Closed(ws.nodes, Needed(ws))
         /\ \A C : ws.units \subseteq C /\ Closed(ws.nodes, C) => Needed(ws) \subseteq C
         /\ Least(ws, ws.units) = Needed(ws)
<1>1. /\ ws.units \subseteq Needed(ws) /\ Closed(ws.nodes, Needed(ws))
      /\ \A C : ws.units \subseteq C /\ Closed(ws.nodes, C) => Needed(ws) \subseteq C
  BY WorklistIsLeast DEF Premises, Needed
<1>2. Needed(ws) \subseteq DOMAIN ws.nodes
  BY DEF Premises, Accepted, ResolverOK, Needed
<1>3. ASSUME NEW p \in Least(ws, ws.units) PROVE p \in Needed(ws)
  <2>1. Needed(ws) \in SUBSET DOMAIN ws.nodes /\ \A q \in Needed(ws) : ws.nodes[q] \subseteq Needed(ws)
    BY <1>1, <1>2 DEF Closed
  <2> QED
    BY <1>1, <2>1 DEF Least
<1>4. ASSUME NEW p \in Needed(ws) PROVE p \in Least(ws, ws.units)
  <2>1. ASSUME NEW C \in SUBSET DOMAIN ws.nodes, ws.units \subseteq C,
               \A q \in C : ws.nodes[q] \subseteq C
        PROVE  p \in C
    BY <1>1, <1>4, <2>1 DEF Closed
  <2> QED
    BY <1>2, <2>1 DEF Least
<1> QED
  BY <1>1, <1>2, <1>3, <1>4

(* The walk over the lock is the walk over the packages. *)
LEMMA LockedIsLeast ==
  ASSUME NEW ws, Premises(ws)
  PROVE  /\ LocalResolver(ws) \ ws.unused \subseteq Locked(ws)
         /\ Locked(ws) \subseteq DOMAIN ws.nodes \ ws.unused
         /\ Closed(ws.nodes, Locked(ws))
         /\ \A C : LocalResolver(ws) \ ws.unused \subseteq C /\ Closed(ws.nodes, C)
                     => Locked(ws) \subseteq C
<1> DEFINE edges == LockEdges(ws.lock)
<1>1. DOMAIN edges = ws.lock /\ \A row \in ws.lock : edges[row] \subseteq ws.lock
  BY DEF LockEdges, Matching
<1>2. \A row \in ws.lock : {match.package : match \in edges[row]} = ws.nodes[row.package]
                           /\ row.package \in DOMAIN ws.nodes \ ws.unused
  BY DEF Premises, LockAgrees
<1> HIDE DEF edges
<1>3. /\ Starts(ws) \subseteq Visited(ws) /\ Closed(edges, Visited(ws))
      /\ \A C : Starts(ws) \subseteq C /\ Closed(edges, C) => Visited(ws) \subseteq C
  <2>1. IsFiniteSet(DOMAIN edges)
    BY <1>1 DEF Premises
  <2>2. Visited(ws) = Closure(edges, Starts(ws))
    BY DEF Visited, edges
  <2> QED
    BY <2>1, <2>2, WorklistIsLeast
<1>4. Starts(ws) \subseteq ws.lock
  BY DEF Starts, RowsOf
<1>5. Visited(ws) \subseteq ws.lock
  <2>1. Closed(edges, ws.lock)
    BY <1>1 DEF Closed
  <2> QED
    BY <1>3, <1>4, <2>1
<1>6. Locked(ws) \subseteq DOMAIN ws.nodes \ ws.unused
  BY <1>2, <1>5 DEF Locked
<1>7. LocalResolver(ws) \ ws.unused \subseteq Locked(ws)
  <2> SUFFICES ASSUME NEW p \in LocalResolver(ws), p \notin ws.unused PROVE p \in Locked(ws)
    OBVIOUS
  <2>1. RowsOf(ws, p) # {}
    <3>1. Cardinality(RowsOf(ws, p)) = 1 \/ (RowsOf(ws, p) = {} /\ p \in ws.unused)
      BY DEF Premises, Accepted, LockOK
    <3>2. Cardinality(RowsOf(ws, p)) = 1
      BY <3>1
    <3> QED
      BY <3>2, FS_EmptySet
  <2>2. PICK row \in ws.lock : row.package = p
    BY <2>1 DEF RowsOf
  <2>3. row \in Starts(ws)
    BY <2>2 DEF Starts, RowsOf
  <2> QED
    BY <1>3, <2>2, <2>3 DEF Locked
<1>8. Closed(ws.nodes, Locked(ws))
  <2> SUFFICES ASSUME NEW row \in Visited(ws), NEW q \in ws.nodes[row.package] PROVE q \in Locked(ws)
    BY DEF Closed, Locked
  <2>1. row \in ws.lock
    BY <1>5
  <2>2. PICK match \in edges[row] : match.package = q
    BY <1>2, <2>1
  <2>3. match \in Visited(ws)
    BY <1>1, <1>3, <2>1, <2>2 DEF Closed
  <2> QED
    BY <2>2, <2>3 DEF Locked
<1>9. ASSUME NEW C, LocalResolver(ws) \ ws.unused \subseteq C, Closed(ws.nodes, C)
      PROVE  Locked(ws) \subseteq C
  <2> DEFINE rows == {row \in ws.lock : row.package \in C}
  <2>1. Starts(ws) \subseteq rows
    BY <1>2, <1>9 DEF Starts, RowsOf
  <2>2. Closed(edges, rows)
    <3> SUFFICES ASSUME NEW row \in rows, NEW match \in edges[row] PROVE match \in rows
      BY DEF Closed
    <3>1. match \in ws.lock /\ match.package \in ws.nodes[row.package]
      BY <1>1, <1>2
    <3>2. row.package \in C /\ row.package \in DOMAIN ws.nodes
      BY <1>2
    <3> QED
      BY <1>9, <3>1, <3>2 DEF Closed
  <2> HIDE DEF rows
  <2>3. Visited(ws) \subseteq rows
    BY <1>3, <2>1, <2>2
  <2> QED
    BY <2>3 DEF Locked, rows
<1> QED
  BY <1>6, <1>7, <1>8, <1>9

(* Which packages the two walks find. *)
LEMMA BothWalks ==
  ASSUME NEW ws, Premises(ws)
  PROVE  Least(ws, ws.units \cup (ws.patches \ ws.unused)) = Needed(ws) \cup Locked(ws)
<1> DEFINE start == ws.units \cup (ws.patches \ ws.unused)
           both == Needed(ws) \cup Locked(ws)
<1>1. /\ both \subseteq DOMAIN ws.nodes /\ Closed(ws.nodes, both)
      /\ \A q \in both : ws.nodes[q] \subseteq both
  BY NeededIsLeast, LockedIsLeast DEF Closed
<1>2. start \subseteq both
  <2> SUFFICES ASSUME NEW p \in ws.patches, p \notin ws.unused PROVE p \in both
    BY NeededIsLeast
  <2>1. CASE p.name \in Names(Local(ws.units))
    <3>1. PICK q \in ws.units : q.local /\ q.name = p.name
      BY <2>1 DEF Names, Local
    <3>2. p = q
      <4>1. ws.units \subseteq DOMAIN ws.nodes
        BY DEF Premises, Accepted, SelectedOK
      <4>2. p \in Local(DOMAIN ws.nodes \cup ws.patches) /\ q \in Local(DOMAIN ws.nodes \cup ws.patches)
        BY <3>1, <4>1 DEF Premises, LocalsAreNamed, Local
      <4> QED
        BY <3>1, <4>2 DEF Premises, LocalsAreNamed
    <3> QED
      BY <3>2, NeededIsLeast
  <2>2. CASE p.name \notin Names(Local(ws.units))
    <3>1. p \in LocalResolver(ws)
      BY <2>2 DEF LocalResolver
    <3> QED
      BY <3>1, LockedIsLeast
  <2> QED
    BY <2>1, <2>2
<1>3. Least(ws, start) \subseteq both
  BY <1>1, <1>2 DEF Least
<1>4. ASSUME NEW p \in both, NEW C \in SUBSET DOMAIN ws.nodes, start \subseteq C,
             \A q \in C : ws.nodes[q] \subseteq C
      PROVE  p \in C
  <2>1. Closed(ws.nodes, C) /\ ws.units \subseteq C /\ ws.patches \ ws.unused \subseteq C
    BY <1>4 DEF Closed
  <2>2. Needed(ws) \subseteq C
    BY <2>1, NeededIsLeast
  <2>3. LocalResolver(ws) \ ws.unused \subseteq C
    <3>1. LocalResolver(ws) \subseteq ws.patches \cup Needed(ws)
      BY DEF LocalResolver, ResolverOnly, Needed, Local
    <3> QED
      BY <2>1, <2>2, <3>1
  <2>4. Locked(ws) \subseteq C
    BY <2>1, <2>3, LockedIsLeast
  <2> QED
    BY <2>2, <2>4
<1>5. both \subseteq Least(ws, start)
  <2> SUFFICES ASSUME NEW p \in both PROVE p \in Least(ws, start)
    OBVIOUS
  <2> HIDE DEF both, start
  <2>1. p \in DOMAIN ws.nodes
    BY <1>1
  <2> QED
    BY <1>4, <2>1 DEF Least
<1> QED
  BY <1>3, <1>5

(* Registry packages are looked up in the lock. *)
LEMMA LockedResolverIs ==
  ASSUME NEW ws, Premises(ws)
  PROVE  /\ LockedResolver(ws) \subseteq Needed(ws) \cup Locked(ws)
         /\ \A p \in LockedResolver(ws) : ~p.local
         /\ \A p \in Needed(ws) : ~p.local => p \in ws.units \cup LockedResolver(ws)
         /\ \A q \in Locked(ws) : \A p \in ws.nodes[q] :
              ~p.local => p \in ws.units \cup LockedResolver(ws)
<1> DEFINE reached == {row.package : row \in UNION {LockEdges(ws.lock)[r] : r \in Visited(ws)}}
           retained == Registry(ResolverOnly(ws) \cup reached)
<1>1. LockedResolver(ws) = {row.package : row \in {r \in ws.lock : r.package \in retained}} \ ws.units
  BY DEF LockedResolver
<1>2. Visited(ws) \subseteq ws.lock
  <2> DEFINE edges == LockEdges(ws.lock)
  <2>1. DOMAIN edges = ws.lock /\ Closed(edges, ws.lock)
    BY DEF LockEdges, Matching, Closed
  <2>2. Starts(ws) \subseteq ws.lock
    BY DEF Starts, RowsOf
  <2> HIDE DEF edges
  <2>3. Visited(ws) = Closure(edges, Starts(ws)) /\ IsFiniteSet(DOMAIN edges)
    BY <2>1 DEF Visited, edges, Premises
  <2> QED
    BY <2>1, <2>2, <2>3, WorklistIsLeast
<1>3. \A row \in ws.lock : {match.package : match \in LockEdges(ws.lock)[row]} = ws.nodes[row.package]
  BY DEF Premises, LockAgrees
<1>4. \A p : p \in reached <=> \E q \in Locked(ws) : p \in ws.nodes[q]
  BY <1>2, <1>3 DEF Locked
<1> HIDE DEF reached
<1>5. ResolverOnly(ws) = Needed(ws) \ ws.units
  BY DEF ResolverOnly, Needed
<1>6. reached \subseteq Locked(ws) /\ Locked(ws) \subseteq DOMAIN ws.nodes \ ws.unused
  BY <1>4, LockedIsLeast DEF Closed
<1>7. ASSUME NEW p \in retained PROVE \E row \in ws.lock : row.package = p
  <2>1. p \in DOMAIN ws.nodes /\ ~p.local
    BY <1>5, <1>6, NeededIsLeast DEF Registry
  <2>2. p \notin ws.unused
    BY <2>1 DEF Premises, LocalsAreNamed, Local
  <2>3. p \in {row.package : row \in ws.lock}
    BY <2>1, <2>2 DEF Premises, LockAgrees
  <2> QED
    BY <2>3
<1>8. \A p : p \in LockedResolver(ws) <=> p \in retained /\ p \notin ws.units
  BY <1>1, <1>7
<1>9. LockedResolver(ws) \subseteq Needed(ws) \cup Locked(ws)
  BY <1>5, <1>6, <1>8 DEF Registry
<1>10. \A p \in LockedResolver(ws) : ~p.local
  BY <1>8 DEF Registry
<1>11. \A p \in Needed(ws) : ~p.local => p \in ws.units \cup LockedResolver(ws)
  BY <1>5, <1>8 DEF Registry
<1>12. \A q \in Locked(ws) : \A p \in ws.nodes[q] : ~p.local => p \in ws.units \cup LockedResolver(ws)
  BY <1>4, <1>8 DEF Registry
<1> QED
  BY <1>9, <1>10, <1>11, <1>12

(* A local package that is needed is selected or taken for the resolver. *)
LEMMA LocalsAreTaken ==
  ASSUME NEW ws, Premises(ws), NEW p, p \in Needed(ws) \cup ws.patches, p.local
  PROVE  p \in ws.units \cup LocalResolver(ws)
<1> DEFINE all == Local(DOMAIN ws.nodes \cup ws.patches)
<1>1. p \in all
  BY NeededIsLeast DEF Local
<1>2. \A q \in ws.patches \cup ws.units : q.local => q \in all
  BY NeededIsLeast DEF Local
<1>3. \A q, s \in all : q.name = s.name => q = s
  BY DEF Premises, LocalsAreNamed
<1>4. CASE p.name \in Names(Local(ws.units))
  BY <1>1, <1>2, <1>3, <1>4 DEF Names, Local
<1>5. CASE p.name \notin Names(Local(ws.units)) /\ p \in ws.patches
  BY <1>5 DEF LocalResolver
<1>6. CASE p.name \notin Names(Local(ws.units)) /\ p \notin ws.patches
  <2> DEFINE patches == {q \in ws.patches : q.name \notin Names(Local(ws.units))}
  <2>1. p.name \notin Names(patches)
    <3> SUFFICES ASSUME NEW q \in ws.patches, q.name = p.name PROVE FALSE
      BY DEF Names
    <3>1. q \in all
      BY DEF Premises, LocalsAreNamed, Local
    <3> QED
      BY <1>1, <1>3, <1>6, <3>1
  <2>2. p \in Needed(ws) \ ws.units
    BY <1>4, <1>6 DEF Names, Local
  <2> QED
    BY <1>6, <2>1, <2>2 DEF LocalResolver, ResolverOnly, Needed, Local
<1> QED
  BY <1>4, <1>5, <1>6

LEMMA CopiedIs ==
  ASSUME NEW ws, Premises(ws)
  PROVE  Copied(ws) = Needed(ws) \cup Locked(ws) \cup ws.patches
<1>1. ASSUME NEW p \in Copied(ws) PROVE p \in Needed(ws) \cup Locked(ws) \cup ws.patches
  <2>1. LocalResolver(ws) \subseteq ws.patches \cup Needed(ws)
    BY DEF LocalResolver, ResolverOnly, Needed, Local
  <2> QED
    BY <2>1, NeededIsLeast, LockedResolverIs DEF Copied
<1>2. ASSUME NEW p \in Needed(ws) \cup ws.patches PROVE p \in Copied(ws)
  <2>1. p.local \in BOOLEAN
    BY NeededIsLeast DEF Premises
  <2>2. CASE p.local
    BY <2>2, LocalsAreTaken DEF Copied
  <2>3. CASE ~p.local
    <3>1. p \in Needed(ws)
      BY <2>3 DEF Premises, LocalsAreNamed, Local
    <3> QED
      BY <2>3, <3>1, LockedResolverIs DEF Copied
  <2> QED
    BY <2>1, <2>2, <2>3
<1>3. ASSUME NEW p \in Locked(ws) PROVE p \in Copied(ws)
  <2>1. p \in DOMAIN ws.nodes /\ p.local \in BOOLEAN
    BY LockedIsLeast DEF Premises
  <2>2. CASE p.local
    <3>1. p \in Least(ws, ws.units \cup (ws.patches \ ws.unused))
      BY BothWalks
    <3>2. p \in Needed(ws) \cup ws.patches
      BY <2>2, <3>1, NeededIsLeast DEF Premises, PatchesAreEnough, Local
    <3> QED
      BY <1>2, <3>2
  <2>3. CASE ~p.local
    <3> DEFINE C == {q \in Locked(ws) : q.local \/ q \in Copied(ws)}
    <3>1. LocalResolver(ws) \ ws.unused \subseteq C
      BY LockedIsLeast DEF Copied
    <3>2. Closed(ws.nodes, C)
      <4> SUFFICES ASSUME NEW q \in C, NEW next \in ws.nodes[q] PROVE next \in C
        BY DEF Closed
      <4>1. next \in Locked(ws)
        BY LockedIsLeast DEF Closed
      <4>2. next.local \in BOOLEAN
        BY <4>1, LockedIsLeast DEF Premises
      <4>3. ~next.local => next \in Copied(ws)
        BY LockedResolverIs DEF Copied
      <4> QED
        BY <4>1, <4>2, <4>3
    <3> HIDE DEF C
    <3>3. p \in C
      BY <3>1, <3>2, LockedIsLeast
    <3> QED
      BY <2>3, <3>3 DEF C
  <2> QED
    BY <2>1, <2>2, <2>3
<1> QED
  BY <1>1, <1>2, <1>3

(* What materialize copies for an accepted workspace is all that selected packages and used
   patches need and no more, however large the two graphs it walks
   (resolver_only_package_ids of graph.rs:296-350, locked_resolver_packages of
   registry.rs:8-139, narrow_workspace_manifest). *)
THEOREM CopiedIsNeeded ==
  ASSUME NEW ws, IsFiniteSet(DOMAIN ws.nodes), IsFiniteSet(ws.lock),
         \A p \in DOMAIN ws.nodes \cup ws.patches : p.local \in BOOLEAN
  PROVE  CopiesWhatIsNeeded(ws)
<1> SUFFICES ASSUME Premises(ws)
             PROVE  /\ Copied(ws) = Least(ws, ws.units \cup (ws.patches \ ws.unused)) \cup ws.patches
                    /\ Narrowed(ws).members \cup Narrowed(ws).exclude = Names(Local(Copied(ws)))
                    /\ Narrowed(ws).patches \subseteq Narrowed(ws).members \cup Narrowed(ws).exclude
                    /\ NarrowLockOK(ws, {row \in ws.lock : row.package \in Least(ws, ws.units)})
  BY DEF CopiesWhatIsNeeded, Premises
<1>1. Copied(ws) = Least(ws, ws.units \cup (ws.patches \ ws.unused)) \cup ws.patches
  BY CopiedIs, BothWalks
<1>2. Local(Copied(ws)) = Local(ws.units \cup LocalResolver(ws))
  BY LockedResolverIs DEF Copied, Local
<1> DEFINE kept == Names(Local(ws.units) \cup LocalResolver(ws))
           selected == Names(Local(ws.units))
<1>3. /\ Narrowed(ws).members = selected
      /\ Narrowed(ws).exclude = kept \ selected
      /\ Narrowed(ws).patches = Names(ws.patches) \cap kept
  BY DEF Narrowed
<1>4. kept = Names(Local(ws.units \cup LocalResolver(ws))) /\ selected \subseteq kept
  <2>1. LocalResolver(ws) = Local(LocalResolver(ws))
    BY DEF Premises, LocalsAreNamed, LocalResolver, Local
  <2>2. Local(ws.units) \cup LocalResolver(ws) = Local(ws.units \cup LocalResolver(ws))
    BY <2>1 DEF Local
  <2> QED
    BY <2>2 DEF Names
<1>5. /\ Narrowed(ws).members \cup Narrowed(ws).exclude = kept
      /\ Narrowed(ws).patches \subseteq kept
  <2> HIDE DEF kept, selected
  <2> QED
    BY <1>3, <1>4
<1>6. NarrowLockOK(ws, {row \in ws.lock : row.package \in Least(ws, ws.units)})
  <2> SUFFICES ASSUME NEW row \in ws.lock, row.package \in Needed(ws)
               PROVE  IF row.package.local
                      THEN row.package.name \in Names(Local(ResolverOnly(ws) \cup ws.units))
                      ELSE \E other \in ws.lock : other.package = row.package
    BY NeededIsLeast DEF NarrowLockOK
  <2>1. row.package \in ResolverOnly(ws) \cup ws.units
    BY DEF ResolverOnly, Needed
  <2> QED
    BY <2>1 DEF Names, Local
<1> QED
  <2> HIDE DEF kept, selected
  <2>1. kept = Names(Local(Copied(ws)))
    BY <1>2, <1>4
  <2> QED
    BY <1>1, <1>5, <1>6, <2>1
=============================================================================
