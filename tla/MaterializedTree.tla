-------------------------- MODULE MaterializedTree --------------------------
(***************************************************************************)
(* Finite regular-file trees as TreeWriter makes them                      *)
(* (src/src/build_inputs/tree.rs): what is written, what it costs of the   *)
(* entry and byte limits, and what a record says of it.                    *)
(*                                                                         *)
(* A file is its body and its executable bit; bodies stand for bytes and   *)
(* for their SHA-256 digest alike.                                         *)
(***************************************************************************)
EXTENDS Naturals, FiniteSets, FiniteSetsExt, Functions

CONSTANTS
  Paths,   \* relative paths of files; numbers, in the order of their names
  Dirs,    \* relative paths of directories
  Above,   \* the directories on the way to each file
  Bodies,  \* contents of files
  Size     \* the bytes of each content

ASSUME TreeAssumption ==
  /\ Paths \subseteq Nat
  /\ Above \in [Paths -> SUBSET Dirs] /\ IsFiniteSet(Dirs)
  /\ Size \in [Bodies -> Nat]

File == [body : Bodies, executable : BOOLEAN]

(* What files a tree may hold, and so what a record of one may say. *)
Files == UNION {[paths -> File] : paths \in SUBSET Paths}

NoFiles == [path \in {} |-> path]

(* A limit as the options and the records give it; one of no entries is refused. *)
Limit == [entries : Nat \ {0}, bytes : Nat]

(* TreeWriter::create: the root is the first entry. *)
NewTree == [files |-> NoFiles, dirs |-> {}, entries |-> 1, bytes |-> 0]

(* Mutant: a directory made on the way to a file is not counted. *)
MutWriteFile(tree, path, file) ==
  [files |-> [p \in DOMAIN tree.files \cup {path} |->
                IF p = path THEN file ELSE tree.files[p]],
   dirs |-> tree.dirs \cup Above[path],
   entries |-> tree.entries + 1,
   bytes |-> tree.bytes + Size[file.body]]

(* write_file: the parents that are missing and the file are entries each. *)
WriteFile(tree, path, file) ==
  [files |-> [p \in DOMAIN tree.files \cup {path} |->
                IF p = path THEN file ELSE tree.files[p]],
   dirs |-> tree.dirs \cup Above[path],
   entries |-> tree.entries + Cardinality(Above[path] \ tree.dirs) + 1,
   bytes |-> tree.bytes + Size[file.body]]

(* What add_entry accepts, at every entry. *)
WithinBudget(tree, limit) ==
  tree.entries <= limit.entries /\ tree.bytes <= limit.bytes

(* What a listing of a published tree would count. *)
EntriesOf(files) ==
  1 + Cardinality(DOMAIN files)
    + Cardinality(UNION {Above[path] : path \in DOMAIN files})

BytesOf(files) == MapThenSumSet(LAMBDA path : Size[files[path].body], DOMAIN files)

=============================================================================
