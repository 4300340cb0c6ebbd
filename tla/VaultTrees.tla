----------------------------- MODULE VaultTrees -----------------------------
(***************************************************************************)
(* Directory trees of a managed vault namespace and the ownership rules    *)
(* the exporter applies to them (src/src/generated_namespace.rs,           *)
(* generated_namespace/filesystem.rs and index_vault_manifest.rs).         *)
(*                                                                         *)
(* A tree is what collect_file_digests and read_manifest_bytes see of a    *)
(* directory: the ownership manifest, if there is one, and the contents of *)
(* every other file.  Contents stand for bytes and for their SHA-256       *)
(* digest alike: the digest is taken to be collision free.                 *)
(***************************************************************************)
EXTENDS Naturals

CONSTANTS
  Paths,       \* relative artifact paths; numbers, in the order ArtifactSet sorts them
  Contents,    \* file contents, and their digests
  Owners,      \* <namespace, profile, granularity> identities a manifest can name
  Indexes,     \* digests of the projected Index document (and of what it determines)
  Absent,      \* no directory entry at a path
  NoFile,      \* no file at a path of a tree
  NoManifest   \* a tree without an ownership manifest

ASSUME TreeAssumption ==
  /\ Paths \subseteq Nat
  /\ NoFile \notin Contents

-----------------------------------------------------------------------------
(* Manifests and trees. *)

Schemas == {"v1", "v2", "v3"}

Files == [Paths -> Contents \cup {NoFile}]

NoFiles == [path \in Paths |-> NoFile]

(* VaultManifest and LegacyVaultManifest: the owner, the Index identity and
   the digest of every artifact. *)
Manifest == [schema : Schemas, owner : Owners, index : Indexes, artifacts : Files]

Tree == [manifest : Manifest \cup {NoManifest}, files : Files]

EmptyTree == [manifest |-> NoManifest, files |-> NoFiles]

(* What a path of the vault holds: nothing, or a directory. *)
Node == Tree \cup {Absent}

ASSUME MarkAssumption ==
  /\ Absent \notin Tree \cup Manifest \cup {NoManifest}
  /\ NoManifest \notin Manifest

(* The tree write_stage leaves behind: the artifacts and their manifest. *)
BundleTree(m) == [manifest |-> m, files |-> m.artifacts]

FilesOf(m) == {path \in Paths : m.artifacts[path] # NoFile}

WithFile(tree, path, text) == [tree EXCEPT !.files[path] = text]

WithManifest(tree, m) == [tree EXCEPT !.manifest = m]

Vacant(node) == node \in {Absent, EmptyTree}

-----------------------------------------------------------------------------
(* Ownership. *)

(* validate_owned_files: every artifact is present with the digest the
   manifest records, and no foreign file lies beside them. *)
OwnsFiles(m, files) ==
  \A path \in Paths : files[path] = m.artifacts[path]

(* validate_owned_paths: as above, whatever the bytes. *)
OwnsPaths(m, files) ==
  \A path \in Paths : (files[path] = NoFile) <=> (m.artifacts[path] = NoFile)

(* VaultManifest::from_bytes accepts only the current schema. *)
Parses(node) == node.manifest # NoManifest /\ node.manifest.schema = "v3"

(* A whole bundle: a manifest and exactly the files it records. *)
Whole(node) ==
  /\ node # Absent
  /\ node.manifest # NoManifest
  /\ OwnsFiles(node.manifest, node.files)

(* inspect_current: the states of the target an exporter for `want` accepts;
   every other state is refused. *)
Acceptable(node, want) ==
  \/ Vacant(node)
  \/ /\ node # Absent
     /\ Parses(node)
     /\ node.manifest.owner = want.owner
     /\ OwnsFiles(node.manifest, node.files)

(* ManagedNamespace::diff: paths whose bytes differ from the wanted ones;
   files the wanted manifest does not name count as changed. *)
ChangedPaths(node, want) ==
  IF Vacant(node)
    THEN FilesOf(want)
    ELSE {path \in Paths : node.files[path] # want.artifacts[path]}

(* ManagedNamespace::check on an acceptable target: the manifest and the
   files are the wanted ones. *)
Current(node, want) ==
  /\ ~Vacant(node)
  /\ node.manifest = want
  /\ ChangedPaths(node, want) = {}

(* verify_written_namespace. *)
Written(node, want) ==
  /\ ~Vacant(node)
  /\ node.manifest = want
  /\ OwnsFiles(want, node.files)

=============================================================================
