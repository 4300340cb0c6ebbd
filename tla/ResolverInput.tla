---------------------------- MODULE ResolverInput ----------------------------
(* The shared resolver of a documentation run: which files it binds and what it refuses
   (src/crates/simdoc/src/resolver_input.rs).

   A farm is a directory of packages, each a manifest and links into checkouts: [manifest,
   lock, packages, files, checkouts], where packages maps an id to [name, version, local,
   member, entries, targets, needs, generated], an entry is [name, is, to] with is one of
   manifest, file and link, files are those of the directories beside the repository, each
   [path, is, tracked, content], and checkouts are the directories that git has.  A path is
   a sequence of names that starts with such a directory; a digest is what it is a digest
   of, and the ceilings are left out. *)
EXTENDS Sequences, FiniteSets, SequencesExt

Repo == "repo"
Refused == [refused |-> TRUE]

At(farm, path) == {f \in farm.files : f.path = path}
Beneath(farm, dir) == {f \in farm.files : IsStrictPrefix(dir, f.path)}
Exists(farm, path) == At(farm, path) \cup Beneath(farm, path) # {}

(* owned_file: an ordinary file that git tracks. *)
Owned(f) == f.is = "file" /\ f.tracked

(* belongs_to_repo *)
Belongs(farm, package) ==
  LET links == {e \in package.entries : e.is = "link"}
      inside == {e \in links : e.to[1] = Repo}
      refused == \/ \E e \in package.entries : e.is = "file"
                 \/ \E e \in links : ~Exists(farm, e.to)
                 \/ links = {} \/ inside \notin {{}, links}
  IN IF refused THEN Refused
     ELSE [refused |-> FALSE, here |-> inside = links]

(* is_nested_lockfile: beside an owned Cargo.toml. *)
IsNestedLockfile(farm, f) ==
  /\ Last(f.path) = "lock"
  /\ \E m \in At(farm, Front(f.path) \o <<"toml">>) : Owned(m)

(* Mutant: what git does not track is skipped. *)
MutBound(farm, entry) ==
  LET under == {f \in Beneath(farm, entry.to) : Owned(f)}
      single == {f \in At(farm, entry.to) : Owned(f)}
  IN [ok |-> entry.to[1] \in farm.checkouts /\ (under # {} \/ single # {}),
      files |-> {[as |-> <<entry.name>> \o SubSeq(f.path, Len(entry.to) + 1, Len(f.path)), file |-> f] : f \in under \cup single}]

(* A link of package_files, and owned_tree: the target is a tracked file of a checkout or
   a directory that holds nothing else. *)
Bound(farm, entry) ==
  LET under == Beneath(farm, entry.to)
      single == At(farm, entry.to)
  IN [ok |-> /\ entry.to[1] \in farm.checkouts /\ under \cup single # {}
             /\ \A f \in single : Owned(f)
             /\ \A f \in under : Owned(f) \/ IsNestedLockfile(farm, f),
      files |-> {[as |-> <<entry.name>> \o SubSeq(f.path, Len(entry.to) + 1, Len(f.path)), file |-> f] : f \in under \cup single}]

(* The manifest that the farm made for a package, which is in no checkout. *)
Generated(package) == [path |-> <<>>, is |-> "file", tracked |-> FALSE, content |-> package.generated]

(* package_files *)
PackageFiles(farm, package) ==
  LET links == {e \in package.entries : e.is = "link"}
      own == {[as |-> <<e.name>>, file |-> Generated(package)] : e \in {d \in package.entries : d.is = "manifest"}}
  IN IF (\E e \in package.entries : e.is = "file") \/ \E e \in links : ~Bound(farm, e).ok THEN Refused
     ELSE [refused |-> FALSE, files |-> own \cup UNION {Bound(farm, e).files : e \in links}]

(* require_targets_bound *)
TargetsBound(package, files) ==
  \A t \in package.targets : \E b \in files : b.file.path = t

-----------------------------------------------------------------------------
(* source_closure *)

Candidates(farm, names) == {id \in DOMAIN farm.packages : farm.packages[id].member /\ farm.packages[id].name \in names}

Reached(farm, from) ==
  LET more[n \in 0..Cardinality(DOMAIN farm.packages)] ==
        IF n = 0 THEN from ELSE more[n - 1] \cup UNION {farm.packages[id].needs : id \in more[n - 1]}
  IN more[Cardinality(DOMAIN farm.packages)]

(* validate: what is bound for a repository that declares packages of these names. *)
Validate(farm, names) ==
  LET wanted == Candidates(farm, names)
      belongs(id) == Belongs(farm, farm.packages[id])
      kept == {id \in wanted : belongs(id).here}
      local == {id \in DOMAIN farm.packages : farm.packages[id].local /\ id \in Reached(farm, kept)}
      bound(id) == PackageFiles(farm, farm.packages[id])
      header(id) == <<farm.packages[id].name, farm.packages[id].version>>
  IN IF \E id \in wanted : belongs(id).refused THEN Refused
     ELSE IF kept = {} \/ (\E id \in local : bound(id).refused) THEN Refused
     ELSE IF \E id \in local : \/ ~TargetsBound(farm.packages[id], bound(id).files)
                               \/ \E b \in bound(id).files : b.file.is # "file" THEN Refused
     ELSE [refused |-> FALSE, manifest |-> farm.manifest, lock |-> farm.lock,
           selected |-> {farm.packages[id].name : id \in kept},
           closure |-> {<<header(id), {<<b.as, b.file.content>> : b \in bound(id).files}>> : id \in local}]
-----------------------------------------------------------------------------
(* What cargo reads for a package: whatever its directory and its links hold. *)
Reads(farm, id) ==
  LET package == farm.packages[id]
      through(e) == {<<<<e.name>> \o SubSeq(f.path, Len(e.to) + 1, Len(f.path)), f.content>> :
                       f \in At(farm, e.to) \cup Beneath(farm, e.to)}
  IN UNION {CASE e.is = "manifest" -> {<<<<e.name>>, package.generated>>}
              [] e.is = "file" -> {<<<<e.name>>, e.content>>}
              [] e.is = "link" -> through(e) : e \in package.entries}

(* The identity of an accepted resolver binds every byte that cargo reads for the packages
   of this repository and for what they need, and nothing of a namesake elsewhere
   (resolver_input.rs:28-34): each is the farm's manifest, a file that git tracks in a
   checkout, or the lock of a nested crate, and so is the source of every target. *)
IdentityBindsReads(farm, names) ==
  LET v == Validate(farm, names)
      links(id) == {e \in farm.packages[id].entries : e.is = "link"}
      ours == {id \in Candidates(farm, names) : \A e \in links(id) : e.to[1] = Repo}
      read == {id \in DOMAIN farm.packages : farm.packages[id].local /\ id \in Reached(farm, ours)}
      vouched(f) == f.is = "file" /\ (f.tracked \/ Last(f.path) = "lock")
  IN ~v.refused =>
       /\ ours # {} /\ v.selected = {farm.packages[id].name : id \in ours}
       /\ v.closure = {<<<<farm.packages[id].name, farm.packages[id].version>>, Reads(farm, id)>> : id \in read}
       /\ \A id \in read : \A e \in links(id) : \A f \in At(farm, e.to) \cup Beneath(farm, e.to) : vouched(f)
       /\ \A id \in read : \A t \in farm.packages[id].targets : \E f \in At(farm, t) : vouched(f)
=============================================================================
