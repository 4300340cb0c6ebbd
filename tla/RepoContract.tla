----------------------------- MODULE RepoContract -----------------------------
(***************************************************************************)
(* The repository contract: which packages it covers, which manifests it   *)
(* excludes and on what evidence, how packages are grouped, which files it *)
(* binds and what provenance says (src/crates/simdoc/src/repo_contract/).  *)
(*                                                                         *)
(* A directory is a sequence of names, and a file one that ends in its     *)
(* extension.  A checkout is a record of what git tracks, what is a file   *)
(* or a link, what cargo metadata says of each workspace, the packages by  *)
(* directory, and the declarations of the root manifest.  The ceilings on  *)
(* numbers and sizes are left out.                                         *)
(***************************************************************************)
EXTENDS Naturals, Sequences, FiniteSets, SequencesExt, TLC

Absent == <<>>      \* of a path that may be given
NotAString == <<"?">>

-----------------------------------------------------------------------------
(* The worktree (worktree.rs). *)

OwnedFile(repo, path) ==
  /\ path \in repo.tracked \cap repo.files
  /\ \A n \in 1..Len(path) : SubSeq(path, 1, n) \notin repo.links

Manifest(dir) == dir \o <<"Cargo", "toml">>
DirOf(file) == SubSeq(file, 1, Len(file) - 2)
IsManifest(path) == Len(path) >= 2 /\ path = Manifest(DirOf(path))
Manifests(repo) == {p \in repo.tracked \cap (repo.files \cup repo.links) : IsManifest(p)}
FilesUnder(repo, dir) == {p \in repo.tracked : IsPrefix(dir, p) /\ p # dir /\ OwnedFile(repo, p)}

-----------------------------------------------------------------------------
(* The workspaces (workspaces.rs): the root and each one that it declares. *)

IsPlain(path) == path # <<>> /\ \A i \in DOMAIN path : path[i] # ".."
Loads(repo, dir) == dir \in DOMAIN repo.cargo /\ repo.cargo[dir].root = dir
Names(repo, dir) == {repo.package[p].name : p \in ToSet(repo.cargo[dir].members)}
Covering(repo) == {<<>>} \cup ToSet(repo.declared)
Members(repo) == UNION {ToSet(repo.cargo[d].members) : d \in Covering(repo)}

WorkspacesOK(repo) ==
  /\ Loads(repo, <<>>)
  /\ \A i \in DOMAIN repo.declared :
       LET d == repo.declared[i] IN
       /\ IsPlain(d) /\ \A j \in 1..(i - 1) : repo.declared[j] # d
       /\ \A n \in 1..Len(d) : SubSeq(d, 1, n) \notin repo.links
       /\ OwnedFile(repo, Manifest(d)) /\ Loads(repo, d)
       /\ \A b \in {<<>>} \cup {repo.declared[j] : j \in 1..(i - 1)} :
            Names(repo, d) \cap Names(repo, b) = {}

(* workspace_of: the innermost declared one; the root otherwise. *)
WorkspaceOf(repo, dir) ==
  LET around == {d \in ToSet(repo.declared) : IsPrefix(d, dir)}
  IN IF around = {} THEN <<>> ELSE CHOOSE d \in around : \A e \in around : Len(e) <= Len(d)

MembersOwned(repo) ==
  \A p \in Members(repo) :
    OwnedFile(repo, Manifest(p)) /\ \A t \in repo.package[p].targets : OwnedFile(repo, t.src)

-----------------------------------------------------------------------------
(* A plain cargo command on a harness (exclusion_witness.rs). *)

CargoInvocation(command) ==
  LET flags == SubSeq(command, 3, Len(command))
      named == {i \in DOMAIN flags : flags[i].is = "--manifest-path"}
      plain == /\ Len(command) >= 3 /\ command[1].is = "cargo" /\ command[2].is \in {"test", "run"}
               /\ \A i \in DOMAIN flags : flags[i].is \in {"--manifest-path", "allowed"}
               /\ Cardinality(named) = 1
  IN IF plain THEN [verb |-> command[2].is, manifest |-> flags[CHOOSE i \in named : TRUE].path]
     ELSE [verb |-> "none", manifest |-> Absent]

Conventional(kind, name, table) ==
  CASE kind = "lib" -> {<<"src", "lib", "rs">>}
    [] kind = "bin" -> {<<"src", "bin", name, "rs">>, <<"src", "bin", name, "main", "rs">>}
                         \cup IF name = table.name THEN {<<"src", "main", "rs">>} ELSE {}
    [] kind = "test" -> {<<"tests", name, "rs">>, <<"tests", name, "main", "rs">>}
    [] kind = "example" -> {<<"examples", name, "rs">>, <<"examples", name, "main", "rs">>}

HasSource(target, kind, table, files) ==
  IF target.path # Absent THEN target.path \in files
  ELSE Conventional(kind, target.name, table) \cap files # {}

(* x.rs, or x/main.rs, in a directory n - 2 deep. *)
IsUnit(file, n) == Len(file) = n \/ (Len(file) = n + 1 /\ file[n] = "main")
Discovered(kind, table, files) ==
  CASE kind = "test" -> {f[2] : f \in {g \in files : g[1] = "tests" /\ IsUnit(g, 3)}}
    [] kind = "bin" ->
         {f[3] : f \in {g \in files : IsPrefix(<<"src", "bin">>, g) /\ IsUnit(g, 4)}}
           \cup IF <<"src", "main", "rs">> \in files THEN {table.name} ELSE {}

(* Mutant: any runnable binary will do. *)
MutHasCargoTarget(table, files, verb) ==
  LET kind == IF verb = "test" THEN "test" ELSE "bin"
      declared == table.targets[kind]
      names == {declared[i].name : i \in DOMAIN declared}
      automatic == IF table.auto[kind] THEN Discovered(kind, table, files) \ names ELSE {}
      runnable == automatic \cup
        {t.name : t \in {u \in ToSet(declared) : ~u.gated /\ HasSource(u, kind, table, files)}}
  IN table.package /\ Cardinality(names) = Len(declared) /\ runnable # {}

(* has_cargo_target. *)
HasCargoTarget(table, files, verb) ==
  LET kind == IF verb = "test" THEN "test" ELSE "bin"
      declared == table.targets[kind]
      names == {declared[i].name : i \in DOMAIN declared}
      automatic == IF table.auto[kind] THEN Discovered(kind, table, files) \ names ELSE {}
      runnable == automatic \cup
        {t.name : t \in {u \in ToSet(declared) : /\ ~u.gated /\ (verb = "run" \/ u.test)
                                                 /\ HasSource(u, kind, table, files)}}
  IN /\ table.package
     /\ table.lib.here => HasSource([name |-> table.name, path |-> table.lib.path], "lib", table, files)
     /\ verb = "test" => \A k \in {"bin", "test", "example"} : \A t \in ToSet(table.targets[k]) :
                           HasSource(t, k, table, files)
     /\ Cardinality(names) = Len(declared)
     /\ IF verb = "run" /\ table.default # "none" THEN table.default \in runnable
        ELSE runnable # {} /\ (verb = "run" => Cardinality(names \cup automatic) = 1)

-----------------------------------------------------------------------------
(* Exclusions (workspace_policy.rs). *)

ExclusionsOK(repo) ==
  \A i \in DOMAIN repo.exclusions :
    LET e == repo.exclusions[i] IN
    /\ IsPlain(e.path) /\ e.class \in {"test-fixture", "recipe-fixture", "focused-test-harness"}
    /\ e.reason /\ \A j \in 1..(i - 1) : repo.exclusions[j].path # e.path

(* The first exclusion around a manifest takes it. *)
ExcluderOf(repo, manifest) ==
  LET around == {i \in DOMAIN repo.exclusions : IsPrefix(repo.exclusions[i].path, manifest)}
  IN IF around = {} THEN 0 ELSE CHOOSE i \in around : \A j \in around : i <= j
Excluded(repo, i) == {m \in Manifests(repo) : ExcluderOf(repo, m) = i}
CoveredManifests(repo) == {Manifest(d) : d \in Members(repo) \cup Covering(repo)}

(* owner_package: the first member whose test, or recipe, the consumer is, those of the root
   before those of each declared workspace. *)
OwnersOf(repo, class, consumer) ==
  {p \in Members(repo) :
     IF class = "test-fixture"
     THEN \E t \in repo.package[p].targets : t.kind = "test" /\ t.test /\ t.src = consumer
     ELSE /\ class = "recipe-fixture" /\ IsPrefix(p, consumer)
          /\ SubSeq(consumer, Len(consumer) - 1, Len(consumer)) = <<"recipe", "toml">>
          /\ \E i \in (Len(p) + 1)..Len(DirOf(consumer)) : consumer[i] = "recipes"}
OwnerPackage(repo, class, consumer) ==
  LET of(n) == repo.cargo[IF n = 0 THEN <<>> ELSE repo.declared[n]].members
      owners(n) == {i \in DOMAIN of(n) : of(n)[i] \in OwnersOf(repo, class, consumer)}
      first(numbers) == CHOOSE n \in numbers : \A m \in numbers : n <= m
      workspace == first({n \in 0..Len(repo.declared) : owners(n) # {}})
  IN of(workspace)[first(owners(workspace))]

AcceptedNames(fixture, owner, consumer) ==
  {SubSeq(fixture, Len(b) + 1, Len(fixture)) :
     b \in {c \in {<<>>, owner, DirOf(consumer)} : IsPrefix(c, fixture) /\ c # fixture}}

IsWitnessed(repo, i) ==
  LET e == repo.exclusions[i]
      run == CargoInvocation(e.command)
      dir == DirOf(run.manifest)
      relative == {SubSeq(f, Len(dir) + 1, Len(f)) : f \in FilesUnder(repo, dir)}
  IN IF e.class = "focused-test-harness"
     THEN /\ e.command \in repo.commands /\ run.verb # "none" /\ run.manifest \in Excluded(repo, i)
          /\ HasCargoTarget(repo.harness[dir], relative, run.verb)
     ELSE /\ OwnedFile(repo, e.consumer) /\ OwnersOf(repo, e.class, e.consumer) # {}
          /\ repo.says[e.consumer]
               \cap AcceptedNames(e.path, OwnerPackage(repo, e.class, e.consumer), e.consumer) # {}

IsProved(repo, i) ==
  LET e == repo.exclusions[i]
      needed == CASE e.class = "test-fixture" -> {"tests"} [] e.class = "recipe-fixture" -> {"recipes"}
                  [] OTHER -> {}
  IN /\ Excluded(repo, i) # {} /\ \A m \in Excluded(repo, i) : OwnedFile(repo, m)
     /\ needed \subseteq ToSet(e.path)
     /\ \A m \in Excluded(repo, i) : DirOf(m) \in DOMAIN repo.package =>
          /\ repo.package[DirOf(m)].unpublished
          /\ e.class = "focused-test-harness" => repo.package[DirOf(m)].paths \cap Members(repo) # {}

(* Mutant: what covered packages depend on is not looked at. *)
MutContractPackages(repo) ==
  /\ WorkspacesOK(repo) /\ ExclusionsOK(repo) /\ MembersOwned(repo)
  /\ \A d \in Covering(repo) : OwnedFile(repo, Manifest(d))
  /\ \A m \in Manifests(repo) : m \in CoveredManifests(repo) <=> ExcluderOf(repo, m) = 0
  /\ \A i \in DOMAIN repo.exclusions : IsProved(repo, i) /\ IsWitnessed(repo, i)

(* contract_packages: whether the contract is made. *)
ContractPackages(repo) ==
  /\ WorkspacesOK(repo) /\ ExclusionsOK(repo) /\ MembersOwned(repo)
  /\ \A d \in Covering(repo) : OwnedFile(repo, Manifest(d))
  /\ \A m \in Manifests(repo) : m \in CoveredManifests(repo) <=> ExcluderOf(repo, m) = 0
  /\ \A i \in DOMAIN repo.exclusions : IsProved(repo, i) /\ IsWitnessed(repo, i)
  /\ \A p \in Members(repo) : \A q \in repo.package[p].paths :
       \A i \in DOMAIN repo.exclusions : ~IsPrefix(repo.exclusions[i].path, q)

-----------------------------------------------------------------------------
(* The cut (repo_contract_cut.rs), a line at a time.  A line may head a section, or give
   a key and perhaps the items of an array, which a later line closes. *)

AfterCutLine(state, line) ==
  LET store(s, key, items) ==
        IF key = "group_order" THEN [s EXCEPT !.order = items, !.open = "none", !.items = <<>>]
        ELSE [s EXCEPT !.groups = (key :> items) @@ s.groups, !.open = "none", !.items = <<>>]
      kept == line.key = "group_order" \/ state.section = "groups"
  IN CASE state.open # "none" ->
            IF line.closes THEN store(state, state.open, state.items \o line.items)
            ELSE [state EXCEPT !.items = @ \o line.items]
       [] state.open = "none" /\ line.is = "section" -> [state EXCEPT !.section = line.key]
       [] state.open = "none" /\ line.is = "array" /\ kept ->
            IF line.closes THEN store(state, line.key, line.items)
            ELSE [state EXCEPT !.open = line.key, !.items = line.items]
       [] OTHER -> state

ParsedCut(lines) ==
  FoldLeft(AfterCutLine, [section |-> "", open |-> "none", items |-> <<>>, order |-> <<>>,
                          groups |-> [g \in {} |-> <<>>]], lines)

ListedIn(cut) == UNION {{<<g, i>> : i \in DOMAIN cut.groups[g]} : g \in DOMAIN cut.groups}
PackageIn(cut, at) == cut.groups[at[1]][at[2]]
CutOK(cut) ==
  /\ cut.open = "none" /\ cut.order # <<>> /\ DOMAIN cut.groups = ToSet(cut.order)
  /\ \A a, b \in ListedIn(cut) : PackageIn(cut, a) = PackageIn(cut, b) => a = b

(* parse_split_cut, validate_cut and the lookups of workspace_packages. *)
CutAccepts(cut, names) == CutOK(cut) /\ names = {PackageIn(cut, a) : a \in ListedIn(cut)}

-----------------------------------------------------------------------------
(* Provenance (provenance.rs). *)

NoProvenance == [hash |-> 0, commit |-> 0, time |-> 0]
Provenance(preserved, hash, head) ==
  LET same == preserved.hash = hash
      commit == IF same /\ preserved.commit # 0 THEN preserved.commit ELSE head
  IN [hash |-> hash, commit |-> commit,
      time |-> IF same /\ preserved.time # 0 THEN preserved.time ELSE commit]

-----------------------------------------------------------------------------
(* The files whose contents the provenance binds (repo_contract_scan.rs). *)

IsContractInput(path) ==
  LET ends == SubSeq(path, Len(path) - 1, Len(path))
  IN /\ \A i \in 1..(Len(path) - 2) : path[i] \notin {".git", ".sim", "target", ".meta-workspace", "sim-tooling"}
     /\ \/ path \in {<<"repo-contract-cut", "toml">>, <<"features", "toml">>, <<"docs", "generated", "citizens", "md">>}
        \/ ends \in {<<"Cargo", "toml">>, <<"book", "toml">>, <<"recipe", "toml">>}
        \/ ends[2] = "rs" /\ path[1] \in {"src", "crates"}
        \/ Len(path) = 4 /\ SubSeq(path, 1, 2) = <<".github", "workflows">> /\ ends[2] \in {"yml", "yaml"}
        \/ path[1] = "tests" /\ ends[2] = "rs" /\ (Len(path) = 3 \/ (Len(path) = 4 /\ path[3] = "main"))

(* Mutant: only where sources usually are. *)
MutInputFiles(repo) == {f \in FilesUnder(repo, <<>>) : IsContractInput(f)}

(* input_files: the usual places, and wherever a target says its source is. *)
InputFiles(repo) ==
  LET targets == UNION {{t.src : t \in repo.package[p].targets} : p \in Members(repo)}
  IN {f \in FilesUnder(repo, <<>>) : IsContractInput(f) \/ f \in targets}

-----------------------------------------------------------------------------
(* What a contract promises. *)

Reaches(repo) ==
  LET next(ps) == ps \cup UNION {repo.package[p].paths : p \in ps \cap DOMAIN repo.package}
      upTo[n \in 0..Cardinality(DOMAIN repo.package)] == IF n = 0 THEN Members(repo) ELSE next(upTo[n - 1])
  IN upTo[Cardinality(DOMAIN repo.package)]

(* Every package that the worktree owns is either a member of one workspace, the innermost
   around it, or excluded; what is excluded is not published, no covered package needs it,
   even through others, and something that validation runs uses it
   (workspace_policy.rs:6-28). *)
ContractIsTotal(repo) ==
  ContractPackages(repo) =>
    \A p \in {q \in DOMAIN repo.package : OwnedFile(repo, Manifest(q))} :
      LET homes == {d \in Covering(repo) : p \in ToSet(repo.cargo[d].members)}
          i == ExcluderOf(repo, Manifest(p))
      IN IF i = 0 THEN homes = {WorkspaceOf(repo, p)}
         ELSE /\ homes = {} /\ repo.package[p].unpublished /\ p \notin Reaches(repo)
              /\ LET e == repo.exclusions[i] IN
                 IF e.class = "focused-test-harness" THEN e.command \in repo.commands
                 ELSE \E q \in Members(repo) : \E s \in repo.says[e.consumer] :
                        e.path \in {b \o s : b \in {<<>>, q, DirOf(e.consumer)}}

(* The provenance binds what the contract was decided from: every manifest that it covers or
   excludes, the sources of every target and what consumes a fixture; and it binds no file that
   the generators write, so that a second run finds the inputs of the first
   (repo_contract_scan.rs:186-209). *)
InputsBindReads(repo) ==
  ContractPackages(repo) =>
    /\ Manifests(repo) \subseteq InputFiles(repo)
    /\ \A p \in Members(repo) : \A t \in repo.package[p].targets : t.src \in InputFiles(repo)
    /\ \A e \in ToSet(repo.exclusions) : e.consumer # Absent => e.consumer \in InputFiles(repo)
    /\ \A f \in InputFiles(repo) : ~IsPrefix(<<"docs", "generated">>, f) \/ f[3] = "citizens"

(* A plain cargo command builds the library first; `test` then builds every binary, test
   and example and runs the tests, `run` the default binary or else the only one. *)
CargoTargets(table, kind, files) ==
  LET declared == ToSet(table.targets[kind])
      found == IF table.auto[kind]
               THEN Discovered(kind, table, files) \ {t.name : t \in declared} ELSE {}
  IN {[name |-> t.name, source |-> HasSource(t, kind, table, files),
       runs |-> ~t.gated /\ (kind = "test" => t.test)] : t \in declared}
       \cup {[name |-> n, source |-> TRUE, runs |-> TRUE] : n \in found}

CargoRuns(table, files, verb) ==
  LET Targets(kind) == CargoTargets(table, kind, files)
      unique(kind) == \A i, j \in DOMAIN table.targets[kind] :
                        table.targets[kind][i].name = table.targets[kind][j].name => i = j
      library == table.lib.here =>
                   (IF table.lib.path = Absent THEN <<"src", "lib", "rs">> ELSE table.lib.path) \in files
      chosen == IF table.default # "none" THEN {t \in Targets("bin") : t.name = table.default}
                ELSE Targets("bin")
  IN /\ table.package /\ library
     /\ IF verb = "test"
        THEN /\ unique("test") /\ \A t \in Targets("bin") \cup Targets("test") : t.source
             /\ \A t \in ToSet(table.targets["example"]) : HasSource(t, "example", table, files)
             /\ \E t \in Targets("test") : t.runs
        ELSE unique("bin") /\ Cardinality(chosen) = 1 /\ \A t \in chosen : t.runs /\ t.source

HarnessRuns(table, files, verb) == HasCargoTarget(table, files, verb) <=> CargoRuns(table, files, verb)

(* An accepted cut puts every package into one group, and orders every group. *)
CutIsPartition(lines, names) ==
  LET cut == ParsedCut(lines) IN
  CutAccepts(cut, names) =>
    /\ \A n \in names : Cardinality({g \in DOMAIN cut.groups : n \in ToSet(cut.groups[g])}) = 1
    /\ \A g \in DOMAIN cut.groups : ToSet(cut.groups[g]) \subseteq names /\ g \in ToSet(cut.order)

(* A run over the same inputs, after the outputs of the last were committed, records the
   same again; one over others names the commit it starts from (provenance.rs:83-86). *)
ProvenanceIsStable(preserved, hash, head, later) ==
  LET first == Provenance(preserved, hash, head)
  IN /\ Provenance(first, hash, later) = first
     /\ \A other \in {1, 2} \ {hash} : Provenance(first, other, later).commit = later
=============================================================================
