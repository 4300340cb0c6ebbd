--------------------------- MODULE ValidationMatrix ---------------------------
(* The validation matrix of a repository: the commands that check every package of its contract
   in the workspace that owns it, every group of its cut and what is slow
   (src/crates/simdoc/src/validation_matrix.rs).  A command is [manifest, package, whole,
   features]; the matrix, and the file it is kept in, is a set of rows.  How rows are named and
   laid out is left out. *)
EXTENDS RepoContract

MatrixRow(scope, subject, command) == [scope |-> scope, subject |-> subject, command |-> command]
Check(workspace) == [manifest |-> workspace, package |-> "", whole |-> FALSE, features |-> "default"]

(* Mutant: every package is checked from the root. *)
MutCheckCommand(repo, dir) == Check(<<>>)

(* check_command, from the workspace that owns a package. *)
CheckCommand(repo, dir) == Check(WorkspaceOf(repo, dir))

WorkspaceRows(repo) == {MatrixRow("workspace", d, [Check(d) EXCEPT !.whole = TRUE]) : d \in Covering(repo)}

PackageFeatureRows(repo, features) ==
  {MatrixRow("package-feature", p, [CheckCommand(repo, p) EXCEPT !.package = repo.package[p].name, !.features = f]) :
     p \in {q \in Members(repo) : features[q] # {}}, f \in {"no-default", "all"}}

Representative(group, packages) ==
  IF group = "sdk" /\ "sim-server" \in ToSet(packages) THEN "sim-server" ELSE packages[1]

(* load_or_derive_split_cut: one group of everything when no cut is declared. *)
SplitCut(repo, declared) ==
  LET names == {repo.package[p].name : p \in Members(repo)}
  IN IF declared.order # <<>> THEN declared
     ELSE [declared EXCEPT !.order = <<"workspace">>, !.groups = [g \in {"workspace"} |-> SetToSeq(names)]]

GroupsOK(repo, cut) ==
  /\ CutOK(cut)
  /\ \A g \in ToSet(cut.order) : /\ cut.groups[g] # <<>>
                                 /\ \E p \in Members(repo) : repo.package[p].name = Representative(g, cut.groups[g])

GroupRows(repo, cut) ==
  {MatrixRow("split-group", <<g>>,
       LET name == Representative(g, cut.groups[g])
       IN [CheckCommand(repo, CHOOSE p \in Members(repo) : repo.package[p].name = name) EXCEPT !.package = name]) :
     g \in ToSet(cut.order)}

SlowRows(repo) ==
  {MatrixRow("slow", <<"benches">>, [Check(<<>>) EXCEPT !.features = "all"])}
    \cup {MatrixRow("slow", d, Check(d)) : d \in {d \in {<<"fuzz">>} : OwnedFile(repo, Manifest(d))}}

MatrixRows(repo, features, cut) ==
  WorkspaceRows(repo) \cup PackageFeatureRows(repo, features) \cup GroupRows(repo, cut) \cup SlowRows(repo)

(* validation_matrix_for_repo and write_or_check. *)
ValidationMatrix(repo, features, declared, file, check) ==
  LET cut == SplitCut(repo, declared)
      made == ContractPackages(repo) /\ GroupsOK(repo, cut)
      rows == MatrixRows(repo, features, cut)
  IN CASE ~made -> [ok |-> FALSE, file |-> file]
       [] made /\ check -> [ok |-> file = rows, file |-> file]
       [] OTHER -> [ok |-> TRUE, file |-> rows]

(* What Cargo compiles for a command: the package it names, or everything, of the workspace that it
   is run in. *)
Built(repo, command) ==
  {p \in ToSet(repo.cargo[command.manifest].members) : command.whole \/ repo.package[p].name = command.package}

Compiled(repo, rows, f) ==
  UNION {Built(repo, r.command) : r \in {r \in rows : r.scope # "slow" /\ r.command.features = f}}

Gained(features) == [p \in DOMAIN features |-> {"new"}]

RowsCompile(repo, features, declared, rows) ==
  LET cut == SplitCut(repo, declared)
  IN /\ \A r \in rows : r.command.package # "" => Cardinality(Built(repo, r.command)) = 1
     /\ Compiled(repo, rows, "default") = Members(repo)
     /\ \A f \in {"no-default", "all"} : Compiled(repo, rows, f) = {p \in Members(repo) : features[p] # {}}
     /\ \A g \in ToSet(cut.order) : \E r \in rows :
          r.subject = <<g>> /\ \E p \in Built(repo, r.command) : repo.package[p].name \in ToSet(cut.groups[g])
     /\ ValidationMatrix(repo, features, declared, rows, TRUE).ok
     /\ (\E p \in Members(repo) : features[p] = {}) => ~ValidationMatrix(repo, Gained(features), declared, rows, TRUE).ok

(* Cargo finds the package that a command names in the workspace that the command is run in, and
   these commands compile every member by default, every package that has features without
   and with all of them, and a package of every group (validation_matrix.rs:6-10); a check right
   after accepts the matrix and one of a package that gained its first feature does not. *)
MatrixCompiles(repo, features, declared) ==
  LET made == ValidationMatrix(repo, features, declared, {}, FALSE)
  IN made.ok => RowsCompile(repo, features, declared, made.file)
=============================================================================
