------------------------------- MODULE AtelierGuard -------------------------------
(* The guideline firewall: `atelier-guard` (src/src/atelier/guard.rs, guard_scan/files.rs and
   guard_scan/rules.rs).

   A repository is [name, kind, code, publish, meta, here, git, files, docs, remotes]: git is
   "dir" where git answers, "broken" where it fails and "file" or "none" where .git is no
   directory, as in a linked worktree; meta are its declared paths that lie in .meta-workspace;
   docs is the set of dirty files under docs/, and docsHere whether that is a directory; a remote is
   [push, github, nest].  A file is [path, ext, tracked, is, utf8, lines, size, kernel] with the
   segments of its path, kernel being whether it hints at concrete behaviour; a line is [is,
   ascii, says, dep]: "tick" and "tilde" are fences, "indented", "comment" or "code" is what it looks like,
   says whether it has a word of a roadmap, dep the path of a dependency. *)
EXTENDS Naturals, Sequences, FiniteSets, SequencesExt, Functions

Severity == [r \in {"ascii-source-markdown", "present-tense-public-docs", "generated-docs-clean",
                    "code-free-control-repos", "no-local-public-path-deps", "meta-workspace-not-source",
                    "remote-policy", "rust-file-size-policy", "kernel-boundary-warning"} |->
               IF r \in {"rust-file-size-policy", "kernel-boundary-warning"} THEN "warning" ELSE "error"]

(* capability_for and the catalog's gated_capability *)
Capability(rule, repo) ==
  CASE rule = "remote-policy" -> <<"PlanPin">> [] rule = "generated-docs-clean" -> <<"RegenDocs", repo.name>>
    [] rule = "kernel-boundary-warning" -> <<"EditRepo", "sim-kernel">> [] OTHER -> <<"EditRepo", repo.name>>

Finding(rule, repo, path, severity) ==
  [rule |-> rule, repo |-> repo.name, path |-> path, severity |-> severity, capability |-> Capability(rule, repo)]
Found(rule, repo, paths) == {Finding(rule, repo, p, Severity[rule]) : p \in paths}

-----------------------------------------------------------------------------
(* Files (guard_scan/files.rs).  A segment that is hidden starts with a dot. *)

Hidden == {".git", ".sim", ".meta-workspace", ".github"}
NameOf(f) == f.path[Len(f.path)]

(* should_scan_path and should_skip_dir: git is asked for a target directory only at the root, a walk
   leaves every one out. *)
ShouldScan(path) == path[1] # "target" /\ ToSet(path) \cap Hidden = {}
Walked(path) == ToSet(path) \cap (Hidden \cup {"target"}) = {}

(* listed_files and collect_files: what git has that is still a file, or all there is. *)
Listed(repo) ==
  IF ~repo.here THEN {}
  ELSE IF repo.git = "dir" THEN {f \in repo.files : f.tracked /\ ShouldScan(f.path) /\ f.is = "file"}
  ELSE {f \in repo.files : Walked(f.path)}

IsText(f) == f.ext \in {"md", "rs", "toml"}
IsRust(f) == f.ext = "rs"
(* is_public_doc_or_comment_file and is_generated_or_provenance *)
IsPublic(f) == IsText(f) /\ NameOf(f) # "provenance" /\ ~IsPrefix(<<"docs", "generated">>, f.path) /\ ~IsPrefix(<<"docs", "index">>, f.path)

(* git_status_paths and git_remotes: silent where git is not to be asked. *)
GitKnows(repo, answer) == IF repo.git = "dir" THEN answer ELSE {}

-----------------------------------------------------------------------------
(* Rules (guard_scan/rules.rs). *)

(* Mutant: any fence closes the one that is open. *)
MutFence(lines) ==
  LET fence[i \in 0..Len(lines)] == IF i = 0 THEN "none" ELSE IF lines[i].is \notin {"tick", "tilde"} THEN fence[i - 1]
                                    ELSE IF fence[i - 1] = "none" THEN lines[i].is ELSE "none"
  IN fence

(* The fence that is open after each line of a Markdown file. *)
Fence(lines) ==
  LET fence[i \in 0..Len(lines)] ==
        IF i = 0 THEN "none"
        ELSE IF lines[i].is \in {"tick", "tilde"} /\ fence[i - 1] = "none" THEN lines[i].is
        ELSE IF lines[i].is = fence[i - 1] THEN "none" ELSE fence[i - 1]
  IN fence

(* rule_present_tense: the lines that are looked at. *)
Spoken(f) ==
  {i \in DOMAIN f.lines :
     /\ f.ext = "md" => f.lines[i].is \notin {"tick", "tilde", "indented"} /\ Fence(f.lines)[i] = "none"
     /\ f.ext = "rs" => f.lines[i].is = "comment"}

PresentTense(repo, listed) ==
  IF repo.kind \notin {"code", "frontpage"} THEN {}
  ELSE Found("present-tense-public-docs", repo,
             {f.path : f \in {f \in listed : IsPublic(f) /\ \E i \in Spoken(f) : f.lines[i].says}})

Ascii(repo, listed) ==
  Found("ascii-source-markdown", repo, {f.path : f \in {f \in listed : IsText(f) /\ \E i \in DOMAIN f.lines : ~f.lines[i].ascii}})

GeneratedDocs(repo) ==
  IF repo.kind # "code" \/ ~repo.docsHere THEN {} ELSE Found("generated-docs-clean", repo, GitKnows(repo, repo.docs))

(* rule_code_free *)
CodeFree(repo, listed) ==
  LET roots == {p \in {<<"Cargo.toml">>, <<"src">>, <<"crates">>} : repo.here /\ \E f \in repo.files : IsPrefix(p, f.path)}
  IN IF repo.code THEN {}
     ELSE Found("code-free-control-repos", repo, roots \cup {f.path : f \in {f \in listed : IsRust(f) /\ f.path[1] # "docs"}})

(* rule_local_path_deps and dependency_path_value: only an absolute path is one. *)
LocalPathDeps(repo, listed) ==
  IF repo.kind # "code" THEN {}
  ELSE Found("no-local-public-path-deps", repo,
             {f.path : f \in {f \in listed : NameOf(f) = "Cargo.toml" /\ \E i \in DOMAIN f.lines : f.lines[i].dep = "absolute"}})

MetaWorkspace(repo) == Found("meta-workspace-not-source", repo, repo.meta)

(* rule_remote_policy and is_public_mirror_push_remote *)
RemotePolicy(repo) ==
  LET bad == {r \in GitKnows(repo, repo.remotes) :
                \/ repo.kind = "private" /\ r.github
                \/ repo.kind \in {"code", "frontpage"} /\ r.push /\ r.nest /\ ~r.github}
  IN Found("remote-policy", repo, {p \in {<<"repos.toml">>} : repo.publish} \cup {<<".git", "config">> : r \in bad})

(* rule_file_size *)
FileSize(repo, listed) ==
  LET limit(f) == IF NameOf(f) \in {"lib", "main", "mod"} THEN <<150, 250>> ELSE <<500, 700>>
      over(k) == {f \in listed : IsRust(f) /\ f.size > limit(f)[k]}
  IN IF ~repo.code THEN {}
     ELSE {Finding("rust-file-size-policy", repo, f.path, IF f \in over(2) THEN "error" ELSE "warning") : f \in over(1)}

KernelBoundary(repo, listed) ==
  IF repo.name # "sim-kernel" THEN {}
  ELSE Found("kernel-boundary-warning", repo, {f.path : f \in {f \in listed : IsRust(f) /\ f.kernel}})

(* Findings of a repository, unless a text that a rule must read is not one (scan_repo). *)
ScanRepo(repo) ==
  LET listed == Listed(repo)
  IN [ok |-> \A f \in listed : IsText(f) => f.utf8 /\ f.is = "file",
      findings |-> Ascii(repo, listed) \cup PresentTense(repo, listed) \cup GeneratedDocs(repo) \cup CodeFree(repo, listed)
                     \cup LocalPathDeps(repo, listed) \cup MetaWorkspace(repo) \cup RemotePolicy(repo) \cup FileSize(repo, listed)
                     \cup KernelBoundary(repo, listed)]

(* atelier_guard and run with --check: a rule's filter is applied to what was found. *)
Findings(repos, rules) == {g \in UNION {ScanRepo(r).findings : r \in repos} : rules = {} \/ g.rule \in rules}
Guard(repos, rules) ==
  IF ~(rules \subseteq DOMAIN Severity) \/ \E r \in repos : ~ScanRepo(r).ok THEN [ok |-> FALSE, passed |-> FALSE, findings |-> {}]
  ELSE [ok |-> TRUE, findings |-> Findings(repos, rules),
        passed |-> \A g \in Findings(repos, rules) : g.severity # "error"]

-----------------------------------------------------------------------------
(* A line is in a block when an odd number of fences up to it open or close one: the first opens,
   the next of its kind closes, and the first after that opens again. *)
Fences(lines) == {k \in DOMAIN lines : lines[k].is \in {"tick", "tilde"}}
Opens(lines, k, s) == s \in Fences(lines) /\ s > k /\ \A t \in Fences(lines) : t > k => t >= s
Closes(lines, k, s) ==
  /\ s \in Fences(lines) /\ s > k /\ lines[s].is = lines[k].is
  /\ \A t \in Fences(lines) : t > k /\ lines[t].is = lines[k].is => t >= s
TakesTurns(lines, turn, k) ==
  IF k = 1 THEN Opens(lines, 0, turn[1])
  ELSE IF k % 2 = 0 THEN Closes(lines, turn[k - 1], turn[k]) ELSE Opens(lines, turn[k - 1], turn[k])
InBlock(lines, i) ==
  \E n \in 0..Cardinality(Fences(lines)) : \E turn \in [1..n -> Fences(lines)] :
    /\ n % 2 = 1 /\ turn[n] <= i
    /\ \A k \in 1..n : TakesTurns(lines, turn, k)
    /\ ~\E s \in Fences(lines) : Closes(lines, turn[n], s) /\ s <= i

Texts(r) == {f \in r.files : f.tracked /\ ShouldScan(f.path) /\ f.is = "file" /\ IsText(f)}
IsQuiet(f) ==
  \A i \in DOMAIN f.lines :
    f.lines[i].says => \/ f.ext = "rs" /\ f.lines[i].is # "comment"
                       \/ f.ext = "md" /\ (f.lines[i].is \in {"tick", "tilde", "indented"} \/ InBlock(f.lines, i))

IsClean(r) ==
  /\ \A f \in Texts(r) : \A i \in DOMAIN f.lines : f.lines[i].ascii
  /\ r.kind \in {"code", "frontpage"} => \A f \in Texts(r) : IsPublic(f) => IsQuiet(f)
  /\ r.kind = "code" =>
       /\ r.docsHere => r.docs = {}
       /\ \A f \in Texts(r) : NameOf(f) = "Cargo.toml" => \A i \in DOMAIN f.lines : f.lines[i].dep # "absolute"
  /\ ~r.code => \A f \in Texts(r) : f.path[1] # "src" /\ (IsRust(f) => f.path[1] = "docs")
  /\ r.kind = "private" => \A m \in r.remotes : ~m.github
  /\ r.code => \A f \in Texts(r) : IsRust(f) => f.size <= 700 /\ (NameOf(f) = "mod" => f.size <= 250)

(* A check that passes, in repositories where git answers, leaves none of what the errors are about:
   no text that is not ASCII; no word of a roadmap in a public comment, or in Markdown outside blocks;
   no dirty docs; no Rust where there is to be none; no dependency on an absolute path; no private
   repository with a GitHub remote; no file over its hard limit.  To ask for one rule shows what
   asking for all shows of it, and every finding gates a capability of its own repository or one that
   is of none (guard.rs:128-154, rules.rs:9-25). *)
PassMeansClean(repos, rules) ==
  LET all == Guard(repos, {})
      one == Guard(repos, rules)
  IN /\ one.ok => all.ok /\ one.findings = {g \in all.findings : rules = {} \/ g.rule \in rules}
     /\ \A g \in all.findings : \A r \in repos :
          r.name # g.repo => g.capability \notin {<<"EditRepo", r.name>>, <<"RegenDocs", r.name>>}
     /\ all.passed => \A r \in {r \in repos : r.here /\ r.git = "dir"} : IsClean(r)
=============================================================================
