# Verification of sim-tooling

TLA+ modules that model parts of `sim-tooling` (the `xtask` tool in `src/src`, the
`simdoc` documentation engine in `src/crates/simdoc` and the check packs in
`src/crates/sim-check-pack*`), the TLC runs that check them on small instances, and
proofs, checked by TLAPS, of what matters most. Paths are relative to the repository's
parent directory, as in `PROJECT.json`; `GN` stands for
`src/src/generated_namespace.rs`. Every definition that models code is listed with its
source lines under `map` in `PROJECT.json`, every hazard under `hazards`.

## 1. Inventory

The tool is a set of commands, each a process of its own. Two things make it hard.
Around a command: commands share files without locks, are killed between two calls, run
children that do not end, and keep state for the next run. Within a command: gates,
merges and verdicts decide on the word of many small readers, and one that looks past a
case lets everything pass.

### Components with state

| component | state it keeps | operations | hard behaviour | what makes it correct |
|---|---|---|---|---|
| Managed vault namespace: `generated_namespace.rs`, `generated_namespace/filesystem.rs`, `generated_artifact.rs`, `index_vault.rs`, `index_vault_manifest.rs` | three sibling directories: the target a user reads, `.<leaf>.sim-stage`, `.<leaf>.sim-recovery`; per run: the preflight snapshot and how far it got | `index export` in plan, verify, check and write mode | racing exporters, a user who edits notes meanwhile, a kill or failed call anywhere, a rerun over leftovers | a whole bundle, once in place, is neither lost nor mixed with another; edits are not destroyed; after an inspection of leftovers a rerun succeeds |
| Migration of a v1 namespace: `GN`, `migrate_v1_inner` | the same three directories | `index export --migrate-profile` | as above, and the undoing of a failed install, and the removal of an unusable stage | the v1 notes or the whole new bundle are there, at every failpoint |
| Bounded process: `build_inputs/bounded_process.rs` and its copy in `simdoc` | a child, two pipes, two reader threads, a channel, per-stream buffers | `run_bounded` | output beyond a limit, either stream first, processes that inherit the pipes | what is captured is complete; a child over its limit ends; the parent returns |
| Benchmark executor: `bench/exec.rs` | a child, two pipes, two threads, a deadline | `execute` | the deadline races the exit; full pipes; grandchildren | the retained prefix is honest; the deadline ends the child; `execute` returns |
| Benchmark runner and report: `bench/run.rs`, `bench/cli.rs`, `bench/report.rs` | ledger of attempts, schedule, selected iterations, one report | `bench run` | failures and timeouts in the middle of a schedule, 64-bit limits, a report refused at the end | the ledger is complete, the verdict rests on what was measured |
| Atomic file replacement: `FsReportDir` in `bench/report.rs`, `atomic_write` in `repo_contract_cli.rs` | the file, one temporary file per process id | `replace`, `read_bounded`, `atomic_write` | crashes, reused process ids, failing calls | a reader finds a whole file; success means installed |
| Build inputs and sealed resources: `build_inputs.rs`, `build_inputs/*`, `sealed_resources.rs` | a destination tree and its staging sibling, a view built in place, receipts and records | select, materialize, derive, finalize; capture, materialize | two runs and users race for a destination; owners edit between two looks at a file; entry and byte budgets | nothing that was there is replaced; success means whole tree and record; a sealed tree is the pinned selection; budgets hold |
| Documentation lanes: `simdoc.rs`, `simdoc_rustdoc.rs`, `cardspine*.rs`, `crate_catalog*.rs`, `repo_contract.rs` in `simdoc` | generated lanes, a rustdoc fingerprint, `.sim/cardspine-state.json` | refresh, `--check` | reuse of lanes on the word of a state an earlier run wrote; crashes between two writes; torn state; edits during a run | an undisturbed refresh leaves every lane current; a check that passes saw current lanes |
| Private directories: `cargo_home.rs` (two copies) | directories named after process ids, the real cargo cache | sweep, make, fill | ids that are used again; sweeps of what another run uses; a cache that changes | a live run keeps its directories; a home holds what the lock names |
| Engine pin and route: `simdoc_pin.rs`, `simdoc_route.rs`, `toolchain_identity.rs`, `build.rs` and `tools.rs` of `simdoc` | the manifest's pin, built engines, installed toolchains | `simdoc-pin`, `--check`, launch | a developer who edits and installs between two looks | the engine that runs is what is committed; a pin is coherent; an untouched checkout is accepted |

### Components that compute

Each is a function of what it reads; its hazard is the input nobody wrote a test for.

| component | what makes it correct |
|---|---|
| Package graph of build inputs (`build_inputs/graph.rs`, `registry.rs`, `manifest.rs`, `selected_view/checks.rs`), resolver input (`resolver_input.rs`) | what is copied is what a build needs; the identity binds what cargo reads |
| Index merge, overlap, fragment, rules, doctor (`index_merge.rs`, `index_overlap.rs`, `index_fragment.rs`, `index_author.rs`, `index_rules.rs`) | a merge keeps references and does not depend on the order; a pass means that a person decided; what an overlay removes is found again |
| Index query and routes (`index_find.rs`, `index_route.rs`) | asking for more finds less; the best routes come first |
| Repository contract, its evidence and validation matrix (`repo_contract/`, `repo_contract_cut.rs`, `repo_contract_scan.rs`, `validation_matrix.rs`) | every package covered or excluded for a reason that is used; a fixture is credited only if some run uses it; the matrix compiles everything |
| Recipe evidence and its YAML reader (`recipe_evidence.rs`, `workflow_yaml.rs`) | a tree means what the columns say; a recorded consumer runs |
| Publication guard and owned reads (`publication.rs`, `owned.rs`, `worktree.rs`) | no place of the machine is published; a foreign read fails the run |
| License, size and platform gates (`license_gate.rs`, `file_size_gate.rs`, `platform_inventory.rs`) | a pass has looked at everything |
| Atelier index, units, radar and guideline firewall (`atelier/`) | texts are cut without loss; silence about a checkout means that it is whole; a pass means clean |
| Benchmark comparison, specification, environment and acceptance policy (`bench/compare.rs`, `bench.rs`, `bench/env.rs`, `jvm_acceptance.rs`) | a pass is earned, on comparable machines, under no weaker policy |
| Check packs (`crates/sim-check-pack*`) | evidence rests on the corpus's own witnesses; the lock is exact |

### How they interact

`bench run` calls the executor for every attempt, hands the values to the comparison and
the finished report to the atomic replacement. `index export` chooses between a commit
and a migration of the same namespace. The build-input pipeline and the engine routes
call the bounded process and read what it captured. A documentation run is launched by
the engine route, in private directories, on a resolver input; its lanes are the catalog,
the contract with its matrix and recipe evidence, and the index fragment, every text of
which goes through the publication guard. Fragments are merged, and the merged document
is asked by queries and the overlap gate. Nothing is shared in memory between commands;
all interaction goes through files.

## 2. Plan

Done, in this order: vault and migration; processes, executor and benchmark; atomic
files; the build-input pipeline and sealed resources; documentation lanes; private
directories and the engine pin; then the components that compute, each as a module of
operators with laws. What is left:

* the scanners of Rust sources and `index_fixpoint.rs`, `index_composition.rs`, if a
  statement is found that a unit test does not make better;
* `recipe_gate.rs`, `regeneration.rs` and `package_projection.rs` of the contract;
* proofs: that two migrators implement `AtomicVault`, as the run finds (for one it is
  proved), and the laws of modules of operators that are folds or recursions over syntax
  (section 6 says which are proved);
* composition of exporters with migrators over one namespace.

## 3. The modules and the code

In the modules with state an action is one call of the code to its environment (a
file-system call, a write to a pipe, an event on a channel, an invocation of a program)
with everything the code does before its next one. Guards are the conditions and early
returns; an error path is an alternative of the same action. History variables, named as
such, record what a property needs to remember and guard nothing but their own bound.
Names beginning with `Mut` are mutated forms of the definition that follows them and are
used by no other.

### Vault (`VaultTrees`, `VaultNamespace`, `AtomicVault`)

A directory is a record of its files and its ownership manifest (`Tree`), or absent.
Contents stand for digests, so equality is equality of SHA-256; a manifest is
`[schema, owner, index, artifacts]`, where `index` stands for every field that can
change while the files do not (the digest of the document's bytes among them).
`target`, `stage` and `recovery` are the three paths; the other variables are local to
an exporter.

One run of an exporter is `Start`, then four times the inspection the code calls from
four places, `Gate` (ancestors and leftovers, `GN` 438-444) and the read of the target
(`Diff`, `Preflight`, `VerifySnapshot` twice, each with `Refuse`), in between
`Reject`, `MakeStage`, `WriteArtifact`, `WriteManifest` and `VerifyStage` of
`write_stage`, and then `ProbeTarget`, `MoveToRecovery`, `Install`, `ReadBack`,
`RemoveEntry` and `RemoveRecovery` of `commit_inner`. `remove_dir_all` is one action
per entry. `Abort` is a kill, or a call that fails and is returned: the code undoes
nothing on any error path of a commit, so the two are the same. `UserEdit` is any
change of one file of the target. `ClearStage`, `RestoreRecovery` and `DropRecovery`
are what a careful person does on "inspect it before retrying", while no exporter
runs.

`AtomicVault` is what this is to look like: one whole bundle, replaced in one step,
until somebody edits it. The refinement maps its content to the bundle in the target,
or in the recovery while the target is not whole (`Published`).

### Migration (`VaultMigration`)

The same three paths. Beyond a commit it models both outcomes of the manifest read
(`ReadManifest`, `Reinspect` for a namespace that is current already, with the
`unreachable!()` of `GN` 128 as the state `panicked`), the legacy verification, the
staged semantic verification, the second read of the source, the removal of a stage
that is of no use any more, entry by entry and through renames (`victim` follows the
directory that is being emptied), and the two ways back, `Uninstall` and `Restore`. An
injected failpoint is an `Abort`.

### Children (`ChildPipes`, `BoundedProcess`, `BenchExec`)

`ChildPipes` is the operating system: a child and a grandchild that write to, close
and inherit two pipes of bounded size, exit, or are killed (only the child is). Bytes
are counted. In `BoundedProcess`, `Read`, `ReadEnd` and `ReadError` are the loop of a
reader thread, `Receive` and `Return` the parent. Events of one reader arrive in order,
those of the two readers in any order, as over the `mpsc` channel of the code. In
`BenchExec`, whose definitions begin with `Exec` where `BenchRun` has the same, the
parent polls (`Poll`), compares the clock (`CheckDeadline`), kills and
reaps (`Reap`) and joins the readers one after the other (`Join`); the passing of the
deadline, `Elapse`, is an event that may happen at any time.

### Benchmark (`BenchCompare`, `BenchRun`)

`BenchCompare` computes a report from two sequences of samples. Values are natural
numbers; fractions are multiplied out (medians doubled, deviations quadrupled,
thresholds in percent). `BenchRun` is the command: calibration with the rounding and
the clamping of the code in `MaxU64` arithmetic, warmups, a Fisher-Yates shuffle with
arbitrary choices for the seeded generator, measured attempts that succeed, fail or take
too long, with or without counters, and the report, its verification and its refusal.

### Files (`AtomicFile`, `AtomicReplace`)

A writer is one call; `Pid` gives the process it runs in, which names the temporary
file. `ForReports` chooses between the two implementations: `atomic_write` does not
clean up when it could not create its file, and does not sync the directory. `Fail` is
any failing call, `Crash` the end of the process; after it another writer may have the
same `Pid`. With `Shared` two writers of one process may run at once. The reader
inspects the length (`Inspect`), then reads (`Read`).

### Build inputs (`MaterializedTree`, `BuildInputs`)

`MaterializedTree` is `TreeWriter`: files, the directories made on the way to them, and
what both cost. `BuildInputs` has the four commands of `build-inputs` and the two of
`sealed-resources` as six `Kinds` of run, since they share their steps: `Pin` reads the
record a run is started with, `Probe` looks whether the destination is taken, `List`,
`Look` and `Read` copy a source with three looks at each file, `VerifyFile` and
`Invoke` derive from a tree, `CreateView` and `Revalidate` are the view that is built in
place, `Finish` makes the record and `Publish` renames or creates. `Fail` is any early
return, failing call or kill. Owners edit sources, users edit what was made or make
something where a command is about to.

### Documentation lanes (`Simdoc`)

A run is `Fingerprint`, `BuildDocs`, `SyncManifest`, `SyncCatalogs`, `Project`,
`Measure`, `Fragment`, `Confirm`, `ReadSpine` and then the lanes one after the other,
and the state, whose write may stop half way (`Torn`). `Encoded(l, s)` is what lane `l`
is for sources `s`. A refresh reuses a lane if the state says that the file there is the
encoding of the cards there are.

### Private directories and the engine (`PrivateDirs`, `EnginePin`)

In `PrivateDirs` ids are given to processes and used again; a sweep lists, judges one
directory at a time by whether its id exists in the sweeper's own namespace, and removes
it some time later. `Fill` copies one locked crate from a cache that others edit. In
`EnginePin` a launch reads the pin, verifies the sources, locates a toolchain, runs the
build script, compiles, verifies the identity, and runs the command, a second `cargo
run` that may build again; `simdoc-pin` reads in three steps and writes or compares; a
developer edits the source and the channel and installs toolchains between any two
steps. `MCEngineRoute` explores the two side by side: they share no variable.

### Modules of operators

Each translates functions of the code to operators, states what they are for as a law
that does not say how, and is explored by `MCAlgorithms`: a step takes one input out of
a small set, and an invariant says that the law holds of it.

| module | code | law |
|---|---|---|
| `CargoGraph` | `build_inputs/graph.rs`, `registry.rs`, `manifest.rs` | `CopiesWhatIsNeeded`: all that selected packages and used patches need, each once, and nothing else; the narrowed manifest and lock are accepted. Of workspaces whose local packages have names of their own and whose patches need no further local package (see 5) |
| `ResolverInput` | `resolver_input.rs` | `IdentityBindsReads`: the identity binds every byte that cargo reads, each of a tracked file, and nothing of a namesake |
| `IndexMerge` | `index_merge.rs`, `index_merge/source_facts.rs` | `MergeKeepsMeaning`: every record once, every reference to what it meant, in any order of the fragments |
| `IndexOverlap` | `index_overlap.rs` | `PassMeansDecided`: no twins that nobody decided about or that no feature or owner answers for, no exception that is not needed |
| `IndexFragment` | `index_fragment.rs`, `index_author.rs`, `index_rules.rs`, `index_doctor.rs` | `DoctorHeals`: what an overlay removes the doctor asks for, and its rows heal it; `SubjectsAreRooted` |
| `IndexQuery` | `index_find.rs`, `index_find/facts.rs`, `index_route.rs` | `FindNarrows`, `RoutesAreBest` |
| `BenchCompare` | `bench/compare.rs` | `VerdictIsEarned`: passes are earned, pairs aligned, exclusions mild |
| `BenchSpec` | `bench.rs`, `bench/env.rs`, `bench/jvm_acceptance.rs` | `SpecIsWhole`: a refusal names all there is to mend; `ComparedIsObserved`; `NoCreepingWeakening`: no detour weakens the policy under its old decisions |
| `CheckPack` | `crates/sim-check-pack*` | `PassIsVouchedFor`, `LockIsExact` |
| `SourceGates` | `license_gate.rs`, `file_size_gate.rs`, `platform_inventory.rs` | `LicenseIsHonest`, `FactsAreComplete` |
| `Publication` | `publication.rs`, `owned.rs` | `NothingLocalPasses`, `WritesOneFile`, `ForeignReadsRefuse` |
| `AtelierGuard` | `atelier/guard.rs`, `atelier/guard_scan/`, `rules.rs` | `PassMeansClean` |
| `AtelierIndex` | `atelier/index*.rs`, `atelier/radar.rs` | `ChunksCoverText`, `SilenceIsWhole`, `GraphUnitsConnect`, `HintsAreBest` |
| `RecipeEvidence` | `recipe_evidence.rs`, `workflow_yaml.rs` | `TreeIsText`: leaves are where the columns put them; `ConsumerIsDeclared`: a recorded consumer is named by the manifest or is all that an unconditional step runs |
| `FixtureUse` | `repo_contract/fixture_consumption*.rs` | `CreditIsEarned`: a credited fixture is used by some run of a test, by the meaning of the language (`Run`); `CfgIsDecided` |
| `RepoContract` | `repo_contract/`, `repo_contract_cut.rs`, `repo_contract_scan.rs` | `ContractIsTotal`, `InputsBindReads`, `HarnessRuns` (what is taken for a harness cargo builds and runs), `CutIsPartition`, `ProvenanceIsStable` |
| `ValidationMatrix` | `validation_matrix.rs` | `MatrixCompiles`: its commands compile every member, with no and with all features, and one of each group |

## 4. What the runs show

Twelve runs; each finishes in less than three minutes on two workers.

| run | instance | question |
|---|---|---|
| `vault_concurrent` | 2 exporters, bundles `OldBundle`, `Shrunk`, `Foreign`, from no or an old namespace, 1 edit, 1 abort | do racing exporters keep a whole bundle, and early edits? |
| `vault_lone` | 1 exporter, 4 bundles, from no, an empty or an old namespace, 2 aborts | does a rerun get there? |
| `migration` | a team of 1 or of 2 migrators, 7 namespaces, 2 edits, 2 aborts | is the v1 bundle replaced in one step, whoever races; alone, does success mean the new bundle, and does a rerun get there? |
| `bounded_process` | limits of 2 and 1 bytes, reads and pipes of 2, up to 4 bytes a stream, a grandchild, 1 failing read | is the capture complete, does everyone go on? |
| `process_blocked` (violation) | the same | the finding of section 5 |
| `bench_exec` | the same, with a deadline | is a sample honest, does the deadline hold? |
| `bench_run` | 1 warmup, 2 samples an arm, durations 0, 1, 4 around a timeout of 2 | does the report hold what was measured? |
| `atomic_replace` | 3 writers, 2 of one process id, 1 failing call | is the file always whole? |
| `build_inputs` | 2 runs of any of 6 commands, 2 paths of which one is in a directory, bodies of 1 and 2 bytes, 1 edit, limits that 2 files reach | is anything replaced, and is what is published what was read and recorded? |
| `card_lanes` | 2 runs, 2 recipes, 2 packages, 1 edit, crashes and torn states | are lanes current after a refresh, is a check honest? |
| `engine_route` | a launch, any number of pins, 2 changes, 2 sources, 4 toolchains; apart from it 3 processes in 2 namespaces under 2 ids | does what is committed run, does a live run keep its directories? |
| `algorithms` | 33 laws, each on between some 80 and 130,000 inputs | do the laws of the modules of operators hold? |

Properties, by run:

* `vault_concurrent`: `CleanupIsSafe` (a recovery is removed only while the target is
  exactly the remover's bundle), `NeverLost` and `AtomicNamespace` (the refinement),
  until a user edits a note; `EarlyEditsSurvive` (what the user wrote before the last
  read of a commit began is never destroyed).
* `vault_lone`: `Converges`. `migration`: `AtomicMigration` (the refinement),
  `Migrated`, `EarlyEditsSurvive`, `Converges`.
* `bounded_process`: `CaptureIsComplete` (and a refusal is deserved), `OverIsKilled`,
  `AlwaysReturns`. `bench_exec`: `PrefixIsHonest`, `DeadlineKills`, `AlwaysReturns`.
* `bench_run`: `LedgerIsComplete`, `VerdictIsMeasured`, `CalibrationIsTight`.
* `atomic_replace`: `SuccessIsInstalled`, `ReplacesAtomically` (the refinement).
* `build_inputs`: `NothingIsReplaced` (a directory with something in it, or a record,
  stays what it was), `SuccessIsPublished` (tree and record are in place and whole),
  `SealedIsSelected`, `DerivedIsRecorded`, `TreesAreWithinLimits`.
* `card_lanes`: `RefreshIsCurrent`, `CheckIsHonest`.
* `engine_route`: `LiveDirsStay`, `HomesAreLocked`, `SweepsAreComplete`;
  `EngineIsCommitted`, `PinIsCoherent`, `PinnedIsAccepted`.
* `algorithms`: `ClosureIsCopied` (laws of `CargoGraph`, `ResolverInput`),
  `MergeIsFaithful`, `PassMeansDecided`, `IndexIsWhole` (`IndexFragment`,
  `AtelierIndex`, `IndexQuery`), `VerdictIsEarned` (`BenchCompare`, `BenchSpec`,
  `CheckPack`), `GatesAreHonest` (`SourceGates`, `Publication`, `AtelierGuard`,
  `RecipeEvidence`), `ContractIsWitnessed` (`FixtureUse`, `RepoContract`,
  `ValidationMatrix`).

Other statements are in the modules, hold on the instances named here, and are left out
of the runs for time: `VaultNamespace!OneHolder`, `Inductive` and the type invariants
(proved, see section 6, or by adding them to a configuration), `Classified` (`migration`
with one migrator), `CaptureIsBounded`, `PipesDrain` (`bounded_process`),
`SampleIsSettled` (`bench_exec`), `LedgerIsLeft` (`bench_run`), `TargetIsWhole`,
`LeftoverIsCrashed` (`atomic_replace`), `StateIsSound` (`card_lanes`).

**Why the bounds are enough.** Two exporters are the fewest that race, and every
conflict of the code is between two; the theorems cover any number. Two notes make a
bundle that can be half written, one abort leaves every leftover, a second one
interrupts the recovery from the first. The requests differ in a note, in the set of
notes and in the owner, the three things an inspection tells apart. Two bytes a read
with limits of one and two give a read that ends at, and one that straddles, a limit;
pipes of two bytes fill up. Two samples an arm give every order, every pairing that
shifts after a failure, and a dispersion; 64-bit numbers end at 8, so that calibrations
overflow, are rounded and are clamped. Three writers under two process ids give a race
and a reuse after a crash at the same time. Two runs of six commands give every pair
that meets at a place, one edit falls between any two looks, and limits of three and
four entries are reached by one file in a directory and another beside it. Two recipes
and packages make lanes that are stale one by one. Three processes under two ids in two
namespaces give a reused id, a sweep of a dead process's directory while its id comes
back, and a sweeper that cannot see whose directory it judges. Four toolchains agree
and differ in host, release, commit and content one at a time. The inputs of
`algorithms` are built from the smallest parts that tell the branches of the code apart,
in every combination that fits: three fragments for a reference that two others could
take, four lines for a region that ends early, two workspaces for one inside another.

Exporters, runs and processes that start anew have no memory, so symmetry over them is
sound for the safety runs; it is used in no run that checks liveness under fairness.

`migration` has two migrators because three break it: see `InstalledIsIntact` below.

**Fairness.** `VaultNamespace!FairSpec` and `VaultMigration!FairSpec`: a running
process is scheduled (weak fairness of its steps), a command that was run is run again
until it works, and somebody looks at the leftovers the refusals name sooner or later
(strong fairness of the three inspections, as they are enabled only while no exporter
runs). Nothing is assumed of users or crashes, and the number of crashes is bounded,
as otherwise nothing converges. `BoundedProcess` and `BenchExec`: threads that can
read, and a parent that can go on, do (weak fairness), a killed child dies, time
passes. Nothing is assumed of a child or a grandchild that is alive and was not
killed: it may write, wait or stay for ever.

**Deadlock** is checked in the vault and migration runs, where somebody can always go
on; the other commands really end, and their configurations say so. `process_blocked`
stops at the first behaviour that never returns.

## 5. Findings

`process_blocked`, `KilledReturns`: the header of `bounded_process.rs` says that a
grandchild can never block the parent; after the kill the parent still waits for the end
of the streams the grandchild holds.

Some documented claims are stated in the modules as they are worded, are not kept by
the code, and are checked by no run. Each can be checked by adding it to the
configuration named here.

| claim | where it is said | instance and behaviour that break it |
|---|---|---|
| `VaultNamespace!DoneIsCurrent` | "`--check` first proves ownership and byte currency", `src/README.md:134` | `vault_lone`: an export of a document whose bytes changed and whose notes did not skips the commit (`index_vault.rs:232`), keeps the manifest with the old index digest and reports success; `--check` then calls the namespace stale (`GN:387`), and every further export again does nothing |
| `VaultNamespace!EditsSurvive` | "refuses edited managed notes", `src/README.md:137` | `vault_lone` with one edit: the edit falls between the last read (`GN:598`) and the rename (`GN:602`), moves to the recovery with the target and is removed with it |
| `VaultNamespace!NeverLost` from an empty directory | the recovery is kept until the install is verified, `GN:622-624` | `vault_concurrent` with `InitialTargets <- FromEmpty`: both exporters see a target; A moves the empty directory to the recovery, installs and reads back; B moves A's bundle over the empty recovery; A removes it. B finds no stage left to install |
| `VaultMigration!NeverPanics` | `unreachable!()`, `GN:128` | `migration`: B has read its v1 source for the last time when A completes; A, run again, passes the leftover checks and reads the current manifest; B moves the target to the recovery; A's inspection reports `Missing` |
| `VaultMigration!InstalledIsIntact` | "transactionally materializes", `src/BROCHURE.md:19` | `migration`: B reads the source for the last time, the user edits, A reads it, sees the change and starts to remove the stage it shares with B; B installs that stage; A goes on removing entries inside the installed target. With three migrators the third's install takes the place of the edit, and `AtomicMigration` fails too |
| `BenchExec!TimedOutIsKilled` | "Whether the deadline caused termination", `src/src/bench/exec.rs:120` | `bench_exec`: the child exits between the poll and the kill |
| `BenchExec!DeadlineReturns` | "bounded output and time", `exec.rs:152` | `bench_exec`: the child is killed, a grandchild holds a stream, a reader is never joined |
| `BenchRun!PairsAreStable` | "the stable position needed to audit pairing", `src/src/bench/compare.rs:21` | `bench_run`: the first baseline sample fails; the second one is numbered 0 and paired with the first candidate sample |
| `BenchRun!CountersAreOptional` | "Optional counters retained without aggregation", `src/src/bench/report.rs:39` | `bench_run`: a completed sample without counters has the whole report refused, and nothing is written |
| `BenchRun!CompletedInTime` | "Workload completed within its timeout", `src/src/bench/run.rs:111` | `bench_run`: the calibration attempt is recorded as completed however long it took |
| `AtomicReplace!ReadIsBounded` | "Reads an artifact under a strict byte limit", `report.rs:322` | `atomic_replace`: the file is replaced by a longer one between the look at its length and the read |
| `AtomicReplace!TargetIsWhole` with `Shared = TRUE`, `Pid <- MCOnePid` | "Atomically replaces", `report.rs:320` | A's temporary file exists; B of the same process fails to create it and removes it in its cleanup; C creates it anew; A renames C's half-written file |
| `BuildInputs!CapturedIsExact` | "exact selection captured", `src/src/sealed_resources.rs:109` | `build_inputs`: the owner changes mode and content between the look at the mode and the read; the record has one of the first and the other of the second, which no source ever had |
| `BuildInputs!DerivedIsRecordedAlways` | "must currently have exactly the recorded bytes", `build_inputs/derive.rs` | `build_inputs`: the tree is edited after it was verified and before cargo reads it |
| `Simdoc!ContractIsSnapshot` | "Builds every contract artifact from one measured snapshot", `repo_contract.rs` | `card_lanes`: the sources change between the projection and the measurement and stay: the second measurement finds what the first did |

Others are seen from the definitions alone. They concern single inputs, are left as
the code has them in the modules, and the laws are worded so as not to promise
otherwise:

* Documentation. A reused lane's digest is read again when the state is persisted
  (`simdoc.rs:408`): an edit in between is vouched for. The last remeasurement reports
  that nothing was produced after lanes were written. A README made for a new crate is
  untracked until `git add`, so the next check calls it missing. The private directories
  of a process in another pid namespace, and of children that outlive their parent, are
  removed. The engine's identity is verified once; the command is a second `cargo run`
  that builds what was edited since. `simdoc-pin` overwrites edits of the manifest made
  between its read and its write. The hash of the workspace's inputs leaves out sources
  outside `src/` and `crates/`, the layout of a focused harness and
  `tests/<dir>/<file>.rs` other than `main.rs`. A workspace is found by path, not by
  cargo's membership. The resolver's lock is read twice.
* Fixtures. `if cfg!(x) && f(consume(..))` credits the right conjunct; what follows
  `if cfg!(x) { return; }` or `while true { return; }` is credited; so are
  `let x = drop(consume(..))` and `{ consume(..) };`, whose value is dropped; one
  fixture can be credited to two exclusions. `has_cargo_target` looks for duplicate
  names only of the verb's own kind.
* Gates. `platform_inventory`: a pending `#[cfg(test)]` survives `mod x;`,
  `#[cfg(not(test))]` counts as a test, two braces on the `mod` line end its region
  early, a second provider of one kind on a line is dropped. `publication.rs`:
  `-I/home/x` counts as relative, `//home/x` is not seen in text, and `~/x` passes there.
  `atelier/guard`: silent where `.git` is a file or git fails; only absolute dependency
  paths are seen; the deletion of all of `docs/` passes; one unreadable text fails a run
  even of another rule. Overlap: an exemption for an implementation that a feature now
  claims is never reported. Doctor rows can collide by slug.
* Build inputs: a registry package is verified by its archive and copied from its
  unpacked directory (`registry.rs`); a selection captured at its entry limit may not be
  materializable, as the directories on the way count only then. The walk over the
  lock takes no local package from it (`registry.rs:70-95`), so a local package that only
  a used patch needs, that is no patch itself and that no selected package needs, is not
  copied, and the view cannot be resolved (`PatchesAreEnough` excludes it). Local packages
  of one name become one (`build_inputs.rs:212-222`, `LocalsAreNamed`).
* Contract: an exclusion whose path is the manifest of a package, `h/Cargo.toml`, is accepted
  (`workspace_policy.rs:170`, whose message asks for a directory) and takes that manifest,
  but the search for dependencies on it (`:398-427`) compares directories, so that a covered
  package may depend on the package `h`, though "no covered package may depend on anything
  under an exclusion" (`:29-31`). `is_contract_input` (`repo_contract_scan.rs:227-233`) passes
  over every path with a directory `target` or `sim-tooling`, and the list of manifests does
  not: a package in one is decided on and is not bound by the hash.
* Workflows: `- - x` is read as the text `- x`, though the head of `workflow_yaml.rs`
  says that anything else is refused; a block scalar whose first line is deeper than
  later ones cuts characters of those. The rows of the validation matrix are named so
  that `a/b` and `a-b` collide; `slow-benches` covers the default workspace only.
* Atelier: a heading path is wrong where levels are skipped; unit ids can collide; an
  unreadable file drops a checkout's units, with a diagnostic; the radar does not
  refresh an existing index. Queries: one about facts still lists every surface that
  matches its words. Benchmarks: a specification may name a metric twice; "rejects any
  policy weakening" (`jvm_acceptance.rs:89`) does not look at the confidence level, the
  resamples, the outlier multiplier or the required fields.

## 6. What is proved

For every value of the constants, by `tlapm`:

* `VaultNamespaceProofs`. `TypeCorrect` (no assumption). Under `NeverEmpty`, that the
  target is not an empty directory at first: `InductiveHolds`, `SafeCleanup`,
  `SingleHolder`, `VaultIsAtomic` (every behaviour implements `AtomicVault`) and
  `BundleSurvives`. Any number of exporters, notes, bundles, crashes and edits.
* `AtomicReplaceProofs`. `TypeCorrect` (no assumption). Under `~Shared`, that calls
  under one process id do not overlap: `AlwaysWhole`, `SuccessMeansInstalled`,
  `ReplacesRegister` (the calls implement `AtomicFile`). Any number of calls, process
  ids, crashes and failures.
* `EngineRouteProofs`. `EngineTypeCorrect`, `CommittedRuns`, `PinsCohere`,
  `PinnedLaunches`, under `PinAssumption` alone: any number of sources, toolchains,
  hosts, pins and changes. `LiveDirsAreKept`, `HomesHoldTheLock`, `SweepsFinish`, under
  `DirsAssumption`: any number of processes, namespaces, ids, crates and changes of the
  cache. Of the gates over a checkout: `TotalContract`, `RunnableHarness`, `BoundInputs`,
  `CompilingMatrix`, `CleanPass`, `WholeSilence`, `ConnectedUnits`, for any repositories as
  the paragraph below describes them.
* `BuildInputsProofs`. `SuccessMeansPublished`, `SealedMeansSelected`,
  `DerivedMeansRecorded`, `CommandsReplaceNothing`, under `TreeAssumption` and
  `InputsAssumption`, and `TreesFit` under the same: limits of zero entries are refused
  with the options (`Limit`). Any number of runs, paths, contents and edits, any limits.
  Of `CargoGraph`: `CopiedIsNeeded`, for any workspace whose metadata and lock are finite.
* `BoundedProcessProofs`. `TypeCorrect`, `BoundedCapture`, `CompleteCapture`, under
  `ProcessAssumption` and `LimitAssumption`. Any limits, sizes of pipes and reads,
  amounts of output, and failing reads, with the child and the grandchild of the model.
* `BenchProofs`. Of the executor: `ExecTypeCorrect`, `HonestPrefix`, `SettledSample`, for
  the same. Of the runner: `TypeCorrect`, `TightCalibration`, `CompleteLedger`,
  `MeasuredVerdict`, under `RunAssumption`. Any numbers of warmups and samples, targets,
  timeouts and durations. Of the comparison: `EarnedVerdict`, for any two sequences of
  samples and any policy of natural numbers; `ObservedComparison`, for any required names
  and machines, where `available_parallelism` answers or not and a file that is read is a
  sequence of lines; `FrozenPolicy`, for any policies and results of numbers. Of the check
  pack: `VouchedPass`, for any corpus, options, owner and builds, where the platform's
  facts are not those of the specimens; `ExactLock`, for any tree of locks and at most one
  file and one digest in the environment. Of the specification: `WholeSpec`, for any three
  declarations of which one is accepted and asks for no threshold and no noise floor.
* `SimdocProofs`. `RefreshesAreCurrent`, `ChecksAreHonest`, `StatesAreSound`, under
  `SimdocAssumption`. Any number of runs, recipes, packages and edits. Of the index:
  `FaithfulMerge`, for any sequence of fragments of finitely many records whose ids are
  not qualified yet and whose repositories have names; `HealingDoctor`, for any document
  as discovery leaves it (`IsDiscovered`: each item once, owned by a subject, no features)
  and any overlay, where a feature that has the name of a row of the doctor claims the
  item of the row; `RootedSubjects`, for any packages and owners; `DecidedPass`, for any
  document, sources, policy and exceptions, and any report of the four classes that
  `SourceClassification` has. Of what a documentation run reads and writes: `BoundReads`,
  for any farm whose entries are of the three kinds and whose targets have paths, and any
  names; `OneFileWritten`, for any tree, text and path.
* `VaultMigrationProofs`. `TypeCorrect`, for any number of migrators. For a lone one,
  among any teams: `LoneMigrates`, `LoneIsAtomic` (the refinement of `AtomicVault`), and
  under `UserTextIsOwn` `EditsSurviveMigration`.
  Any notes, bundles, initial namespaces, crashes and edits.
* `VaultNamespaceProofs` again: `EditsSurviveCommits`, under `UserTextIsOwn`.

The assumptions of theorems are needed: without `NeverEmpty` and `~Shared` the code does
otherwise, as the table above says. `NeverEmpty` is a statement about `InitialTargets`,
`Shared` a constant. The theorems about operators have hypotheses on what git, cargo and
the file system hand to the code, each a named definition beside its theorem:

* `IsCheckout`: packages are finitely many, paths are sequences of names, the lists of a
  manifest are lists. `CargoWalksUp`: cargo finds a workspace by walking up from a package,
  so that a member lies below its root with no other workspace between (members taken in by
  `package.workspace` or `../` are outside of what is proved). `ExcludesDirectories`: an
  exclusion is not the manifest file of a package, see section 5. `NeedsAreTracked`: what a
  covered package needs by its path is tracked by git.
* `IsBindable`: a file has a name and an extension, and only a fixture has a consumer that is
  a file; manifests and recipes lie outside of the directories `.git`, `.sim`, `target`,
  `.meta-workspace` and `sim-tooling`, which the hash leaves out and the list of manifests
  does not (section 5); none of them, nor the source of a target, lies in `docs/generated`.
* `IsTable`: the targets of a package are listed by their kinds. `IsMatrixed`: besides
  `IsCheckout` and `CargoWalksUp`, packages have names that differ and are not empty, the
  features of every member are known, and the groups of a cut are lists.
* `HasFiles`, `AreCheckouts`: files have paths, sizes and lines; names of checkouts and paths
  of their files tell them apart; `repos.toml`, which is read first, could be read.
* `RefersWithin`: the records of an index refer to its records and anchors, which
  `check_index_doc` of the external `sim-index-core` sees to before units are made.

The inputs of `algorithms` that are accepted satisfy them, contracts with exclusions among
them. `UserTextIsOwn` says that no manifest, asked for or there at first,
records a text of the user's for any note. Without it a user may write, byte for byte,
what the exporter wrote: the code cannot tell such a note from its own, replaces it, and
is right to. The configurations satisfy all three.

**The argument for the vault.** `CleanupIsSafe` is not inductive: that the target is
still the remover's bundle when the cleanup starts depends on nobody else having moved
it away since the read back, which depends on the recovery not being empty: a rename
onto a directory that is not empty fails. So the recovery is the lock. `OneHolder`
says so: at most one exporter that found a target is between its own rename and the
end of its cleanup, and the recovery is not vacant while there is one. To keep that
one needs `CleanersHold` (only an exporter that had a target cleans up),
`NoEmptyTarget` (while the recovery is vacant the target is no empty directory, which
a second rename could move over it; here `NeverEmpty` enters), `EmptiedLast` (a recovery
is emptied only while the target is whole) and `StageFilled` (if target and recovery are
gone, the stage of an exporter about to install holds something, so that the namespace
does not become an empty directory). `TodoIsWanted` and `Provenance` say that stages and
manifests are made of what was asked for. Their conjunction, until the first edit, is
`Inductive`. The proof has one step per action and, below, one per part that the action
can disturb. `VaultIsAtomic` and `BundleSurvives` follow from `Inductive`: the published
bundle changes only at an `Install`, and then to one that was asked for.

**The argument for edits.** An edit made before the last read of a commit is in the
target itself (`EditsInTarget`): a target that holds one is refused by `VerifySnapshot`,
since its files are not those of its manifest, so that there is none between the last
read and the rename (`NoneUnguarded`), and no stage ever holds a text of the user's
(`CleanStage`). This needs no bound on exporters and no `NeverEmpty`. For a migration it is
not so simple, as it moves directories back. `Placed` says where the early edits are: in
the target from the first look at it to the last read, nowhere while it is at the two
renames, afterwards in what it installed, and in the stage once that was moved back. It is
stated for a lone migrator, since a second one may remove the entries of a stage that the
first moves. The invariant holds for a team of one: whoever is not in it never runs
(`LoneSteps`). `Settled` says that from the read back to the reported success the target
is the new bundle: the removal of the recovery does not touch it, and those who look at
leftovers do not move a recovery over a whole target. For `LoneIsAtomic` it is said of
the time before the first edit that the stage, once verified, is the whole new bundle and
that only a whole target is moved away (`Unspoiled`): nothing has to be undone then but a
rename that failed, and the published bundle changes at the one install.

**The argument for files.** A temporary name is its writer's own until the rename
(`OwnTemp`), since `create_new` refuses a name that is taken and processes that live at
the same time have different ids (`Exclusive`); so what is renamed was synced whole
(`WholeWhenSynced`).

**The argument for the engine.** At each step of a launch its record holds what the
steps before have compared: after `VerifySource` the pin's source, after `Locate` a
toolchain that the pin accepts, after the build script what was embedded, unless the
history says that something changed since. The invariant says this step by step
(`LaunchInv`, `PinnerInv`, `CleanInv`); the three properties are what it says at
the end of a launch.

**The argument for private directories.** A directory that was seen, listed or is due
was made by its owner, who has the same id until it is gone (`SeenWasMade`), and a living
process is the only one of its namespace with its id (`IdsAreOwn`). So when a sweep does
not find the id, the owner is gone or of another namespace, and stays so until the
removal, whoever has been given the id since (`DoomedAreDead`). What a sweep owes is
still listed or condemned (`DueIsLeft`), and both are empty when it makes its directory.

**The argument for build inputs.** A complete place is never replaced by a command, so
the record a run is started with stays the one that was issued (`PinnedWasIssued`), and a
success stays alone of its kind (`Alone`, `MadeItsPlace`). A view is built in place by
the one run whose `create_dir` succeeded, and says so by having no receipt
(`BuildsInPlace`). A derivation knows that the files it has verified and those it has
left are all of the tree (`DerivesRecorded`), as long as no edit crosses it. The
invariant is a conjunction over runs; `Quiet`, `Loud` and `EditKeeps` say once what a
step of one run, a publication and an edit leave of the others.

**The argument for budgets.** A tree keeps the number of its files and directories and the
sum of their sizes (`Counted`, `TreesCounted`): a file at a new path adds one and what was
not yet made above it. The sum is a recursive function over sets. That it exists, and that
one more file adds its size (`SumsExist`, `BytesOfOneMore`), is an induction over finite
sets, done without the library's induction theorems by a set that has the empty set and
with each of its members every one that is larger by an element (`SubsetInduction`, from
`WFMin`).

**The argument for what is copied.** A worklist over a finite graph is the least set
closed under its edges (`WorklistIsLeast`): as long as it is not closed it gains a member
in each step, so that after as many steps as the graph has packages it is. So both walks
are least closed sets (`NeededIsLeast`, `LockedIsLeast`), and that of the lock, started
from patches, together with that of the metadata, started from selected packages, reaches
what one walk from both does (`BothWalks`); no local package is left out, as patches need
none that is not copied anyway (`LocalsAreTaken`).

**The argument for processes.** Every byte that was written is kept or still in the pipe,
unless its reader is past the limit, and then more was written than the limit allows
(`Accounted`). A reader sends at most an overflow and then one last event, and the parent
has heard exactly what is no longer in the channel (`InOrder`); so when it has heard both
last events without an overflow, pipes are empty and what was kept is what was written.
The executor keeps no events but joins its readers: what a reader took is what was written
and is not in the pipe, it retains as much of that as fits (`Honest`), and one that is
done has seen the end of its stream, after which nobody writes (`Emptied`).

**The argument for the benchmark.** The number of attempts tells the phase (`Paced`);
the shuffle only swaps places, so that either arm keeps its number (`Scheduled`), and
every attempt, whatever comes of it, takes the next place (`InPlace`). Rounding up and
clamping give the least number of iterations by a lemma about division
(`IterationsAreTight`). Measured attempts know their places and complete in time only
(`Measures`), and the report has what was completed (`Rests`).

**The argument for the verdict.** What is picked of a sequence is in the order it had,
since every rank up to the number of positions is taken, by counting (`EveryRank`). The
walk of `Pairs` is a recursive function: one that follows its rule is made from the end,
place by place (`WalkIsMade`), and by induction from there each place gives the pairs
still ahead (`AlignedStep`), which are the common indices as these are strictly
increasing. The lower median bounds half of the deviations (`RankedFacts`), so that a
multiplier of one or more retains those (`HalfIsRetained`). A total is a number
(`TotalIsNumber`), so that what is no regression is within the threshold.

**The argument for documentation lanes.** A run that nobody crosses has read the sources
as they are at every step (`Seen`), and the lanes it is past are theirs (`Renewed`). A lane
is passed over only if the state vouches for it (`Trusted`), and what the state vouches for
is so as long as nobody changes lanes under a run (`Vouched`), because it is written last
and from the lanes as they are.

**The argument for the index.** An id is qualified only if more than one fragment has it,
and then with the repository of the fragment that has it. The document is checked to have
every id once (`Repeated`), so that an id that is left as it was has one owner, and a
qualified one the owner it is qualified with (`OwnReferenceKept`, `ForeignReferenceKept`);
a reference that was checked to be to a record is to that of its owner. Records are counted
by a bijection with pairs of fragment and record (`RecordsKept`); the same count shows that
the order of the fragments makes no difference, since a place and its mirror image have the
same fragment (`CountReversed`). The count told two records of one fragment apart where
`Repeated` had looked at different fragments only, and `Repeated` was mended. For the
doctor, its rows claim unclaimed items only, each item has a row of its own, and a row,
once merged, is no gap of its own subject; so appending rows adds to the claimed what was
missing and nothing to what was claimed.

**The argument for overlap.** Every cluster has a member, as each of its places was found
once (`ClustersHaveMembers`), and a member that no exception judges is a candidate, which
no strict run passes; so a run that passes has an exception for every cluster
(`PassIsExcepted`). Take one away, and its cluster has none, since no two have one id.

**The argument for resolvers.** What is bound of a link is what is at or beneath its target
(`BoundIs`), and a package with any other entry is refused, so that what is bound of a
package is what cargo reads for it (`FilesAreReads`). All the links of a package lead into
the repository or none does (`HereIs`), which keeps namesakes out.

**The argument for evidence.** A field of an environment is a value or it is none
(`ProbeReads`), so that two fields have a common answer exactly when both were read and are
equal (`SameAnswer`). A policy that is not weakened accepts no result that the one before
refuses (`NoWeakening`), and that is transitive.

For a specification `Mended` replaces what a refusal names and nothing else by the parts of
an accepted one; each check looks at its own part, or at two of which the second is named
too, so that what is left is accepted and what is named is needed. A key keeps lists as sets
and drops comments, so that equal keys are equal declarations but for these.

**The argument for the contract.** A manifest that is not excluded has been classified, and
is a member of the workspace that covers it; walking up, that is the innermost one around
it (`CargoWalksUp`), and there is one only, as workspace roots that are prefixes of one path
are prefixes of each other. What a covered package reaches by paths is found by a number of
iterations: `NumberInduction` shows that each stays among covered packages, as the next
need is tracked, hence classified, and lies under no exclusion, hence is covered.

**The argument for harnesses and inputs.** That no name is declared twice is a count: a list
is as long as the set of its names exactly when no two places have one (a surjection between
finite sets of one size is a bijection). So the code's comparison of counts is cargo's rule.
A file of a covered target is owned, and what is owned is listed from the root; what remains
is that each kind of file passes one of the alternatives of `is_contract_input`.

**The argument for the matrix.** `--package` is given in the workspace that holds the
package, where its name is its own (`NamesTell`), so that a command builds exactly one
package and not merely some. Each group of a cut is compiled by its representative, which is
a member as the cut is checked to be a partition. A first feature adds rows to the matrix and
takes none away, so that the committed matrix differs from the one that is due.

**The argument for the atelier.** A rule looks at its repository and its files only, so what
a run of some rules finds is what a run of all finds of them. A line that the rule on tense
passes over is in a block: the walk that keeps the open fence is a recursive function, and by
induction along the lines (`NextLine`) it has a fence open exactly where the chain of fences
that open and close by turns (`IsChain`) is of odd length. A
checkout that fails is named by a diagnostic, and so is each file that is not read; what is
left is walked, since a path without an ignored directory has none at any depth. A unit
relates to what its record refers to and to what the edges say; each edge puts either end
among what the other relates to.

**Only model-checked**: the liveness properties (`Converges` twice, `OverIsKilled`,
`DeadlineKills`, both `AlwaysReturns`), as fairness and `ENABLED` are out of the
prover's reach. Of the modules of operators: every law of `IndexQuery`, `SourceGates`,
`RecipeEvidence` and `FixtureUse`; `ChunksCoverText` and `HintsAreBest` of `AtelierIndex`;
`CutIsPartition`, `ProvenanceIsStable` of `RepoContract`; and
`NothingLocalPasses`, `ForeignReadsRefuse` of `Publication`. What these compute is a fold
over a sequence, a recursion over a syntax tree, or a sorted sequence whose existence is
itself an induction, and induction over data is out of reach. The composed properties of
`MCAlgorithms` are conjunctions of laws over sampled inputs, in a module that reaches
recursive operators; the theorems state the laws themselves, for all inputs. Last,
`AtomicMigration` for teams of two, which is proved for one and false for three.

## 7. Abstractions

* A read of a directory tree of the vault is one action, and so are the two leftover
  checks: the code takes many calls. An edit between two files of one read is like an
  edit before or after it for every property that compares digests. In `BuildInputs`
  each file is looked at, opened and read in two steps.
* Digests do not collide. Files are written whole or not at all in the vault (a torn
  write is a stage that fails its verification); in `AtomicReplace` a write may stop
  half way, and the state of `Simdoc` may be torn.
* `rename` has Unix semantics: a directory replaces an absent or empty one. Renames
  survive a crash; the loss of power, against which only `AtomicReplace`'s code syncs,
  is not modelled.
* Symbolic links, unsafe names and foreign path spellings are modelled where a gate is
  about them (`Publication`, `AtelierGuard`, `RepoContract`, `ResolverInput`), and left
  out where the code refuses them before anything is changed.
* The person who inspects leftovers is careful: a recovery is dropped only if the
  target is whole, and never with notes of the user in it.
* Processes write numbers of bytes. `spawn` and `wait` do not fail in
  `BoundedProcess`; declaration errors of `execute` are returned before it starts.
* Benchmark values are natural numbers (the code has finite floats), thresholds
  percentages; bootstrap intervals, content keys, JSON and the wording of reasons are
  left out; the random generator may return anything.
* In the modules of operators a path is a sequence of names, a text a sequence of marks,
  words or lines, and a digest is what it is the digest of.

## Not modelled

* **Index source scanners** (`index_anchor_scan*`, `index_source.rs` and the like):
  lexical scanners of Rust sources. What they compute is text, character by character,
  and a model of them would be a transliteration.
* **Gates and command line**: dispatch, argument parsing, `citizenize`, and checks that
  look for a word in a file.
* Of components that are modelled in part: the rendering of index and contract documents
  (it prints what it reads); the projection of a package's fields and their hashes; how
  manifests are read into a catalog, and which files a recipe must have; the generators
  of the atelier's site, shell, capsule and cassette, each a function from files to files
  written in one call; the constants of the JVM baseline; the parsing of options; Windows
  paths in the publication guard.
