-------------------------------- MODULE BenchSpec --------------------------------
(* The declaration of a benchmark (src/src/bench.rs) and the evidence about the machine and
   the build that admits a comparison (src/src/bench/env.rs).

   Blank is a text of blanks only.  A number of a policy is an integer, PosInf or NaN.  The
   key of a record is the record of what is hashed: two keys are equal when those are.
   Bytes are u64; MaxBytes stands for its maximum and Kib for 1024. *)
EXTENDS Integers, Sequences, FiniteSets, SequencesExt

Blank == ""
PosInf == 1000
NaN == 1001
IsFinite(n) == n \notin {PosInf, NaN}
Above(m, n) == NaN \notin {m, n} /\ m > n
MaxBytes == 15
Kib == 4

-----------------------------------------------------------------------------
(* Records (bench.rs).  Confidence is in hundredths. *)

Texts == {"name", "revision", "source_revision", "target", "profile", "toolchain"}

(* BenchSpec::validate: every error there is. *)
Errors(spec) ==
  LET limit(name, broken) == IF broken THEN {<<"limit", name>>} ELSE {}
      outside(n, least) == ~IsFinite(n) \/ n < least
  IN {<<"text", t>> : t \in {t \in Texts : spec.text[t] = Blank}}
     \cup {<<"metric", i>> : i \in {i \in DOMAIN spec.metrics : spec.metrics[i] = Blank}}
     \cup limit("metrics", spec.metrics = <<>>) \cup limit("samples", spec.samples = 0)
     \cup limit("noise_floor", outside(spec.noise, 0))
     \cup limit("confidence", outside(spec.confidence, 1) \/ spec.confidence >= 100)
     \cup limit("cpus", spec.cpus = 0)
     \cup UNION {limit("threshold", outside(t, 0)) \cup limit("threshold of no samples", spec.samples = 0)
                  \cup limit("noise above threshold", Above(spec.noise, t)) : t \in spec.threshold}

(* BenchSpec::identity: all but the comment. *)
Identity(spec) == [f \in DOMAIN spec \ {"comment"} |-> spec[f]]

(* Mutant: the key is of the lists as they were given. *)
MutNewSpec(given) ==
  IF Errors(given) # {} THEN [ok |-> FALSE, errors |-> Errors(given)]
  ELSE [ok |-> TRUE, spec |-> given, key |-> Identity(given)]

(* BenchSpec::new: features and capabilities are sorted and each kept once. *)
NewSpec(given) ==
  LET spec == [given EXCEPT !.features = ToSet(@), !.capabilities = ToSet(@)]
  IN IF Errors(spec) # {} THEN [ok |-> FALSE, errors |-> Errors(spec)]
     ELSE [ok |-> TRUE, spec |-> spec, key |-> Identity(spec)]

(* RawObservation::new, BenchSummary::new and BenchDecision::new: what they refuse.  Confidence
   is in hundredths. *)
ObservationRefused(metric, value) == metric = Blank \/ ~IsFinite(value)
SummaryRefused(metric, count, mean, median, deviation) ==
  metric = Blank \/ count = 0 \/ ~IsFinite(mean) \/ ~IsFinite(median) \/ ~IsFinite(deviation) \/ deviation < 0
DecisionRefused(change, confidence) == ~IsFinite(change) \/ ~IsFinite(confidence) \/ confidence \notin 0..100

(* Every part that a refusal names, mended. *)
Mended(given, good) ==
  LET blank == {e[2] : e \in {x \in Errors(given) : x[1] = "text"}}
      Names(limit) == <<"limit", limit>> \in Errors(given)
  IN [given EXCEPT !.text = [t \in Texts |-> IF t \in blank THEN good.text[t] ELSE given.text[t]],
        !.metrics = IF @ = <<>> THEN good.metrics
                    ELSE [i \in DOMAIN @ |-> IF @[i] = Blank THEN good.metrics[1] ELSE @[i]],
        !.samples = IF @ = 0 THEN good.samples ELSE @, !.cpus = IF @ = 0 THEN good.cpus ELSE @,
        !.confidence = IF Names("confidence") THEN good.confidence ELSE @,
        !.noise = IF Names("noise_floor") \/ Names("noise above threshold") THEN good.noise ELSE @,
        !.threshold = IF Names("threshold") THEN good.threshold ELSE @]

(* None of the records that a run makes of finite values is refused. *)
CanBeJudged(spec) ==
  /\ spec.samples > 0 /\ spec.confidence \in 1..99
  /\ \A i \in DOMAIN spec.metrics : /\ ~ObservationRefused(spec.metrics[i], 0)
                                   /\ ~SummaryRefused(spec.metrics[i], spec.samples, 0, 0, 0)
                                   /\ ~DecisionRefused(0, spec.confidence)
  /\ \A t \in spec.threshold : spec.noise \in 0..t

(* They differ at most in their comments and in how features and capabilities are listed. *)
SaysTheSame(given, other) ==
  \A f \in DOMAIN given \ {"comment"} :
    IF f \in {"features", "capabilities"} THEN ToSet(given[f]) = ToSet(other[f]) ELSE given[f] = other[f]

(* A refusal of a specification leaves nothing for a second one: with every part that it names
   mended the specification is accepted, and with any of them left as it is, it is not.  A
   specification that is accepted has the key of another exactly when they say the same, and its
   samples can be judged by it (bench.rs:219, bench.rs:231, bench.rs:311, bench.rs:371). *)
SpecIsWhole(given, other, good) ==
  LET one == NewSpec(given)
      two == NewSpec(other)
  IN /\ NewSpec(Mended(given, good)).ok
     /\ one.ok => given = Mended(given, good) /\ CanBeJudged(given)
     /\ one.ok /\ two.ok => (one.key = two.key <=> SaysTheSame(given, other))

-----------------------------------------------------------------------------
(* Evidence (env.rs).  A reading of the machine is [ok, value]; a file is a reading whose
   value is the sequence of its lines [key, value]. *)

Available(v) == [ok |-> TRUE, value |-> v]
Unavailable == [ok |-> FALSE]

(* non_empty and evidence_string *)
NonEmpty(text) == IF text = Blank THEN Unavailable ELSE Available(text)

(* The first line of a key, if there is one. *)
FirstLine(file, key) ==
  LET lines == IF file.ok THEN file.value ELSE <<>>
      at == {i \in DOMAIN lines : lines[i].key = key}
  IN {lines[i] : i \in {i \in at : \A j \in at : i <= j}}

(* os_release_value and cpuinfo_value *)
ValueOf(file, key) ==
  LET found == FirstLine(file, key)
  IN IF found = {} THEN Unavailable ELSE NonEmpty((CHOOSE line \in found : TRUE).value)

(* memory_bytes: the words after the label. *)
MemoryBytes(file) ==
  LET found == FirstLine(file, "MemTotal")
      line == CHOOSE line \in found : TRUE
  IN IF found # {} /\ line.number \in 0..MaxBytes /\ line.unit = "kB" /\ line.number * Kib <= MaxBytes
     THEN Available(line.number * Kib) ELSE Unavailable

(* DeclaredHost::new *)
DeclaredHost(id, ssh) == IF Blank \in {id, ssh} THEN Unavailable ELSE Available([id |-> id, ssh |-> ssh])

(* BuildEnvironment::from *)
BuildEvidence(build) ==
  [f \in {"source-revision", "target", "profile", "toolchain", "features"} |->
     IF f = "features" THEN Available(ToSet(build.features)) ELSE NonEmpty(build[f])]

Fields == {"inventory-id", "ssh-host", "operating-system", "architecture", "cpu-model", "logical-cpus", "memory-bytes",
           "cpu-governor", "source-revision", "target", "profile", "features", "toolchain"}

(* probe_environment *)
ProbeEnvironment(host, build, machine) ==
  LET count == IF machine.cpus.ok /\ machine.cpus.value = 0 THEN Unavailable ELSE machine.cpus
      text(reading) == IF reading.ok THEN NonEmpty(reading.value) ELSE Unavailable
  IN [f \in Fields |->
        CASE f = "inventory-id" -> Available(host.id) [] f = "ssh-host" -> Available(host.ssh)
          [] f = "operating-system" -> ValueOf(machine.release, "ID")
          [] f = "architecture" -> text(machine.architecture)
          [] f = "cpu-model" -> ValueOf(machine.cpuinfo, "model name") [] f = "logical-cpus" -> count
          [] f = "memory-bytes" -> MemoryBytes(machine.meminfo) [] f = "cpu-governor" -> text(machine.governor)
          [] OTHER -> BuildEvidence(build)[f]]

(* CompatibilityPolicy::from_required_names: a name that is of no field is an error. *)
RequiredFields(names) == IF ToSet(names) \subseteq Fields THEN Available(ToSet(names)) ELSE Unavailable

(* Mutant: what neither side knows is equal. *)
MutCompareField(field, baseline, candidate) == IF baseline[field] = candidate[field] THEN "equal" ELSE "differ"

(* compare_field, compare_evidence and compare_values *)
CompareField(field, baseline, candidate) ==
  IF ~baseline[field].ok THEN "baseline unavailable"
  ELSE IF ~candidate[field].ok THEN "candidate unavailable"
  ELSE IF baseline[field].value # candidate[field].value THEN "differ" ELSE "equal"

(* compatibility_mismatches *)
Mismatches(policy, baseline, candidate) ==
  {[field |-> f, reason |-> CompareField(f, baseline, candidate)] :
     f \in {f \in policy : CompareField(f, baseline, candidate) # "equal"}}

(* Two machines are compared only by what was read of both: a policy of names admits them
   exactly when it has no name that it does not know and each machine gives one and the same
   answer for every name, and a refusal names every field that is in the way, once.  Memory is
   never reported that the machine's own number of kB does not say (env.rs:307, env.rs:378,
   env.rs:434). *)
ComparedIsObserved(names, one, two) ==
  LET probe(m) == ProbeEnvironment(m.host, m.build, m.machine)
      policy == RequiredFields(names)
      found == Mismatches(policy.value, probe(one), probe(two))
      answers(m, f) == {v \in {probe(m)[f]} : v.ok}
      memory(m) == {line.number * Kib : line \in {l \in ToSet(m.machine.meminfo.value) : l.key = "MemTotal"}}
  IN policy.ok =>
       /\ found = {} <=> \A i \in DOMAIN names : answers(one, names[i]) \cap answers(two, names[i]) # {}
       /\ \A f \in ToSet(names) : answers(one, f) \cap answers(two, f) = {} =>
            Cardinality({x \in found : x.field = f}) = 1
       /\ \A m \in {one, two} : answers(m, "memory-bytes") # {} =>
            m.machine.meminfo.ok /\ probe(m)["memory-bytes"].value \in memory(m)

-----------------------------------------------------------------------------
(* The frozen acceptance policy (src/src/bench/jvm_acceptance.rs): a threshold of each of
   its workloads, four limits and the two decisions that it rests on. *)

(* Mutant: a workload that is gone is no weakening. *)
MutWeakened(frozen, candidate) ==
  candidate.floor < frozen.floor \/ candidate.samples < frozen.samples \/ candidate.dispersion > frozen.dispersion
  \/ candidate.inconclusive
  \/ \E w \in DOMAIN frozen.cases \cap DOMAIN candidate.cases : candidate.cases[w] > frozen.cases[w]

Weakened(frozen, candidate) ==
  \/ candidate.floor < frozen.floor
  \/ candidate.samples < frozen.samples
  \/ candidate.dispersion > frozen.dispersion
  \/ candidate.inconclusive
  \/ \E w \in DOMAIN frozen.cases : w \notin DOMAIN candidate.cases \/ candidate.cases[w] > frozen.cases[w]

(* reject_uncharacterized_weakening *)
Rejected(frozen, candidate) ==
  /\ Weakened(frozen, candidate)
  /\ candidate.characterization = frozen.characterization \/ candidate.decision = frozen.decision

(* No detour weakens the policy under its old decisions: results that the frozen policy would
   refuse are not accepted after one change that was let through and then another, none of
   which brought new decisions (jvm_acceptance.rs:85-115).  A result is an improvement, a number of
   samples, a dispersion, whether it is conclusive, and a regression of every workload. *)
NoCreepingWeakening(frozen, between, last, result) ==
  LET accepts(p) == /\ result.improvement >= p.floor /\ result.samples >= p.samples
                    /\ result.dispersion <= p.dispersion /\ (result.conclusive \/ p.inconclusive)
                    /\ \A w \in DOMAIN p.cases : result.regression[w] <= p.cases[w]
      kept(p, q) == ~Rejected(p, q) /\ (p.characterization = q.characterization \/ p.decision = q.decision)
  IN kept(frozen, between) /\ kept(between, last) /\ accepts(last) => accepts(frozen)
=============================================================================
