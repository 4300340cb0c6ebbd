------------------------------ MODULE BenchRun ------------------------------
(***************************************************************************)
(* bench run: calibrate, warm up, measure two arms in a shuffled order, and *)
(* write one report (src/src/bench/run.rs, bench/cli.rs, bench/report.rs). *)
(*                                                                         *)
(* Every invocation of a workload takes some time and ends well or not; the *)
(* numbers of the seeded generator that shuffles the arms are arbitrary.   *)
(***************************************************************************)
EXTENDS BenchCompare

CONSTANTS
  Warmups,        \* warmup_samples
  Measured,       \* measured_samples, per arm
  Target,         \* calibration_target_ns
  Probe,          \* calibration_probe_iterations
  MaxIterations,  \* max_iterations
  Timeout,        \* sample_timeout_ns
  MaxU64,         \* the largest 64-bit number
  Durations,      \* how long an invocation may take
  Receipts,       \* how it may end
  MinimumSamples, RelativeDispersion, OutlierMultiplier, Threshold,
                  \* the comparison policy of the request
  Direction       \* whether lower or higher values are better

ASSUME RunAssumption ==
  /\ Warmups \in Nat
  /\ {Measured, Target, Probe, MaxIterations, Timeout} \subseteq 1..MaxU64
  /\ Durations \subseteq 0..MaxU64
  /\ Receipts \subseteq {"declared", "none", "undeclared", "error"}
  /\ Direction \in {"lower", "higher"}

Policy ==
  [minimum |-> MinimumSamples, dispersion |-> RelativeDispersion,
   outlier |-> OutlierMultiplier, threshold |-> Threshold]

VARIABLES
  phase,      \* what the runner does next
  selected,   \* iterations selected by the calibration
  schedule,   \* the order of the arms
  upper,      \* the position the shuffle fills next
  attempts,   \* every attempt, in execution order
  artifact    \* the report written, if any

vars == <<phase, selected, schedule, upper, attempts, artifact>>

Baseline == "baseline"
Candidate == "candidate"
Arms == {Baseline, Candidate}

Attempt(ph, index, arm, duration, receipt, status) ==
  [phase |-> ph, index |-> index, arm |-> arm, duration |-> duration,
   counters |-> IF receipt = "error" THEN "none" ELSE receipt, status |-> status]

NoReport == [written |-> FALSE]

Init ==
  /\ phase = "setup"
  /\ selected = 0
  /\ schedule = <<>>
  /\ upper = 0
  /\ attempts = <<>>
  /\ artifact = NoReport

Setup ==
  /\ phase = "setup"
  /\ phase' \in {"calibrate", "failed"}
  /\ UNCHANGED <<selected, schedule, upper, attempts, artifact>>

-----------------------------------------------------------------------------
(* Calibration: as many iterations as fill the target, rounded up, within the
   limits; refused when 64 bits do not hold the numbers. *)

(* Mutant: rounded down. *)
MutIterations(duration) ==
  LET filled == (Target * Probe) \div duration
  IN  IF filled < 1 THEN 1 ELSE IF filled > MaxIterations THEN MaxIterations ELSE filled

Iterations(duration) ==
  LET filled == (Target * Probe + (duration - 1)) \div duration
  IN  IF filled < 1 THEN 1 ELSE IF filled > MaxIterations THEN MaxIterations ELSE filled

Overflows(duration) == Target * Probe + (duration - 1) > MaxU64

Calibrate ==
  /\ phase = "calibrate"
  /\ \E duration \in Durations, receipt \in Receipts :
       \/ /\ receipt = "error" \/ duration = 0 \/ Overflows(duration)
          /\ phase' = "failed"
          /\ UNCHANGED <<selected, attempts>>
       \/ /\ receipt # "error" /\ duration > 0 /\ ~Overflows(duration)
          /\ phase' = "warmup"
          /\ selected' = Iterations(duration)
          /\ attempts' = <<Attempt("calibration", 0, Candidate, duration, receipt, "completed")>>
  /\ UNCHANGED <<schedule, upper, artifact>>

-----------------------------------------------------------------------------
(* Warmup and measurement: failures and timeouts are recorded and the run
   goes on. *)

Status(duration, receipt) ==
  IF receipt = "error" THEN "failed" ELSE IF duration > Timeout THEN "timed-out" ELSE "completed"

Invoke(ph, index, arm) ==
  \E duration \in Durations, receipt \in Receipts :
    attempts' =
      Append(attempts, Attempt(ph, index, arm, duration, receipt, Status(duration, receipt)))

Warmup ==
  /\ phase = "warmup" /\ Len(attempts) <= Warmups
  /\ LET index == Len(attempts) - 1
     IN  Invoke("warmup", index, IF index % 2 = 0 THEN Baseline ELSE Candidate)
  /\ UNCHANGED <<phase, selected, schedule, upper, artifact>>

StartMeasuring ==
  /\ phase = "warmup" /\ Len(attempts) > Warmups
  /\ phase' = "shuffle"
  /\ schedule' = [i \in 1..(2 * Measured) |-> IF i % 2 = 1 THEN Baseline ELSE Candidate]
  /\ upper' = 2 * Measured
  /\ UNCHANGED <<selected, attempts, artifact>>

Swap(i, j) == [schedule EXCEPT ![i] = schedule[j], ![j] = schedule[i]]

Shuffle ==
  /\ phase = "shuffle"
  /\ \E index \in 1..upper : schedule' = Swap(upper, index)
  /\ upper' = upper - 1
  /\ phase' = IF upper = 2 THEN "measure" ELSE "shuffle"
  /\ UNCHANGED <<selected, attempts, artifact>>

Position == Len(attempts) - 1 - Warmups

(* Mutant: the arms take turns. *)
MutMeasure ==
  /\ phase = "measure" /\ Position < 2 * Measured
  /\ Invoke("measured", Position, IF Position % 2 = 0 THEN Baseline ELSE Candidate)
  /\ UNCHANGED <<phase, selected, schedule, upper, artifact>>

Measure ==
  /\ phase = "measure" /\ Position < 2 * Measured
  /\ Invoke("measured", Position, schedule[Position + 1])
  /\ UNCHANGED <<phase, selected, schedule, upper, artifact>>

(* A clock that moves backwards during an invocation ends the run. *)
ClockBackwards ==
  /\ \/ phase = "calibrate"
     \/ phase = "warmup" /\ Len(attempts) <= Warmups
     \/ phase = "measure" /\ Position < 2 * Measured
  /\ phase' = "failed"
  /\ UNCHANGED <<selected, schedule, upper, attempts, artifact>>

FinishRun ==
  /\ phase = "measure" /\ Position = 2 * Measured
  /\ phase' = "report"
  /\ UNCHANGED <<selected, schedule, upper, attempts, artifact>>

-----------------------------------------------------------------------------
(* run_command: the completed samples of each arm, numbered as they come. *)

(* Mutant: timeouts count as measurements. *)
MutIsCompleted(attempt) == attempt.phase = "measured" /\ attempt.status # "failed"

IsCompleted(attempt) == attempt.phase = "measured" /\ attempt.status = "completed"

Of(arm) ==
  Picked(attempts, {i \in DOMAIN attempts :
                      attempts[i].phase = "measured" /\ attempts[i].arm = arm})

Completed(arm) ==
  Picked(attempts, {i \in DOMAIN attempts : IsCompleted(attempts[i]) /\ attempts[i].arm = arm})

Numbered(sequence) == [i \in DOMAIN sequence |-> Sample(i - 1, sequence[i].duration)]

Counters ==
  LET completed == Picked(attempts, {i \in DOMAIN attempts : IsCompleted(attempts[i])})
  IN  [i \in DOMAIN completed |->
         [index |-> completed[i].index, arm |-> completed[i].arm, counters |-> completed[i].counters]]

(* verify: every counter sample has counters, all declared. *)
Verifies == \A i \in DOMAIN Counters : Counters[i].counters = "declared"

WriteReport ==
  /\ phase = "report"
  /\ LET b == Numbered(Completed(Baseline))
         c == Numbered(Completed(Candidate))
     IN  \/ /\ ~Admissible(b, c, Policy) \/ ~Verifies
            /\ phase' = "failed"
            /\ UNCHANGED artifact
         \/ /\ Admissible(b, c, Policy) /\ Verifies
            /\ \E compatible \in BOOLEAN :
                 artifact' =
                   [written |-> TRUE, baseline |-> b, candidate |-> c, counters |-> Counters,
                    attempts |-> attempts,
                    comparison |-> Report(b, c, compatible, Direction, Policy)]
            /\ phase' = IF b = <<>> /\ c = <<>> THEN "failed" ELSE "done"
  /\ UNCHANGED <<selected, schedule, upper, attempts>>

Next ==
  \/ Setup \/ Calibrate \/ ClockBackwards
  \/ Warmup \/ StartMeasuring \/ Shuffle
  \/ Measure \/ FinishRun \/ WriteReport

Spec == Init /\ [][Next]_vars

-----------------------------------------------------------------------------
(* Properties. *)

Count(sequence, arm) == Cardinality({i \in DOMAIN sequence : sequence[i] = arm})

TypeOK ==
  /\ phase \in {"setup", "calibrate", "warmup", "shuffle", "measure", "report", "done", "failed"}
  /\ selected \in 0..MaxIterations
  /\ \A i \in DOMAIN schedule : schedule[i] \in Arms
  /\ upper \in 0..(2 * Measured)
  /\ Len(attempts) <= 1 + Warmups + 2 * Measured
  /\ artifact.written \in BOOLEAN

(* The iterations selected fill the target duration and one less would not,
   unless a limit stands in the way. *)
CalibrationIsTight ==
  selected > 0 =>
    LET duration == attempts[1].duration
    IN  /\ selected < MaxIterations => selected * duration >= Target * Probe
        /\ selected > 1 => (selected - 1) * duration < Target * Probe

(* "Every calibration, warmup, and measured attempt in execution order"
   (run.rs:151): a written report holds them all, failures and timeouts
   included, each at its place in the schedule, which gives either arm its full
   number of samples whatever the random numbers. *)
LedgerIsComplete ==
  artifact.written =>
    LET ledger == artifact.attempts
    IN  /\ Len(ledger) = 1 + Warmups + 2 * Measured
        /\ \A arm \in Arms : Count(schedule, arm) = Measured
        /\ \A i \in DOMAIN schedule :
             LET attempt == ledger[1 + Warmups + i]
             IN  attempt.phase = "measured" /\ attempt.index = i - 1 /\ attempt.arm = schedule[i]

(* The values a verdict rests on are the durations of measured attempts that
   completed within their timeout, all of them, and the counters are theirs. *)
VerdictIsMeasured ==
  artifact.written =>
    LET ledger == artifact.attempts
        sound(arm) ==
          Picked(ledger, {i \in DOMAIN ledger :
            /\ ledger[i].phase = "measured" /\ ledger[i].arm = arm
            /\ ledger[i].status = "completed" /\ ledger[i].duration <= Timeout})
        durations(arm) == [i \in DOMAIN sound(arm) |-> sound(arm)[i].duration]
    IN  /\ Values(artifact.baseline) = durations(Baseline)
        /\ Values(artifact.candidate) = durations(Candidate)
        /\ \A i \in DOMAIN artifact.counters :
             LET row == artifact.counters[i]
             IN  ledger[2 + Warmups + row.index].counters = row.counters

(* "benchmark produced no valid measured samples; attempt ledger was written"
   (cli.rs:218): a run whose measurements all failed leaves its ledger, and a
   run that reports success has measured something. *)
LedgerIsLeft ==
  LET none == \A arm \in Arms : Completed(arm) = <<>>
  IN  /\ phase = "done" => artifact.written /\ ~none
      /\ phase = "failed" /\ Position = 2 * Measured /\ none => artifact.written

(* "A measured value with the stable position needed to audit pairing"
   (compare.rs:21): values that are paired were measured at the same place of
   their arms' schedules. *)
PairsAreStable ==
  artifact.written =>
    \A i \in DOMAIN artifact.comparison.pairs :
      LET n == artifact.comparison.pairs[i].index + 1
      IN  \E k \in 1..Measured :
            /\ Of(Baseline)[k] = Completed(Baseline)[n]
            /\ Of(Candidate)[k] = Completed(Candidate)[n]

(* "Optional counters retained without aggregation" (report.rs:39): a workload
   without counters can be measured. *)
CountersAreOptional ==
  phase = "failed" /\ Position = 2 * Measured =>
    \/ artifact.written
    \/ \E i \in DOMAIN attempts : attempts[i].counters = "undeclared"

(* "Workload completed within its timeout" (run.rs:111). *)
CompletedInTime ==
  \A i \in DOMAIN attempts : attempts[i].status = "completed" => attempts[i].duration <= Timeout

=============================================================================
