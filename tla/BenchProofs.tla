----------------------------- MODULE BenchProofs -----------------------------
(***************************************************************************)
(* Proofs about the benchmark: the executor, for any limits, chunk and     *)
(* pipe sizes, any amount of output and any number of failing calls; the   *)
(* runner, for any numbers of samples, targets, timeouts and durations,    *)
(* whatever the shuffle draws; the comparison, for any samples and any     *)
(* policy; the evidence about machines, whatever they answer, and frozen   *)
(* policies; specifications, whatever is declared; and the verdict of a    *)
(* check pack, for any corpora and owners.                                 *)
(***************************************************************************)
EXTENDS BenchExec, BenchRun, BenchSpec, CheckPack, SequenceTheorems, FiniteSetTheorems, WellFoundedInduction, TLAPS

(***************************************************************************)
(* The executor.                                                           *)
(***************************************************************************)

-----------------------------------------------------------------------------
(* The invariant. *)

(* Bytes a reader took from its pipe. *)
Taken(s) == written[s] - pipe[s]

(* A reader retains what fits of what it took, and knows whether it all fits. *)
Honest(s) ==
  /\ pipe[s] <= written[s]
  /\ retained[s] = Least(Taken(s), Limit[s])
  /\ truncated[s] <=> Taken(s) > Limit[s]

(* A reader that is done has emptied its pipe, and nobody writes to it. *)
Emptied(s) == reader[s] = "done" => pipe[s] = 0

Joined ==
  /\ parent \in {"stderr", "sampled"} => reader["stdout"] = "done"
  /\ parent = "sampled" => reader["stderr"] = "done"

(* Only wait_bounded kills, at the deadline, and then it reaps or gives up. *)
Settling ==
  /\ killed => timedOut \/ parent \in {"reap", "failed"}
  /\ fate = "killed" => killed
  /\ parent \in {"stdout", "stderr", "sampled"} => "child" \notin alive

ExecInductive ==
  /\ ExecTypeOK
  /\ DOMAIN retained = Streams
  /\ \A s \in Streams : Honest(s) /\ Emptied(s)
  /\ Joined
  /\ Settling

-----------------------------------------------------------------------------

LEMMA LimitType == \A s \in Streams : Limit[s] \in Nat
BY LimitAssumption DEF Limit

LEMMA ExecInitInductive == ExecInit => ExecInductive
<1> SUFFICES ASSUME ExecInit PROVE ExecInductive
  OBVIOUS
<1>1. ProcessTypeOK
  <2>1. holds \in [Processes -> SUBSET Streams]
    BY DEF ExecInit, ProcessInit
  <2>2. pipe \in [Streams -> 0..PipeSize] /\ written \in [Streams -> 0..MaxOutput]
    BY ProcessAssumption DEF ExecInit, ProcessInit
  <2>3. alive \subseteq Processes /\ killed \in BOOLEAN
    BY DEF ExecInit, ProcessInit, Processes
  <2> QED
    BY <2>1, <2>2, <2>3 DEF ProcessTypeOK
<1>2. ExecTypeOK
  <2>1. \A s \in Streams : retained[s] \in 0..Limit[s]
    BY LimitType DEF ExecInit
  <2>2. reader \in [Streams -> {"reading", "done", "failed"}]
    BY DEF ExecInit, ProcessInit
  <2>3. errors \in 0..MaxErrors
    BY LimitAssumption DEF ExecInit
  <2>4. truncated \in [Streams -> BOOLEAN]
    BY DEF ExecInit
  <2> QED
    BY <1>1, <2>1, <2>2, <2>3, <2>4 DEF ExecInit, ExecTypeOK
<1>3. ASSUME NEW s \in Streams PROVE Honest(s) /\ Emptied(s)
  <2>1. /\ written[s] = 0 /\ pipe[s] = 0 /\ retained[s] = 0 /\ truncated[s] = FALSE
        /\ reader[s] = "reading"
    BY DEF ExecInit, ProcessInit
  <2>2. Taken(s) = 0 /\ ~(Taken(s) > Limit[s]) /\ Least(0, Limit[s]) = 0
    BY <2>1, LimitType DEF Taken, Least
  <2> QED
    BY <2>1, <2>2 DEF Honest, Emptied
<1>4. Joined /\ Settling
  BY DEF ExecInit, ProcessInit, Joined, Settling
<1>5. DOMAIN retained = Streams
  BY DEF ExecInit
<1> QED
  BY <1>2, <1>3, <1>4, <1>5 DEF ExecInductive

(* What is true of a stream stays true while nobody touches it. *)
LEMMA StreamFrame ==
  ASSUME NEW s \in Streams, Honest(s), Emptied(s),
         UNCHANGED <<retained[s], truncated[s], written[s], pipe[s], reader[s]>>
  PROVE  Honest(s)' /\ Emptied(s)'
BY DEF Honest, Emptied, Taken

LEMMA StreamsFrame ==
  ASSUME ExecInductive, UNCHANGED <<retained, truncated, written, pipe, reader>>
  PROVE  \A s \in Streams : Honest(s)' /\ Emptied(s)'
BY StreamFrame DEF ExecInductive

-----------------------------------------------------------------------------
(* Processes. *)

(* A killed child is not brought back, and what a process writes is in the
   pipe of a reader that still reads. *)
LEMMA WriteStep ==
  ASSUME ExecInductive, NEW p \in Processes, NEW s \in Streams, Write(p, s),
         UNCHANGED <<retained, truncated, parentVars, errors>>, fate' = fate
  PROVE  ExecInductive'
<1> USE DEF ExecInductive, ExecTypeOK, ProcessTypeOK, parentVars
<1>1. UNCHANGED <<alive, killed, holds, reader>> /\ reader[s] = "reading"
  BY DEF Write
<1>2. PICK n \in 1..Least(PipeSize - pipe[s], MaxOutput - written[s]) :
        /\ pipe' = [pipe EXCEPT ![s] = @ + n]
        /\ written' = [written EXCEPT ![s] = @ + n]
  BY DEF Write
<1>3. /\ n \in Nat /\ pipe[s] \in Nat /\ written[s] \in Nat
      /\ pipe[s] + n <= PipeSize /\ written[s] + n <= MaxOutput
  BY ProcessAssumption DEF Least
<1>4. pipe'[s] = pipe[s] + n /\ written'[s] = written[s] + n
  BY <1>2
<1>5. ExecTypeOK'
  <2>1. pipe' \in [Streams -> 0..PipeSize] /\ written' \in [Streams -> 0..MaxOutput]
    BY <1>2, <1>3, ProcessAssumption
  <2> QED
    BY <1>1, <2>1
<1>6. ASSUME NEW t \in Streams \ {s} PROVE Honest(t)' /\ Emptied(t)'
  BY <1>1, <1>2, StreamFrame
<1>7. Taken(s)' = Taken(s) /\ pipe'[s] <= written'[s]
  BY <1>3, <1>4 DEF Taken, Honest
<1>8. Honest(s)' /\ Emptied(s)'
  BY <1>1, <1>7 DEF Honest, Emptied
<1>9. Joined' /\ Settling'
  BY <1>1 DEF Joined, Settling
<1> QED
  BY <1>5, <1>6, <1>8, <1>9

LEMMA ProcessStepKeeps == ASSUME ExecInductive, Process PROVE ExecInductive'
<1> USE DEF ExecInductive, ExecTypeOK, ProcessTypeOK, parentVars
<1>1. CASE \E p \in Processes, s \in Streams : Write(p, s)
  <2>1. PICK p \in Processes, s \in Streams : Write(p, s)
    BY <1>1
  <2>2. fate' = fate
    BY <2>1 DEF Process, Write
  <2> QED
    BY <2>1, <2>2, WriteStep DEF Process
<1>2. CASE ~\E p \in Processes, s \in Streams : Write(p, s)
  <2>1. /\ UNCHANGED <<killed, pipe, written, reader, retained, truncated, parentVars, errors>>
        /\ alive' \subseteq Processes
        /\ holds' \in [Processes -> SUBSET Streams]
    <3>1. ASSUME Fork PROVE holds' \in [Processes -> SUBSET Streams] /\ alive' \subseteq Processes
      <4>1. "child" \in Processes
        BY DEF Processes
      <4> QED
        BY <3>1, <4>1 DEF Fork
    <3>2. ASSUME NEW p \in Processes, Exit(p)
          PROVE  holds' \in [Processes -> SUBSET Streams] /\ alive' \subseteq Processes
      BY <3>2 DEF Exit
    <3>3. ASSUME NEW p \in Processes, NEW s \in Streams, CloseStream(p, s)
          PROVE  holds' \in [Processes -> SUBSET Streams] /\ alive' \subseteq Processes
      BY <3>3 DEF CloseStream
    <3> QED
      BY <1>2, <3>1, <3>2, <3>3 DEF Process, ProcessStep, Exit, CloseStream, Fork
  <2>2. /\ "child" \notin alive => "child" \notin alive'
        /\ fate' \in {"none", "exited", "killed"}
        /\ fate' = "killed" => fate = "killed" \/ killed
    BY <1>2 DEF Process, ProcessStep, Exit, CloseStream, Fork
  <2>3. ExecTypeOK'
    BY <2>1, <2>2
  <2>4. \A s \in Streams : Honest(s)' /\ Emptied(s)'
    BY <2>1, StreamsFrame
  <2>5. Joined' /\ Settling'
    BY <2>1, <2>2 DEF Joined, Settling
  <2>6. DOMAIN retained' = Streams
    BY <2>1
  <2> QED
    BY <2>3, <2>4, <2>5, <2>6
<1> QED
  BY <1>1, <1>2

-----------------------------------------------------------------------------
(* Readers. *)

(* Retaining what fits of a prefix and then of what follows it is retaining
   what fits of both. *)
LEMMA PrefixGrows ==
  ASSUME NEW taken \in Nat, NEW limit \in Nat, NEW n \in Nat
  PROVE  /\ Least(taken, limit) + Least(n, limit - Least(taken, limit))
              = Least(taken + n, limit)
         /\ (taken > limit \/ n > limit - Least(taken, limit)) <=> taken + n > limit
         /\ Least(taken, limit) \in 0..limit
BY DEF Least

LEMMA ReadStep == ASSUME ExecInductive, NEW s \in Streams, Read(s) PROVE ExecInductive'
<1> USE DEF ExecInductive, ExecTypeOK, ProcessTypeOK, parentVars
<1> DEFINE n == Least(pipe[s], ChunkSize)
<1>1. /\ reader[s] = "reading"
      /\ UNCHANGED <<alive, killed, holds, written, reader, parentVars, fate, errors>>
  BY DEF Read
<1>2. /\ n \in Nat /\ n <= pipe[s] /\ pipe[s] \in Nat /\ written[s] \in Nat
      /\ Limit[s] \in Nat /\ retained[s] \in Nat
  BY LimitType, LimitAssumption DEF Least
<1>3. /\ pipe' = [pipe EXCEPT ![s] = pipe[s] - n]
      /\ retained' = [retained EXCEPT ![s] = retained[s] + Least(n, Limit[s] - retained[s])]
      /\ truncated' = [truncated EXCEPT ![s] = truncated[s] \/ n > Limit[s] - retained[s]]
  BY DEF Read, Take
<1> HIDE DEF n
<1>4. /\ pipe'[s] = pipe[s] - n
      /\ truncated'[s] <=> truncated[s] \/ n > Limit[s] - retained[s]
  BY <1>3
<1>5. ASSUME NEW t \in Streams \ {s} PROVE Honest(t)' /\ Emptied(t)'
  BY <1>1, <1>3, StreamFrame
<1>6. Taken(s) \in Nat /\ pipe'[s] <= written'[s] /\ Taken(s)' = Taken(s) + n
  BY <1>1, <1>2, <1>4 DEF Taken, Honest
<1>7. /\ retained'[s] = Least(Taken(s)', Limit[s])
      /\ truncated'[s] <=> Taken(s)' > Limit[s]
      /\ retained'[s] \in 0..Limit[s]
  <2>1. retained[s] = Least(Taken(s), Limit[s]) /\ (truncated[s] <=> Taken(s) > Limit[s])
    BY DEF Honest
  <2>2. retained'[s] = retained[s] + Least(n, Limit[s] - retained[s])
    BY <1>3
  <2>3. /\ Least(Taken(s), Limit[s]) + Least(n, Limit[s] - Least(Taken(s), Limit[s]))
             = Least(Taken(s) + n, Limit[s])
        /\ (Taken(s) > Limit[s] \/ n > Limit[s] - Least(Taken(s), Limit[s]))
             <=> Taken(s) + n > Limit[s]
    BY <1>2, <1>6, PrefixGrows
  <2>4. retained'[s] = Least(Taken(s) + n, Limit[s])
    BY <2>3, <2>1, <2>2
  <2>5. truncated'[s] <=> Taken(s) + n > Limit[s]
    BY <1>4, <2>3, <2>1, Zenon
  <2>6. Least(Taken(s) + n, Limit[s]) \in 0..Limit[s]
    BY <1>2, <1>6 DEF Least
  <2> QED
    BY <1>6, <2>4, <2>5, <2>6
<1>8. Honest(s)' /\ Emptied(s)'
  BY <1>1, <1>6, <1>7 DEF Honest, Emptied
<1>9. ExecTypeOK' /\ DOMAIN retained' = Streams
  <2>1. pipe' \in [Streams -> 0..PipeSize]
    BY <1>2, <1>3, ProcessAssumption
  <2>2. truncated' \in [Streams -> BOOLEAN]
    BY <1>3
  <2>3. \A t \in Streams : retained'[t] \in 0..Limit[t]
    BY <1>3, <1>7
  <2>4. DOMAIN retained' = Streams
    BY <1>3
  <2> QED
    BY <1>1, <2>1, <2>2, <2>3, <2>4
<1>10. Joined' /\ Settling'
  BY <1>1 DEF Joined, Settling
<1> QED
  BY <1>5, <1>8, <1>9, <1>10

(* A reader ends at the end of its stream, or because a read failed. *)
LEMMA FinishStep ==
  ASSUME ExecInductive, NEW s \in Streams, ReadEnd(s) \/ ReadError(s)
  PROVE  ExecInductive'
<1> USE DEF ExecInductive, ExecTypeOK, ProcessTypeOK, parentVars, processVars
<1>1. /\ reader[s] = "reading"
      /\ UNCHANGED <<alive, killed, holds, pipe, written, retained, truncated, due, parent,
                     timedOut, fate>>
      /\ reader' \in {[reader EXCEPT ![s] = "done"], [reader EXCEPT ![s] = "failed"]}
      /\ reader'[s] = "done" => pipe[s] = 0
      /\ errors' \in 0..MaxErrors
  BY LimitAssumption DEF ReadEnd, ReadError, AtEnd, Fails
<1>2. \A t \in Streams \ {s} : reader'[t] = reader[t]
  BY <1>1
<1>3. \A t \in Streams : Honest(t)' /\ Emptied(t)'
  BY <1>1, <1>2 DEF Honest, Emptied, Taken
<1>4. Joined' /\ Settling'
  BY <1>1, <1>2 DEF Joined, Settling, Streams
<1> QED
  BY <1>1, <1>3, <1>4

-----------------------------------------------------------------------------
(* The parent. *)

LEMMA ParentStep ==
  ASSUME ExecInductive, Elapse \/ Parent \/ WaitError
  PROVE  ExecInductive'
<1> USE DEF ExecInductive, ExecTypeOK, ProcessTypeOK, parentVars, processVars, readerVars, Goto
<1>1. UNCHANGED <<alive, holds, pipe, written, reader, retained, truncated, fate>>
  BY DEF Elapse, Parent, Poll, CheckDeadline, Reap, Join, WaitError
<1>2. \A s \in Streams : Honest(s)' /\ Emptied(s)'
  BY <1>1, StreamsFrame
<1>3. ExecTypeOK'
  <2>1. errors' \in 0..MaxErrors /\ killed' \in BOOLEAN
    BY LimitAssumption
    DEF Elapse, Parent, Poll, CheckDeadline, Reap, Join, WaitError, Fails, Kill
  <2>2. due' \in BOOLEAN /\ timedOut' \in BOOLEAN
    BY DEF Elapse, Parent, Poll, CheckDeadline, Reap, Join, WaitError
  <2>3. parent' \in {"poll", "check", "reap", "stdout", "stderr", "sampled", "failed"}
    BY DEF Elapse, Parent, Poll, CheckDeadline, Reap, Join, WaitError
  <2> QED
    BY <1>1, <2>1, <2>2, <2>3
<1>4. Joined'
  <2>1. CASE Join("stdout", "stderr")
    BY <1>1, <2>1 DEF Joined, Join, Streams
  <2>2. CASE Join("stderr", "sampled")
    BY <1>1, <2>2 DEF Joined, Join, Streams
  <2>3. CASE Elapse \/ Poll \/ CheckDeadline \/ Reap \/ WaitError
    BY <1>1, <2>3 DEF Joined, Elapse, Poll, CheckDeadline, Reap, WaitError
  <2> QED
    BY <2>1, <2>2, <2>3 DEF Parent
<1>5. Settling'
  BY <1>1 DEF Settling, Elapse, Parent, Poll, CheckDeadline, Reap, Join, WaitError, Kill
<1> QED
  BY <1>1, <1>2, <1>3, <1>4, <1>5

-----------------------------------------------------------------------------

LEMMA ExecNextInductive == ASSUME ExecInductive, [ExecNext]_execVars PROVE ExecInductive'
<1>1. CASE UNCHANGED execVars
  <2>1. \A s \in Streams : Honest(s)' /\ Emptied(s)'
    BY <1>1, StreamsFrame DEF execVars, processVars, readerVars
  <2> QED
    BY <1>1, <2>1
    DEF ExecInductive, ExecTypeOK, ProcessTypeOK, Joined, Settling, execVars, processVars, readerVars,
        parentVars
<1> QED
  BY <1>1, ProcessStepKeeps, ReadStep, FinishStep, ParentStep DEF ExecNext

THEOREM ExecInductiveHolds == ExecSpec => []ExecInductive
<1> QED
  BY ExecInitInductive, ExecNextInductive, PTL DEF ExecSpec

(* The variables of execute, drain and wait_bounded hold what their types say;
   no reader ever retains more than its limit. *)
THEOREM ExecTypeCorrect == ExecSpec => []ExecTypeOK
<1>1. ExecInductive => ExecTypeOK
  BY DEF ExecInductive
<1> QED
  BY <1>1, ExecInductiveHolds, PTL

(* A sample of execute holds as much as fits of everything that was written to
   a stream, and says that it is truncated exactly if something is missing. *)
THEOREM HonestPrefix == ExecSpec => []PrefixIsHonest
<1>1. ExecInductive => PrefixIsHonest
  <2> SUFFICES ASSUME ExecInductive, parent = "sampled", NEW s \in Streams
               PROVE  /\ retained[s] = Least(written[s], Limit[s])
                      /\ truncated[s] <=> written[s] > Limit[s]
    BY DEF PrefixIsHonest
  <2>1. pipe[s] = 0
    BY DEF ExecInductive, Joined, Emptied, Streams
  <2>2. Taken(s) = written[s]
    BY <2>1 DEF ExecInductive, ExecTypeOK, ProcessTypeOK, Taken
  <2> QED
    BY <2>2 DEF ExecInductive, Honest
<1> QED
  BY <1>1, ExecInductiveHolds, PTL

(* A sample is taken of a child that is gone, and one that wait_bounded killed
   is marked as timed out. *)
THEOREM SettledSample == ExecSpec => []SampleIsSettled
<1>1. ExecInductive => SampleIsSettled
  BY DEF ExecInductive, Settling, SampleIsSettled
<1> QED
  BY <1>1, ExecInductiveHolds, PTL

(***************************************************************************)
(* The runner.                                                             *)
(***************************************************************************)

-----------------------------------------------------------------------------
(* The invariant. *)

Places == 1..(2 * Measured)

Full == 1 + Warmups + 2 * Measured

Attempts ==
  [phase : {"calibration", "warmup", "measured"}, index : Nat, arm : Arms, duration : Nat,
   counters : {"declared", "none", "undeclared"},
   status : {"completed", "failed", "timed-out"}]

Types ==
  /\ phase \in {"setup", "calibrate", "warmup", "shuffle", "measure", "report", "done", "failed"}
  /\ selected \in 0..MaxIterations
  /\ upper \in 0..(2 * Measured)
  /\ attempts \in Seq(Attempts)
  /\ schedule = <<>> \/ schedule \in [Places -> Arms]
  /\ artifact.written \in BOOLEAN

(* Either arm has its full number of places. *)
Scheduled ==
  /\ schedule \in [Places -> Arms]
  /\ \A arm \in Arms : Count(schedule, arm) = Measured

(* The measured attempts so far are those of the first places. *)
InPlace ==
  \A i \in Places :
    1 + Warmups + i <= Len(attempts) =>
      LET attempt == attempts[1 + Warmups + i]
      IN  attempt.phase = "measured" /\ attempt.index = i - 1 /\ attempt.arm = schedule[i]

(* How many attempts there are in each phase. *)
Paced ==
  /\ phase \in {"setup", "calibrate"} => attempts = <<>>
  /\ phase = "warmup" => Len(attempts) \in 1..(1 + Warmups)
  /\ phase = "shuffle" => Len(attempts) = 1 + Warmups /\ upper >= 2
  /\ phase = "measure" => Len(attempts) \in (1 + Warmups)..Full
  /\ phase \in {"report", "done"} => Len(attempts) = Full
  /\ Len(attempts) <= Full

Arranged ==
  /\ phase \in {"shuffle", "measure", "report", "done"} => Scheduled
  /\ phase \in {"measure", "report", "done"} => InPlace

Calibrated ==
  selected > 0 =>
    /\ Len(attempts) >= 1
    /\ attempts[1].duration > 0
    /\ selected = Iterations(attempts[1].duration)

Reported ==
  artifact.written =>
    /\ phase \in {"done", "failed"}
    /\ artifact.attempts = attempts
    /\ Len(attempts) = Full
    /\ Scheduled
    /\ InPlace

Inductive == Types /\ Paced /\ Arranged /\ Calibrated /\ Reported

-----------------------------------------------------------------------------
(* Calibration. *)

LEMMA Numbers ==
  /\ Warmups \in Nat
  /\ {Measured, Target, Probe, MaxIterations, Timeout} \subseteq Nat \ {0}
  /\ Durations \subseteq Nat
  /\ Full \in Nat /\ 2 * Measured \in Nat
BY RunAssumption DEF Full

LEMMA Division ==
  ASSUME NEW a \in Nat, NEW d \in Nat \ {0}
  PROVE  /\ (a \div d) \in Nat
         /\ d * (a \div d) <= a
         /\ a < d * (a \div d) + d
OBVIOUS

(* Rounding up gives the least number of iterations that fill the target. *)
LEMMA RoundedUp ==
  ASSUME NEW a \in Nat, NEW d \in Nat \ {0}, NEW q \in Nat,
         q * d <= a + (d - 1), a + (d - 1) < q * d + d
  PROVE  a <= q * d /\ (q - 1) * d < a
BY SMT

LEMMA IterationsAreTight ==
  ASSUME NEW d \in Nat \ {0}
  PROVE  /\ Iterations(d) \in 1..MaxIterations
         /\ Iterations(d) < MaxIterations => Iterations(d) * d >= Target * Probe
         /\ Iterations(d) > 1 => (Iterations(d) - 1) * d < Target * Probe
<1> DEFINE work == Target * Probe
           filled == (work + (d - 1)) \div d
<1>1. work \in Nat /\ MaxIterations \in Nat \ {0} /\ work > 0
  BY Numbers
<1>2. /\ filled \in Nat
      /\ d * filled <= work + (d - 1)
      /\ work + (d - 1) < d * filled + d
  <2> DEFINE sum == work + (d - 1)
  <2>1. sum \in Nat
    BY <1>1
  <2> HIDE DEF sum
  <2>2. (sum \div d) \in Nat /\ d * (sum \div d) <= sum /\ sum < d * (sum \div d) + d
    BY <2>1, Division
  <2> QED
    BY <2>2 DEF sum
<1>3. Iterations(d) = IF filled < 1 THEN 1
                      ELSE IF filled > MaxIterations THEN MaxIterations ELSE filled
  BY DEF Iterations
<1> HIDE DEF work, filled
<1>4. filled * d = d * filled
  BY <1>2
<1>5. work <= filled * d /\ (filled - 1) * d < work
  BY <1>1, <1>2, <1>4, RoundedUp
<1>6. CASE filled < 1
  <2>1. filled = 0
    BY <1>2, <1>6
  <2> QED
    BY <1>1, <1>5, <2>1
<1>7. CASE filled >= 1 /\ filled > MaxIterations
  <2>1. Iterations(d) = MaxIterations
    BY <1>1, <1>2, <1>3, <1>7
  <2>2. (MaxIterations - 1) * d <= (filled - 1) * d
    BY <1>1, <1>2, <1>7
  <2>3. (MaxIterations - 1) * d < work
    BY <1>1, <1>2, <1>5, <2>2
  <2> QED
    BY <1>1, <2>1, <2>3 DEF work
<1>8. CASE filled >= 1 /\ filled <= MaxIterations
  <2>1. Iterations(d) = filled
    BY <1>1, <1>2, <1>3, <1>8
  <2> QED
    BY <1>1, <1>2, <1>5, <1>8, <2>1 DEF work
<1> QED
  BY <1>1, <1>2, <1>6, <1>7, <1>8

-----------------------------------------------------------------------------
(* The schedule. *)

Exchanged(f, i, j) == [f EXCEPT ![i] = f[j], ![j] = f[i]]

(* Two places exchanged: each arm keeps its number of places. *)
LEMMA SwapKeepsCounts ==
  ASSUME NEW n \in Nat, NEW f \in [1..n -> Arms], NEW i \in 1..n, NEW j \in 1..n, NEW arm
  PROVE  /\ Exchanged(f, i, j) \in [1..n -> Arms]
         /\ Count(Exchanged(f, i, j), arm) = Count(f, arm)
<1> DEFINE g == Exchanged(f, i, j)
           before == {k \in 1..n : f[k] = arm}
           after  == {k \in 1..n : g[k] = arm}
           other(k) == IF k = i THEN j ELSE IF k = j THEN i ELSE k
           move == [k \in before |-> other(k)]
<1>1. g \in [1..n -> Arms]
  BY DEF Exchanged
<1>2. \A k \in 1..n : other(k) \in 1..n /\ g[other(k)] = f[k] /\ other(other(k)) = k
  BY DEF Exchanged
<1>3. move \in [before -> after]
  BY <1>2
<1>4. \A k, l \in before : move[k] = move[l] => k = l
  BY <1>2
<1>5. \A l \in after : \E k \in before : move[k] = l
  <2> SUFFICES ASSUME NEW l \in after PROVE \E k \in before : move[k] = l
    OBVIOUS
  <2>1. other(l) \in before
    BY <1>2
  <2>2. move[other(l)] = l
    BY <1>2, <2>1
  <2> QED
    BY <2>1, <2>2
<1>6. move \in Bijection(before, after)
  <2>1. move \in Injection(before, after)
    BY <1>3, <1>4, Zenon DEF Injection, IsInjective
  <2>2. move \in Surjection(before, after)
    BY <1>3, <1>5, Zenon DEF Surjection
  <2> QED
    BY <2>1, <2>2 DEF Bijection
<1>7. IsFiniteSet(before)
  <2>1. IsFiniteSet(1..n) /\ before \in SUBSET (1..n)
    BY FS_Interval
  <2> QED
    BY <2>1, FS_Subset
<1>8. Cardinality(after) = Cardinality(before)
  BY <1>6, <1>7, FS_Bijection DEF ExistsBijection
<1>9. Count(g, arm) = Cardinality(after) /\ Count(f, arm) = Cardinality(before)
  BY <1>1 DEF Count
<1> QED
  BY <1>1, <1>8, <1>9

(* The arms alternate at first: half the places are each arm's. *)
LEMMA AlternationIsBalanced ==
  ASSUME NEW m \in Nat, NEW f,
         f = [i \in 1..(2 * m) |-> IF i % 2 = 1 THEN Baseline ELSE Candidate]
  PROVE  /\ f \in [1..(2 * m) -> Arms]
         /\ \A arm \in Arms : Count(f, arm) = m
<1>1. f \in [1..(2 * m) -> Arms] /\ Baseline # Candidate
  BY DEF Arms, Baseline, Candidate
<1>2. ASSUME NEW arm \in Arms, NEW r \in {0, 1},
             {k \in 1..(2 * m) : f[k] = arm} = {k \in 1..(2 * m) : k % 2 = r}
      PROVE  Count(f, arm) = m
  <2> DEFINE places == {k \in 1..(2 * m) : k % 2 = r}
             move == [k \in 1..m |-> 2 * k - r]
  <2>1. \A k \in 1..m : 2 * k - r \in 1..(2 * m) /\ (2 * k - r) % 2 = r
    OBVIOUS
  <2>2. move \in [1..m -> places]
    BY <2>1
  <2>3. \A k, l \in 1..m : move[k] = move[l] => k = l
    OBVIOUS
  <2>4. \A l \in places : \E k \in 1..m : move[k] = l
    <3> SUFFICES ASSUME NEW l \in places PROVE \E k \in 1..m : move[k] = l
      OBVIOUS
    <3>1. (l + r) \div 2 \in 1..m /\ 2 * ((l + r) \div 2) - r = l
      OBVIOUS
    <3> QED
      BY <3>1
  <2>5. move \in Bijection(1..m, places)
    BY <2>2, <2>3, <2>4, Zenon DEF Bijection, Injection, Surjection, IsInjective
  <2>6. IsFiniteSet(1..m) /\ Cardinality(1..m) = m
    BY FS_Interval
  <2>7. Cardinality(places) = m
    BY <2>5, <2>6, FS_Bijection DEF ExistsBijection
  <2> QED
    BY <1>1, <1>2, <2>7 DEF Count
<1>3. Count(f, Baseline) = m
  <2>1. {k \in 1..(2 * m) : f[k] = Baseline} = {k \in 1..(2 * m) : k % 2 = 1}
    BY <1>1
  <2> QED
    BY <1>2, <2>1 DEF Arms
<1>4. Count(f, Candidate) = m
  <2>1. {k \in 1..(2 * m) : f[k] = Candidate} = {k \in 1..(2 * m) : k % 2 = 0}
    BY <1>1
  <2> QED
    BY <1>2, <2>1 DEF Arms
<1> QED
  BY <1>1, <1>3, <1>4 DEF Arms

-----------------------------------------------------------------------------
(* The ledger. *)

(* What an invocation appends. *)
LEMMA InvokeAppends ==
  ASSUME attempts \in Seq(Attempts), NEW ph \in {"calibration", "warmup", "measured"},
         NEW index \in Nat, NEW arm \in Arms, Invoke(ph, index, arm)
  PROVE  /\ attempts' \in Seq(Attempts)
         /\ Len(attempts') = Len(attempts) + 1
         /\ \A i \in 1..Len(attempts) : attempts'[i] = attempts[i]
         /\ LET attempt == attempts'[Len(attempts) + 1]
            IN  attempt.phase = ph /\ attempt.index = index /\ attempt.arm = arm
<1>1. PICK duration \in Durations, receipt \in Receipts :
        attempts' =
          Append(attempts, Attempt(ph, index, arm, duration, receipt, Status(duration, receipt)))
  BY DEF Invoke
<1> DEFINE new == Attempt(ph, index, arm, duration, receipt, Status(duration, receipt))
<1>2. new \in Attempts /\ new.phase = ph /\ new.index = index /\ new.arm = arm
  <2>1. Status(duration, receipt) \in {"completed", "failed", "timed-out"}
    BY DEF Status
  <2>2. (IF receipt = "error" THEN "none" ELSE receipt) \in {"declared", "none", "undeclared"}
    BY RunAssumption
  <2> QED
    BY <2>1, <2>2, Numbers DEF Attempt, Attempts
<1> HIDE DEF new
<1>3. attempts' = Append(attempts, new)
  BY <1>1 DEF new
<1> QED
  BY <1>2, <1>3, AppendProperties

(* A step that leaves the attempts, the schedule and the report alone. *)
LEMMA LedgerFrame ==
  ASSUME Inductive, UNCHANGED <<attempts, schedule, selected, artifact>>
  PROVE  /\ Calibrated'
         /\ Scheduled => Scheduled'
         /\ InPlace => InPlace'
         /\ phase' \in {"done", "failed"} \/ ~artifact.written => Reported'
<1>1. Scheduled => Scheduled'
  BY DEF Scheduled, Count
<1>2. InPlace => InPlace'
  BY DEF InPlace
<1>3. Calibrated'
  BY DEF Inductive, Calibrated, Iterations
<1> QED
  BY <1>1, <1>2, <1>3 DEF Inductive, Reported

-----------------------------------------------------------------------------
(* Each step keeps the invariant. *)

LEMMA InitInductive == Init => Inductive
<1> SUFFICES ASSUME Init PROVE Inductive
  OBVIOUS
<1>1. /\ attempts = <<>> /\ attempts \in Seq(Attempts) /\ Len(attempts) = 0
      /\ phase = "setup" /\ selected = 0 /\ upper = 0 /\ schedule = <<>>
      /\ artifact.written = FALSE
  BY DEF Init, NoReport
<1>2. Types
  <2>1. 0 \in 0..MaxIterations /\ 0 \in 0..(2 * Measured)
    BY Numbers
  <2> QED
    BY <1>1, <2>1 DEF Types
<1>3. Paced
  <2>1. 0 <= Full
    BY Numbers
  <2> QED
    BY <1>1, <2>1 DEF Paced
<1>4. Arranged /\ Calibrated /\ Reported
  BY <1>1 DEF Arranged, Calibrated, Reported
<1> QED
  BY <1>2, <1>3, <1>4 DEF Inductive

LEMMA CalibrateStep == ASSUME Inductive, Calibrate PROVE Inductive'
<1>1. /\ phase = "calibrate" /\ attempts = <<>>
      /\ UNCHANGED <<schedule, upper, artifact>>
      /\ ~artifact.written
  BY DEF Calibrate, Inductive, Paced, Reported
<1>2. CASE phase' = "failed" /\ UNCHANGED <<selected, attempts>>
  BY <1>1, <1>2, LedgerFrame DEF Inductive, Types, Paced, Arranged
<1>3. ASSUME NEW duration \in Durations, NEW receipt \in Receipts,
             receipt # "error", duration > 0,
             phase' = "warmup",
             selected' = Iterations(duration),
             attempts' =
               <<Attempt("calibration", 0, Candidate, duration, receipt, "completed")>>
      PROVE  Inductive'
  <2> DEFINE new == Attempt("calibration", 0, Candidate, duration, receipt, "completed")
  <2>1. new \in Attempts /\ new.duration = duration
    <3>1. (IF receipt = "error" THEN "none" ELSE receipt) \in {"declared", "none", "undeclared"}
      BY RunAssumption
    <3> QED
      BY <3>1, Numbers DEF Attempt, Attempts, Arms
  <2>2. duration \in Nat \ {0}
    BY <1>3, Numbers
  <2>3. Iterations(duration) \in 1..MaxIterations
    BY <2>2, IterationsAreTight
  <2> HIDE DEF new
  <2>4. attempts' = <<new>>
    BY <1>3 DEF new
  <2>5. attempts' \in Seq(Attempts) /\ Len(attempts') = 1 /\ attempts'[1] = new
    BY <2>1, <2>4
  <2>6. Types'
    BY <1>1, <1>3, <2>3, <2>5, Numbers DEF Inductive, Types
  <2>7. Paced'
    BY <1>3, <2>5, Numbers DEF Paced, Full
  <2>8. Calibrated'
    BY <1>3, <2>1, <2>2, <2>5 DEF Calibrated, Iterations
  <2>9. Arranged' /\ Reported'
    BY <1>1, <1>3 DEF Arranged, Reported
  <2> QED
    BY <2>6, <2>7, <2>8, <2>9 DEF Inductive
<1> QED
  BY <1>2, <1>3 DEF Calibrate

LEMMA WarmupStep == ASSUME Inductive, Warmup PROVE Inductive'
<1> DEFINE index == Len(attempts) - 1
           arm == IF index % 2 = 0 THEN Baseline ELSE Candidate
<1>1. /\ phase = "warmup" /\ Len(attempts) <= Warmups /\ Len(attempts) >= 1
      /\ attempts \in Seq(Attempts)
      /\ UNCHANGED <<phase, selected, schedule, upper, artifact>>
      /\ ~artifact.written
  BY DEF Warmup, Inductive, Types, Paced, Reported
<1>2. index \in Nat /\ arm \in Arms /\ Invoke("warmup", index, arm)
  BY <1>1 DEF Warmup, Arms
<1> HIDE DEF index, arm
<1>3. /\ attempts' \in Seq(Attempts)
      /\ Len(attempts') = Len(attempts) + 1
      /\ \A i \in 1..Len(attempts) : attempts'[i] = attempts[i]
  BY <1>1, <1>2, InvokeAppends
<1>4. Types'
  BY <1>1, <1>3 DEF Inductive, Types
<1>5. Paced'
  BY <1>1, <1>3, Numbers DEF Inductive, Paced, Full
<1>6. Calibrated'
  <2>1. attempts'[1] = attempts[1] /\ Len(attempts') >= 1
    BY <1>1, <1>3
  <2> QED
    BY <1>1, <2>1 DEF Inductive, Calibrated, Iterations
<1>7. Arranged' /\ Reported'
  BY <1>1 DEF Arranged, Reported
<1> QED
  BY <1>4, <1>5, <1>6, <1>7 DEF Inductive

LEMMA StartStep == ASSUME Inductive, StartMeasuring PROVE Inductive'
<1>1. /\ phase = "warmup" /\ phase' = "shuffle" /\ upper' = 2 * Measured
      /\ schedule' = [i \in 1..(2 * Measured) |-> IF i % 2 = 1 THEN Baseline ELSE Candidate]
      /\ Len(attempts) = 1 + Warmups
      /\ UNCHANGED <<selected, attempts, artifact>>
      /\ ~artifact.written
  BY Numbers DEF StartMeasuring, Inductive, Types, Paced, Reported
<1>2. Scheduled'
  <2>1. /\ schedule' \in [1..(2 * Measured) -> Arms]
        /\ \A arm \in Arms : Count(schedule', arm) = Measured
    BY <1>1, Numbers, AlternationIsBalanced
  <2> QED
    BY <2>1 DEF Scheduled, Places, Count
<1>3. Types'
  BY <1>1, <1>2, Numbers DEF Inductive, Types, Scheduled, Places
<1>4. Paced'
  BY <1>1, Numbers DEF Paced, Full
<1>5. Calibrated'
  BY <1>1 DEF Inductive, Calibrated, Iterations
<1>6. Arranged' /\ Reported'
  BY <1>1, <1>2 DEF Arranged, Reported
<1> QED
  BY <1>3, <1>4, <1>5, <1>6 DEF Inductive

LEMMA ShuffleStep == ASSUME Inductive, Shuffle PROVE Inductive'
<1>1. /\ phase = "shuffle" /\ Scheduled /\ upper \in 2..(2 * Measured)
      /\ Len(attempts) = 1 + Warmups
      /\ upper' = upper - 1
      /\ phase' = IF upper = 2 THEN "measure" ELSE "shuffle"
      /\ UNCHANGED <<selected, attempts, artifact>>
      /\ ~artifact.written
  BY Numbers DEF Shuffle, Inductive, Types, Paced, Arranged, Reported
<1>2. PICK index \in 1..upper : schedule' = Swap(upper, index)
  BY DEF Shuffle
<1>3. Scheduled'
  <2>1. index \in 1..(2 * Measured) /\ upper \in 1..(2 * Measured)
    BY <1>1, <1>2, Numbers
  <2>2. /\ schedule' \in [1..(2 * Measured) -> Arms]
        /\ \A arm \in Arms : Count(schedule', arm) = Count(schedule, arm)
    <3> DEFINE n == 2 * Measured
    <3>1. n \in Nat /\ index \in 1..n /\ upper \in 1..n /\ schedule \in [1..n -> Arms]
      BY <1>1, <2>1, Numbers DEF Scheduled, Places
    <3>2. schedule' = Exchanged(schedule, upper, index)
      BY <1>2 DEF Swap, Exchanged
    <3> HIDE DEF n
    <3>3. ASSUME NEW arm \in Arms
          PROVE  /\ Exchanged(schedule, upper, index) \in [1..n -> Arms]
                 /\ Count(Exchanged(schedule, upper, index), arm) = Count(schedule, arm)
      BY <3>1, SwapKeepsCounts
    <3>4. \E arm : arm \in Arms
      BY DEF Arms
    <3> QED
      BY <3>2, <3>3, <3>4 DEF n
  <2> QED
    BY <1>1, <2>2 DEF Scheduled, Places, Count
<1>4. Types'
  BY <1>1, <1>3, Numbers DEF Inductive, Types, Scheduled
<1>5. Paced'
  BY <1>1, Numbers DEF Paced, Full
<1>6. InPlace'
  BY <1>1, Numbers DEF InPlace, Places
<1>7. Calibrated'
  BY <1>1 DEF Inductive, Calibrated, Iterations
<1>8. Arranged' /\ Reported'
  BY <1>1, <1>3, <1>6 DEF Arranged, Reported
<1> QED
  BY <1>4, <1>5, <1>7, <1>8 DEF Inductive

LEMMA MeasureStep == ASSUME Inductive, Measure PROVE Inductive'
<1>1. /\ phase = "measure" /\ Scheduled /\ InPlace
      /\ attempts \in Seq(Attempts)
      /\ Len(attempts) \in (1 + Warmups)..Full /\ Position < 2 * Measured
      /\ UNCHANGED <<phase, selected, schedule, upper, artifact>>
      /\ ~artifact.written
  BY DEF Measure, Inductive, Types, Paced, Arranged, Reported
<1>2. /\ Position \in Nat /\ Position + 1 \in Places
      /\ Len(attempts) = 1 + Warmups + Position
      /\ schedule[Position + 1] \in Arms
  <2>1. Position \in Nat /\ Len(attempts) = 1 + Warmups + Position
    BY <1>1, Numbers DEF Position
  <2>2. Position + 1 \in Places
    BY <1>1, <2>1, Numbers DEF Places
  <2> QED
    BY <1>1, <2>1, <2>2 DEF Scheduled
<1>3. Invoke("measured", Position, schedule[Position + 1])
  BY DEF Measure
<1>4. /\ attempts' \in Seq(Attempts)
      /\ Len(attempts') = Len(attempts) + 1
      /\ \A i \in 1..Len(attempts) : attempts'[i] = attempts[i]
      /\ LET attempt == attempts'[Len(attempts) + 1]
         IN  /\ attempt.phase = "measured"
             /\ attempt.index = Position
             /\ attempt.arm = schedule[Position + 1]
  BY <1>1, <1>2, <1>3, InvokeAppends
<1>5. InPlace'
  <2> SUFFICES ASSUME NEW i \in Places, 1 + Warmups + i <= Len(attempts')
               PROVE  /\ attempts'[1 + Warmups + i].phase = "measured"
                      /\ attempts'[1 + Warmups + i].index = i - 1
                      /\ attempts'[1 + Warmups + i].arm = schedule[i]
    BY <1>1 DEF InPlace, Places
  <2>1. CASE 1 + Warmups + i <= Len(attempts)
    <3>1. attempts'[1 + Warmups + i] = attempts[1 + Warmups + i]
      BY <1>1, <1>4, <2>1, Numbers DEF Places
    <3> QED
      BY <1>1, <2>1, <3>1 DEF InPlace
  <2>2. CASE 1 + Warmups + i > Len(attempts)
    <3>1. i \in Nat /\ Warmups \in Nat
      BY Numbers DEF Places
    <3>2. 1 + Warmups + i <= 2 + Warmups + Position /\ 1 + Warmups + i > 1 + Warmups + Position
      BY <1>2, <1>4, <2>2, <3>1
    <3>3. i = Position + 1 /\ 1 + Warmups + i = Len(attempts) + 1
      BY <1>2, <3>1, <3>2
    <3> QED
      BY <1>2, <1>4, <3>1, <3>3
  <2> QED
    BY <1>1, <2>1, <2>2, Numbers DEF Places
<1>6. Types'
  BY <1>1, <1>4 DEF Inductive, Types
<1>7. Paced'
  BY <1>1, <1>2, <1>4, Numbers DEF Paced, Full
<1>8. Scheduled'
  BY <1>1 DEF Scheduled, Count
<1>9. Calibrated'
  <2>1. Len(attempts) >= 1 /\ attempts'[1] = attempts[1] /\ Len(attempts') >= 1
    BY <1>1, <1>4, Numbers
  <2> QED
    BY <1>1, <2>1 DEF Inductive, Calibrated, Iterations
<1>10. Arranged' /\ Reported'
  BY <1>1, <1>5, <1>8 DEF Arranged, Reported
<1> QED
  BY <1>6, <1>7, <1>9, <1>10 DEF Inductive

(* Steps that only move the runner to its next phase. *)
LEMMA PhaseStep ==
  ASSUME Inductive, Setup \/ ClockBackwards \/ FinishRun
  PROVE  Inductive'
<1>1. /\ UNCHANGED <<selected, schedule, upper, attempts, artifact>>
      /\ phase \notin {"done", "failed"}
      /\ ~artifact.written
  BY DEF Setup, ClockBackwards, FinishRun, Inductive, Reported
<1>2. \/ phase = "setup" /\ phase' = "calibrate"
      \/ phase' = "failed"
      \/ phase = "measure" /\ Position = 2 * Measured /\ phase' = "report"
  BY DEF Setup, ClockBackwards, FinishRun
<1>3. phase' = "report" => Len(attempts) = Full
  BY <1>2, Numbers DEF Position, Full, Inductive, Paced, Types
<1>4. Calibrated' /\ Reported' /\ (Scheduled => Scheduled') /\ (InPlace => InPlace')
  BY <1>1, LedgerFrame
<1>5. Types'
  BY <1>1, <1>2 DEF Inductive, Types
<1>6. Paced'
  BY <1>1, <1>2, <1>3 DEF Inductive, Paced
<1>7. Arranged'
  BY <1>2, <1>4 DEF Inductive, Arranged
<1> QED
  BY <1>4, <1>5, <1>6, <1>7 DEF Inductive

LEMMA ReportStep == ASSUME Inductive, WriteReport PROVE Inductive'
<1>1. /\ phase = "report" /\ phase' \in {"done", "failed"}
      /\ UNCHANGED <<selected, schedule, upper, attempts>>
      /\ ~artifact.written
      /\ \/ artifact' = artifact
         \/ artifact'.written = TRUE /\ artifact'.attempts = attempts
  BY DEF WriteReport, Inductive, Reported
<1>2. Scheduled /\ InPlace /\ Len(attempts) = Full
  BY <1>1 DEF Inductive, Arranged, Paced
<1>3. Scheduled' /\ InPlace'
  BY <1>1, <1>2 DEF Scheduled, InPlace, Count
<1>4. Types'
  BY <1>1 DEF Inductive, Types
<1>5. Paced'
  BY <1>1, <1>2 DEF Inductive, Paced
<1>6. Calibrated'
  BY <1>1 DEF Inductive, Calibrated, Iterations
<1>7. Arranged' /\ Reported'
  BY <1>1, <1>2, <1>3 DEF Arranged, Reported
<1> QED
  BY <1>4, <1>5, <1>6, <1>7 DEF Inductive

LEMMA NextInductive == ASSUME Inductive, [Next]_vars PROVE Inductive'
<1>1. CASE UNCHANGED vars
  BY <1>1, LedgerFrame
  DEF vars, Inductive, Types, Paced, Arranged, Reported
<1> QED
  BY <1>1, CalibrateStep, WarmupStep, StartStep, ShuffleStep, MeasureStep, PhaseStep,
     ReportStep
  DEF Next

-----------------------------------------------------------------------------

THEOREM InductiveHolds == Spec => []Inductive
<1> QED
  BY InitInductive, NextInductive, PTL DEF Spec

(* The runner's variables hold what their types say; the ledger never has more
   entries than the request asks for. *)
THEOREM TypeCorrect == Spec => []TypeOK
<1>1. Inductive => TypeOK
  <2> SUFFICES ASSUME Inductive PROVE TypeOK
    OBVIOUS
  <2>1. \A i \in DOMAIN schedule : schedule[i] \in Arms
    BY DEF Inductive, Types
  <2> QED
    BY <2>1 DEF Inductive, Types, Paced, Full, TypeOK
<1> QED
  BY <1>1, InductiveHolds, PTL

(* calibrated_iterations: the iterations selected fill the target duration and
   one less would not, unless a limit stands in the way. *)
THEOREM TightCalibration == Spec => []CalibrationIsTight
<1>1. Inductive => CalibrationIsTight
  <2> SUFFICES ASSUME Inductive, selected > 0 PROVE CalibrationIsTight
    BY DEF CalibrationIsTight
  <2>1. /\ attempts \in Seq(Attempts) /\ Len(attempts) >= 1
        /\ attempts[1].duration > 0 /\ selected = Iterations(attempts[1].duration)
    BY DEF Inductive, Types, Calibrated
  <2>2. attempts[1] \in Attempts
    BY <2>1
  <2>3. attempts[1].duration \in Nat \ {0}
    BY <2>1, <2>2 DEF Attempts
  <2> QED
    BY <2>1, <2>3, IterationsAreTight DEF CalibrationIsTight
<1> QED
  BY <1>1, InductiveHolds, PTL

(* run and schedule: a written report holds every attempt in execution order,
   each measured one at its place of a schedule that gives either arm its full
   number of samples, whatever the shuffle drew. *)
THEOREM CompleteLedger == Spec => []LedgerIsComplete
<1>1. Inductive => LedgerIsComplete
  <2> SUFFICES ASSUME Inductive, artifact.written PROVE LedgerIsComplete
    BY DEF LedgerIsComplete
  <2>1. DOMAIN schedule = Places
    BY DEF Inductive, Reported, Scheduled
  <2>2. \A i \in Places : 1 + Warmups + i <= Len(attempts)
    BY Numbers DEF Inductive, Reported, Places, Full
  <2> QED
    BY <2>1, <2>2 DEF Inductive, Reported, Scheduled, InPlace, LedgerIsComplete, Full
<1> QED
  BY <1>1, InductiveHolds, PTL

-----------------------------------------------------------------------------
(* What is picked of a sequence: every rank is taken. *)

(* How far up a position is among others. *)
Rank(positions, i) == Cardinality({j \in positions : j < i}) + 1

(* A position that is further on has a higher rank. *)
LEMMA RankGrows ==
  ASSUME NEW P \in SUBSET Nat, IsFiniteSet(P), NEW i \in P, NEW j \in P, i < j
  PROVE  Rank(P, i) < Rank(P, j)
<1> DEFINE A == {k \in P : k < i}
           B == {k \in P : k < j}
<1>0. \A k \in P : k \in Nat
  OBVIOUS
<1>1. A \in SUBSET B /\ B \in SUBSET P /\ i \in B /\ i \notin A
  <2>1. ASSUME NEW k \in P, k < i PROVE k < j
    <3>1. k \in Nat /\ i \in Nat /\ j \in Nat
      BY <1>0
    <3> QED
      BY <2>1, <3>1
  <2>2. ~(i < i)
    BY <1>0
  <2> QED
    BY <2>1, <2>2
<1>2. IsFiniteSet(B) /\ Cardinality(B) \in Nat
  BY <1>1, FS_Subset, FS_CardinalityType
<1>3. IsFiniteSet(A) /\ Cardinality(A) \in Nat /\ Cardinality(A) <= Cardinality(B)
      /\ (Cardinality(B) = Cardinality(A) => B = A)
  BY <1>1, <1>2, FS_Subset, FS_CardinalityType
<1>4. Rank(P, i) = Cardinality(A) + 1 /\ Rank(P, j) = Cardinality(B) + 1
  BY DEF Rank
<1> HIDE DEF A, B
<1> QED
  BY <1>1, <1>2, <1>3, <1>4

(* Ranks are numbers up to the number of positions. *)
LEMMA RankBounded ==
  ASSUME NEW P \in SUBSET Nat, IsFiniteSet(P), NEW i \in P
  PROVE  Rank(P, i) \in 1..Cardinality(P)
<1> DEFINE A == {k \in P : k < i}
<1>1. A \in SUBSET P /\ i \notin A
  OBVIOUS
<1>2. IsFiniteSet(A) /\ Cardinality(A) \in Nat /\ Cardinality(A) <= Cardinality(P)
      /\ (Cardinality(P) = Cardinality(A) => P = A) /\ Cardinality(P) \in Nat
  BY <1>1, FS_Subset, FS_CardinalityType
<1>3. Rank(P, i) = Cardinality(A) + 1
  BY DEF Rank
<1> HIDE DEF A
<1> QED
  BY <1>1, <1>2, <1>3

(* Each of these numbers is the rank of a position. *)
LEMMA EveryRank ==
  ASSUME NEW P \in SUBSET Nat, IsFiniteSet(P), NEW k \in 1..Cardinality(P)
  PROVE  \E i \in P : Rank(P, i) = k
<1> DEFINE n == Cardinality(P)
           f == [i \in P |-> Rank(P, i)]
<1>1. n \in Nat
  BY FS_CardinalityType
<1>2. \A i \in P : Rank(P, i) \in 1..n
  BY RankBounded
<1>3. f \in [P -> 1..n]
  BY <1>2
<1>4. \A i, j \in P : i < j => Rank(P, i) < Rank(P, j)
  BY RankGrows
<1>5. ASSUME NEW i \in P, NEW j \in P, f[i] = f[j] PROVE i = j
  <2>1. Rank(P, i) = Rank(P, j)
    BY <1>5
  <2>2. Rank(P, i) \in Nat /\ Rank(P, j) \in Nat
    BY <1>2
  <2>3. i \in Nat /\ j \in Nat
    OBVIOUS
  <2> QED
    BY <1>4, <2>1, <2>2, <2>3
<1>6. f \in Injection(P, 1..n)
  BY <1>3, <1>5 DEF Injection, IsInjective
<1>7. IsFiniteSet(1..n) /\ Cardinality(1..n) = n
  BY <1>1, FS_Interval
<1>8. f \in Surjection(P, 1..n)
  <2> HIDE DEF f
  <2> QED
    BY <1>6, <1>7, FS_Injection
<1>9. \E i \in P : f[i] = k
  BY <1>8 DEF Surjection
<1> QED
  BY <1>9

(* Places are taken in their order. *)
LEMMA PlaceFacts ==
  ASSUME NEW P \in SUBSET Nat, IsFiniteSet(P), NEW k \in 1..Cardinality(P)
  PROVE  Place(P, k) \in P /\ Rank(P, Place(P, k)) = k
<1>1. PICK i \in P : Rank(P, i) = k
  BY EveryRank
<1>2. Cardinality({j \in P : j < i}) \in Nat
  <2>1. {j \in P : j < i} \in SUBSET P
    OBVIOUS
  <2> QED
    BY <2>1, FS_Subset, FS_CardinalityType
<1>3. Cardinality({j \in P : j < i}) = k - 1
  BY <1>1, <1>2 DEF Rank
<1>4. Place(P, k) \in P /\ Cardinality({j \in P : j < Place(P, k)}) = k - 1
  BY <1>3 DEF Place
<1> QED
  BY <1>4 DEF Rank

(* Places are in order. *)
LEMMA PlacesInOrder ==
  ASSUME NEW P \in SUBSET Nat, IsFiniteSet(P),
         NEW k \in 1..Cardinality(P), NEW l \in 1..Cardinality(P), k < l
  PROVE  Place(P, k) < Place(P, l)
<1>1. Cardinality(P) \in Nat
  BY FS_CardinalityType
<1>2. /\ Place(P, k) \in P /\ Rank(P, Place(P, k)) = k
      /\ Place(P, l) \in P /\ Rank(P, Place(P, l)) = l
  BY PlaceFacts
<1>3. Place(P, l) < Place(P, k) => Rank(P, Place(P, l)) < Rank(P, Place(P, k))
  BY <1>2, RankGrows
<1>4. Place(P, k) \in Nat /\ Place(P, l) \in Nat
  BY <1>2
<1>5. k \in Nat /\ l \in Nat /\ Place(P, k) # Place(P, l)
  BY <1>1, <1>2
<1>6. ~(Place(P, l) < Place(P, k))
  BY <1>2, <1>3, <1>5
<1> QED
  BY <1>4, <1>5, <1>6

(* The attempts so far: measured ones are numbered by their places, and those that count
   as completed took no longer than they may. *)
Measures ==
  \A i \in 1..Len(attempts) :
    attempts[i].phase = "measured" =>
      /\ attempts[i].index = i - 2 - Warmups
      /\ attempts[i].status = "completed" => attempts[i].duration <= Timeout

(* The report has what was completed. *)
Rests ==
  artifact.written =>
    /\ artifact.baseline = Numbered(Completed(Baseline))
    /\ artifact.candidate = Numbered(Completed(Candidate))
    /\ artifact.counters = Counters

(* What an invocation adds is numbered, and completed only in time. *)
LEMMA InvokeMeasures ==
  ASSUME attempts \in Seq(Attempts), Measures,
         NEW ph \in {"calibration", "warmup", "measured"}, NEW index \in Nat, NEW arm \in Arms,
         Invoke(ph, index, arm), ph = "measured" => index = Len(attempts) - 1 - Warmups
  PROVE  Measures'
<1>1. PICK duration \in Durations, receipt \in Receipts :
        attempts' =
          Append(attempts, Attempt(ph, index, arm, duration, receipt, Status(duration, receipt)))
  BY DEF Invoke
<1> DEFINE new == Attempt(ph, index, arm, duration, receipt, Status(duration, receipt))
<1>2. /\ new.phase = ph /\ new.index = index
      /\ new.status = Status(duration, receipt) /\ new.duration = duration
  BY DEF Attempt
<1>3. new.status = "completed" => new.duration <= Timeout
  BY <1>2, Numbers DEF Status
<1> HIDE DEF new
<1>4. attempts' = Append(attempts, new)
  BY <1>1 DEF new
<1>5. /\ Len(attempts') = Len(attempts) + 1
      /\ \A i \in 1..Len(attempts) : attempts'[i] = attempts[i]
      /\ attempts'[Len(attempts) + 1] = new
  BY <1>4, AppendProperties
<1> SUFFICES ASSUME NEW i \in 1..Len(attempts'), attempts'[i].phase = "measured"
             PROVE  /\ attempts'[i].index = i - 2 - Warmups
                    /\ attempts'[i].status = "completed" => attempts'[i].duration <= Timeout
  BY DEF Measures
<1>6. Len(attempts) \in Nat
  OBVIOUS
<1>7. CASE i \in 1..Len(attempts)
  BY <1>5, <1>7 DEF Measures
<1>8. CASE i = Len(attempts) + 1
  <2>1. attempts'[i] = new
    BY <1>5, <1>8
  <2>2. new.index = Len(attempts) - 1 - Warmups
    BY <1>2, <2>1
  <2>3. Len(attempts) - 1 - Warmups = i - 2 - Warmups
    BY <1>6, <1>8, Numbers
  <2> QED
    BY <1>3, <2>1, <2>2, <2>3
<1> QED
  BY <1>5, <1>6, <1>7, <1>8

LEMMA MeasuresInit == Init => Measures /\ Rests
BY DEF Init, Measures, Rests, NoReport

(* Steps that leave attempts and report alone. *)
LEMMA MeasuresFrame ==
  ASSUME Measures, Rests, UNCHANGED <<attempts, artifact>>
  PROVE  Measures' /\ Rests'
<1>1. Measures'
  BY DEF Measures
<1>2. Rests'
  BY DEF Rests, Completed, Counters, Numbered
<1> QED
  BY <1>1, <1>2

(* Each step keeps both. *)
LEMMA MeasuresNext ==
  ASSUME Inductive, Measures, Rests, [Next]_vars PROVE Measures' /\ Rests'
<1> USE DEF Inductive, Types
<1>1. CASE Calibrate
  <2>1. Rests'
    BY <1>1 DEF Calibrate, Rests, Reported
  <2>2. CASE attempts' = attempts
    BY <2>1, <2>2 DEF Measures
  <2>3. CASE \E duration, receipt :
               attempts' = <<Attempt("calibration", 0, Candidate, duration, receipt, "completed")>>
    <3>1. Len(attempts') = 1 /\ attempts'[1].phase = "calibration"
      BY <2>3 DEF Attempt
    <3> QED
      BY <2>1, <3>1 DEF Measures
  <2> QED
    BY <1>1, <2>2, <2>3 DEF Calibrate
<1>2. CASE Warmup
  <2>1. Rests'
    BY <1>2 DEF Warmup, Rests, Reported
  <2> DEFINE index == Len(attempts) - 1
             arm == IF index % 2 = 0 THEN Baseline ELSE Candidate
  <2>2. Invoke("warmup", index, arm) /\ index \in Nat /\ arm \in Arms
    BY <1>2 DEF Warmup, Paced, Arms
  <2> HIDE DEF index, arm
  <2>3. Measures'
    BY <2>2, InvokeMeasures
  <2> QED
    BY <2>1, <2>3
<1>3. CASE Measure
  <2>1. Rests'
    BY <1>3 DEF Measure, Rests, Reported
  <2>2. /\ Position \in Nat /\ Position + 1 \in Places /\ Position = Len(attempts) - 1 - Warmups
        /\ schedule \in [Places -> Arms]
    BY <1>3, Numbers DEF Measure, Position, Paced, Places, Arranged, Scheduled
  <2>3. Invoke("measured", Position, schedule[Position + 1]) /\ schedule[Position + 1] \in Arms
    BY <1>3, <2>2 DEF Measure
  <2>4. Measures'
    BY <2>2, <2>3, InvokeMeasures
  <2> QED
    BY <2>1, <2>4
<1>4. CASE WriteReport
  <2>1. attempts' = attempts /\ ~artifact.written
    BY <1>4 DEF WriteReport, Reported
  <2>2. \/ artifact' = artifact
        \/ /\ artifact'.baseline = Numbered(Completed(Baseline))
           /\ artifact'.candidate = Numbered(Completed(Candidate))
           /\ artifact'.counters = Counters
    BY <1>4 DEF WriteReport
  <2>3. /\ Numbered(Completed(Baseline))' = Numbered(Completed(Baseline))
        /\ Numbered(Completed(Candidate))' = Numbered(Completed(Candidate))
        /\ Counters' = Counters
    BY <2>1 DEF Completed, Counters, Numbered
  <2>4. Rests'
    BY <2>1, <2>2, <2>3 DEF Rests
  <2> QED
    BY <2>1, <2>4 DEF Measures
<1>5. CASE Setup \/ ClockBackwards \/ StartMeasuring \/ Shuffle \/ FinishRun \/ UNCHANGED vars
  <2>1. UNCHANGED <<attempts, artifact>>
    BY <1>5 DEF Setup, ClockBackwards, StartMeasuring, Shuffle, FinishRun, vars
  <2> QED
    BY <2>1, MeasuresFrame
<1> QED
  BY <1>1, <1>2, <1>3, <1>4, <1>5 DEF Next

(* run_command: the values a verdict rests on are the durations of all measured attempts
   that completed within their timeout, and the counters are theirs. *)
THEOREM MeasuredVerdict == Spec => []VerdictIsMeasured
<1>1. Inductive /\ Measures /\ Rests => VerdictIsMeasured
  <2> SUFFICES ASSUME Inductive, Measures, Rests, artifact.written PROVE VerdictIsMeasured
    BY DEF VerdictIsMeasured
  <2>1. /\ artifact.attempts = attempts /\ attempts \in Seq(Attempts)
        /\ DOMAIN attempts = 1..Len(attempts) /\ Len(attempts) \in Nat
    BY DEF Inductive, Reported, Types
  <2> DEFINE positions(arm) ==
               {i \in DOMAIN attempts :
                  /\ attempts[i].phase = "measured" /\ attempts[i].arm = arm
                  /\ attempts[i].status = "completed" /\ attempts[i].duration <= Timeout}
             completed == {i \in DOMAIN attempts : IsCompleted(attempts[i])}
  <2>2. ASSUME NEW arm PROVE Completed(arm) = Picked(attempts, positions(arm))
    <3>1. {i \in DOMAIN attempts : IsCompleted(attempts[i]) /\ attempts[i].arm = arm} = positions(arm)
      BY <2>1 DEF IsCompleted, Measures
    <3> HIDE DEF positions
    <3> QED
      BY <3>1 DEF Completed
  <2> HIDE DEF positions
  <2>3. ASSUME NEW arm
        PROVE  Values(Numbered(Completed(arm)))
                 = [i \in DOMAIN Picked(attempts, positions(arm)) |->
                      Picked(attempts, positions(arm))[i].duration]
    BY <2>2 DEF Values, Numbered, Sample
  <2>4. completed \in SUBSET Nat /\ IsFiniteSet(completed)
    <3>1. completed \in SUBSET (1..Len(attempts)) /\ 1..Len(attempts) \subseteq Nat
      BY <2>1
    <3>2. IsFiniteSet(1..Len(attempts))
      BY <2>1, FS_Interval
    <3> HIDE DEF completed
    <3>3. IsFiniteSet(completed)
      BY <3>1, <3>2, FS_Subset
    <3> QED
      BY <3>1, <3>3
  <2>5. ASSUME NEW i \in DOMAIN Counters
        PROVE  attempts[2 + Warmups + Counters[i].index].counters = Counters[i].counters
    <3> DEFINE place == Place(completed, i)
    <3>1. i \in 1..Cardinality(completed)
      BY DEF Counters, Picked
    <3>2. place \in completed
      BY <2>4, <3>1, PlaceFacts
    <3>3. Counters[i].index = attempts[place].index /\ Counters[i].counters = attempts[place].counters
      BY <3>1 DEF Counters, Picked
    <3>4. attempts[place].index = place - 2 - Warmups /\ place \in Nat
      BY <2>1, <3>2 DEF Measures, IsCompleted
    <3> HIDE DEF place
    <3>5. 2 + Warmups + Counters[i].index = place
      BY <3>3, <3>4, Numbers
    <3> QED
      BY <3>3, <3>5
  <2>6. /\ artifact.baseline = Numbered(Completed(Baseline))
        /\ artifact.candidate = Numbered(Completed(Candidate))
        /\ artifact.counters = Counters
    BY DEF Rests
  <2> QED
    BY <2>1, <2>3, <2>5, <2>6 DEF VerdictIsMeasured, positions
<1> QED
  BY <1>1, MeasuresInit, MeasuresNext, InductiveHolds, PTL DEF Spec

(***************************************************************************)
(* The comparison.                                                         *)
(***************************************************************************)

(* A set of numbers that has zero and the successor of each of its members has all. *)
LEMMA SetInduction ==
  ASSUME NEW S, S \subseteq Nat, 0 \in S, \A n \in S : n + 1 \in S
  PROVE  S = Nat
<1> DEFINE R == OpToRel(<, Nat)
           T == Nat \ S
<1>1. IsWellFoundedOn(R, Nat)
  BY NatLessThanWellFounded
<1>2. \A x, y \in Nat : <<x, y>> \in R <=> x < y
  BY DEF OpToRel
<1>3. SUFFICES ASSUME T # {} PROVE FALSE
  OBVIOUS
<1> HIDE DEF R
<1>4. PICK x \in T : \A y \in T : <<y, x>> \notin R
  BY <1>1, <1>3, WFMin
<1>5. x \in Nat /\ x # 0 /\ x - 1 \in Nat
  BY <1>4
<1>6. x - 1 \in S
  <2>1. (x - 1) < x /\ x \in Nat
    BY <1>5
  <2>2. <<x - 1, x>> \in R
    BY <1>2, <1>5, <2>1
  <2> QED
    BY <1>4, <1>5, <2>2
<1> QED
  BY <1>4, <1>5, <1>6

Samples == [index : Nat, value : Nat]

Ordered(samples) ==
  \A i, j \in 1..Len(samples) : i < j => samples[i].index < samples[j].index

(* What validate_samples says of neighbours holds of any two samples. *)
LEMMA ValidIsOrdered ==
  ASSUME NEW s \in Seq(Samples), ValidSamples(s)
  PROVE  Ordered(s)
<1> DEFINE S == {n \in Nat : \A i \in 1..Len(s) :
                   i + n + 1 <= Len(s) => s[i].index < s[i + n + 1].index}
<1>1. Len(s) \in Nat /\ \A i \in 1..Len(s) : s[i].index \in Nat
  <2>1. \A i \in 1..Len(s) : s[i] \in Samples
    OBVIOUS
  <2> QED
    BY <2>1 DEF Samples
<1>2. ASSUME NEW i \in 1..Len(s), i + 1 <= Len(s) PROVE s[i].index < s[i + 1].index
  <2>1. i + 1 \in 2..Len(s) /\ (i + 1) - 1 = i
    BY <1>1, <1>2
  <2> QED
    BY <2>1 DEF ValidSamples
<1>3. 0 \in S
  BY <1>1, <1>2
<1>4. ASSUME NEW n \in S PROVE n + 1 \in S
  <2> SUFFICES ASSUME NEW i \in 1..Len(s), i + (n + 1) + 1 <= Len(s)
               PROVE  s[i].index < s[i + (n + 1) + 1].index
    OBVIOUS
  <2>1. n \in Nat /\ i \in Nat /\ i + n + 1 <= Len(s) /\ i + n + 1 \in 1..Len(s)
        /\ (i + n + 1) + 1 = i + (n + 1) + 1 /\ i + (n + 1) + 1 \in 1..Len(s)
    BY <1>1
  <2>2. s[i].index < s[i + n + 1].index
    BY <2>1
  <2>3. s[i + n + 1].index < s[i + (n + 1) + 1].index
    BY <1>2, <2>1
  <2>4. s[i].index \in Nat /\ s[i + n + 1].index \in Nat /\ s[i + (n + 1) + 1].index \in Nat
    BY <1>1, <2>1
  <2> QED
    BY <2>2, <2>3, <2>4
<1>5. S = Nat
  <2>1. S \subseteq Nat
    OBVIOUS
  <2> HIDE DEF S
  <2> QED
    BY <1>3, <1>4, <2>1, SetInduction
<1> SUFFICES ASSUME NEW i \in 1..Len(s), NEW j \in 1..Len(s), i < j
             PROVE  s[i].index < s[j].index
  BY DEF Ordered
<1>6. j - i - 1 \in Nat /\ i + (j - i - 1) + 1 = j
  BY <1>1
<1>7. j - i - 1 \in S
  BY <1>5, <1>6
<1> HIDE DEF S
<1>8. \A k \in 1..Len(s) : k + (j - i - 1) + 1 <= Len(s) => s[k].index < s[k + (j - i - 1) + 1].index
  BY <1>7 DEF S
<1> QED
  BY <1>1, <1>6, <1>8

(* What is picked of a sequence, in the order it has. *)
LEMMA PickedFacts ==
  ASSUME NEW s \in Seq(Samples), NEW P \in SUBSET (1..Len(s))
  PROVE  /\ P \in SUBSET Nat /\ IsFiniteSet(P) /\ Cardinality(P) \in Nat
         /\ Picked(s, P) \in Seq(Samples)
         /\ Len(Picked(s, P)) = Cardinality(P)
         /\ \A k \in 1..Cardinality(P) : Picked(s, P)[k] = s[Place(P, k)]
         /\ Ordered(s) => Ordered(Picked(s, P))
<1>1. Len(s) \in Nat /\ \A i \in 1..Len(s) : i \in Nat /\ s[i] \in Samples
  OBVIOUS
<1>2. IsFiniteSet(1..Len(s))
  BY <1>1, FS_Interval
<1>3. P \in SUBSET Nat /\ IsFiniteSet(P) /\ Cardinality(P) \in Nat
  BY <1>1, <1>2, FS_Subset, FS_CardinalityType
<1>4. \A k \in 1..Cardinality(P) : Place(P, k) \in P
  BY <1>3, PlaceFacts
<1>5. Picked(s, P) = [k \in 1..Cardinality(P) |-> s[Place(P, k)]]
  BY DEF Picked
<1>6. \A k \in 1..Cardinality(P) : s[Place(P, k)] \in Samples
  BY <1>1, <1>4
<1>7. Picked(s, P) \in Seq(Samples) /\ Len(Picked(s, P)) = Cardinality(P)
  BY <1>3, <1>5, <1>6
<1>8. ASSUME Ordered(s) PROVE Ordered(Picked(s, P))
  <2> SUFFICES ASSUME NEW k \in 1..Cardinality(P), NEW l \in 1..Cardinality(P), k < l
               PROVE  Picked(s, P)[k].index < Picked(s, P)[l].index
    BY <1>7 DEF Ordered
  <2>1. Place(P, k) < Place(P, l)
    BY <1>3, PlacesInOrder
  <2>2. Place(P, k) \in 1..Len(s) /\ Place(P, l) \in 1..Len(s)
    BY <1>4
  <2>3. s[Place(P, k)].index < s[Place(P, l)].index
    BY <1>8, <2>1, <2>2 DEF Ordered
  <2> QED
    BY <1>5, <2>3
<1> QED
  BY <1>3, <1>5, <1>7, <1>8

-----------------------------------------------------------------------------
(* The walk over both sides is made, place by place. *)

(* The walk over both sides, from a place in each. *)
Grid(a, b) == (1..(Len(a) + 1)) \X (1..(Len(b) + 1))

Ahead(a, b, at) == (Len(a) + 1 - at[1]) + (Len(b) + 1 - at[2])

Difference(a, b, p) == [index |-> a[p[1]].index, difference |-> b[p[2]].value - a[p[1]].value]

WalkStep(a, b, w, at) ==
  IF at[1] > Len(a) \/ at[2] > Len(b) THEN <<>>
  ELSE IF a[at[1]].index < b[at[2]].index THEN w[<<at[1] + 1, at[2]>>]
  ELSE IF a[at[1]].index > b[at[2]].index THEN w[<<at[1], at[2] + 1>>]
  ELSE <<Difference(a, b, at)>> \o w[<<at[1] + 1, at[2] + 1>>]

Walked(a, b, w, n) ==
  \A at \in Grid(a, b) : Ahead(a, b, at) <= n => w[at] = WalkStep(a, b, w, at)

(* How far a place of the grid is from its end. *)
LEMMA GridFacts ==
  ASSUME NEW a \in Seq(Samples), NEW b \in Seq(Samples), NEW at \in Grid(a, b)
  PROVE  /\ Len(a) \in Nat /\ Len(b) \in Nat
         /\ at = <<at[1], at[2]>> /\ at[1] \in Nat /\ at[2] \in Nat
         /\ at[1] >= 1 /\ at[1] <= Len(a) + 1 /\ at[2] >= 1 /\ at[2] <= Len(b) + 1
         /\ Ahead(a, b, at) \in Nat
         /\ Ahead(a, b, at) = 0 => at[1] > Len(a)
<1>1. Len(a) \in Nat /\ Len(b) \in Nat
  OBVIOUS
<1>2. at = <<at[1], at[2]>> /\ at[1] \in 1..(Len(a) + 1) /\ at[2] \in 1..(Len(b) + 1)
  BY DEF Grid
<1> QED
  BY <1>1, <1>2 DEF Ahead

(* The walk goes nearer to the end, and not off the grid. *)
LEMMA GridSteps ==
  ASSUME NEW a \in Seq(Samples), NEW b \in Seq(Samples), NEW at \in Grid(a, b),
         at[1] <= Len(a), at[2] <= Len(b)
  PROVE  \A next \in {<<at[1] + 1, at[2]>>, <<at[1], at[2] + 1>>, <<at[1] + 1, at[2] + 1>>} :
           next \in Grid(a, b) /\ Ahead(a, b, next) < Ahead(a, b, at)
<1>1. /\ Len(a) \in Nat /\ Len(b) \in Nat
      /\ at[1] \in Nat /\ at[2] \in Nat /\ at[1] >= 1 /\ at[2] >= 1
  BY GridFacts
<1>2. at[1] + 1 \in 1..(Len(a) + 1) /\ at[1] \in 1..(Len(a) + 1)
  BY <1>1
<1>3. at[2] + 1 \in 1..(Len(b) + 1) /\ at[2] \in 1..(Len(b) + 1)
  BY <1>1
<1>4. Ahead(a, b, at) = (Len(a) + 1 - at[1]) + (Len(b) + 1 - at[2])
  BY DEF Ahead
<1>5. <<at[1] + 1, at[2]>> \in Grid(a, b) /\ Ahead(a, b, <<at[1] + 1, at[2]>>) < Ahead(a, b, at)
  BY <1>1, <1>2, <1>3, <1>4 DEF Grid, Ahead
<1>6. <<at[1], at[2] + 1>> \in Grid(a, b) /\ Ahead(a, b, <<at[1], at[2] + 1>>) < Ahead(a, b, at)
  BY <1>1, <1>2, <1>3, <1>4 DEF Grid, Ahead
<1>7. <<at[1] + 1, at[2] + 1>> \in Grid(a, b)
      /\ Ahead(a, b, <<at[1] + 1, at[2] + 1>>) < Ahead(a, b, at)
  <2>1. <<at[1] + 1, at[2] + 1>> \in Grid(a, b)
    BY <1>2, <1>3 DEF Grid
  <2>2. Ahead(a, b, <<at[1] + 1, at[2] + 1>>)
          = (Len(a) + 1 - (at[1] + 1)) + (Len(b) + 1 - (at[2] + 1))
    BY DEF Ahead
  <2>3. \A x, y, i, j \in Nat :
          (x + 1 - (i + 1)) + (y + 1 - (j + 1)) < (x + 1 - i) + (y + 1 - j)
    OBVIOUS
  <2>4. (Len(a) + 1 - (at[1] + 1)) + (Len(b) + 1 - (at[2] + 1))
          < (Len(a) + 1 - at[1]) + (Len(b) + 1 - at[2])
    BY <1>1, <2>3
  <2> QED
    BY <1>4, <2>1, <2>2, <2>4
<1> QED
  BY <1>5, <1>6, <1>7

(* A walk that follows its rule that far from the end can be made to one step farther. *)
LEMMA WalkGrows ==
  ASSUME NEW a \in Seq(Samples), NEW b \in Seq(Samples), NEW n \in Nat, NEW w,
         w = [at \in Grid(a, b) |-> w[at]], Walked(a, b, w, n)
  PROVE  \E v : v = [at \in Grid(a, b) |-> v[at]] /\ Walked(a, b, v, n + 1)
<1> DEFINE v == [at \in Grid(a, b) |->
                   IF Ahead(a, b, at) = n + 1 THEN WalkStep(a, b, w, at) ELSE w[at]]
<1>1. ASSUME NEW at \in Grid(a, b), Ahead(a, b, at) <= n PROVE v[at] = w[at]
  <2>1. Ahead(a, b, at) # n + 1
    BY <1>1, GridFacts
  <2> QED
    BY <2>1
<1>2. ASSUME NEW at \in Grid(a, b), Ahead(a, b, at) <= n + 1
      PROVE  WalkStep(a, b, v, at) = WalkStep(a, b, w, at)
  <2> HIDE DEF v
  <2>1. CASE at[1] > Len(a) \/ at[2] > Len(b)
    BY <2>1 DEF WalkStep
  <2>2. CASE at[1] <= Len(a) /\ at[2] <= Len(b)
    <3>1. \A next \in {<<at[1] + 1, at[2]>>, <<at[1], at[2] + 1>>, <<at[1] + 1, at[2] + 1>>} :
            next \in Grid(a, b) /\ Ahead(a, b, next) < Ahead(a, b, at)
      BY <2>2, GridSteps
    <3>2. \A next \in {<<at[1] + 1, at[2]>>, <<at[1], at[2] + 1>>, <<at[1] + 1, at[2] + 1>>} :
            v[next] = w[next]
      <4> SUFFICES ASSUME NEW next \in {<<at[1] + 1, at[2]>>, <<at[1], at[2] + 1>>, <<at[1] + 1, at[2] + 1>>}
                   PROVE  v[next] = w[next]
        OBVIOUS
      <4>1. next \in Grid(a, b) /\ Ahead(a, b, next) < Ahead(a, b, at)
        BY <3>1
      <4>2. Ahead(a, b, next) \in Nat /\ Ahead(a, b, at) \in Nat
        BY <4>1, GridFacts
      <4> QED
        BY <1>1, <1>2, <4>1, <4>2
    <3>3. /\ v[<<at[1] + 1, at[2]>>] = w[<<at[1] + 1, at[2]>>]
          /\ v[<<at[1], at[2] + 1>>] = w[<<at[1], at[2] + 1>>]
          /\ v[<<at[1] + 1, at[2] + 1>>] = w[<<at[1] + 1, at[2] + 1>>]
      BY <3>2
    <3> QED
      BY <3>3 DEF WalkStep
  <2> QED
    BY <2>1, <2>2, GridFacts
<1>3. ASSUME NEW at \in Grid(a, b), Ahead(a, b, at) <= n + 1
      PROVE  v[at] = WalkStep(a, b, v, at)
  <2>1. CASE Ahead(a, b, at) = n + 1
    <3>1. v[at] = WalkStep(a, b, w, at)
      BY <2>1
    <3> HIDE DEF v
    <3> QED
      BY <1>2, <1>3, <3>1
  <2>2. CASE Ahead(a, b, at) # n + 1
    <3>1. Ahead(a, b, at) <= n
      BY <1>3, <2>2, GridFacts
    <3>2. v[at] = w[at]
      BY <1>1, <3>1
    <3>3. w[at] = WalkStep(a, b, w, at)
      BY <3>1 DEF Walked
    <3> HIDE DEF v
    <3> QED
      BY <1>2, <1>3, <3>2, <3>3
  <2> QED
    BY <2>1, <2>2
<1>4. v = [at \in Grid(a, b) |-> v[at]]
  OBVIOUS
<1> HIDE DEF v
<1>5. Walked(a, b, v, n + 1)
  BY <1>3 DEF Walked
<1> QED
  BY <1>4, <1>5

(* So there is a walk that follows it from anywhere. *)
LEMMA WalkIsMade ==
  ASSUME NEW a \in Seq(Samples), NEW b \in Seq(Samples), NEW n \in Nat
  PROVE  \E w : w = [at \in Grid(a, b) |-> w[at]] /\ Walked(a, b, w, n)
<1> DEFINE S == {m \in Nat : \E w : w = [at \in Grid(a, b) |-> w[at]] /\ Walked(a, b, w, m)}
<1>1. 0 \in S
  <2> DEFINE w == [at \in Grid(a, b) |-> <<>>]
  <2>1. w = [at \in Grid(a, b) |-> w[at]]
    OBVIOUS
  <2>2. ASSUME NEW at \in Grid(a, b), Ahead(a, b, at) <= 0
        PROVE  w[at] = WalkStep(a, b, w, at)
    <3>1. at[1] > Len(a)
      BY <2>2, GridFacts
    <3> QED
      BY <3>1 DEF WalkStep
  <2> HIDE DEF w
  <2>3. Walked(a, b, w, 0)
    BY <2>2 DEF Walked
  <2> QED
    BY <2>1, <2>3
<1>2. ASSUME NEW m \in S PROVE m + 1 \in S
  BY WalkGrows
<1>3. S \subseteq Nat
  OBVIOUS
<1> HIDE DEF S
<1>4. S = Nat
  BY <1>1, <1>2, <1>3, SetInduction
<1>5. n \in S
  BY <1>4
<1> QED
  BY <1>5 DEF S

(* Pairs is where a walk that follows its own rule comes from the first places. *)
LEMMA PairsIsWalk ==
  ASSUME NEW a \in Seq(Samples), NEW b \in Seq(Samples)
  PROVE  \E w : /\ Pairs(a, b) = w[<<1, 1>>]
                /\ \A at \in Grid(a, b) : w[at] = WalkStep(a, b, w, at)
<1> DEFINE Body(w) == [at \in Grid(a, b) |-> WalkStep(a, b, w, at)]
           walk == CHOOSE w : w = Body(w)
           n == Len(a) + Len(b)
<1>1. n \in Nat /\ \A at \in Grid(a, b) : Ahead(a, b, at) <= n
  BY GridFacts DEF Ahead
<1>2. PICK w : w = [at \in Grid(a, b) |-> w[at]] /\ Walked(a, b, w, n)
  BY <1>1, WalkIsMade
<1>3. w = Body(w)
  BY <1>1, <1>2 DEF Walked
<1>4. walk = Body(walk)
  <2> HIDE DEF Body
  <2> QED
    BY <1>3
<1>5. Pairs(a, b) = walk[<<1, 1>>]
  BY DEF Pairs, Grid, WalkStep, Difference
<1> HIDE DEF walk
<1>6. \A at \in Grid(a, b) : walk[at] = WalkStep(a, b, walk, at)
  BY <1>4
<1> QED
  BY <1>5, <1>6

-----------------------------------------------------------------------------
(* The pairs it makes are the places of equal indices. *)

(* The places of equal indices that are still ahead. *)
Sees(a, b, at) ==
  {p \in (1..Len(a)) \X (1..Len(b)) :
     p[1] >= at[1] /\ p[2] >= at[2] /\ a[p[1]].index = b[p[2]].index}

Aligned(a, b, w, at) ==
  /\ w[at] \in Seq([index : Nat, difference : Int])
  /\ Len(w[at]) = Cardinality(Sees(a, b, at))
  /\ ToSet(w[at]) = {Difference(a, b, p) : p \in Sees(a, b, at)}

(* The places ahead are finitely many pairs of places of samples. *)
LEMMA SeesFacts ==
  ASSUME NEW a \in Seq(Samples), NEW b \in Seq(Samples), NEW at
  PROVE  /\ IsFiniteSet(Sees(a, b, at)) /\ Cardinality(Sees(a, b, at)) \in Nat
         /\ \A p \in Sees(a, b, at) :
              /\ p = <<p[1], p[2]>> /\ p[1] \in 1..Len(a) /\ p[2] \in 1..Len(b)
              /\ Difference(a, b, p) \in [index : Nat, difference : Int]
<1>1. Len(a) \in Nat /\ Len(b) \in Nat
  OBVIOUS
<1>2. IsFiniteSet((1..Len(a)) \X (1..Len(b)))
  <2>1. IsFiniteSet(1..Len(a)) /\ IsFiniteSet(1..Len(b))
    BY <1>1, FS_Interval
  <2> QED
    BY <2>1, FS_Product
<1>3. Sees(a, b, at) \in SUBSET ((1..Len(a)) \X (1..Len(b)))
  BY DEF Sees
<1>4. IsFiniteSet(Sees(a, b, at)) /\ Cardinality(Sees(a, b, at)) \in Nat
  BY <1>2, <1>3, FS_Subset, FS_CardinalityType
<1>5. ASSUME NEW p \in Sees(a, b, at)
      PROVE  /\ p = <<p[1], p[2]>> /\ p[1] \in 1..Len(a) /\ p[2] \in 1..Len(b)
             /\ Difference(a, b, p) \in [index : Nat, difference : Int]
  <2>1. p = <<p[1], p[2]>> /\ p[1] \in 1..Len(a) /\ p[2] \in 1..Len(b)
    BY <1>3
  <2>2. a[p[1]] \in Samples /\ b[p[2]] \in Samples
    BY <2>1
  <2>3. a[p[1]].index \in Nat /\ b[p[2]].value - a[p[1]].value \in Int
    <3>1. /\ a[p[1]].index \in Nat /\ a[p[1]].value \in Nat /\ b[p[2]].value \in Nat
      BY <2>2 DEF Samples
    <3> QED
      BY <3>1
  <2> QED
    BY <2>1, <2>3 DEF Difference
<1> QED
  BY <1>4, <1>5

(* A place is aligned if the places it may go on from are. *)
LEMMA AlignedStep ==
  ASSUME NEW a \in Seq(Samples), NEW b \in Seq(Samples), Ordered(a), Ordered(b), NEW w,
         \A at \in Grid(a, b) : w[at] = WalkStep(a, b, w, at),
         NEW at \in Grid(a, b),
         \A next \in Grid(a, b) : Ahead(a, b, next) < Ahead(a, b, at) => Aligned(a, b, w, next)
  PROVE  Aligned(a, b, w, at)
<1>1. /\ Len(a) \in Nat /\ Len(b) \in Nat
      /\ at = <<at[1], at[2]>> /\ at[1] \in Nat /\ at[2] \in Nat
      /\ at[1] >= 1 /\ at[1] <= Len(a) + 1 /\ at[2] >= 1 /\ at[2] <= Len(b) + 1
  BY GridFacts
<1>2. w[at] = WalkStep(a, b, w, at)
  OBVIOUS
<1>3. \A i \in 1..Len(a) : a[i].index \in Nat
  <2>1. \A i \in 1..Len(a) : a[i] \in Samples
    OBVIOUS
  <2> QED
    BY <2>1 DEF Samples
<1>4. \A j \in 1..Len(b) : b[j].index \in Nat
  <2>1. \A j \in 1..Len(b) : b[j] \in Samples
    OBVIOUS
  <2> QED
    BY <2>1 DEF Samples
<1>5. ASSUME NEW i \in 1..Len(a), i > at[1] PROVE at[1] \in 1..Len(a) /\ a[at[1]].index < a[i].index
  BY <1>1, <1>5 DEF Ordered
<1>6. ASSUME NEW j \in 1..Len(b), j > at[2] PROVE at[2] \in 1..Len(b) /\ b[at[2]].index < b[j].index
  BY <1>1, <1>6 DEF Ordered
<1>7. CASE at[1] > Len(a) \/ at[2] > Len(b)
  <2>1. w[at] = <<>>
    BY <1>2, <1>7 DEF WalkStep
  <2>2. Sees(a, b, at) = {}
    <3> SUFFICES ASSUME NEW p \in Sees(a, b, at) PROVE FALSE
      OBVIOUS
    <3>1. p[1] \in 1..Len(a) /\ p[2] \in 1..Len(b) /\ p[1] >= at[1] /\ p[2] >= at[2]
      BY DEF Sees
    <3> QED
      BY <1>1, <1>7, <3>1
  <2>3. ToSet(<<>>) = {} /\ Len(<<>>) = 0 /\ <<>> \in Seq([index : Nat, difference : Int])
    BY DEF ToSet
  <2> QED
    BY <2>1, <2>2, <2>3, FS_EmptySet DEF Aligned
<1>8. CASE at[1] <= Len(a) /\ at[2] <= Len(b)
  <2> DEFINE i == at[1]
             j == at[2]
  <2>1. i \in 1..Len(a) /\ j \in 1..Len(b) /\ a[i].index \in Nat /\ b[j].index \in Nat
    BY <1>1, <1>3, <1>4, <1>8
  <2>2. \A next \in {<<i + 1, j>>, <<i, j + 1>>, <<i + 1, j + 1>>} : Aligned(a, b, w, next)
    BY <1>8, GridSteps
  <2>3. CASE a[i].index < b[j].index
    <3>1. w[at] = w[<<i + 1, j>>]
      BY <1>1, <1>2, <2>1, <2>3 DEF WalkStep
    <3>2. ASSUME NEW p \in (1..Len(a)) \X (1..Len(b)), p[1] >= i, p[2] >= j,
                 a[p[1]].index = b[p[2]].index
          PROVE  p[1] >= i + 1
      <4>1. p[1] \in 1..Len(a) /\ p[2] \in 1..Len(b)
        OBVIOUS
      <4>2. b[j].index <= b[p[2]].index
        <5>1. CASE p[2] = j
          BY <2>1, <5>1
        <5>2. CASE p[2] > j
          <6>1. b[j].index < b[p[2]].index
            BY <1>6, <4>1, <5>2
          <6> QED
            BY <1>4, <2>1, <4>1, <6>1
        <5> QED
          BY <1>1, <3>2, <4>1, <5>1, <5>2
      <4>3. p[1] # i
        BY <1>4, <2>1, <2>3, <3>2, <4>1, <4>2
      <4> QED
        BY <1>1, <3>2, <4>1, <4>3
    <3>3. Sees(a, b, at) = Sees(a, b, <<i + 1, j>>)
      <4>1. <<i + 1, j>>[1] = i + 1 /\ <<i + 1, j>>[2] = j
        OBVIOUS
      <4>2. ASSUME NEW p \in (1..Len(a)) \X (1..Len(b)), p[1] >= i + 1 PROVE p[1] >= i
        BY <1>1, <4>2
      <4> QED
        BY <3>2, <4>1, <4>2 DEF Sees
    <3> QED
      BY <2>2, <3>1, <3>3 DEF Aligned
  <2>4. CASE a[i].index > b[j].index
    <3>1. w[at] = w[<<i, j + 1>>]
      BY <1>1, <1>2, <2>1, <2>4 DEF WalkStep
    <3>2. ASSUME NEW p \in (1..Len(a)) \X (1..Len(b)), p[1] >= i, p[2] >= j,
                 a[p[1]].index = b[p[2]].index
          PROVE  p[2] >= j + 1
      <4>1. p[1] \in 1..Len(a) /\ p[2] \in 1..Len(b)
        OBVIOUS
      <4>2. a[i].index <= a[p[1]].index
        <5>1. CASE p[1] = i
          BY <2>1, <5>1
        <5>2. CASE p[1] > i
          <6>1. a[i].index < a[p[1]].index
            BY <1>5, <4>1, <5>2
          <6> QED
            BY <1>3, <2>1, <4>1, <6>1
        <5> QED
          BY <1>1, <3>2, <4>1, <5>1, <5>2
      <4>3. p[2] # j
        BY <1>3, <2>1, <2>4, <3>2, <4>1, <4>2
      <4> QED
        BY <1>1, <3>2, <4>1, <4>3
    <3>3. Sees(a, b, at) = Sees(a, b, <<i, j + 1>>)
      <4>1. <<i, j + 1>>[1] = i /\ <<i, j + 1>>[2] = j + 1
        OBVIOUS
      <4>2. ASSUME NEW p \in (1..Len(a)) \X (1..Len(b)), p[2] >= j + 1 PROVE p[2] >= j
        BY <1>1, <4>2
      <4> QED
        BY <3>2, <4>1, <4>2 DEF Sees
    <3> QED
      BY <2>2, <3>1, <3>3 DEF Aligned
  <2>5. CASE a[i].index = b[j].index
    <3> DEFINE next == <<i + 1, j + 1>>
               more == Sees(a, b, next)
               tail == w[next]
               first == Difference(a, b, at)
    <3>1. w[at] = <<first>> \o tail
      <4>1. ~(at[1] > Len(a) \/ at[2] > Len(b))
        BY <1>1, <1>8
      <4>2. ~(a[i].index < b[j].index) /\ ~(a[i].index > b[j].index)
        BY <2>1, <2>5
      <4> QED
        BY <1>2, <4>1, <4>2 DEF WalkStep
    <3>2. at \in Sees(a, b, at)
      BY <1>1, <2>1, <2>5 DEF Sees
    <3>3. ASSUME NEW p \in Sees(a, b, at), p # at PROVE p \in more
      <4>1. /\ p \in (1..Len(a)) \X (1..Len(b)) /\ p = <<p[1], p[2]>>
            /\ p[1] \in 1..Len(a) /\ p[2] \in 1..Len(b)
            /\ p[1] >= i /\ p[2] >= j /\ a[p[1]].index = b[p[2]].index
        BY SeesFacts DEF Sees
      <4>2. p[1] > i \/ p[2] > j
        BY <1>1, <3>3, <4>1
      <4>3. p[1] > i => a[i].index < a[p[1]].index
        BY <1>5, <4>1
      <4>4. p[2] > j => b[j].index < b[p[2]].index
        BY <1>6, <4>1
      <4>5. a[p[1]].index \in Nat /\ b[p[2]].index \in Nat
        BY <1>3, <1>4, <4>1
      <4>6. p[1] # i /\ p[2] # j
        BY <2>1, <2>5, <4>1, <4>2, <4>3, <4>4, <4>5
      <4>7. p[1] >= i + 1 /\ p[2] >= j + 1
        BY <1>1, <4>1, <4>6
      <4>8. next[1] = i + 1 /\ next[2] = j + 1
        OBVIOUS
      <4> QED
        BY <4>1, <4>7, <4>8 DEF Sees
    <3>4. ASSUME NEW p \in more PROVE p \in Sees(a, b, at) /\ p # at
      <4>1. /\ p \in (1..Len(a)) \X (1..Len(b)) /\ p[1] >= i + 1 /\ p[2] >= j + 1
            /\ a[p[1]].index = b[p[2]].index /\ p[1] \in 1..Len(a) /\ p[2] \in 1..Len(b)
        BY DEF Sees
      <4>2. p[1] >= i /\ p[2] >= j /\ p[1] # i
        BY <1>1, <4>1
      <4> QED
        BY <4>1, <4>2 DEF Sees
    <3>5. Sees(a, b, at) = more \cup {at} /\ at \notin more
      BY <3>2, <3>3, <3>4
    <3>6. Aligned(a, b, w, next)
      BY <2>2
    <3>7. first \in [index : Nat, difference : Int]
      BY <3>2, SeesFacts
    <3>8. /\ IsFiniteSet(more) /\ Cardinality(more) \in Nat
          /\ Cardinality(Sees(a, b, at)) = Cardinality(more) + 1
      <4>1. IsFiniteSet(more) /\ Cardinality(more) \in Nat
        BY SeesFacts
      <4> HIDE DEF more
      <4> QED
        BY <3>5, <4>1, FS_AddElement
    <3>9. /\ tail \in Seq([index : Nat, difference : Int])
          /\ Len(tail) = Cardinality(more)
          /\ ToSet(tail) = {Difference(a, b, p) : p \in more}
      BY <3>6 DEF Aligned
    <3>10. /\ w[at] \in Seq([index : Nat, difference : Int])
           /\ Len(w[at]) = Len(tail) + 1
           /\ ToSet(w[at]) = {first} \cup ToSet(tail)
      <4> HIDE DEF first, tail
      <4>1. <<first>> \in Seq([index : Nat, difference : Int]) /\ Len(<<first>>) = 1
            /\ <<first>>[1] = first
        BY <3>7
      <4>2. /\ w[at] \in Seq([index : Nat, difference : Int])
            /\ Len(w[at]) = 1 + Len(tail)
            /\ \A k \in 1..(1 + Len(tail)) :
                 w[at][k] = IF k <= 1 THEN <<first>>[k] ELSE tail[k - 1]
        <5>1. tail \in Seq([index : Nat, difference : Int])
          BY <3>9
        <5>2. /\ <<first>> \o tail \in Seq([index : Nat, difference : Int])
              /\ Len(<<first>> \o tail) = Len(<<first>>) + Len(tail)
              /\ \A k \in 1..(Len(<<first>>) + Len(tail)) :
                   (<<first>> \o tail)[k]
                     = IF k <= Len(<<first>>) THEN <<first>>[k] ELSE tail[k - Len(<<first>>)]
          BY <4>1, <5>1, ConcatProperties
        <5>3. Len(<<first>>) = 1
          BY <4>1
        <5> QED
          BY <3>1, <5>2, <5>3
      <4>3. Len(tail) \in Nat /\ DOMAIN tail = 1..Len(tail) /\ DOMAIN w[at] = 1..(1 + Len(tail))
        <5>1. tail \in Seq([index : Nat, difference : Int])
          BY <3>9
        <5>2. DOMAIN w[at] = 1..Len(w[at])
          BY <4>2
        <5> QED
          BY <4>2, <5>1, <5>2
      <4>4. w[at][1] = first /\ \A k \in 1..Len(tail) : w[at][k + 1] = tail[k]
        <5>1. 1 \in 1..(1 + Len(tail)) /\ w[at][1] = <<first>>[1]
          BY <4>2, <4>3
        <5>2. ASSUME NEW k \in 1..Len(tail) PROVE w[at][k + 1] = tail[k]
          <6>1. k + 1 \in 1..(1 + Len(tail)) /\ ~(k + 1 <= 1) /\ (k + 1) - 1 = k
            BY <4>3
          <6> QED
            BY <4>2, <6>1
        <5> QED
          BY <4>1, <5>1, <5>2
      <4>5. ToSet(w[at]) \subseteq {first} \cup ToSet(tail)
        <5> SUFFICES ASSUME NEW k \in 1..(1 + Len(tail))
                     PROVE  w[at][k] = first \/ \E l \in 1..Len(tail) : w[at][k] = tail[l]
          BY <4>3 DEF ToSet
        <5>1. k = 1 \/ (k - 1 \in 1..Len(tail) /\ k = (k - 1) + 1)
          BY <4>3
        <5> QED
          BY <4>4, <5>1
      <4>6. {first} \cup ToSet(tail) \subseteq ToSet(w[at])
        <5>1. 1 \in DOMAIN w[at] /\ \A k \in 1..Len(tail) : k + 1 \in DOMAIN w[at]
          BY <4>3
        <5> QED
          BY <4>3, <4>4, <5>1 DEF ToSet
      <4> QED
        BY <4>2, <4>3, <4>5, <4>6
    <3>11. {Difference(a, b, p) : p \in Sees(a, b, at)} = {first} \cup {Difference(a, b, p) : p \in more}
      <4> HIDE DEF more
      <4> QED
        BY <3>5
    <3> HIDE DEF more, tail, first
    <3>12. Len(w[at]) = Cardinality(Sees(a, b, at))
      BY <3>8, <3>9, <3>10
    <3> QED
      BY <3>9, <3>10, <3>11, <3>12 DEF Aligned
  <2> QED
    BY <2>1, <2>3, <2>4, <2>5
<1> QED
  BY <1>1, <1>7, <1>8

(* So all of the walk is: its pairs are the places of equal indices, each once. *)
LEMMA PairsAligned ==
  ASSUME NEW a \in Seq(Samples), NEW b \in Seq(Samples), Ordered(a), Ordered(b)
  PROVE  /\ Len(Pairs(a, b)) = Cardinality(Sees(a, b, <<1, 1>>))
         /\ ToSet(Pairs(a, b)) = {Difference(a, b, p) : p \in Sees(a, b, <<1, 1>>)}
<1>1. PICK w : /\ Pairs(a, b) = w[<<1, 1>>]
               /\ \A at \in Grid(a, b) : w[at] = WalkStep(a, b, w, at)
  BY PairsIsWalk
<1> DEFINE S == {n \in Nat : \A at \in Grid(a, b) : Ahead(a, b, at) < n => Aligned(a, b, w, at)}
<1>2. 0 \in S
  BY GridFacts
<1>3. ASSUME NEW n \in S PROVE n + 1 \in S
  <2> SUFFICES ASSUME NEW at \in Grid(a, b), Ahead(a, b, at) < n + 1 PROVE Aligned(a, b, w, at)
    OBVIOUS
  <2>1. ASSUME NEW next \in Grid(a, b), Ahead(a, b, next) < Ahead(a, b, at)
        PROVE  Aligned(a, b, w, next)
    <3>1. Ahead(a, b, next) \in Nat /\ Ahead(a, b, at) \in Nat /\ n \in Nat
      BY GridFacts
    <3>2. Ahead(a, b, next) < n
      BY <2>1, <3>1
    <3> QED
      BY <3>2
  <2> QED
    BY <1>1, <2>1, AlignedStep
<1>4. S \subseteq Nat
  OBVIOUS
<1> HIDE DEF S
<1>5. S = Nat
  BY <1>2, <1>3, <1>4, SetInduction
<1>6. <<1, 1>> \in Grid(a, b)
  <2>1. Len(a) \in Nat /\ Len(b) \in Nat
    OBVIOUS
  <2> QED
    BY <2>1 DEF Grid
<1>7. Ahead(a, b, <<1, 1>>) + 1 \in S /\ Ahead(a, b, <<1, 1>>) \in Nat
  BY <1>5, <1>6, GridFacts
<1>8. Aligned(a, b, w, <<1, 1>>)
  <2>1. \A at \in Grid(a, b) : Ahead(a, b, at) < Ahead(a, b, <<1, 1>>) + 1 => Aligned(a, b, w, at)
    BY <1>7 DEF S
  <2> QED
    BY <1>6, <1>7, <2>1
<1> QED
  BY <1>1, <1>8 DEF Aligned

-----------------------------------------------------------------------------
(* Ranks of values, and the lower median. *)

(* A set of numbers has a least one. *)
LEMMA LeastNumber ==
  ASSUME NEW S \in SUBSET Nat, S # {}
  PROVE  \E x \in S : \A y \in S : x <= y
<1> DEFINE R == OpToRel(<, Nat)
<1>1. IsWellFoundedOn(R, Nat)
  BY NatLessThanWellFounded
<1>2. \A x, y \in Nat : <<x, y>> \in R <=> x < y
  BY DEF OpToRel
<1> HIDE DEF R
<1>3. PICK x \in S : \A y \in S : <<y, x>> \notin R
  BY <1>1, WFMin
<1>4. \A y \in S : x \in Nat /\ y \in Nat /\ ~(y < x)
  BY <1>2, <1>3
<1> QED
  BY <1>4

(* The values of a sequence are bounded. *)
LEMMA Bounded ==
  ASSUME NEW values \in Seq(Nat)
  PROVE  \E bound \in Nat : \A i \in 1..Len(values) : values[i] <= bound
<1> DEFINE S == {n \in Nat : \E bound \in Nat : \A i \in 1..Len(values) :
                   i <= n => values[i] <= bound}
<1>1. Len(values) \in Nat /\ \A i \in 1..Len(values) : values[i] \in Nat /\ i \in Nat /\ i >= 1
  OBVIOUS
<1>2. 0 \in S
  <2>1. \A i \in 1..Len(values) : ~(i <= 0)
    BY <1>1
  <2> QED
    BY <2>1
<1>3. ASSUME NEW n \in S PROVE n + 1 \in S
  <2>0. n + 1 \in Nat
    OBVIOUS
  <2>1. PICK bound \in Nat : \A i \in 1..Len(values) : i <= n => values[i] <= bound
    OBVIOUS
  <2>2. CASE n + 1 \in 1..Len(values)
    <3> DEFINE more == bound + values[n + 1]
    <3>1. more \in Nat /\ bound <= more /\ values[n + 1] <= more
      BY <1>1, <2>2
    <3>2. ASSUME NEW i \in 1..Len(values), i <= n + 1 PROVE values[i] <= more
      <4>1. CASE i = n + 1
        BY <3>1, <4>1
      <4>2. CASE i # n + 1
        <5>1. i <= n
          BY <1>1, <3>2, <4>2
        <5>2. values[i] <= bound
          BY <2>1, <5>1
        <5> HIDE DEF more
        <5> QED
          BY <1>1, <3>1, <5>2
      <4> QED
        BY <4>1, <4>2
    <3> HIDE DEF more
    <3>3. \E m \in Nat : \A i \in 1..Len(values) : i <= n + 1 => values[i] <= m
      BY <3>1, <3>2
    <3> QED
      BY <2>0, <3>3, Zenon
  <2>3. CASE n + 1 \notin 1..Len(values)
    <3>1. ASSUME NEW i \in 1..Len(values), i <= n + 1 PROVE i <= n
      <4>1. i # n + 1 /\ i \in Nat /\ n \in Nat
        BY <2>3
      <4> QED
        BY <3>1, <4>1
    <3>2. \E m \in Nat : \A i \in 1..Len(values) : i <= n + 1 => values[i] <= m
      BY <2>1, <3>1
    <3> QED
      BY <2>0, <3>2, Zenon
  <2> QED
    BY <2>2, <2>3
<1>4. S \subseteq Nat
  OBVIOUS
<1> HIDE DEF S
<1>5. S = Nat
  BY <1>2, <1>3, <1>4, SetInduction
<1>6. Len(values) \in S
  BY <1>1, <1>5
<1>7. PICK bound \in Nat : \A i \in 1..Len(values) : i <= Len(values) => values[i] <= bound
  BY <1>6 DEF S
<1>8. \A i \in 1..Len(values) : i <= Len(values)
  BY <1>1
<1> QED
  BY <1>7, <1>8

-----------------------------------------------------------------------------
(* Medians. *)

Below(values, v) == {i \in DOMAIN values : values[i] < v}
UpTo(values, v) == {i \in DOMAIN values : values[i] <= v}

(* What is below or up to a value is a finite number of places. *)
LEMMA CountFacts ==
  ASSUME NEW values \in Seq(Nat), NEW v
  PROVE  /\ Len(values) \in Nat /\ DOMAIN values = 1..Len(values)
         /\ \A i \in DOMAIN values : values[i] \in Nat
         /\ \A P \in SUBSET DOMAIN values :
              IsFiniteSet(P) /\ Cardinality(P) \in Nat /\ Cardinality(P) <= Len(values)
         /\ Below(values, v) \in SUBSET DOMAIN values
         /\ UpTo(values, v) \in SUBSET DOMAIN values
         /\ Cardinality(DOMAIN values) = Len(values)
<1>1. Len(values) \in Nat /\ DOMAIN values = 1..Len(values) /\ \A i \in DOMAIN values : values[i] \in Nat
  OBVIOUS
<1>2. IsFiniteSet(1..Len(values)) /\ Cardinality(1..Len(values)) = Len(values)
  <2>1. /\ IsFiniteSet(1..Len(values))
        /\ Cardinality(1..Len(values)) = IF 1 > Len(values) THEN 0 ELSE Len(values) - 1 + 1
    BY <1>1, FS_Interval
  <2> QED
    BY <1>1, <2>1
<1>3. \A P \in SUBSET (1..Len(values)) :
        IsFiniteSet(P) /\ Cardinality(P) \in Nat /\ Cardinality(P) <= Len(values)
  BY <1>2, FS_Subset, FS_CardinalityType
<1> QED
  BY <1>1, <1>2, <1>3 DEF Below, UpTo

(* The k-th smallest value is there, with k places up to it. *)
LEMMA RankedFacts ==
  ASSUME NEW values \in Seq(Nat), NEW k \in 1..Len(values)
  PROVE  /\ Ranked(values, k) \in Nat
         /\ Cardinality(Below(values, Ranked(values, k))) < k
         /\ k <= Cardinality(UpTo(values, Ranked(values, k)))
<1> DEFINE V == {v \in Nat : k <= Cardinality(UpTo(values, v))}
<1>1. Len(values) \in Nat /\ DOMAIN values = 1..Len(values) /\ k \in Nat /\ k >= 1 /\ k <= Len(values)
  OBVIOUS
<1>2. V # {}
  <2>1. PICK bound \in Nat : \A i \in 1..Len(values) : values[i] <= bound
    BY Bounded
  <2>2. UpTo(values, bound) = DOMAIN values
    BY <1>1, <2>1 DEF UpTo
  <2>3. Cardinality(UpTo(values, bound)) = Len(values)
    BY <2>2, CountFacts
  <2> QED
    BY <1>1, <2>3
<1>3. PICK v \in V : \A u \in V : v <= u
  <2>1. V \in SUBSET Nat
    OBVIOUS
  <2> HIDE DEF V
  <2> QED
    BY <1>2, <2>1, LeastNumber
<1>4. v \in Nat /\ k <= Cardinality(UpTo(values, v))
  OBVIOUS
<1>5. Cardinality(Below(values, v)) < k
  <2>1. CASE v = 0
    <3>1. Below(values, v) = {}
      <4>1. \A i \in DOMAIN values : ~(values[i] < 0)
        BY CountFacts
      <4> QED
        BY <2>1, <4>1 DEF Below
    <3> QED
      BY <1>1, <3>1, FS_EmptySet
  <2>2. CASE v # 0
    <3>1. v - 1 \in Nat /\ ~(v <= v - 1)
      BY <1>4, <2>2
    <3>2. v - 1 \notin V
      BY <1>3, <3>1
    <3>3. Below(values, v) = UpTo(values, v - 1)
      <4>1. \A i \in DOMAIN values : values[i] < v <=> values[i] <= v - 1
        BY <1>4, CountFacts
      <4> QED
        BY <4>1 DEF Below, UpTo
    <3>4. Cardinality(UpTo(values, v - 1)) \in Nat
      BY CountFacts
    <3> QED
      BY <1>1, <3>1, <3>2, <3>3, <3>4
  <2> QED
    BY <2>1, <2>2
<1>6. v \in ToSet(values)
  <2>1. Below(values, v) # UpTo(values, v)
    <3>1. Cardinality(Below(values, v)) \in Nat /\ Cardinality(UpTo(values, v)) \in Nat
      BY CountFacts
    <3>2. Cardinality(Below(values, v)) # Cardinality(UpTo(values, v))
      BY <1>1, <1>4, <1>5, <3>1
    <3> QED
      BY <3>2
  <2>2. \A i \in DOMAIN values : values[i] \in Nat
    BY CountFacts
  <2>3. \E i \in DOMAIN values : values[i] = v
    BY <1>4, <2>1, <2>2 DEF Below, UpTo
  <2> QED
    BY <2>3 DEF ToSet
<1>7. /\ Ranked(values, k) \in ToSet(values)
      /\ Cardinality({i \in DOMAIN values : values[i] < Ranked(values, k)}) < k
      /\ k <= Cardinality({i \in DOMAIN values : values[i] <= Ranked(values, k)})
  BY <1>4, <1>5, <1>6 DEF Ranked, Below, UpTo
<1>8. Ranked(values, k) \in Nat
  <2>1. \A i \in DOMAIN values : values[i] \in Nat
    BY CountFacts
  <2> QED
    BY <1>7, <2>1 DEF ToSet
<1> QED
  BY <1>7, <1>8 DEF Below, UpTo

(* Values of higher rank are not smaller. *)
LEMMA RankedGrows ==
  ASSUME NEW values \in Seq(Nat), NEW k \in 1..Len(values), NEW l \in 1..Len(values), k <= l
  PROVE  Ranked(values, k) <= Ranked(values, l)
<1> DEFINE u == Ranked(values, k)
           v == Ranked(values, l)
<1>1. /\ u \in Nat /\ Cardinality(Below(values, u)) < k
      /\ v \in Nat /\ l <= Cardinality(UpTo(values, v))
  BY RankedFacts
<1> HIDE DEF u, v
<1>2. SUFFICES ASSUME v < u PROVE FALSE
  BY <1>1 DEF u, v
<1>3. UpTo(values, v) \subseteq Below(values, u)
  <2>1. \A i \in DOMAIN values : values[i] \in Nat
    BY CountFacts
  <2>2. \A i \in DOMAIN values : values[i] <= v => values[i] < u
    BY <1>1, <1>2, <2>1
  <2> QED
    BY <2>2 DEF UpTo, Below
<1>4. Cardinality(UpTo(values, v)) <= Cardinality(Below(values, u))
  <2>1. IsFiniteSet(Below(values, u))
    BY CountFacts
  <2> QED
    BY <1>3, <2>1, FS_Subset
<1>5. Cardinality(UpTo(values, v)) \in Nat /\ Cardinality(Below(values, u)) \in Nat
  BY CountFacts
<1>6. k \in Nat /\ l \in Nat
  OBVIOUS
<1> QED
  BY <1>1, <1>4, <1>5, <1>6

(* The ranks the median is made of. *)
LEMMA Halves ==
  ASSUME NEW n \in Nat \ {0}
  PROVE  /\ (n + 1) \div 2 \in 1..n /\ n \div 2 + 1 \in 1..n
         /\ (n + 1) \div 2 <= n \div 2 + 1
         /\ 2 * ((n + 1) \div 2) >= n
OBVIOUS

(* The doubled median is twice the lower one or more. *)
LEMMA MedianFacts ==
  ASSUME NEW values \in Seq(Nat), values # <<>>
  PROVE  /\ TwiceMedian(values) \in Nat
         /\ 2 * Ranked(values, (Len(values) + 1) \div 2) <= TwiceMedian(values)
<1> DEFINE n == Len(values)
           low == Ranked(values, (n + 1) \div 2)
           high == Ranked(values, n \div 2 + 1)
<1>1. n \in Nat \ {0}
  OBVIOUS
<1>2. (n + 1) \div 2 \in 1..n /\ n \div 2 + 1 \in 1..n /\ (n + 1) \div 2 <= n \div 2 + 1
  BY <1>1, Halves
<1>3. low \in Nat /\ high \in Nat /\ low <= high
  BY <1>2, RankedFacts, RankedGrows
<1>4. TwiceMedian(values) = low + high
  BY DEF TwiceMedian
<1> HIDE DEF low, high
<1>5. TwiceMedian(values) \in Nat /\ 2 * low <= TwiceMedian(values)
  BY <1>3, <1>4
<1> QED
  BY <1>5 DEF low

-----------------------------------------------------------------------------
(* No more than half is outlying; and totals. *)

(* The values of samples. *)
LEMMA ValuesFacts ==
  ASSUME NEW s \in Seq(Samples)
  PROVE  Values(s) \in Seq(Nat) /\ Len(Values(s)) = Len(s) /\ DOMAIN s = 1..Len(s) /\ Len(s) \in Nat
<1>1. Len(s) \in Nat /\ DOMAIN s = 1..Len(s) /\ \A i \in 1..Len(s) : s[i] \in Samples
  OBVIOUS
<1>2. \A i \in 1..Len(s) : s[i].value \in Nat
  BY <1>1 DEF Samples
<1>3. Values(s) = [i \in 1..Len(s) |-> s[i].value]
  BY <1>1 DEF Values
<1> QED
  BY <1>1, <1>2, <1>3

(* The deviations of values. *)
LEMMA DeviationFacts ==
  ASSUME NEW values \in Seq(Nat), values # <<>>
  PROVE  /\ TwiceDeviations(values) \in Seq(Nat)
         /\ Len(TwiceDeviations(values)) = Len(values)
<1>1. TwiceMedian(values) \in Nat
  BY MedianFacts
<1>2. Len(values) \in Nat /\ DOMAIN values = 1..Len(values) /\ \A i \in 1..Len(values) : values[i] \in Nat
  OBVIOUS
<1>3. \A m, n \in Nat : Distance(m, n) \in Nat
  BY DEF Distance
<1>4. \A i \in 1..Len(values) : Distance(2 * values[i], TwiceMedian(values)) \in Nat
  <2>1. \A i \in 1..Len(values) : 2 * values[i] \in Nat
    BY <1>2
  <2> QED
    BY <1>1, <1>3, <2>1
<1>5. TwiceDeviations(values) = [i \in 1..Len(values) |-> Distance(2 * values[i], TwiceMedian(values))]
  BY <1>2 DEF TwiceDeviations
<1> QED
  BY <1>2, <1>4, <1>5

(* At most half of the samples are outlying. *)
LEMMA HalfIsRetained ==
  ASSUME NEW s \in Seq(Samples), NEW m \in Nat
  PROVE  /\ Retained(s, m) \in Seq(Samples) /\ Excluded(s, m) \in Seq(Samples)
         /\ Ordered(s) => Ordered(Retained(s, m))
         /\ Len(Excluded(s, m)) <= Len(Retained(s, m))
<1> DEFINE kept == {i \in DOMAIN s : ~Outlying(s, m, i)}
           out == {i \in DOMAIN s : Outlying(s, m, i)}
<1>1. Len(s) \in Nat /\ DOMAIN s = 1..Len(s)
  OBVIOUS
<1>2. kept \in SUBSET (1..Len(s)) /\ out \in SUBSET (1..Len(s))
  BY <1>1
<1>3. kept \cap out = {} /\ kept \cup out = 1..Len(s)
  BY <1>1
<1>4. Retained(s, m) = Picked(s, kept) /\ Excluded(s, m) = Picked(s, out)
  BY DEF Retained, Excluded
<1>5. /\ kept = {} \/ Len(s) # 0
      /\ Len(s) # 0 => 2 * Cardinality(kept) >= Len(s)
  <2>1. CASE Len(s) = 0
    BY <1>1, <1>2, <2>1
  <2>2. CASE Len(s) # 0
    <3> DEFINE values == Values(s)
               n == Len(s)
               dev == TwiceDeviations(values)
               k == (n + 1) \div 2
               low == Ranked(dev, k)
    <3>1. values \in Seq(Nat) /\ values # <<>> /\ Len(values) = n
      BY <2>2, ValuesFacts
    <3>2. dev \in Seq(Nat) /\ Len(dev) = n /\ dev # <<>>
      <4>1. dev \in Seq(Nat) /\ Len(dev) = n
        BY <3>1, DeviationFacts
      <4> QED
        BY <2>2, <4>1
    <3>3. k \in 1..n /\ 2 * k >= n
      BY <1>1, <2>2, Halves
    <3>4. low \in Nat /\ k <= Cardinality(UpTo(dev, low))
      <4> HIDE DEF dev, k
      <4> QED
        BY <3>2, <3>3, RankedFacts
    <3>5. FourMads(values) \in Nat /\ 2 * low <= FourMads(values)
      <4> HIDE DEF dev
      <4>1. TwiceMedian(dev) \in Nat /\ 2 * Ranked(dev, (Len(dev) + 1) \div 2) <= TwiceMedian(dev)
        BY <3>2, MedianFacts
      <4> QED
        BY <3>2, <4>1 DEF FourMads, dev
    <3>6. UpTo(dev, low) \subseteq kept
      <4> HIDE DEF low, k
      <4>1. DOMAIN dev = 1..n /\ \A i \in 1..n : dev[i] \in Nat
        <5> HIDE DEF dev
        <5> QED
          BY <3>2
      <4> SUFFICES ASSUME NEW i \in 1..n, dev[i] <= low, m > 0,
                          2 * dev[i] > m * FourMads(values)
                   PROVE  FALSE
        BY <1>1, <4>1 DEF UpTo, Outlying
      <4>2. dev[i] \in Nat
        BY <4>1
      <4> HIDE DEF dev, values
      <4>3. FourMads(values) <= m * FourMads(values)
        BY <3>5
      <4> QED
        BY <3>4, <3>5, <4>2, <4>3
    <3> HIDE DEF low, k, dev, values, kept
    <3>7. IsFiniteSet(kept) /\ Cardinality(kept) \in Nat
      <4>1. IsFiniteSet(1..Len(s))
        BY <1>1, FS_Interval
      <4>2. IsFiniteSet(kept)
        BY <1>2, <4>1, FS_Subset
      <4> QED
        BY <4>2, FS_CardinalityType
    <3>8. Cardinality(UpTo(dev, low)) <= Cardinality(kept) /\ Cardinality(UpTo(dev, low)) \in Nat
      <4>1. Cardinality(UpTo(dev, low)) <= Cardinality(kept)
        BY <3>6, <3>7, FS_Subset
      <4>2. Cardinality(UpTo(dev, low)) \in Nat
        BY <3>2, CountFacts
      <4> QED
        BY <4>1, <4>2
    <3>9. 2 * Cardinality(kept) >= n
      <4>1. k \in Nat
        BY <3>3
      <4> QED
        BY <1>1, <3>3, <3>4, <3>7, <3>8, <4>1
    <3> QED
      BY <2>2, <3>9
  <2> QED
    BY <2>1, <2>2
<1> HIDE DEF kept, out
<1>6. /\ Picked(s, kept) \in Seq(Samples) /\ Len(Picked(s, kept)) = Cardinality(kept)
      /\ IsFiniteSet(kept) /\ Cardinality(kept) \in Nat
      /\ Ordered(s) => Ordered(Picked(s, kept))
  BY <1>2, PickedFacts
<1>7. /\ Picked(s, out) \in Seq(Samples) /\ Len(Picked(s, out)) = Cardinality(out)
      /\ IsFiniteSet(out) /\ Cardinality(out) \in Nat
  BY <1>2, PickedFacts
<1>8. Cardinality(kept) + Cardinality(out) = Len(s)
  <2>1. Cardinality(kept \cup out) = Cardinality(kept) + Cardinality(out) - Cardinality(kept \cap out)
    BY <1>6, <1>7, FS_Union
  <2>2. Cardinality(kept \cap out) = 0
    BY <1>3, FS_EmptySet
  <2>3. Cardinality(1..Len(s)) = Len(s)
    <3>1. 1 \in Int /\ Len(s) \in Int
      BY <1>1
    <3>2. Cardinality(1..Len(s)) = IF 1 > Len(s) THEN 0 ELSE Len(s) - 1 + 1
      BY <3>1, FS_Interval
    <3> QED
      BY <1>1, <3>2
  <2>4. Cardinality(kept \cup out) = Len(s)
    BY <1>3, <2>3
  <2> QED
    BY <1>1, <1>6, <1>7, <2>1, <2>2, <2>4
<1>9. Cardinality(out) <= Cardinality(kept)
  BY <1>1, <1>5, <1>6, <1>7, <1>8
<1> QED
  BY <1>4, <1>6, <1>7, <1>9

-----------------------------------------------------------------------------
(* Sums. *)

Summing(values, S, g, n) ==
  /\ g \in [SUBSET S -> Nat]
  /\ \A T \in SUBSET S :
       Cardinality(T) <= n =>
         g[T] = IF T = {} THEN 0
                ELSE values[CHOOSE x \in T : TRUE] + g[T \ {CHOOSE x \in T : TRUE}]

(* A function that sums over sets of that size can be made to over sets of one more. *)
LEMMA SummingGrows ==
  ASSUME NEW S, IsFiniteSet(S), NEW values, \A x \in S : values[x] \in Nat,
         NEW n \in Nat, NEW g, Summing(values, S, g, n)
  PROVE  \E h : Summing(values, S, h, n + 1)
<1> DEFINE Chosen(T) == CHOOSE x \in T : TRUE
           h == [T \in SUBSET S |-> IF Cardinality(T) = n + 1
                                    THEN values[Chosen(T)] + g[T \ {Chosen(T)}] ELSE g[T]]
<1>1. \A T \in SUBSET S : IsFiniteSet(T) /\ Cardinality(T) \in Nat /\ (Cardinality(T) = 0 <=> T = {})
  BY FS_Subset, FS_CardinalityType, FS_EmptySet
<1>2. ASSUME NEW T \in SUBSET S, T # {}
      PROVE  /\ Chosen(T) \in T /\ T \ {Chosen(T)} \in SUBSET S /\ values[Chosen(T)] \in Nat
             /\ Cardinality(T \ {Chosen(T)}) = Cardinality(T) - 1
  <2>1. Chosen(T) \in T
    BY <1>2
  <2> HIDE DEF Chosen
  <2>2. Cardinality(T \ {Chosen(T)}) = Cardinality(T) - 1
    BY <1>1, <2>1, FS_RemoveElement
  <2> QED
    BY <2>1, <2>2
<1>3. g \in [SUBSET S -> Nat]
  BY DEF Summing
<1> HIDE DEF Chosen
<1>4. h \in [SUBSET S -> Nat]
  <2>1. ASSUME NEW T \in SUBSET S, Cardinality(T) = n + 1
        PROVE  values[Chosen(T)] + g[T \ {Chosen(T)}] \in Nat
    <3>1. T # {}
      BY <1>1, <2>1
    <3>2. T \ {Chosen(T)} \in SUBSET S /\ values[Chosen(T)] \in Nat
      BY <1>2, <3>1
    <3>3. g[T \ {Chosen(T)}] \in Nat
      BY <1>3, <3>2
    <3> QED
      BY <3>2, <3>3
  <2> QED
    BY <1>3, <2>1
<1>5. ASSUME NEW T \in SUBSET S, Cardinality(T) <= n + 1
      PROVE  h[T] = IF T = {} THEN 0 ELSE values[Chosen(T)] + h[T \ {Chosen(T)}]
  <2>1. CASE T = {}
    <3>1. h[T] = g[T] /\ Cardinality(T) <= n
      BY <1>1, <2>1
    <3> QED
      BY <2>1, <3>1 DEF Summing
  <2>2. CASE T # {}
    <3>1. /\ T \ {Chosen(T)} \in SUBSET S /\ Cardinality(T \ {Chosen(T)}) = Cardinality(T) - 1
          /\ Cardinality(T) \in Nat
      BY <1>1, <1>2, <2>2
    <3>2. Cardinality(T \ {Chosen(T)}) # n + 1
      BY <1>5, <3>1
    <3>3. h[T \ {Chosen(T)}] = g[T \ {Chosen(T)}]
      BY <3>1, <3>2
    <3>4. CASE Cardinality(T) = n + 1
      <4>1. h[T] = values[Chosen(T)] + g[T \ {Chosen(T)}]
        BY <3>4
      <4> HIDE DEF h
      <4> QED
        BY <2>2, <3>3, <4>1
    <3>5. CASE Cardinality(T) # n + 1
      <4>1. h[T] = g[T] /\ Cardinality(T) <= n
        BY <1>5, <3>1, <3>5
      <4>2. g[T] = values[Chosen(T)] + g[T \ {Chosen(T)}]
        BY <2>2, <4>1 DEF Summing, Chosen
      <4> HIDE DEF h
      <4> QED
        BY <2>2, <3>3, <4>1, <4>2
    <3> QED
      BY <3>4, <3>5
  <2> QED
    BY <2>1, <2>2
<1> HIDE DEF h
<1>6. Summing(values, S, h, n + 1)
  BY <1>4, <1>5 DEF Summing, Chosen
<1> QED
  BY <1>6

(* So there is one for sets of any size. *)
LEMMA SumExists ==
  ASSUME NEW S, IsFiniteSet(S), NEW values, \A x \in S : values[x] \in Nat, NEW n \in Nat
  PROVE  \E g : Summing(values, S, g, n)
<1> DEFINE N == {m \in Nat : \E g : Summing(values, S, g, m)}
<1>1. 0 \in N
  <2> DEFINE g == [T \in SUBSET S |-> 0]
  <2>1. g \in [SUBSET S -> Nat]
    OBVIOUS
  <2>2. ASSUME NEW T \in SUBSET S, Cardinality(T) <= 0 PROVE T = {} /\ g[T] = 0
    <3>1. IsFiniteSet(T) /\ Cardinality(T) \in Nat
      BY FS_Subset, FS_CardinalityType
    <3> QED
      BY <2>2, <3>1, FS_EmptySet
  <2> HIDE DEF g
  <2>3. Summing(values, S, g, 0)
    BY <2>1, <2>2 DEF Summing
  <2> QED
    BY <2>3
<1>2. ASSUME NEW m \in N PROVE m + 1 \in N
  <2>1. m \in Nat /\ m + 1 \in Nat /\ \E g : Summing(values, S, g, m)
    OBVIOUS
  <2>2. \E h : Summing(values, S, h, m + 1)
    BY <2>1, SummingGrows
  <2> QED
    BY <2>1, <2>2
<1>3. N \subseteq Nat
  OBVIOUS
<1> HIDE DEF N
<1>4. n \in N
  BY <1>1, <1>2, <1>3, SetInduction
<1> QED
  BY <1>4 DEF N

(* The total of a sequence of numbers is a number. *)
LEMMA TotalIsNumber ==
  ASSUME NEW values \in Seq(Nat)
  PROVE  Total(values) \in Nat
<1> DEFINE S == DOMAIN values
           Chosen(T) == CHOOSE x \in T : TRUE
           Body(g) == [T \in SUBSET S |-> IF T = {} THEN 0 ELSE values[Chosen(T)] + g[T \ {Chosen(T)}]]
           iter == CHOOSE g : g = Body(g)
           n == Len(values)
<1>1. /\ n \in Nat /\ IsFiniteSet(S) /\ \A x \in S : values[x] \in Nat
      /\ \A T \in SUBSET S : Cardinality(T) <= n
  BY CountFacts
<1>2. PICK g : Summing(values, S, g, n)
  <2> HIDE DEF S, n
  <2> QED
    BY <1>1, SumExists
<1>3. g = Body(g)
  <2>1. g = [T \in SUBSET S |-> g[T]]
    BY <1>2 DEF Summing
  <2>2. \A T \in SUBSET S : g[T] = IF T = {} THEN 0 ELSE values[Chosen(T)] + g[T \ {Chosen(T)}]
    BY <1>1, <1>2 DEF Summing
  <2> HIDE DEF Chosen
  <2> QED
    BY <2>1, <2>2
<1>4. iter = Body(iter)
  <2> HIDE DEF Body
  <2> QED
    BY <1>3
<1>5. Total(values) = iter[S]
  BY DEF Total, FoldSeq, FoldFunction, FoldFunctionOnSet, MapThenFoldSet
<1> DEFINE Good == {m \in Nat : \A T \in SUBSET S : Cardinality(T) <= m => iter[T] \in Nat}
<1>6. \A T \in SUBSET S : iter[T] = IF T = {} THEN 0 ELSE values[Chosen(T)] + iter[T \ {Chosen(T)}]
  <2> HIDE DEF iter, Chosen
  <2> QED
    BY <1>4
<1>7. \A T \in SUBSET S : IsFiniteSet(T) /\ Cardinality(T) \in Nat /\ (Cardinality(T) = 0 <=> T = {})
  BY <1>1, FS_Subset, FS_CardinalityType, FS_EmptySet
<1> HIDE DEF iter
<1>8. 0 \in Good
  <2>1. ASSUME NEW T \in SUBSET S, Cardinality(T) <= 0 PROVE iter[T] \in Nat
    <3>1. T = {}
      BY <1>7, <2>1
    <3>2. iter[T] = 0
      BY <1>6, <3>1
    <3> QED
      BY <3>2
  <2> QED
    BY <2>1
<1>9. ASSUME NEW m \in Good PROVE m + 1 \in Good
  <2>1. ASSUME NEW T \in SUBSET S, Cardinality(T) <= m + 1 PROVE iter[T] \in Nat
    <3>1. CASE T = {}
      <4>1. iter[T] = 0
        BY <1>6, <3>1
      <4> QED
        BY <4>1
    <3>2. CASE T # {}
      <4>1. Chosen(T) \in T
        BY <3>2
      <4> HIDE DEF Chosen
      <4>2. Cardinality(T \ {Chosen(T)}) = Cardinality(T) - 1 /\ T \ {Chosen(T)} \in SUBSET S
        BY <1>7, <4>1, FS_RemoveElement
      <4>3. Cardinality(T \ {Chosen(T)}) <= m
        BY <1>7, <2>1, <4>2
      <4>4. iter[T \ {Chosen(T)}] \in Nat
        BY <4>2, <4>3
      <4>5. iter[T] = values[Chosen(T)] + iter[T \ {Chosen(T)}]
        BY <1>6, <3>2
      <4>6. values[Chosen(T)] \in Nat
        BY <1>1, <4>1
      <4> QED
        BY <4>4, <4>5, <4>6
    <3> QED
      BY <3>1, <3>2
  <2> QED
    BY <2>1
<1>10. Good \subseteq Nat
  OBVIOUS
<1> HIDE DEF Good
<1>11. n \in Good
  BY <1>1, <1>8, <1>9, <1>10, SetInduction
<1> QED
  BY <1>1, <1>5, <1>11 DEF Good

-----------------------------------------------------------------------------
(* The verdict. *)

(* A bijection keeps the number of members. *)
LEMMA SameSize ==
  ASSUME NEW S, IsFiniteSet(S), NEW T, NEW f \in [S -> T],
         \A x, y \in S : f[x] = f[y] => x = y,
         \A t \in T : \E x \in S : f[x] = t
  PROVE  IsFiniteSet(T) /\ Cardinality(T) = Cardinality(S)
<1>1. f \in Injection(S, T)
  BY DEF Injection, IsInjective
<1>2. f \in Surjection(S, T)
  BY DEF Surjection
<1>3. f \in Bijection(S, T)
  BY <1>1, <1>2 DEF Bijection
<1>4. ExistsBijection(S, T)
  BY <1>3 DEF ExistsBijection
<1> QED
  BY <1>4, FS_Bijection

(* The samples and the indices two sides have in common. *)
Common(a, b) == {p \in ToSet(a) \X ToSet(b) : p[1].index = p[2].index}

Indices(s) == {s[i].index : i \in DOMAIN s}

(* An index is at one place of an ordered side. *)
LEMMA IndexTellsPlace ==
  ASSUME NEW s \in Seq(Samples), Ordered(s),
         NEW i \in 1..Len(s), NEW j \in 1..Len(s), s[i].index = s[j].index
  PROVE  i = j
<1>1. s[i].index \in Nat /\ s[j].index \in Nat
  <2>1. s[i] \in Samples /\ s[j] \in Samples
    OBVIOUS
  <2> QED
    BY <2>1 DEF Samples
<1>2. i \in Int /\ j \in Int
  OBVIOUS
<1>3. ~(i < j) /\ ~(j < i)
  BY <1>1 DEF Ordered
<1> QED
  BY <1>2, <1>3

(* The equal places of the walk are the common samples, and the common indices. *)
LEMMA SeenIsCommon ==
  ASSUME NEW a \in Seq(Samples), NEW b \in Seq(Samples), Ordered(a), Ordered(b)
  PROVE  /\ Cardinality(Common(a, b)) = Cardinality(Sees(a, b, <<1, 1>>))
         /\ Cardinality(Indices(a) \cap Indices(b)) = Cardinality(Sees(a, b, <<1, 1>>))
         /\ {Difference(a, b, p) : p \in Sees(a, b, <<1, 1>>)}
              = {[index |-> p[1].index, difference |-> p[2].value - p[1].value] : p \in Common(a, b)}
<1> DEFINE S == Sees(a, b, <<1, 1>>)
           both(p) == <<a[p[1]], b[p[2]]>>
           f == [p \in S |-> both(p)]
           g == [p \in S |-> a[p[1]].index]
<1>1. /\ DOMAIN a = 1..Len(a) /\ DOMAIN b = 1..Len(b)
      /\ ToSet(a) = {a[i] : i \in 1..Len(a)} /\ ToSet(b) = {b[i] : i \in 1..Len(b)}
  BY DEF ToSet
<1>2. IsFiniteSet(S)
  BY SeesFacts
<1>3. ASSUME NEW p \in S
      PROVE  /\ p = <<p[1], p[2]>> /\ p[1] \in 1..Len(a) /\ p[2] \in 1..Len(b)
             /\ a[p[1]].index = b[p[2]].index
  BY <1>3, SeesFacts DEF Sees
<1>4. ASSUME NEW i \in 1..Len(a), NEW j \in 1..Len(b), a[i].index = b[j].index
      PROVE  <<i, j>> \in S
  BY <1>4 DEF Sees
<1>5. \A p \in S : both(p) \in Common(a, b)
  BY <1>1, <1>3 DEF Common
<1>6. ASSUME NEW q \in Common(a, b)
      PROVE  \E p \in S : both(p) = q
  <2>1. q = <<q[1], q[2]>> /\ q[1] \in ToSet(a) /\ q[2] \in ToSet(b) /\ q[1].index = q[2].index
    BY DEF Common
  <2>2. PICK i \in 1..Len(a), j \in 1..Len(b) : q[1] = a[i] /\ q[2] = b[j]
    BY <1>1, <2>1
  <2>3. <<i, j>> \in S
    BY <1>4, <2>1, <2>2
  <2>4. both(<<i, j>>) = q
    BY <2>1, <2>2
  <2> QED
    BY <2>3, <2>4
<1>7. ASSUME NEW p \in S, NEW q \in S, a[p[1]].index = a[q[1]].index
      PROVE  p = q
  <2>1. p[1] = q[1] /\ p[2] = q[2]
    <3>1. b[p[2]].index = b[q[2]].index
      BY <1>3, <1>7
    <3>2. p[1] \in 1..Len(a) /\ q[1] \in 1..Len(a) /\ p[2] \in 1..Len(b) /\ q[2] \in 1..Len(b)
      BY <1>3
    <3> QED
      BY <1>7, <3>1, <3>2, IndexTellsPlace
  <2> QED
    BY <1>3, <2>1
<1>8. Cardinality(Common(a, b)) = Cardinality(S)
  <2>1. f \in [S -> Common(a, b)]
    BY <1>5
  <2>2. \A p, q \in S : f[p] = f[q] => p = q
    BY <1>7
  <2>3. \A q \in Common(a, b) : \E p \in S : f[p] = q
    BY <1>6
  <2> HIDE DEF f, S
  <2> QED
    BY <1>2, <2>1, <2>2, <2>3, SameSize
<1>9. Cardinality(Indices(a) \cap Indices(b)) = Cardinality(S)
  <2>1. g \in [S -> Indices(a) \cap Indices(b)]
    <3>1. \A p \in S : a[p[1]].index \in Indices(a) /\ a[p[1]].index \in Indices(b)
      BY <1>1, <1>3 DEF Indices
    <3> QED
      BY <3>1
  <2>2. \A p, q \in S : g[p] = g[q] => p = q
    BY <1>7
  <2>3. ASSUME NEW n \in Indices(a) \cap Indices(b) PROVE \E p \in S : g[p] = n
    <3>1. PICK i \in 1..Len(a), j \in 1..Len(b) : n = a[i].index /\ n = b[j].index
      BY <1>1 DEF Indices
    <3>2. <<i, j>> \in S
      BY <1>4, <3>1
    <3>3. g[<<i, j>>] = n
      BY <3>1, <3>2
    <3> QED
      BY <3>2, <3>3
  <2> HIDE DEF g, S
  <2> QED
    BY <1>2, <2>1, <2>2, <2>3, SameSize
<1> DEFINE differs(q) == [index |-> q[1].index, difference |-> q[2].value - q[1].value]
<1>10. \A p \in S : Difference(a, b, p) = differs(both(p))
  BY DEF Difference
<1> HIDE DEF differs, both, S
<1>11. {Difference(a, b, p) : p \in S} = {differs(q) : q \in Common(a, b)}
  BY <1>5, <1>6, <1>10
<1> QED
  BY <1>8, <1>9, <1>11 DEF differs, S

(* A verdict of the comparison is earned: a pass had means of two values or
   more on each side, enough common indices and no regression beyond the
   threshold; the pairs are the common indices, each once; and no multiplier
   excludes more than half of a side (compare of bench/compare.rs), whatever
   the samples and the policy. *)
THEOREM EarnedVerdict ==
  ASSUME NEW baseline \in Seq(Samples), NEW candidate \in Seq(Samples),
         NEW compatible \in BOOLEAN, NEW direction \in {"lower", "higher"},
         NEW policy \in [minimum : Nat, dispersion : Nat, outlier : Nat, threshold : Nat]
  PROVE  VerdictIsEarned(baseline, candidate, compatible, direction, policy)
<1> SUFFICES ASSUME Admissible(baseline, candidate, policy)
             PROVE  LET report == Report(baseline, candidate, compatible, direction, policy)
                    IN  /\ PassIsEarned(report, compatible, direction, policy)
                        /\ PairsAreAligned(report)
                        /\ ExclusionIsMild(report, policy)
  BY DEF VerdictIsEarned
<1> DEFINE a == Retained(baseline, policy.outlier)
           b == Retained(candidate, policy.outlier)
           x == Excluded(baseline, policy.outlier)
           y == Excluded(candidate, policy.outlier)
           report == Report(baseline, candidate, compatible, direction, policy)
<1>1. policy.minimum \in Nat /\ policy.minimum >= 2 /\ policy.outlier \in Nat /\ policy.threshold \in Nat
  BY DEF Admissible, ValidPolicy
<1>2. Ordered(baseline) /\ Ordered(candidate)
  BY ValidIsOrdered DEF Admissible
<1>3. /\ a \in Seq(Samples) /\ Ordered(a) /\ Len(x) <= Len(a)
      /\ b \in Seq(Samples) /\ Ordered(b) /\ Len(y) <= Len(b)
  BY <1>1, <1>2, HalfIsRetained
<1>4. /\ report.baseline = a /\ report.candidate = b /\ report.excluded = <<x, y>>
      /\ report.pairs = Pairs(a, b)
      /\ report.outcome = Outcome(a, b, compatible, direction, policy)
  BY DEF Report
<1> HIDE DEF report, a, b, x, y
<1>5. /\ Len(Pairs(a, b)) = Cardinality(Common(a, b))
      /\ Len(Pairs(a, b)) = Cardinality(Indices(a) \cap Indices(b))
      /\ ToSet(Pairs(a, b))
           = {[index |-> p[1].index, difference |-> p[2].value - p[1].value] : p \in Common(a, b)}
  BY <1>3, PairsAligned, SeenIsCommon
<1>6. PassIsEarned(report, compatible, direction, policy)
  <2> SUFFICES ASSUME Outcome(a, b, compatible, direction, policy) = "pass"
               PROVE  /\ compatible
                      /\ Len(a) >= 2 /\ Len(b) >= 2
                      /\ Cardinality(Indices(a) \cap Indices(b)) >= policy.minimum
                      /\ LET worse  == IF direction = "lower" THEN b ELSE a
                             better == IF direction = "lower" THEN a ELSE b
                         IN  100 * Total(Values(worse)) * Len(better)
                               <= (100 + policy.threshold) * Total(Values(better)) * Len(worse)
    BY <1>4 DEF PassIsEarned, Indices
  <2>1. /\ Reasons(a, b, compatible, direction, policy) = {}
        /\ Summarized(a) /\ Summarized(b) => ~Regresses(a, b, direction, policy.threshold)
    BY DEF Outcome
  <2>2. /\ ~(Len(a) < policy.minimum) /\ ~(Len(b) < policy.minimum)
        /\ compatible /\ ~(Len(Pairs(a, b)) < policy.minimum)
    BY <2>1 DEF Reasons
  <2>3. Len(a) \in Nat /\ Len(b) \in Nat /\ Len(a) >= 2 /\ Len(b) >= 2
    BY <1>1, <1>3, <2>2
  <2>4. Cardinality(Indices(a) \cap Indices(b)) >= policy.minimum
    <3>1. Len(Pairs(a, b)) \in Nat
      BY <1>3, <1>5, PairsAligned, SeesFacts
    <3> QED
      BY <1>1, <1>5, <2>2, <3>1
  <2>5. Total(Values(a)) \in Nat /\ Total(Values(b)) \in Nat
    BY <1>3, ValuesFacts, TotalIsNumber
  <2> DEFINE worse  == IF direction = "lower" THEN b ELSE a
             better == IF direction = "lower" THEN a ELSE b
  <2>6. ~(100 * Total(Values(worse)) * Len(better)
            > (100 + policy.threshold) * Total(Values(better)) * Len(worse))
    BY <2>1, <2>3 DEF Regresses, Reference, Summarized
  <2>7. /\ 100 * Total(Values(worse)) * Len(better) \in Nat
        /\ (100 + policy.threshold) * Total(Values(better)) * Len(worse) \in Nat
    <3>1. /\ Total(Values(worse)) \in Nat /\ Len(better) \in Nat
          /\ Total(Values(better)) \in Nat /\ Len(worse) \in Nat
      BY <2>3, <2>5
    <3> HIDE DEF worse, better
    <3>2. \A m, n, o \in Nat : 100 * m * n \in Nat /\ (100 + o) * m * n \in Nat
      OBVIOUS
    <3> QED
      BY <1>1, <3>1, <3>2
  <2>8. 100 * Total(Values(worse)) * Len(better)
          <= (100 + policy.threshold) * Total(Values(better)) * Len(worse)
    <3> DEFINE m == 100 * Total(Values(worse)) * Len(better)
               n == (100 + policy.threshold) * Total(Values(better)) * Len(worse)
    <3>1. m \in Nat /\ n \in Nat /\ ~(m > n)
      BY <2>6, <2>7
    <3> HIDE DEF m, n
    <3>2. m <= n
      BY <3>1
    <3> QED
      BY <3>2 DEF m, n
  <2> QED
    BY <2>2, <2>3, <2>4, <2>8
<1>7. PairsAreAligned(report)
  BY <1>4, <1>5 DEF PairsAreAligned, Common
<1>8. ExclusionIsMild(report, policy)
  BY <1>3, <1>4 DEF ExclusionIsMild
<1> QED
  BY <1>6, <1>7, <1>8 DEF report

(***************************************************************************)
(* The evidence and the frozen policy.                                     *)
(***************************************************************************)

(* Any frozen policies, and results of any workloads. *)
PoliciesOf(Words, Workloads) ==
  [floor : Int, samples : Nat, dispersion : Nat, inconclusive : BOOLEAN, characterization : Words,
   decision : Words, cases : UNION {[ws -> Int] : ws \in SUBSET Workloads}]

(* A change that is let through under an old decision accepts no more than what it changes. *)
LEMMA NoWeakening ==
  ASSUME NEW Words, NEW Workloads,
         NEW p \in PoliciesOf(Words, Workloads), NEW q \in PoliciesOf(Words, Workloads),
         ~Weakened(p, q)
  PROVE  /\ p.floor <= q.floor /\ p.samples <= q.samples /\ q.dispersion <= p.dispersion /\ ~q.inconclusive
         /\ \A w \in DOMAIN p.cases : w \in DOMAIN q.cases /\ q.cases[w] <= p.cases[w]
<1>1. /\ p.floor \in Int /\ q.floor \in Int /\ p.samples \in Nat /\ q.samples \in Nat
      /\ p.dispersion \in Nat /\ q.dispersion \in Nat
  BY DEF PoliciesOf
<1>2. ASSUME NEW w \in DOMAIN p.cases PROVE w \in DOMAIN q.cases /\ q.cases[w] <= p.cases[w]
  <2>1. w \in DOMAIN q.cases /\ ~(q.cases[w] > p.cases[w])
    BY DEF Weakened
  <2>2. PICK ws \in SUBSET Workloads : p.cases \in [ws -> Int]
    BY DEF PoliciesOf
  <2>3. PICK vs \in SUBSET Workloads : q.cases \in [vs -> Int]
    BY DEF PoliciesOf
  <2>4. p.cases[w] \in Int /\ q.cases[w] \in Int
    BY <2>1, <2>2, <2>3
  <2> QED
    BY <2>1, <2>4
<1> QED
  BY <1>1, <1>2 DEF Weakened

ResultsOf(Workloads) ==
  [improvement : Int, samples : Nat, dispersion : Nat, conclusive : BOOLEAN, regression : [Workloads -> Int]]

(* reject_uncharacterized_weakening of jvm_acceptance.rs: whatever policies are frozen one
   after the other, the last accepts no result that the first would refuse, unless one of
   the changes came with new decisions. *)
THEOREM FrozenPolicy ==
  ASSUME NEW Words, NEW Workloads, NEW frozen \in PoliciesOf(Words, Workloads),
         NEW between \in PoliciesOf(Words, Workloads), NEW last \in PoliciesOf(Words, Workloads),
         NEW result \in ResultsOf(Workloads)
  PROVE  NoCreepingWeakening(frozen, between, last, result)
<1> DEFINE accepts(p) == /\ result.improvement >= p.floor /\ result.samples >= p.samples
                         /\ result.dispersion <= p.dispersion /\ (result.conclusive \/ p.inconclusive)
                         /\ \A w \in DOMAIN p.cases : result.regression[w] <= p.cases[w]
<1>1. ASSUME NEW p \in PoliciesOf(Words, Workloads), NEW q \in PoliciesOf(Words, Workloads),
             ~Weakened(p, q), accepts(q)
      PROVE  accepts(p)
  <2>1. /\ p.floor \in Int /\ q.floor \in Int /\ p.samples \in Nat /\ q.samples \in Nat
        /\ p.dispersion \in Nat /\ q.dispersion \in Nat
    BY DEF PoliciesOf
  <2>2. /\ result.improvement \in Int /\ result.samples \in Nat /\ result.dispersion \in Nat
        /\ result.regression \in [Workloads -> Int]
    BY DEF ResultsOf
  <2>3. /\ p.floor <= q.floor /\ p.samples <= q.samples /\ q.dispersion <= p.dispersion /\ ~q.inconclusive
        /\ \A w \in DOMAIN p.cases : w \in DOMAIN q.cases /\ q.cases[w] <= p.cases[w]
    BY <1>1, NoWeakening
  <2>4. ASSUME NEW w \in DOMAIN p.cases PROVE result.regression[w] <= p.cases[w]
    <3>1. w \in DOMAIN q.cases /\ q.cases[w] <= p.cases[w] /\ result.regression[w] <= q.cases[w]
      BY <1>1, <2>3
    <3>2. PICK ws \in SUBSET Workloads : p.cases \in [ws -> Int]
      BY DEF PoliciesOf
    <3>3. PICK vs \in SUBSET Workloads : q.cases \in [vs -> Int]
      BY DEF PoliciesOf
    <3>4. w \in Workloads /\ p.cases[w] \in Int /\ q.cases[w] \in Int
      BY <3>1, <3>2, <3>3
    <3>5. result.regression[w] \in Int
      BY <2>2, <3>4
    <3> QED
      BY <3>1, <3>4, <3>5
  <2>5. result.conclusive \/ p.inconclusive
    BY <1>1, <2>3
  <2>6. /\ result.improvement >= p.floor /\ result.samples >= p.samples /\ result.dispersion <= p.dispersion
    BY <1>1, <2>1, <2>2, <2>3
  <2> QED
    BY <2>4, <2>5, <2>6
<1>2. ASSUME NEW p, NEW q, ~Rejected(p, q), p.characterization = q.characterization \/ p.decision = q.decision
      PROVE  ~Weakened(p, q)
  BY <1>2 DEF Rejected
<1> DEFINE kept(p, q) == ~Rejected(p, q) /\ (p.characterization = q.characterization \/ p.decision = q.decision)
<1>3. kept(frozen, between) /\ kept(between, last) /\ accepts(last) => accepts(frozen)
  <2> SUFFICES ASSUME kept(frozen, between), kept(between, last), accepts(last) PROVE accepts(frozen)
    OBVIOUS
  <2>1. ~Weakened(frozen, between) /\ ~Weakened(between, last)
    BY <1>2
  <2> HIDE DEF accepts, kept
  <2> QED
    BY <1>1, <2>1
<1> QED
  BY <1>3 DEF NoCreepingWeakening

-----------------------------------------------------------------------------
(* A reading of a value, or none. *)
IsReading(v) == v = Unavailable \/ \E x : v = Available(x)

LEMMA TextIsRead == ASSUME NEW text PROVE IsReading(NonEmpty(text))
BY DEF NonEmpty, IsReading

LEMMA ValueIsRead == ASSUME NEW file, NEW key PROVE IsReading(ValueOf(file, key))
BY TextIsRead DEF ValueOf, IsReading

LEMMA MemoryIsRead == ASSUME NEW file PROVE IsReading(MemoryBytes(file))
BY DEF MemoryBytes, IsReading

(* What is probed of a field is a reading. *)
LEMMA ProbeReads ==
  ASSUME NEW host, NEW build, NEW machine, IsReading(machine.cpus), NEW f \in Fields
  PROVE  IsReading(ProbeEnvironment(host, build, machine)[f])
<1> DEFINE count == IF machine.cpus.ok /\ machine.cpus.value = 0 THEN Unavailable ELSE machine.cpus
           text(reading) == IF reading.ok THEN NonEmpty(reading.value) ELSE Unavailable
           built == {"source-revision", "target", "profile", "toolchain", "features"}
<1>1. IsReading(count)
  BY DEF IsReading
<1>2. \A r : IsReading(text(r))
  BY TextIsRead DEF IsReading
<1>3. IsReading(Available(host.id)) /\ IsReading(Available(host.ssh)) /\ IsReading(Available(ToSet(build.features)))
  BY DEF IsReading
<1>4. \A x : IsReading(NonEmpty(x))
  BY TextIsRead
<1>5. CASE f \in built
  <2>1. ProbeEnvironment(host, build, machine)[f] = BuildEvidence(build)[f]
    BY <1>5 DEF ProbeEnvironment, Fields
  <2>2. BuildEvidence(build)[f] = Available(ToSet(build.features)) \/ BuildEvidence(build)[f] = NonEmpty(build[f])
    BY <1>5 DEF BuildEvidence
  <2> QED
    BY <1>3, <1>4, <2>1, <2>2
<1>6. CASE f \notin built
  <2>1. \/ f = "inventory-id" /\ ProbeEnvironment(host, build, machine)[f] = Available(host.id)
        \/ f = "ssh-host" /\ ProbeEnvironment(host, build, machine)[f] = Available(host.ssh)
        \/ f = "operating-system" /\ ProbeEnvironment(host, build, machine)[f] = ValueOf(machine.release, "ID")
        \/ f = "architecture" /\ ProbeEnvironment(host, build, machine)[f] = text(machine.architecture)
        \/ f = "cpu-model" /\ ProbeEnvironment(host, build, machine)[f] = ValueOf(machine.cpuinfo, "model name")
        \/ f = "logical-cpus" /\ ProbeEnvironment(host, build, machine)[f] = count
        \/ f = "memory-bytes" /\ ProbeEnvironment(host, build, machine)[f] = MemoryBytes(machine.meminfo)
        \/ f = "cpu-governor" /\ ProbeEnvironment(host, build, machine)[f] = text(machine.governor)
    BY <1>6 DEF ProbeEnvironment, Fields
  <2> HIDE DEF count, text
  <2> QED
    BY <1>1, <1>2, <1>3, <2>1, ValueIsRead, MemoryIsRead
<1> QED
  BY <1>5, <1>6

(* Two readings answer the same when both read one value. *)
LEMMA SameAnswer ==
  ASSUME NEW u, NEW v, IsReading(u), IsReading(v)
  PROVE  {x \in {u} : x.ok} \cap {x \in {v} : x.ok} # {} <=> u.ok /\ v.ok /\ u.value = v.value
<1>1. CASE u = Unavailable \/ v = Unavailable
  BY <1>1 DEF Unavailable
<1>2. CASE u # Unavailable /\ v # Unavailable
  <2>1. PICK x : u = Available(x)
    BY <1>2 DEF IsReading
  <2>2. PICK y : v = Available(y)
    BY <1>2 DEF IsReading
  <2>3. u.ok /\ v.ok /\ u.value = x /\ v.value = y
    BY <2>1, <2>2 DEF Available
  <2>4. u = v <=> x = y
    BY <2>1, <2>2, <2>3
  <2> QED
    BY <2>3, <2>4
<1> QED
  BY <1>1, <1>2

(* The memory that is reported is of a line of the file. *)
LEMMA MemoryIsOfALine ==
  ASSUME NEW Lines, NEW file, file.ok => file.value \in Seq(Lines), MemoryBytes(file).ok
  PROVE  /\ file.ok
         /\ MemoryBytes(file).value \in {line.number * Kib : line \in {l \in ToSet(file.value) : l.key = "MemTotal"}}
<1> DEFINE line == CHOOSE line \in FirstLine(file, "MemTotal") : TRUE
<1>1. /\ FirstLine(file, "MemTotal") # {}
      /\ MemoryBytes(file) = Available(line.number * Kib)
  BY DEF MemoryBytes, Unavailable
<1>2. line \in FirstLine(file, "MemTotal")
  BY <1>1
<1>3. file.ok /\ \E i \in DOMAIN file.value : line = file.value[i] /\ file.value[i].key = "MemTotal"
  BY <1>2 DEF FirstLine
<1>4. line \in {l \in ToSet(file.value) : l.key = "MemTotal"}
  BY <1>3 DEF ToSet
<1>5. MemoryBytes(file).value = line.number * Kib
  BY <1>1 DEF Available
<1> HIDE DEF line
<1> QED
  BY <1>3, <1>4, <1>5

(* compatibility_mismatches of env.rs: whatever the machines answer, they are compared by
   what was read of both. *)
THEOREM ObservedComparison ==
  ASSUME NEW Names, NEW Lines, NEW names \in Seq(Names), NEW one, NEW two,
         \A m \in {one, two} : /\ IsReading(m.machine.cpus)
                               /\ m.machine.meminfo.ok => m.machine.meminfo.value \in Seq(Lines)
  PROVE  ComparedIsObserved(names, one, two)
<1> DEFINE probe(m) == ProbeEnvironment(m.host, m.build, m.machine)
           policy == RequiredFields(names)
           found == Mismatches(policy.value, probe(one), probe(two))
           answers(m, f) == {v \in {probe(m)[f]} : v.ok}
           memory(m) == {line.number * Kib : line \in {l \in ToSet(m.machine.meminfo.value) : l.key = "MemTotal"}}
           same(f) == CompareField(f, probe(one), probe(two)) = "equal"
<1> SUFFICES ASSUME policy.ok
             PROVE  /\ found = {} <=> \A i \in DOMAIN names : answers(one, names[i]) \cap answers(two, names[i]) # {}
                    /\ \A f \in ToSet(names) : answers(one, f) \cap answers(two, f) = {} =>
                         Cardinality({x \in found : x.field = f}) = 1
                    /\ \A m \in {one, two} : answers(m, "memory-bytes") # {} =>
                         m.machine.meminfo.ok /\ probe(m)["memory-bytes"].value \in memory(m)
  BY DEF ComparedIsObserved
<1>1. ToSet(names) \subseteq Fields /\ policy.value = ToSet(names)
  BY DEF RequiredFields, Available, Unavailable
<1>2. ASSUME NEW f \in Fields PROVE answers(one, f) \cap answers(two, f) # {} <=> same(f)
  <2>1. IsReading(probe(one)[f]) /\ IsReading(probe(two)[f])
    BY ProbeReads
  <2>2. same(f) <=> probe(one)[f].ok /\ probe(two)[f].ok /\ probe(one)[f].value = probe(two)[f].value
    BY DEF CompareField
  <2> HIDE DEF probe, same
  <2> QED
    BY <2>1, <2>2, SameAnswer
<1>3. found = {[field |-> f, reason |-> CompareField(f, probe(one), probe(two))] : f \in {f \in ToSet(names) : ~same(f)}}
  BY <1>1 DEF Mismatches
<1>4. ASSUME NEW m \in {one, two}, answers(m, "memory-bytes") # {}
      PROVE  m.machine.meminfo.ok /\ probe(m)["memory-bytes"].value \in memory(m)
  <2>1. probe(m)["memory-bytes"] = MemoryBytes(m.machine.meminfo)
    BY DEF ProbeEnvironment, Fields
  <2>2. MemoryBytes(m.machine.meminfo).ok
    BY <1>4, <2>1
  <2> QED
    BY <2>1, <2>2, MemoryIsOfALine
<1>5. ToSet(names) = {names[i] : i \in DOMAIN names}
  BY DEF ToSet
<1> HIDE DEF probe, answers, same, policy
<1>6. found = {} <=> \A i \in DOMAIN names : answers(one, names[i]) \cap answers(two, names[i]) # {}
  <2>1. found = {} <=> \A f \in ToSet(names) : same(f)
    <3> HIDE DEF found
    <3> QED
      BY <1>3
  <2>2. (\A f \in ToSet(names) : same(f)) <=> \A i \in DOMAIN names : same(names[i])
    BY <1>5
  <2>3. \A i \in DOMAIN names : names[i] \in Fields
    BY <1>1, <1>5
  <2> QED
    BY <1>2, <2>1, <2>2, <2>3
<1>7. ASSUME NEW f \in ToSet(names), answers(one, f) \cap answers(two, f) = {}
      PROVE  Cardinality({x \in found : x.field = f}) = 1
  <2> DEFINE row(g) == [field |-> g, reason |-> CompareField(g, probe(one), probe(two))]
  <2>1. {x \in found : x.field = f} = {row(f)}
    <3>1. row(f) \in found
      BY <1>1, <1>2, <1>3, <1>7
    <3>2. \A x \in found : x.field = f => x = row(f)
      BY <1>3
    <3> QED
      BY <3>1, <3>2
  <2> QED
    BY <2>1, FS_Singleton
<1> QED
  BY <1>4, <1>6, <1>7

-----------------------------------------------------------------------------
(* The specification of a benchmark. *)

(* What a declaration holds, with texts of any set. *)
Declarations(W) ==
  [text : [Texts -> W], metrics : Seq(W), samples : Nat, noise : Int, threshold : SUBSET Int, confidence : Int,
   cpus : Nat, features : Seq(W), capabilities : Seq(W), comment : W]

(* A number that is no number, or too small. *)
Outside(n, least) == ~IsFinite(n) \/ n < least

(* The errors, by what they are about. *)
TextErrors(spec) == {<<"text", t>> : t \in {t \in Texts : spec.text[t] = Blank}}
MetricErrors(spec) == {<<"metric", i>> : i \in {i \in DOMAIN spec.metrics : spec.metrics[i] = Blank}}
Limits(spec) ==
  {l \in {"metrics", "samples", "noise_floor", "confidence", "threshold", "threshold of no samples",
          "noise above threshold", "cpus"} :
     CASE l = "metrics" -> spec.metrics = <<>>
       [] l = "samples" -> spec.samples = 0
       [] l = "noise_floor" -> Outside(spec.noise, 0)
       [] l = "confidence" -> Outside(spec.confidence, 1) \/ spec.confidence >= 100
       [] l = "threshold" -> \E t \in spec.threshold : Outside(t, 0)
       [] l = "threshold of no samples" -> spec.threshold # {} /\ spec.samples = 0
       [] l = "noise above threshold" -> \E t \in spec.threshold : Above(spec.noise, t)
       [] l = "cpus" -> spec.cpus = 0}

(* Every error is about a text, a metric or a number. *)
LEMMA ErrorsAre ==
  ASSUME NEW spec
  PROVE  Errors(spec) = TextErrors(spec) \cup MetricErrors(spec) \cup {<<"limit", l>> : l \in Limits(spec)}
<1> DEFINE limit(name, broken) == IF broken THEN {<<"limit", name>>} ELSE {}
           L(t) == limit("threshold", Outside(t, 0)) \cup limit("threshold of no samples", spec.samples = 0)
                     \cup limit("noise above threshold", Above(spec.noise, t))
           U == UNION {L(t) : t \in spec.threshold}
           A == limit("metrics", spec.metrics = <<>>) \cup limit("samples", spec.samples = 0)
                  \cup limit("noise_floor", Outside(spec.noise, 0))
                  \cup limit("confidence", Outside(spec.confidence, 1) \/ spec.confidence >= 100)
                  \cup limit("cpus", spec.cpus = 0)
           P == {<<"limit", l>> : l \in Limits(spec)}
<1>1. Errors(spec) = TextErrors(spec) \cup MetricErrors(spec) \cup (A \cup U)
  <2> DEFINE a == limit("metrics", spec.metrics = <<>>)
             b == limit("samples", spec.samples = 0)
             c == limit("noise_floor", Outside(spec.noise, 0))
             d == limit("confidence", Outside(spec.confidence, 1) \/ spec.confidence >= 100)
             f == limit("cpus", spec.cpus = 0)
  <2>1. Errors(spec) = TextErrors(spec) \cup MetricErrors(spec) \cup a \cup b \cup c \cup d \cup f \cup U
    BY DEF Errors, TextErrors, MetricErrors, Outside
  <2>2. A = a \cup b \cup c \cup d \cup f
    OBVIOUS
  <2> HIDE DEF a, b, c, d, f, A, U
  <2> QED
    BY <2>1, <2>2
<1>2. ASSUME NEW e \in A \cup U PROVE e \in P
  <2>1. CASE e \in A
    <3>1. PICK l \in Limits(spec) : e = <<"limit", l>>
      BY <2>1 DEF Limits
    <3> QED
      BY <3>1
  <2>2. CASE e \in U
    <3>1. PICK t \in spec.threshold : e \in L(t)
      BY <2>2
    <3>2. \E l \in Limits(spec) : e = <<"limit", l>>
      BY <3>1 DEF Limits
    <3> QED
      BY <3>2
  <2> QED
    BY <1>2, <2>1, <2>2
<1>3. ASSUME NEW l \in Limits(spec) PROVE <<"limit", l>> \in A \cup U
  <2>1. CASE l \in {"metrics", "samples", "noise_floor", "confidence", "cpus"}
    BY <1>3, <2>1 DEF Limits
  <2>2. CASE l \in {"threshold", "threshold of no samples", "noise above threshold"}
    <3>1. PICK t \in spec.threshold : <<"limit", l>> \in L(t)
      BY <1>3, <2>2 DEF Limits
    <3> QED
      BY <3>1
  <2> QED
    BY <1>3, <2>1, <2>2 DEF Limits
<1> HIDE DEF A, U
<1>4. A \cup U = P
  BY <1>2, <1>3
<1> QED
  BY <1>1, <1>4

(* So each is there exactly when its own condition fails, and none is when all hold. *)
LEMMA ErrorFacts ==
  ASSUME NEW spec
  PROVE  /\ {e[2] : e \in {x \in Errors(spec) : x[1] = "text"}} = {t \in Texts : spec.text[t] = Blank}
         /\ \A l : <<"limit", l>> \in Errors(spec) <=> l \in Limits(spec)
         /\ Errors(spec) = {} <=> /\ \A t \in Texts : spec.text[t] # Blank
                                  /\ \A i \in DOMAIN spec.metrics : spec.metrics[i] # Blank
                                  /\ Limits(spec) = {}
<1>0. Errors(spec) = TextErrors(spec) \cup MetricErrors(spec) \cup {<<"limit", l>> : l \in Limits(spec)}
  BY ErrorsAre
<1>1. \A e \in MetricErrors(spec) : e[1] # "text" /\ e[1] # "limit"
  BY DEF MetricErrors
<1>2. \A e \in TextErrors(spec) : e[1] = "text" /\ e[1] # "limit" /\ e[2] \in {t \in Texts : spec.text[t] = Blank}
  BY DEF TextErrors
<1>3. \A t \in {t \in Texts : spec.text[t] = Blank} : <<"text", t>> \in TextErrors(spec)
  BY DEF TextErrors
<1>4. \A e \in {<<"limit", l>> : l \in Limits(spec)} : e[1] # "text" /\ e[1] = "limit" /\ e[2] \in Limits(spec)
  OBVIOUS
<1>5. \A l \in Limits(spec) : <<"limit", l>> \in {<<"limit", m>> : m \in Limits(spec)}
  OBVIOUS
<1>6. {x \in Errors(spec) : x[1] = "text"} = TextErrors(spec)
  <2>1. ASSUME NEW x \in Errors(spec), x[1] = "text" PROVE x \in TextErrors(spec)
    BY <2>1, <1>0, <1>1, <1>4
  <2>2. ASSUME NEW x \in TextErrors(spec) PROVE x \in Errors(spec) /\ x[1] = "text"
    BY <2>2, <1>0, <1>2
  <2> QED
    BY <2>1, <2>2
<1>7. {e[2] : e \in TextErrors(spec)} = {t \in Texts : spec.text[t] = Blank}
  <2>1. \A t \in {t \in Texts : spec.text[t] = Blank} : <<"text", t>>[2] = t
    OBVIOUS
  <2> QED
    BY <1>2, <1>3, <2>1
<1>8. ASSUME NEW l PROVE <<"limit", l>> \in Errors(spec) <=> l \in Limits(spec)
  <2>1. <<"limit", l>>[1] = "limit" /\ <<"limit", l>>[2] = l
    OBVIOUS
  <2> QED
    BY <1>0, <1>1, <1>2, <1>4, <1>5, <2>1
<1>9. TextErrors(spec) = {} <=> \A t \in Texts : spec.text[t] # Blank
  BY DEF TextErrors
<1>10. MetricErrors(spec) = {} <=> \A i \in DOMAIN spec.metrics : spec.metrics[i] # Blank
  BY DEF MetricErrors
<1>11. {<<"limit", l>> : l \in Limits(spec)} = {} <=> Limits(spec) = {}
  OBVIOUS
<1> QED
  BY <1>0, <1>6, <1>7, <1>8, <1>9, <1>10, <1>11

(* NewSpec looks at nothing that it changes. *)
LEMMA NewSpecIs ==
  ASSUME NEW W, NEW spec \in Declarations(W)
  PROVE  /\ NewSpec(spec).ok <=> Errors(spec) = {}
         /\ NewSpec(spec).ok =>
              NewSpec(spec).key = [f \in DOMAIN spec \ {"comment"} |->
                                     IF f \in {"features", "capabilities"} THEN ToSet(spec[f]) ELSE spec[f]]
<1> DEFINE made == [spec EXCEPT !.features = ToSet(@), !.capabilities = ToSet(@)]
           key == [f \in DOMAIN spec \ {"comment"} |->
                     IF f \in {"features", "capabilities"} THEN ToSet(spec[f]) ELSE spec[f]]
<1>1. /\ made.text = spec.text /\ made.metrics = spec.metrics /\ made.samples = spec.samples
      /\ made.noise = spec.noise /\ made.confidence = spec.confidence /\ made.threshold = spec.threshold
      /\ made.cpus = spec.cpus
  BY DEF Declarations
<1>2. DOMAIN made = DOMAIN spec
  BY DEF Declarations
<1>3. \A f \in DOMAIN spec : made[f] = IF f \in {"features", "capabilities"} THEN ToSet(spec[f]) ELSE spec[f]
  BY DEF Declarations
<1>4. NewSpec(spec) = IF Errors(made) # {} THEN [ok |-> FALSE, errors |-> Errors(made)]
                      ELSE [ok |-> TRUE, spec |-> made, key |-> Identity(made)]
  BY DEF NewSpec
<1> HIDE DEF made
<1>5. Errors(made) = Errors(spec)
  BY <1>1 DEF Errors
<1>6. Identity(made) = key
  BY <1>2, <1>3 DEF Identity
<1>7. (Errors(spec) # {} => NewSpec(spec) = [ok |-> FALSE, errors |-> Errors(made)])
      /\ (Errors(spec) = {} => NewSpec(spec) = [ok |-> TRUE, spec |-> made, key |-> Identity(made)])
  BY <1>4, <1>5
<1>8. NewSpec(spec).ok <=> Errors(spec) = {}
  BY <1>7
<1>9. NewSpec(spec).ok => NewSpec(spec).key = Identity(made)
  BY <1>7, <1>8
<1> QED
  BY <1>6, <1>8, <1>9

(* What is accepted, part by part. *)
LEMMA AcceptedIs ==
  ASSUME NEW W, NEW spec \in Declarations(W)
  PROVE  Errors(spec) = {} <=>
           /\ \A t \in Texts : spec.text[t] # Blank
           /\ spec.metrics # <<>> /\ \A i \in DOMAIN spec.metrics : spec.metrics[i] # Blank
           /\ spec.samples # 0 /\ spec.cpus # 0 /\ spec.confidence \in 1..99
           /\ ~Outside(spec.noise, 0)
           /\ \A t \in spec.threshold : ~Outside(t, 0) /\ spec.noise <= t
<1>1. /\ spec.noise \in Int /\ spec.confidence \in Int /\ spec.samples \in Nat /\ spec.cpus \in Nat
      /\ \A t \in spec.threshold : t \in Int
  BY DEF Declarations
<1>2. ("metrics" \in Limits(spec) <=> spec.metrics = <<>>) /\ ("samples" \in Limits(spec) <=> spec.samples = 0)
      /\ ("cpus" \in Limits(spec) <=> spec.cpus = 0) /\ ("noise_floor" \in Limits(spec) <=> Outside(spec.noise, 0))
  BY DEF Limits
<1>3. "confidence" \in Limits(spec) <=> spec.confidence \notin 1..99
  BY <1>1 DEF Limits, Outside, IsFinite, PosInf, NaN
<1>4. /\ "threshold" \in Limits(spec) <=> \E t \in spec.threshold : Outside(t, 0)
      /\ "noise above threshold" \in Limits(spec) <=> \E t \in spec.threshold : Above(spec.noise, t)
      /\ "threshold of no samples" \in Limits(spec) <=> spec.threshold # {} /\ spec.samples = 0
  BY DEF Limits
<1>5. Limits(spec) \subseteq {"metrics", "samples", "noise_floor", "confidence", "threshold",
                             "threshold of no samples", "noise above threshold", "cpus"}
  BY DEF Limits
<1>6. ~Outside(spec.noise, 0) => \A t \in spec.threshold : ~Outside(t, 0) => (Above(spec.noise, t) <=> ~(spec.noise <= t))
  BY <1>1 DEF Outside, Above, IsFinite, NaN, PosInf
<1>7. Limits(spec) = {} <=>
           /\ spec.metrics # <<>> /\ spec.samples # 0 /\ spec.cpus # 0 /\ spec.confidence \in 1..99
           /\ ~Outside(spec.noise, 0)
           /\ \A t \in spec.threshold : ~Outside(t, 0) /\ spec.noise <= t
  BY <1>2, <1>3, <1>4, <1>5, <1>6
<1> QED
  BY <1>7, ErrorFacts

(* new of BenchSpec, whatever is declared: a refusal names all that there is to mend, since the
   declaration that replaces what it names, and nothing else, by parts of an accepted one is
   accepted; what is accepted can be judged by the comparison; and two that are accepted have the
   same key exactly when they differ in nothing but their comments and how lists are listed.  The
   accepted one asks for no noise floor and no threshold: those of another might not go together
   with what is left as it was. *)
THEOREM WholeSpec ==
  ASSUME NEW W, NEW given \in Declarations(W), NEW other \in Declarations(W), NEW good \in Declarations(W),
         Errors(good) = {}, good.noise = 0, good.threshold = {}
  PROVE  SpecIsWhole(given, other, good)
<1> DEFINE mended == Mended(given, good)
           bad(limit) == <<"limit", limit>> \in Errors(given)
           noisy == bad("noise_floor") \/ bad("noise above threshold")
           samples == IF given.samples = 0 THEN good.samples ELSE given.samples
           cpus == IF given.cpus = 0 THEN good.cpus ELSE given.cpus
           confidence == IF bad("confidence") THEN good.confidence ELSE given.confidence
           noise == IF noisy THEN good.noise ELSE given.noise
           threshold == IF bad("threshold") THEN good.threshold ELSE given.threshold
           text == [t \in Texts |-> IF given.text[t] = Blank THEN good.text[t] ELSE given.text[t]]
           metrics == IF given.metrics = <<>> THEN good.metrics
                      ELSE [i \in DOMAIN given.metrics |->
                              IF given.metrics[i] = Blank THEN good.metrics[1] ELSE given.metrics[i]]
<1>1. mended = [given EXCEPT !.text = text, !.metrics = metrics, !.samples = samples, !.cpus = cpus,
                             !.confidence = confidence, !.noise = noise, !.threshold = threshold]
  <2>1. \A t \in Texts : t \in {e[2] : e \in {x \in Errors(given) : x[1] = "text"}} <=> given.text[t] = Blank
    BY ErrorFacts
  <2> DEFINE blank == {e[2] : e \in {x \in Errors(given) : x[1] = "text"}}
  <2>2. [t \in Texts |-> IF t \in blank THEN good.text[t] ELSE given.text[t]] = text
    BY <2>1
  <2> QED
    BY <2>2, Zenon DEF Mended
<1> HIDE DEF mended, text, metrics
<1>2. text \in [Texts -> W] /\ \A t \in Texts : text[t] # Blank
  <2>1. given.text \in [Texts -> W] /\ good.text \in [Texts -> W]
    BY DEF Declarations
  <2> QED
    BY <2>1, AcceptedIs DEF text
<1>3. good.metrics \in Seq(W) /\ good.metrics # <<>> /\ \A i \in DOMAIN good.metrics : good.metrics[i] # Blank
  BY AcceptedIs DEF Declarations
<1>4. 1 \in DOMAIN good.metrics /\ good.metrics[1] \in W /\ good.metrics[1] # Blank
  BY <1>3, EmptySeq, LenProperties
<1>5. metrics \in Seq(W) /\ metrics # <<>> /\ \A i \in DOMAIN metrics : metrics[i] # Blank
  <2>1. CASE given.metrics = <<>>
    BY <1>3, <2>1 DEF metrics
  <2>2. CASE given.metrics # <<>>
    <3>1. given.metrics \in Seq(W)
      BY DEF Declarations
    <3>2. metrics = [i \in 1..Len(given.metrics) |->
                       IF given.metrics[i] = Blank THEN good.metrics[1] ELSE given.metrics[i]]
      BY <2>2, <3>1, LenProperties DEF metrics
    <3>3. Len(given.metrics) \in Nat /\ Len(given.metrics) # 0
      BY <2>2, <3>1, EmptySeq, LenProperties
    <3>4. \A i \in 1..Len(given.metrics) : given.metrics[i] \in W
      BY <3>1, ElementOfSeq
    <3> HIDE DEF metrics
    <3>5. metrics \in [1..Len(given.metrics) -> W] /\ \A i \in 1..Len(given.metrics) : metrics[i] # Blank
      BY <1>4, <3>2, <3>4
    <3>6. metrics \in Seq(W) /\ Len(metrics) = Len(given.metrics)
      BY <3>3, <3>5, IsASeq, LenProperties
    <3> QED
      BY <3>3, <3>5, <3>6, EmptySeq
  <2> QED
    BY <2>1, <2>2
<1>6. /\ mended \in Declarations(W) /\ mended.text = text /\ mended.metrics = metrics
      /\ mended.samples = samples /\ mended.cpus = cpus /\ mended.confidence = confidence
      /\ mended.noise = noise /\ mended.threshold = threshold
  <2>1. samples \in Nat /\ cpus \in Nat /\ confidence \in Int /\ noise \in Int /\ threshold \in SUBSET Int
    BY DEF Declarations
  <2> HIDE DEF samples, cpus, confidence, noise, threshold
  <2> QED
    BY <1>1, <1>2, <1>5, <2>1 DEF Declarations
<1>7. /\ bad("confidence") <=> given.confidence \notin 1..99
      /\ bad("threshold") <=> \E t \in given.threshold : Outside(t, 0)
      /\ noisy <=> Outside(given.noise, 0) \/ \E t \in given.threshold : Above(given.noise, t)
  <2>1. given.confidence \in Int
    BY DEF Declarations
  <2>2. \A l : bad(l) <=> l \in Limits(given)
    BY ErrorFacts
  <2>3. "confidence" \in Limits(given) <=> Outside(given.confidence, 1) \/ given.confidence >= 100
    BY DEF Limits
  <2>4. "threshold" \in Limits(given) <=> \E t \in given.threshold : Outside(t, 0)
    BY DEF Limits
  <2>5. "noise above threshold" \in Limits(given) <=> \E t \in given.threshold : Above(given.noise, t)
    BY DEF Limits
  <2>6. "noise_floor" \in Limits(given) <=> Outside(given.noise, 0)
    BY DEF Limits
  <2>7. given.confidence \notin 1..99 <=> Outside(given.confidence, 1) \/ given.confidence >= 100
    BY <2>1 DEF Outside, IsFinite, PosInf, NaN
  <2> QED
    BY <2>2, <2>3, <2>4, <2>5, <2>6, <2>7
<1>8. /\ good.samples # 0 /\ good.cpus # 0 /\ good.confidence \in 1..99
      /\ given.noise \in Int /\ \A t \in given.threshold : t \in Int
  BY AcceptedIs DEF Declarations
<1>9. NewSpec(mended).ok
  <2>1. samples # 0 /\ cpus # 0 /\ confidence \in 1..99
    BY <1>7, <1>8
  <2>2. ~Outside(noise, 0)
    <3>1. CASE noisy
      <4>1. noise = 0
        BY <3>1
      <4> HIDE DEF noise
      <4> QED
        BY <4>1 DEF Outside, IsFinite, PosInf, NaN
    <3>2. CASE ~noisy
      BY <1>7, <3>2
    <3> QED
      BY <3>1, <3>2
  <2>3. ASSUME NEW t \in threshold PROVE ~Outside(t, 0) /\ noise <= t
    <3>1. t \in given.threshold /\ t \in Int /\ ~bad("threshold")
      BY <1>8, <2>3
    <3>2. ~Outside(t, 0)
      BY <1>7, <3>1
    <3>3. CASE noisy
      <4>1. noise = 0
        BY <3>3
      <4> HIDE DEF noise
      <4> QED
        BY <3>1, <3>2, <4>1 DEF Outside
    <3>4. CASE ~noisy
      <4>1. noise = given.noise /\ ~Outside(noise, 0) /\ ~Above(noise, t) /\ noise \in Int
        BY <1>7, <1>8, <3>1, <3>4
      <4> HIDE DEF noise
      <4> QED
        BY <3>1, <3>2, <4>1 DEF Outside, Above, IsFinite
    <3> QED
      BY <3>2, <3>3, <3>4
  <2>4. samples # 0 /\ cpus # 0 /\ confidence \in 1..99 /\ ~Outside(noise, 0)
        /\ \A t \in threshold : ~Outside(t, 0) /\ noise <= t
    BY <2>1, <2>2, <2>3
  <2> HIDE DEF samples, cpus, confidence, noise, threshold
  <2>5. Errors(mended) = {}
    BY <1>2, <1>5, <1>6, <2>4, AcceptedIs
  <2> QED
    BY <1>6, <2>5, NewSpecIs
<1>10. ASSUME NewSpec(given).ok PROVE given = mended /\ CanBeJudged(given)
  <2>1. Errors(given) = {}
    BY <1>10, NewSpecIs
  <2>2. /\ \A t \in Texts : given.text[t] # Blank
        /\ given.metrics # <<>> /\ \A i \in DOMAIN given.metrics : given.metrics[i] # Blank
        /\ given.samples # 0 /\ given.cpus # 0 /\ given.confidence \in 1..99
        /\ ~Outside(given.noise, 0)
        /\ \A t \in given.threshold : ~Outside(t, 0) /\ given.noise <= t
    BY <2>1, AcceptedIs
  <2>3. text = given.text
    BY <2>2 DEF text, Declarations
  <2>4. metrics = given.metrics
    <3>1. given.metrics \in Seq(W)
      BY DEF Declarations
    <3>2. metrics = [i \in DOMAIN given.metrics |-> given.metrics[i]]
      BY <2>2 DEF metrics
    <3> QED
      BY <3>1, <3>2
  <2>5. ~bad("confidence") /\ ~bad("threshold") /\ ~noisy
    BY <2>1
  <2>10. /\ samples = given.samples /\ cpus = given.cpus /\ confidence = given.confidence
         /\ noise = given.noise /\ threshold = given.threshold
    BY <2>2, <2>5
  <2>6. given = mended
    <3>1. mended = [given EXCEPT !.text = given.text, !.metrics = given.metrics, !.samples = given.samples,
                                 !.cpus = given.cpus, !.confidence = given.confidence, !.noise = given.noise,
                                 !.threshold = given.threshold]
      BY <1>1, <2>3, <2>4, <2>10, Zenon
    <3> QED
      BY <3>1 DEF Declarations
  <2>7. given.samples \in Nat
    BY DEF Declarations
  <2>8. given.samples > 0 /\ \A t \in given.threshold : given.noise \in 0..t
    BY <1>8, <2>2, <2>7 DEF Outside
  <2>9. \A i \in DOMAIN given.metrics : /\ ~ObservationRefused(given.metrics[i], 0)
                                        /\ ~SummaryRefused(given.metrics[i], given.samples, 0, 0, 0)
                                        /\ ~DecisionRefused(0, given.confidence)
    <3>1. given.samples # 0 /\ given.confidence \in 1..99 /\ \A i \in DOMAIN given.metrics : given.metrics[i] # Blank
      BY <2>2
    <3>2. given.confidence \in 0..100 /\ IsFinite(given.confidence) /\ IsFinite(0)
      BY <3>1 DEF IsFinite, PosInf, NaN
    <3> QED
      BY <3>1, <3>2 DEF ObservationRefused, SummaryRefused, DecisionRefused
  <2> QED
    BY <2>2, <2>6, <2>8, <2>9 DEF CanBeJudged
<1>11. ASSUME NewSpec(given).ok, NewSpec(other).ok
       PROVE  NewSpec(given).key = NewSpec(other).key <=> SaysTheSame(given, other)
  <2> DEFINE of(spec) == [f \in DOMAIN spec \ {"comment"} |->
                            IF f \in {"features", "capabilities"} THEN ToSet(spec[f]) ELSE spec[f]]
  <2>1. NewSpec(given).key = of(given) /\ NewSpec(other).key = of(other)
    BY <1>11, NewSpecIs
  <2>2. DOMAIN given = DOMAIN other
    BY DEF Declarations
  <2>3. of(given) = of(other) <=> \A f \in DOMAIN given \ {"comment"} : of(given)[f] = of(other)[f]
    BY <2>2
  <2> QED
    BY <2>1, <2>2, <2>3 DEF SaysTheSame
<1> QED
  BY <1>9, <1>10, <1>11 DEF SpecIsWhole, mended

(***************************************************************************)
(* The check pack.                                                         *)
(***************************************************************************)

(* Corpora of a platform with any facts of its own, any identities of specimens. *)
CorporaOf(Names, Facts) ==
  [id : Names, class : [Roles -> Names], acceptance : [Roles -> Names], binding : [Roles -> Names],
   witness : [Facts -> Facts \cup {None}]]

(* A receipt is of what was prepared, whatever the owner and the builds. *)
LEMMA PassedIsPrepared ==
  ASSUME NEW options, NEW evidence, NEW support, NEW authority, NEW builds,
         ~Execute(options, evidence, support, authority, builds).refused
  PROVE  LET r == Execute(options, evidence, support, authority, builds)
             p == r.receipt
         IN /\ options.subject = evidence /\ options.binding = Binding(builds)
            /\ authority.live /\ authority.verifies /\ r.revocation = authority.status
            /\ p = Prepare(evidence, support, builds) /\ ~p.refused
<1> DEFINE p == Prepare(evidence, support, builds)
           q == Issue(p, authority)
           r == Execute(options, evidence, support, authority, builds)
<1>0. \A why : Refused(why).refused
  BY DEF Refused
<1>1. r = IF options.subject # evidence THEN Refused("subject-mismatch")
          ELSE IF options.checker # "checker/c-op" THEN Refused("unknown-checker")
          ELSE IF options.scope # "operation/local" THEN Refused("wrong-scope")
          ELSE IF options.binding # Binding(builds) THEN Refused("wrong-binding")
          ELSE IF q.refused THEN Refused("receipt-refused")
          ELSE IF ~authority.verifies THEN Refused("receipt-verification")
          ELSE [refused |-> FALSE, options |-> options, receipt |-> q, revocation |-> authority.status]
  BY DEF Execute
<1>2. q = IF p.refused THEN p
          ELSE IF ~authority.live THEN Refused("owner")
          ELSE IF authority.other # {} THEN Refused("unsupported")
          ELSE p
  BY DEF Issue
<1>3. ~r.refused
  OBVIOUS
<1> HIDE DEF p, q, r
<1>4. /\ options.subject = evidence /\ options.binding = Binding(builds) /\ ~q.refused /\ authority.verifies
      /\ r = [refused |-> FALSE, options |-> options, receipt |-> q, revocation |-> authority.status]
  BY <1>0, <1>1, <1>3
<1>5. q = p /\ ~p.refused /\ authority.live
  BY <1>0, <1>2, <1>4
<1>6. r.receipt = q /\ r.revocation = authority.status
  BY <1>4
<1> QED
  BY <1>4, <1>5, <1>6 DEF p, r

(* What is prepared is bound to its evidence, its support and one build graph. *)
LEMMA PreparedIs ==
  ASSUME NEW evidence, NEW support, NEW builds, ~Prepare(evidence, support, builds).refused
  PROVE  LET p == Prepare(evidence, support, builds)
         IN /\ builds.pack.lock = builds.adapter.lock
            /\ p.binding = Binding(builds) /\ p.invocation.subject = evidence /\ p.observations = evidence
            /\ p.provenance = Provenance(p.invocation, support, builds)
            /\ p.support = SupportId(p.invocation, support, builds)
BY DEF Prepare, Refused

(* compose of composition.rs and the command of check_pack.rs: whatever the corpus, the
   options, the answers of the owner and the builds, a check that passes vouches for what
   it was composed of. *)
THEOREM VouchedPass ==
  ASSUME NEW Names, NEW Facts, None \notin Facts, Facts \cap DOMAIN SpecimenFacts = {},
         NEW corpus \in CorporaOf(Names, Facts), NEW options, NEW authority, NEW builds
  PROVE  PassIsVouchedFor(corpus, options, authority, builds)
<1> DEFINE c == Compose(corpus, builds)
           r == Execute(options, c.evidence, c.support, authority, builds)
           facts == DOMAIN corpus.witness \cup DOMAIN SpecimenFacts
           lacking == {f \in DOMAIN corpus.witness : corpus.witness[f] = None}
<1>1. DOMAIN corpus.witness = Facts
  BY DEF CorporaOf
<1>2. DOMAIN Contributions(corpus) = (Facts \ lacking) \cup DOMAIN SpecimenFacts
  BY <1>1 DEF Contributions
<1>3. MissingRoles(corpus) = lacking
  BY <1>1, <1>2 DEF MissingRoles
<1>4. c.refused => c.why \in {{}, lacking}
  BY <1>3 DEF Compose, Refused
<1>5. ASSUME ~c.refused, ~r.refused
      PROVE  /\ DOMAIN r.receipt.observations = facts
             /\ \A f \in DOMAIN corpus.witness : corpus.witness[f] = f
             /\ \A q, s \in Roles : q # s => corpus.acceptance[q] # corpus.acceptance[s] /\ corpus.binding[q] # corpus.binding[s]
             /\ \A f \in facts : r.receipt.support.definition[f].fact = f /\ r.receipt.support.definition[f].corpus = corpus.id
             /\ r.receipt.binding = options.binding /\ r.receipt.invocation.subject = options.subject
             /\ r.receipt.provenance.adapter.lock = r.receipt.provenance.checker.lock
             /\ r.receipt.provenance = Provenance(r.receipt.invocation, c.support, builds)
             /\ r.revocation = authority.status /\ authority.live /\ authority.verifies
  <2>1. /\ CorpusOK(corpus) /\ WitnessesOK(corpus) /\ lacking = {}
        /\ c = [refused |-> FALSE, evidence |-> [f \in DOMAIN Contributions(corpus) |-> TRUE],
                support |-> [f \in DOMAIN Contributions(corpus) |-> FactSupport(f, corpus, builds)]]
    BY <1>3, <1>5 DEF Compose, Refused
  <2>2. DOMAIN Contributions(corpus) = facts
    BY <1>1, <1>2, <2>1
  <2>3. DOMAIN c.evidence = facts /\ \A f \in facts : c.support[f] = FactSupport(f, corpus, builds)
    <3>1. c.evidence = [f \in facts |-> TRUE] /\ c.support = [f \in facts |-> FactSupport(f, corpus, builds)]
      BY <2>1, <2>2
    <3> HIDE DEF facts, c
    <3> QED
      BY <3>1
  <2>4. \A f \in facts : c.support[f].fact = f /\ c.support[f].corpus = corpus.id
    <3>1. \A f : FactSupport(f, corpus, builds).fact = f /\ FactSupport(f, corpus, builds).corpus = corpus.id
      BY DEF FactSupport
    <3> HIDE DEF facts, c
    <3> QED
      BY <2>3, <3>1
  <2>5. \A f \in DOMAIN corpus.witness : corpus.witness[f] = f
    BY <2>1 DEF WitnessesOK
  <2>6. \A q, s \in Roles : q # s => corpus.acceptance[q] # corpus.acceptance[s] /\ corpus.binding[q] # corpus.binding[s]
    <3>1. DOMAIN corpus.acceptance = Roles /\ DOMAIN corpus.binding = Roles
      BY DEF CorporaOf
    <3> QED
      BY <2>1, <3>1 DEF CorpusOK, Distinct
  <2> DEFINE p == Prepare(c.evidence, c.support, builds)
  <2> HIDE DEF c
  <2>7. /\ options.subject = c.evidence /\ options.binding = Binding(builds)
        /\ authority.live /\ authority.verifies /\ r.revocation = authority.status
        /\ r.receipt = p /\ ~p.refused
    BY <1>5, PassedIsPrepared
  <2>8. /\ builds.pack.lock = builds.adapter.lock
        /\ p.binding = Binding(builds) /\ p.invocation.subject = c.evidence /\ p.observations = c.evidence
        /\ p.provenance = Provenance(p.invocation, c.support, builds)
        /\ p.support = SupportId(p.invocation, c.support, builds)
    BY <2>7, PreparedIs
  <2> HIDE DEF p, r, facts
  <2>9. /\ p.support.definition = c.support /\ p.provenance.adapter = builds.adapter /\ p.provenance.checker = builds.pack
    BY <2>8 DEF SupportId, Provenance
  <2> QED
    BY <2>3, <2>4, <2>5, <2>6, <2>7, <2>8, <2>9
<1> QED
  BY <1>4, <1>5 DEF PassIsVouchedFor

(* The nearest of the directories above one. *)
LEMMA NearestIsThere ==
  ASSUME NEW Names, NEW dir \in Seq(Names), NEW S, S # {}, \A d \in S : d \in Seq(Names) /\ IsPrefix(d, dir)
  PROVE  \E d \in S : \A e \in S : Len(e) <= Len(d)
<1> DEFINE N == {Len(dir) - Len(d) : d \in S}
<1>1. \A d \in S : Len(d) \in Nat /\ Len(d) <= Len(dir)
  BY DEF IsPrefix
<1>2. Len(dir) \in Nat
  OBVIOUS
<1>3. N \subseteq Nat /\ N # {}
  BY <1>1, <1>2
<1>4. PICK x \in N : \A y \in N : x <= y
  BY <1>3, LeastNumber
<1>5. PICK d \in S : x = Len(dir) - Len(d)
  BY <1>4
<1>6. ASSUME NEW e \in S PROVE Len(e) <= Len(d)
  <2> DEFINE y == Len(dir) - Len(e)
  <2>1. y \in N /\ y \in Nat /\ x \in Nat
    BY <1>3, <1>4
  <2>2. x <= y
    BY <1>4, <2>1
  <2> QED
    BY <1>1, <1>2, <1>5, <2>1, <2>2
<1> QED
  BY <1>6

(* selected_lock of build.rs: whatever locks there are in whatever tree, the one that is
   recorded is the one told of by its digest, or else the nearest. *)
THEOREM ExactLock ==
  ASSUME NEW Names, NEW dir \in Seq(Names), NEW tree, DOMAIN tree \subseteq Seq(Names),
         NEW env, \/ env.file = {} \/ \E d : env.file = {d},
         \/ env.digest = {} \/ \E x : env.digest = {x}
  PROVE  LockIsExact(env, dir, tree)
<1> DEFINE above == {d \in DOMAIN tree : IsPrefix(d, dir)}
           nearest == CHOOSE d \in above : \A e \in above : Len(e) <= Len(d)
           good(d) == d \in DOMAIN tree /\ tree[d].is = "file" /\ tree[d].content \in env.digest
           at == IF env.file = {} THEN nearest ELSE CHOOSE d \in env.file : TRUE
           l == SelectedLock(env, dir, tree)
           cargo(d) == IsPrefix(d, dir) /\ \A e \in DOMAIN tree : IsPrefix(e, dir) => Len(e) <= Len(d)
<1>1. l = IF Cardinality(env.file) # Cardinality(env.digest) \/ (\E d \in env.file : ~good(d)) THEN Refused("selected lock")
          ELSE IF env.file = {} /\ above = {} THEN Refused("no lock")
          ELSE [refused |-> FALSE, lock |-> tree[at].content]
  BY DEF SelectedLock
<1>2. \A why : Refused(why).refused
  BY DEF Refused
<1> SUFFICES ASSUME ~l.refused
             PROVE  \E d \in DOMAIN tree : /\ tree[d].content = l.lock
                                           /\ IF env.digest = {} THEN cargo(d) ELSE env.digest = {l.lock}
  BY DEF LockIsExact
<1>3. /\ Cardinality(env.file) = Cardinality(env.digest) /\ \A d \in env.file : good(d)
      /\ ~(env.file = {} /\ above = {}) /\ l.lock = tree[at].content
  <2> HIDE DEF good, above, at, l
  <2> QED
    BY <1>1, <1>2
<1>4. env.file = {} <=> env.digest = {}
  BY <1>3, FS_EmptySet, FS_Singleton
<1> HIDE DEF l
<1>5. CASE env.file = {}
  <2>1. \E d \in above : \A e \in above : Len(e) <= Len(d)
    BY <1>3, <1>5, NearestIsThere
  <2>2. nearest \in above /\ \A e \in above : Len(e) <= Len(nearest)
    BY <2>1
  <2>3. at = nearest
    BY <1>5
  <2> HIDE DEF nearest, at
  <2>4. cargo(nearest)
    BY <2>2
  <2> QED
    BY <1>3, <1>4, <1>5, <2>2, <2>3, <2>4
<1>6. CASE env.file # {}
  <2>1. at \in env.file
    BY <1>6
  <2> HIDE DEF at
  <2>2. at \in DOMAIN tree /\ l.lock \in env.digest
    BY <1>3, <2>1
  <2>3. env.digest = {l.lock}
    BY <2>2
  <2> QED
    BY <1>3, <2>2, <2>3
<1> QED
  BY <1>5, <1>6
=============================================================================
