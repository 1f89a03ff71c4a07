---------------------------- MODULE MutantRunner ----------------------------
(***************************************************************************)
(* The judgement of the mutants (lib/MutantRunner.cpp and                  *)
(* lib/Parallelization/Tasks/MutantExecutionTask.cpp): a baseline run of   *)
(* the unmodified program gives the time limit, then a pool of workers     *)
(* runs the program once per covered mutant, with the environment variable *)
(* named after the mutant, and the status of the run is the verdict.       *)
(*                                                                         *)
(* Which worker takes which mutant, and the order of the results, is the   *)
(* subject of TaskExecutor; here at most executionWorkers runs overlap.    *)
(* What they have in common is the machine: overlapping runs slow each     *)
(* other down, while the baseline had the machine for itself.  A run is    *)
(* one call of runProgram, with the outcomes ExecutionResult allows.       *)
(***************************************************************************)
EXTENDS ExecutionResult, Sequences, FiniteSets

CONSTANTS
  Identifiers,  \* identifiers of mutants
  Original,     \* the program without an enabled mutant
  Durations,    \* how long a program may take, alone on the machine
  Never,        \* the duration of a program that does not end
  Timeouts,     \* values of configuration.timeout, 0 for no limit
  MaxMutants,
  WorkerCounts, \* values of executionWorkers
  Cores         \* programs the machine runs at full speed

ASSUME OriginalAssumption == Original \notin Identifiers
ASSUME DurationsAssumption == Durations \subseteq Nat /\ Never \in Nat
ASSUME TimesAssumption == Times \subseteq Nat
ASSUME TimeoutsAssumption == Timeouts \subseteq Nat
ASSUME SizesAssumption == MaxMutants \in Nat /\ WorkerCounts \subseteq Nat /\ Cores \in Nat \ {0}

VARIABLES
  program,   \* [enabled]: exit status and duration, for good or by bad luck
  covered,   \* [id]: Mutant::isCovered
  mutants,   \* the argument mutants: their identifiers
  workers,   \* parallelization.executionWorkers
  timeout,   \* configuration.timeout
  phase,     \* "baseline", "mutants", "returned" or "exited"
  baseline,  \* ExecutionResult of the baseline run
  children,  \* mutants whose program is running
  results    \* [i]: status of the MutationResult, or "none"

input == <<program, covered, mutants, workers, timeout>>
vars  == <<input, phase, baseline, children, results>>

Init ==
  /\ program \in [Identifiers \cup {Original} -> [exit : {0, 1}, time : Durations]]
  /\ covered \in [Identifiers -> BOOLEAN]
  /\ mutants \in UNION {[1 .. n -> Identifiers] : n \in 0 .. MaxMutants}
  /\ workers \in WorkerCounts
  /\ timeout \in Timeouts
  /\ phase = "baseline"
  /\ baseline = NoResult
  /\ children = {}
  /\ results = [i \in DOMAIN mutants |-> "none"]

-----------------------------------------------------------------------------
(* One call of runProgram. *)

\* Programs that share one core when all workers run one.
Load == IF workers <= Cores THEN 1 ELSE ((workers - 1) \div Cores) + 1

\* Result r of a program that ends with status p.exit when the machine makes it
\* s times slower.  The milliseconds are those that have passed completely; a
\* limit of 0 is none.
Agrees(r, p, s, limit) ==
  LET t == p.time * s
  IN /\ p.time = Never => limit > 0 /\ r.status = "Timedout"
     /\ r.status = "Timedout" => limit <= t /\ r.runningTime <= t
     /\ limit = 0 => r.runningTime >= t - 1
     /\ r.status # "Timedout" => /\ r.exitStatus = p.exit
                                 /\ r.runningTime \in {t - 1, t}
                                 /\ limit > 0 => t <= 2 * limit

Outcomes(p, limit, load) ==
  {r \in Verdicts(limit) : \E s \in 1 .. load : Agrees(r, p, s, limit)}

-----------------------------------------------------------------------------

\* mutants of Limit: no margin; no minimum
TightLimit == IF baseline.runningTime > 30 THEN baseline.runningTime ELSE 30

BareLimit == baseline.runningTime * 10

Limit == IF baseline.runningTime * 10 > 30 THEN baseline.runningTime * 10 ELSE 30

BaselineRun ==
  /\ phase = "baseline"
  /\ phase' = "mutants"
  /\ baseline' \in Outcomes(program[Original], timeout, 1)
  /\ UNCHANGED <<input, children, results>>

Judge(i, status) == results' = [results EXCEPT ![i] = status]

SkipMutant(i) ==
  /\ phase = "mutants" /\ workers > 0
  /\ results[i] = "none"
  /\ ~ covered[mutants[i]]
  /\ Judge(i, "NotCovered")
  /\ UNCHANGED <<input, phase, baseline, children>>

StartMutant(i) ==
  /\ phase = "mutants"
  /\ results[i] = "none" /\ i \notin children
  /\ covered[mutants[i]]
  /\ Cardinality(children) < workers
  /\ children' = children \cup {i}
  /\ UNCHANGED <<input, phase, baseline, results>>

\* mutant of FinishMutant: the environment is left empty
FinishOriginal(i) ==
  /\ phase = "mutants" /\ i \in children
  /\ children' = children \ {i}
  /\ \E r \in Outcomes(program[Original], Limit, Load) : Judge(i, r.status)
  /\ UNCHANGED <<input, phase, baseline>>

FinishMutant(i) ==
  /\ phase = "mutants" /\ i \in children
  /\ children' = children \ {i}
  /\ \E r \in Outcomes(program[mutants[i]], Limit, Load) : Judge(i, r.status)
  /\ UNCHANGED <<input, phase, baseline>>

\* The program cannot be started any more: diagnostics.error calls exit(1), and
\* nobody stops what other workers run.
StartFails ==
  /\ \/ phase = "baseline"
     \/ phase = "mutants" /\ Cardinality(children) < workers
        /\ \E i \in DOMAIN mutants \ children : results[i] = "none" /\ covered[mutants[i]]
  /\ phase' = "exited"
  /\ UNCHANGED <<input, baseline, children, results>>

\* mutant of Return: it does not wait for the workers
ReturnUnjoined ==
  /\ phase = "mutants"
  /\ workers = 0 \/ \A i \in DOMAIN mutants : results[i] # "none" \/ i \in children
  /\ phase' = "returned"
  /\ UNCHANGED <<input, baseline, children, results>>

Return ==
  /\ phase = "mutants"
  /\ workers = 0 \/ \A i \in DOMAIN mutants : results[i] # "none"
  /\ phase' = "returned"
  /\ UNCHANGED <<input, baseline, children, results>>

JudgeMutants == \E i \in DOMAIN mutants : SkipMutant(i) \/ StartMutant(i) \/ FinishMutant(i)

Next == BaselineRun \/ JudgeMutants \/ StartFails \/ Return

Spec == Init /\ [][Next]_vars /\ WF_vars(JudgeMutants) /\ WF_vars(Return)

-----------------------------------------------------------------------------
(* Properties *)

Statuses == {"Passed", "Failed", "Timedout", "NotCovered"}

TypeOK ==
  /\ program \in [Identifiers \cup {Original} -> [exit : {0, 1}, time : Durations]]
  /\ covered \in [Identifiers -> BOOLEAN]
  /\ mutants \in Seq(Identifiers)
  /\ workers \in WorkerCounts
  /\ timeout \in Timeouts
  /\ phase \in {"baseline", "mutants", "returned", "exited"}
  /\ baseline = NoResult \/ baseline \in Verdicts(timeout)
  /\ children \subseteq DOMAIN mutants
  /\ results \in [DOMAIN mutants -> Statuses \cup {"none"}]

\* A mutant the tests do not notice survives: if it is reached, the program ends
\* with 0 under it, and it takes no more time than the original, then it is not
\* killed by the time limit -- provided the baseline passed and overlapping runs
\* make each other no more than seven times slower.  (The limit is ten times a
\* time measured in whole milliseconds, and at least 30: a program that takes
\* just under four milliseconds is measured as three.)
UndetectedSurvives ==
  \A i \in DOMAIN mutants :
    LET p == program[mutants[i]]
    IN /\ results[i] \in Statuses \ {"NotCovered"}
       /\ baseline.status = "Passed" /\ Load <= 7
       /\ p.exit = 0 /\ p.time <= program[Original].time
       => results[i] = "Passed"

\* A survivor is a mutant the tests ran and did not notice: the program did end,
\* and with 0, although this mutant was enabled.
SurvivorsAreUndetected ==
  \A i \in DOMAIN mutants :
    results[i] = "Passed" =>
      /\ covered[mutants[i]]
      /\ program[mutants[i]].exit = 0 /\ program[mutants[i]].time # Never

\* Whatever the mutants do, and however little time the baseline took, the
\* judgement comes to an end -- unless a program closes the pipe its end is
\* watched through and runs on, which is left to ProcessRunner (Returns).
JudgementEnds == phase = "mutants" ~> phase \in {"returned", "exited"}

\* What mull-runner relies on.
unnoticed == [id \in Identifiers |-> program[id].exit = 0 /\ program[id].time # Never]
call == IF phase \in {"returned", "exited"} THEN phase ELSE "running"
Verdict == INSTANCE Judgement WITH
  results <- IF phase = "returned" THEN results ELSE [i \in DOMAIN mutants |-> "none"]

\* runMutants implements the one-step judgement the runner is written against.
ImplementsJudgement == Verdict!Spec

=============================================================================
