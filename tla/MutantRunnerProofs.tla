------------------------- MODULE MutantRunnerProofs -------------------------
(***************************************************************************)
(* The judgement of mutants is right in both directions, for every program *)
(* and every load of at most seven: what the tests do not notice survives, *)
(* and what survives was not noticed.                                      *)
(***************************************************************************)
EXTENDS MutantRunner, FiniteSetTheorems, TLAPS

Assumptions ==
  /\ Original \notin Identifiers /\ Durations \subseteq Nat /\ Never \in Nat
  /\ Times \subseteq Nat /\ Timeouts \subseteq Nat
  /\ MaxMutants \in Nat /\ WorkerCounts \subseteq Nat /\ Cores \in Nat \ {0}

LEMMA Constants == Assumptions
  BY OriginalAssumption, DurationsAssumption, TimesAssumption, TimeoutsAssumption,
     SizesAssumption DEF Assumptions

\* The time the baseline is measured with is that of the original, rounded down.
BaselineInv ==
  baseline.status = "Passed" =>
    /\ baseline.runningTime \in Nat
    /\ program[Original].time <= baseline.runningTime + 1

\* Nothing is judged before the baseline is known.
BaselineFirst ==
  phase = "baseline" => /\ children = {}
                        /\ \A i \in DOMAIN mutants : results[i] = "none"

\* Only covered mutants run, and only if there are workers.
ChildrenInv == \A i \in children : covered[mutants[i]] /\ workers > 0

\* What is judged is judged as covered or not; without workers nothing is.
JudgedInv ==
  \A i \in DOMAIN mutants :
    results[i] # "none" => /\ results[i] = "NotCovered" <=> ~ covered[mutants[i]]
                           /\ workers > 0

IInv == TypeOK /\ JudgedInv /\ ChildrenInv /\ BaselineInv /\ BaselineFirst /\ UndetectedSurvives /\ SurvivorsAreUndetected

\* Ten times the measured time, and at least 30, is more than seven times the
\* real one.
LEMMA Margin ==
  ASSUME NEW d \in Nat, NEW b \in Nat, NEW s \in 1 .. 7, d <= b + 1
  PROVE  /\ b * 10 > 30 => d * s < b * 10
         /\ ~ (b * 10 > 30) => d * s < 30
<1>1. d * s <= d * 7
  BY Z3
<1> QED
  BY <1>1

LEMMA LoadIsPositive == ASSUME TypeOK PROVE Load \in Nat \ {0}
<1>1. workers \in Nat /\ Cores \in Nat \ {0}
  BY Constants DEF TypeOK, Assumptions
<1>2. CASE workers <= Cores
  BY <1>2 DEF Load
<1>3. CASE ~ (workers <= Cores)
  <2>1. workers - 1 \in Nat
    BY <1>1, <1>3
  <2>2. (workers - 1) \div Cores \in Nat
    BY <1>1, <2>1, Z3
  <2> QED
    BY <1>3, <2>2 DEF Load
<1> QED
  BY <1>2, <1>3

\* A program that ends with 0 and takes no longer than the original passes.
LEMMA HarmlessPasses ==
  ASSUME TypeOK, BaselineInv, baseline.status = "Passed", Load <= 7,
         NEW p \in [exit : {0, 1}, time : Durations],
         p.exit = 0, p.time <= program[Original].time,
         NEW r \in Outcomes(p, Limit, Load)
  PROVE  r.status = "Passed"
<1>1. PICK s \in 1 .. Load : Agrees(r, p, s, Limit)
  BY DEF Outcomes
<1>2. r \in [status : {"Passed", "Failed", "Timedout"}, exitStatus : {0, 1}, runningTime : Times]
      /\ (r.status = "Passed" <=> r.exitStatus = 0)
  BY DEF Outcomes, Verdicts
<1>3. s \in 1 .. 7 /\ baseline.runningTime \in Nat
  BY LoadIsPositive, <1>1 DEF BaselineInv
<1>4. p.time \in Nat /\ program[Original].time \in Nat
  BY Constants DEF TypeOK, Assumptions
<1>5. p.time <= baseline.runningTime + 1
  BY <1>3, <1>4 DEF BaselineInv
<1>6. p.time * s < Limit
  BY <1>3, <1>4, <1>5, Margin DEF Limit
<1>7. Limit \in Nat /\ p.time * s \in Nat
  BY <1>3, <1>4 DEF Limit
<1>8. r.status # "Timedout"
  BY <1>1, <1>6, <1>7 DEF Agrees
<1> QED
  BY <1>1, <1>2, <1>8 DEF Agrees

\* Whatever passes has ended, with 0.
LEMMA PassedEnded ==
  ASSUME NEW p, NEW limit, NEW load, NEW r \in Outcomes(p, limit, load), r.status = "Passed"
  PROVE  p.exit = 0 /\ p.time # Never
<1>1. PICK s \in 1 .. load : Agrees(r, p, s, limit)
  BY DEF Outcomes
<1>2. r.exitStatus = 0
  BY DEF Outcomes, Verdicts
<1> QED
  BY <1>1, <1>2 DEF Agrees

LEMMA ChildrenFinite == ASSUME TypeOK PROVE Cardinality(children) \in Nat
<1>1. IsFiniteSet(DOMAIN mutants)
  <2>1. PICK n \in Nat : mutants \in [1 .. n -> Identifiers]
    BY DEF TypeOK
  <2> QED
    BY <2>1, FS_Interval
<1> QED
  BY <1>1, FS_Subset, FS_CardinalityType DEF TypeOK

LEMMA InitInv == Init => IInv
<1> SUFFICES ASSUME Init PROVE IInv
  OBVIOUS
<1>1. mutants \in Seq(Identifiers)
  <2>1. PICK n \in 0 .. MaxMutants : mutants \in [1 .. n -> Identifiers]
    BY DEF Init
  <2>2. n \in Nat
    BY Constants DEF Assumptions
  <2> QED
    BY <2>1, <2>2
<1>2. TypeOK
  BY <1>1 DEF Init, TypeOK, input
<1> QED
  BY <1>2 DEF Init, IInv, JudgedInv, ChildrenInv, BaselineInv, BaselineFirst, UndetectedSurvives, SurvivorsAreUndetected,
     NoResult, Statuses

LEMMA StepInv == IInv /\ [Next]_vars => IInv'
<1> SUFFICES ASSUME IInv, [Next]_vars PROVE IInv'
  OBVIOUS
<1> USE DEF IInv
<1>1. CASE BaselineRun
  <2> USE <1>1 DEF BaselineRun, input
  <2>1. baseline' \in Verdicts(timeout)
    BY DEF Outcomes
  <2>2. TypeOK'
    BY <2>1 DEF TypeOK
  <2>3. BaselineInv'
    <3> SUFFICES ASSUME baseline'.status = "Passed"
                 PROVE  /\ baseline'.runningTime \in Nat
                        /\ program[Original].time <= baseline'.runningTime + 1
      BY DEF BaselineInv
    <3>1. PICK s \in 1 .. 1 : Agrees(baseline', program[Original], s, timeout)
      BY DEF Outcomes
    <3>2. baseline'.runningTime \in Nat
      BY <2>1, Constants DEF Verdicts, Assumptions
    <3>3. program[Original].time \in Nat
      BY Constants DEF TypeOK, Assumptions
    <3>4. s = 1 /\ program[Original].time * s = program[Original].time
      BY <3>1, <3>3
    <3> QED
      BY <3>1, <3>2, <3>3, <3>4 DEF Agrees
  <2>4. BaselineFirst' /\ UndetectedSurvives' /\ SurvivorsAreUndetected'
    BY DEF BaselineFirst, UndetectedSurvives, SurvivorsAreUndetected, Statuses
  <2> QED
    BY <2>2, <2>3, <2>4 DEF JudgedInv, ChildrenInv
<1>2. ASSUME NEW i \in DOMAIN mutants, SkipMutant(i)
      PROVE  IInv'
  <2> USE <1>2 DEF SkipMutant, Judge, input
  <2>1. TypeOK'
    BY DEF TypeOK, Statuses
  <2>2. UndetectedSurvives' /\ SurvivorsAreUndetected' /\ JudgedInv'
    BY DEF TypeOK, UndetectedSurvives, SurvivorsAreUndetected, JudgedInv, Statuses, Load
  <2> QED
    BY <2>1, <2>2 DEF ChildrenInv, BaselineInv, BaselineFirst
<1>3. ASSUME NEW i \in DOMAIN mutants, StartMutant(i)
      PROVE  IInv'
  <2> USE <1>3 DEF StartMutant, input
  <2>1. TypeOK'
    BY DEF TypeOK
  <2>2. UndetectedSurvives' /\ SurvivorsAreUndetected'
    BY DEF UndetectedSurvives, SurvivorsAreUndetected, Load
  <2>3. workers > 0
    BY ChildrenFinite, Constants, FS_EmptySet DEF TypeOK, Assumptions
  <2> QED
    BY <2>1, <2>2, <2>3 DEF JudgedInv, ChildrenInv, BaselineInv, BaselineFirst
<1>4. ASSUME NEW i \in DOMAIN mutants, FinishMutant(i)
      PROVE  IInv'
  <2> USE <1>4 DEF FinishMutant, input
  <2>1. PICK r \in Outcomes(program[mutants[i]], Limit, Load) : Judge(i, r.status)
    OBVIOUS
  <2>2. r.status \in {"Passed", "Failed", "Timedout"}
    BY DEF Outcomes, Verdicts
  <2>3. program[mutants[i]] \in [exit : {0, 1}, time : Durations]
    BY DEF TypeOK
  <2>4. TypeOK'
    BY <2>1, <2>2 DEF TypeOK, Judge, Statuses
  <2>5. UndetectedSurvives'
    <3>1. ASSUME baseline.status = "Passed", Load <= 7, program[mutants[i]].exit = 0,
                 program[mutants[i]].time <= program[Original].time
          PROVE  r.status = "Passed"
      BY <2>3, <3>1, HarmlessPasses
    <3> QED
      BY <2>1, <3>1 DEF TypeOK, UndetectedSurvives, Judge, Load
  <2>6. SurvivorsAreUndetected'
    <3>1. r.status = "Passed" => program[mutants[i]].exit = 0 /\ program[mutants[i]].time # Never
      BY PassedEnded
    <3>2. covered[mutants[i]]
      BY DEF ChildrenInv
    <3> QED
      BY <2>1, <3>1, <3>2 DEF TypeOK, SurvivorsAreUndetected, Judge
  <2>7. JudgedInv'
    BY <2>1, <2>2 DEF TypeOK, JudgedInv, ChildrenInv, Judge
  <2> QED
    BY <2>4, <2>5, <2>6, <2>7 DEF ChildrenInv, BaselineInv, BaselineFirst
<1>5. CASE StartFails \/ Return
  BY <1>5 DEF StartFails, Return, input, TypeOK, JudgedInv, ChildrenInv, BaselineInv, BaselineFirst, UndetectedSurvives,
     SurvivorsAreUndetected, Load
<1>6. CASE UNCHANGED vars
  BY <1>6 DEF vars, input, TypeOK, JudgedInv, ChildrenInv, BaselineInv, BaselineFirst, UndetectedSurvives,
     SurvivorsAreUndetected, Load
<1> QED
  BY <1>1, <1>2, <1>3, <1>4, <1>5, <1>6 DEF Next, JudgeMutants

THEOREM Invariance == Spec => []IInv
  BY InitInv, StepInv, PTL DEF Spec

\* Type correctness of runMutants for all programs, timeouts and worker counts.
THEOREM TypeCorrect == Spec => []TypeOK
  BY Invariance, PTL DEF IInv

\* No mutant is killed by the time limit the baseline gave, or by anything but
\* its own exit status, unless it is slower than the original or the machine is
\* more than seven times overloaded: MutantExecutionTask, max(30, 10 * baseline).
THEOREM SurvivalCorrect == Spec => []UndetectedSurvives
  BY Invariance, PTL DEF IInv

\* A survivor did run, to its end, with status 0, under its own environment.
THEOREM SurvivorsCorrect == Spec => []SurvivorsAreUndetected
  BY Invariance, PTL DEF IInv

\* runMutants implements Judgement: one status per mutant, all at once, each as
\* the runner expects it, or no return at all.
THEOREM Refinement == Spec => ImplementsJudgement
<1> DEFINE Shown == IF phase = "returned" THEN results ELSE [i \in DOMAIN mutants |-> "none"]
<1>1. Init => Verdict!Init
  BY DEF Init, Verdict!Init, Verdict!Nothing, call
<1>2. ASSUME IInv, Return
      PROVE  /\ workers = 0 => results = [i \in DOMAIN mutants |-> "none"]
             /\ workers # 0 => results \in Verdict!Judgements
  <2> USE <1>2 DEF IInv, Return
  <2>1. CASE workers = 0
    BY <2>1 DEF TypeOK, JudgedInv
  <2>2. CASE workers # 0
    <3>1. results \in [DOMAIN mutants -> Statuses]
      BY <2>2 DEF TypeOK
    <3>2. ASSUME NEW i \in DOMAIN mutants
          PROVE  Verdict!Judged(results[i], mutants[i])
      <4>1. mutants[i] \in Identifiers
        BY DEF TypeOK
      <4>2. results[i] = "NotCovered" <=> ~ covered[mutants[i]]
        BY <2>2 DEF JudgedInv
      <4>3. results[i] = "Passed" => unnoticed[mutants[i]]
        BY <4>1 DEF SurvivorsAreUndetected, unnoticed
      <4> QED
        BY <4>2, <4>3 DEF Verdict!Judged
    <3> QED
      BY <2>2, <3>1, <3>2 DEF Verdict!Judgements, Verdict!Statuses, Statuses
  <2> QED
    BY <2>1, <2>2
<1>3. ASSUME IInv, [Next]_vars
      PROVE  [Verdict!Next]_<<mutants, covered, unnoticed, workers, Shown, call>>
  <2>1. /\ mutants' = mutants /\ covered' = covered /\ workers' = workers
        /\ unnoticed' = unnoticed
    BY <1>3 DEF Next, JudgeMutants, BaselineRun, SkipMutant, StartMutant, FinishMutant, StartFails,
       Return, vars, input, unnoticed
  <2>2. CASE Return
    <3>1. call = "running" /\ call' = "returned" /\ Shown' = results
      BY <2>2 DEF Return, call
    <3> QED
      BY <1>2, <1>3, <2>1, <2>2, <3>1 DEF Verdict!Next, Verdict!Return, Verdict!Nothing
  <2>3. CASE StartFails
    BY <2>1, <2>3 DEF StartFails, call, Verdict!Next, Verdict!Exit
  <2>4. CASE BaselineRun \/ JudgeMutants \/ UNCHANGED vars
    BY <2>1, <2>4 DEF BaselineRun, JudgeMutants, SkipMutant, StartMutant, FinishMutant, vars, input, call
  <2> QED
    BY <1>3, <2>2, <2>3, <2>4 DEF Next
<1> QED
  BY <1>1, <1>3, Invariance, PTL DEF Spec, ImplementsJudgement, Verdict!Spec

=============================================================================
