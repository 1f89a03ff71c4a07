-------------------------- MODULE MullRunnerProofs --------------------------
(***************************************************************************)
(* Theorems about MullRunner, for any mutants, libraries and coverage.     *)
(*                                                                         *)
(* In strict mode a warning ends the program.  What a later stage takes    *)
(* for granted is therefore what the warnings of the earlier ones are      *)
(* about; the invariant says for each stage which of them are behind it.   *)
(*                                                                         *)
(* The mutants are a sequence of those found, each once and sorted, until  *)
(* the filters leave those that no filter skips: again each of them once,  *)
(* and in the same order.  What is not covered then is what coverage that  *)
(* was loaded says so.                                                     *)
(***************************************************************************)
EXTENDS MullRunner, FiniteSetTheorems, TLAPS

TypeOK ==
  /\ section \in [Holders -> SUBSET Encodings]
  /\ options \in [strict : BOOLEAN, includeNotCovered : BOOLEAN, coverage : {"none", "good", "bad"}]
  /\ profile \in Profiles
  /\ file \in [Holders -> {"object", "other", "unreadable", "missing"}]
  /\ stage \in {"extract", "warm up", "profile", "coverage", "filter", "judge", "report", "exited"}
  /\ warmUp \in {"none", "Passed", "Failed", "Timedout"}
  /\ rawFile \in BOOLEAN
  /\ coverage \in Profiles \cup {Unloaded}

AfterExtraction == {"warm up", "profile", "coverage", "filter", "judge", "report"}
AfterWarmUp     == AfterExtraction \ {"warm up"}
AfterMerging    == AfterWarmUp \ {"profile"}
AfterLoading    == AfterMerging \ {"coverage"}

StrictInv ==
  options.strict =>
    /\ stage \in AfterExtraction => \A h \in Holders : file[h] = "object"
    /\ stage \in AfterWarmUp     => warmUp = "Passed"
    /\ stage \in AfterMerging    => (AsksForProfile => rawFile)
    /\ stage \in AfterLoading    => (AsksForProfile \/ options.coverage # "none" => coverage = profile)

\* Without strict mode, too: the filter has counters of this run or the user's, or none,
\* and a run that was killed has written none.
CountersInv ==
  /\ stage \in {"extract", "warm up"} => coverage = Unloaded
  /\ coverage # Unloaded => coverage = profile /\ Loadable
  /\ stage \in AfterLoading => (Loadable => coverage # Unloaded)
  /\ rawFile => AsksForProfile /\ warmUp \in {"Passed", "Failed"}

\* What the filters leave.
Left(e) ==
  /\ identifier[e] \notin excluded
  /\ ~ Uncovered(identifier[e]) \/ options.includeNotCovered

\* s has each mutant of S, once and at a place that its identifier gives it.
SortedInto(s, S) ==
  /\ \E n \in Nat : s \in [1 .. n -> S]
  /\ \A e \in S : \E i \in DOMAIN s : s[i] = e
  /\ \A i, j \in DOMAIN s : i # j => s[i] # s[j]
  /\ \A i, j \in DOMAIN s : i < j => identifier[s[i]] <= identifier[s[j]]

MutantsInv ==
  /\ stage \in AfterExtraction \ {"judge", "report"} => SortedInto(mutants, Found)
  /\ stage \in {"judge", "report"} =>
       /\ SortedInto(mutants, {e \in Found : Left(e)})
       /\ covered = {e \in Found : ~ Uncovered(identifier[e])}

\* There is a verdict on each mutant that is left.
ResultsInv ==
  stage = "report" => \A i \in DOMAIN mutants : results[i] = "NotCovered" <=> mutants[i] \notin covered

IInv == TypeOK /\ StrictInv /\ CountersInv /\ MutantsInv /\ ResultsInv

-----------------------------------------------------------------------------

LEMMA FoundIsFinite == TypeOK => IsFiniteSet(Found)
<1> SUFFICES ASSUME TypeOK PROVE IsFiniteSet(Found)
  OBVIOUS
<1>1. Found \in SUBSET Encodings
  <2>1. \A h \in Holders : section[h] \in SUBSET Encodings
    BY DEF TypeOK
  <2> QED
    BY <2>1 DEF Found
<1> QED
  BY <1>1, EncodingsAssumption, FS_Subset

\* As many items as there are in the set, no two alike: none is left out.
LEMMA NoneIsLeftOut ==
  ASSUME NEW S, IsFiniteSet(S), NEW s \in SetToSeqs(S)
  PROVE  /\ Cardinality(S) \in Nat /\ s \in [1 .. Cardinality(S) -> S]
         /\ \A i, j \in DOMAIN s : i # j => s[i] # s[j]
         /\ \A e \in S : \E i \in DOMAIN s : s[i] = e
<1> DEFINE n == Cardinality(S)
<1>1. /\ n \in Nat /\ s \in [1 .. n -> S]
      /\ \A i, j \in 1 .. n : i # j => s[i] # s[j]
  BY FS_CardinalityType DEF SetToSeqs
<1>2. ASSUME NEW e \in S, ~ \E i \in DOMAIN s : s[i] = e PROVE FALSE
  <2>1. s \in [1 .. n -> S \ {e}]
    BY <1>1, <1>2
  <2>2. IsFiniteSet(S \ {e}) /\ Cardinality(S \ {e}) = n - 1
    BY FS_RemoveElement
  <2>3. IsFiniteSet(1 .. n) /\ Cardinality(1 .. n) = n
    <3>1. n > 0
      BY <1>1, FS_EmptySet
    <3> QED
      BY <1>1, <3>1, FS_Interval
  <2>4. Cardinality(S \ {e}) < Cardinality(1 .. n)
    BY <1>1, <2>2, <2>3
  <2>5. \A f \in [1 .. n -> S \ {e}] : \E i, j \in 1 .. n : i # j /\ f[i] = f[j]
    BY ONLY <2>2, <2>3, <2>4, FS_PigeonHole
  <2> QED
    BY <1>1, <2>1, <2>5
<1> QED
  BY <1>1, <1>2

LEMMA ExtractionSorts ==
  ASSUME TypeOK, NEW s \in Sorted(Found)
  PROVE  SortedInto(s, Found)
<1>1. s \in SetToSeqs(Found) /\ \A i, j \in DOMAIN s : i < j => identifier[s[i]] <= identifier[s[j]]
  BY DEF Sorted
<1> QED
  BY <1>1, FoundIsFinite, NoneIsLeftOut DEF SortedInto

\* What is kept of a sorted vector is sorted, and complete.
LEMMA KeptIsSorted ==
  ASSUME NEW S, NEW s, SortedInto(s, S), NEW T \in SUBSET S,
         NEW t \in Kept(s, {i \in DOMAIN s : s[i] \in T})
  PROVE  SortedInto(t, T)
<1> DEFINE K == {i \in DOMAIN s : s[i] \in T}
<1>1. PICK n \in Nat : s \in [1 .. n -> S]
  BY DEF SortedInto
<1>2. IsFiniteSet(K)
  <2>1. IsFiniteSet(1 .. n)
    BY FS_Interval
  <2> QED
    BY <1>1, <2>1, FS_Subset
<1>3. PICK g \in SetToSeqs(K) : (\A i, j \in DOMAIN g : i < j => g[i] < g[j]) /\ t = [k \in DOMAIN g |-> s[g[k]]]
  BY DEF Kept
<1>4. /\ Cardinality(K) \in Nat /\ g \in [1 .. Cardinality(K) -> K]
      /\ \A i, j \in DOMAIN g : i # j => g[i] # g[j]
      /\ \A k \in K : \E i \in DOMAIN g : g[i] = k
  BY <1>2, NoneIsLeftOut
<1>5. t \in [1 .. Cardinality(K) -> T]
  BY <1>3, <1>4
<1>6. ASSUME NEW e \in T PROVE \E i \in DOMAIN t : t[i] = e
  <2>1. PICK k \in DOMAIN s : s[k] = e
    BY DEF SortedInto
  <2>2. PICK i \in DOMAIN g : g[i] = k
    BY <1>4, <2>1
  <2> QED
    BY <1>3, <2>1, <2>2
<1>7. ASSUME NEW i \in DOMAIN t, NEW j \in DOMAIN t, i # j PROVE t[i] # t[j]
  BY <1>3, <1>4, <1>7 DEF SortedInto
<1>8. ASSUME NEW i \in DOMAIN t, NEW j \in DOMAIN t, i < j PROVE identifier[t[i]] <= identifier[t[j]]
  BY <1>3, <1>4, <1>8 DEF SortedInto
<1> QED
  BY <1>4, <1>5, <1>6, <1>7, <1>8 DEF SortedInto

LEMMA InitIInv == Init => IInv
<1> SUFFICES ASSUME Init PROVE IInv
  OBVIOUS
<1>1. TypeOK
  BY DEF Init, TypeOK
<1>2. StrictInv /\ CountersInv
  BY DEF Init, StrictInv, CountersInv, AfterExtraction, AfterWarmUp, AfterMerging, AfterLoading
<1>3. MutantsInv /\ ResultsInv
  BY DEF Init, MutantsInv, ResultsInv, AfterExtraction
<1> QED
  BY <1>1, <1>2, <1>3 DEF IInv

LEMMA FilterStep ==
  ASSUME IInv, FilterMutants
  PROVE  MutantsInv'
<1>1. stage = "filter" /\ stage' = "judge" /\ SortedInto(mutants, Found)
  BY DEF IInv, FilterMutants, MutantsInv, AfterExtraction
<1>2. ToSet(mutants) = Found
  BY <1>1 DEF ToSet, SortedInto
<1>3. UNCHANGED <<identifier, section, file, options, excluded, coverage, profile>>
  BY DEF FilterMutants, input
<1>4. covered' = {e \in Found : ~ Uncovered(identifier[e])}
  BY <1>2 DEF FilterMutants
<1>5. SortedInto(mutants', {e \in Found : Left(e)})
  <2> DEFINE T == {e \in Found : Left(e)}
  <2>1. {i \in DOMAIN mutants : /\ identifier[mutants[i]] \notin excluded
                                /\ mutants[i] \in covered' \/ options.includeNotCovered}
        = {i \in DOMAIN mutants : mutants[i] \in T}
    BY <1>1, <1>4 DEF Left, SortedInto
  <2>2. mutants' \in Kept(mutants, {i \in DOMAIN mutants : mutants[i] \in T})
    BY <2>1 DEF FilterMutants
  <2> QED
    BY <1>1, <2>2, KeptIsSorted
<1>6. /\ Found' = Found
      /\ \A id : Uncovered(id)' <=> Uncovered(id)
      /\ {e \in Found : Left(e)}' = {e \in Found : Left(e)}
  BY <1>3 DEF Found, Left, Uncovered
<1> QED
  BY <1>1, <1>3, <1>4, <1>5, <1>6 DEF MutantsInv, AfterExtraction, Uncovered, SortedInto

\* What a step leaves alone stays true.
LEMMA MutantsStay ==
  ASSUME MutantsInv, ResultsInv, UNCHANGED <<input, mutants, covered>>,
         stage' \in AfterExtraction => stage \in AfterExtraction,
         stage' \in {"judge", "report"} => UNCHANGED coverage,
         stage' \in AfterExtraction => (stage' \in {"judge", "report"} <=> stage \in {"judge", "report"})
  PROVE  MutantsInv'
<1>1. Found' = Found /\ \A s, S : SortedInto(s, S)' <=> SortedInto(s, S)
  BY DEF Found, SortedInto, input
<1>2. CASE stage' \in {"judge", "report"}
  <2>1. {e \in Found : Left(e)}' = {e \in Found : Left(e)} /\ \A id : Uncovered(id)' <=> Uncovered(id)
    BY <1>1, <1>2 DEF Left, Uncovered, input
  <2> QED
    BY <1>1, <1>2, <2>1 DEF MutantsInv, AfterExtraction, input
<1>3. CASE stage' \notin {"judge", "report"}
  BY <1>1, <1>3 DEF MutantsInv, AfterExtraction
<1> QED
  BY <1>2, <1>3

LEMMA CountersStep ==
  ASSUME TypeOK, StrictInv, CountersInv, [Next]_vars
  PROVE  TypeOK' /\ StrictInv' /\ CountersInv'
<1> USE DEF TypeOK, StrictInv, CountersInv, input, AfterExtraction, AfterWarmUp, AfterMerging, AfterLoading,
            AsksForProfile, Loadable
<1>1. CASE UNCHANGED vars
  BY <1>1 DEF vars
<1>2. CASE ExtractMutants
  BY <1>2 DEF ExtractMutants, Unless
<1>3. CASE WarmUpRun
  <2>1. TypeOK'
    BY <1>3 DEF WarmUpRun, Unless
  <2>2. StrictInv'
    BY <1>3 DEF WarmUpRun, Unless
  <2>3. CountersInv'
    <3>1. coverage' = Unloaded /\ stage' \notin AfterLoading
      BY <1>3 DEF WarmUpRun, Unless
    <3>2. rawFile' => AsksForProfile' /\ warmUp' \in {"Passed", "Failed"}
      BY <1>3 DEF WarmUpRun
    <3> QED
      BY <3>1, <3>2
  <2> QED
    BY <2>1, <2>2, <2>3
<1>4. CASE MergeProfile
  BY <1>4 DEF MergeProfile, Unless
<1>5. CASE LoadCoverage
  BY <1>5, UnloadedAssumption DEF LoadCoverage, Unless
<1>6. CASE FilterMutants
  BY <1>6 DEF FilterMutants
<1>7. CASE RunMutants
  BY <1>7 DEF RunMutants
<1> QED
  BY <1>1, <1>2, <1>3, <1>4, <1>5, <1>6, <1>7 DEF Next

LEMMA NextIInv == IInv /\ [Next]_vars => IInv'
<1> SUFFICES ASSUME IInv, [Next]_vars PROVE IInv'
  OBVIOUS
<1> USE DEF IInv
<1>1. TypeOK' /\ StrictInv' /\ CountersInv'
  BY CountersStep
<1>2. CASE UNCHANGED vars
  <2>1. MutantsInv'
    BY <1>2, MutantsStay DEF vars, TypeOK
  <2>2. ResultsInv'
    BY <1>2 DEF vars, ResultsInv
  <2> QED
    BY <1>1, <2>1, <2>2
<1>3. CASE ExtractMutants
  <2>1. stage' \in {"warm up", "exited"} /\ UNCHANGED <<identifier, section, file>>
    BY <1>3 DEF ExtractMutants, Unless, input
  <2>2. stage' = "warm up" => SortedInto(mutants', Found)
    BY <1>3, ExtractionSorts DEF ExtractMutants
  <2>3. SortedInto(mutants', Found) => SortedInto(mutants, Found)'
    <3>1. Found' = Found /\ identifier' = identifier
      BY <2>1 DEF Found
    <3> QED
      BY <3>1 DEF SortedInto
  <2>4. MutantsInv'
    BY <2>1, <2>2, <2>3 DEF MutantsInv, AfterExtraction
  <2> QED
    BY <1>1, <2>1, <2>4 DEF ResultsInv
<1>4. CASE WarmUpRun \/ MergeProfile \/ LoadCoverage
  <2>1. /\ UNCHANGED <<input, mutants, covered>>
        /\ stage \in AfterExtraction \ {"judge", "report"} /\ stage' \notin {"judge", "report"}
    BY <1>4 DEF WarmUpRun, MergeProfile, LoadCoverage, Unless, AfterExtraction
  <2> QED
    BY <1>1, <2>1, MutantsStay DEF ResultsInv
<1>5. CASE FilterMutants
  BY <1>1, <1>5, FilterStep DEF ResultsInv, FilterMutants
<1>6. CASE RunMutants
  <2>1. MutantsInv'
    BY <1>6, MutantsStay DEF RunMutants, AfterExtraction
  <2>2. ResultsInv'
    <3> SUFFICES ASSUME stage' = "report", NEW i \in DOMAIN mutants
                 PROVE  results'[i] = "NotCovered" <=> mutants[i] \notin covered
      BY <1>6 DEF RunMutants, ResultsInv
    <3>1. results' \in Judge!Judgements /\ stage = "judge"
      BY <1>6 DEF RunMutants
    <3>2. results'[i] = "NotCovered" <=> ~ [e \in Encodings |-> e \in covered][mutants[i]]
      BY <3>1 DEF Judge!Judgements, Judge!Judged
    <3>3. mutants[i] \in Encodings
      BY <3>1 DEF MutantsInv, SortedInto, Found, TypeOK
    <3> QED
      BY <3>2, <3>3
  <2> QED
    BY <1>1, <2>1, <2>2
<1> QED
  BY <1>2, <1>3, <1>4, <1>5, <1>6 DEF Next

LEMMA InvariantCorrect == Spec => []IInv
  BY InitIInv, NextIInv, PTL DEF Spec

-----------------------------------------------------------------------------
(* Theorems *)

\* If there is a report in strict mode, then the tests passed, all files were read, and
\* the counters that were asked for are there.
THEOREM StrictReportCorrect == Spec => []StrictReportIsClean
<1>1. IInv => StrictReportIsClean
  BY UnloadedAssumption DEF IInv, TypeOK, StrictInv, AfterExtraction, AfterWarmUp, AfterMerging, AfterLoading,
                            StrictReportIsClean
<1> QED
  BY <1>1, InvariantCorrect, PTL

\* Each mutant recorded in the executable or a library is in the report once, unless a
\* filter skips it, and the mutants are in the order of the source: for any executable,
\* any libraries and any encodings in them, however they repeat.
THEOREM ReportCorrect == Spec => []ReportIsComplete
<1>1. IInv => ReportIsComplete
  <2> SUFFICES ASSUME IInv, stage = "report" PROVE ReportIsComplete!2
    BY DEF ReportIsComplete
  <2>1. SortedInto(mutants, {e \in Found : Left(e)})
    BY DEF IInv, MutantsInv
  <2>2. ASSUME NEW e \in Found, identifier[e] \notin excluded,
               options.includeNotCovered \/ ~ Uncovered(identifier[e])
        PROVE  Cardinality({i \in DOMAIN mutants : mutants[i] = e}) = 1
    <3>1. PICK i \in DOMAIN mutants : mutants[i] = e
      BY <2>1, <2>2 DEF Left, SortedInto
    <3>2. {j \in DOMAIN mutants : mutants[j] = e} = {i}
      BY <2>1, <3>1 DEF SortedInto
    <3> QED
      BY <3>2, FS_Singleton
  <2>3. \A i \in DOMAIN mutants : identifier[mutants[i]] \notin excluded
    BY <2>1 DEF Left, SortedInto
  <2>4. \A i, j \in DOMAIN mutants : i < j => identifier[mutants[i]] <= identifier[mutants[j]]
    BY <2>1 DEF SortedInto
  <2> QED
    BY <2>2, <2>3, <2>4
<1> QED
  BY <1>1, InvariantCorrect, PTL

\* A mutant that the filters leave is in the report, and it is run if it is covered.
LEMMA CoveredIsRun ==
  ASSUME IInv, stage = "report", NEW e \in Found, identifier[e] \notin excluded, ~ Uncovered(identifier[e])
  PROVE  \E i \in DOMAIN mutants : mutants[i] = e /\ results[i] # "NotCovered"
  BY DEF IInv, MutantsInv, ResultsInv, Left, SortedInto

\* Missing coverage hides nothing.
THEOREM NoCountersCorrect == Spec => []NoCountersNoSkip
<1>1. IInv => NoCountersNoSkip
  <2> SUFFICES ASSUME IInv, stage = "report",
                      \/ options.coverage = "bad"
                      \/ options.coverage = "none" /\ ~ rawFile
                      \/ \E h \in Holders : file[h] = "other",
                      NEW e \in Found, identifier[e] \notin excluded
               PROVE  \E i \in DOMAIN mutants : mutants[i] = e /\ results[i] # "NotCovered"
    BY DEF NoCountersNoSkip
  <2>1. coverage = Unloaded
    BY DEF IInv, CountersInv, Loadable, AsksForProfile
  <2> QED
    BY <2>1, CoveredIsRun DEF Uncovered
<1> QED
  BY <1>1, InvariantCorrect, PTL

\* Only what a run has shown not to be reached is reported so, and what the tests
\* execute is judged by running it.
THEOREM NotCoveredCorrect == Spec => []NotCoveredWasNotReached
<1>1. IInv => NotCoveredWasNotReached
  <2> SUFFICES ASSUME IInv, stage = "report" PROVE NotCoveredWasNotReached!2
    BY DEF NotCoveredWasNotReached
  <2>1. \A id : Uncovered(id) <=> Loadable /\ \E r \in Regions : profile[r][id] \in {"never", "edge"}
    BY DEF IInv, CountersInv, AfterExtraction, AfterWarmUp, AfterMerging, AfterLoading, Uncovered
  <2>2. ASSUME NEW i \in DOMAIN mutants
        PROVE  results[i] = "NotCovered" <=>
                 /\ options.includeNotCovered
                 /\ rawFile \/ options.coverage = "good"
                 /\ \A h \in Holders : file[h] # "other"
                 /\ \E r \in Regions : profile[r][identifier[mutants[i]]] \in {"never", "edge"}
    <3>1. mutants[i] \in Found /\ Left(mutants[i])
      BY DEF IInv, MutantsInv, SortedInto
    <3>2. results[i] = "NotCovered" <=> Uncovered(identifier[mutants[i]])
      BY <3>1 DEF IInv, MutantsInv, ResultsInv
    <3> QED
      BY <2>1, <3>1, <3>2 DEF Left, Loadable
  <2>3. ASSUME NEW e \in Found, identifier[e] \notin excluded,
               NEW r \in Regions, profile[r][identifier[e]] = "executed",
               \A q \in Regions \ {r} : profile[q][identifier[e]] = "outside"
        PROVE  \E i \in DOMAIN mutants : mutants[i] = e /\ results[i] # "NotCovered"
    BY <2>1, <2>3, CoveredIsRun
  <2> QED
    BY <2>2, <2>3
<1> QED
  BY <1>1, InvariantCorrect, PTL

\* Counters the coverage filter works with are those of the warm up run, which was not
\* killed, or the user's, and LLVM could read all files.
CountersAreOfThisRun ==
  coverage # Unloaded =>
    /\ \A h \in Holders : file[h] # "other"
    /\ options.coverage = "good" \/ (options.coverage = "none" /\ instrumented /\ warmUp \in {"Passed", "Failed"})

\* Coverage of another run, or of one that did not end, never decides what is run.
THEOREM CountersCorrect == Spec => []CountersAreOfThisRun
<1>1. IInv => CountersAreOfThisRun
  BY DEF IInv, TypeOK, CountersInv, Loadable, AsksForProfile, CountersAreOfThisRun
<1> QED
  BY <1>1, InvariantCorrect, PTL
=============================================================================
