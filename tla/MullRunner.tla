----------------------------- MODULE MullRunner -----------------------------
(***************************************************************************)
(* The program mull-runner (tools/mull-runner): it collects the mutants    *)
(* recorded in an executable and its libraries, runs the executable once   *)
(* to see that it works and which code its tests reach, drops the mutants  *)
(* the filters exclude, lets MutantRunner judge the rest, and reports.     *)
(*                                                                         *)
(* A mutant is its encoding in .mull_mutants; its identifier, the name of  *)
(* the environment variable, is the part of the encoding without the end   *)
(* of the location, and a number here: mutants are sorted by it.           *)
(***************************************************************************)
EXTENDS Integers, SequencesExt

CONSTANTS
  Encodings,     \* mutator:path:line:column:line:column
  Identifiers,   \* numbers, one for each (path, line, column, mutator)
  Libraries,     \* what the executable is linked with
  Regions,       \* coverage regions: of a function, or of one of its instances
  Profiles,      \* what a run may count: [region -> [identifier -> Counts]]
  Unloaded       \* no coverage information

\* An executable holds finitely many encodings, and these are what it may hold.
ASSUME EncodingsAssumption == IsFiniteSet(Encodings)
ASSUME IdentifiersAssumption == Identifiers \subseteq Int
ASSUME UnloadedAssumption == Unloaded \notin Profiles

Holders == {"executable"} \cup Libraries

\* of a location in a region; "edge" is the column behind the end of one that was never executed
Counts  == {"outside", "edge", "never", "executed"}

VARIABLES
  identifier,  \* [encoding]
  section,     \* [holder]: the records in its .mull_mutants
  file,        \* [holder]: "object", "other" (no object file), "unreadable" or "missing"
  options,     \* strict, includeNotCovered; coverage: what --coverage-info names
  instrumented,\* the executable was built to count
  excluded,    \* identifiers that the filters by git diff and by path skip
  profile,     \* what a run of the tests counts
  stage,
  mutants,     \* the mutants extracted, then those the filters leave
  warmUp,      \* status of the warm up run, or "none"
  rawFile,     \* the run has written its counters
  coverage,    \* the counters the coverage filter has, or Unloaded
  covered,     \* mutants with Mutant::isCovered
  results      \* [i]: the verdict on mutants[i]

input == <<identifier, section, file, options, instrumented, excluded, profile>>
vars  == <<input, stage, mutants, warmUp, rawFile, coverage, covered, results>>

Init ==
  /\ identifier \in [Encodings -> Identifiers]
  /\ section \in [Holders -> SUBSET Encodings]
  /\ file \in [Holders -> {"object", "other", "unreadable", "missing"}]
  /\ file["executable"] = "object"
  /\ options \in [strict : BOOLEAN, includeNotCovered : BOOLEAN, coverage : {"none", "good", "bad"}]
  /\ instrumented \in BOOLEAN
  /\ excluded \in SUBSET Identifiers
  /\ profile \in Profiles
  /\ stage = "extract"
  /\ mutants = <<>>
  /\ warmUp = "none"
  /\ rawFile = FALSE
  /\ coverage = Unloaded
  /\ covered = {}
  /\ results = <<>>

-----------------------------------------------------------------------------

\* mutant of Unless: strict mode is not asked for
UnlessNever(warning, next) == stage' = next

\* Diagnostics::warning: in strict mode it is the end of the program.
Unless(warning, next) == stage' = IF warning /\ options.strict THEN "exited" ELSE next

Found == UNION {section[h] : h \in {g \in Holders : file[g] = "object"}}

\* Orders of a set of mutants by location and mutator; std::sort leaves it open
\* which of two mutants with one identifier comes first.
Sorted(S) ==
  {s \in SetToSeqs(S) : \A i, j \in DOMAIN s : i < j => identifier[s[i]] <= identifier[s[j]]}

\* mutant of ExtractMutants: no encoding is dropped as a duplicate
ExtractRepeated ==
  /\ stage = "extract"
  /\ IF \E h \in Holders : file[h] = "unreadable" THEN stage' = "exited" /\ UNCHANGED mutants
     ELSE /\ Unless(\E h \in Holders : file[h] # "object", "warm up")
          /\ \E s \in Sorted(section["executable"]), t \in Sorted(Found) : mutants' = s \o t
  /\ UNCHANGED <<input, warmUp, rawFile, coverage, covered, results>>

\* resolveLibraries and extractMutants: an unreadable file is an error; a library
\* that is not found and a file that is no object are warnings.
ExtractMutants ==
  /\ stage = "extract"
  /\ IF \E h \in Holders : file[h] = "unreadable" THEN stage' = "exited" /\ UNCHANGED mutants
     ELSE /\ Unless(\E h \in Holders : file[h] # "object", "warm up")
          /\ mutants' \in Sorted(Found)
  /\ UNCHANGED <<input, warmUp, rawFile, coverage, covered, results>>

\* The runner asks for the counters, unless it was given some.
AsksForProfile == instrumented /\ options.coverage = "none"

WarmUpRun ==
  /\ stage = "warm up"
  /\ \/ /\ warmUp' \in {"Passed", "Failed", "Timedout"}
        /\ rawFile' \in BOOLEAN
        /\ rawFile' => AsksForProfile /\ warmUp' # "Timedout"  \* killed before it could write
        /\ Unless(warmUp' # "Passed", "profile")
     \/ stage' = "exited" /\ UNCHANGED <<warmUp, rawFile>>     \* it cannot be started
  /\ UNCHANGED <<input, mutants, coverage, covered, results>>

MergeProfile ==
  /\ stage = "profile"
  /\ Unless(AsksForProfile /\ ~ rawFile, "coverage")
  /\ UNCHANGED <<input, mutants, warmUp, rawFile, coverage, covered, results>>

\* There are counters, and LLVM can read every file that was found: one that is no
\* object makes CoverageMapping::load fail for all of them.
Loadable == (rawFile \/ options.coverage = "good") /\ \A h \in Holders : file[h] # "other"

\* mutant of LoadCoverage: the counters of an earlier run are read
LoadStale ==
  /\ stage = "coverage"
  /\ Unless(~ Loadable /\ (AsksForProfile \/ options.coverage # "none"), "filter")
  /\ coverage' = profile
  /\ UNCHANGED <<input, mutants, warmUp, rawFile, covered, results>>

LoadCoverage ==
  /\ stage = "coverage"
  /\ Unless(~ Loadable /\ (AsksForProfile \/ options.coverage # "none"), "filter")
  /\ coverage' = IF Loadable THEN profile ELSE Unloaded
  /\ UNCHANGED <<input, mutants, warmUp, rawFile, covered, results>>

\* CoverageFilter keeps the regions that were never executed, of all functions, and
\* takes the column where one ends, which is not part of it, for a part.
Uncovered(id) == coverage # Unloaded /\ \E r \in Regions : coverage[r][id] \in {"never", "edge"}

\* The vector of the items of s with these indices, in their order.
Kept(s, indices) ==
  {[n \in DOMAIN g |-> s[g[n]]] : g \in {h \in SetToSeqs(indices) : \A i, j \in DOMAIN h : i < j => h[i] < h[j]}}

\* The coverage filter first tells the mutants whether they are covered, and then
\* is the last of the filters; it lets all through if the user asks for them.
FilterMutants ==
  /\ stage = "filter"
  /\ stage' = "judge"
  /\ covered' = {e \in ToSet(mutants) : ~ Uncovered(identifier[e])}
  /\ mutants' \in Kept(mutants, {i \in DOMAIN mutants : /\ identifier[mutants[i]] \notin excluded
                                                        /\ mutants[i] \in covered' \/ options.includeNotCovered})
  /\ UNCHANGED <<input, warmUp, rawFile, coverage, results>>

\* One call of runMutants; what the tests notice is left open.  The number of
\* workers has been normalised, so it is not 0.
Judge == INSTANCE Judgement WITH
  Identifiers <- Encodings,
  covered     <- [e \in Encodings |-> e \in covered],
  unnoticed   <- [e \in Encodings |-> TRUE],
  workers     <- 1,
  call        <- IF stage = "report" THEN "returned" ELSE "running"

\* mutant of RunMutants: the mutants are judged in the order of another vector
RunBackwards ==
  /\ stage = "judge"
  /\ \/ /\ stage' = "report"
        /\ \E res \in Judge!Judgements : results' = Reverse(res)
     \/ stage' = "exited" /\ UNCHANGED results
  /\ UNCHANGED <<input, mutants, warmUp, rawFile, coverage, covered>>

RunMutants ==
  /\ stage = "judge"
  /\ \/ stage' = "report" /\ results' \in Judge!Judgements
     \/ stage' = "exited" /\ UNCHANGED results
  /\ UNCHANGED <<input, mutants, warmUp, rawFile, coverage, covered>>

Next == ExtractMutants \/ WarmUpRun \/ MergeProfile \/ LoadCoverage \/ FilterMutants \/ RunMutants

Spec == Init /\ [][Next]_vars

-----------------------------------------------------------------------------
(* Properties *)

\* The report has every mutant recorded in the executable or in one of its
\* libraries exactly once -- also two with one identifier, also one that is linked
\* into both -- but for those a filter skips, in the order of the source.
ReportIsComplete ==
  stage = "report" =>
    /\ \A e \in Found :
         \/ identifier[e] \in excluded
         \/ ~ options.includeNotCovered /\ Uncovered(identifier[e])
         \/ Cardinality({i \in DOMAIN mutants : mutants[i] = e}) = 1
    /\ \A i \in DOMAIN mutants : identifier[mutants[i]] \notin excluded
    /\ \A i, j \in DOMAIN mutants : i < j => identifier[mutants[i]] <= identifier[mutants[j]]

\* Without counters -- the program was not built for them, was killed before it
\* wrote them, the file cannot be read, or one of the libraries cannot -- every
\* mutant is run: coverage that is missing never hides a mutant.
NoCountersNoSkip ==
  /\ stage = "report"
  /\ \/ options.coverage = "bad"
     \/ options.coverage = "none" /\ ~ rawFile
     \/ \E h \in Holders : file[h] = "other"
  =>
    \A e \in Found : identifier[e] \notin excluded =>
      \E i \in DOMAIN mutants : mutants[i] = e /\ results[i] # "NotCovered"

\* "NotCovered" is the verdict on a mutant exactly when the user asked for these
\* mutants and a run of the tests has shown a region around it, or one that ends
\* where it is, that it did not reach.  A mutant whose code the tests execute is judged by running it, as long
\* as no other region at its location is left out: an instance of the same
\* template, an inline function of another file, or the region around its own.
NotCoveredWasNotReached ==
  stage = "report" =>
    /\ \A i \in DOMAIN mutants :
         results[i] = "NotCovered" <=>
           /\ options.includeNotCovered
           /\ rawFile \/ options.coverage = "good"
           /\ \A h \in Holders : file[h] # "other"
           /\ \E r \in Regions : profile[r][identifier[mutants[i]]] \in {"never", "edge"}
    /\ \A e \in Found :
         /\ identifier[e] \notin excluded
         /\ \E r \in Regions : /\ profile[r][identifier[e]] = "executed"
                             /\ \A q \in Regions \ {r} : profile[q][identifier[e]] = "outside"
         => \E i \in DOMAIN mutants : mutants[i] = e /\ results[i] # "NotCovered"

\* tools/CLIOptions/CLIOptions.h: "Include (but do not run) not covered mutants.
\* Disabled by default": the others are run, be there a region that was not reached
\* beside them.
OnlyNotCoveredAreHidden ==
  stage = "report" =>
    \A e \in Found :
      identifier[e] \notin excluded /\ (\A r \in Regions : profile[r][identifier[e]] # "never")
      => \E i \in DOMAIN mutants : mutants[i] = e /\ results[i] # "NotCovered"

\* A report in strict mode rests on tests that passed, on files that could all be
\* read, and on counters if there should be any.
StrictReportIsClean ==
  stage = "report" /\ options.strict =>
    /\ warmUp = "Passed"
    /\ \A h \in Holders : file[h] = "object"
    /\ AsksForProfile \/ options.coverage # "none" => coverage # Unloaded

=============================================================================
