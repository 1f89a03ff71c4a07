# Mull in TLA+

Mull is a mutation testing tool for C and C++. A compiler plugin puts all mutants of a program
into the program itself, each behind a check of an environment variable; `mull-runner` then runs
the program's tests once per mutant and reports the mutants that no test notices. This directory
has TLA+ models of the parts where that can go wrong in ways a unit test hardly reaches, the TLC
configurations that check them on small instances, and proofs of the most important properties for
all instances. Every definition is translated from the source; `PROJECT.json` gives the lines for
each ("map"), lists runs, mutants, hazards, findings and theorems.

To repeat a check: `tlc -config X.cfg M` (the pairs are in the table of runs) and `tlapm
XProofs.tla`.

- [The system](#the-system)
- [Modules](#modules)
- [Runs](#runs)
- [Fairness](#fairness)
- [Proofs](#proofs)
- [Where code and documentation disagree](#where-code-and-documentation-disagree)
- [Assumptions and what is left out](#assumptions-and-what-is-left-out)
- [Plan](#plan)

## The system

Two programs share the libraries in `lib/`. They never run at the same time; what passes from one
to the other is the executable, with the trampolines in its functions and the encodings of the
mutants in its section `.mull_mutants`.

```
 compiler (mull-ir-frontend)                    mull-runner
 ---------------------------                    -----------
 mutators       MutatorsFactory                 extraction, warm up,   MullRunner
 functions, instructions,                         profile, coverage
   search, filters   MutationSearch             baseline, limit,       MutantRunner
     patterns          MutationOperators          a run per mutant       ProcessRunner
                       LogicalOperators         reports                Reporting
     git diff          GitDiff                       ^
     junk              JunkDetection                 |
                       CompilationDatabase           |
 clones, trampolines   Trampoline                    |
       |                                             |
       +------------ executable ---------------------+

 each pass over functions, instructions, mutations or mutants in both: TaskExecutor
 both: Configuration, which sets the modes of Diagnostics
```

| Component | State | Operations | Hard behaviour | What makes it correct |
|---|---|---|---|---|
| Task executor (`Parallelization/`) | slices, private storages, counters of workers, reporter's sum | `execute`, batches, worker loop, progress reporter | workers start while the caller still spawns; the reporter sums counters that move; references into vectors that grow | output as of one sequential loop; the call returns; no reference goes stale |
| Process runner (`Runner.cpp`, reproc) | child, pipes, deadline, result | start, drain, wait, kill, stop | the child ends while it is being killed; full pipes; descriptors left to helpers; two limits in a row | the verdict is that of the child; time is bounded; no child left; output complete |
| Mutant preparation (`Driver.cpp`, `Bitcode.cpp`, `MutantPreparationTasks.cpp`) | functions, clones, chain of checks, records | group, clone, empty, redirect, apply; at run time: call, check | each pass needs what the one before left; identifiers that several mutants share | a call runs the original or exactly the selected mutation; each record can be selected |
| Mutant runner (`MutantRunner.cpp`, `MutantExecutionTask.cpp`) | baseline, children, results | baseline run, start, finish, skip a mutant | limit from one measurement on an idle machine, mutants beside each other | killed only if noticed, survivor only if unnoticed; it ends |
| `mull-runner` (`tools/mull-runner`) | mutants, counters, covered mutants, results | extract, warm up, merge, load, filter, judge | files and counters missing; pointers into a vector that is filtered later; strict mode | the report is complete; missing counters hide nothing |
| Search (`Driver.cpp`, tasks, filter lists) | filter lists, what passed so far | enable filters, filter functions, select instructions, search, filter mutations | three lists of filters that see different locations | exactly the mutations asked for, in the order of the code |
| Git diff (`GitDiffReader`, `GitDiffFilter`) | parser position, ranges | run git, parse a line, decide | git fails or is cut; lines known by their looks | admitted lines are the changed ones |
| Junk detection (`JunkDetection/CXX`) | parsed units, two levels of mutexes | find or parse a unit, ask it | workers share units whose operations write caches | a unit is parsed once; the pass gets through; units are protected |
| Diagnostics | mutex, modes, whether the line has progress on it | set a mode, message, progress | `exit(1)` in a worker, with the mutex; the progress reporter writes beside the workers | nothing follows a fatal message; a message begins a line |
| Compilation database | flags by path, resource directories by compiler | read, resolve, look up | relative paths, dots, names in other directories; compilers that do not answer | flags are those of the file; a compiler is asked once |
| Mutator factory | groups, mutators by name | expand, subtract | groups within groups, ignored ones, names nobody knows | exactly the mutators asked for |
| Mutators for operators, values, calls | none | match, judge, change | one instruction for several operators, one operator for several types | the mutant is the program with the operator replaced, once per mutator |
| Mutators for `&&` and `\|\|` | none | find the second branch, turn the first round | control flow instead of an operator; conditions in conditions, in loops | the same |
| Reporters | files, database | report one after the other | a failure after all the work is done; a second run | reports agree; a database is whole |
| Configuration, CLI | configuration | find, parse, override | several files, one that cannot be parsed, options that disagree with it | the nearest word counts |
| File path filter | regular expressions, cache | ask about a path | the cache is behind one mutex, held for the whole question | *(its place in the lists is in MutationSearch)* |
| `negate_mutator`, `scalar_value_mutator`, `mull-cxx-frontend`, source locations, vendored libraries, tests | | | | *(not modelled)* |

Components talk by calls. Threads exist only inside `TaskExecutor`; shared state between them is
the counters of the executor, the units of the junk detector, the cache of the file path filter,
the diagnostics, and, in `mull-runner`, the machine the test programs compete for.

`PROJECT.json` lists the hazards line by line, with the properties about them or the reason why
there is none.

## Modules

| Module | Models | State and actions, and the code they stand for |
|---|---|---|
| `TaskExecutor` | `include/mull/Parallelization/TaskExecutor.h`, `Progress.cpp`, `TaskExecutor.cpp` | main thread: `ReturnEarly`, `StartSequential`/`StartParallel`, `SpawnWorker`, `SpawnReporter`, `JoinThreads`, `MergeStorage`, `Return` (`execute`, `executeInParallel`, `executeSequentially`); `Worker` is the loop all tasks share (`Push`, `Advance`), `ExitProgram` a task that ends the program; the reporter reads one counter per step (`ReadCounter`, `Report`) |
| `OrderedMap` | what its callers rely on | the output is a prefix of the output of one loop, and all of it at the end |
| `ProcessRunner` | `Runner::runProgram` and the operations of reproc it uses | `Start`, `StartFails`, `Read`, `EndDrain`, `SeeExit`, `Reap`, `Timeout`, `Destroy`; environment: the child (`Write`, `CloseOutputs`, `CloseExitPipe`, `Fork`, `Exit`, `Die`) and its helper; a clock |
| `TestRun`, `ExecutionResult` | what callers of `runProgram` rely on | one verdict that agrees with status and time, or the end of the program |
| `Trampoline` | second half of `mutateBitcode`, the code it emits | `AddMutation`, `CloneFunction`, `DeleteOriginal`, `InsertTrampoline`, `ApplyMutation` in any order of functions, `NextPass`; at run time `StartProgram`, `Call`, `CheckMutation`, `CallOriginal` |
| `MutantRunner` | `runMutants`, `MutantExecutionTask` | `BaselineRun`, `SkipMutant`, `StartMutant`, `FinishMutant`, `StartFails`, `Return`; outcomes of a run come from `ExecutionResult`, the verdicts `ProcessRunner` is shown to give |
| `Judgement` | what `mull-runner` relies on | one status per mutant, all at once |
| `MullRunner` | `main` of `mull-runner`, `MutantExtractor`, `MergeInstProfile`, `CoverageFilter`, strict mode | one action per stage; composes `Judgement` by INSTANCE for the call of `runMutants` |
| `MutationSearch` | first half of `mutateBitcode` | `EnableFilters`, `FilterFunction`, `SelectInstructions`, `SearchPoints`, `ApplyFilter` (one pass of a filter), `NextStage`; a pass is the sequential loop that `TaskExecutor` is shown to equal |
| `GitDiff` | `GitDiffReader`, `GitDiffFilter` | `RunGit` with its four ends, `ParseLine`, `EndOfDiff`; `ShouldSkip` is the decision |
| `JunkDetection` | `CXXJunkDetector::isJunk`, `ASTStorage` | per worker: `MissingUnit`, `FindAST`, `ParseUnit`, `NoAST`, `NoDeclarations`, `EnterUnit`/`LeaveUnit` around each of the seven accesses to a unit |
| `CompilationDatabase` | `CompilationDatabase.cpp` | `Open`, `ReadFile`, `ResolveDatabase`, `ResolveBitcode`, `TableResolved` make the tables; `CompilationFlagsForFile` is the lookup. A path is the sequence of its components |
| `MutatorsFactory` | `MutatorsFactory.cpp` | `Mutators` (`expandGroups`, `mutators`) for any names wanted and ignored |
| `MutationOperators` | `lib/Mutators/CXX` but for `&&` and `\|\|`, the patterns of libirm, what `CXXJunkDetector` keeps of their mutations | `Compile` (Clang), `FindMutation`, `IsJunk`, `ApplyMutation`; `Run` is what an instruction computes on `W` bits |
| `LogicalOperators` | `LogicalAndToOr.cpp`, `LogicalOrToAnd.cpp` | the same four steps; a condition is an expression, its code a sequence of blocks with branches and phi nodes, and `Outcome` runs it |
| `Configuration` | `ConfigurationParser.cpp`, `CLIOptions`, both `main` | `UseMullConfig`, `SearchDirectory`, `NoConfig`, `LoadFromDisk`, `ReadOptions`, `SetUpPlugin`; a value is where it comes from, the default, a file or an option |
| `Diagnostics` | `Diagnostics.cpp` | per thread: `Call`, `Lock`, `Return`, `Prepare`, `Log`, `BeginProgress`, `PrintProgress`, `Exit`; `EnableModes` |
| `Reporting` | `lib/Reporters` | an action per report, and one per row of the database and per patch, in the order reporters were asked for; `Kill`, and `RunAgain`, which finds what is there. `database` and `patches` are the files, `report` what this run wrote to the terminal and the JSON file |
| `Driver` | `mutateBitcode` from the configuration to the mutations found | composes `CompilationDatabase`, `MutatorsFactory`, `MutationSearch`, `MutationOperators`, `LogicalOperators` |
| `Tools` | both programs from their configuration to what it governs | composes `Configuration`, `Diagnostics`, `GitDiff`, `Reporting` |
| `MCTaskExecutor`, `MCMullRunner`, `MCDriver` | instances | number of results per item; shapes of profiles; paths and command lines |
| `TaskExecutorProofs`, `ProcessRunnerProofs`, `TrampolineProofs`, `MutantRunnerProofs`, `MullRunnerProofs`, `JunkDetectionProofs`, `DriverProofs`, `ToolsProofs` | proofs | see below |

How they compose. `OrderedMap` is what `MutationSearch` and `MutantRunner` take a parallel pass to
be, and `TaskExecutor` implements it. `ExecutionResult!Verdicts` is what `MutantRunner` takes a
run to be, and `ProcessRunner` implements `TestRun`, which is built on it. `Judgement` is what
`MullRunner` takes the judgement to be, and `MutantRunner` implements it. `MutationSearch` ends
with the vector of mutations `Trampoline` starts from, and `GitDiff` and `JunkDetection` are two of
the filters it asks.

`Driver` and `Tools` compose components that run one after the other and hand on little: the
mutators that were made decide what the search looks for and which operators are mutated; the
configuration decides the modes of the messages, whether there is a diff, and whether a warning,
of the reader of the diff or of a reporter, ends the program. A component that is not at its turn
is in its one initial state, and one that is done leaves only what the next one takes, so that the
composition is not the product of all. In `Tools` a behaviour goes on with one of messages, diff and
reports, in `Driver` with one of search, operators and conditions, which do not depend on each other.

Operators before the definitions they resemble and marked "mutant of" are faulty variants of them;
nothing but the mutation tests of the properties uses them.

## Runs

| Run | Module, cfg | Shows |
|---|---|---|
| `executor` | `MCTaskExecutor` | the slices partition the input; references stay valid; the reporter ends only after the last item; the output is that of one loop, and the call returns (`ImplementsOrderedMap`, `Termination`) |
| `process_runner` | `ProcessRunner` | the verdict is the child's; the time limit is neither early nor endless; no child is left; output is complete; the call returns; `TestRun` is implemented |
| `timeout_per_run` | `ProcessRunner`, `ProcessRunnerDoc.cfg` | violation: a run may pass after more than the timeout |
| `trampoline` | `Trampoline` | each call runs the original or exactly the selected mutation; records can be selected; calls return |
| `mutant_runner` | `MutantRunner` | no unnoticed mutant is killed, no noticed one survives, the judgement ends; `Judgement` is implemented |
| `mull_runner` | `MCMullRunner` | the report has each mutant once; missing counters hide none; NotCovered means not reached; strict reports are clean |
| `compiler_plugin` | `MCDriver` | flags are those of the file, however its path is written; a compiler is asked once; the mutators are those that were named; exactly their mutations pass the filters that are on, and no filter is asked about a null location it cannot take; a mutant is the program with the operator replaced, once per mutator |
| `only_the_diff` | `MutationSearch`, `MutationSearchDoc.cfg` | violation: logical mutators ignore the diff |
| `tools` | `Tools` | the nearest word counts; nothing follows a fatal message, messages begin lines; admitted lines are the changed ones, and one more at most if git was cut; terminal, JSON file, database and the patches on disk are of the same mutants, but for sources that cannot be read, a directory that cannot be written and patches with one name; a database has all mutants of one run or none |
| `only_changed_lines` | `GitDiff`, `GitDiffDoc.cfg` | violation: an added line that looks like a header |
| `junk_detection` | `JunkDetection` | each unit is parsed once; the pass gets through |
| `unit_is_protected` | `JunkDetection`, `JunkDetectionDoc.cfg` | violation: operations of a unit outside its mutex |

Bounds, and why they are enough:

- `executor`: inputs of 0..6 items, 0..4 tasks, items with 0, 1 and 2 results. More tasks than
  items, exact division, every remainder, no items and no tasks all occur.
- `process_runner`: timeouts 0 (none), 1 and 2, output up to 3 units through a pipe of 1, so the
  child blocks, is drained and is cut; `StopWait` 2; the clock goes to 7, past twice the largest
  timeout plus the wait of the destructor (6). Runs without timeout may reach that end.
- `trampoline`: 3 mutations over 2 functions and 2 identifiers: functions without, with one and
  with several mutations, identifiers shared within and across functions, all environments.
- `mutant_runner`: durations 1, 40 and "never" (10000); a program of 1 ms gets the minimum
  limit of 30, one of 40 a limit of its own; workers 0, 2 and 7 on one core, so loads 1 (the baseline), 2 and 7;
  7 is the largest load for which the property holds. `Times` are the lengths of runs these give,
  with their roundings and the limits.
- `mull_runner`: 2 encodings under 1 or 2 identifiers, an executable and a library, the four kinds
  of file, 5 profiles: reached; not reached; reached in one instance only; a nested region; a
  mutation in the column where the region of an operand ends.
- `compiler_plugin`: 1 unit and 2 commands for 4 ways of writing the paths of 2 files, compilers
  with and without a resource directory, so that entries of one compiler, of two and of none meet;
  up to 2 names, wanted and ignored, of groups within groups, mutators and nothing at all;
  6 instructions that differ in having a location, diff, path, junk, logical and trivial matches, in
  up to 2 functions of every kind, and all 8 settings of the filters; all operators of C with
  operands of 3 bits, signed, unsigned, floating or trapping, and all pairs of values of them (a
  sign, an overflow, a shift that is too wide and a division by zero all occur); conditions of up to
  4 operands, negated or not, in `if` and `while`, the smallest with an operator on both sides of
  another.
- `tools`: files with up to 2 keys, good, bad or not parsable, in 3 directories and in
  `MULL_CONFIG`, up to 2 options; 2 workers, the reporter and the main thread with 2 messages each,
  so that every two kinds meet; 2 files with up to 2 hunks that start at 0 or at lines of one or two digits
  with counts 0, 1 (which git leaves out), 2 and 11, cut at any place within these numbers;
  2 mutants with one name for their patches, 2 reporters, 2 runs, so that a patch is replaced by another
  mutant of its run, by a later run, and left over by an earlier one (with another status of the mutant).
- `junk_detection`: 3 mutations, 2 units, up to 3 workers: two workers ask for the same unit before
  it is there while the third is in another. With 4 mutations (994k states) the same holds.

`Driver`, `Tools` and their parts can also be checked one by one: `MutationOperators`, for example,
has no constants but `W`.

Deadlock is checked for `executor`, where an explicit `Ended` stutters at the end, and for
`trampoline`, whose program may be called for ever. The other models stop where the call or the
program they model ends.

Each property of a passing run has a mutant of a mapped definition that breaks it, so it does
depend on the code.

## Fairness

- `TaskExecutor`: weak fairness of the main thread, of each worker and of the reporter: the
  operating system schedules every thread, and no thread of the executor blocks on anything but
  `join`. No task is assumed to call `exit`.
- `ProcessRunner`: weak fairness of the runner (it runs when its poll returns), of the clock while
  the runner is blocked, and of the death of a killed child. The child itself is not assumed to do
  anything: it may hang, and `Returns` has to hold all the same.
- `Trampoline`: weak fairness of the passes and of the checks of the trampoline, which is
  sequential code. Nobody is assumed to call a function.
- `MutantRunner`: weak fairness of the workers taken together and of `Return`. A run of a mutant
  ends because `ProcessRunner` returns (`Returns`), as the limit is never 0 there. The exception of
  `Returns`, a test program that closes inherited descriptors and runs on, is an exception here
  too. The baseline, which may have no limit, is not assumed to end: `JudgementEnds` starts after it.
- `JunkDetection`: weak fairness of each worker. A mutex may be taken by others again and again, but
  every worker has a finite slice, so this is enough.
- All others have safety properties only and state no fairness. Some of them would not hold
  under any: a thread that waits for the mutex of `Diagnostics` while another runs `exit` never
  gets it.

## Proofs

All proofs are checked by TLAPS for all values of the constants that the named assumptions of the
modules allow (sizes are natural numbers, distinguished values are distinct). For each module a
conjunction `IInv` is shown to hold initially and to be preserved by every action; TLC would pass
the properties on their own, but they are not inductive.

- `TaskExecutorProofs`: `TypeCorrect`, `SlicesCorrect`, `ReferencesCorrect`, `ReporterCorrect`,
  `OutputCorrect`, `Refinement` (`OrderedMap` but for its fairness). `IInv` = `TypeOK`, `ControlInv` (which threads exist at which point of the main
  thread), `SliceInv` (slice *w* starts at `Off(w)`, a closed form of the sums of the batches),
  `WorkInv` (a counter is the distance a worker has gone), `ReporterInv` and `OutputInv` (a storage
  has exactly the results of the items its worker has passed, in order). The reporter is the
  interesting part: its sum is of values read at different times, but counters only grow and each is
  at most the size of its slice, so the sum reaches `Off(idx)` only if every slice passed is finished.
  Lemmas: the arithmetic of `Batch`, offsets, and appending and concatenating exact results.
  For the refinement, what `Exact` says of the output has to determine it: the sequential loop makes
  exactly the results due (`SequentialIsExact`), and a sequence that is exact for part of the input begins
  any that is exact for more of it (`ExactPrefix`, from the least place where they would differ). So a
  merged storage, or a push of the sequential path, is a step of `OrderedMap`, and all else stutters.
- `ProcessRunnerProofs`: `TypeCorrect`, `VerdictCorrect`, `TimeoutCorrect`, `ReturnsInTime`,
  `ChildIsGone`, `OutputCorrect` and `Refinement` (`Spec => ImplementsTestRun`). `IInv` = `TypeOK`,
  `ChildInv` (what the child and the holders of pipes may be at each point), `ResultInv`, `TimeInv`
  (how far the clock and the limit of the current wait are from the start) and `OutputInv` (written
  output is what was wanted, once the child ended by itself). `TimeInv` has to know that a drain
  ends at the deadline and that the wait adds one timeout, which gives the factor 2.
- `TrampolineProofs`: `TypeCorrect`, `SelectionCorrect`, `RecordsCorrect`. `IInv` = `TypeOK`,
  `PointsInv` (a function has exactly its mutations, in ascending order), `BodyInv` (what original,
  copy and clones are, by the passes done so far), `ApplyInv` (each clone has its own mutation, once
  it was its turn) and `CallInv` (checks a call has passed were for identifiers that are not set).
- `MutantRunnerProofs`: `TypeCorrect`, `SurvivalCorrect`, `SurvivorsCorrect`, `Refinement`
  (`Spec => ImplementsJudgement`). `IInv` adds `BaselineInv` (the measurement is at most 1 below the
  time of the original), `BaselineFirst`, `ChildrenInv` and `JudgedInv`. Lemma `Margin` is the
  arithmetic: ten times the measured time, and at least 30, is more than seven times the real one.
- `MullRunnerProofs`: `StrictReportCorrect`, `ReportCorrect`, `NoCountersCorrect`, `NotCoveredCorrect` and
  `CountersCorrect`. `StrictInv` says, for each stage, what strict mode would have ended the program for
  before; `CountersInv` that counters that are loaded are those of this run, or were given, and that a
  run that was killed left none; `MutantsInv` that the vector of mutants has each of a set once, in the
  order of identifiers: of what was found, and after the filters of what they leave, while the mutants
  marked as covered are those the counters leave; `ResultsInv` pairs the verdicts with them. The
  lemma `NoneIsLeftOut` is the one the others rest on: as many items as a finite set has, no two alike,
  leave none of it out, and `KeptIsSorted` that a filter keeps order and completeness.
  `CountersAreOfThisRun` is stated in the proofs.
- `JunkDetectionProofs`: `TypeCorrect`, `UnitsParsedCorrect`, `GuardedCorrect`. `SliceInv` (a worker
  that does something has a mutation), `InsideInv` (a worker inside of an access is in a unit that is
  there), `ParseInv` (who parses a unit has the mutex of the storage, and the unit is not there yet)
  and `GuardInv` (who is inside of a guarded access has the mutex of the unit).
  `GuardedAreExclusive`, stated in the proofs, is the part of `UnitIsProtected` that does hold: the
  accesses that take the mutex exclude each other.
- `DriverProofs`: `DriverMakesDatabase` (the composition implements `CompilationDatabase`),
  `OneAnswerCorrect`, `FlagsCorrect`, `SelectionCorrect`, `LocationsCorrect`, `MutationsCorrect`, `ReplacementCorrect`,
  `MutatorsCorrect`. A step of the driver is one of a part, so each part has its invariant.
  - Flags: `AnswersInv` (what was answered is remembered, once) and `TablesInv` (an entry is as it was read
    until it is resolved, and then as the answer makes it). For `FlagsOfTheFile`, `FlagsInv` adds what
    units, commands and answers are and which paths the tables have: then an entry has one word of its own,
    that of the last unit, or command, with its path (`TableIs`, `UnitSources`, `CommandSources`). `RemoveDots` leaves no dots (`NoDotsAreLeft`) and changes nothing that has none
    (`CleanStays`), so a path that is looked up finds the entries of all ways of writing it. The
    proof showed that the property had been too strong: of two units with one path, the last one *that
    has its command recorded* gives the flags, and a later one without does not.
  - Factory: `SelectionIsExact` is inductive, as one call makes it; what has to be shown is that the
    recursion of `ExpandGroup` ends and finds what `Under` finds in four steps. The groups have four
    levels (`LevelsAre`: members of a group are of a lower level). Expanding five times in a row changes
    nothing more on one level after the other (`ExpandGroupIs`), and what four steps reach is closed
    (`NewAreLower`, `ClosedExpands`).
  - Search: `SearchInv` says of each loop what it has made of the items it has reached: the functions
    that passed, their instructions, the mutations in them, and those that passed the filters so
    far, each in the order of the code (`Ascending`, `InOrder`). `OnlyIs` is the lemma about filters: what is
    let through, in the order it was in.
  - Operators: `OperatorInv` says that the instruction is one the operator is compiled to, and the mutation
    one that the patterns find in it. Then `MutantsAlike` goes through the mutators and shows that what a
    pattern makes of the instruction is what the new operator is compiled to, or differs from it in one of
    ten known ways (`Alike`: a signed division for an unsigned one, an addition of -1 for a subtraction of
    1, the operand in place of itself with all bits, ...), and `AlikeAgree` that none of these can be told
    from the other on numbers that are neither negative nor NaN. This is the arithmetic of `W` bits: powers
    of two divide each other (`PowerDivides`), a number is determined by its bits (`BitsDetermine`), a
    number of the lower half is its own signed value (`SignedIs`), and a quotient of two of these is again one
    (`QuotientIsSmaller`).
    For `OneMutationPerMutator`, `PatternsDiffer` shows that the opcodes a mutator matches are all
    different, `HasPattern` that there is one for each operator on integers, and `SameKind` that two
    mutators of one operator have different replacements.
- `ToolsProofs`: `ToolsSendMessages` (the composition implements `Diagnostics`), `FatalCorrect`,
  `MessagesCorrect`, `NearestWordCorrect`, `DiffCorrect`, `ReportersAgree`, `DatabaseCorrect`.
  - Messages: `MutexInv` (whoever is between lock and unlock has the mutex), `ExitInv` (a thread in `exit`
    wrote last) and `LineInv` (`seenProgress` is true whenever progress is on the line, and when it is about
    to be). A worker must not be the value that stands for nobody.
  - Configuration: `SearchInv` (the directories below the one the search is at have no file) and
    `ValuesInv` (the value of each key at each stage). A key of a file counts if it is before the first bad
    one, which is there by the least number of a set (`Smallest`).
  - Reports: `StagesInv`, `RowsInv` (the rows of the transaction are those of the first mutants),
    `PatchesInv` (the file under the name of each mutant up to here is of this run and of that mutant or of
    a later one; files of this run are of readable mutants) and `DoneInv`: what a reporter that is done has
    said, whatever reporters come before and after. If patches are asked for twice, an earlier mutant has
    the file for a while, so `DoneInv` speaks of patches only where no pass over them is under way. As a
    file is never of a later mutant than the last one with its name, it is of that one (`LastOfThem`).
  - Diff: `DiffInv` says that the parser has the ranges of the lines it has read, each for the file of the
    last header above it (`CurrentAt`). That is true of any text. Of the text of a change, `TextOfChange`
    shows that these ranges are the hunks: `FlattenPlaces` gives each line the part and the place it comes
    from, so the header of the part is the last one above a range of it if no added line looks like one.
    Of a text that was cut, only the last line can be another range, and a number that lost a digit is
    either a count that is smaller or a start without a count, which is one line (`CutRanges`).

What is assumed of constants. Sets of numbers are of numbers, and a value that stands for nothing is none
of the others. Beyond that: there are finitely many encodings (`EncodingsAssumption`), identifiers can
be compared, the keys of files are keys (`FileKeysAssumption`), and `""`, which stands for the general
warning of the factory, is not a name in the configuration (`NamesAssumption`). Compilers are run in directories with
absolute paths, and files are paths (`DirectoriesAssumption`, `PathsAssumption`); the words that mark who gave
a flag are on no command line and on none twice (`LinesAssumption`, `WordsAssumption`).

Induction over numbers needs an operator as a parameter, which the provers cannot instantiate; the
least counterexample does the same (`Smallest`, from the well-foundedness of `<`). What a recursive
function computes is proved that way, after it is shown that there is such a function
(`OnlyRecursion`, `ExpandGroupIs`).

Only model-checked:

- the liveness properties (`Termination`, `Returns`, `CallsReturn`, `JudgementEnds`, `AllJudged`), which need
  fairness and ENABLED and are out of the prover's reach;
- the fairness of `ImplementsOrderedMap`, for the same reason: `Refinement` of `TaskExecutorProofs` is the
  rest of it;
- `SimpleOperatorIsReplaced`: `LogicalOperators` has no constants, so that the run checks all conditions
  the property is about.

## Where code and documentation disagree

Four are runs:

- `timeout_per_run`: "Timeout per test run (milliseconds)" (`tools/CLIOptions/CLIOptions.h:52`).
  `runProgram` uses the number as the deadline of the drain and again for the wait that follows
  (`lib/Runner.cpp:72`): a program that closes its outputs just before the deadline and ends almost
  one timeout later has passed.
- `only_the_diff`: with a diff "Mull will only find mutations in that line"
  (`docs/IncrementalMutationTesting.rst:15`). `LogicalAndToOr` and `LogicalOrToAnd` go over all
  instructions of a function, not over those selected (`lib/Mutators/CXX/LogicalAndToOr.cpp:320`).
  `mull-runner` drops these mutants again if it is given the same diff.
- `only_changed_lines`: "Mull only finds mutations in the source lines that are covered by a
  particular Git Diff changeset" (`docs/IncrementalMutationTesting.rst:12`). An added line that
  reads `++ x/<path>` is printed as `+++ x/<path>` and is taken for the header of a file
  (`lib/Filters/GitDiffReader.cpp:52`); the hunks after it are those of that file.
- `unit_is_protected`: the comment in `ASTStorage.cpp:112` says which operations have to be protected
  by the mutex of a unit; `CXXJunkDetector.cpp:201` and the lines after it use the source manager
  of the same unit without it.

Others can be repeated with a configuration that is kept beside the modules but belongs to no run:

- `MutationOperators`, `MutationOperatorsDoc.cfg` (`MutantIsAlwaysTheReplacement`): "Replaces * with /"
  is a signed division for unsigned numbers too (`lib/Mutators/CXX/ArithmeticMutators.cpp:109`), `<<` is
  replaced by an unsigned shift for signed ones, and a `bool` that is given 42 is false.
- `MutationOperators`, `MutationOperatorsText.cfg` (`DescriptionIsTrue`): `cxx_rshift_to_lshift` says of
  itself that it "Replaces << with >>".
- `LogicalOperators`, `LogicalOperatorsDoc.cfg` (`OperatorIsReplaced`): "Replaces && with ||" is true of
  operators whose operands are simple. `(a && b) && c` in a loop may become `a && (b || c)`, as a
  branch is turned round that belongs to the other operator (`lib/Mutators/CXX/LogicalAndToOr.cpp:252`).
- `Reporting`, `ReportingDoc.cfg` (`PatchForEachMutation`): "Generates patch file for each mutation"; the
  name of a patch has no end of the location (`lib/Reporters/PatchesReporter.cpp:114`). What does hold,
  that the last mutant with a name has the patch, is part of `ReportsAgree`.
- `Configuration` with one `Configuration*.cfg` each. `WarningsAreFatal`: "all warning messages are
  treated as fatal errors"; the warning about a file that cannot be parsed comes before strict mode is
  on (`tools/mull-runner/mull-runner.cpp:78`). `GoodKeysApply`: one value of the wrong kind and all
  other keys of the file have no effect (`lib/Config/ConfigurationParser.cpp:96`).
  `TestOutputIsNotCaptured`: "Does not capture output from test runs"; the setting is never read, the
  warm up run and the baseline go by that for mutants.
- `MCMullRunner`, `MCMullRunnerDoc.cfg` (`OnlyNotCoveredAreHidden`): regions end before their end column,
  `CoverageFilter` includes it (`lib/Filters/CoverageFilter.cpp:79`): in `f()&&g()||h()` the mutation of
  `||` is not run if `g()` was not reached.

Things met while modelling about which no text says otherwise:

- `x--` on floating numbers has no mutation, nor have unary minus and `*` with `-ftrapv`, `const`
  variables, and calls that are invokes, through pointers, or of intrinsics with a value. An operator on the right hand
  side of another one in the condition of a loop may have none.
- What patterns 1 and 2 of the logical mutators do to phi nodes leaves entries for blocks that are no
  predecessors any more.
- `mull-runner` does not look at `parallelization`, `quiet` and `silent` of the file.
- The keys of the tables of flags are never normalised: a path with dots finds flags that were
  recorded without them, not the other way round; the lookup by name alone never finds
  anything, as all keys are absolute.
- The score is computed with doubles and cut: 29 of 100 may be shown as 28%.
- The limit ends the child only: processes it started go on, as do the programs of other
  workers when one worker ends `mull-runner` because a program cannot be started (`lib/Runner.cpp:52`).
- If the directory of the report cannot be written, the JSON file is missing without a word, in strict mode,
  too; missing patches are a warning each, and a missing database is an error.
- Code that was reached in one instance of a template, but not in another one, is reported as not covered.
- A function of the program called `mull_<f>_original` is taken for one of Mull's.

## Assumptions and what is left out

- *Clock* (`ProcessRunner`): time passes only while the runner is blocked, so a limit is met exactly;
  one tick is any number of milliseconds. A killed process is gone within the 100 ms of `stop`.
- *Helpers* (`ProcessRunner`): one helper stands for any number of processes that inherit descriptors.
- *IR* (`Trampoline`): a function is "code", a mutation is what its mutator does to one clone; names
  of the form `mull_<function>_original` are those Mull made.
- *Load* (`MutantRunner`): overlapping runs share a core evenly; a run is slowed down by at most the
  number of programs per core. `UndetectedSurvives` is about loads up to 7 and says so.
- *Mutators* (`MutationSearch`): all mutators that look at selected instructions are "trivial",
  the two that look at all instructions "logical"; the vector of mutators is in that order. What they
  match and change is in `MutationOperators` and `LogicalOperators`.
- *Clang's code* (`MutationOperators`, `LogicalOperators`): what Clang emits for C without optimisation;
  a number has `W` bits, a floating number is one of a few values. `MutantIsTheReplacement` is about
  numbers that are neither negative nor NaN, where the source with the other operator is defined.
- *Coverage* (`MullRunner`): a location is inside or outside of a region; counters are "never" or
  "executed"; a file that is no object makes LLVM's loading fail for all files.
- *Git* (`GitDiff`): the text is that of `git diff -U0` without renames, binary files and submodules,
  whose headers have no ranges; if git is late, the output is cut anywhere.
- *Clang* (`JunkDetection`): what the visitors find is left open; an access is one step with a begin
  and an end; `findFileEntry` only reads; parsing a file ends. `exit` in a worker ends the program at
  once: what destructors do beside running threads is not modelled.
- *Flags* (`CompilationDatabase`): a unit or command has one word of its own, so that a property can
  say where flags come from; reading JSON and splitting command lines is Clang's.
- *Files* (`Configuration`): a key is good, of the wrong kind, or the file is no YAML; what LLVM's
  reader does with each.
- *Threads* (`Diagnostics`): the two last pieces of the output are kept. The main thread sends nothing
  while workers run. `exit` ends the process at some time after it was called.
- *Reports* (`Reporting`): an SQLite transaction is atomic, also when the program is killed; other files
  are whole if their reporter returned. Inserting a row succeeds: the reporter does not look at what
  `sqlite3_step` returns (`lib/Reporters/SQLiteReporter.cpp:108`), so a full disk may lose rows. The directory
  of the report can be written by all runs or by none.

Not modelled at all:

- `negate_mutator` and `scalar_value_mutator`, which are in the group `experimental` only: their patterns
  negate comparisons and replace constants at five operand positions, without control of their own;
- `FilePathFilter`'s regular expressions, which are LLVM's, and its cache: a map that is read and
  written inside one function under one mutex, so that no order of workers can show;
- `SourceLocation` and what else reads metadata of LLVM, whose answers are inputs of
  `MutationSearch`; texts: tables, carets, the HTML page, descriptions on the command line;
- `mull-cxx-frontend`, an experiment that rewrites the AST of Clang with visitors over its classes;
- the end of a location in a patch: if the junk filter is off, it may be 0:0, there are no lines of source,
  and `PatchesReporter` takes the first and the last of none (`lib/Reporters/PatchesReporter.cpp:132`);
- vendored libraries, but for the operations of reproc that `Runner.cpp` uses and the patterns of
  libirm that the mutators use;
- `src/programs` (versions of `sed`, `grep` and others that are the subjects of the class this
  repository was set up for) and the tests. These and the vendored code are nine tenths of the lines of
  the repository, and none of it is Mull: the share of all lines that is modelled is small for
  that reason, while of `src/lib`, `src/include/mull` and `src/tools` every component with state or
  control is.

## Plan

Done, in this order, by importance: 1 `TaskExecutor`/`OrderedMap`; 2 `ProcessRunner`/`TestRun`;
3 `Trampoline`; 4 `MutantRunner`/`Judgement`; 5 `MullRunner`; 6 `MutationSearch`; 7 `GitDiff`;
8 `JunkDetection`; 9 `CompilationDatabase`; 10 `MutatorsFactory`; 11 `MutationOperators`,
`LogicalOperators`; 12 `Diagnostics`; 13 `Configuration`; 14 `Reporting`; the compositions `Driver` and
`Tools`; proofs for 1 to 14 but `LogicalOperators`.

What is left:

1. Coverage geometry: lines and columns of regions against those of mutations, in place of "inside",
   "outside" and "edge".
2. `negate_mutator` and `scalar_value_mutator` as further patterns of `MutationOperators`.
