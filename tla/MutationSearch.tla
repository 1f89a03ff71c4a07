--------------------------- MODULE MutationSearch ---------------------------
(***************************************************************************)
(* Which mutations a module gets (the first half of lib/Driver.cpp):       *)
(* functions pass the function filters, the instructions of a function are *)
(* selected by the instruction filters, every mutator looks for mutations  *)
(* in the function, and what it finds passes the mutation filters, one     *)
(* pass per filter.                                                        *)
(*                                                                         *)
(* Each loop over functions or mutations is a TaskExecutor, whose output   *)
(* is that of one sequential loop; here it is that loop, one item a step.  *)
(*                                                                         *)
(* A location is the facts the filters ask about it.  Instructions are     *)
(* numbered in the order of the module.                                    *)
(***************************************************************************)
EXTENDS Integers, SequencesExt

CONSTANTS
  NInstructions, \* so many
  NFunctions,
  Located,       \* instructions with a debug location
  InDiff,        \* ... on a line of the git diff
  InPath,        \* ... in a file the paths of the configuration allow
  Junk,          \* ... with no expression of the source to mutate
  Logical,       \* the && and || of the source: logical mutators match
  Trivial        \* instructions the mutators for one instruction match

VARIABLES
  functionOf,    \* [i]: the function of the instruction
  located,       \* functions with a debug location
  inPath,        \* functions of files that the paths allow
  unmovable,     \* functions that are variadic or have the address of a label taken
  config,        \* the filters that are on, and the mutators there are
  stage,
  filters,       \* the lists functionFilters, instructionFilters, mutationFilters
  todo,          \* what the loop of the stage has not reached
  functions,     \* filteredFunctions
  selected,      \* [f]: selectedInstructions
  mutations,     \* MutationPoints: [mutator, instruction]
  nullSeen       \* FilePathFilter was given a null location, against its assertion

Instructions == 1 .. NInstructions
Functions    == 1 .. NFunctions

input == <<functionOf, located, inPath, unmovable, config>>
vars  == <<input, stage, filters, todo, functions, selected, mutations, nullSeen>>

Kinds == {"trivial", "logical"}   \* of mutators

Configurations == [path : BOOLEAN, diff : BOOLEAN, junk : BOOLEAN, mutators : SUBSET Kinds]

Init ==
  /\ functionOf = [i \in Instructions |-> 1]
  /\ located = {} /\ inPath = {} /\ unmovable = {}
  /\ config = [path |-> FALSE, diff |-> FALSE, junk |-> FALSE, mutators |-> {}]
  /\ stage = "start"
  /\ filters = [function |-> <<>>, instruction |-> <<>>, mutation |-> <<>>]
  /\ todo = <<>> /\ functions = <<>>
  /\ selected = [f \in Functions |-> <<>>]
  /\ mutations = <<>>
  /\ nullSeen = FALSE

\* mutateBitcode is called with a module, under the configuration it has read.
MutateBitcode(configuration) ==
  /\ stage = "start" /\ stage' = "filters"
  /\ functionOf' \in {o \in [Instructions -> Functions] : \A i, j \in Instructions : i < j => o[i] <= o[j]}
  /\ located' \in SUBSET Functions
  /\ inPath' \in SUBSET Functions
  /\ unmovable' \in SUBSET Functions
  /\ config' = configuration
  /\ UNCHANGED <<filters, todo, functions, selected, mutations, nullSeen>>

-----------------------------------------------------------------------------
(* Filters *)

If(b, s) == IF b THEN s ELSE <<>>

\* what of s is in S, in its order: a filter is the set of what it lets through
Only(s, S) ==
  LET kept[k \in 0 .. Len(s)] ==
        IF k = 0 THEN <<>> ELSE kept[k - 1] \o If(s[k] \in S, <<s[k]>>)
  IN kept[Len(s)]

\* mutant of EnableFilters: the filters by path come first
EnablePathFirst ==
  /\ stage = "filters"
  /\ stage' = "functions"
  /\ filters' =
       [function    |-> If(config.path, <<"path">>) \o <<"noDebug", "blockAddress", "variadic">>,
        instruction |-> <<"noDebug">> \o If(config.diff, <<"diff">>),
        mutation    |-> If(config.path, <<"path">>) \o <<"noDebug">> \o If(config.junk, <<"junk">>)]
  /\ todo' = [f \in Functions |-> f]
  /\ UNCHANGED <<input, functions, selected, mutations, nullSeen>>

EnableFilters ==
  /\ stage = "filters"
  /\ stage' = "functions"
  /\ filters' =
       [function    |-> <<"noDebug">> \o If(config.path, <<"path">>) \o <<"blockAddress", "variadic">>,
        instruction |-> <<"noDebug">> \o If(config.diff, <<"diff">>),
        mutation    |-> <<"noDebug">> \o If(config.path, <<"path">>) \o If(config.junk, <<"junk">>)]
  /\ todo' = [f \in Functions |-> f]
  /\ UNCHANGED <<input, functions, selected, mutations, nullSeen>>

\* What each filter lets through.  GitDiffFilter and the junk detector reject null
\* locations themselves; FilePathFilter asserts that there are none.
Functionwise ==
  [noDebug |-> located, path |-> inPath, blockAddress |-> Functions \ unmovable, variadic |-> Functions \ unmovable]

Instructionwise ==
  [noDebug |-> Located, path |-> InPath, diff |-> Located \cap InDiff, junk |-> Located \ Junk]

Passes(x, list, lets) == \A k \in 1 .. Len(list) : x \in lets[list[k]]

\* The path filter is asked about x, for no filter before it skips x.
AsksPath(x, list, lets) ==
  \E k \in 1 .. Len(list) : list[k] = "path" /\ Passes(x, SubSeq(list, 1, k - 1), lets)

-----------------------------------------------------------------------------

FilterFunction ==
  /\ stage = "functions" /\ todo # <<>>
  /\ LET f == Head(todo)
     IN /\ functions' = functions \o If(Passes(f, filters.function, Functionwise), <<f>>)
        /\ nullSeen' = (nullSeen \/ (f \notin located /\ AsksPath(f, filters.function, Functionwise)))
  /\ todo' = Tail(todo)
  /\ UNCHANGED <<input, stage, filters, selected, mutations>>

Code(f) == Only([i \in Instructions |-> i], {i \in Instructions : functionOf[i] = f})

SelectInstructions ==
  /\ stage = "select" /\ todo # <<>>
  /\ LET f == Head(todo)
     IN selected' = [selected EXCEPT ![f] =
          Only(Code(f), {i \in Instructions : Passes(i, filters.instruction, Instructionwise)})]
  /\ todo' = Tail(todo)
  /\ UNCHANGED <<input, stage, filters, functions, mutations, nullSeen>>

\* getMutations: TrivialCXXMutator goes over the selected instructions,
\* LogicalAndToOr and LogicalOrToAnd over those of the function.
Matches(mutator, f) ==
  IF mutator = "trivial" THEN Only(selected[f], Trivial)
  ELSE Only(Code(f), Logical)

Found(mutator, f) ==
  [k \in DOMAIN Matches(mutator, f) |-> [mutator |-> mutator, instruction |-> Matches(mutator, f)[k]]]

\* mutant of SearchPoints: the results of a mutator replace those before
SearchLast ==
  /\ stage = "search" /\ todo # <<>>
  /\ LET f == Head(todo)
     IN mutations' = mutations \o (IF "logical" \in config.mutators THEN Found("logical", f)
                                   ELSE If("trivial" \in config.mutators, Found("trivial", f)))
  /\ todo' = Tail(todo)
  /\ UNCHANGED <<input, stage, filters, functions, selected, nullSeen>>

\* The vector of mutators has two kinds here.
SearchPoints ==
  /\ stage = "search" /\ todo # <<>>
  /\ LET f == Head(todo)
     IN mutations' = mutations \o If("trivial" \in config.mutators, Found("trivial", f))
                               \o If("logical" \in config.mutators, Found("logical", f))
  /\ todo' = Tail(todo)
  /\ UNCHANGED <<input, stage, filters, functions, selected, nullSeen>>

\* one pass of MutationFilterTask
ApplyFilter ==
  /\ stage = "apply" /\ todo # <<>>
  /\ LET filter == Head(todo)
     IN /\ mutations' = Only(mutations, [mutator : Kinds, instruction : Instructionwise[filter]])
        /\ nullSeen' = (nullSeen \/ (filter = "path" /\ \E k \in DOMAIN mutations : mutations[k].instruction \notin Located))
  /\ todo' = Tail(todo)
  /\ UNCHANGED <<input, stage, filters, functions, selected>>

After == [functions |-> "select", select |-> "search", search |-> "apply", apply |-> "done"]

NextStage ==
  /\ stage \in DOMAIN After /\ todo = <<>>
  /\ stage' = After[stage]
  /\ todo' = CASE stage' = "apply" -> filters.mutation
               [] stage' = "done" -> <<>>
               [] OTHER -> functions
  /\ UNCHANGED <<input, filters, functions, selected, mutations, nullSeen>>

Next ==
  \/ \E configuration \in Configurations : MutateBitcode(configuration)
  \/ EnableFilters \/ FilterFunction \/ SelectInstructions \/ SearchPoints \/ ApplyFilter \/ NextStage

Spec == Init /\ [][Next]_vars

-----------------------------------------------------------------------------
(* Properties *)

\* FilePathFilter asserts that a location is not null.  No pass of the driver ever
\* hands it one, since the filter for missing debug information comes first in
\* every list it is in.
PathFilterSeesLocations == ~ nullSeen

Matching(p) == p.instruction \in (IF p.mutator = "trivial" THEN Trivial ELSE Logical)

\* What the configuration asks for.
Wanted(p) ==
  LET i == p.instruction
      f == functionOf[i]
  IN /\ p.mutator \in config.mutators
     /\ f \in located \ unmovable /\ i \in Located
     /\ config.path => f \in inPath /\ i \in InPath
     /\ config.junk => i \notin Junk
     /\ config.diff /\ p.mutator = "trivial" => i \in InDiff

\* function by function, the mutators in their order, in the order of the code
Before(p, q) ==
  \/ functionOf[p.instruction] < functionOf[q.instruction]
  \/ /\ functionOf[p.instruction] = functionOf[q.instruction]
     /\ \/ p.mutator = "trivial" /\ q.mutator = "logical"
        \/ p.mutator = q.mutator /\ p.instruction < q.instruction

\* The stages together lose nothing and let nothing through: the mutations are
\* those that match and pass every filter that is on, each once (logical mutators
\* are not asked about the diff), function by function, the mutators in their
\* order, in the order of the code.  So which of two mutations with one identifier
\* is the last, and the one a run selects, does not depend on the number of workers.
MutationsAreExact ==
  /\ \A k, l \in DOMAIN mutations : k < l => Before(mutations[k], mutations[l])
  /\ stage = "done" =>
       ToSet(mutations) = {p \in [mutator : Kinds, instruction : Instructions] : Matching(p) /\ Wanted(p)}

\* docs/IncrementalMutationTesting.rst: with a diff of one line "Mull will only
\* find mutations in that line and will skip everything else".
OnlyMutationsOfTheDiff ==
  stage = "done" /\ config.diff => \A k \in DOMAIN mutations : mutations[k].instruction \in InDiff

=============================================================================
