-------------------------------- MODULE Driver --------------------------------
(***************************************************************************)
(* The compiler plugin up to the vector of mutations (mutateBitcode in     *)
(* lib/Driver.cpp), and what the mutators do with an operator of the       *)
(* source.  The tables of flags are made first, for the junk detector; the *)
(* factory makes the mutators the configuration names, which are those the *)
(* search runs and the only ones that are applied.                         *)
(*                                                                         *)
(* What is done leaves its result only, and a behaviour follows one of the *)
(* parts that do not depend on each other.                                 *)
(***************************************************************************)
EXTENDS Integers, Sequences

CONSTANTS
  Directories, Files, Lines, Extra, UnitWords, CommandWords,                           \* CompilationDatabase
  Names, MaxNames,                                                                     \* MutatorsFactory
  NInstructions, NFunctions, Located, InDiff, InPath, Junk, Logical, Trivial,            \* MutationSearch
  W                                                                                    \* MutationOperators

ASSUME WAssumption == W \in Nat /\ W > 1
ASSUME NamesAssumption == "" \notin Names   \* which is the general warning
ASSUME NumbersAssumption == NInstructions \in Nat /\ NFunctions \in Nat

VARIABLES
  part,    \* "start", "flags", "factory", "mutators", "search", "operator" or "condition"
  kinds,   \* of the mutators there are
  units, commands, extraFlags, pc, bitcodeFlags, database, unresolved, resourceDirs, answers,
  called, wanted, ignored, mapping, result, warnings,
  functionOf, located, inPath, unmovable, config, stage, filters, todo, functions, selected, mutations, nullSeen,
  construct, type, instruction, operatorPoint, operatorStage,
  condition, statement, code, conditionPoint, conditionStage

Database  == INSTANCE CompilationDatabase
Factory   == INSTANCE MutatorsFactory
Search    == INSTANCE MutationSearch
Operator  == INSTANCE MutationOperators WITH point <- operatorPoint, stage <- operatorStage
Condition == INSTANCE LogicalOperators WITH point <- conditionPoint, stage <- conditionStage

\* Compilers are run in directories with absolute paths, and a file has a name.
IsPath(p) == p \in Seq(STRING) /\ p # <<>> /\ \A k \in 2 .. Len(p) : p[k] # "/"
ASSUME DirectoriesAssumption == \A d \in Directories : IsPath(d) /\ Database!IsAbsolute(d)
ASSUME PathsAssumption       == \A f \in Files : IsPath(f)

\* The word of a unit or a command is nobody else's.
OtherWords == {"", "-resource-dir"} \cup UNION {Database!ToSet(line) : line \in Lines \cup Extra}
ASSUME LinesAssumption == Lines \cup Extra \subseteq Seq(STRING)
ASSUME WordsAssumption ==
  /\ UnitWords \in Seq(STRING) /\ CommandWords \in Seq(STRING)
  /\ Database!IsInjective(UnitWords \o CommandWords)
  /\ Database!ToSet(UnitWords \o CommandWords) \cap OtherWords = {}

databaseVars  == <<units, commands, extraFlags, pc, bitcodeFlags, database, unresolved, resourceDirs, answers>>
factoryVars   == <<called, wanted, ignored, mapping, result, warnings>>
searchVars    == <<functionOf, located, inPath, unmovable, config, stage, filters, todo, functions, selected,
                   mutations, nullSeen>>
operatorVars  == <<construct, type, instruction, operatorPoint, operatorStage>>
conditionVars == <<condition, statement, code, conditionPoint, conditionStage>>
vars == <<part, kinds, databaseVars, factoryVars, searchVars, operatorVars, conditionVars>>

Init ==
  /\ part = "start" /\ kinds = {}
  /\ Database!Init /\ Factory!Init /\ Search!Init /\ Operator!Init /\ Condition!Init

-----------------------------------------------------------------------------

\* The flags are those of the file system and the bitcode, whatever the mutators are.
MakeDatabase ==
  /\ part \in {"start", "flags"} /\ part' = "flags"
  /\ Database!Next
  /\ UNCHANGED <<kinds, factoryVars, searchVars, operatorVars, conditionVars>>

MakeMutators ==
  /\ part = "start" /\ part' = "factory"
  /\ Factory!Next
  /\ UNCHANGED <<kinds, databaseVars, searchVars, operatorVars, conditionVars>>

LogicalMutators == {"cxx_logical_and_to_or", "cxx_logical_or_to_and"}

TakeMutators ==
  /\ part = "factory" /\ part' = "mutators"
  /\ kinds' = {kind \in Search!Kinds :
                 IF kind = "logical" THEN result \cap LogicalMutators # {} ELSE result \ LogicalMutators # {}}
  /\ called' = FALSE /\ wanted' = {} /\ ignored' = {} /\ mapping' = {} /\ result' = {} /\ warnings' = {}
  /\ UNCHANGED <<databaseVars, searchVars, operatorVars, conditionVars>>

StartSearch ==
  /\ part = "mutators" /\ part' = "search"
  /\ \E path, diff, junk \in BOOLEAN :
       Search!MutateBitcode([path |-> path, diff |-> diff, junk |-> junk, mutators |-> kinds])
  /\ UNCHANGED <<kinds, databaseVars, factoryVars, operatorVars, conditionVars>>

SearchMutations ==
  /\ part = "search" /\ stage # "start"
  /\ Search!Next
  /\ UNCHANGED <<part, kinds, databaseVars, factoryVars, operatorVars, conditionVars>>

\* An operator is only mutated by mutators that are there.
MutateOperator ==
  /\ \/ part = "mutators" /\ "trivial" \in kinds
     \/ part = "operator"
  /\ part' = "operator"
  /\ Operator!Next
  /\ UNCHANGED <<kinds, databaseVars, factoryVars, searchVars, conditionVars>>

MutateCondition ==
  /\ \/ part = "mutators" /\ "logical" \in kinds
     \/ part = "condition"
  /\ part' = "condition"
  /\ Condition!Next
  /\ UNCHANGED <<kinds, databaseVars, factoryVars, searchVars, operatorVars>>

Next ==
  \/ MakeDatabase \/ MakeMutators \/ TakeMutators
  \/ StartSearch \/ SearchMutations
  \/ MutateOperator \/ MutateCondition

Spec == Init /\ [][Next]_vars

-----------------------------------------------------------------------------
(* Properties of the parts, in the composition. *)

\* However its path is written, a file is parsed with the flags of one unit or command,
\* its own: see CompilationDatabase.
FlagsOfTheFile == Database!FlagsOfTheFile

\* A compiler is asked once for its resource directory, and all its entries get it.
OneAnswerPerCompiler == Database!OneAnswerPerCompiler

\* The mutators are those of the groups without those of the ignored groups.
SelectionIsExact == Factory!SelectionIsExact

\* No pass of the driver hands FilePathFilter a location that is null.
PathFilterSeesLocations == Search!PathFilterSeesLocations

\* The mutations are those that match, of mutators that were made, and pass every filter
\* that is on, in the order of the code.
MutationsAreExact == Search!MutationsAreExact

\* On non-negative numbers a mutant computes what the source would with the operator
\* replaced.
MutantIsTheReplacement == Operator!MutantIsTheReplacement

\* An operator has one mutation for each of its mutators.
OneMutationPerMutator == Operator!OneMutationPerMutator

\* The same for && and ||: turning one branch round replaces a simple operator.
SimpleOperatorIsReplaced == Condition!SimpleOperatorIsReplaced

=============================================================================
