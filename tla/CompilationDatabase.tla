------------------------- MODULE CompilationDatabase -------------------------
(***************************************************************************)
(* With which flags the junk detector parses a file: what the bitcode      *)
(* recorded, what compile_commands.json says, the extra flags and the      *)
(* resource directory of each compiler are put together once, and looked   *)
(* up by path (lib/JunkDetection/CXX/CompilationDatabase.cpp).             *)
(*                                                                         *)
(* A path is the sequence of its components, with "/" as the first one if  *)
(* it is absolute.  A flag that matters only by who gave it is a word of   *)
(* its own.                                                                *)
(***************************************************************************)
EXTENDS Integers, SequencesExt

CONSTANTS
  Directories,  \* where compilers are run
  Files,        \* what they are given there, paths
  Lines,        \* command lines, the one who gave it left out; <<>> for none
  Extra,        \* what --compilation-flags may be, sequences of flags
  UnitWords,    \* a word for each of as many units as there may be, so that its flags
  CommandWords  \* can be told from those of others; the same for commands

VARIABLES
  units,         \* [directory, file, line]: compile units of the bitcode
  commands,      \* of the compilation database, the same
  extraFlags,
  pc,            \* "start", "file", "database", "bitcode" or "ready"
  bitcodeFlags,  \* [path]: [compiler, flags]
  database,      \* the same
  unresolved,    \* keys of the table at hand that resolveResourceDir has not reached
  resourceDirs,  \* [compiler]: its directory, "" if there was no answer
  answers        \* what was asked, <<compiler, directory>> (history)

input == <<units, commands, extraFlags>>
vars  == <<input, pc, bitcodeFlags, database, unresolved, resourceDirs, answers>>

Tool == [directory : Directories, file : Files, line : Lines]

Init ==
  /\ units = <<>> /\ commands = <<>> /\ extraFlags = <<>>
  /\ pc = "start"
  /\ bitcodeFlags = <<>> /\ database = <<>>
  /\ unresolved = {}
  /\ resourceDirs = <<>>
  /\ answers = <<>>

\* the constructor is called
Open ==
  /\ pc = "start" /\ pc' = "file"
  /\ units' \in BoundedSeq(Tool, Len(UnitWords))
  /\ commands' \in BoundedSeq(Tool, Len(CommandWords))
  /\ extraFlags' \in Extra
  /\ UNCHANGED <<bitcodeFlags, database, unresolved, resourceDirs, answers>>

-----------------------------------------------------------------------------
(* Paths *)

IsAbsolute(p) == p # <<>> /\ Head(p) = "/"

\* mutant of AbsoluteFilePath: the path as it is
FilePathOnly(directory, p) == p

AbsoluteFilePath(directory, p) == IF p # <<>> /\ ~ IsAbsolute(p) THEN directory \o p ELSE p

\* what a further component makes of a path without dots
Component(p, c) ==
  IF c = "." \/ (c = ".." /\ p = <<"/">>) THEN p
  ELSE IF c = ".." /\ p # <<>> /\ Last(p) # ".." THEN Front(p)
  ELSE Append(p, c)

RemoveDots(p) == FoldLeft(Component, <<>>, p)

Filename(p) == <<Last(p)>>

-----------------------------------------------------------------------------
(* The tables *)

\* The first word is the compiler; the flags are followed by the extra ones.
Entry(line) ==
  IF line = <<>> THEN [compiler |-> "", flags |-> extraFlags]
  ELSE [compiler |-> Head(line), flags |-> Tail(line) \o extraFlags]

\* the word only this unit or command has is the last one of its line
Said(tools, who, k) ==
  IF tools[k].line = <<>> THEN <<>> ELSE Append(tools[k].line, who[k])

PathOf(tool) == AbsoluteFilePath(tool.directory, tool.file)

\* A later one for the same path takes the place of an earlier one.
Table(tools, who, recorded) ==
  [p \in {PathOf(tools[k]) : k \in recorded} |->
     Entry(Said(tools, who, CHOOSE k \in recorded : PathOf(tools[k]) = p /\
                              \A j \in recorded : PathOf(tools[j]) = p => j <= k))]

\* Units without flags (no -grecord-command-line) are not recorded.
RecordedUnits == {k \in DOMAIN units : units[k].line # <<>>}
BitcodeTable  == Table(units, UnitWords, RecordedUnits)
CommandTable  == Table(commands, CommandWords, DOMAIN commands)

\* fromFile: a file that cannot be read is a warning, and there are no commands.
ReadFile ==
  /\ pc = "file"
  /\ pc' = "database"
  /\ bitcodeFlags' = BitcodeTable
  /\ \/ database' = CommandTable
     \/ commands # <<>> /\ database' = <<>>
  /\ unresolved' = DOMAIN database'
  /\ UNCHANGED <<input, resourceDirs, answers>>

\* "-resource-dir=x" is not recognised.
NeedsResourceDir(e) == e.compiler # "" /\ \A k \in DOMAIN e.flags : e.flags[k] # "-resource-dir"

WithResourceDir(e, dir) ==
  IF NeedsResourceDir(e) /\ dir # "" THEN [e EXCEPT !.flags = @ \o <<"-resource-dir", dir>>] ELSE e

\* <compiler> -print-resource-dir; it may fail, take too long or print nothing.
Answers(compiler) == {"", compiler}

\* mutant of Remembered: what a compiler said for one file is not used for others
RememberedIfAny(compiler) == compiler \in DOMAIN resourceDirs /\ resourceDirs[compiler] # ""

Remembered(compiler) == compiler \in DOMAIN resourceDirs

Ask(compiler, dir) ==
  /\ ~ Remembered(compiler) /\ dir \in Answers(compiler)
  /\ resourceDirs' = [c \in DOMAIN resourceDirs \cup {compiler} |-> IF c = compiler THEN dir ELSE resourceDirs[c]]
  /\ answers' = Append(answers, <<compiler, dir>>)

\* one turn of the loop in resolveResourceDir, for the entry e of p; it becomes f
Resolve(p, e, f) ==
  /\ unresolved' = unresolved \ {p}
  /\ \/ ~ NeedsResourceDir(e) /\ f = e /\ UNCHANGED <<resourceDirs, answers>>
     \/ /\ NeedsResourceDir(e) /\ Remembered(e.compiler)
        /\ f = WithResourceDir(e, resourceDirs[e.compiler])
        /\ UNCHANGED <<resourceDirs, answers>>
     \/ /\ NeedsResourceDir(e)
        /\ \E dir \in Answers(e.compiler) : Ask(e.compiler, dir) /\ f = WithResourceDir(e, dir)

Outcomes(e) == {WithResourceDir(e, dir) : dir \in Answers(e.compiler)}

ResolveDatabase ==
  /\ pc = "database"
  /\ \E p \in unresolved : \E f \in Outcomes(database[p]) :
       Resolve(p, database[p], f) /\ database' = [database EXCEPT ![p] = f]
  /\ UNCHANGED <<input, pc, bitcodeFlags>>

ResolveBitcode ==
  /\ pc = "bitcode"
  /\ \E p \in unresolved : \E f \in Outcomes(bitcodeFlags[p]) :
       Resolve(p, bitcodeFlags[p], f) /\ bitcodeFlags' = [bitcodeFlags EXCEPT ![p] = f]
  /\ UNCHANGED <<input, pc, database>>

\* The directories found for the database are there for the bitcode, too.
TableResolved ==
  /\ pc \in {"database", "bitcode"} /\ unresolved = {}
  /\ \/ pc = "database" /\ pc' = "bitcode" /\ unresolved' = DOMAIN bitcodeFlags
     \/ pc = "bitcode" /\ pc' = "ready" /\ UNCHANGED unresolved
  /\ UNCHANGED <<input, bitcodeFlags, database, resourceDirs, answers>>

Next == Open \/ ReadFile \/ ResolveDatabase \/ ResolveBitcode \/ TableResolved

Spec == Init /\ [][Next]_vars

-----------------------------------------------------------------------------
(* The lookup *)

Fallback == [compiler |-> "mull", flags |-> extraFlags]

\* the table and the key under which a path is found: the path, its last component
\* or the path without dots, first in the bitcode
Tries(p) ==
  LET keys == <<p, Filename(p), RemoveDots(p)>>
  IN [k \in 1 .. 6 |-> IF k <= 3 THEN [table |-> bitcodeFlags, key |-> keys[k]]
                                 ELSE [table |-> database, key |-> keys[k - 3]]]

CompilationFlagsForFile(p) ==
  LET hits == {k \in 1 .. 6 : Tries(p)[k].key \in DOMAIN Tries(p)[k].table}
  IN IF hits = {} THEN Fallback ELSE LET t == Tries(p)[Min(hits)] IN t.table[t.key]

-----------------------------------------------------------------------------
(* Properties *)

Location(tool) == IF IsAbsolute(tool.file) THEN tool.file ELSE tool.directory \o tool.file

\* the paths findAST asks for: those of units, as the debug information has them
Asked == {Location([directory |-> d, file |-> f]) : d \in Directories, f \in Files}

\* the units or commands the flags of e come from
Sources(e, tools, who) == {k \in DOMAIN tools : \E j \in DOMAIN e.flags : e.flags[j] = who[k]}

\* the last of those that are recorded for its path
IsLast(tools, recorded, k) ==
  k \in recorded /\ \A j \in recorded : Location(tools[j]) = Location(tools[k]) => j <= k

About(p, tools, recorded, ks) ==
  \A k \in ks : RemoveDots(Location(tools[k])) = RemoveDots(p) /\ IsLast(tools, recorded, k)

\* An answer comes from one unit or command, of the file asked for, however its path
\* is written: from the unit of that very path, if its flags were recorded, and of
\* several for one path from the last.  There is no source at all only if no command is for
\* the path as it is, or without dots, or if one of them says nothing.
FlagsOfTheFile ==
  pc = "ready" => \A p \in Asked :
    LET e  == CompilationFlagsForFile(p)
        us == Sources(e, units, UnitWords)
        cs == Sources(e, commands, CommandWords)
        Own == {k \in DOMAIN commands : /\ Location(commands[k]) \in {p, RemoveDots(p)}
                                        /\ IsLast(commands, DOMAIN commands, k)}
        OwnUnit == \E k \in RecordedUnits : Location(units[k]) = p
    IN /\ Cardinality(us) + Cardinality(cs) <= 1
       /\ About(p, units, RecordedUnits, us) /\ About(p, commands, DOMAIN commands, cs)
       /\ OwnUnit => us # {}
       /\ us \cup cs = {} /\ Own # {} /\ DOMAIN database # {} => \E k \in Own : commands[k].line = <<>>

\* Every compiler is asked once at most, whatever it answers, and all entries of a
\* compiler, of the bitcode and of the database, get the directory it named, unless
\* their command line has one.
OneAnswerPerCompiler ==
  /\ \A i, j \in DOMAIN answers : answers[i][1] = answers[j][1] => i = j
  /\ pc = "ready" =>
       \A k \in DOMAIN answers :
         LET Complete(table, original) ==
               \A p \in DOMAIN table :
                 original[p].compiler = answers[k][1] => table[p] = WithResourceDir(original[p], answers[k][2])
         IN Complete(bitcodeFlags, BitcodeTable) /\ Complete(database, CommandTable)

=============================================================================
