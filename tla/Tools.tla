--------------------------------- MODULE Tools ---------------------------------
(***************************************************************************)
(* What the compiler plugin and mull-runner make of their configuration:   *)
(* it is read first (Configuration), sets the modes of the messages        *)
(* (Diagnostics), asks for a git diff or not (GitDiff), and strict mode    *)
(* decides, in the reader of the diff and in the reporters (Reporting),    *)
(* whether a warning ends the program.                                     *)
(*                                                                         *)
(* The configuration leaves the modes only, and a behaviour follows one of *)
(* the messages, the diff and the reports, which do not depend on each     *)
(* other.                                                                  *)
(***************************************************************************)
EXTENDS Integers, Sequences

CONSTANTS
  Depth, FileKeys, MaxKeys, MaxOptions,               \* Configuration
  Workers, MaxMessages,                               \* Diagnostics
  NFiles, MaxHunks, Starts, Counts, Lines, Lookalikes, \* GitDiff
  Names, MaxMutants, MaxReporters, MaxRuns            \* Reporting

ASSUME DepthAssumption == Depth \in Nat
ASSUME FilesAssumption == NFiles \in Nat /\ MaxHunks \in Nat /\ Lookalikes \subseteq 0 .. NFiles
ASSUME NumbersAssumption == Starts \subseteq Nat /\ Counts \subseteq Nat /\ Lines \subseteq Nat

VARIABLES
  part,    \* "configuration", "messages", "diff", "no diff", "reports" or "exited"
  program, mullConfig, file, contents, options, pc, searched, config, configuration, strictMode, warnings,
  mode, seenProgress, mutex, threadPc, message, sent, out, ended,
  change, gitPc, git, todo, current, gitDiffInfo,
  mutants, asked, showKilled, writable, run, status, reportPc, at, patched, tables, database, rows, patches,
  report, score

Config   == INSTANCE Configuration
Messages == INSTANCE Diagnostics WITH pc <- threadPc
Diff     == INSTANCE GitDiff WITH pc <- gitPc, strict <- strictMode
Reports  == INSTANCE Reporting WITH pc <- reportPc, strict <- strictMode

configVars  == <<program, mullConfig, file, contents, options, pc, searched, config, configuration, strictMode, warnings>>
messageVars == <<mode, seenProgress, mutex, threadPc, message, sent, out, ended>>
diffVars    == <<change, gitPc, git, todo, current, gitDiffInfo>>
reportVars  == <<mutants, asked, showKilled, writable, run, status, reportPc, at, patched, tables, database, rows,
                 patches, report, score>>
vars == <<part, configVars, messageVars, diffVars, reportVars>>

ASSUME FileKeysAssumption == \A key \in FileKeys : \E k \in DOMAIN Config!Keys : Config!Keys[k] = key

Init ==
  /\ part = "configuration"
  /\ Config!Init /\ Messages!Init
  /\ Diff!Init /\ Reports!Init

-----------------------------------------------------------------------------

ReadConfiguration ==
  /\ part = "configuration"
  /\ Config!Next
  /\ UNCHANGED <<part, messageVars, diffVars, reportVars>>

\* What was read is not looked at again, but for strict mode.
Leave ==
  /\ part = "configuration" /\ pc = "ready" /\ pc' = "over"
  /\ program' = "plugin" /\ mullConfig' = FALSE /\ file' = <<>> /\ contents' = <<>> /\ options' = {}
  /\ searched' = 0 /\ config' = -1 /\ configuration' = <<>> /\ warnings' = 0
  /\ UNCHANGED strictMode

IsSet(key) == configuration[key] # Config!ByDefault

\* The key of a mode may also be there to say that it is off.  mull-runner does not look
\* at quiet and silent, and the plugin knows no strict mode.
Modes ==
  {modes \in SUBSET {"debug", "quiet", "silent", "strict"} :
     /\ "debug" \in modes => IsSet("debugEnabled")
     /\ "quiet" \in modes => program = "plugin" /\ IsSet("quiet")
     /\ "silent" \in modes => program = "plugin" /\ IsSet("silent")
     /\ "strict" \in modes <=> strictMode}

EnableModes ==
  /\ Leave /\ part' = "messages" /\ ~ ended
  /\ \E modes \in Modes : Messages!EnableModes(modes)
  /\ UNCHANGED <<diffVars, reportVars>>

SendMessages ==
  /\ part = "messages"
  /\ ~ ended /\ \E t \in Messages!Threads : Messages!Step(t)
  /\ UNCHANGED <<part, configVars, diffVars, reportVars>>

\* enableGitDiffFilter: if the root of the project is not given or not there, that is a
\* warning, and all lines count.
EnableGitDiffFilter ==
  /\ Leave /\ IsSet("gitDiffRef")
  /\ \/ IsSet("gitProjectRoot") /\ part' = "diff"
     \/ part' = IF strictMode THEN "exited" ELSE "no diff"
  /\ UNCHANGED <<messageVars, diffVars, reportVars>>

ReadGitDiff ==
  /\ part = "diff"
  /\ Diff!Next
  /\ UNCHANGED <<part, program, mullConfig, file, contents, options, pc, searched, config, configuration, warnings>>
  /\ UNCHANGED <<messageVars, reportVars>>

\* mull-runner reports.
StartReports ==
  /\ program = "runner"
  /\ Leave /\ part' = "reports"
  /\ UNCHANGED <<messageVars, diffVars, reportVars>>

ReportResults ==
  /\ part = "reports"
  /\ Reports!Next
  /\ UNCHANGED <<part, program, mullConfig, file, contents, options, pc, searched, config, configuration, warnings>>
  /\ UNCHANGED <<messageVars, diffVars>>

Next ==
  \/ ReadConfiguration
  \/ EnableModes \/ SendMessages
  \/ EnableGitDiffFilter \/ ReadGitDiff
  \/ StartReports \/ ReportResults

Spec == Init /\ [][Next]_vars

-----------------------------------------------------------------------------
(* Properties of the parts, in the composition. *)

\* Options win over the file, and the file is the one that was asked for, or the nearest.
NearestWordCounts == Config!NearestWordCounts

\* Nothing follows a fatal message, and one thread runs exit().
FatalMessageIsTheLast == Messages!FatalMessageIsTheLast

\* A message is never behind the progress of the reporter on one line.
MessagesBeginLines == Messages!MessagesBeginLines

\* The lines of the diff are the changed ones, and one more at most if git was too slow.
AdmitsTheChange == Diff!AdmitsTheChange

\* All reporters say the same of the same mutants, but for what cannot be read or
\* written and for patches with one name (Reporting); in strict mode, of all of them.
ReportsAgree == Reports!ReportsAgree

\* A database has all mutants of one run, or none.
DatabaseIsWhole == Reports!DatabaseIsWhole

=============================================================================
