---------------------------- MODULE Configuration ----------------------------
(***************************************************************************)
(* What the compiler plugin and mull-runner are told to do: the search for *)
(* mull.yml, its reading (lib/Config/ConfigurationParser.cpp), the options *)
(* of the command line of mull-runner, and the modes of Diagnostics that   *)
(* follow from both.                                                       *)
(*                                                                         *)
(* The value of a key is where it comes from: the place of the file, or    *)
(* ByDefault or ByOption.  Places are numbers, how far up from the current *)
(* directory, and 0 is the file that MULL_CONFIG names.                    *)
(***************************************************************************)
EXTENDS Integers, SequencesExt

CONSTANTS
  Depth,      \* directories from the current one to the root
  FileKeys,   \* keys files may have
  MaxKeys,    \* at most so many
  MaxOptions  \* options on one command line

\* the keys, in the order of mapping()
Keys ==
  <<"debugEnabled", "quiet", "silent", "captureTestOutput", "captureMutantOutput", "includeNotCovered", "timeout",
    "mutators", "ignoreMutators", "parallelization", "compilationDatabasePath", "compilerFlags",
    "junkDetectionDisabled", "gitDiffRef", "gitProjectRoot", "includePaths", "excludePaths", "debug">>

Options == {"debug", "strict", "timeout", "include-not-covered", "workers", "no-test-output", "no-mutant-output",
            "no-output"}

Places == 0 .. Depth

\* the values that are in no file
ByDefault == -1
ByOption  == -2

VARIABLES
  program,        \* "plugin" or "runner"
  mullConfig,     \* MULL_CONFIG is set
  file,           \* [place]: "none", "unreadable" or "there"
  contents,       \* [key]: "good", or "bad" if it is no value of that kind
  options,        \* on the command line
  pc,             \* "find", "load", "options", "ready" or "exited"
  searched,       \* directories without mull.yml
  config,         \* the place found, or -1
  configuration,  \* [key]
  strictMode,     \* of Diagnostics
  warnings        \* how many it gave

input == <<program, mullConfig, file, contents, options>>
vars  == <<input, pc, searched, config, configuration, strictMode, warnings>>

Default == [key \in ToSet(Keys) |-> ByDefault]

Init ==
  /\ program \in {"plugin", "runner"}
  /\ mullConfig \in BOOLEAN
  /\ file \in [Places -> {"none", "unreadable", "there"}]
  /\ contents \in UNION {[S -> {"good", "bad"}] : S \in {T \in SUBSET FileKeys : Cardinality(T) <= MaxKeys}}
  /\ options \in {S \in SUBSET Options : Cardinality(S) <= MaxOptions}
  /\ program = "plugin" => options = {}
  /\ pc = "find"
  /\ searched = 0
  /\ config = -1
  /\ configuration = Default
  /\ strictMode = FALSE
  /\ warnings = 0

-----------------------------------------------------------------------------

\* findConfig: MULL_CONFIG is taken as it is.
UseMullConfig ==
  /\ pc = "find" /\ mullConfig
  /\ config' = 0 /\ pc' = "load"
  /\ UNCHANGED <<input, searched, configuration, strictMode, warnings>>

\* mutant of SearchDirectory: the search goes on after the first file
SearchFurther ==
  /\ pc = "find" /\ ~ mullConfig /\ searched < Depth
  /\ searched' = searched + 1
  /\ config' = (IF file[searched + 1] # "none" THEN searched + 1 ELSE config)
  /\ pc' = (IF searched + 1 = Depth /\ config' # -1 THEN "load" ELSE "find")
  /\ UNCHANGED <<input, configuration, strictMode, warnings>>

\* one directory: the current one first, then its parent
SearchDirectory ==
  /\ pc = "find" /\ ~ mullConfig /\ searched < Depth
  /\ searched' = searched + 1
  /\ IF file[searched + 1] # "none" THEN config' = searched + 1 /\ pc' = "load" ELSE UNCHANGED <<config, pc>>
  /\ UNCHANGED <<input, configuration, strictMode, warnings>>

\* The plugin warns that there is none; mull-runner does not.
NoConfig ==
  /\ pc = "find" /\ ~ mullConfig /\ searched = Depth
  /\ pc' = "options"
  /\ warnings' = warnings + (IF program = "plugin" THEN 1 ELSE 0)
  /\ UNCHANGED <<input, searched, config, configuration, strictMode>>

\* Values are read in the order of mapping().  After a bad one the input is in error,
\* and no further key is found in it.
Applied(k) ==
  /\ Keys[k] \in DOMAIN contents
  /\ \A j \in 1 .. k : Keys[j] \in DOMAIN contents => contents[Keys[j]] = "good"

\* loadFromDisk: a file that cannot be read is a warning, and all is as by default.
LoadFromDisk ==
  /\ pc = "load"
  /\ pc' = "options"
  /\ IF file[config] = "there"
       THEN /\ configuration' = [key \in ToSet(Keys) |->
                                   IF \E k \in DOMAIN Keys : Keys[k] = key /\ Applied(k) THEN config ELSE ByDefault]
            /\ UNCHANGED warnings
       ELSE warnings' = warnings + 1 /\ UNCHANGED configuration
  /\ UNCHANGED <<input, searched, config, strictMode>>

Given(names) == options \cap names # {}

\* which options a key is set by
SetBy ==
  [debugEnabled |-> {"debug"}, timeout |-> {"timeout"}, includeNotCovered |-> {"include-not-covered"},
   captureTestOutput |-> {"no-test-output", "no-output"}, captureMutantOutput |-> {"no-mutant-output", "no-output"},
   parallelization |-> {"workers"}]

Overridden(key) == key \in DOMAIN SetBy /\ Given(SetBy[key])

\* mull-runner takes the numbers of workers from the command line only; more of them
\* than there are cores is a warning, the first that strict mode may notice.
ReadOptions ==
  /\ pc = "options" /\ program = "runner"
  /\ strictMode' = Given({"strict"})
  /\ configuration' = [key \in ToSet(Keys) |-> IF Overridden(key) THEN ByOption
                                               ELSE IF key = "parallelization" THEN ByDefault ELSE configuration[key]]
  /\ \/ pc' = "ready" /\ UNCHANGED warnings
     \/ /\ Given({"workers"}) /\ warnings' = warnings + 1
        /\ pc' = IF strictMode' THEN "exited" ELSE "ready"
  /\ UNCHANGED <<input, searched, config>>

\* The plugin has no options, and fills in the numbers of workers left open.
SetUpPlugin ==
  /\ pc = "options" /\ program = "plugin"
  /\ pc' = "ready"
  /\ UNCHANGED <<input, searched, config, configuration, strictMode, warnings>>

Next == UseMullConfig \/ SearchDirectory \/ NoConfig \/ LoadFromDisk \/ ReadOptions \/ SetUpPlugin

Spec == Init /\ [][Next]_vars

\* the key that says whether the output of a run is captured: captureTestOutput is
\* never read
CaptureKey(run) == "captureMutantOutput"

-----------------------------------------------------------------------------
(* Properties *)

Good == \A key \in DOMAIN contents : contents[key] = "good"

\* What the program does is what it was told: by the command line before the file, by
\* the file MULL_CONFIG names or the one of the nearest directory alone -- never by
\* another one, also if that one cannot be read -- and by all of it, unless a value
\* in it is bad: then by the part before it.  (Workers in the file are for the plugin.)
NearestWordCounts ==
  pc = "ready" =>
    LET there   == {p \in 1 .. Depth : file[p] # "none"}
        nearest == IF mullConfig THEN 0 ELSE Min(there \cup {Depth + 1})
        first   == Min({k \in DOMAIN Keys : Keys[k] \in DOMAIN contents /\ contents[Keys[k]] = "bad"} \cup {Len(Keys) + 1})
    IN \A k \in DOMAIN Keys :
         /\ configuration[Keys[k]] = ByOption <=> Overridden(Keys[k])
         /\ configuration[Keys[k]] \notin {ByOption, ByDefault} => configuration[Keys[k]] = nearest
         /\ configuration[Keys[k]] = ByDefault <=>
              /\ ~ Overridden(Keys[k])
              /\ \/ nearest > Depth \/ (nearest <= Depth /\ file[nearest] # "there")
                 \/ Keys[k] \notin DOMAIN contents \/ k >= first
                 \/ program = "runner" /\ Keys[k] = "parallelization"

\* docs/MullConfig.rst: "Here is an example config file", with a timeout that is a
\* list: every other key of a file has its effect.
GoodKeysApply ==
  pc = "ready" /\ config # -1 /\ file[config] = "there" =>
    \A key \in DOMAIN contents :
      contents[key] = "good" /\ ~ (program = "runner" /\ key = "parallelization") => configuration[key] # ByDefault

\* tools/CLIOptions/CLIOptions.h: "Enables Strict Mode: all warning messages are
\* treated as fatal errors".
WarningsAreFatal == pc = "ready" /\ "strict" \in options => warnings = 0

\* tools/CLIOptions/CLIOptions.h: "Does not capture output from test runs".
TestOutputIsNotCaptured ==
  pc = "ready" /\ "no-test-output" \in options => configuration[CaptureKey("warm up")] = ByOption

=============================================================================
