------------------------------ MODULE Reporting ------------------------------
(***************************************************************************)
(* The end of mull-runner: the reporters that were asked for write about   *)
(* the mutants one after the other (lib/Reporters), on the terminal, into  *)
(* one JSON file, one patch per mutant and a database.  A warning in       *)
(* strict mode and an error end the program between them, it may be killed *)
(* at any time, and it may be run again with the same name for its report. *)
(*                                                                         *)
(* Layout is left out.  What names the patch of a mutant -- path, mutator, *)
(* line and column -- is one value of Names; its end is not part of it.    *)
(* A statement of SQLite on a database with its tables is taken to succeed *)
(* (the reporter does not look at what inserting a row returns).           *)
(***************************************************************************)
EXTENDS Integers, SequencesExt

CONSTANTS
  Names,
  MaxMutants,
  MaxReporters,
  MaxRuns

\* the others are killed, too
Statuses == {"Passed", "Failed", "NotCovered"}
Kinds    == {"IDE", "SQLite", "Patches", "Elements", "GithubAnnotations"}

VARIABLES
  mutants,     \* [name, readable]
  asked,       \* what --reporters names, in this order
  strict,
  showKilled,  \* --ide-reporter-show-killed
  writable,    \* the directory of the report
  run,         \* how often the program was started
  status,      \* [i]: of the mutants in this run
  pc,          \* "reports", "rows", "done", "exited" or "killed"
  at,          \* the reporter at work
  patched,     \* mutants the patches reporter is done with
  tables,      \* the database has its tables
  database,    \* the rows that were committed
  rows,        \* those of the transaction
  patches,     \* [<<prefix, name>>]: [run, mutant] that wrote the file
  report,      \* [kind]: pairs <<mutant, class>> this run wrote to the terminal or the JSON file
  score        \* [kind]

input == <<mutants, asked, strict, showKilled, writable>>
vars  == <<input, run, status, pc, at, patched, tables, database, rows, patches, report, score>>

\* The database and the patches are files of more than one run.
Nothing == [kind \in Kinds \ {"SQLite", "Patches"} |-> {}]

Init ==
  /\ mutants = <<>> /\ asked = <<>>
  /\ strict \in BOOLEAN /\ showKilled = FALSE /\ writable = FALSE
  /\ run = 0
  /\ status = <<>>
  /\ pc = "done" /\ at = 1
  /\ patched = 0
  /\ tables = FALSE /\ database = {} /\ rows = {}
  /\ patches = <<>>
  /\ report = Nothing
  /\ score = [kind \in Kinds |-> 0]

\* All mutants have been run (MullRunner).
RunMutants ==
  /\ run = 0 /\ run' = 1
  /\ mutants' \in BoundedSeq([name : Names, readable : BOOLEAN], MaxMutants)
  /\ asked' \in BoundedSeq(Kinds, MaxReporters)
  /\ showKilled' \in BOOLEAN /\ writable' \in BOOLEAN
  /\ status' \in [DOMAIN mutants' -> Statuses]
  /\ pc' = "reports"
  /\ UNCHANGED <<strict, at, patched, tables, database, rows, patches, report, score>>

-----------------------------------------------------------------------------

\* without --reporters there is the one for IDEs
Reporters == IF asked = <<>> THEN <<"IDE">> ELSE asked

Class(i) ==
  CASE status[i] = "Passed" -> "survived" [] status[i] = "NotCovered" -> "uncovered" [] OTHER -> "killed"

Killed == {i \in DOMAIN mutants : Class(i) = "killed"}

\* The percentage, truncated; as it is made of doubles, it may also be one less.
Score == (Cardinality(Killed) * 100) \div Len(mutants)

Working(kind) == pc = "reports" /\ at <= Len(Reporters) /\ Reporters[at] = kind

NextReporter == at' = at + 1 /\ pc' = "reports"

Finished(kind, pairs) == NextReporter /\ report' = [report EXCEPT ![kind] = pairs]

\* a warning about one of these mutants
Warned(about) == strict /\ \E i \in about : ~ mutants[i].readable

\* A reporter warns about a mutant whose source it cannot read, and goes on.
Reported(about) == {<<i, Class(i)>> : i \in {j \in about : mutants[j].readable}}

Exit ==
  /\ pc' = "exited"
  /\ UNCHANGED <<input, run, status, at, patched, tables, database, rows, patches, report, score>>

Shown == {i \in DOMAIN mutants : showKilled \/ Class(i) # "killed"}

ReportIDE ==
  /\ Working("IDE")
  /\ IF Warned(Shown) THEN Exit
     ELSE /\ Finished("IDE", Reported(Shown))
          /\ score' = IF mutants = <<>> THEN score ELSE [score EXCEPT !["IDE"] = Score]
          /\ UNCHANGED <<input, run, status, patched, tables, database, rows, patches>>

\* Survivors are annotated whether or not their source can be read.
ReportGithubAnnotations ==
  /\ Working("GithubAnnotations")
  /\ Finished("GithubAnnotations", {<<i, Class(i)>> : i \in {j \in DOMAIN mutants : status[j] = "Passed"}})
  /\ UNCHANGED <<input, run, status, patched, tables, database, rows, patches, score>>

\* The HTML file is not looked at here.  Nobody checks whether the file is written.
ReportElements ==
  /\ Working("Elements")
  /\ IF Warned(DOMAIN mutants) THEN Exit
     ELSE /\ Finished("Elements", IF writable THEN Reported(DOMAIN mutants) ELSE {})
          /\ score' = IF mutants = <<>> \/ ~ writable THEN score ELSE [score EXCEPT !["Elements"] = Score]
          /\ UNCHANGED <<input, run, status, patched, tables, database, rows, patches>>

\* CREATE TABLE fails if the tables are there, or if there cannot be a database.
CreateTables ==
  /\ Working("SQLite")
  /\ IF tables \/ ~ writable THEN Exit
     ELSE /\ tables' = TRUE /\ rows' = {}
          /\ pc' = "rows"
          /\ UNCHANGED <<input, run, status, at, patched, database, patches, report, score>>

\* mutant of InsertRow: there is no transaction
InsertRowAtOnce ==
  /\ pc = "rows" /\ Cardinality(rows) < Len(mutants)
  /\ LET i == Cardinality(rows) + 1
     IN rows' = rows \cup {<<i, status[i]>>} /\ database' = rows'
  /\ UNCHANGED <<input, run, status, pc, at, patched, tables, patches, report, score>>

InsertRow ==
  /\ pc = "rows" /\ Cardinality(rows) < Len(mutants)
  /\ LET i == Cardinality(rows) + 1 IN rows' = rows \cup {<<i, status[i]>>}
  /\ UNCHANGED <<input, run, status, pc, at, patched, tables, database, patches, report, score>>

EndTransaction ==
  /\ pc = "rows" /\ Cardinality(rows) = Len(mutants)
  /\ database' = rows
  /\ NextReporter
  /\ UNCHANGED <<input, run, status, patched, tables, rows, patches, report, score>>

\* The first mutant whose source cannot be read is the end of this report.
EndPatches ==
  /\ Working("Patches")
  /\ \/ patched = Len(mutants) /\ NextReporter
     \/ /\ patched < Len(mutants) /\ ~ mutants[patched + 1].readable
        /\ IF strict THEN UNCHANGED at /\ pc' = "exited" ELSE NextReporter
  /\ patched' = 0
  /\ UNCHANGED <<input, run, status, tables, database, rows, patches, report, score>>

PatchName(i) == <<Class(i), mutants[i].name>>

\* mutant of Written: a file that is there is kept
WrittenOnce(i) == patches @@ PatchName(i) :> [run |-> run, mutant |-> i]

\* The files with the patch of this mutant: one that is there is replaced.
Written(i) ==
  [f \in DOMAIN patches \cup {PatchName(i)} |->
     IF f = PatchName(i) THEN [run |-> run, mutant |-> i] ELSE patches[f]]

\* A file that cannot be written is a warning.
WritePatch ==
  /\ Working("Patches") /\ patched < Len(mutants) /\ mutants[patched + 1].readable
  /\ patches' = IF writable THEN Written(patched + 1) ELSE patches
  /\ pc' = IF strict /\ ~ writable THEN "exited" ELSE pc
  /\ patched' = patched + 1
  /\ UNCHANGED <<input, run, status, at, tables, database, rows, report, score>>

EndReports ==
  /\ pc = "reports" /\ at > Len(Reporters)
  /\ pc' = "done"
  /\ UNCHANGED <<input, run, status, at, patched, tables, database, rows, patches, report, score>>

\* SIGKILL, power (external); an open transaction is rolled back by SQLite.
Kill ==
  /\ pc \in {"reports", "rows"}
  /\ pc' = "killed"
  /\ UNCHANGED <<input, run, status, at, patched, tables, database, rows, patches, report, score>>

\* the program is started again with the same report, when the tests have changed
RunAgain ==
  /\ pc \in {"done", "exited", "killed"} /\ run \in 1 .. MaxRuns - 1
  /\ run' = run + 1
  /\ status' \in [DOMAIN mutants -> Statuses]
  /\ pc' = "reports" /\ at' = 1
  /\ patched' = 0 /\ rows' = {}
  /\ report' = Nothing
  /\ score' = [kind \in Kinds |-> 0]
  /\ UNCHANGED <<input, tables, database, patches>>

Next ==
  \/ RunMutants
  \/ ReportIDE \/ ReportGithubAnnotations \/ ReportElements
  \/ CreateTables \/ InsertRow \/ EndTransaction
  \/ WritePatch \/ EndPatches
  \/ EndReports \/ Kill \/ RunAgain

Spec == Init /\ [][Next]_vars

-----------------------------------------------------------------------------
(* Properties *)

Asks(kind) == \E k \in DOMAIN Reporters : Reporters[k] = kind

\* When the program ends normally, the reporters that were asked for have said the same
\* of the same mutants, with these exceptions.  A mutant whose source cannot be read is
\* missing on the terminal and in the JSON file, and the patches end at the first one.
\* Of mutants with one class and name, the last one has the patch (PatchForEachMutation).
\* Without a directory to write to, JSON file and patches are missing, but there is no
\* end without the database.  In strict mode, no reporter has met an unreadable mutant
\* and the patches are not missing; the JSON file may be.  All other patches are of
\* earlier runs.  The score counts the unreadable ones, too, and is 100 only if all are
\* killed.
ReportsAgree ==
  pc = "done" /\ run > 0 =>
    LET all == {<<i, Class(i)>> : i \in DOMAIN mutants}
        unreadable == {i \in DOMAIN mutants : ~ mutants[i].readable}
        first == Min(unreadable \cup {Len(mutants) + 1})
        patchable == {i \in DOMAIN mutants : writable /\ i < first}
        ofThisRun == {f \in DOMAIN patches : patches[f].run = run}
    IN /\ Asks("SQLite") => writable /\ database = {<<i, status[i]>> : i \in DOMAIN mutants}
       /\ Asks("Elements") => report["Elements"] = {p \in all : writable /\ p[1] \notin unreadable}
       /\ Asks("Patches") =>
            [f \in ofThisRun |-> patches[f].mutant]
              = [f \in {PatchName(i) : i \in patchable} |-> Max({i \in patchable : PatchName(i) = f})]
       /\ Asks("GithubAnnotations") => report["GithubAnnotations"] = {p \in all : p[2] = "survived"}
       /\ Asks("IDE") => report["IDE"] = {p \in all : p[1] \notin unreadable /\ (showKilled \/ p[2] # "killed")}
       /\ strict /\ (Asks("Elements") \/ Asks("Patches")) => unreadable = {}
       /\ strict /\ Asks("IDE") => Shown \cap unreadable = {}
       /\ strict /\ Asks("Patches") => writable \/ mutants = <<>>
       /\ \A kind \in {"IDE", "Elements"} :
            Asks(kind) /\ mutants # <<>> /\ (kind = "Elements" => writable)
              => (score[kind] = 100 <=> Killed = DOMAIN mutants)

\* Whenever the program ends or is killed, a database has all mutants of one run, or
\* none, and a later run never changes it.
DatabaseIsWhole ==
  [][database' # database => database = {} /\ database' = {<<i, status[i]>> : i \in DOMAIN mutants}]_vars

\* tools/CLIOptions/CLIOptions.cpp: "Generates patch file for each mutation"; here,
\* when all sources can be read.
PatchForEachMutation ==
  pc = "done" /\ writable /\ Asks("Patches") /\ (\A i \in DOMAIN mutants : mutants[i].readable) =>
    \A i \in DOMAIN mutants : \E f \in DOMAIN patches : patches[f] = [run |-> run, mutant |-> i]

=============================================================================
