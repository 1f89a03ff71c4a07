------------------------------- MODULE GitDiff -------------------------------
(***************************************************************************)
(* Which lines incremental mutation testing looks at: GitDiffReader runs   *)
(* `git diff -U0 <ref>` and reads what it prints                           *)
(* (lib/Filters/GitDiffReader.cpp), and GitDiffFilter admits the lines of  *)
(* the ranges it found (lib/Filters/GitDiffFilter.cpp).                    *)
(*                                                                         *)
(* A change has hunks: lines of the new version of a file that replace     *)
(* lines of the old one.  What git prints is a sequence of lines of which  *)
(* the reader knows two kinds by their looks, and files are numbers in the *)
(* order git lists them.                                                   *)
(***************************************************************************)
EXTENDS Integers, SequencesExt

CONSTANTS
  NFiles,      \* files there are
  MaxHunks,    \* hunks of a file at most
  Starts,      \* where hunks start
  Counts,      \* how many lines they have in the new version
  Lines,       \* lines mutations may be on
  Lookalikes   \* 0 \in Lookalikes; f: an added line reads "++ <x>/<path of f>"

VARIABLES
  change,      \* [f]: its hunks, and whether it is deleted
  strict,
  pc,          \* "git", "parse", "done" or "exited"
  git,         \* how the run of git ended
  todo,        \* lines of stdoutOutput the parser has not read
  current,     \* currentFileName, 0 for none
  gitDiffInfo  \* [f]: ranges [first, second], none for a file that is not there

Files == 1 .. NFiles

vars == <<change, strict, pc, git, todo, current, gitDiffInfo>>

\* Lines that were deleted before the first one leave a hunk that starts at 0.
Hunk ==
  {h \in [start : Starts, count : Counts, lookalike : Lookalikes] :
     (h.count = 0 => h.lookalike = 0) /\ (h.start = 0 => h.count = 0)}

Before(g, h) == g.start + g.count < h.start

FileChange ==
  {c \in [deleted : BOOLEAN, hunks : BoundedSeq(Hunk, MaxHunks)] :
     /\ \A k \in 1 .. Len(c.hunks) - 1 : Before(c.hunks[k], c.hunks[k + 1])
     /\ c.deleted => c.hunks = <<>>}

Unchanged == [deleted |-> FALSE, hunks |-> <<>>]

Init ==
  /\ change = [f \in Files |-> Unchanged]
  /\ strict \in BOOLEAN
  /\ pc = "git" /\ git = "none"
  /\ todo = <<>>
  /\ current = 0
  /\ gitDiffInfo = [f \in Files |-> <<>>]

-----------------------------------------------------------------------------
(* What git prints (external). *)

EditFiles ==
  /\ pc = "git" /\ change = [f \in Files |-> Unchanged]
  /\ change' \in [Files -> FileChange]
  /\ UNCHANGED <<strict, pc, git, todo, current, gitDiffInfo>>

Other == [kind |-> "other"]
Header(f) == [kind |-> "file", file |-> f]

\* "+s,c", and "+s" for one line
RangeLine(s, c, counted) == [kind |-> "range", start |-> s, count |-> c, counted |-> counted]

HunkText(h) ==
  <<RangeLine(h.start, h.count, h.count # 1)>> \o IF h.lookalike = 0 THEN <<Other>> ELSE <<Header(h.lookalike)>>

\* The header of a deleted file names /dev/null, which is no header to the reader.
FileText(f) ==
  IF change[f].deleted THEN <<Other, RangeLine(0, 0, TRUE)>>
  ELSE IF change[f].hunks = <<>> THEN <<>>
  ELSE <<Header(f)>> \o FlattenSeq([k \in DOMAIN change[f].hunks |-> HunkText(change[f].hunks[k])])

Text == FlattenSeq([f \in Files |-> FileText(f)])

\* the numbers whose digits begin those of n
Beginnings(n) == {n} \cup ({n \div 10} \ {0})

\* what a line of the text may look like when it is cut
Cut(line) ==
  IF line.kind # "range" THEN {Other}
  ELSE {Other} \cup {RangeLine(s, 1, FALSE) : s \in Beginnings(line.start)}
       \cup {RangeLine(line.start, c, TRUE) : c \in Beginnings(line.count)}

-----------------------------------------------------------------------------
(* GitDiffReader *)

\* git ends with 0; or, after the 5 seconds of the drain, with 0 and output that
\* was cut somewhere; or with an error or a kill, which is a warning and an empty
\* diff; or it cannot be started.
RunGit ==
  /\ pc = "git"
  /\ \/ pc' = "parse" /\ git' = "complete" /\ todo' = Text
     \/ /\ pc' = "parse" /\ git' = "late"
        /\ \E k \in 1 .. Len(Text) : \E line \in Cut(Text[k]) : todo' = Append(SubSeq(Text, 1, k - 1), line)
     \/ pc' = (IF strict THEN "exited" ELSE "done") /\ git' = "failed" /\ UNCHANGED todo
     \/ pc' = "exited" /\ git' = "failed" /\ UNCHANGED todo
  /\ UNCHANGED <<change, strict, current, gitDiffInfo>>

LineCount(line) == IF line.counted THEN line.count ELSE 1

\* one turn of the loop in parseDiffContent
ParseLine ==
  /\ pc = "parse" /\ todo # <<>>
  /\ LET line == Head(todo)
     IN \/ /\ line.kind = "file"
           /\ current' = line.file
           /\ UNCHANGED gitDiffInfo
        \/ /\ line.kind = "range" /\ LineCount(line) > 0
           /\ gitDiffInfo' = [gitDiffInfo EXCEPT ![current] = Append(@, [first |-> line.start, second |-> LineCount(line)])]
           /\ UNCHANGED current
        \/ /\ line.kind = "other" \/ (line.kind = "range" /\ LineCount(line) = 0)
           /\ UNCHANGED <<current, gitDiffInfo>>
  /\ todo' = Tail(todo)
  /\ UNCHANGED <<change, strict, pc, git>>

EndOfDiff ==
  /\ pc = "parse" /\ todo = <<>>
  /\ pc' = "done"
  /\ UNCHANGED <<change, strict, git, todo, current, gitDiffInfo>>

Next == EditFiles \/ RunGit \/ ParseLine \/ EndOfDiff

Spec == Init /\ [][Next]_vars

-----------------------------------------------------------------------------
(* GitDiffFilter *)

\* mutant of ShouldSkip: the line after a range belongs to it
ShouldSkipNotNext(f, l) ==
  ~ \E k \in DOMAIN gitDiffInfo[f] :
      LET r == gitDiffInfo[f][k] IN r.first <= l /\ l <= r.first + r.second

ShouldSkip(f, l) ==
  ~ \E k \in DOMAIN gitDiffInfo[f] :
      LET r == gitDiffInfo[f][k] IN r.first <= l /\ l <= r.first + r.second - 1

-----------------------------------------------------------------------------
(* Properties *)

\* The lines of f that the change added or replaced.
Changed(f) ==
  {l \in Lines : \E k \in DOMAIN change[f].hunks :
     LET h == change[f].hunks[k] IN h.start <= l /\ l < h.start + h.count}

Admitted(f) == {l \in Lines : ~ ShouldSkip(f, l)}

\* No added line looks like the header of a file.
Plain == \A f \in Files : \A k \in DOMAIN change[f].hunks : change[f].hunks[k].lookalike = 0

\* The lines in which mutations are looked for are exactly the changed ones, with
\* hunks of one line, hunks that only delete, and deleted files between the
\* others, whose header the reader does not see.  If git was so slow that its
\* output was cut, at most one line is admitted that was not changed: what remained
\* of the last range may name another line.
AdmitsTheChange ==
  pc = "done" /\ Plain =>
    /\ git = "complete" => \A f \in Files : Admitted(f) = Changed(f)
    /\ git = "late" => Cardinality({p \in Files \X Lines : p[2] \in Admitted(p[1]) \ Changed(p[1])}) <= 1

\* docs/IncrementalMutationTesting.rst: "Mull only finds mutations in the source
\* lines that are covered by a particular Git Diff changeset."
OnlyChangedLines ==
  pc = "done" /\ git = "complete" => \A f \in Files : Admitted(f) \subseteq Changed(f)

=============================================================================
