------------------------------ MODULE ToolsProofs ------------------------------
(***************************************************************************)
(* Theorems about Tools, for any workers, messages, configurations,        *)
(* directories, changes of files, mutants and reporters.                   *)
(*                                                                         *)
(* The messages: Tools takes the steps of Diagnostics, in the modes that   *)
(* were read, or leaves the terminal alone.  Both properties rest on the   *)
(* mutex: whoever is between the lock and the unlock has it, and a thread  *)
(* that left for exit() keeps it for ever.                                 *)
(*                                                                         *)
(* The configuration: the search has passed directories without a file,    *)
(* and each key has the value of the file or of the options.               *)
(*                                                                         *)
(* The reports: a reporter that is done said what it should; the one at    *)
(* work has patches of the first mutants, or rows of an open transaction.  *)
(*                                                                         *)
(* The diff: the parser has the ranges of the lines it has read, each for  *)
(* the file of the last header above it; and in what git prints, whole or  *)
(* cut, these are the hunks of that file.                                  *)
(***************************************************************************)
EXTENDS Tools, SequenceTheorems, FiniteSetTheorems, NaturalsInduction, WellFoundedInduction, TLAPS

Pieces == {"newline", "message", "fatal", "progress"}

TypeOK ==
  /\ seenProgress \in BOOLEAN
  /\ mutex \in Messages!Threads \cup {Messages!Nobody}
  /\ threadPc \in [Messages!Threads -> {"idle", "call", "begin", "log", "print", "exit"}]
  /\ message \in [Messages!Threads -> {"none", "info", "warning", "error", "progress", "debug"}]
  /\ out \in Seq(Pieces)

\* the part of a call that is under the mutex
UnderMutex == {"begin", "log", "print", "exit"}

MutexInv == \A t \in Messages!Threads : threadPc[t] \in UnderMutex => mutex = t

ExitInv == (\E t \in Messages!Threads : threadPc[t] = "exit") => out # <<>> /\ Messages!Last(out) = "fatal"

\* seenProgress knows of a line of progress before it is printed.
LineInv ==
  /\ out # <<>> /\ Messages!Last(out) = "progress" => seenProgress
  /\ \A t \in Messages!Threads : (threadPc[t] = "log" => ~seenProgress) /\ (threadPc[t] = "print" => seenProgress)

IInv == TypeOK /\ MutexInv /\ ExitInv /\ LineInv /\ Messages!MessagesBeginLines

-----------------------------------------------------------------------------
(* What is left of the output when something is written *)

LEMMA TheEnd ==
  ASSUME NEW s \in Seq(Pieces), NEW m \in 1 .. Len(s)
  PROVE  /\ SubSeq(s, m, Len(s)) \in Seq(Pieces)
         /\ Len(SubSeq(s, m, Len(s))) = Len(s) - m + 1
         /\ \A i \in 1 .. Len(s) - m + 1 : SubSeq(s, m, Len(s))[i] = s[m + i - 1]
<1>1. m \in Int /\ Len(s) \in Int /\ m <= Len(s)
  OBVIOUS
<1>2. \A i \in m .. Len(s) : s[i] \in Pieces
  OBVIOUS
<1> QED
  BY <1>1, <1>2, SubSeqProperties

LEMMA WhereItBegins ==
  ASSUME NEW n \in Nat, n > 0, NEW m, m = IF n > 2 THEN n - 1 ELSE 1
  PROVE  m \in 1 .. n /\ n - m + 1 \in {1, 2} /\ (n - m + 1 = 2 => m = n - 1 /\ n > 1)
  OBVIOUS

LEMMA TheSecondOfTwo ==
  ASSUME NEW n \in Nat, n <= 2, NEW i \in 1 .. n, i > 1
  PROVE  i = 2 /\ n = 2
  OBVIOUS

LEMMA WrittenOne ==
  ASSUME out \in Seq(Pieces), NEW x \in Pieces
  PROVE  /\ Messages!Written(<<x>>) \in Seq(Pieces) /\ Messages!Written(<<x>>) # <<>>
         /\ Messages!Last(Messages!Written(<<x>>)) = x
         /\ Len(Messages!Written(<<x>>)) <= 2
         /\ Len(Messages!Written(<<x>>)) = 2 => out # <<>> /\ Messages!Written(<<x>>)[1] = Messages!Last(out)
<1>1. PICK all : all = out \o <<x>>
  OBVIOUS
<1>2. /\ all \in Seq(Pieces) /\ Len(all) = Len(out) + 1 /\ all[Len(all)] = x /\ Len(out) \in Nat
      /\ \A i \in 1 .. Len(out) : all[i] = out[i]
  BY <1>1, ConcatProperties
<1>3. PICK m : m = IF Len(all) > 2 THEN Len(all) - 1 ELSE 1
  OBVIOUS
<1>4. m \in 1 .. Len(all) /\ Len(all) - m + 1 \in {1, 2} /\ (Len(all) - m + 1 = 2 => m = Len(out) /\ Len(out) > 0)
  <2>1. Len(all) \in Nat /\ Len(all) > 0 /\ Len(out) = Len(all) - 1
    BY <1>2
  <2>2. m \in 1 .. Len(all) /\ Len(all) - m + 1 \in {1, 2} /\ (Len(all) - m + 1 = 2 => m = Len(all) - 1 /\ Len(all) > 1)
    BY <1>3, <2>1, WhereItBegins
  <2> QED
    BY <2>1, <2>2
<1>5. Messages!Written(<<x>>) = SubSeq(all, m, Len(all))
  BY <1>1, <1>3 DEF Messages!Written
<1>6. /\ Messages!Written(<<x>>) \in Seq(Pieces)
      /\ Len(Messages!Written(<<x>>)) = Len(all) - m + 1
      /\ \A i \in 1 .. Len(all) - m + 1 : Messages!Written(<<x>>)[i] = all[m + i - 1]
  BY <1>2, <1>4, <1>5, TheEnd
<1>7. Messages!Last(Messages!Written(<<x>>)) = x
  BY <1>2, <1>4, <1>6 DEF Messages!Last
<1>8. ASSUME Len(all) - m + 1 = 2
      PROVE  out # <<>> /\ Messages!Written(<<x>>)[1] = Messages!Last(out)
  <2>1. m = Len(out) /\ Len(out) > 0 /\ Messages!Written(<<x>>)[1] = all[m]
    BY <1>2, <1>4, <1>6, <1>8
  <2> QED
    BY <1>2, <2>1 DEF Messages!Last
<1>9. Messages!Written(<<x>>) # <<>> /\ Len(Messages!Written(<<x>>)) <= 2
  BY <1>4, <1>6
<1>10. Len(Messages!Written(<<x>>)) = 2 => out # <<>> /\ Messages!Written(<<x>>)[1] = Messages!Last(out)
  BY <1>6, <1>8
<1> QED
  BY <1>6, <1>7, <1>9, <1>10

LEMMA WrittenTwo ==
  ASSUME out \in Seq(Pieces), NEW x \in Pieces, NEW y \in Pieces
  PROVE  Messages!Written(<<x, y>>) = <<x, y>>
<1>1. PICK all : all = out \o <<x, y>>
  OBVIOUS
<1>2. /\ all \in Seq(Pieces) /\ Len(all) = Len(out) + 2 /\ Len(out) \in Nat
      /\ all[Len(all) - 1] = x /\ all[Len(all)] = y
  BY <1>1, ConcatProperties
<1>3. PICK m : m = IF Len(all) > 2 THEN Len(all) - 1 ELSE 1
  OBVIOUS
<1>4. m \in 1 .. Len(all) /\ m = Len(all) - 1 /\ Len(all) - m + 1 = 2 /\ m + 1 = Len(all)
  BY <1>2, <1>3
<1>5. Messages!Written(<<x, y>>) = SubSeq(all, m, Len(all))
  BY <1>1, <1>3 DEF Messages!Written
<1>6. /\ Messages!Written(<<x, y>>) \in Seq(Pieces) /\ Len(Messages!Written(<<x, y>>)) = 2
      /\ Messages!Written(<<x, y>>)[1] = all[m + 1 - 1] /\ Messages!Written(<<x, y>>)[2] = all[m + 2 - 1]
  <2>1. \A i \in 1 .. Len(all) - m + 1 : Messages!Written(<<x, y>>)[i] = all[m + i - 1]
    BY <1>2, <1>4, <1>5, TheEnd
  <2>2. Messages!Written(<<x, y>>) \in Seq(Pieces) /\ Len(Messages!Written(<<x, y>>)) = Len(all) - m + 1
    BY <1>2, <1>4, <1>5, TheEnd
  <2> QED
    <3>1. 1 \in 1 .. Len(all) - m + 1 /\ 2 \in 1 .. Len(all) - m + 1
      BY <1>4
    <3> QED
      BY <1>4, <2>1, <2>2, <3>1
<1>7. Messages!Written(<<x, y>>)[1] = x /\ Messages!Written(<<x, y>>)[2] = y
  BY <1>2, <1>4, <1>6
<1> QED
  BY <1>6, <1>7

-----------------------------------------------------------------------------
(* The invariant *)

LEMMA InitIInv == Messages!Init => IInv
<1> SUFFICES ASSUME Messages!Init PROVE IInv
  OBVIOUS
<1>1. TypeOK
  <2>1. out \in Seq(Pieces)
    BY DEF Messages!Init
  <2>2. threadPc \in [Messages!Threads -> {"idle"}] /\ message \in [Messages!Threads -> {"none"}]
    BY DEF Messages!Init
  <2> QED
    BY <2>1, <2>2 DEF Messages!Init, TypeOK
<1>2. MutexInv /\ ExitInv
  BY DEF Messages!Init, MutexInv, ExitInv, UnderMutex
<1>3. LineInv /\ Messages!MessagesBeginLines
  BY DEF Messages!Init, LineInv, Messages!MessagesBeginLines
<1> QED
  BY <1>1, <1>2, <1>3 DEF IInv

LEMMA KindsAreMessages ==
  ASSUME NEW t \in Messages!Threads, NEW kind \in Messages!Kinds(t)
  PROVE  kind \in {"info", "warning", "error", "progress", "debug"}
  BY DEF Messages!Kinds

LEMMA TypeStep ==
  ASSUME IInv, NEW t \in Messages!Threads, Messages!Step(t)
  PROVE  TypeOK'
<1> USE DEF IInv, TypeOK
<1>1. ASSUME NEW kind \in Messages!Kinds(t), Messages!Call(t, kind) PROVE TypeOK'
  BY <1>1, KindsAreMessages DEF Messages!Call
<1>2. CASE Messages!Lock(t)
  BY <1>2 DEF Messages!Lock
<1>3. CASE Messages!Return(t)
  BY <1>3 DEF Messages!Return, Messages!Unlock
<1>4. CASE Messages!Prepare(t)
  <2>1. out' \in Seq(Pieces)
    BY <1>4, WrittenOne DEF Messages!Prepare, Pieces
  <2> QED
    BY <1>4, <2>1 DEF Messages!Prepare
<1>5. CASE Messages!Log(t)
  <2>1. out' \in Seq(Pieces)
    <3>1. /\ Messages!Written(<<"message">>) \in Seq(Pieces)
          /\ Messages!Written(<<"message", "fatal">>) = <<"message", "fatal">>
      BY WrittenOne, WrittenTwo DEF Pieces
    <3>2. <<"message", "fatal">> \in Seq(Pieces)
      BY DEF Pieces
    <3> QED
      BY <1>5, <3>1, <3>2 DEF Messages!Log
  <2> QED
    BY <1>5, <2>1 DEF Messages!Log, Messages!Exiting, Messages!Unlock
<1>6. CASE Messages!BeginProgress(t)
  BY <1>6 DEF Messages!BeginProgress
<1>7. CASE Messages!PrintProgress(t)
  BY <1>7, WrittenOne DEF Messages!PrintProgress, Messages!Unlock, Pieces
<1>8. CASE Messages!Exit(t)
  BY <1>8 DEF Messages!Exit
<1> QED
  BY <1>1, <1>2, <1>3, <1>4, <1>5, <1>6, <1>7, <1>8 DEF Messages!Step

LEMMA MutexStep ==
  ASSUME IInv, NEW t \in Messages!Threads, Messages!Step(t), Messages!Nobody \notin Messages!Threads
  PROVE  MutexInv'
<1> USE DEF IInv, TypeOK, MutexInv, UnderMutex
<1>1. ASSUME NEW kind \in Messages!Kinds(t), Messages!Call(t, kind) PROVE MutexInv'
  BY <1>1 DEF Messages!Call
<1>2. CASE Messages!Lock(t)
  BY <1>2 DEF Messages!Lock
<1>3. CASE Messages!Return(t)
  BY <1>3 DEF Messages!Return, Messages!Unlock
<1>4. CASE Messages!Prepare(t)
  BY <1>4 DEF Messages!Prepare
<1>5. CASE Messages!Log(t)
  BY <1>5 DEF Messages!Log, Messages!Exiting, Messages!Unlock
<1>6. CASE Messages!BeginProgress(t)
  BY <1>6 DEF Messages!BeginProgress
<1>7. CASE Messages!PrintProgress(t)
  BY <1>7 DEF Messages!PrintProgress, Messages!Unlock
<1>8. CASE Messages!Exit(t)
  BY <1>8 DEF Messages!Exit
<1> QED
  BY <1>1, <1>2, <1>3, <1>4, <1>5, <1>6, <1>7, <1>8 DEF Messages!Step

\* Only a thread that has the mutex writes, so none does once one of them left.
LEMMA ExitStep ==
  ASSUME IInv, NEW t \in Messages!Threads, Messages!Step(t)
  PROVE  ExitInv'
<1> USE DEF IInv, TypeOK, ExitInv
<1>1. CASE out' = out /\ \A u \in Messages!Threads : threadPc'[u] = "exit" => threadPc[u] = "exit"
  BY <1>1
<1>2. CASE threadPc[t] \in {"begin", "log", "print"} /\ out' # out /\ threadPc'[t] # "exit"
           /\ \A u \in Messages!Threads : u # t => threadPc'[u] = threadPc[u]
  BY <1>2 DEF MutexInv, UnderMutex
<1>3. CASE Messages!Log(t) /\ Messages!Fatal(message[t])
  <2>1. out' = <<"message", "fatal">>
    BY <1>3, WrittenTwo DEF Messages!Log, Pieces
  <2> QED
    BY <2>1 DEF Messages!Last
<1>4. CASE Messages!Log(t) /\ ~ Messages!Fatal(message[t])
  BY <1>1, <1>2, <1>4 DEF Messages!Log, Messages!Unlock
<1> QED
  BY <1>1, <1>2, <1>3, <1>4
     DEF Messages!Step, Messages!Call, Messages!Lock, Messages!Return, Messages!Prepare, Messages!BeginProgress,
         Messages!PrintProgress, Messages!Exit, Messages!Unlock

LEMMA LineStep ==
  ASSUME IInv, NEW t \in Messages!Threads, Messages!Step(t)
  PROVE  LineInv'
<1> USE DEF IInv, TypeOK, LineInv
<1>1. \A u \in Messages!Threads : u # t /\ threadPc[t] \in UnderMutex => threadPc[u] \notin UnderMutex
  BY DEF MutexInv
<1>2. ASSUME NEW kind \in Messages!Kinds(t), Messages!Call(t, kind) PROVE LineInv'
  BY <1>2 DEF Messages!Call
<1>3. CASE Messages!Lock(t)
  BY <1>3 DEF Messages!Lock
<1>4. CASE Messages!Return(t)
  BY <1>4 DEF Messages!Return, Messages!Unlock
<1>5. CASE Messages!Prepare(t)
  <2>1. CASE seenProgress
    <3>1. out' # <<>> /\ Messages!Last(out') = "newline"
      BY <1>5, <2>1, WrittenOne DEF Messages!Prepare, Pieces
    <3> QED
      BY <1>1, <1>5, <3>1 DEF Messages!Prepare, UnderMutex
  <2>2. CASE ~ seenProgress
    BY <1>1, <1>5, <2>2 DEF Messages!Prepare, UnderMutex
  <2> QED
    BY <2>1, <2>2
<1>6. CASE Messages!Log(t)
  <2>1. out' # <<>> /\ Messages!Last(out') # "progress"
    <3>1. CASE Messages!Fatal(message[t])
      <4>1. out' = <<"message", "fatal">>
        BY <1>6, <3>1, WrittenTwo DEF Messages!Log, Pieces
      <4> QED
        BY <4>1 DEF Messages!Last
    <3>2. CASE ~ Messages!Fatal(message[t])
      <4>1. out' = Messages!Written(<<"message">>)
        BY <1>6, <3>2 DEF Messages!Log
      <4> QED
        BY <4>1, WrittenOne DEF Pieces
    <3> QED
      BY <3>1, <3>2
  <2> QED
    BY <1>6, <2>1 DEF Messages!Log, Messages!Exiting, Messages!Unlock
<1>7. CASE Messages!BeginProgress(t)
  BY <1>1, <1>7 DEF Messages!BeginProgress, UnderMutex
<1>8. CASE Messages!PrintProgress(t)
  BY <1>1, <1>8 DEF Messages!PrintProgress, Messages!Unlock, UnderMutex
<1>9. CASE Messages!Exit(t)
  BY <1>9 DEF Messages!Exit
<1> QED
  BY <1>2, <1>3, <1>4, <1>5, <1>6, <1>7, <1>8, <1>9 DEF Messages!Step

\* A piece that begins no message can be written at any time, a message when there is
\* no progress on the line.
LEMMA PieceStep ==
  ASSUME IInv, NEW x \in Pieces, out' = Messages!Written(<<x>>),
         x = "message" /\ out # <<>> => Messages!Last(out) # "progress"
  PROVE  Messages!MessagesBeginLines'
<1>1. out' # <<>> /\ Messages!Last(out') = x /\ Len(out') <= 2 /\ out' \in Seq(Pieces)
      /\ (Len(out') = 2 => out # <<>> /\ out'[1] = Messages!Last(out))
  BY WrittenOne DEF IInv, TypeOK
<1> SUFFICES ASSUME NEW i \in DOMAIN out', i > 1, out'[i] = "message"
             PROVE  out'[i - 1] # "progress"
  BY DEF Messages!MessagesBeginLines
<1>2. i = 2 /\ Len(out') = 2
  <2>1. DOMAIN out' = 1 .. Len(out') /\ Len(out') \in Nat /\ Len(out') <= 2
    BY <1>1
  <2>2. i \in 1 .. Len(out')
    BY <2>1
  <2> QED
    BY <2>1, <2>2, TheSecondOfTwo
<1> QED
  BY <1>1, <1>2 DEF Messages!Last

LEMMA MessagesStep ==
  ASSUME IInv, NEW t \in Messages!Threads, Messages!Step(t)
  PROVE  Messages!MessagesBeginLines'
<1>1. CASE out' = out
  BY <1>1 DEF IInv, Messages!MessagesBeginLines
<1>2. CASE out' = Messages!Written(<<"newline">>)
  BY <1>2, PieceStep DEF Pieces
<1>3. CASE out' = Messages!Written(<<"progress">>)
  BY <1>3, PieceStep DEF Pieces
<1>4. CASE Messages!Log(t) /\ Messages!Fatal(message[t])
  <2>1. out' = <<"message", "fatal">>
    BY <1>4, WrittenTwo DEF Messages!Log, Pieces, IInv, TypeOK
  <2> QED
    BY <2>1 DEF Messages!MessagesBeginLines
<1>5. CASE Messages!Log(t) /\ ~ Messages!Fatal(message[t])
  <2>1. out' = Messages!Written(<<"message">>)
    BY <1>5 DEF Messages!Log
  <2>2. out # <<>> => Messages!Last(out) # "progress"
    BY <1>5 DEF Messages!Log, IInv, LineInv
  <2> QED
    BY <2>1, <2>2, PieceStep DEF Pieces
<1> QED
  BY <1>1, <1>2, <1>3, <1>4, <1>5
     DEF Messages!Step, Messages!Call, Messages!Lock, Messages!Return, Messages!Prepare, Messages!BeginProgress,
         Messages!PrintProgress, Messages!Exit

LEMMA InvariantCorrect ==
  ASSUME Messages!Nobody \notin Workers
  PROVE  Messages!Spec => []IInv
<1>1. Messages!Nobody \notin Messages!Threads
  BY DEF Messages!Threads, Messages!Nobody
<1>2. IInv /\ [Messages!Next]_(Messages!vars) => IInv'
  <2> SUFFICES ASSUME IInv, [Messages!Next]_(Messages!vars) PROVE IInv'
    OBVIOUS
  <2>1. CASE UNCHANGED Messages!vars
    BY <2>1 DEF Messages!vars, IInv, TypeOK, MutexInv, ExitInv, LineInv, Messages!MessagesBeginLines
  <2>2. ASSUME NEW modes, Messages!EnableModes(modes) PROVE IInv'
    BY <2>2 DEF Messages!EnableModes, IInv, TypeOK, MutexInv, ExitInv, LineInv, Messages!MessagesBeginLines
  <2>3. ASSUME NEW t \in Messages!Threads, Messages!Step(t) PROVE IInv'
    BY <1>1, <2>3, TypeStep, MutexStep, ExitStep, LineStep, MessagesStep DEF IInv
  <2> QED
    BY <2>1, <2>2, <2>3 DEF Messages!Next
<1> QED
  BY <1>2, InitIInv, PTL DEF Messages!Spec

-----------------------------------------------------------------------------
(* Tools implements Diagnostics. *)

\* What goes on elsewhere sends no messages.
LEMMA ToolsStep == [Next]_vars => [Messages!Next]_(Messages!vars)
<1> SUFFICES ASSUME [Next]_vars PROVE Messages!Next \/ UNCHANGED Messages!vars
  OBVIOUS
<1>1. CASE EnableModes
  <2>1. PICK modes \in Modes : Messages!EnableModes(modes)
    BY <1>1 DEF EnableModes
  <2>2. modes \in SUBSET {"debug", "strict", "quiet", "silent"}
    BY DEF Modes
  <2> QED
    BY <1>1, <2>1, <2>2 DEF EnableModes, Messages!Next
<1>2. CASE SendMessages
  BY <1>2 DEF SendMessages, Messages!Next
<1>3. CASE UNCHANGED messageVars
  BY <1>3 DEF messageVars, Messages!vars
<1> QED
  BY <1>1, <1>2, <1>3 DEF Next, vars, ReadConfiguration, EnableGitDiffFilter, ReadGitDiff, StartReports, ReportResults

\* Messages are sent as Diagnostics says, in the modes of the configuration.
THEOREM ToolsSendMessages == Spec => Messages!Spec
<1>1. Init => Messages!Init
  BY DEF Init
<1> QED
  BY <1>1, ToolsStep, PTL DEF Spec, Messages!Spec

-----------------------------------------------------------------------------
(* Theorems about the messages *)

\* Whatever the workers are: after a fatal message nothing is written, and exit() is
\* called by one thread only.
THEOREM FatalCorrect ==
  ASSUME Messages!Nobody \notin Workers
  PROVE  Spec => []FatalMessageIsTheLast
<1>1. IInv => Messages!FatalMessageIsTheLast
  BY DEF IInv, MutexInv, ExitInv, UnderMutex, Messages!FatalMessageIsTheLast
<1> QED
  BY <1>1, InvariantCorrect, ToolsSendMessages, PTL DEF FatalMessageIsTheLast

\* A message never continues the line of the progress.
THEOREM MessagesCorrect ==
  ASSUME Messages!Nobody \notin Workers
  PROVE  Spec => []MessagesBeginLines
<1>1. IInv => Messages!MessagesBeginLines
  BY DEF IInv
<1> QED
  BY <1>1, InvariantCorrect, ToolsSendMessages, PTL DEF MessagesBeginLines

-----------------------------------------------------------------------------
(* The configuration *)

\* Numbers have a smallest one (< is well-founded).
LEMMA Smallest ==
  ASSUME NEW T \in SUBSET Nat, T # {}
  PROVE  \E n \in T : \A m \in T : n <= m
<1>1. \E x \in T : \A y \in T : ~ (<<y, x>> \in OpToRel(<, Nat))
  BY NatLessThanWellFounded, WFMin
<1>2. PICK x \in T : \A y \in T : ~ (<<y, x>> \in OpToRel(<, Nat))
  BY <1>1
<1>3. \A y \in T : ~ (y < x)
  BY <1>2 DEF OpToRel
<1> QED
  BY <1>3

ConfigTypeOK ==
  /\ program \in {"plugin", "runner"} /\ (program = "plugin" => options = {})
  /\ file \in [0 .. Depth -> {"none", "unreadable", "there"}]
  /\ contents \in [DOMAIN contents -> {"good", "bad"}]
  /\ searched \in 0 .. Depth

\* The search has seen the directories below the one it is at, and found the nearest file.
SearchInv ==
  IF pc = "find" THEN config = -1 /\ \A p \in 1 .. searched : file[p] = "none"
  ELSE \/ mullConfig /\ config = 0
       \/ /\ ~ mullConfig /\ config \in 1 .. Depth
          /\ file[config] # "none" /\ \A p \in 1 .. config - 1 : file[p] = "none"
       \/ /\ ~ mullConfig /\ config = -1 /\ pc # "load"
          /\ \A p \in 1 .. Depth : file[p] = "none"

FromFile(key) ==
  IF /\ config # -1 /\ file[config] = "there"
     /\ \E k \in DOMAIN Config!Keys : Config!Keys[k] = key /\ Config!Applied(k)
    THEN config ELSE Config!ByDefault

FromAll(key) ==
  IF Config!Overridden(key) THEN Config!ByOption
  ELSE IF program = "runner" /\ key = "parallelization" THEN Config!ByDefault ELSE FromFile(key)

ValuesInv ==
  /\ pc \in {"find", "load"} => configuration = Config!Default
  /\ pc = "options" => configuration = [key \in Config!ToSet(Config!Keys) |-> FromFile(key)]
  /\ pc = "ready"   => configuration = [key \in Config!ToSet(Config!Keys) |-> FromAll(key)]

ConfigInv == pc \in {"find", "load", "options", "ready"} => ConfigTypeOK /\ SearchInv /\ ValuesInv

LEMMA ConfigInit == Init => ConfigInv
<1> SUFFICES ASSUME Init PROVE ConfigInv
  OBVIOUS
<1>1. Config!Init
  BY DEF Init
<1>2. ConfigTypeOK
  BY <1>1, DepthAssumption DEF Config!Init, Config!Places, ConfigTypeOK
<1>3. SearchInv /\ ValuesInv
  BY <1>1 DEF Config!Init, SearchInv, ValuesInv
<1> QED
  BY <1>2, <1>3 DEF ConfigInv

LEMMA FindStep ==
  ASSUME ConfigInv, Config!UseMullConfig \/ Config!SearchDirectory
  PROVE  ConfigInv'
<1>1. ConfigTypeOK /\ SearchInv /\ ValuesInv /\ pc = "find" /\ pc' \in {"find", "load"}
      /\ UNCHANGED <<Config!input, configuration>>
  BY DEF ConfigInv, Config!UseMullConfig, Config!SearchDirectory
<1>2. ConfigTypeOK'
  BY <1>1, DepthAssumption DEF ConfigTypeOK, Config!input, Config!UseMullConfig, Config!SearchDirectory
<1>3. SearchInv'
  <2>1. CASE Config!UseMullConfig
    BY <1>1, <2>1 DEF SearchInv, Config!input, Config!UseMullConfig
  <2>2. CASE Config!SearchDirectory
    <3>1. /\ ~ mullConfig /\ searched < Depth /\ searched \in Nat /\ searched + 1 \in 1 .. Depth
          /\ UNCHANGED <<file, mullConfig>> /\ searched' = searched + 1
          /\ config = -1 /\ \A p \in 1 .. searched : file[p] = "none"
      BY <1>1, <2>2, DepthAssumption DEF SearchInv, Config!input, Config!SearchDirectory, ConfigTypeOK
    <3>2. CASE file[searched + 1] # "none"
      <4>1. config' = searched + 1 /\ pc' = "load"
        BY <2>2, <3>2 DEF Config!SearchDirectory
      <4> QED
        BY <3>1, <3>2, <4>1 DEF SearchInv
    <3>3. CASE file[searched + 1] = "none"
      <4>1. config' = -1 /\ pc' = "find"
        BY <1>1, <2>2, <3>1, <3>3 DEF Config!SearchDirectory
      <4>2. \A p \in 1 .. searched + 1 : file[p] = "none"
        BY <3>1, <3>3
      <4> QED
        BY <3>1, <4>1, <4>2 DEF SearchInv
    <3> QED
      BY <3>2, <3>3
  <2> QED
    BY <2>1, <2>2
<1>4. ValuesInv'
  BY <1>1 DEF ValuesInv, Config!Default
<1> QED
  BY <1>1, <1>2, <1>3, <1>4 DEF ConfigInv

\* Where the file is read, or there is none, all keys are what it says, or as by default.
LEMMA LoadStep ==
  ASSUME ConfigInv, Config!NoConfig \/ Config!LoadFromDisk
  PROVE  ConfigInv'
<1>1. ConfigTypeOK /\ SearchInv /\ ValuesInv /\ pc \in {"find", "load"} /\ pc' = "options"
      /\ UNCHANGED <<Config!input, searched, config>>
  BY DEF ConfigInv, Config!NoConfig, Config!LoadFromDisk
<1>2. ConfigTypeOK'
  BY <1>1 DEF ConfigTypeOK, Config!input
<1>3. SearchInv'
  <2>1. CASE Config!NoConfig
    BY <1>1, <2>1 DEF SearchInv, Config!NoConfig, Config!input
  <2>2. CASE Config!LoadFromDisk
    BY <1>1, <2>2 DEF SearchInv, Config!LoadFromDisk, Config!input
  <2> QED
    BY <2>1, <2>2
<1>4. \A key : FromFile(key)' = FromFile(key)
  BY <1>1 DEF FromFile, Config!Applied, Config!input
<1>5. configuration' = [key \in Config!ToSet(Config!Keys) |-> FromFile(key)]
  <2>1. CASE Config!LoadFromDisk /\ file[config] = "there"
    <3>1. config # -1
      BY <1>1, <2>1 DEF SearchInv, Config!LoadFromDisk
    <3> QED
      BY <2>1, <3>1 DEF Config!LoadFromDisk, FromFile
  <2>2. CASE Config!LoadFromDisk /\ file[config] # "there"
    BY <1>1, <2>2 DEF Config!LoadFromDisk, FromFile, ValuesInv, Config!Default
  <2>3. CASE Config!NoConfig
    BY <1>1, <2>3 DEF Config!NoConfig, FromFile, ValuesInv, Config!Default, SearchInv
  <2> QED
    BY <2>1, <2>2, <2>3
<1>6. ValuesInv'
  BY <1>1, <1>4, <1>5 DEF ValuesInv
<1> QED
  BY <1>2, <1>3, <1>6 DEF ConfigInv

LEMMA OptionsStep ==
  ASSUME ConfigInv, Config!ReadOptions \/ Config!SetUpPlugin
  PROVE  ConfigInv'
<1> SUFFICES ASSUME pc' = "ready" PROVE ConfigInv'
  BY DEF Config!ReadOptions, Config!SetUpPlugin, ConfigInv
<1>1. ConfigTypeOK /\ SearchInv /\ ValuesInv /\ pc = "options"
      /\ UNCHANGED <<Config!input, searched, config>>
  BY DEF ConfigInv, Config!ReadOptions, Config!SetUpPlugin
<1>2. ConfigTypeOK' /\ SearchInv'
  BY <1>1 DEF ConfigTypeOK, SearchInv, Config!input
<1>3. \A key : FromAll(key)' = FromAll(key)
  BY <1>1 DEF FromAll, FromFile, Config!Applied, Config!Overridden, Config!Given, Config!SetBy, Config!input
<1>4. configuration' = [key \in Config!ToSet(Config!Keys) |-> FromAll(key)]
  <2>1. CASE Config!ReadOptions
    <3>1. configuration' = [key \in Config!ToSet(Config!Keys) |->
                              IF Config!Overridden(key) THEN Config!ByOption
                              ELSE IF key = "parallelization" THEN Config!ByDefault ELSE configuration[key]]
      BY <2>1 DEF Config!ReadOptions
    <3>2. \A key \in Config!ToSet(Config!Keys) : configuration[key] = FromFile(key)
      BY <1>1 DEF ValuesInv
    <3>3. program = "runner"
      BY <2>1 DEF Config!ReadOptions
    <3> QED
      BY <3>1, <3>2, <3>3 DEF FromAll
  <2>2. CASE Config!SetUpPlugin
    <3>1. program = "plugin" /\ options = {} /\ configuration' = configuration
      BY <1>1, <2>2 DEF Config!SetUpPlugin, ConfigTypeOK
    <3>2. \A key : ~ Config!Overridden(key)
      BY <3>1 DEF Config!Overridden, Config!Given
    <3> QED
      BY <1>1, <3>1, <3>2 DEF ValuesInv, FromAll
  <2> QED
    BY <2>1, <2>2
<1>5. ValuesInv'
  BY <1>3, <1>4 DEF ValuesInv
<1> QED
  BY <1>2, <1>5 DEF ConfigInv

LEMMA ConfigNext == ConfigInv /\ [Next]_vars => ConfigInv'
<1> SUFFICES ASSUME ConfigInv, [Next]_vars PROVE ConfigInv'
  OBVIOUS
<1>1. CASE Config!Next
  BY <1>1, FindStep, LoadStep, OptionsStep DEF Config!Next
<1>2. CASE pc' = "over"
  BY <1>2 DEF ConfigInv
<1>3. CASE UNCHANGED <<program, mullConfig, file, contents, options, pc, searched, config, configuration>>
  BY <1>3 DEF ConfigInv, ConfigTypeOK, SearchInv, ValuesInv, FromAll, FromFile, Config!Applied, Config!Overridden,
              Config!Given
<1> QED
  BY <1>1, <1>2, <1>3
     DEF Next, vars, configVars, ReadConfiguration, EnableModes, SendMessages, EnableGitDiffFilter, ReadGitDiff,
         StartReports, ReportResults, Leave

LEMMA ConfigCorrect == Spec => []ConfigInv
  BY ConfigInit, ConfigNext, PTL DEF Spec

\* A number is below the smallest of some numbers up to a limit, and of the limit, if it
\* is below all of them.
LEMMA BelowTheSmallest ==
  ASSUME NEW n \in Nat, NEW T \in SUBSET (1 .. n)
  PROVE  /\ Config!Min(T \cup {n + 1}) \in T \cup {n + 1}
         /\ \A m \in T : Config!Min(T \cup {n + 1}) <= m
<1>1. T \cup {n + 1} \in SUBSET Nat /\ T \cup {n + 1} # {}
  OBVIOUS
<1>2. PICK x \in T \cup {n + 1} : \A m \in T \cup {n + 1} : x <= m
  BY <1>1, Smallest
<1> QED
  BY <1>2 DEF Config!Min

LEMMA KeysAreDistinct ==
  /\ DOMAIN Config!Keys = 1 .. 18 /\ Len(Config!Keys) = 18
  /\ \A j, k \in 1 .. 18 : Config!Keys[j] = Config!Keys[k] => j = k
<1>1. DOMAIN Config!Keys = 1 .. 18 /\ Len(Config!Keys) = 18
  BY DEF Config!Keys
<1>2. ASSUME NEW j \in 1 .. 18, NEW k \in 1 .. 18, Config!Keys[j] = Config!Keys[k] PROVE j = k
  BY <1>2 DEF Config!Keys
<1> QED
  BY <1>1, <1>2

\* The key is found before the input is in error.
LEMMA AppliedBeforeTheFirstBad ==
  ASSUME ConfigTypeOK, NEW k \in 1 .. 18
  PROVE  LET bad == {i \in DOMAIN Config!Keys : Config!Keys[i] \in DOMAIN contents /\ contents[Config!Keys[i]] = "bad"}
         IN  Config!Applied(k) <=>
               Config!Keys[k] \in DOMAIN contents /\ k < Config!Min(bad \cup {Len(Config!Keys) + 1})
<1> DEFINE bad == {i \in DOMAIN Config!Keys : Config!Keys[i] \in DOMAIN contents /\ contents[Config!Keys[i]] = "bad"}
           min == Config!Min(bad \cup {18 + 1})
<1>1. bad \in SUBSET (1 .. 18)
  BY KeysAreDistinct
<1>2. min \in bad \cup {19} /\ \A m \in bad : min <= m
  <2> HIDE DEF bad
  <2>1. min \in bad \cup {18 + 1} /\ \A m \in bad : min <= m
    BY <1>1, BelowTheSmallest
  <2> QED
    BY <2>1
<1>3. Config!Applied(k) <=> Config!Keys[k] \in DOMAIN contents /\ \A j \in 1 .. k : j \notin bad
  <2>1. \A j \in 1 .. k : j \in 1 .. 18
    OBVIOUS
  <2> QED
    BY <2>1, KeysAreDistinct DEF Config!Applied, ConfigTypeOK
<1>4. k < min <=> \A j \in 1 .. k : j \notin bad
  <2> HIDE DEF min, bad
  <2>1. min \in 1 .. 19
    BY <1>1, <1>2
  <2> QED
    BY <1>1, <1>2, <2>1
<1> QED
  BY <1>3, <1>4, KeysAreDistinct

\* Whatever is on the command line, in the files and in the directories: options win over
\* the file, and the file is the one that was asked for, or the nearest.
THEOREM NearestWordCorrect == Spec => []NearestWordCounts
<1>1. ConfigInv => NearestWordCounts
  <2> SUFFICES ASSUME ConfigInv, pc = "ready" PROVE Config!NearestWordCounts!2
    BY DEF NearestWordCounts, Config!NearestWordCounts
  <2> DEFINE there   == {p \in 1 .. Depth : file[p] # "none"}
             nearest == IF mullConfig THEN 0 ELSE Config!Min(there \cup {Depth + 1})
             bad     == {k \in DOMAIN Config!Keys : Config!Keys[k] \in DOMAIN contents /\ contents[Config!Keys[k]] = "bad"}
             first   == Config!Min(bad \cup {Len(Config!Keys) + 1})
  <2>1. ConfigTypeOK /\ SearchInv /\ configuration = [key \in Config!ToSet(Config!Keys) |-> FromAll(key)]
    BY DEF ConfigInv, ValuesInv
  <2>2. /\ config \in -1 .. Depth
        /\ config = -1 => nearest = Depth + 1
        /\ config # -1 => nearest = config
    <3>1. Depth \in Nat /\ there \in SUBSET (1 .. Depth)
      BY DepthAssumption
    <3>2. Config!Min(there \cup {Depth + 1}) \in there \cup {Depth + 1}
          /\ \A m \in there : Config!Min(there \cup {Depth + 1}) <= m
      BY <3>1, BelowTheSmallest
    <3>3. PICK min : min = Config!Min(there \cup {Depth + 1})
      OBVIOUS
    <3>4. CASE mullConfig
      BY <2>1, <3>1, <3>4 DEF SearchInv
    <3>5. CASE ~ mullConfig /\ config = -1
      <4>1. there = {}
        BY <2>1, <3>1, <3>5 DEF SearchInv
      <4>2. min = Depth + 1
        BY <3>2, <3>3, <4>1
      <4> QED
        BY <3>1, <3>3, <3>5, <4>2
    <3>6. CASE ~ mullConfig /\ config # -1
      <4>1. config \in 1 .. Depth /\ config \in there /\ \A p \in 1 .. config - 1 : p \notin there
        BY <2>1, <3>6 DEF SearchInv
      <4>2. min <= config /\ min \in 1 .. Depth + 1 /\ min \in there \cup {Depth + 1}
        <5> HIDE DEF there
        <5>1. min <= config /\ min \in there \cup {Depth + 1}
          BY <3>2, <3>3, <4>1
        <5> QED
          BY <3>1, <5>1
      <4>3. min = config
        BY <3>1, <4>1, <4>2
      <4> QED
        BY <3>1, <3>3, <3>6, <4>1, <4>3
    <3> QED
      BY <3>4, <3>5, <3>6
  <2> SUFFICES ASSUME NEW k \in DOMAIN Config!Keys
               PROVE  /\ configuration[Config!Keys[k]] = Config!ByOption <=> Config!Overridden(Config!Keys[k])
                      /\ configuration[Config!Keys[k]] \notin {Config!ByOption, Config!ByDefault}
                           => configuration[Config!Keys[k]] = nearest
                      /\ configuration[Config!Keys[k]] = Config!ByDefault <=>
                           /\ ~ Config!Overridden(Config!Keys[k])
                           /\ \/ nearest > Depth \/ (nearest <= Depth /\ file[nearest] # "there")
                              \/ Config!Keys[k] \notin DOMAIN contents \/ k >= first
                              \/ program = "runner" /\ Config!Keys[k] = "parallelization"
    OBVIOUS
  <2>3. configuration[Config!Keys[k]] = FromAll(Config!Keys[k])
    BY <2>1 DEF Config!ToSet
  <2>4. Config!Applied(k) <=> Config!Keys[k] \in DOMAIN contents /\ ~ (k >= first)
    <3>1. k \in 1 .. 18 /\ bad \in SUBSET (1 .. 18) /\ Len(Config!Keys) = 18
      BY KeysAreDistinct
    <3>2. first \in 1 .. 19
      <4> HIDE DEF bad
      <4>1. Config!Min(bad \cup {18 + 1}) \in bad \cup {18 + 1}
        BY <3>1, BelowTheSmallest
      <4>2. first = Config!Min(bad \cup {18 + 1})
        BY <3>1
      <4>3. \A x \in bad \cup {18 + 1} : x \in 1 .. 19
        BY <3>1
      <4> HIDE DEF first
      <4> QED
        BY ONLY <4>1, <4>2, <4>3
    <3>3. Config!Applied(k) <=> Config!Keys[k] \in DOMAIN contents /\ k < first
      BY <2>1, <3>1, AppliedBeforeTheFirstBad
    <3> QED
      BY <3>1, <3>2, <3>3
  <2>5. (\E j \in DOMAIN Config!Keys : Config!Keys[j] = Config!Keys[k] /\ Config!Applied(j)) <=> Config!Applied(k)
    BY KeysAreDistinct
  <2> HIDE DEF nearest, first
  <2>6. FromFile(Config!Keys[k]) =
          IF config # -1 /\ file[config] = "there" /\ Config!Applied(k) THEN config ELSE Config!ByDefault
    BY <2>5 DEF FromFile
  <2>7. Config!ByDefault = -1 /\ Config!ByOption = -2 /\ Depth \in Nat
    BY DepthAssumption DEF Config!ByDefault, Config!ByOption
  <2>8. config = -1 <=> nearest > Depth
    BY <2>2, <2>7
  <2> QED
    BY <2>2, <2>3, <2>4, <2>6, <2>7, <2>8 DEF FromAll
<1> QED
  BY <1>1, ConfigCorrect, PTL

-----------------------------------------------------------------------------
(* The reports *)

\* what all reporters should say
All == {<<i, Reports!Class(i)>> : i \in DOMAIN mutants}

ReadableUpTo(n) == \A i \in 1 .. n : mutants[i].readable

Whole == {<<i, status[i]>> : i \in DOMAIN mutants}

Written == Reports!Kinds \ {"SQLite", "Patches"}

ReportsTypeOK ==
  /\ mutants \in Seq([name : Names, readable : BOOLEAN])
  /\ asked \in Seq(Reports!Kinds)
  /\ status \in [DOMAIN mutants -> Reports!Statuses]
  /\ at \in Nat \ {0} /\ patched \in 0 .. Len(mutants)
  /\ DOMAIN report = Written
  /\ DOMAIN score = Reports!Kinds

\* Before mull-runner has run there is nothing, and it has done what it was asked for
\* when it ends.
StagesInv ==
  /\ part = "configuration" => run = 0
  /\ run \in Nat
  /\ run = 0 => /\ reportPc = "done" /\ ~ tables /\ at = 1 /\ patched = 0
                /\ report = Reports!Nothing /\ DOMAIN patches = {}
  /\ reportPc = "done" /\ run # 0 => at > Len(Reports!Reporters)
  /\ reportPc = "rows" => /\ at <= Len(Reports!Reporters) /\ Reports!Reporters[at] = "SQLite"
                          /\ tables /\ writable /\ database = {}
  /\ ~ tables => database = {}
  /\ patched # 0 => at <= Len(Reports!Reporters) /\ Reports!Reporters[at] = "Patches"

\* The rows of the transaction are those of the first mutants.
RowsInv ==
  reportPc = "rows" =>
    /\ IsFiniteSet(rows) /\ Cardinality(rows) <= Len(mutants)
    /\ rows = {<<i, status[i]>> : i \in 1 .. Cardinality(rows)}

\* The patch under the name of this mutant is of it, or of a later one.
HasPatch(i) ==
  LET f == Reports!PatchName(i)
  IN f \in DOMAIN patches /\ patches[f].run = run /\ patches[f].mutant >= i

\* The patches of this run are under the names of mutants before the first one that
\* cannot be read.
PatchesInv ==
  /\ ~ writable => DOMAIN patches = {}
  /\ \A f \in DOMAIN patches :
       /\ patches[f].run \in Nat /\ patches[f].run <= run
       /\ patches[f].run = run =>
            LET i == patches[f].mutant
            IN i \in DOMAIN mutants /\ ReadableUpTo(i) /\ f = Reports!PatchName(i)
  /\ reportPc \in {"reports", "rows"} =>
       /\ ReadableUpTo(patched)
       /\ writable => \A i \in 1 .. patched : HasPatch(i)
       /\ strictMode /\ ~ writable => patched = 0

\* Of mutants with one name, the last one has the patch.
AllPatched == writable => \A i \in DOMAIN mutants : ReadableUpTo(i) => HasPatch(i)

Done(kind) == \E k \in 1 .. at - 1 : k <= Len(Reports!Reporters) /\ Reports!Reporters[k] = kind

Expected(kind) ==
  CASE kind = "Elements" -> {p \in All : writable /\ mutants[p[1]].readable}
    [] kind = "GithubAnnotations" -> {p \in All : p[2] = "survived"}
    [] kind = "IDE" -> {p \in All : mutants[p[1]].readable /\ (showKilled \/ p[2] # "killed")}

\* What a reporter has met in strict mode, if it has not ended the program.
Strictly(kind) ==
  /\ kind \in {"Elements", "Patches"} => ReadableUpTo(Len(mutants))
  /\ kind = "Patches" => writable \/ mutants = <<>>
  /\ kind = "IDE" => \A i \in Reports!Shown : mutants[i].readable

\* What a reporter leaves behind; while the patches are written a second time, an
\* earlier mutant may have the patch for a while.
Says(kind) ==
  /\ kind \in Written => report[kind] = Expected(kind)
  /\ kind = "SQLite" => writable /\ database = Whole
  /\ kind = "Patches" /\ patched = 0 => AllPatched
  /\ strictMode => Strictly(kind)
  /\ (kind = "IDE" \/ (kind = "Elements" /\ writable)) /\ mutants # <<>> => score[kind] = Reports!Score

DoneInv == \A kind \in Reports!Kinds : Done(kind) => Says(kind)

ReportsInv == ReportsTypeOK /\ StagesInv /\ RowsInv /\ PatchesInv /\ DoneInv


LEMMA ReportsInit == Init => ReportsInv
<1> SUFFICES ASSUME Init PROVE ReportsInv
  OBVIOUS
<1>1. Reports!Init /\ part = "configuration"
  BY DEF Init
<1>2. ReportsTypeOK
  BY <1>1 DEF Reports!Init, ReportsTypeOK, Reports!Nothing, Written
<1>3. StagesInv /\ RowsInv
  BY <1>1 DEF Reports!Init, StagesInv, RowsInv
<1>4. PatchesInv /\ DoneInv
  BY <1>1 DEF Reports!Init, PatchesInv, ReadableUpTo, DoneInv, Done
<1> QED
  BY <1>2, <1>3, <1>4 DEF ReportsInv

LEMMA SameInput ==
  ASSUME UNCHANGED <<Reports!input, run, status>>
  PROVE  /\ All' = All /\ Whole' = Whole
         /\ \A n : ReadableUpTo(n)' <=> ReadableUpTo(n)
         /\ \A kind : Expected(kind)' = Expected(kind) /\ (Strictly(kind)' <=> Strictly(kind))
         /\ Reports!Reporters' = Reports!Reporters /\ Reports!Score' = Reports!Score
         /\ \A i : Reports!PatchName(i)' = Reports!PatchName(i)
         /\ UNCHANGED <<mutants, asked, strictMode, showKilled, writable, run, status>>
<1>1. /\ UNCHANGED <<mutants, asked, strictMode, showKilled, writable, run, status>>
      /\ All' = All /\ Whole' = Whole
      /\ \A n : ReadableUpTo(n)' <=> ReadableUpTo(n)
  BY DEF Reports!input, All, Whole, ReadableUpTo, Reports!Class
<1>2. Reports!Reporters' = Reports!Reporters /\ Reports!Score' = Reports!Score /\ Reports!Shown' = Reports!Shown
  BY DEF Reports!input, Reports!Reporters, Reports!Score, Reports!Shown, Reports!Killed, Reports!Class
<1>3. ASSUME NEW kind PROVE Expected(kind)' = Expected(kind) /\ (Strictly(kind)' <=> Strictly(kind))
  BY <1>1, <1>2 DEF Expected, Strictly
<1>4. ASSUME NEW i PROVE Reports!PatchName(i)' = Reports!PatchName(i)
  BY <1>1 DEF Reports!PatchName, Reports!Class
<1> QED
  BY <1>1, <1>2, <1>3, <1>4

\* The patches stay what they are while no file is written.
LEMMA SamePatches ==
  ASSUME UNCHANGED <<mutants, status, run, patches>>
  PROVE  /\ \A i : (HasPatch(i)' <=> HasPatch(i)) /\ Reports!PatchName(i)' = Reports!PatchName(i)
         /\ \A n : ReadableUpTo(n)' <=> ReadableUpTo(n)
         /\ writable' = writable => (AllPatched' <=> AllPatched)
<1>1. ASSUME NEW i PROVE (HasPatch(i)' <=> HasPatch(i)) /\ Reports!PatchName(i)' = Reports!PatchName(i)
  BY DEF HasPatch, Reports!PatchName, Reports!Class
<1>2. \A n : ReadableUpTo(n)' <=> ReadableUpTo(n)
  BY DEF ReadableUpTo
<1> QED
  BY <1>1, <1>2 DEF AllPatched

\* What was said stays said while nothing is written.
LEMMA SameSaid ==
  ASSUME UNCHANGED <<Reports!input, run, status, at, patched, database, patches, report, score>>
  PROVE  \A kind : (Done(kind)' <=> Done(kind)) /\ (Says(kind)' <=> Says(kind))
<1>1. AllPatched' <=> AllPatched
  BY SamePatches, SameInput
<1>2. ASSUME NEW kind PROVE Done(kind)' <=> Done(kind)
  BY SameInput DEF Done
<1>3. ASSUME NEW kind PROVE Says(kind)' <=> Says(kind)
  BY <1>1, SameInput DEF Says
<1> QED
  BY <1>2, <1>3

\* Nothing is reported while the configuration is read, and nothing while the rest of
\* the program runs.
LEMMA ReportsStay ==
  ASSUME ReportsInv, UNCHANGED reportVars, UNCHANGED strictMode \/ part = "configuration",
         part' = "configuration" => part = "configuration"
  PROVE  ReportsInv'
<1> USE DEF ReportsInv, reportVars
<1>1. ReportsTypeOK'
  BY DEF ReportsTypeOK
<1>2. StagesInv'
  BY DEF StagesInv, Reports!Reporters
<1>3. RowsInv'
  BY DEF RowsInv
<1>4. PatchesInv'
  <2>1. UNCHANGED <<mutants, status, run, patches, writable, reportPc, patched>>
    OBVIOUS
  <2>2. strictMode' = strictMode \/ patched = 0
    BY DEF StagesInv
  <2> QED
    BY <2>1, <2>2, SamePatches DEF PatchesInv
<1>6. DoneInv'
  <2>1. CASE UNCHANGED strictMode
    <3>1. UNCHANGED <<Reports!input, run, status, at, patched, database, patches, report, score>>
      BY <2>1 DEF Reports!input
    <3> QED
      BY ONLY ReportsInv, <3>1, SameSaid DEF ReportsInv, DoneInv
  <2>2. CASE part = "configuration"
    <3>1. at = 1 /\ at' = 1
      BY <2>2 DEF StagesInv
    <3>2. \A kind : ~ Done(kind)'
      BY <3>1 DEF Done
    <3> QED
      BY <3>2 DEF DoneInv
  <2> QED
    BY <2>1, <2>2
<1> QED
  BY <1>1, <1>2, <1>3, <1>4, <1>6

LEMMA BoundedSequences ==
  ASSUME NEW S, NEW n, NEW s \in Reports!BoundedSeq(S, n)
  PROVE  s \in Seq(S)
<1>1. PICK m \in 0 .. n : s \in [1 .. m -> S]
  BY DEF Reports!BoundedSeq, Reports!SeqOf
<1>2. m \in Nat
  OBVIOUS
<1> QED
  BY <1>1, <1>2

\* A run begins with nothing.
LEMMA RunsBegin ==
  ASSUME ReportsInv, part = "reports", part' = part, Reports!RunMutants \/ Reports!RunAgain
  PROVE  ReportsInv'
<1> USE DEF ReportsInv
<1>1. at' = 1 /\ patched' = 0 /\ reportPc' = "reports" /\ report' = Reports!Nothing /\ run' \in Nat \ {0}
      /\ UNCHANGED <<tables, database>>
  BY DEF Reports!RunMutants, Reports!RunAgain, StagesInv
<1>2. ReportsTypeOK'
  <2>1. CASE Reports!RunMutants
    <3>1. mutants' \in Seq([name : Names, readable : BOOLEAN]) /\ asked' \in Seq(Reports!Kinds)
      BY <2>1, BoundedSequences DEF Reports!RunMutants
    <3> QED
      BY <1>1, <2>1, <3>1 DEF Reports!RunMutants, ReportsTypeOK, Reports!Nothing, Written
  <2>2. CASE Reports!RunAgain
    BY <1>1, <2>2 DEF Reports!RunAgain, ReportsTypeOK, Reports!input, Reports!Nothing, Written
  <2> QED
    BY <2>1, <2>2
<1>3. StagesInv'
  BY <1>1 DEF StagesInv
<1>4. RowsInv'
  BY <1>1 DEF RowsInv
<1>5. PatchesInv'
  <2>1. UNCHANGED patches /\ run' = run + 1
    BY DEF Reports!RunMutants, Reports!RunAgain
  <2>2. DOMAIN patches = {} \/ UNCHANGED writable
    BY DEF Reports!RunMutants, Reports!RunAgain, Reports!input, StagesInv
  <2>3. \A f \in DOMAIN patches' : patches'[f].run \in Nat /\ patches'[f].run <= run' /\ patches'[f].run # run'
    BY <2>1 DEF PatchesInv, StagesInv
  <2>4. ~ writable' => DOMAIN patches' = {}
    BY <2>1, <2>2 DEF PatchesInv
  <2>5. ReadableUpTo(patched)' /\ 1 .. patched' = {}
    BY <1>1 DEF ReadableUpTo
  <2> QED
    BY <1>1, <2>3, <2>4, <2>5 DEF PatchesInv
<1>6. DoneInv'
  BY <1>1 DEF DoneInv, Done
<1> QED
  BY <1>2, <1>3, <1>4, <1>5, <1>6

LEMMA ReportersAreASequence ==
  ReportsTypeOK => /\ Len(Reports!Reporters) \in Nat
                   /\ DOMAIN Reports!Reporters = 1 .. Len(Reports!Reporters)
<1> SUFFICES ASSUME ReportsTypeOK
             PROVE  /\ Len(Reports!Reporters) \in Nat
                    /\ DOMAIN Reports!Reporters = 1 .. Len(Reports!Reporters)
  OBVIOUS
<1>1. asked \in Seq(Reports!Kinds) /\ <<"IDE">> \in Seq(Reports!Kinds)
  BY DEF ReportsTypeOK, Reports!Kinds
<1>2. Reports!Reporters \in Seq(Reports!Kinds)
  BY <1>1 DEF Reports!Reporters
<1> QED
  BY <1>2

\* An end between two reporters, and the end of the last of them, leave what was reported.
LEMMA NothingMore ==
  ASSUME ReportsInv, part = "reports", part' = part, Reports!Exit \/ Reports!Kill \/ Reports!EndReports,
         reportPc \in {"reports", "rows"}
  PROVE  ReportsInv'
<1> USE DEF ReportsInv
<1>1. /\ UNCHANGED <<Reports!input, run, status, at, patched, tables, database, rows, patches, report, score>>
      /\ reportPc' = "done" => at > Len(Reports!Reporters)
      /\ reportPc' \in {"exited", "killed", "done"}
      /\ reportPc # "done"
  BY DEF Reports!Exit, Reports!Kill, Reports!EndReports
<1>2. ReportsTypeOK' /\ StagesInv' /\ RowsInv'
  BY <1>1, SameInput DEF ReportsTypeOK, StagesInv, RowsInv
<1>3. PatchesInv'
  BY <1>1, SameInput, SamePatches DEF PatchesInv
<1>4. DoneInv'
  BY <1>1, SameSaid DEF DoneInv
<1> QED
  BY <1>2, <1>3, <1>4

\* What a reporter did is added to what was done.
LEMMA OneMoreDone ==
  ASSUME ReportsInv, UNCHANGED <<Reports!input, run, status>>,
         at' = at + 1, at <= Len(Reports!Reporters)
  PROVE  \A kind : Done(kind)' => Done(kind) \/ kind = Reports!Reporters[at]
<1> SUFFICES ASSUME NEW kind, Done(kind)', ~ Done(kind) PROVE kind = Reports!Reporters[at]
  OBVIOUS
<1>1. PICK k \in 1 .. at' - 1 : k <= Len(Reports!Reporters) /\ Reports!Reporters[k] = kind
  BY SameInput DEF Done
<1>2. at \in Nat \ {0}
  BY DEF ReportsInv, ReportsTypeOK
<1>3. ~ (k \in 1 .. at - 1)
  BY <1>1 DEF Done
<1> QED
  BY <1>1, <1>2, <1>3

\* Where a reporter ends that says what it should, those that are done are all right.
LEMMA ReporterDone ==
  ASSUME ReportsInv, UNCHANGED <<Reports!input, run, status>>,
         NEW kind \in Reports!Kinds, Reports!Working(kind), at' = at + 1,
         \A other \in Written \ {kind} : report'[other] = report[other],
         \A other \in Reports!Kinds \ {kind} : score'[other] = score[other],
         kind # "SQLite" => UNCHANGED database,
         kind # "Patches" => UNCHANGED <<patches, patched>>,
         Says(kind)'
  PROVE  DoneInv'
<1> SUFFICES ASSUME NEW other \in Reports!Kinds, Done(other)'
             PROVE  Says(other)'
  BY DEF DoneInv
<1>1. CASE other = kind
  BY <1>1
<1>2. CASE other # kind
  <2>1. Done(other)
    BY <1>2, OneMoreDone DEF Reports!Working
  <2>2. Says(other)
    BY <2>1 DEF ReportsInv, DoneInv
  <2>3. /\ UNCHANGED <<mutants, status, run, writable, strictMode>>
        /\ Expected(other)' = Expected(other) /\ (Strictly(other)' <=> Strictly(other))
        /\ Whole' = Whole /\ Reports!Score' = Reports!Score
    BY SameInput
  <2>4. /\ other \in Written => report'[other] = report[other]
        /\ score'[other] = score[other]
        /\ other = "SQLite" => database' = database
    BY <1>2
  <2>5. other = "Patches" => patched' = patched /\ (AllPatched' <=> AllPatched)
    BY <1>2, <2>3, SamePatches
  <2> QED
    BY <2>2, <2>3, <2>4, <2>5 DEF Says
<1> QED
  BY <1>1, <1>2

\* The reporters that look at all mutants once.
LEMMA OnePass ==
  ASSUME ReportsInv, part = "reports", part' = part,
         NEW kind \in {"IDE", "Elements", "GithubAnnotations"}, NEW pairs, Reports!Working(kind), Reports!Finished(kind, pairs),
         UNCHANGED <<Reports!input, run, status, patched, tables, database, rows, patches>>,
         \/ UNCHANGED score /\ (mutants = <<>> \/ (kind = "Elements" /\ ~ writable) \/ kind = "GithubAnnotations")
         \/ score' = [score EXCEPT ![kind] = Reports!Score],
         pairs = Expected(kind),
         strictMode => Strictly(kind)
  PROVE  ReportsInv'
<1> USE DEF ReportsInv
<1>1. /\ reportPc = "reports" /\ reportPc' = "reports" /\ at' = at + 1
      /\ at <= Len(Reports!Reporters) /\ Reports!Reporters[at] = kind
      /\ kind \in Reports!Kinds /\ kind \in Written /\ kind \notin {"Patches", "SQLite"}
      /\ at \in Nat \ {0}
      /\ DOMAIN report = Written /\ DOMAIN score = Reports!Kinds
      /\ report' = [report EXCEPT ![kind] = pairs]
  BY DEF Reports!Working, Reports!Finished, Reports!NextReporter, Reports!Kinds, ReportsTypeOK, Written
<1>2. ReportsTypeOK'
  BY <1>1, SameInput DEF ReportsTypeOK
<1>3. patched = 0
  BY <1>1 DEF StagesInv
<1>4. StagesInv'
  BY <1>1, <1>3, SameInput DEF StagesInv
<1>5. RowsInv'
  BY <1>1, SameInput DEF RowsInv
<1>6. PatchesInv'
  BY <1>1, SameInput, SamePatches DEF PatchesInv
<1>7. DoneInv'
  <2>1. Says(kind)'
    BY <1>1, SameInput DEF Says
  <2>2. /\ \A other \in Written \ {kind} : report'[other] = report[other]
        /\ \A other \in Reports!Kinds \ {kind} : score'[other] = score[other]
    BY <1>1
  <2> QED
    BY <1>1, <2>1, <2>2, ReporterDone
<1> QED
  BY <1>2, <1>4, <1>5, <1>6, <1>7

LEMMA IDEStep ==
  ASSUME ReportsInv, part = "reports", part' = part, Reports!ReportIDE
  PROVE  ReportsInv'
<1>1. CASE Reports!Exit
  BY <1>1, NothingMore DEF Reports!ReportIDE, Reports!Working
<1>2. CASE ~ Reports!Exit
  <2>1. Reports!Reported(Reports!Shown) = Expected("IDE")
    BY DEF Reports!Reported, Reports!Shown, Expected, All
  <2>2. strictMode => Strictly("IDE")
    BY <1>2 DEF Reports!ReportIDE, Reports!Warned, Strictly
  <2> QED
    BY <1>2, <2>1, <2>2, OnePass DEF Reports!ReportIDE
<1> QED
  BY <1>1, <1>2

LEMMA AnnotationsStep ==
  ASSUME ReportsInv, part = "reports", part' = part, Reports!ReportGithubAnnotations
  PROVE  ReportsInv'
<1>1. {<<i, Reports!Class(i)>> : i \in {j \in DOMAIN mutants : status[j] = "Passed"}} = Expected("GithubAnnotations")
  BY DEF Reports!Class, Expected, All
<1>2. Strictly("GithubAnnotations")
  BY DEF Strictly
<1> QED
  BY <1>1, <1>2, OnePass DEF Reports!ReportGithubAnnotations

LEMMA ElementsStep ==
  ASSUME ReportsInv, part = "reports", part' = part, Reports!ReportElements
  PROVE  ReportsInv'
<1>1. CASE Reports!Exit
  BY <1>1, NothingMore DEF Reports!ReportElements, Reports!Working
<1>2. CASE ~ Reports!Exit
  <2>1. (IF writable THEN Reports!Reported(DOMAIN mutants) ELSE {}) = Expected("Elements")
    BY DEF Reports!Reported, Expected, All
  <2>2. strictMode => Strictly("Elements")
    <3>1. DOMAIN mutants = 1 .. Len(mutants)
      BY DEF ReportsInv, ReportsTypeOK
    <3> QED
      BY <1>2, <3>1 DEF Reports!ReportElements, Reports!Warned, ReadableUpTo, Strictly
  <2> QED
    BY <1>2, <2>1, <2>2, OnePass DEF Reports!ReportElements
<1> QED
  BY <1>1, <1>2

LEMMA CreateStep ==
  ASSUME ReportsInv, part = "reports", part' = part, Reports!CreateTables
  PROVE  ReportsInv'
<1> USE DEF ReportsInv
<1>1. CASE Reports!Exit
  BY <1>1, NothingMore DEF Reports!CreateTables, Reports!Working
<1>2. CASE ~ Reports!Exit
  <2>1. /\ UNCHANGED <<Reports!input, run, status, at, patched, database, patches, report, score>>
        /\ ~ tables /\ writable /\ tables' = TRUE /\ rows' = {} /\ reportPc = "reports" /\ reportPc' = "rows"
        /\ at <= Len(Reports!Reporters) /\ Reports!Reporters[at] = "SQLite"
    BY <1>2 DEF Reports!CreateTables, Reports!Working
  <2>2. ReportsTypeOK'
    BY <2>1, SameInput DEF ReportsTypeOK
  <2>3. StagesInv'
    BY <2>1, SameInput DEF StagesInv
  <2>4. RowsInv'
    <3>1. IsFiniteSet({}) /\ Cardinality({}) = 0 /\ Len(mutants) \in Nat
      BY FS_EmptySet DEF ReportsTypeOK
    <3> QED
      BY <2>1, <3>1, SameInput DEF RowsInv
  <2>5. PatchesInv'
    BY <2>1, SameInput, SamePatches DEF PatchesInv
  <2>6. DoneInv'
    BY <2>1, SameSaid DEF DoneInv
  <2> QED
    BY <2>2, <2>3, <2>4, <2>5, <2>6
<1> QED
  BY <1>1, <1>2

LEMMA SameCardinality == \A S : Reports!Cardinality(S) = Cardinality(S)
  BY DEF Reports!Cardinality, Cardinality

LEMMA InsertStep ==
  ASSUME ReportsInv, part = "reports", part' = part, Reports!InsertRow
  PROVE  ReportsInv'
<1> USE DEF ReportsInv
<1> DEFINE c == Cardinality(rows)
<1>1. /\ UNCHANGED <<Reports!input, run, status, reportPc, at, patched, tables, database, patches, report, score>>
      /\ reportPc = "rows" /\ c < Len(mutants) /\ rows' = rows \cup {<<c + 1, status[c + 1]>>}
  BY SameCardinality DEF Reports!InsertRow
<1>2. ReportsTypeOK' /\ StagesInv' /\ PatchesInv'
  BY <1>1, SameInput, SamePatches DEF ReportsTypeOK, StagesInv, PatchesInv
<1>3. RowsInv'
  <2>1. c \in Nat /\ IsFiniteSet(rows) /\ rows = {<<i, status[i]>> : i \in 1 .. c}
    BY <1>1, FS_CardinalityType DEF RowsInv
  <2>2. <<c + 1, status[c + 1]>> \notin rows
    BY <2>1
  <2>3. IsFiniteSet(rows') /\ Cardinality(rows') = c + 1
    BY <1>1, <2>1, <2>2, FS_AddElement
  <2>4. 1 .. c + 1 = (1 .. c) \cup {c + 1}
    BY <2>1
  <2>5. rows' = {<<i, status[i]>> : i \in 1 .. c + 1}
    BY <1>1, <2>1, <2>4
  <2>6. c + 1 <= Len(mutants)
    BY <1>1, <2>1 DEF ReportsTypeOK
  <2> QED
    BY <1>1, <2>3, <2>5, <2>6, SameInput DEF RowsInv
<1>4. DoneInv'
  BY <1>1, SameSaid DEF DoneInv
<1> QED
  BY <1>2, <1>3, <1>4

LEMMA TransactionIsWhole ==
  ASSUME ReportsInv, Reports!EndTransaction
  PROVE  database = {} /\ database' = Whole
<1>1. reportPc = "rows" /\ Cardinality(rows) = Len(mutants) /\ database' = rows
  BY SameCardinality DEF Reports!EndTransaction
<1>2. DOMAIN mutants = 1 .. Len(mutants)
  BY DEF ReportsInv, ReportsTypeOK
<1> QED
  BY <1>1, <1>2 DEF ReportsInv, RowsInv, StagesInv, Whole

LEMMA EndTransactionStep ==
  ASSUME ReportsInv, part = "reports", part' = part, Reports!EndTransaction
  PROVE  ReportsInv'
<1> USE DEF ReportsInv
<1>1. /\ UNCHANGED <<Reports!input, run, status, patched, tables, rows, patches, report, score>>
      /\ reportPc = "rows" /\ reportPc' = "reports" /\ at' = at + 1 /\ database' = Whole
      /\ at <= Len(Reports!Reporters) /\ Reports!Reporters[at] = "SQLite" /\ tables /\ writable
  BY TransactionIsWhole DEF Reports!EndTransaction, Reports!NextReporter, StagesInv
<1>2. ReportsTypeOK'
  BY <1>1, SameInput DEF ReportsTypeOK
<1>3. patched = 0
  BY <1>1 DEF StagesInv
<1>4. StagesInv' /\ RowsInv'
  BY <1>1, <1>3, SameInput DEF StagesInv, RowsInv
<1>5. PatchesInv'
  BY <1>1, SameInput, SamePatches DEF PatchesInv
<1>6. DoneInv'
  <2>1. \A kind : Done(kind)' => Done(kind) \/ kind = "SQLite"
    BY <1>1, OneMoreDone
  <2>2. Says("SQLite")'
    BY <1>1, SameInput DEF Says, Strictly, Written
  <2>3. ASSUME NEW kind \in Reports!Kinds \ {"SQLite"} PROVE Says(kind)' <=> Says(kind)
    BY <1>1, SameInput, SamePatches DEF Says
  <2> QED
    BY <1>1, <2>1, <2>2, <2>3 DEF DoneInv
<1> QED
  BY <1>2, <1>4, <1>5, <1>6

\* A patch that is written is of this mutant, and no other name has another one.
LEMMA OnePatchWritten ==
  ASSUME NEW i, patches' = Reports!Written(i)
  PROVE  /\ DOMAIN patches' = DOMAIN patches \cup {Reports!PatchName(i)}
         /\ patches'[Reports!PatchName(i)] = [run |-> run, mutant |-> i]
         /\ \A f \in DOMAIN patches \ {Reports!PatchName(i)} : patches'[f] = patches[f]
  BY DEF Reports!Written

LEMMA WritePatchStep ==
  ASSUME ReportsInv, part = "reports", part' = part, Reports!WritePatch
  PROVE  ReportsInv'
<1> USE DEF ReportsInv
<1> DEFINE i == patched + 1
<1>1. /\ UNCHANGED <<Reports!input, run, status, at, tables, database, rows, report, score>>
      /\ reportPc = "reports" /\ reportPc' \in {"reports", "exited"}
      /\ reportPc' = "reports" => writable \/ ~ strictMode
      /\ at <= Len(Reports!Reporters) /\ Reports!Reporters[at] = "Patches"
      /\ i \in DOMAIN mutants /\ mutants[i].readable /\ patched' = i
      /\ writable => patches' = Reports!Written(i)
      /\ ~ writable => UNCHANGED patches
      /\ patched \in Nat /\ DOMAIN mutants = 1 .. Len(mutants)
  <2>1. patched \in Nat /\ Len(mutants) \in Nat /\ DOMAIN mutants = 1 .. Len(mutants)
    BY DEF ReportsTypeOK
  <2> QED
    BY <2>1 DEF Reports!WritePatch, Reports!Working
<1>2. ReportsTypeOK' /\ RowsInv'
  BY <1>1, SameInput DEF ReportsTypeOK, RowsInv
<1>3. run # 0
  BY <1>1 DEF StagesInv
<1>4. StagesInv'
  BY <1>1, <1>3, SameInput DEF StagesInv
<1>5. ReadableUpTo(i)
  BY <1>1 DEF PatchesInv, ReadableUpTo
<1>6. run \in Nat
  BY DEF StagesInv
<1>7. /\ \A f : ReadableUpTo(f)' <=> ReadableUpTo(f)
      /\ \A j : Reports!PatchName(j)' = Reports!PatchName(j)
      /\ UNCHANGED <<mutants, strictMode, writable, run>>
  BY <1>1, SameInput
<1>8. PatchesInv'
  <2> DEFINE n == Reports!PatchName(i)
  <2>1. CASE writable
    <3>1. /\ DOMAIN patches' = DOMAIN patches \cup {n}
          /\ patches'[n] = [run |-> run, mutant |-> i]
          /\ \A f \in DOMAIN patches \ {n} : patches'[f] = patches[f]
      BY <1>1, <2>1, OnePatchWritten
    <3>2. ASSUME NEW f \in DOMAIN patches'
          PROVE  /\ patches'[f].run \in Nat /\ patches'[f].run <= run'
                 /\ patches'[f].run = run' =>
                      /\ patches'[f].mutant \in DOMAIN mutants' /\ ReadableUpTo(patches'[f].mutant)
                      /\ f = Reports!PatchName(patches'[f].mutant)
      <4>1. CASE f = n
        BY <1>1, <1>5, <1>6, <1>7, <3>1, <4>1
      <4>2. CASE f # n
        <5>1. f \in DOMAIN patches /\ patches'[f] = patches[f]
          BY <3>1, <3>2, <4>2
        <5> QED
          BY <1>7, <5>1 DEF PatchesInv
      <4> QED
        BY <4>1, <4>2
    <3>3. ASSUME NEW j \in 1 .. i PROVE HasPatch(j)'
      <4>1. CASE Reports!PatchName(j) = n
        BY <1>1, <1>7, <3>1, <4>1 DEF HasPatch
      <4>2. CASE Reports!PatchName(j) # n
        <5>1. j \in 1 .. patched
          BY <1>1, <4>2
        <5>2. HasPatch(j)
          BY <1>1, <2>1, <5>1 DEF PatchesInv
        <5> QED
          BY <1>7, <3>1, <4>2, <5>2 DEF HasPatch
      <4> QED
        BY <4>1, <4>2
    <3> QED
      BY <1>1, <1>5, <1>7, <2>1, <3>2, <3>3 DEF PatchesInv
  <2>2. CASE ~ writable
    <3>1. DOMAIN patches' = {}
      BY <1>1, <2>2 DEF PatchesInv
    <3> QED
      BY <1>1, <1>5, <1>7, <2>2, <3>1 DEF PatchesInv
  <2> QED
    BY <2>1, <2>2
<1>9. DoneInv'
  <2>1. \A kind : Done(kind)' <=> Done(kind)
    BY <1>1, SameInput DEF Done
  <2>2. patched' # 0
    BY <1>1
  <2>3. ASSUME NEW kind \in Reports!Kinds, Says(kind) PROVE Says(kind)'
    BY <1>1, <2>2, <2>3, SameInput DEF Says
  <2> QED
    BY <2>1, <2>3 DEF DoneInv
<1> QED
  BY <1>2, <1>4, <1>8, <1>9

LEMMA EndPatchesStep ==
  ASSUME ReportsInv, part = "reports", part' = part, Reports!EndPatches
  PROVE  ReportsInv'
<1> USE DEF ReportsInv
<1>1. /\ UNCHANGED <<Reports!input, run, status, tables, database, rows, patches, report, score>>
      /\ reportPc = "reports" /\ reportPc' \in {"reports", "exited"} /\ patched' = 0
      /\ at <= Len(Reports!Reporters) /\ Reports!Reporters[at] = "Patches"
      /\ patched < Len(mutants) => ~ mutants[patched + 1].readable
      /\ patched \in 0 .. Len(mutants) /\ Len(mutants) \in Nat /\ DOMAIN mutants = 1 .. Len(mutants)
  BY DEF Reports!EndPatches, Reports!Working, Reports!NextReporter, ReportsTypeOK
<1>2. run # 0
  BY <1>1 DEF StagesInv
<1>3. at' \in {at, at + 1} /\ at \in Nat
  BY DEF Reports!EndPatches, Reports!NextReporter, ReportsTypeOK
<1>4. at' = at \/ patched = Len(mutants) \/ ~ strictMode
  BY DEF Reports!EndPatches
<1>5. ReportsTypeOK' /\ StagesInv' /\ RowsInv'
  BY <1>1, <1>2, <1>3, SameInput DEF ReportsTypeOK, StagesInv, RowsInv
<1>6. PatchesInv'
  <2>1. ReadableUpTo(0) /\ 1 .. 0 = {}
    BY DEF ReadableUpTo
  <2>2. UNCHANGED <<mutants, strictMode, writable, run, status>>
    BY <1>1, SameInput
  <2> QED
    BY <1>1, <2>1, <2>2, SamePatches DEF PatchesInv
<1>7. AllPatched
  <2> SUFFICES ASSUME writable, NEW i \in DOMAIN mutants, ReadableUpTo(i) PROVE HasPatch(i)
    BY DEF AllPatched
  <2>1. i <= patched
    BY <1>1 DEF ReadableUpTo
  <2> QED
    BY <1>1, <2>1 DEF PatchesInv
<1>8. AllPatched'
  BY <1>1, <1>7, SameInput, SamePatches
<1>9. DoneInv'
  <2>1. CASE at' = at
    <3>1. \A kind : Done(kind)' <=> Done(kind)
      BY <1>1, <2>1, SameInput DEF Done
    <3>2. ASSUME NEW kind \in Reports!Kinds, Says(kind) PROVE Says(kind)'
      BY <1>1, <1>8, <3>2, SameInput DEF Says
    <3> QED
      BY <3>1, <3>2 DEF DoneInv
  <2>2. CASE at' = at + 1
    <3>1. strictMode => patched = Len(mutants)
      BY <1>3, <1>4, <2>2
    <3>2. strictMode => Strictly("Patches")
      <4> SUFFICES ASSUME strictMode PROVE Strictly("Patches")
        OBVIOUS
      <4>1. ReadableUpTo(Len(mutants))
        BY <1>1, <3>1 DEF PatchesInv
      <4>2. ~ writable => Len(mutants) = 0
        BY <1>1, <3>1 DEF PatchesInv
      <4>3. Len(mutants) = 0 => mutants = <<>>
        BY DEF ReportsTypeOK
      <4> QED
        BY <4>1, <4>2, <4>3 DEF Strictly
    <3>3. Says("Patches")'
      BY <1>1, <1>8, <3>2, SameInput DEF Says, Written
    <3>4. Reports!Working("Patches") /\ "Patches" \in Reports!Kinds
      BY DEF Reports!EndPatches, Reports!Kinds
    <3> QED
      BY <1>1, <2>2, <3>3, <3>4, ReporterDone
  <2> QED
    BY <1>3, <2>1, <2>2
<1> QED
  BY <1>5, <1>6, <1>9

LEMMA ReportsNext == ReportsInv /\ [Next]_vars => ReportsInv'
<1> SUFFICES ASSUME ReportsInv, [Next]_vars PROVE ReportsInv'
  OBVIOUS
<1>1. CASE ReportResults
  <2>1. Reports!Next /\ part = "reports" /\ part' = part
    BY <1>1 DEF ReportResults
  <2>2. CASE Reports!EndReports \/ Reports!Kill
    BY <2>1, <2>2, NothingMore DEF Reports!EndReports, Reports!Kill
  <2> QED
    BY <2>1, <2>2, RunsBegin, IDEStep, AnnotationsStep, ElementsStep, CreateStep, InsertStep, EndTransactionStep,
       WritePatchStep, EndPatchesStep DEF Reports!Next
<1>2. CASE ~ ReportResults
  <2>1. UNCHANGED reportVars /\ (UNCHANGED strictMode \/ part = "configuration")
        /\ (part' = "configuration" => part = "configuration")
    BY <1>2 DEF Next, vars, configVars, ReadConfiguration, EnableModes, SendMessages, EnableGitDiffFilter, ReadGitDiff,
                StartReports, Leave, Diff!Next, Diff!EditFiles, Diff!RunGit, Diff!ParseLine, Diff!EndOfDiff
  <2> QED
    BY <2>1, ReportsStay
<1> QED
  BY <1>1, <1>2

LEMMA ReportsCorrect == Spec => []ReportsInv
  BY ReportsInit, ReportsNext, PTL DEF Spec

\* All that were killed, and no others, make a score of 100.
LEMMA FullScore ==
  ASSUME NEW n \in Nat \ {0}, NEW c \in 0 .. n
  PROVE  (c * 100) \div n = 100 <=> c = n
<1> DEFINE q == (c * 100) \div n
<1>1. q \in Int /\ n * q <= c * 100 /\ c * 100 < n * (q + 1)
  BY Z3
<1>2. q = 100 => c = n
  BY <1>1
<1>3. c = n => q = 100
  <2>1. ASSUME c = n, q > 100 PROVE FALSE
    <3>1. n * q >= n * 101
      BY <1>1, <2>1, Z3
    <3> QED
      BY <1>1, <2>1, <3>1
  <2>2. ASSUME c = n, q < 100 PROVE FALSE
    <3>1. n * (q + 1) <= n * 100
      BY <1>1, <2>2, Z3
    <3> QED
      BY <1>1, <2>2, <3>1
  <2> QED
    BY <1>1, <2>1, <2>2
<1> QED
  BY <1>2, <1>3

\* The smallest number that cannot be read is behind those up to which all can be read.
LEMMA FirstUnreadable ==
  ASSUME ReportsTypeOK, NEW i \in DOMAIN mutants
  PROVE  i < Reports!Min({j \in DOMAIN mutants : ~ mutants[j].readable} \cup {Len(mutants) + 1}) <=> ReadableUpTo(i)
<1> DEFINE T == {j \in DOMAIN mutants : ~ mutants[j].readable} \cup {Len(mutants) + 1}
<1>1. Len(mutants) \in Nat /\ DOMAIN mutants = 1 .. Len(mutants)
  BY DEF ReportsTypeOK
<1>2. T \in SUBSET Nat /\ T # {}
  BY <1>1
<1> HIDE DEF T
<1>3. \E n \in T : \A m \in T : n <= m
  BY <1>2, Smallest
<1>4. Reports!Min(T) \in T /\ \A m \in T : Reports!Min(T) <= m
  BY <1>3 DEF Reports!Min
<1>5. i < Reports!Min(T) <=> \A j \in 1 .. i : j \notin T
  <2>1. PICK min \in Nat : min = Reports!Min(T) /\ min \in T /\ \A m \in T : min <= m
    BY <1>2, <1>4
  <2>2. i < min => \A j \in 1 .. i : j \notin T
    BY <1>1, <2>1
  <2>3. ~ (i < min) => min \in 1 .. i
    <3>1. min > 0
      BY <1>1, <2>1 DEF T
    <3> QED
      BY <1>1, <2>1, <3>1
  <2> QED
    BY <2>1, <2>2, <2>3
<1> QED
  BY <1>1, <1>5 DEF T, ReadableUpTo

\* The last of some mutants is the one that is not before another.
LEMMA LastOfThem ==
  ASSUME NEW S \in SUBSET Nat, NEW i \in S, \A j \in S : i >= j
  PROVE  Reports!Max(S) = i
<1>1. Reports!Max(S) = CHOOSE x \in S : \A y \in S : x >= y
  BY DEF Reports!Max
<1>2. PICK m : m = Reports!Max(S)
  OBVIOUS
<1>3. m \in S /\ \A j \in S : m >= j
  BY <1>1, <1>2
<1> QED
  BY <1>2, <1>3

\* The reporters that were asked for say the same of the same mutants when the program
\* ends, but for the sources that cannot be read, the directory that cannot be written
\* and the patches with one name; these are of the last mutant each.
THEOREM ReportersAgree == Spec => []ReportsAgree
<1>1. ReportsInv => ReportsAgree
  <2> SUFFICES ASSUME ReportsInv, reportPc = "done", run > 0 PROVE Reports!ReportsAgree!2
    BY DEF ReportsAgree, Reports!ReportsAgree
  <2> DEFINE unreadable == {i \in DOMAIN mutants : ~ mutants[i].readable}
             first      == Reports!Min(unreadable \cup {Len(mutants) + 1})
             patchable  == {i \in DOMAIN mutants : writable /\ i < first}
             ofThisRun  == {f \in DOMAIN patches : patches[f].run = run}
  <2>1. Len(mutants) \in Nat /\ DOMAIN mutants = 1 .. Len(mutants) /\ ReportsTypeOK
    BY DEF ReportsInv, ReportsTypeOK
  <2>2. Len(Reports!Reporters) < at /\ at \in Nat /\ Len(Reports!Reporters) \in Nat
    BY <2>1, ReportersAreASequence DEF ReportsInv, ReportsTypeOK, StagesInv
  <2>3. ASSUME NEW kind \in Reports!Kinds, Reports!Asks(kind) PROVE Says(kind)
    <3>1. PICK k \in 1 .. Len(Reports!Reporters) : Reports!Reporters[k] = kind
      BY <2>1, <2>3, ReportersAreASequence DEF Reports!Asks
    <3>2. Done(kind)
      BY <2>2, <3>1 DEF Done
    <3> QED
      BY <2>3, <3>2 DEF ReportsInv, DoneInv
  <2>4. Reports!Asks("SQLite") => writable /\ database = Whole
    BY <2>3 DEF Says, Reports!Kinds
  <2>5. Reports!Asks("Elements") => report["Elements"] = {p \in All : writable /\ p[1] \notin unreadable}
    <3>1. {p \in All : writable /\ p[1] \notin unreadable} = {p \in All : writable /\ mutants[p[1]].readable}
      BY DEF All
    <3> QED
      BY <2>3, <3>1 DEF Says, Expected, Written, Reports!Kinds
  <2>6. ASSUME Reports!Asks("Patches")
        PROVE  [f \in ofThisRun |-> patches[f].mutant]
                 = [f \in {Reports!PatchName(i) : i \in patchable} |->
                      Reports!Max({i \in patchable : Reports!PatchName(i) = f})]
    <3>1. ASSUME NEW i \in DOMAIN mutants PROVE i \in patchable <=> writable /\ ReadableUpTo(i)
      BY <2>1, FirstUnreadable
    <3>2. ~ (at <= Len(Reports!Reporters)) => patched = 0
      BY DEF ReportsInv, StagesInv
    <3>3. AllPatched
      BY <2>2, <2>3, <2>6, <3>2 DEF Says, Reports!Kinds
    <3>4. ASSUME NEW i \in patchable PROVE HasPatch(i)
      BY <3>1, <3>3 DEF AllPatched
    <3>5. ASSUME NEW f \in ofThisRun
          PROVE  patches[f].mutant \in patchable /\ f = Reports!PatchName(patches[f].mutant)
      BY <3>1 DEF ReportsInv, PatchesInv
    <3> HIDE DEF patchable
    <3>6. ofThisRun = {Reports!PatchName(i) : i \in patchable}
      <4>1. ASSUME NEW i \in patchable PROVE Reports!PatchName(i) \in ofThisRun
        BY <3>4 DEF HasPatch
      <4> QED
        BY <3>5, <4>1
    <3>7. ASSUME NEW f \in ofThisRun
          PROVE  patches[f].mutant = Reports!Max({i \in patchable : Reports!PatchName(i) = f})
      <4> DEFINE S == {i \in patchable : Reports!PatchName(i) = f}
      <4>1. patches[f].mutant \in S
        BY <3>5
      <4>2. ASSUME NEW j \in S PROVE patches[f].mutant >= j
        BY <3>4 DEF HasPatch
      <4>3. S \in SUBSET Nat
        BY <2>1 DEF patchable
      <4> HIDE DEF S
      <4>4. Reports!Max(S) = patches[f].mutant
        BY <4>1, <4>2, <4>3, LastOfThem
      <4> QED
        BY <4>4 DEF S
    <3> HIDE DEF ofThisRun
    <3> QED
      BY <3>6, <3>7
  <2>7. Reports!Asks("GithubAnnotations") => report["GithubAnnotations"] = {p \in All : p[2] = "survived"}
    BY <2>3 DEF Says, Expected, Written, Reports!Kinds
  <2>8. Reports!Asks("IDE") => report["IDE"] = {p \in All : p[1] \notin unreadable /\ (showKilled \/ p[2] # "killed")}
    <3>1. {p \in All : p[1] \notin unreadable /\ (showKilled \/ p[2] # "killed")}
          = {p \in All : mutants[p[1]].readable /\ (showKilled \/ p[2] # "killed")}
      BY DEF All
    <3> QED
      BY <2>3, <3>1 DEF Says, Expected, Written, Reports!Kinds
  <2>9. strictMode /\ (Reports!Asks("Elements") \/ Reports!Asks("Patches")) => unreadable = {}
    BY <2>1, <2>3 DEF Says, Strictly, ReadableUpTo, Reports!Kinds
  <2>10. strictMode /\ Reports!Asks("IDE") => Reports!Shown \cap unreadable = {}
    BY <2>3 DEF Says, Strictly, Reports!Kinds
  <2>11. strictMode /\ Reports!Asks("Patches") => writable \/ mutants = <<>>
    BY <2>3 DEF Says, Strictly, Reports!Kinds
  <2>12. ASSUME NEW kind \in {"IDE", "Elements"}, Reports!Asks(kind), mutants # <<>>, kind = "Elements" => writable
        PROVE  score[kind] = 100 <=> Reports!Killed = DOMAIN mutants
    <3>1. score[kind] = (Cardinality(Reports!Killed) * 100) \div Len(mutants)
      BY <2>3, <2>12, SameCardinality DEF Says, Reports!Score, Reports!Kinds
    <3>2. Reports!Killed \in SUBSET DOMAIN mutants /\ IsFiniteSet(DOMAIN mutants) /\ Cardinality(DOMAIN mutants) = Len(mutants)
          /\ Len(mutants) > 0
      <4>1. Len(mutants) > 0
        BY <2>1, <2>12 DEF ReportsTypeOK
      <4>2. IsFiniteSet(1 .. Len(mutants)) /\ Cardinality(1 .. Len(mutants)) = Len(mutants)
        BY <2>1, <4>1, FS_Interval
      <4> QED
        BY <2>1, <4>1, <4>2 DEF Reports!Killed
    <3>3. /\ IsFiniteSet(Reports!Killed) /\ Cardinality(Reports!Killed) <= Len(mutants)
          /\ Cardinality(Reports!Killed) = Len(mutants) <=> Reports!Killed = DOMAIN mutants
      BY <3>2, FS_Subset
    <3>4. Cardinality(Reports!Killed) \in 0 .. Len(mutants)
      BY <2>1, <3>3, FS_CardinalityType
    <3> QED
      BY <2>1, <3>1, <3>2, <3>3, <3>4, FullScore
  <2> QED
    BY <2>4, <2>5, <2>6, <2>7, <2>8, <2>9, <2>10, <2>11, <2>12 DEF All, Whole
<1> QED
  BY <1>1, ReportsCorrect, PTL

\* A database has all mutants of one run or none, wherever the program ends.
THEOREM DatabaseCorrect == Spec => DatabaseIsWhole
<1>1. ReportsInv /\ [Next]_vars =>
        [database' # database => database = {} /\ database' = {<<i, status[i]>> : i \in DOMAIN mutants}]_(Reports!vars)
  <2> SUFFICES ASSUME ReportsInv, [Next]_vars, database' # database PROVE database = {} /\ database' = Whole
    BY DEF Whole
  <2>1. Reports!Next
    BY DEF Next, vars, reportVars, ReadConfiguration, EnableModes, SendMessages, EnableGitDiffFilter, ReadGitDiff,
           StartReports, ReportResults
  <2>2. Reports!EndTransaction
    BY <2>1 DEF Reports!Next, Reports!RunMutants, Reports!ReportIDE, Reports!ReportGithubAnnotations,
                Reports!ReportElements, Reports!CreateTables, Reports!InsertRow, Reports!WritePatch, Reports!EndPatches,
                Reports!EndReports, Reports!Kill, Reports!RunAgain, Reports!Exit
  <2> QED
    BY <2>2, TransactionIsWhole
<1> QED
  BY <1>1, ReportsCorrect, PTL DEF Spec, DatabaseIsWhole, Reports!DatabaseIsWhole

-----------------------------------------------------------------------------
(* The diff: what git prints are the lines of files and hunks, one after   *)
(* the other.                                                              *)

\* The loop of FlattenSeq is a function that is there.
LEMMA FlattenRecursion ==
  ASSUME NEW s, Len(s) \in Nat \ {0}
  PROVE  \E flat : /\ flat = [n \in 1 .. Len(s) |-> IF n = 1 THEN s[n] ELSE flat[n - 1] \o s[n]]
                   /\ Diff!FlattenSeq(s) = flat[Len(s)]
<1> DEFINE Loop(g, m) == g = [n \in 1 .. m |-> IF n = 1 THEN s[n] ELSE g[n - 1] \o s[n]]
           T == {m \in Nat : ~ \E g : Loop(g, m)}
<1>1. T = {}
  <2>1. SUFFICES ASSUME T # {} PROVE FALSE
    OBVIOUS
  <2>2. PICK m \in T : \A l \in T : m <= l
    BY <2>1, Smallest
  <2>3. CASE m = 0
    <3> DEFINE g == [n \in 1 .. 0 |-> <<>>]
    <3>1. Loop(g, 0)
      OBVIOUS
    <3> QED
      BY <2>2, <2>3, <3>1
  <2>4. CASE m # 0
    <3>0. m \in Nat \ {0}
      BY <2>2, <2>4
    <3>1. m - 1 \in Nat /\ m - 1 \notin T
      <4> HIDE DEF T
      <4> QED
        BY <2>2, <3>0
    <3>2. PICK g : Loop(g, m - 1)
      BY <3>1
    <3> DEFINE h == [n \in 1 .. m |-> IF n = m /\ m # 1 THEN g[m - 1] \o s[m] ELSE IF n = m THEN s[n] ELSE g[n]]
    <3>3. ASSUME NEW n \in 1 .. m
          PROVE  h[n] = IF n = 1 THEN s[n] ELSE h[n - 1] \o s[n]
      <4>1. CASE n = m
        <5>1. m # 1 => h[n - 1] = g[m - 1] /\ h[n] = g[m - 1] \o s[m]
          <6>1. SUFFICES ASSUME m # 1 PROVE h[n - 1] = g[m - 1] /\ h[n] = g[m - 1] \o s[m]
            OBVIOUS
          <6>2. n \in 1 .. m /\ n - 1 \in 1 .. m /\ n - 1 # m
            BY <3>0, <4>1, <6>1
          <6>3. h[n] = g[m - 1] \o s[m]
            BY <4>1, <6>1
          <6>4. h[n - 1] = g[n - 1]
            BY <6>2
          <6> QED
            BY <4>1, <6>3, <6>4
        <5>2. m = 1 => h[n] = s[n]
          BY <4>1
        <5> QED
          BY <4>1, <5>1, <5>2
      <4>2. CASE n # m
        <5>1. n \in 1 .. m - 1 /\ h[n] = g[n]
          BY <4>2
        <5>2. g[n] = IF n = 1 THEN s[n] ELSE g[n - 1] \o s[n]
          BY <3>2, <5>1
        <5>3. n # 1 => h[n - 1] = g[n - 1]
          BY <5>1
        <5> QED
          BY <5>1, <5>2, <5>3
      <4> QED
        BY <4>1, <4>2
    <3>4. Loop(h, m)
      <4> HIDE DEF h
      <4>1. h = [n \in 1 .. m |-> h[n]]
        BY DEF h
      <4> QED
        BY <3>3, <4>1
    <3> QED
      BY <2>2, <3>4
  <2> QED
    BY <2>3, <2>4
<1>2. PICK g : Loop(g, Len(s))
  BY <1>1
<1> DEFINE flat == CHOOSE flat : flat = [n \in 1 .. Len(s) |-> IF n = 1 THEN s[n] ELSE flat[n - 1] \o s[n]]
<1>3. flat = [n \in 1 .. Len(s) |-> IF n = 1 THEN s[n] ELSE flat[n - 1] \o s[n]]
  BY <1>2
<1>4. Diff!FlattenSeq(s) = flat[Len(s)]
  BY DEF Diff!FlattenSeq
<1> QED
  BY <1>3, <1>4

\* t is the first n sequences of s, one after the other: its item j is number i[j] of sequence b[j].
Placed(t, s, n, b, i) ==
  /\ b \in [1 .. Len(t) -> 1 .. n] /\ i \in [1 .. Len(t) -> Nat]
  /\ \A j \in 1 .. Len(t) : i[j] \in 1 .. Len(s[b[j]]) /\ t[j] = s[b[j]][i[j]]
  /\ \A m \in 1 .. n : \A k \in 1 .. Len(s[m]) : \E j \in 1 .. Len(t) : b[j] = m /\ i[j] = k
  /\ \A j, l \in 1 .. Len(t) : j < l => b[j] < b[l] \/ (b[j] = b[l] /\ i[j] < i[l])

\* One more sequence.
LEMMA PlaceMore ==
  ASSUME NEW X, NEW s \in Seq(Seq(X)), NEW n \in Nat, n + 1 <= Len(s),
         NEW t \in Seq(X), NEW b, NEW i, Placed(t, s, n, b, i)
  PROVE  t \o s[n + 1] \in Seq(X) /\ \E c, k : Placed(t \o s[n + 1], s, n + 1, c, k)
<1> DEFINE v == s[n + 1]
<1>1. PICK u : u = t \o v
  OBVIOUS
<1>2. v \in Seq(X) /\ Len(v) \in Nat /\ Len(t) \in Nat
  OBVIOUS
<1>3. /\ u \in Seq(X) /\ Len(u) = Len(t) + Len(v)
      /\ \A j \in 1 .. Len(t) : u[j] = t[j]
      /\ \A j \in 1 .. Len(v) : u[Len(t) + j] = v[j]
  BY <1>1, <1>2
<1>4. PICK c : c = [j \in 1 .. Len(u) |-> IF j <= Len(t) THEN b[j] ELSE n + 1]
  OBVIOUS
<1>5. PICK k : k = [j \in 1 .. Len(u) |-> IF j <= Len(t) THEN i[j] ELSE j - Len(t)]
  OBVIOUS
<1> HIDE DEF v
<1>6. \A j \in 1 .. Len(u) : j \in 1 .. Len(t) \/ (j > Len(t) /\ j - Len(t) \in 1 .. Len(v) /\ u[j] = v[j - Len(t)])
  <2> TAKE j \in 1 .. Len(u)
  <2> SUFFICES ASSUME j > Len(t) PROVE j - Len(t) \in 1 .. Len(v) /\ u[j] = v[j - Len(t)]
    BY <1>2, <1>3
  <2>1. j - Len(t) \in 1 .. Len(v) /\ Len(t) + (j - Len(t)) = j
    BY <1>2, <1>3
  <2> QED
    BY <1>3, <2>1
<1>7. \A j \in 1 .. Len(t) : j \in 1 .. Len(u) /\ c[j] = b[j] /\ k[j] = i[j] /\ b[j] \in 1 .. n /\ i[j] \in Nat
  BY <1>2, <1>3, <1>4, <1>5 DEF Placed
<1>8. \A j \in 1 .. Len(u) : j > Len(t) => c[j] = n + 1 /\ k[j] = j - Len(t)
  BY <1>2, <1>4, <1>5
<1>9. c \in [1 .. Len(u) -> 1 .. n + 1] /\ k \in [1 .. Len(u) -> Nat]
  <2>1. ASSUME NEW j \in 1 .. Len(u)
        PROVE  c[j] \in 1 .. n + 1 /\ k[j] \in Nat
    <3>1. CASE j \in 1 .. Len(t)
      <4>1. b[j] \in 1 .. n /\ c[j] = b[j] /\ k[j] \in Nat
        BY <1>7, <3>1
      <4> QED
        BY <4>1
    <3>2. CASE j > Len(t) /\ j - Len(t) \in 1 .. Len(v)
      BY <1>2, <1>8, <3>2
    <3> QED
      BY <1>6, <3>1, <3>2
  <2> QED
    BY <1>4, <1>5, <2>1
<1>10. ASSUME NEW j \in 1 .. Len(u)
       PROVE  k[j] \in 1 .. Len(s[c[j]]) /\ u[j] = s[c[j]][k[j]]
  <2>1. CASE j \in 1 .. Len(t)
    BY <1>3, <1>7, <2>1 DEF Placed
  <2>2. CASE j > Len(t)
    <3>1. j - Len(t) \in 1 .. Len(v) /\ u[j] = v[j - Len(t)]
      <4>1. j \notin 1 .. Len(t)
        BY <1>2, <2>2
      <4> QED
        BY <1>6, <4>1
    <3>2. c[j] = n + 1 /\ k[j] = j - Len(t)
      BY <1>8, <2>2
    <3> QED
      BY <3>1, <3>2 DEF v
  <2> QED
    BY <1>6, <2>1, <2>2
<1>11. ASSUME NEW m \in 1 .. n + 1, NEW l \in 1 .. Len(s[m])
       PROVE  \E j \in 1 .. Len(u) : c[j] = m /\ k[j] = l
  <2>1. CASE m \in 1 .. n
    <3>1. PICK j \in 1 .. Len(t) : b[j] = m /\ i[j] = l
      BY <2>1 DEF Placed
    <3> QED
      BY <1>7, <3>1
  <2>2. CASE m = n + 1
    <3>1. l \in 1 .. Len(v)
      BY <2>2 DEF v
    <3>2. Len(t) + l \in 1 .. Len(u) /\ Len(t) + l > Len(t) /\ (Len(t) + l) - Len(t) = l
      BY <1>2, <1>3, <3>1
    <3> QED
      BY <1>8, <2>2, <3>2
  <2> QED
    BY <2>1, <2>2
<1>12. ASSUME NEW j \in 1 .. Len(u), NEW l \in 1 .. Len(u), j < l
       PROVE  c[j] < c[l] \/ (c[j] = c[l] /\ k[j] < k[l])
  <2>1. CASE l \in 1 .. Len(t)
    <3>1. j \in 1 .. Len(t)
      BY <1>2, <1>12, <2>1
    <3> QED
      BY <1>7, <1>12, <2>1, <3>1 DEF Placed
  <2>2. CASE l > Len(t) /\ j \in 1 .. Len(t)
    <3>1. b[j] \in 1 .. n /\ c[j] = b[j] /\ c[l] = n + 1
      BY <1>7, <1>8, <2>2
    <3> QED
      BY <3>1
  <2>3. CASE l > Len(t) /\ j > Len(t)
    BY <1>2, <1>8, <1>12, <2>3
  <2> QED
    BY <1>6, <2>1, <2>2, <2>3
<1>13. Placed(u, s, n + 1, c, k)
  BY <1>9, <1>10, <1>11, <1>12 DEF Placed
<1> QED
  BY <1>1, <1>3, <1>13 DEF v

\* What FlattenSeq makes of sequences.
LEMMA FlattenPlaces ==
  ASSUME NEW X, NEW s \in Seq(Seq(X))
  PROVE  /\ Diff!FlattenSeq(s) \in Seq(X)
         /\ \E b, i : Placed(Diff!FlattenSeq(s), s, Len(s), b, i)
<1>1. Len(s) \in Nat
  OBVIOUS
<1>2. CASE Len(s) = 0
  <2>1. Diff!FlattenSeq(s) = <<>>
    BY <1>2 DEF Diff!FlattenSeq
  <2>2. Placed(<<>>, s, 0, [j \in 1 .. 0 |-> 1], [j \in 1 .. 0 |-> 1])
    BY DEF Placed
  <2> QED
    BY <1>2, <2>1, <2>2
<1>3. CASE Len(s) # 0
  <2>1. PICK flat : /\ flat = [n \in 1 .. Len(s) |-> IF n = 1 THEN s[n] ELSE flat[n - 1] \o s[n]]
                    /\ Diff!FlattenSeq(s) = flat[Len(s)]
    BY <1>1, <1>3, FlattenRecursion
  <2>2. flat[1] = s[1] /\ \A n \in 2 .. Len(s) : flat[n] = flat[n - 1] \o s[n]
    <3>1. ASSUME NEW n \in 1 .. Len(s)
          PROVE  flat[n] = IF n = 1 THEN s[n] ELSE flat[n - 1] \o s[n]
      BY <2>1
    <3>2. 1 \in 1 .. Len(s) /\ \A n \in 2 .. Len(s) : n \in 1 .. Len(s) /\ n # 1
      BY <1>1, <1>3
    <3> QED
      BY <3>1, <3>2
  <2> DEFINE Good(n) == flat[n] \in Seq(X) /\ \E b, i : Placed(flat[n], s, n, b, i)
             T == {n \in 1 .. Len(s) : ~ Good(n)}
  <2> HIDE DEF Good
  <2>3. T = {}
    <3>1. SUFFICES ASSUME T # {} PROVE FALSE
      OBVIOUS
    <3>2. PICK n \in T : \A m \in T : n <= m
      <4>1. T \in SUBSET Nat
        OBVIOUS
      <4> HIDE DEF T
      <4> QED
        BY <3>1, <4>1, Smallest
    <3>3. CASE n = 1
      <4>1. Placed(<<>>, s, 0, [j \in 1 .. 0 |-> 1], [j \in 1 .. 0 |-> 1])
        BY DEF Placed
      <4>2. <<>> \o s[1] = s[1] /\ <<>> \in Seq(X) /\ s[1] \in Seq(X)
        BY <1>1, <1>3
      <4>3. 0 \in Nat /\ 0 + 1 = 1 /\ 0 + 1 <= Len(s)
        BY <1>1, <1>3
      <4>4. \E c, k : Placed(<<>> \o s[0 + 1], s, 0 + 1, c, k)
        BY <4>1, <4>2, <4>3, PlaceMore
      <4>5. Good(1)
        BY <2>2, <4>2, <4>3, <4>4 DEF Good
      <4> QED
        BY <3>2, <3>3, <4>5
    <3>4. CASE n # 1
      <4>1. n \in 2 .. Len(s) /\ n - 1 \in Nat /\ n - 1 \in 1 .. Len(s) /\ (n - 1) + 1 = n
        BY <3>2, <3>4
      <4>2. Good(n - 1)
        BY <3>2, <4>1
      <4>3. PICK b, i : Placed(flat[n - 1], s, n - 1, b, i)
        BY <4>2 DEF Good
      <4>4. flat[n - 1] \o s[(n - 1) + 1] \in Seq(X) /\ \E c, k : Placed(flat[n - 1] \o s[(n - 1) + 1], s, (n - 1) + 1, c, k)
        BY <4>1, <4>2, <4>3, PlaceMore DEF Good
      <4>5. Good(n)
        BY <2>2, <4>1, <4>4 DEF Good
      <4> QED
        BY <3>2, <4>5
    <3> QED
      BY <3>3, <3>4
  <2>4. Good(Len(s))
    BY <1>1, <1>3, <2>3
  <2> QED
    BY <2>1, <2>4 DEF Good
<1> QED
  BY <1>2, <1>3

-----------------------------------------------------------------------------
(* What git prints. *)

Line ==
  {Diff!Other} \cup {Diff!Header(f) : f \in Diff!Files}
    \cup {line \in {Diff!RangeLine(s, c, counted) : s \in Nat, c \in Nat, counted \in BOOLEAN} :
            Diff!LineCount(line) = line.count}

\* the line is a range that the reader keeps
IsRange(line) == line.kind = "range" /\ Diff!LineCount(line) > 0

\* it is the range of the new lines of h
IsRangeOf(line, h) == IsRange(line) /\ line.start = h.start /\ Diff!LineCount(line) = h.count

LEMMA LineKinds ==
  /\ Diff!Other \in Line
  /\ \A f \in Diff!Files : Diff!Header(f) \in Line
  /\ \A s, c \in Nat, counted \in BOOLEAN : counted \/ c = 1 => Diff!RangeLine(s, c, counted) \in Line
<1>1. Diff!Other \in Line
  BY SMT DEF Line
<1>2. \A f \in Diff!Files : Diff!Header(f) \in Line
  BY SMT DEF Line
<1>3. ASSUME NEW s \in Nat, NEW c \in Nat, NEW counted \in BOOLEAN, counted \/ c = 1
      PROVE  Diff!RangeLine(s, c, counted) \in Line
  <2>1. Diff!LineCount(Diff!RangeLine(s, c, counted)) = Diff!RangeLine(s, c, counted).count
    BY <1>3 DEF Diff!LineCount, Diff!RangeLine
  <2> QED
    BY <2>1, SMT DEF Line
<1> QED
  BY <1>1, <1>2, <1>3

LEMMA RangeType ==
  ASSUME NEW line \in Line, line.kind = "range"
  PROVE  line.start \in Nat /\ line.count \in Nat /\ Diff!LineCount(line) = line.count
<1>1. line # Diff!Other /\ \A f \in Diff!Files : line # Diff!Header(f)
  BY DEF Diff!Other, Diff!Header
<1>2. /\ line \in {Diff!RangeLine(s, c, counted) : s \in Nat, c \in Nat, counted \in BOOLEAN}
      /\ Diff!LineCount(line) = line.count
  BY <1>1 DEF Line
<1>3. line.start \in Nat /\ line.count \in Nat
  BY <1>2 DEF Diff!RangeLine
<1> QED
  BY <1>2, <1>3

ChangeType ==
  /\ change \in [Diff!Files -> [deleted : BOOLEAN, hunks : Seq(Diff!Hunk)]]
  /\ \A f \in Diff!Files : change[f].deleted => change[f].hunks = <<>>

LEMMA HunkType ==
  ASSUME NEW h \in Diff!Hunk
  PROVE  h.start \in Nat /\ h.count \in Nat /\ h.lookalike \in 0 .. NFiles
BY FilesAssumption, NumbersAssumption DEF Diff!Hunk

\* t are the lines of file f: they begin with its header, if the reader sees it, and
\* their ranges are those of its hunks.
FileLines(t, f) ==
  /\ Diff!Plain => \A i \in 2 .. Len(t) : t[i].kind # "file"
  /\ \A i \in 1 .. Len(t) : IsRange(t[i]) =>
       i > 1 /\ t[1] = Diff!Header(f) /\ \E k \in DOMAIN change[f].hunks : IsRangeOf(t[i], change[f].hunks[k])
  /\ \A k \in DOMAIN change[f].hunks : change[f].hunks[k].count > 0 =>
       \E i \in 1 .. Len(t) : IsRangeOf(t[i], change[f].hunks[k])

LEMMA HunkLines ==
  ASSUME NEW h \in Diff!Hunk
  PROVE  /\ Diff!HunkText(h) \in Seq(Line) /\ Len(Diff!HunkText(h)) = 2
         /\ h.count > 0 => IsRangeOf(Diff!HunkText(h)[1], h)
         /\ Diff!HunkText(h)[1].kind # "file"
         /\ \A i \in 1 .. 2 : IsRange(Diff!HunkText(h)[i]) => IsRangeOf(Diff!HunkText(h)[i], h)
         /\ h.lookalike = 0 => Diff!HunkText(h)[2].kind # "file"
<1>1. h.start \in Nat /\ h.count \in Nat /\ h.lookalike \in 0 .. NFiles
  BY HunkType
<1>2. PICK r : r = Diff!RangeLine(h.start, h.count, h.count # 1)
  OBVIOUS
<1>3. PICK s : s = IF h.lookalike = 0 THEN Diff!Other ELSE Diff!Header(h.lookalike)
  OBVIOUS
<1>4. Diff!HunkText(h) = <<r>> \o <<s>>
  BY <1>2, <1>3, Zenon DEF Diff!HunkText
<1>5. r \in Line /\ s \in Line
  <2>1. r \in Line
    <3>1. h.count = 1 \/ h.count # 1
      OBVIOUS
    <3>2. CASE h.count = 1
      <4>1. r = Diff!RangeLine(h.start, 1, FALSE)
        BY <1>2, <3>2
      <4> QED
        BY <1>1, <3>2, <4>1, LineKinds
    <3>3. CASE h.count # 1
      <4>1. r = Diff!RangeLine(h.start, h.count, TRUE)
        BY <1>2, <3>3
      <4> QED
        BY <1>1, <4>1, LineKinds
    <3> QED
      BY <3>2, <3>3
  <2>2. h.lookalike # 0 => h.lookalike \in Diff!Files
    BY <1>1, FilesAssumption DEF Diff!Files
  <2> QED
    BY <1>3, <2>1, <2>2, LineKinds, Zenon
<1>6. PICK t : t = <<r>> \o <<s>>
  OBVIOUS
<1>7. r.kind = "range" /\ r.start = h.start /\ Diff!LineCount(r) = h.count
  BY <1>1, <1>2 DEF Diff!RangeLine, Diff!LineCount
<1>8. s.kind # "range" /\ (h.lookalike = 0 => s.kind # "file")
  BY <1>3 DEF Diff!Other, Diff!Header
<1>9. /\ Diff!HunkText(h) \in Seq(Line) /\ Len(Diff!HunkText(h)) = 2
      /\ Diff!HunkText(h)[1] = r /\ Diff!HunkText(h)[2] = s
  <2>1. t \in Seq(Line) /\ Len(t) = 2 /\ t[1] = r /\ t[2] = s
    BY <1>5, <1>6
  <2> QED
    BY <1>4, <1>6, <2>1
<1>10. \A i \in 1 .. 2 : i = 1 \/ i = 2
  OBVIOUS
<1> QED
  BY <1>1, <1>7, <1>8, <1>9, <1>10 DEF IsRangeOf, IsRange

LEMMA LinesOfFile ==
  ASSUME ChangeType, NEW f \in Diff!Files
  PROVE  Diff!FileText(f) \in Seq(Line) /\ FileLines(Diff!FileText(f), f)
<1>1. CASE change[f].deleted
  <2>1. Diff!FileText(f) = <<Diff!Other, Diff!RangeLine(0, 0, TRUE)>> /\ change[f].hunks = <<>>
    BY <1>1 DEF Diff!FileText, ChangeType
  <2>2. Diff!Other \in Line /\ Diff!RangeLine(0, 0, TRUE) \in Line
    BY LineKinds
  <2>3. /\ Diff!Other.kind # "range" /\ Diff!Other.kind # "file"
        /\ Diff!RangeLine(0, 0, TRUE).kind # "file" /\ Diff!LineCount(Diff!RangeLine(0, 0, TRUE)) = 0
    BY DEF Diff!Other, Diff!RangeLine, Diff!LineCount
  <2>4. PICK o, r : o = Diff!Other /\ r = Diff!RangeLine(0, 0, TRUE)
    OBVIOUS
  <2>5. Diff!FileText(f) = <<o, r>> /\ o \in Line /\ r \in Line
    BY <2>1, <2>2, <2>4, Zenon
  <2>6. ~ IsRange(o) /\ ~ IsRange(r) /\ r.kind # "file"
    <3>1. o.kind # "range" /\ r.kind # "file" /\ Diff!LineCount(r) = 0
      BY <2>3, <2>4, Zenon
    <3> QED
      BY <3>1 DEF IsRange
  <2> QED
    <3>1. PICK t : t = <<o, r>>
      OBVIOUS
    <3>2. /\ t \in Seq(Line) /\ Len(t) = 2 /\ t[1] = o /\ t[2] = r
          /\ \A i \in 1 .. 2 : i = 1 \/ i = 2
      BY <2>5, <3>1
    <3>3. FileLines(t, f)
      BY <2>1, <2>6, <3>2 DEF FileLines
    <3> QED
      BY <2>5, <3>1, <3>2, <3>3
<1>2. CASE ~ change[f].deleted /\ change[f].hunks = <<>>
  <2>1. Diff!FileText(f) = <<>>
    BY <1>2 DEF Diff!FileText
  <2> QED
    BY <1>2, <2>1 DEF FileLines
<1>3. CASE ~ change[f].deleted /\ change[f].hunks # <<>>
  <2>1. PICK hs : hs = change[f].hunks
    OBVIOUS
  <2>2. hs \in Seq(Diff!Hunk) /\ Len(hs) \in Nat
    BY <2>1 DEF ChangeType
  <2>3. PICK parts : parts = [k \in DOMAIN hs |-> Diff!HunkText(hs[k])]
    OBVIOUS
  <2>4. /\ parts \in Seq(Seq(Line)) /\ Len(parts) = Len(hs)
        /\ \A k \in 1 .. Len(hs) : hs[k] \in Diff!Hunk /\ parts[k] = Diff!HunkText(hs[k])
    <3>1. DOMAIN hs = 1 .. Len(hs) /\ \A k \in 1 .. Len(hs) : hs[k] \in Diff!Hunk
      BY <2>2
    <3>2. \A k \in 1 .. Len(hs) : parts[k] = Diff!HunkText(hs[k]) /\ parts[k] \in Seq(Line)
      BY <2>3, <3>1, HunkLines
    <3>3. parts = [k \in 1 .. Len(hs) |-> parts[k]]
      BY <2>3, <3>1
    <3> QED
      BY <2>2, <3>1, <3>2, <3>3
  <2>5. PICK t : t = Diff!FlattenSeq(parts)
    OBVIOUS
  <2>6. t \in Seq(Line) /\ \E b, i : Placed(t, parts, Len(hs), b, i)
    BY <2>4, <2>5, FlattenPlaces
  <2>7. PICK b, i : Placed(t, parts, Len(hs), b, i)
    BY <2>6
  <2>8. PICK u : u = Diff!FileText(f)
    OBVIOUS
  <2>9. u = <<Diff!Header(f)>> \o t
    BY <1>3, <2>1, <2>3, <2>5, <2>8 DEF Diff!FileText
  <2>10. PICK head : head = Diff!Header(f)
    OBVIOUS
  <2>11. head \in Line /\ head.kind = "file"
    <3>1. head \in Line
      BY <2>10, LineKinds
    <3> QED
      BY <2>10, <3>1 DEF Diff!Header
  <2>12. /\ u \in Seq(Line) /\ Len(t) \in Nat /\ Len(u) = Len(t) + 1 /\ u[1] = head
         /\ \A j \in 1 .. Len(t) : u[j + 1] = t[j]
    BY <2>6, <2>9, <2>10, <2>11
  <2>13. \A j \in 2 .. Len(u) : j - 1 \in 1 .. Len(t) /\ u[j] = t[j - 1]
    <3> TAKE j \in 2 .. Len(u)
    <3>1. j - 1 \in 1 .. Len(t) /\ (j - 1) + 1 = j
      BY <2>12
    <3> QED
      BY <2>12, <3>1
  <2>14. \A j \in 1 .. Len(t) : /\ b[j] \in 1 .. Len(hs) /\ hs[b[j]] \in Diff!Hunk /\ i[j] \in 1 .. 2
                                /\ t[j] = Diff!HunkText(hs[b[j]])[i[j]]
    <3> TAKE j \in 1 .. Len(t)
    <3>1. b[j] \in 1 .. Len(hs) /\ i[j] \in 1 .. Len(parts[b[j]]) /\ t[j] = parts[b[j]][i[j]]
      BY <2>7 DEF Placed
    <3>2. hs[b[j]] \in Diff!Hunk /\ parts[b[j]] = Diff!HunkText(hs[b[j]])
      BY <2>4, <3>1
    <3> QED
      BY <3>1, <3>2, HunkLines
  <2>15. ASSUME Diff!Plain, NEW j \in 2 .. Len(u)
         PROVE  u[j].kind # "file"
    <3>1. j - 1 \in 1 .. Len(t) /\ u[j] = t[j - 1]
      BY <2>13
    <3>2. PICK h \in Diff!Hunk : h = hs[b[j - 1]]
      BY <2>14, <3>1
    <3>3. h.lookalike = 0
      <4>1. b[j - 1] \in DOMAIN change[f].hunks
        BY <2>1, <2>2, <2>14, <3>1
      <4> QED
        BY <2>1, <2>15, <3>2, <4>1 DEF Diff!Plain
    <3>4. i[j - 1] \in 1 .. 2 /\ u[j] = Diff!HunkText(h)[i[j - 1]]
      BY <2>14, <3>1, <3>2
    <3>5. i[j - 1] = 1 \/ i[j - 1] = 2
      BY <3>4
    <3> QED
      BY <3>3, <3>4, <3>5, HunkLines
  <2>16. ASSUME NEW j \in 1 .. Len(u), IsRange(u[j])
         PROVE  j > 1 /\ u[1] = Diff!Header(f) /\ \E k \in DOMAIN change[f].hunks : IsRangeOf(u[j], change[f].hunks[k])
    <3>1. j # 1
      BY <2>11, <2>12, <2>16 DEF IsRange
    <3>2. j \in 2 .. Len(u)
      BY <2>12, <3>1
    <3>3. j - 1 \in 1 .. Len(t) /\ u[j] = t[j - 1]
      BY <2>13, <3>2
    <3>4. PICK k \in 1 .. Len(hs) : k = b[j - 1]
      BY <2>14, <3>3
    <3>5. PICK h \in Diff!Hunk : h = hs[k]
      BY <2>14, <3>3, <3>4
    <3>6. i[j - 1] \in 1 .. 2 /\ u[j] = Diff!HunkText(h)[i[j - 1]]
      BY <2>14, <3>3, <3>4, <3>5
    <3>7. IsRangeOf(u[j], h)
      BY <2>16, <3>6, HunkLines
    <3>8. k \in DOMAIN change[f].hunks
      BY <2>1, <2>2
    <3> QED
      BY <2>1, <2>10, <2>12, <3>2, <3>5, <3>7, <3>8
  <2>17. ASSUME NEW k \in DOMAIN change[f].hunks, change[f].hunks[k].count > 0
         PROVE  \E j \in 1 .. Len(u) : IsRangeOf(u[j], change[f].hunks[k])
    <3>1. k \in 1 .. Len(hs)
      BY <2>1, <2>2
    <3>2. PICK h \in Diff!Hunk : h = hs[k]
      BY <2>4, <3>1
    <3>3. IsRangeOf(Diff!HunkText(h)[1], h) /\ Len(Diff!HunkText(h)) = 2
      BY <2>1, <2>17, <3>2, HunkLines
    <3>4. 1 \in 1 .. Len(parts[k])
      BY <2>4, <3>1, <3>2, <3>3
    <3>5. PICK j \in 1 .. Len(t) : b[j] = k /\ i[j] = 1
      BY <2>7, <3>1, <3>4 DEF Placed
    <3>6. t[j] = Diff!HunkText(h)[1]
      BY <2>14, <3>2, <3>5
    <3>7. j + 1 \in 1 .. Len(u) /\ u[j + 1] = t[j]
      BY <2>12
    <3> QED
      BY <2>1, <3>2, <3>3, <3>6, <3>7
  <2> QED
    BY <2>8, <2>12, <2>15, <2>16, <2>17 DEF FileLines
<1> QED
  BY <1>1, <1>2, <1>3

\* f is the file of the last header among the first n lines of t, 0 if there is none.
CurrentAt(t, n, f) ==
  \E j \in 0 .. n : /\ \A l \in j + 1 .. n : t[l].kind # "file"
                    /\ IF j = 0 THEN f = 0 ELSE t[j].kind = "file" /\ t[j].file = f

LEMMA OneCurrent ==
  ASSUME NEW t, NEW n \in Nat, NEW f, NEW g, CurrentAt(t, n, f), CurrentAt(t, n, g)
  PROVE  f = g
<1>1. PICK j \in 0 .. n : /\ \A l \in j + 1 .. n : t[l].kind # "file"
                          /\ IF j = 0 THEN f = 0 ELSE t[j].kind = "file" /\ t[j].file = f
  BY DEF CurrentAt
<1>2. PICK k \in 0 .. n : /\ \A l \in k + 1 .. n : t[l].kind # "file"
                          /\ IF k = 0 THEN g = 0 ELSE t[k].kind = "file" /\ t[k].file = g
  BY DEF CurrentAt
<1>3. ~ (j < k) /\ ~ (k < j)
  <2>1. j < k => k \in j + 1 .. n /\ k # 0
    OBVIOUS
  <2>2. k < j => j \in k + 1 .. n /\ j # 0
    OBVIOUS
  <2> QED
    BY <1>1, <1>2, <2>1, <2>2
<1>4. j = k
  BY <1>3
<1> QED
  BY <1>1, <1>2, <1>4

\* In the text of a change, a range that is kept is that of a hunk of the file that is current there.
RangesAreHunks(t) ==
  /\ \A j \in 1 .. Len(t) : IsRange(t[j]) =>
       \E f \in Diff!Files : CurrentAt(t, j, f) /\ \E k \in DOMAIN change[f].hunks : IsRangeOf(t[j], change[f].hunks[k])
  /\ \A f \in Diff!Files : \A k \in DOMAIN change[f].hunks : change[f].hunks[k].count > 0 =>
       \E j \in 1 .. Len(t) : CurrentAt(t, j, f) /\ IsRangeOf(t[j], change[f].hunks[k])

LEMMA TextOfChange ==
  ASSUME ChangeType
  PROVE  Diff!Text \in Seq(Line) /\ (Diff!Plain => RangesAreHunks(Diff!Text))
<1>1. PICK parts : parts = [f \in Diff!Files |-> Diff!FileText(f)]
  OBVIOUS
<1>2. /\ parts \in Seq(Seq(Line)) /\ Len(parts) = NFiles
      /\ \A f \in Diff!Files : parts[f] \in Seq(Line) /\ FileLines(parts[f], f)
  <2>1. \A f \in Diff!Files : parts[f] \in Seq(Line) /\ FileLines(parts[f], f)
    BY <1>1, LinesOfFile
  <2>2. parts = [f \in 1 .. NFiles |-> parts[f]] /\ NFiles \in Nat
    BY <1>1, FilesAssumption DEF Diff!Files
  <2>3. \A f \in 1 .. NFiles : parts[f] \in Seq(Line)
    BY <2>1 DEF Diff!Files
  <2> QED
    BY <2>1, <2>2, <2>3
<1>3. PICK t : t = Diff!Text
  OBVIOUS
<1>4. t \in Seq(Line) /\ \E b, i : Placed(t, parts, NFiles, b, i)
  <2>1. t = Diff!FlattenSeq(parts)
    BY <1>1, <1>3 DEF Diff!Text
  <2> QED
    BY <1>2, <2>1, FlattenPlaces
<1>5. PICK b, i : Placed(t, parts, NFiles, b, i)
  BY <1>4
<1>6. \A j \in 1 .. Len(t) : b[j] \in Diff!Files /\ i[j] \in 1 .. Len(parts[b[j]]) /\ t[j] = parts[b[j]][i[j]]
  BY <1>5 DEF Placed, Diff!Files
<1>7. Len(t) \in Nat
  BY <1>4
<1>8. SUFFICES ASSUME Diff!Plain PROVE RangesAreHunks(t)
  BY <1>3, <1>4
<1>9. ASSUME NEW j \in 1 .. Len(t), IsRange(t[j])
      PROVE  CurrentAt(t, j, b[j]) /\ \E k \in DOMAIN change[b[j]].hunks : IsRangeOf(t[j], change[b[j]].hunks[k])
  <2>1. PICK f \in Diff!Files : f = b[j]
    BY <1>6
  <2>2. i[j] \in 1 .. Len(parts[f]) /\ t[j] = parts[f][i[j]] /\ Len(parts[f]) \in Nat
    BY <1>2, <1>6, <2>1
  <2>3. /\ i[j] > 1 /\ parts[f][1] = Diff!Header(f)
        /\ \E k \in DOMAIN change[f].hunks : IsRangeOf(t[j], change[f].hunks[k])
    BY <1>2, <1>9, <2>2 DEF FileLines
  <2>4. 1 \in 1 .. Len(parts[f]) /\ f \in 1 .. NFiles
    BY <2>2, <2>3 DEF Diff!Files
  <2>5. PICK p \in 1 .. Len(t) : b[p] = f /\ i[p] = 1
    BY <1>5, <2>4 DEF Placed
  <2>6. p < j
    <3>1. p # j
      BY <2>3, <2>5
    <3>2. ~ (j < p)
      <4>1. ~ (b[j] < b[p]) /\ ~ (i[j] < i[p])
        BY <2>1, <2>2, <2>3, <2>4, <2>5
      <4> QED
        BY <1>5, <4>1 DEF Placed
    <3> QED
      BY <1>7, <3>1, <3>2
  <2>7. ASSUME NEW l \in p + 1 .. j
        PROVE  t[l].kind # "file"
    <3>1. l \in 1 .. Len(t) /\ p < l /\ (l < j \/ l = j)
      BY <1>7
    <3>2. b[l] \in 1 .. NFiles /\ i[l] \in 1 .. Len(parts[b[l]]) /\ t[l] = parts[b[l]][i[l]]
      BY <1>6, <3>1 DEF Diff!Files
    <3>3. f < b[l] \/ (b[l] = f /\ 1 < i[l])
      BY <1>5, <2>5, <3>1 DEF Placed
    <3>4. l # j => b[l] < f \/ b[l] = f
      BY <1>5, <2>1, <3>1 DEF Placed
    <3>5. b[l] = f /\ 1 < i[l]
      BY <2>1, <2>4, <3>2, <3>3, <3>4
    <3>6. i[l] \in 2 .. Len(parts[f])
      BY <2>2, <3>2, <3>5
    <3> QED
      BY <1>2, <1>8, <3>2, <3>5, <3>6 DEF FileLines
  <2>8. t[p].kind = "file" /\ t[p].file = f
    BY <1>6, <2>3, <2>5 DEF Diff!Header
  <2>9. p \in 0 .. j /\ p # 0
    BY <1>7, <2>6
  <2>10. CurrentAt(t, j, f)
    BY <2>7, <2>8, <2>9 DEF CurrentAt
  <2> QED
    BY <2>1, <2>3, <2>10
<1>10. ASSUME NEW f \in Diff!Files, NEW k \in DOMAIN change[f].hunks, change[f].hunks[k].count > 0
       PROVE  \E j \in 1 .. Len(t) : CurrentAt(t, j, f) /\ IsRangeOf(t[j], change[f].hunks[k])
  <2>1. PICK l \in 1 .. Len(parts[f]) : IsRangeOf(parts[f][l], change[f].hunks[k])
    BY <1>2, <1>10 DEF FileLines
  <2>2. PICK j \in 1 .. Len(t) : b[j] = f /\ i[j] = l
    BY <1>5, <2>1 DEF Placed, Diff!Files
  <2>3. IsRangeOf(t[j], change[f].hunks[k])
    BY <1>6, <2>1, <2>2
  <2>4. CurrentAt(t, j, f)
    BY <1>9, <2>2, <2>3 DEF IsRangeOf
  <2> QED
    BY <2>3, <2>4
<1> QED
  BY <1>6, <1>9, <1>10 DEF RangesAreHunks

-----------------------------------------------------------------------------
(* What the parser makes of it. *)

RangeIn(line) == [first |-> line.start, second |-> Diff!LineCount(line)]

\* r is a range of f among the first n lines of t.
RangeBefore(t, n, f, r) == \E j \in 1 .. n : IsRange(t[j]) /\ CurrentAt(t, j, f) /\ r = RangeIn(t[j])

\* The parser has read the first n lines of t.
HasRead(t, n) ==
  /\ CurrentAt(t, n, current)
  /\ gitDiffInfo \in [Diff!Files -> Seq([first : Nat, second : Nat])]
  /\ \A f \in Diff!Files : \A r :
       (\E k \in DOMAIN gitDiffInfo[f] : gitDiffInfo[f][k] = r) <=> RangeBefore(t, n, f, r)

\* t is what git printed.
Printed(t) ==
  \/ git = "complete" /\ t = Diff!Text
  \/ /\ git = "late"
     /\ Len(t) \in 1 .. Len(Diff!Text)
     /\ \A j \in 1 .. Len(t) - 1 : t[j] = Diff!Text[j]
     /\ t[Len(t)] \in Diff!Cut(Diff!Text[Len(t)])

\* What there is left to read after n lines of t.
RestOf(t, n) ==
  /\ todo \in Seq(Line) /\ Len(todo) = Len(t) - n
  /\ \A j \in 1 .. Len(todo) : todo[j] = t[n + j]

DiffInv ==
  /\ ChangeType
  /\ gitPc = "git" => current = 0 /\ gitDiffInfo = [f \in Diff!Files |-> <<>>]
  /\ gitPc = "parse" => \E t \in Seq(Line) : Printed(t) /\ \E n \in 0 .. Len(t) : RestOf(t, n) /\ HasRead(t, n)
  /\ gitPc = "done" /\ git # "failed" => \E t \in Seq(Line) : Printed(t) /\ HasRead(t, Len(t))

LEMMA CutType ==
  ASSUME NEW line \in Line
  PROVE  Diff!Cut(line) \subseteq Line
<1>1. CASE line.kind # "range"
  <2>1. Diff!Cut(line) = {Diff!Other}
    BY <1>1 DEF Diff!Cut
  <2> QED
    BY <2>1, LineKinds
<1>2. CASE line.kind = "range"
  <2>1. line.start \in Nat /\ line.count \in Nat
    BY <1>2, RangeType
  <2>2. \A n \in Nat : Diff!Beginnings(n) \subseteq Nat
    BY DEF Diff!Beginnings
  <2>3. ASSUME NEW c \in Diff!Cut(line)
        PROVE  c \in Line
    <3>1. \/ c = Diff!Other
          \/ \E s \in Diff!Beginnings(line.start) : c = Diff!RangeLine(s, 1, FALSE)
          \/ \E d \in Diff!Beginnings(line.count) : c = Diff!RangeLine(line.start, d, TRUE)
      BY <1>2, <2>3, Zenon DEF Diff!Cut
    <3> QED
      BY <2>1, <2>2, <3>1, LineKinds
  <2> QED
    BY <2>3
<1> QED
  BY <1>1, <1>2

LEMMA TextStays ==
  ASSUME change' = change, NEW t
  PROVE  /\ Diff!Text' = Diff!Text /\ ChangeType' = ChangeType
         /\ git' = git => Printed(t)' = Printed(t)
<1>1. Diff!Text' = Diff!Text
  BY DEF Diff!Text, Diff!FileText, Diff!Files
<1>2. ChangeType' = ChangeType
  BY DEF ChangeType, Diff!Files, Diff!Hunk
<1>3. ASSUME git' = git PROVE Printed(t)' = Printed(t)
  BY <1>1, <1>3 DEF Printed, Diff!Cut
<1> QED
  BY <1>1, <1>2, <1>3

\* One turn of the loop reads one line.
LEMMA ReadLine ==
  ASSUME NEW t \in Seq(Line), NEW n \in 0 .. Len(t), RestOf(t, n), HasRead(t, n), Diff!ParseLine
  PROVE  n + 1 \in 0 .. Len(t) /\ RestOf(t, n + 1)' /\ HasRead(t, n + 1)'
<1>1. PICK line : line = Head(todo)
  OBVIOUS
<1>2. todo \in Seq(Line) /\ todo # <<>> /\ Len(todo) = Len(t) - n /\ Len(t) \in Nat /\ n \in Nat
  BY DEF RestOf, Diff!ParseLine
<1>3. Len(todo) \in Nat \ {0}
  BY <1>2
<1>4. n + 1 \in 1 .. Len(t) /\ line = t[n + 1] /\ line \in Line
  <2>1. line = todo[1] /\ 1 \in 1 .. Len(todo)
    BY <1>1, <1>2, <1>3
  <2> QED
    BY <1>2, <1>3, <2>1 DEF RestOf
<1>5. RestOf(t, n + 1)'
  <2>1. PICK rest : rest = Tail(todo)
    OBVIOUS
  <2>2. /\ rest \in Seq(Line) /\ Len(rest) = Len(todo) - 1
        /\ \A j \in 1 .. Len(rest) : rest[j] = todo[j + 1]
    BY <1>2, <1>3, <2>1
  <2>3. \A j \in 1 .. Len(rest) : j + 1 \in 1 .. Len(todo) /\ n + (j + 1) = (n + 1) + j
    BY <1>2, <1>3, <2>2
  <2>4. todo' = rest
    BY <2>1 DEF Diff!ParseLine
  <2>5. \A j \in 1 .. Len(rest) : rest[j] = t[(n + 1) + j]
    BY <2>2, <2>3 DEF RestOf
  <2>6. Len(rest) = Len(t) - (n + 1)
    BY <1>2, <2>2
  <2> QED
    BY <2>2, <2>4, <2>5, <2>6 DEF RestOf
<1>6. \/ line.kind = "file" /\ current' = line.file /\ gitDiffInfo' = gitDiffInfo
      \/ /\ line.kind = "range" /\ IsRange(line) /\ current' = current
         /\ gitDiffInfo' = [gitDiffInfo EXCEPT ![current] = Append(@, RangeIn(line))]
      \/ line.kind # "file" /\ ~ IsRange(line) /\ current' = current /\ gitDiffInfo' = gitDiffInfo
  <2>1. Diff!LineCount(line) = 0 => ~ (Diff!LineCount(line) > 0)
    OBVIOUS
  <2> QED
    BY <1>1, <2>1 DEF Diff!ParseLine, IsRange, RangeIn
<1>7. line.kind # "file" => \A f : CurrentAt(t, n, f) => CurrentAt(t, n + 1, f)
  <2>1. SUFFICES ASSUME line.kind # "file", NEW f, CurrentAt(t, n, f)
                 PROVE  CurrentAt(t, n + 1, f)
    OBVIOUS
  <2>2. PICK j \in 0 .. n : /\ \A l \in j + 1 .. n : t[l].kind # "file"
                            /\ IF j = 0 THEN f = 0 ELSE t[j].kind = "file" /\ t[j].file = f
    BY <2>1 DEF CurrentAt
  <2>3. \A l \in j + 1 .. n + 1 : l \in j + 1 .. n \/ l = n + 1
    BY <1>2
  <2>4. \A l \in j + 1 .. n + 1 : t[l].kind # "file"
    BY <1>4, <2>1, <2>2, <2>3
  <2>5. j \in 0 .. n + 1
    BY <1>2
  <2> QED
    BY <2>2, <2>4, <2>5 DEF CurrentAt
<1>8. CurrentAt(t, n + 1, current')
  <2>1. CASE line.kind = "file"
    <3>1. current' = t[n + 1].file /\ t[n + 1].kind = "file"
      BY <1>4, <1>6, <2>1 DEF IsRange
    <3>2. n + 1 \in 0 .. n + 1 /\ n + 1 # 0 /\ \A l \in (n + 1) + 1 .. n + 1 : FALSE
      BY <1>2
    <3> QED
      BY <3>1, <3>2 DEF CurrentAt
  <2>2. CASE line.kind # "file"
    BY <1>6, <1>7, <2>2 DEF HasRead
  <2> QED
    BY <2>1, <2>2
<1>9. \A f, r : RangeBefore(t, n + 1, f, r) <=>
                  RangeBefore(t, n, f, r) \/ (IsRange(line) /\ CurrentAt(t, n + 1, f) /\ r = RangeIn(line))
  <2>1. \A j \in 1 .. n : j \in 1 .. n + 1
    BY <1>2
  <2>2. \A j \in 1 .. n + 1 : j \in 1 .. n \/ j = n + 1
    BY <1>2
  <2>3. n + 1 \in 1 .. n + 1
    BY <1>2
  <2> QED
    BY <1>4, <2>1, <2>2, <2>3 DEF RangeBefore
<1>10. CASE ~ IsRange(line)
  BY <1>4, <1>5, <1>6, <1>8, <1>9, <1>10 DEF HasRead
<1>11. CASE IsRange(line)
  <2>1. current' = current /\ gitDiffInfo' = [gitDiffInfo EXCEPT ![current] = Append(@, RangeIn(line))]
    BY <1>6, <1>11 DEF IsRange
  <2>2. RangeIn(line) \in [first : Nat, second : Nat]
    BY <1>4, <1>11, RangeType DEF IsRange, RangeIn
  <2>3. gitDiffInfo \in [Diff!Files -> Seq([first : Nat, second : Nat])]
    BY DEF HasRead
  <2>4. gitDiffInfo' \in [Diff!Files -> Seq([first : Nat, second : Nat])]
    <3>1. PICK R : R = [first : Nat, second : Nat]
      OBVIOUS
    <3>2. PICK x \in R : x = RangeIn(line)
      BY <2>2, <3>1
    <3>3. gitDiffInfo \in [Diff!Files -> Seq(R)]
      BY <2>3, <3>1, Zenon
    <3>4. gitDiffInfo' = [gitDiffInfo EXCEPT ![current] = Append(gitDiffInfo[current], x)]
      BY <2>1, <3>2
    <3>5. current \in Diff!Files => Append(gitDiffInfo[current], x) \in Seq(R)
      BY <3>3
    <3>6. gitDiffInfo' \in [Diff!Files -> Seq(R)]
      BY <3>3, <3>4, <3>5
    <3> QED
      BY <3>1, <3>6, Zenon
  <2>5. ASSUME NEW f \in Diff!Files, NEW r
        PROVE  (\E k \in DOMAIN gitDiffInfo'[f] : gitDiffInfo'[f][k] = r) <=> RangeBefore(t, n + 1, f, r)
    <3>1. CurrentAt(t, n + 1, f) <=> f = current
      BY <1>2, <1>8, <2>1, OneCurrent
    <3>2. (\E k \in DOMAIN gitDiffInfo[f] : gitDiffInfo[f][k] = r) <=> RangeBefore(t, n, f, r)
      BY DEF HasRead
    <3>3. CASE f # current
      <4>1. gitDiffInfo'[f] = gitDiffInfo[f]
        BY <2>1, <2>3, <3>3
      <4> QED
        BY <1>9, <3>1, <3>2, <3>3, <4>1
    <3>4. CASE f = current
      <4>1. PICK s : s = gitDiffInfo[f]
        OBVIOUS
      <4>2. s \in Seq([first : Nat, second : Nat]) /\ Len(s) \in Nat
        BY <2>3, <4>1
      <4>3. PICK u : u = Append(s, RangeIn(line))
        OBVIOUS
      <4>4. gitDiffInfo'[f] = u
        BY <2>1, <2>3, <3>4, <4>1, <4>3
      <4>5. /\ DOMAIN u = 1 .. Len(s) + 1 /\ DOMAIN s = 1 .. Len(s)
            /\ u[Len(s) + 1] = RangeIn(line)
            /\ \A k \in 1 .. Len(s) : u[k] = s[k]
        BY <2>2, <4>2, <4>3
      <4>6. \A k \in 1 .. Len(s) + 1 : k \in 1 .. Len(s) \/ k = Len(s) + 1
        BY <4>2
      <4>7. Len(s) + 1 \in 1 .. Len(s) + 1 /\ \A k \in 1 .. Len(s) : k \in 1 .. Len(s) + 1
        BY <4>2
      <4>8. (\E k \in DOMAIN u : u[k] = r) <=> (\E k \in DOMAIN s : s[k] = r) \/ r = RangeIn(line)
        BY <4>5, <4>6, <4>7
      <4> QED
        BY <1>9, <1>11, <3>1, <3>2, <3>4, <4>1, <4>4, <4>8
    <3> QED
      BY <3>3, <3>4
  <2>6. HasRead(t, n + 1)'
    BY <1>8, <2>4, <2>5 DEF HasRead, Diff!Files
  <2> QED
    BY <1>4, <1>5, <2>6
<1> QED
  BY <1>10, <1>11

LEMMA DiffInitially == Init => DiffInv
<1> SUFFICES ASSUME Init PROVE DiffInv
  OBVIOUS
<1>1. /\ gitPc = "git" /\ current = 0 /\ gitDiffInfo = [f \in Diff!Files |-> <<>>]
      /\ change = [f \in Diff!Files |-> [deleted |-> FALSE, hunks |-> <<>>]]
  BY DEF Init, Diff!Init, Diff!Unchanged
<1>2. <<>> \in Seq(Diff!Hunk)
  OBVIOUS
<1>3. ChangeType
  BY <1>1, <1>2 DEF ChangeType
<1> QED
  BY <1>1, <1>3 DEF DiffInv

LEMMA EditsKeepType ==
  ASSUME Diff!EditFiles
  PROVE  ChangeType'
<1>1. change' \in [Diff!Files -> Diff!FileChange]
  BY DEF Diff!EditFiles
<1>2. ASSUME NEW c \in Diff!FileChange
      PROVE  c \in [deleted : BOOLEAN, hunks : Seq(Diff!Hunk)] /\ (c.deleted => c.hunks = <<>>)
  <2>1. c \in [deleted : BOOLEAN, hunks : Diff!BoundedSeq(Diff!Hunk, MaxHunks)] /\ (c.deleted => c.hunks = <<>>)
    BY DEF Diff!FileChange
  <2>2. PICK n \in 0 .. MaxHunks : c.hunks \in [1 .. n -> Diff!Hunk]
    BY <2>1 DEF Diff!BoundedSeq, Diff!SeqOf
  <2>3. c.hunks \in Seq(Diff!Hunk)
    BY <2>2, FilesAssumption
  <2> QED
    BY <2>1, <2>3
<1>3. change' \in [Diff!Files -> [deleted : BOOLEAN, hunks : Seq(Diff!Hunk)]]
  BY <1>1, <1>2
<1>4. \A f \in Diff!Files : change'[f].deleted => change'[f].hunks = <<>>
  BY <1>1, <1>2
<1> QED
  BY <1>3, <1>4 DEF ChangeType, Diff!Files, Diff!Hunk

\* What the parser is given is what git printed, whole or cut.
LEMMA RunPrints ==
  ASSUME ChangeType, Diff!RunGit, gitPc' = "parse"
  PROVE  \E t \in Seq(Line) : todo' = t /\ Printed(t)' /\ git' # "failed"
<1>1. PICK s : s = Diff!Text
  OBVIOUS
<1>2. s \in Seq(Line) /\ Len(s) \in Nat
  BY <1>1, TextOfChange
<1>3. change' = change
  BY DEF Diff!RunGit
<1>4. Diff!Text' = s
  BY <1>1, <1>3, TextStays
<1>5. \/ git' = "complete" /\ todo' = s
      \/ git' = "late" /\ \E k \in 1 .. Len(s) : \E line \in Diff!Cut(s[k]) : todo' = Append(SubSeq(s, 1, k - 1), line)
  BY <1>1 DEF Diff!RunGit
<1>6. CASE git' = "complete" /\ todo' = s
  BY <1>2, <1>4, <1>6 DEF Printed
<1>7. CASE git' = "late" /\ \E k \in 1 .. Len(s) : \E line \in Diff!Cut(s[k]) : todo' = Append(SubSeq(s, 1, k - 1), line)
  <2>1. PICK k \in 1 .. Len(s) : \E line \in Diff!Cut(s[k]) : todo' = Append(SubSeq(s, 1, k - 1), line)
    BY <1>7
  <2>2. PICK line \in Diff!Cut(s[k]) : todo' = Append(SubSeq(s, 1, k - 1), line)
    BY <2>1
  <2>3. s[k] \in Line
    BY <1>2
  <2>4. line \in Line
    BY <2>2, <2>3, CutType
  <2>5. PICK r : r = SubSeq(s, 1, k - 1)
    OBVIOUS
  <2>6. r \in Seq(Line) /\ Len(r) = k - 1 /\ \A j \in 1 .. k - 1 : r[j] = s[j]
    BY <1>2, <2>5
  <2>7. PICK t : t = Append(r, line)
    OBVIOUS
  <2>8. t \in Seq(Line) /\ Len(t) = k /\ t[k] = line /\ \A j \in 1 .. k - 1 : t[j] = s[j]
    BY <1>2, <2>4, <2>6, <2>7
  <2>9. Printed(t)'
    BY <1>4, <1>7, <2>2, <2>8 DEF Printed, Diff!Cut
  <2> QED
    BY <1>7, <2>2, <2>5, <2>7, <2>8, <2>9
<1> QED
  BY <1>5, <1>6, <1>7

LEMMA DiffStep == DiffInv /\ [Next]_vars => DiffInv'
<1> SUFFICES ASSUME DiffInv, [Next]_vars PROVE DiffInv'
  OBVIOUS
<1>1. CASE UNCHANGED diffVars
  <2>1. /\ change' = change /\ git' = git /\ gitPc' = gitPc /\ todo' = todo /\ current' = current
        /\ gitDiffInfo' = gitDiffInfo
    BY <1>1 DEF diffVars
  <2>2. ChangeType' = ChangeType /\ \A t : Printed(t)' = Printed(t)
    BY <2>1, TextStays
  <2>3. \A t, n : RestOf(t, n)' = RestOf(t, n) /\ HasRead(t, n)' = HasRead(t, n)
    BY <2>1 DEF RestOf, HasRead, Diff!Files
  <2> QED
    BY <2>1, <2>2, <2>3 DEF DiffInv, Diff!Files
<1>2. CASE Diff!EditFiles
  <2>1. ChangeType' /\ gitPc' = gitPc /\ current' = current /\ gitDiffInfo' = gitDiffInfo /\ gitPc = "git"
    BY <1>2, EditsKeepType DEF Diff!EditFiles
  <2> QED
    BY <2>1 DEF DiffInv, Diff!Files
<1>3. CASE Diff!RunGit
  <2>1. gitPc = "git" /\ change' = change /\ current' = current /\ gitDiffInfo' = gitDiffInfo
    BY <1>3 DEF Diff!RunGit
  <2>2. ChangeType'
    BY <2>1, TextStays DEF DiffInv
  <2>3. CASE gitPc' = "parse"
    <3>1. PICK t \in Seq(Line) : todo' = t /\ Printed(t)'
      BY <1>3, <2>3, RunPrints DEF DiffInv
    <3>2. 0 \in 0 .. Len(t) /\ Len(t) \in Nat /\ \A j \in 1 .. Len(t) : 0 + j = j
      BY <3>1
    <3>3. RestOf(t, 0)'
      BY <3>1, <3>2 DEF RestOf
    <3>4. current' = 0 /\ gitDiffInfo' = [f \in Diff!Files |-> <<>>]
      BY <2>1 DEF DiffInv
    <3>5. CurrentAt(t, 0, 0)
      BY DEF CurrentAt
    <3>6. \A f, r : ~ RangeBefore(t, 0, f, r)
      BY DEF RangeBefore
    <3>7. HasRead(t, 0)'
      BY <3>4, <3>5, <3>6 DEF HasRead, Diff!Files
    <3> QED
      BY <2>2, <2>3, <3>1, <3>2, <3>3, <3>7 DEF DiffInv
  <2>4. CASE gitPc' # "parse"
    <3>1. git' = "failed" /\ gitPc' # "git"
      BY <1>3, <2>4 DEF Diff!RunGit
    <3> QED
      BY <2>2, <2>4, <3>1 DEF DiffInv
  <2> QED
    BY <2>3, <2>4
<1>4. CASE Diff!ParseLine
  <2>1. gitPc = "parse" /\ gitPc' = "parse" /\ git' = git /\ change' = change
    BY <1>4 DEF Diff!ParseLine
  <2>2. PICK t \in Seq(Line) : Printed(t) /\ \E n \in 0 .. Len(t) : RestOf(t, n) /\ HasRead(t, n)
    BY <2>1 DEF DiffInv
  <2>3. PICK n \in 0 .. Len(t) : RestOf(t, n) /\ HasRead(t, n)
    BY <2>2
  <2>4. n + 1 \in 0 .. Len(t) /\ RestOf(t, n + 1)' /\ HasRead(t, n + 1)'
    BY <1>4, <2>3, ReadLine
  <2>5. ChangeType' /\ Printed(t)'
    BY <2>1, <2>2, TextStays DEF DiffInv
  <2> QED
    BY <2>1, <2>4, <2>5 DEF DiffInv
<1>5. CASE Diff!EndOfDiff
  <2>1. /\ gitPc = "parse" /\ gitPc' = "done" /\ todo = <<>> /\ git' = git /\ change' = change
        /\ current' = current /\ gitDiffInfo' = gitDiffInfo
    BY <1>5 DEF Diff!EndOfDiff
  <2>2. PICK t \in Seq(Line) : Printed(t) /\ \E n \in 0 .. Len(t) : RestOf(t, n) /\ HasRead(t, n)
    BY <2>1 DEF DiffInv
  <2>3. PICK n \in 0 .. Len(t) : RestOf(t, n) /\ HasRead(t, n)
    BY <2>2
  <2>4. n = Len(t)
    BY <2>1, <2>3 DEF RestOf
  <2>5. ChangeType' /\ Printed(t)'
    BY <2>1, <2>2, TextStays DEF DiffInv
  <2>6. HasRead(t, Len(t))'
    BY <2>1, <2>3, <2>4 DEF HasRead, Diff!Files
  <2> QED
    BY <2>1, <2>5, <2>6 DEF DiffInv
<1>6. Diff!Next => Diff!EditFiles \/ Diff!RunGit \/ Diff!ParseLine \/ Diff!EndOfDiff
  BY DEF Diff!Next
<1> QED
  BY <1>1, <1>2, <1>3, <1>4, <1>5, <1>6
     DEF Next, vars, ReadConfiguration, EnableModes, SendMessages, EnableGitDiffFilter, ReadGitDiff, StartReports,
         ReportResults

-----------------------------------------------------------------------------
(* The lines the filter admits. *)

\* f's line l is in the range of a line of t that the reader kept for f.
InRange(t, f, l) ==
  \E j \in 1 .. Len(t) : /\ IsRange(t[j]) /\ CurrentAt(t, j, f)
                         /\ t[j].start <= l /\ l < t[j].start + Diff!LineCount(t[j])

LEMMA AdmittedLines ==
  ASSUME NEW t \in Seq(Line), HasRead(t, Len(t)), NEW f \in Diff!Files, NEW l \in Lines
  PROVE  l \in Diff!Admitted(f) <=> InRange(t, f, l)
<1>1. \A n \in Nat, c \in Nat : l <= n + c - 1 <=> l < n + c
  BY NumbersAssumption
<1>2. \A j \in 1 .. Len(t) : IsRange(t[j]) => t[j].start \in Nat /\ Diff!LineCount(t[j]) \in Nat
  <2> TAKE j \in 1 .. Len(t)
  <2>1. t[j] \in Line
    OBVIOUS
  <2> QED
    BY <2>1, RangeType DEF IsRange
<1>3. l \in Diff!Admitted(f) <=>
        \E k \in DOMAIN gitDiffInfo[f] :
          gitDiffInfo[f][k].first <= l /\ l <= gitDiffInfo[f][k].first + gitDiffInfo[f][k].second - 1
  BY DEF Diff!Admitted, Diff!ShouldSkip
<1>4. \A r : (\E k \in DOMAIN gitDiffInfo[f] : gitDiffInfo[f][k] = r) <=> RangeBefore(t, Len(t), f, r)
  BY DEF HasRead
<1>5. ASSUME l \in Diff!Admitted(f)
      PROVE  InRange(t, f, l)
  <2>1. PICK k \in DOMAIN gitDiffInfo[f] :
               gitDiffInfo[f][k].first <= l /\ l <= gitDiffInfo[f][k].first + gitDiffInfo[f][k].second - 1
    BY <1>3, <1>5
  <2>2. RangeBefore(t, Len(t), f, gitDiffInfo[f][k])
    BY <1>4
  <2>3. PICK j \in 1 .. Len(t) : IsRange(t[j]) /\ CurrentAt(t, j, f) /\ gitDiffInfo[f][k] = RangeIn(t[j])
    BY <2>2 DEF RangeBefore
  <2>4. t[j].start <= l /\ l <= t[j].start + Diff!LineCount(t[j]) - 1
    BY <2>1, <2>3 DEF RangeIn
  <2> QED
    BY <1>1, <1>2, <2>3, <2>4 DEF InRange
<1>6. ASSUME InRange(t, f, l)
      PROVE  l \in Diff!Admitted(f)
  <2>1. PICK j \in 1 .. Len(t) : /\ IsRange(t[j]) /\ CurrentAt(t, j, f)
                                 /\ t[j].start <= l /\ l < t[j].start + Diff!LineCount(t[j])
    BY <1>6 DEF InRange
  <2>2. RangeBefore(t, Len(t), f, RangeIn(t[j]))
    BY <2>1 DEF RangeBefore
  <2>3. PICK k \in DOMAIN gitDiffInfo[f] : gitDiffInfo[f][k] = RangeIn(t[j])
    BY <1>4, <2>2
  <2>4. l <= t[j].start + Diff!LineCount(t[j]) - 1
    BY <1>1, <1>2, <2>1
  <2> QED
    BY <1>3, <2>1, <2>3, <2>4 DEF RangeIn
<1> QED
  BY <1>5, <1>6

\* A range of the text of a change has changed lines only, and every changed line is in one.
LEMMA RangesAreChanged ==
  ASSUME ChangeType, Diff!Plain, NEW f \in Diff!Files, NEW l \in Lines
  PROVE  l \in Diff!Changed(f) <=> InRange(Diff!Text, f, l)
<1>1. PICK s : s = Diff!Text
  OBVIOUS
<1>2. s \in Seq(Line) /\ RangesAreHunks(s)
  BY <1>1, TextOfChange
<1>3. l \in Diff!Changed(f) <=>
        \E k \in DOMAIN change[f].hunks :
          change[f].hunks[k].start <= l /\ l < change[f].hunks[k].start + change[f].hunks[k].count
  BY DEF Diff!Changed
<1>4. \A k \in DOMAIN change[f].hunks : change[f].hunks[k].start \in Nat /\ change[f].hunks[k].count \in Nat
  BY HunkType DEF ChangeType
<1>5. ASSUME l \in Diff!Changed(f)
      PROVE  InRange(s, f, l)
  <2>1. PICK k \in DOMAIN change[f].hunks :
               change[f].hunks[k].start <= l /\ l < change[f].hunks[k].start + change[f].hunks[k].count
    BY <1>3, <1>5
  <2>2. change[f].hunks[k].count > 0
    BY <1>4, <2>1, NumbersAssumption
  <2>3. PICK j \in 1 .. Len(s) : CurrentAt(s, j, f) /\ IsRangeOf(s[j], change[f].hunks[k])
    BY <1>2, <2>2 DEF RangesAreHunks
  <2> QED
    BY <2>1, <2>3 DEF InRange, IsRangeOf
<1>6. ASSUME InRange(s, f, l)
      PROVE  l \in Diff!Changed(f)
  <2>1. PICK j \in 1 .. Len(s) : /\ IsRange(s[j]) /\ CurrentAt(s, j, f)
                                 /\ s[j].start <= l /\ l < s[j].start + Diff!LineCount(s[j])
    BY <1>6 DEF InRange
  <2>2. PICK g \in Diff!Files : /\ CurrentAt(s, j, g)
                                /\ \E k \in DOMAIN change[g].hunks : IsRangeOf(s[j], change[g].hunks[k])
    BY <1>2, <2>1 DEF RangesAreHunks
  <2>3. j \in Nat
    BY <1>2
  <2>4. g = f
    BY <2>1, <2>2, <2>3, OneCurrent
  <2> QED
    BY <1>3, <2>1, <2>2, <2>4 DEF IsRangeOf
<1> QED
  BY <1>1, <1>5, <1>6

\* Of a text that was cut, the last line at most leaves a range with a line that was not changed,
\* and that range has one line.
LEMMA CutRanges ==
  ASSUME ChangeType, Diff!Plain, NEW t \in Seq(Line), git = "late", Printed(t)
  PROVE  \E g, m : \A f \in Diff!Files, l \in Lines : InRange(t, f, l) /\ l \notin Diff!Changed(f) => f = g /\ l = m
<1>1. PICK s : s = Diff!Text
  OBVIOUS
<1>2. s \in Seq(Line) /\ RangesAreHunks(s) /\ Len(s) \in Nat
  BY <1>1, TextOfChange
<1>3. PICK n \in 1 .. Len(s) : n = Len(t)
  BY <1>1 DEF Printed
<1>4. (\A j \in 1 .. n - 1 : t[j] = s[j]) /\ t[n] \in Diff!Cut(s[n]) /\ s[n] \in Line /\ n \in Nat
  BY <1>1, <1>2, <1>3 DEF Printed
<1>5. IsRange(t[n]) =>
        /\ t[n].start \in Nat /\ s[n].kind = "range" /\ s[n].start \in Nat
        /\ \/ Diff!LineCount(t[n]) = 1
           \/ t[n].start = s[n].start /\ Diff!LineCount(t[n]) <= Diff!LineCount(s[n])
        /\ Diff!LineCount(t[n]) \in Nat /\ Diff!LineCount(s[n]) \in Nat
  <2>1. SUFFICES ASSUME IsRange(t[n])
                 PROVE  /\ t[n].start \in Nat /\ s[n].kind = "range" /\ s[n].start \in Nat
                        /\ \/ Diff!LineCount(t[n]) = 1
                           \/ t[n].start = s[n].start /\ Diff!LineCount(t[n]) <= Diff!LineCount(s[n])
                        /\ Diff!LineCount(t[n]) \in Nat /\ Diff!LineCount(s[n]) \in Nat
    OBVIOUS
  <2>2. t[n] # Diff!Other
    BY <2>1 DEF IsRange, Diff!Other
  <2>3. s[n].kind = "range"
    BY <1>4, <2>2 DEF Diff!Cut
  <2>4. s[n].start \in Nat /\ s[n].count \in Nat /\ Diff!LineCount(s[n]) = s[n].count
    BY <1>4, <2>3, RangeType
  <2>5. t[n].start \in Nat /\ Diff!LineCount(t[n]) \in Nat
    <3>1. t[n] \in Line
      BY <1>4, CutType
    <3> QED
      BY <2>1, <3>1, RangeType DEF IsRange
  <2>6. \/ \E a \in Diff!Beginnings(s[n].start) : t[n] = Diff!RangeLine(a, 1, FALSE)
        \/ \E d \in Diff!Beginnings(s[n].count) : t[n] = Diff!RangeLine(s[n].start, d, TRUE)
    BY <1>4, <2>2, <2>3, Zenon DEF Diff!Cut
  <2>7. CASE \E a \in Diff!Beginnings(s[n].start) : t[n] = Diff!RangeLine(a, 1, FALSE)
    <3>1. Diff!LineCount(t[n]) = 1
      BY <2>7 DEF Diff!RangeLine, Diff!LineCount
    <3> QED
      BY <2>3, <2>4, <2>5, <3>1
  <2>8. CASE \E d \in Diff!Beginnings(s[n].count) : t[n] = Diff!RangeLine(s[n].start, d, TRUE)
    <3>1. PICK d \in Diff!Beginnings(s[n].count) : t[n] = Diff!RangeLine(s[n].start, d, TRUE)
      BY <2>8
    <3>2. d \in Nat /\ d <= s[n].count
      BY <2>4 DEF Diff!Beginnings
    <3>3. t[n].start = s[n].start /\ Diff!LineCount(t[n]) = d
      BY <3>1 DEF Diff!RangeLine, Diff!LineCount
    <3> QED
      BY <2>3, <2>4, <2>5, <3>2, <3>3
  <2> QED
    BY <2>6, <2>7, <2>8
<1>6. ASSUME NEW j \in 1 .. n, NEW f, CurrentAt(t, j, f), IsRange(t[j])
      PROVE  CurrentAt(s, j, f)
  <2>1. PICK i \in 0 .. j : /\ \A l \in i + 1 .. j : t[l].kind # "file"
                            /\ IF i = 0 THEN f = 0 ELSE t[i].kind = "file" /\ t[i].file = f
    BY <1>6 DEF CurrentAt
  <2>2. i # j
    <3>1. t[j].kind # "file" /\ j # 0
      BY <1>4, <1>6 DEF IsRange
    <3> QED
      BY <2>1, <3>1
  <2>3. i # 0 => i \in 1 .. n - 1
    BY <1>4, <2>2
  <2>4. ASSUME NEW l \in i + 1 .. j
        PROVE  s[l].kind # "file"
    <3>1. l \in 1 .. n - 1 \/ (l = n /\ l = j)
      BY <1>4
    <3> QED
      BY <1>4, <1>5, <1>6, <2>1, <3>1
  <2> QED
    BY <1>4, <2>1, <2>3, <2>4 DEF CurrentAt
<1>7. PICK g : (\E f : CurrentAt(t, n, f)) => CurrentAt(t, n, g)
  OBVIOUS
<1>8. ASSUME NEW f \in Diff!Files, NEW l \in Lines, InRange(t, f, l), l \notin Diff!Changed(f)
      PROVE  f = g /\ l = t[n].start
  <2>1. PICK j \in 1 .. n : /\ IsRange(t[j]) /\ CurrentAt(t, j, f)
                            /\ t[j].start <= l /\ l < t[j].start + Diff!LineCount(t[j])
    BY <1>3, <1>8 DEF InRange
  <2>2. ~ InRange(s, f, l)
    BY <1>1, <1>8, RangesAreChanged
  <2>3. CurrentAt(s, j, f) /\ j \in 1 .. Len(s)
    BY <1>2, <1>6, <2>1
  <2>4. j = n
    <3>1. SUFFICES ASSUME j # n PROVE FALSE
      OBVIOUS
    <3>2. t[j] = s[j]
      BY <1>4, <3>1
    <3> QED
      BY <2>1, <2>2, <2>3, <3>2 DEF InRange
  <2>5. f = g
    BY <1>4, <1>7, <2>1, <2>4, OneCurrent
  <2>6. l \in Nat
    BY NumbersAssumption
  <2>7. ~ (t[n].start = s[n].start /\ Diff!LineCount(t[n]) <= Diff!LineCount(s[n]))
    <3>1. SUFFICES ASSUME t[n].start = s[n].start, Diff!LineCount(t[n]) <= Diff!LineCount(s[n]) PROVE FALSE
      OBVIOUS
    <3>2. IsRange(s[n]) /\ s[n].start <= l /\ l < s[n].start + Diff!LineCount(s[n])
      BY <1>5, <2>1, <2>4, <2>6, <3>1 DEF IsRange
    <3> QED
      BY <2>2, <2>3, <2>4, <3>2 DEF InRange
  <2>8. Diff!LineCount(t[n]) = 1 /\ t[n].start \in Nat
    BY <1>5, <2>1, <2>4, <2>7
  <2> QED
    BY <2>1, <2>4, <2>5, <2>6, <2>8
<1>9. PICK m : m = t[n].start
  OBVIOUS
<1>10. \A f \in Diff!Files, l \in Lines : InRange(t, f, l) /\ l \notin Diff!Changed(f) => f = g /\ l = m
  BY <1>8, <1>9
<1> WITNESS g, m
<1> QED
  BY <1>10

\* The lines in which mutations are looked for are exactly the changed ones, and one more
\* at most if git was so slow that its output was cut: for any changes, whatever they are
\* to the lines that git prints.
THEOREM DiffCorrect == Spec => []AdmitsTheChange
<1>1. DiffInv => AdmitsTheChange
  <2> SUFFICES ASSUME DiffInv, gitPc = "done", Diff!Plain
               PROVE  AdmitsTheChange
    BY DEF AdmitsTheChange, Diff!AdmitsTheChange
  <2>1. \A f \in Diff!Files : Diff!Admitted(f) \subseteq Lines /\ Diff!Changed(f) \subseteq Lines
    BY DEF Diff!Admitted, Diff!Changed
  <2>2. ASSUME git = "complete", NEW f \in Diff!Files
        PROVE  Diff!Admitted(f) = Diff!Changed(f)
    <3>1. PICK t \in Seq(Line) : t = Diff!Text /\ HasRead(t, Len(t))
      BY <2>2 DEF DiffInv, Printed
    <3>2. \A l \in Lines : l \in Diff!Admitted(f) <=> l \in Diff!Changed(f)
      BY <3>1, AdmittedLines, RangesAreChanged DEF DiffInv
    <3> QED
      BY <2>1, <3>2
  <2>3. ASSUME git = "late"
        PROVE  Cardinality({p \in Diff!Files \X Lines : p[2] \in Diff!Admitted(p[1]) \ Diff!Changed(p[1])}) <= 1
    <3>1. PICK t \in Seq(Line) : Printed(t) /\ HasRead(t, Len(t))
      BY <2>3 DEF DiffInv
    <3>2. PICK g, m : \A f \in Diff!Files, l \in Lines : InRange(t, f, l) /\ l \notin Diff!Changed(f) => f = g /\ l = m
      BY <2>3, <3>1, CutRanges DEF DiffInv
    <3>3. PICK more : more = {p \in Diff!Files \X Lines : p[2] \in Diff!Admitted(p[1]) \ Diff!Changed(p[1])}
      OBVIOUS
    <3>4. ASSUME NEW p \in more
          PROVE  p = <<g, m>>
      <4>1. PICK f \in Diff!Files, l \in Lines : p = <<f, l>> /\ l \in Diff!Admitted(f) /\ l \notin Diff!Changed(f)
        BY <3>3
      <4>2. InRange(t, f, l)
        BY <3>1, <4>1, AdmittedLines
      <4> QED
        BY <3>2, <4>1, <4>2
    <3>5. more \subseteq {<<g, m>>}
      BY <3>4
    <3>6. Cardinality({<<g, m>>}) = 1 /\ IsFiniteSet({<<g, m>>})
      BY FS_Singleton
    <3>7. Cardinality(more) <= 1
      BY <3>5, <3>6, FS_Subset
    <3> QED
      BY <3>3, <3>7
  <2>4. \A S : Diff!Cardinality(S) = Cardinality(S)
    BY Zenon DEF Diff!Cardinality, Cardinality
  <2> QED
    BY <2>2, <2>3, <2>4, Zenon DEF AdmitsTheChange, Diff!AdmitsTheChange
<1> QED
  BY <1>1, DiffInitially, DiffStep, PTL DEF Spec

=============================================================================
