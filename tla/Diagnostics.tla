----------------------------- MODULE Diagnostics -----------------------------
(***************************************************************************)
(* The messages of a program (lib/Diagnostics/Diagnostics.cpp): the main   *)
(* thread, the workers of a task executor and the thread that reports      *)
(* their progress write to one terminal, under one mutex.  A message that  *)
(* is fatal calls exit(), which never returns: the thread keeps the mutex. *)
(***************************************************************************)
EXTENDS Naturals, SequencesExt

CONSTANTS
  Workers,      \* threads of a task executor
  MaxMessages   \* of one thread, before the others start and after they ended

VARIABLES
  mode,          \* enableDebugMode, enableStrictMode, makeQuiet, makeSilent
  seenProgress,
  mutex,         \* the thread that has it, or Nobody
  pc,            \* of each thread
  message,       \* the kind of message it is about to write
  sent,          \* how many it has begun
  out,           \* the end of the output: its last two pieces
  ended          \* the process is gone

vars == <<mode, seenProgress, mutex, pc, message, sent, out, ended>>

Threads == Workers \union {"main", "reporter"}
Nobody  == "nobody"

\* What the threads send: mull-runner's workers only debug messages and the errors of Runner.cpp:53
\* and 65, the compiler plugin's the warnings of ASTStorage.cpp as well.
Kinds(t) == CASE t = "main"     -> {"info", "warning", "error", "progress"}
              [] t = "reporter" -> {"progress"}
              [] OTHER          -> {"debug", "warning", "error"}

Ignored(kind) ==
  \/ kind \in {"info", "progress"} /\ "quiet" \in mode
  \/ kind = "warning" /\ "silent" \in mode /\ "strict" \notin mode
  \/ kind = "debug" /\ "debug" \notin mode

Fatal(kind) == kind = "error" \/ (kind = "warning" /\ "strict" \in mode)

Written(pieces) == LET all == out \o pieces
                   IN  SubSeq(all, IF Len(all) > 2 THEN Len(all) - 1 ELSE 1, Len(all))

Init ==
  /\ mode = {}
  /\ seenProgress = FALSE /\ mutex = Nobody /\ out = <<>> /\ ended = FALSE
  /\ pc = [t \in Threads |-> "idle"] /\ message = [t \in Threads |-> "none"]
  /\ sent = [t \in Threads |-> 0]

\* The main thread joins the others before it goes on (TaskExecutor.h:74 and 92).
MayRun(t) ==
  IF t = "main" THEN sent[t] >= MaxMessages => \A u \in Threads \ {t} : sent[u] = MaxMessages /\ pc[u] = "idle"
                ELSE sent["main"] = MaxMessages /\ pc["main"] = "idle"

\* enableDebugMode and the others, by the main thread, once it knows the configuration
EnableModes(modes) ==
  /\ mode = {} /\ mode' = modes
  /\ pc["main"] = "idle" /\ sent["main"] < MaxMessages
  /\ UNCHANGED <<seenProgress, mutex, pc, message, sent, out, ended>>

Call(t, kind) ==
  /\ pc[t] = "idle" /\ kind \in Kinds(t) /\ MayRun(t)
  /\ sent[t] < (IF t = "main" THEN 2 * MaxMessages ELSE MaxMessages)
  /\ pc' = [pc EXCEPT ![t] = "call"] /\ message' = [message EXCEPT ![t] = kind]
  /\ sent' = [sent EXCEPT ![t] = @ + 1]
  /\ UNCHANGED <<mode, seenProgress, mutex, out, ended>>

Lock(t) ==
  /\ pc[t] = "call" /\ mutex = Nobody
  /\ mutex' = t /\ pc' = [pc EXCEPT ![t] = "begin"]
  /\ UNCHANGED <<mode, seenProgress, message, sent, out, ended>>

Unlock(t) == mutex' = (IF mutex = t THEN Nobody ELSE mutex) /\ pc' = [pc EXCEPT ![t] = "idle"]

Return(t) ==
  /\ pc[t] = "begin" /\ Ignored(message[t])
  /\ Unlock(t)
  /\ UNCHANGED <<mode, seenProgress, message, sent, out, ended>>

\* prepare() ends a line of progress.
Prepare(t) ==
  /\ pc[t] = "begin" /\ ~Ignored(message[t]) /\ message[t] # "progress"
  /\ out' = IF seenProgress THEN Written(<<"newline">>) ELSE out
  /\ seenProgress' = FALSE
  /\ pc' = [pc EXCEPT ![t] = "log"]
  /\ UNCHANGED <<mode, mutex, message, sent, ended>>

\* mutant of Exiting: the mutex is given back before exit()
ExitingUnlocked(t) == mutex' = Nobody /\ pc' = [pc EXCEPT ![t] = "exit"]

Exiting(t) == mutex' = mutex /\ pc' = [pc EXCEPT ![t] = "exit"]

Log(t) ==
  /\ pc[t] = "log"
  /\ IF Fatal(message[t]) THEN out' = Written(<<"message", "fatal">>) /\ Exiting(t)
                          ELSE out' = Written(<<"message">>) /\ Unlock(t)
  /\ UNCHANGED <<mode, seenProgress, message, sent, ended>>

\* mutant of BeginProgress: the mutex guards the flag and not the output
BeginProgressUnlocked(t) ==
  /\ pc[t] = "begin" /\ ~Ignored(message[t]) /\ message[t] = "progress"
  /\ seenProgress' = TRUE /\ pc' = [pc EXCEPT ![t] = "print"] /\ mutex' = Nobody
  /\ UNCHANGED <<mode, message, sent, out, ended>>

BeginProgress(t) ==
  /\ pc[t] = "begin" /\ ~Ignored(message[t]) /\ message[t] = "progress"
  /\ seenProgress' = TRUE /\ pc' = [pc EXCEPT ![t] = "print"]
  /\ UNCHANGED <<mode, mutex, message, sent, out, ended>>

PrintProgress(t) ==
  /\ pc[t] = "print"
  /\ out' = Written(<<"progress">>) /\ Unlock(t)
  /\ UNCHANGED <<mode, seenProgress, message, sent, ended>>

\* exit() has run its handlers; until then the other threads go on.
Exit(t) ==
  /\ pc[t] = "exit"
  /\ ended' = TRUE
  /\ UNCHANGED <<mode, seenProgress, mutex, pc, message, sent, out>>

Step(t) ==
  \/ \E kind \in Kinds(t) : Call(t, kind)
  \/ Lock(t) \/ Return(t) \/ Prepare(t) \/ Log(t) \/ BeginProgress(t) \/ PrintProgress(t) \/ Exit(t)

Next ==
  /\ ~ended
  /\ \/ \E modes \in SUBSET {"debug", "strict", "quiet", "silent"} : EnableModes(modes)
     \/ \E t \in Threads : Step(t)

Spec == Init /\ [][Next]_vars

\* A fatal message is the last of the output and one thread runs exit(): a second one would run the
\* handlers again beside the first, and a message would follow "Exiting now".
FatalMessageIsTheLast ==
  LET leaving == {t \in Threads : pc[t] = "exit"} IN
  /\ \A t, u \in leaving : t = u
  /\ leaving # {} => Last(out) = "fatal"

\* A message begins a line: never behind the progress that is on it.
MessagesBeginLines ==
  \A i \in DOMAIN out : i > 1 /\ out[i] = "message" => out[i - 1] # "progress"
==============================================================================
