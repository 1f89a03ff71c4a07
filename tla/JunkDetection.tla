---------------------------- MODULE JunkDetection ----------------------------
(***************************************************************************)
(* The pass of the junk filter: every worker asks CXXJunkDetector::isJunk  *)
(* about the mutations of its slice (lib/JunkDetection/CXX), and all of    *)
(* them share one ASTStorage, which parses the file of a unit when it is   *)
(* asked for it first, and the units in it.                                *)
(*                                                                         *)
(* What a unit says about a mutation is left open; what matters is who is  *)
(* in which unit when.  An access is one use of the SourceManager of the   *)
(* unit, which keeps caches of its last lookups and so is written to by    *)
(* every one of them.                                                      *)
(***************************************************************************)
EXTENDS Integers, Sequences, FiniteSetsExt

CONSTANTS
  N,          \* number of mutations
  Units,      \* paths of units
  Workers,    \* a set 1 .. n
  NoWorker

ASSUME NAssumption == N \in Nat
ASSUME NoWorkerAssumption == NoWorker \notin Workers

Mutations == 1 .. N

VARIABLES
  unitFilePath, \* [p]: the unit of the mutation
  worker,       \* [p]: whose slice it is in
  exists,       \* units whose file is still there
  pc,           \* [w]: "next", "parse" or "unit"
  astUnits,     \* [u]: "none", "ast", "empty" for one without declarations, or
                \* "broken" for a unit without AST
  parses,       \* [u]: how often the file was parsed
  storageMutex, \* the worker that holds ASTStorage::mutex
  unitMutex,    \* [u]: the worker that holds ThreadSafeASTUnit::mutex
  at,           \* [w]: number of the access
  inside,       \* workers in the middle of their access
  verdict,      \* [p]: "none", "junk" or "kept"
  program       \* "runs" or "crashed"

input == <<unitFilePath, worker, exists>>
vars  == <<input, pc, astUnits, parses, storageMutex, unitMutex, at, inside, verdict, program>>

\* isJunk: getLocation, isInSystemHeader, getDecl, findMutantExpression,
\* getExpansionLineNumber of the begin, getLocForEndOfToken, getExpansionLineNumber
\* of the end.  findFileEntry only reads.  (Mutations have a location: the filter
\* for missing debug information has gone over them.)
Accesses ==
  <<"location", "system header", "declaration", "expression", "begin", "end of token", "end">>

\* those that take the mutex of the unit, and those that may find it is junk
Guarded  == {"location", "declaration", "end of token"}
Decisive == {"system header", "declaration", "expression"}

Init ==
  /\ unitFilePath \in [Mutations -> Units]
  /\ worker \in {s \in [Mutations -> Workers] : \A p, q \in Mutations : p < q => s[p] <= s[q]}
  /\ exists \in SUBSET Units
  /\ pc = [w \in Workers |-> "next"]
  /\ astUnits = [u \in Units |-> "none"]
  /\ parses = [u \in Units |-> 0]
  /\ storageMutex = NoWorker
  /\ unitMutex = [u \in Units |-> NoWorker]
  /\ at = [w \in Workers |-> 0]
  /\ inside = {}
  /\ verdict = [p \in Mutations |-> "none"]
  /\ program = "runs"

-----------------------------------------------------------------------------

Slice(w) == {p \in Mutations : worker[p] = w /\ verdict[p] = "none"}

\* the mutation a worker is at, and its unit
Point(w) == Min(Slice(w))
Unit(w)  == unitFilePath[Point(w)]

\* findAST is asked for a unit whose file is gone: it warns (the compiler plugin has
\* no strict mode) and returns no unit, and isJunk calls hasAST() on it.
MissingUnit(w) ==
  /\ pc[w] = "next" /\ Slice(w) # {}
  /\ Unit(w) \notin exists
  /\ program' = "crashed"
  /\ UNCHANGED <<input, pc, astUnits, parses, storageMutex, unitMutex, at, inside, verdict>>

\* mutant of FindAST: the mutex is held for the lookup only
FindASTUnlocked(w) ==
  /\ pc[w] = "next" /\ Slice(w) # {}
  /\ Unit(w) \in exists
  /\ storageMutex = NoWorker
  /\ pc' = [pc EXCEPT ![w] = IF astUnits[Unit(w)] = "none" THEN "parse" ELSE "unit"]
  /\ UNCHANGED <<input, astUnits, parses, storageMutex, unitMutex, at, inside, verdict, program>>

\* findAST, under the mutex: a unit that is there is returned, a new one is
\* parsed before the mutex is given back.
FindAST(w) ==
  /\ pc[w] = "next" /\ Slice(w) # {}
  /\ Unit(w) \in exists
  /\ storageMutex = NoWorker
  /\ IF astUnits[Unit(w)] = "none"
       THEN pc' = [pc EXCEPT ![w] = "parse"] /\ storageMutex' = w
       ELSE pc' = [pc EXCEPT ![w] = "unit"] /\ UNCHANGED storageMutex
  /\ UNCHANGED <<input, astUnits, parses, unitMutex, at, inside, verdict, program>>

ParseUnit(w) ==
  /\ pc[w] = "parse"
  /\ pc' = [pc EXCEPT ![w] = "unit"]
  /\ \E outcome \in {"ast", "empty", "broken"} : astUnits' = [astUnits EXCEPT ![Unit(w)] = outcome]
  /\ parses' = [parses EXCEPT ![Unit(w)] = @ + 1]
  /\ storageMutex' = NoWorker
  /\ UNCHANGED <<input, unitMutex, at, inside, verdict, program>>

\* ~ hasAST()
NoAST(w) ==
  /\ pc[w] = "unit" /\ astUnits[Unit(w)] = "broken"
  /\ pc' = [pc EXCEPT ![w] = "next"]
  /\ verdict' = [verdict EXCEPT ![Point(w)] = "junk"]
  /\ UNCHANGED <<input, astUnits, parses, storageMutex, unitMutex, at, inside, program>>

\* isJunk returns
Answer(w, v) ==
  /\ verdict' = [verdict EXCEPT ![Point(w)] = v]
  /\ pc' = [pc EXCEPT ![w] = "next"]
  /\ at' = [at EXCEPT ![w] = 0]

\* getDecl finds nothing and does not take the mutex for it.
NoDeclarations(w) ==
  /\ pc[w] = "unit" /\ astUnits[Unit(w)] = "empty" /\ w \notin inside
  /\ Accesses[at[w] + 1] = "declaration"
  /\ Answer(w, "junk")
  /\ UNCHANGED <<input, astUnits, parses, storageMutex, unitMutex, inside, program>>

EnterUnit(w) ==
  /\ pc[w] = "unit" /\ w \notin inside
  /\ \/ astUnits[Unit(w)] = "ast"
     \/ astUnits[Unit(w)] = "empty" /\ Accesses[at[w] + 1] # "declaration"
  /\ IF Accesses[at[w] + 1] \in Guarded
       THEN /\ unitMutex[Unit(w)] = NoWorker
            /\ unitMutex' = [unitMutex EXCEPT ![Unit(w)] = w]
       ELSE UNCHANGED unitMutex
  /\ at' = [at EXCEPT ![w] = @ + 1]
  /\ inside' = inside \cup {w}
  /\ UNCHANGED <<input, pc, astUnits, parses, storageMutex, verdict, program>>

Released(w) ==
  IF unitMutex[Unit(w)] = w THEN [unitMutex EXCEPT ![Unit(w)] = NoWorker] ELSE unitMutex

\* mutant of LeaveUnit: an early return keeps the mutex
LeaveUnitLocked(w) ==
  /\ w \in inside
  /\ inside' = inside \ {w}
  /\ \/ Accesses[at[w]] \in Decisive /\ Answer(w, "junk") /\ UNCHANGED unitMutex
     \/ /\ unitMutex' = Released(w)
        /\ \/ at[w] = Len(Accesses) /\ Answer(w, "kept")
           \/ at[w] < Len(Accesses) /\ UNCHANGED <<verdict, pc, at>>
  /\ UNCHANGED <<input, astUnits, parses, storageMutex, program>>

LeaveUnit(w) ==
  /\ w \in inside
  /\ inside' = inside \ {w}
  /\ unitMutex' = Released(w)
  /\ \/ Accesses[at[w]] \in Decisive /\ Answer(w, "junk")
     \/ at[w] = Len(Accesses) /\ Answer(w, "kept")
     \/ at[w] < Len(Accesses) /\ UNCHANGED <<verdict, pc, at>>
  /\ UNCHANGED <<input, astUnits, parses, storageMutex, program>>

IsJunk(w) ==
  /\ program = "runs"
  /\ \/ MissingUnit(w) \/ FindAST(w) \/ ParseUnit(w)
     \/ NoAST(w) \/ NoDeclarations(w) \/ EnterUnit(w) \/ LeaveUnit(w)

Next == \E w \in Workers : IsJunk(w)

Spec == Init /\ [][Next]_vars /\ \A w \in Workers : WF_vars(IsJunk(w))

-----------------------------------------------------------------------------
(* Properties *)

\* However many workers come to a unit at the same time, its file is parsed once,
\* and no worker loses the unit it works in to one parsed later.
UnitsParsedOnce == \A u \in Units : parses[u] <= 1

\* The pass gets through: two mutexes and a parser under one of them leave no
\* worker waiting for ever.  Only a unit whose file is gone ends it before.
AllJudged ==
  <>(\/ program # "runs" /\ \E p \in Mutations : unitFilePath[p] \notin exists
     \/ \A p \in Mutations : verdict[p] # "none")

\* ASTStorage.cpp on what the unit is for: getLocation "is known for not beeing
\* thread safe. therefore we need to protect it within the ThreadSafeASTUnit".
UnitIsProtected ==
  \A v, w \in inside : v # w /\ program = "runs" =>
    (Accesses[at[v]] \in Guarded => Unit(v) # Unit(w))

=============================================================================
