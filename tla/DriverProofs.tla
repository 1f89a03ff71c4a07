------------------------------ MODULE DriverProofs ------------------------------
(***************************************************************************)
(* Theorems about Driver, for any files, lines and flags, any number of    *)
(* units and commands, of functions and instructions, any facts about      *)
(* their locations, any names in the configuration and numbers of any      *)
(* width.                                                                  *)
(*                                                                         *)
(* A step of the driver is a step of one of its parts, so that each has an *)
(* invariant of its own.                                                   *)
(***************************************************************************)
EXTENDS Driver, FiniteSetTheorems, SequenceTheorems, NaturalsInduction, WellFoundedInduction, TLAPS

-----------------------------------------------------------------------------
(* Numbers have a smallest one (< is well-founded): a property of numbers   *)
(* that fails for some number fails for a smallest one.                    *)

LEMMA Smallest ==
  ASSUME NEW T \in SUBSET Nat, T # {}
  PROVE  \E n \in T : \A m \in T : n <= m
<1>1. \E x \in T : \A y \in T : ~ (<<y, x>> \in OpToRel(<, Nat))
  BY NatLessThanWellFounded, WFMin
<1>2. PICK x \in T : \A y \in T : ~ (<<y, x>> \in OpToRel(<, Nat))
  BY <1>1
<1>3. \A y \in T : ~ (y < x)
  BY <1>2 DEF OpToRel
<1> QED
  BY <1>3

-----------------------------------------------------------------------------
(* The compilation database: what a compiler answered is remembered, and   *)
(* an entry that was resolved is as its compiler's answer makes it,        *)
(* whichever table it is in.                                               *)

\* An answer that was given is the one that is remembered, and was given once.
AnswersInv ==
  /\ \E S : answers \in Seq(S)
  /\ \A k \in DOMAIN answers :
       answers[k][1] \in DOMAIN resourceDirs /\ resourceDirs[answers[k][1]] = answers[k][2]
  /\ \A i, j \in DOMAIN answers : answers[i][1] = answers[j][1] => i = j

\* the entry of a path once resolveResourceDir has been there
Resolved(e, original) ==
  IF Database!NeedsResourceDir(original)
    THEN original.compiler \in DOMAIN resourceDirs
         /\ e = Database!WithResourceDir(original, resourceDirs[original.compiler])
    ELSE e = original

\* Those in left are as they were read.
ResolvedBut(table, original, left) ==
  /\ table = [p \in DOMAIN table |-> table[p]]
  /\ \A p \in DOMAIN table : IF p \in left THEN table[p] = original[p] ELSE Resolved(table[p], original[p])

TablesInv ==
  /\ pc \in {"start", "file"} => answers = <<>> /\ resourceDirs = <<>>
  /\ pc = "database" => /\ ResolvedBut(database, Database!CommandTable, unresolved)
                        /\ ResolvedBut(bitcodeFlags, Database!BitcodeTable, DOMAIN bitcodeFlags)
  /\ pc = "bitcode" => /\ ResolvedBut(database, Database!CommandTable, {})
                       /\ ResolvedBut(bitcodeFlags, Database!BitcodeTable, unresolved)
  /\ pc = "ready" => ResolvedBut(database, Database!CommandTable, {}) /\ ResolvedBut(bitcodeFlags, Database!BitcodeTable, {})

DatabaseInv == AnswersInv /\ TablesInv

-----------------------------------------------------------------------------
(* The input makes the tables, and does not change once they are there. *)

LEMMA InputStays ==
  ASSUME UNCHANGED Database!input
  PROVE  Database!CommandTable' = Database!CommandTable /\ Database!BitcodeTable' = Database!BitcodeTable
  BY DEF Database!input, Database!CommandTable, Database!BitcodeTable, Database!Table, Database!Entry, Database!Said, Database!RecordedUnits

\* Answers that are added change nothing of what was resolved before.
Kept ==
  /\ DOMAIN resourceDirs \subseteq DOMAIN resourceDirs'
  /\ \A c \in DOMAIN resourceDirs : resourceDirs'[c] = resourceDirs[c]

LEMMA ResolvedStays ==
  ASSUME Kept, NEW table, NEW original, NEW left, ResolvedBut(table, original, left)
  PROVE  /\ table = [p \in DOMAIN table |-> table[p]]
         /\ \A p \in DOMAIN table :
              IF p \in left THEN table[p] = original[p]
              ELSE IF Database!NeedsResourceDir(original[p])
                THEN original[p].compiler \in DOMAIN resourceDirs'
                     /\ table[p] = Database!WithResourceDir(original[p], resourceDirs'[original[p].compiler])
                ELSE table[p] = original[p]
  BY DEF ResolvedBut, Resolved, Kept

LEMMA AskStep ==
  ASSUME AnswersInv, NEW compiler, NEW dir, Database!Ask(compiler, dir)
  PROVE  AnswersInv' /\ Kept /\ compiler \in DOMAIN resourceDirs' /\ resourceDirs'[compiler] = dir
<1>1. /\ DOMAIN resourceDirs' = DOMAIN resourceDirs \cup {compiler}
      /\ \A c \in DOMAIN resourceDirs : resourceDirs'[c] = resourceDirs[c]
      /\ compiler \notin DOMAIN resourceDirs /\ resourceDirs'[compiler] = dir
  BY DEF Database!Ask, Database!Remembered
<1>2. Kept
  BY <1>1 DEF Kept
<1>3. AnswersInv'
  <2>1. PICK S : answers \in Seq(S)
    BY DEF AnswersInv
  <2>2. PICK T : T = S \cup {<<compiler, dir>>}
    OBVIOUS
  <2>3. answers \in Seq(T) /\ <<compiler, dir>> \in T
    BY <2>1, <2>2
  <2>4. answers' = Append(answers, <<compiler, dir>>)
    BY DEF Database!Ask
  <2>5. /\ answers' \in Seq(T) /\ DOMAIN answers = 1 .. Len(answers) /\ Len(answers) \in Nat
        /\ DOMAIN answers' = 1 .. Len(answers) + 1
        /\ \A k \in 1 .. Len(answers) : answers'[k] = answers[k]
        /\ answers'[Len(answers) + 1] = <<compiler, dir>>
    BY <2>3, <2>4
  <2>6. \A k \in DOMAIN answers' :
          answers'[k][1] \in DOMAIN resourceDirs' /\ resourceDirs'[answers'[k][1]] = answers'[k][2]
    BY <1>1, <2>5 DEF AnswersInv
  <2>7. \A i, j \in DOMAIN answers' : answers'[i][1] = answers'[j][1] => i = j
    BY <1>1, <2>5 DEF AnswersInv
  <2> QED
    BY <2>5, <2>6, <2>7 DEF AnswersInv
<1> QED
  BY <1>1, <1>2, <1>3

\* One turn of the loop of resolveResourceDir, over either table.
LEMMA ResolveStep ==
  ASSUME AnswersInv, NEW p, NEW e, NEW f, Database!Resolve(p, e, f)
  PROVE  /\ AnswersInv' /\ Kept
         /\ IF Database!NeedsResourceDir(e)
              THEN e.compiler \in DOMAIN resourceDirs' /\ f = Database!WithResourceDir(e, resourceDirs'[e.compiler])
              ELSE f = e
<1>1. CASE ~ Database!NeedsResourceDir(e)
  BY <1>1 DEF Database!Resolve, AnswersInv, Kept
<1>2. CASE Database!NeedsResourceDir(e) /\ Database!Remembered(e.compiler)
  BY <1>2 DEF Database!Resolve, Database!Ask, AnswersInv, Kept, Database!Remembered
<1>3. CASE Database!NeedsResourceDir(e) /\ ~ Database!Remembered(e.compiler)
  <2>1. PICK dir \in Database!Answers(e.compiler) : Database!Ask(e.compiler, dir) /\ f = Database!WithResourceDir(e, dir)
    BY <1>3 DEF Database!Resolve
  <2> QED
    BY <1>3, <2>1, AskStep
<1> QED
  BY <1>1, <1>2, <1>3

-----------------------------------------------------------------------------
(* The invariant *)

LEMMA InitDatabaseInv == Database!Init => DatabaseInv
<1> SUFFICES ASSUME Database!Init PROVE DatabaseInv
  OBVIOUS
<1>1. answers \in Seq({})
  BY DEF Database!Init
<1> QED
  BY <1>1 DEF Database!Init, DatabaseInv, AnswersInv, TablesInv

LEMMA NextDatabaseInv == DatabaseInv /\ [Database!Next]_(Database!vars) => DatabaseInv'
<1> SUFFICES ASSUME DatabaseInv, [Database!Next]_(Database!vars) PROVE DatabaseInv'
  OBVIOUS
<1> USE DEF DatabaseInv
<1>1. CASE UNCHANGED Database!vars
  <2>1. Database!CommandTable' = Database!CommandTable /\ Database!BitcodeTable' = Database!BitcodeTable
    BY <1>1, InputStays DEF Database!vars
  <2> QED
    BY <1>1, <2>1 DEF Database!vars, AnswersInv, TablesInv, ResolvedBut, Resolved
<1>2. CASE Database!Open
  BY <1>2 DEF Database!Open, AnswersInv, TablesInv
<1>3. CASE Database!ReadFile
  <2>1. Database!CommandTable' = Database!CommandTable /\ Database!BitcodeTable' = Database!BitcodeTable
    BY <1>3, InputStays DEF Database!ReadFile
  <2>2. Database!BitcodeTable = [p \in DOMAIN Database!BitcodeTable |-> Database!BitcodeTable[p]]
        /\ Database!CommandTable = [p \in DOMAIN Database!CommandTable |-> Database!CommandTable[p]]
    BY DEF Database!BitcodeTable, Database!CommandTable, Database!Table
  <2>3. database' = Database!CommandTable \/ database' = <<>>
    BY <1>3 DEF Database!ReadFile
  <2>4. bitcodeFlags' = Database!BitcodeTable /\ unresolved' = DOMAIN database' /\ pc' = "database"
    BY <1>3 DEF Database!ReadFile
  <2>5. database' = [p \in DOMAIN database' |-> database'[p]]
        /\ \A p \in DOMAIN database' : database'[p] = Database!CommandTable[p]
    <3>1. CASE database' = Database!CommandTable
      BY <2>2, <3>1
    <3>2. CASE database' = <<>>
      <4>1. DOMAIN database' = {}
        BY <3>2
      <4>2. database' = [p \in DOMAIN database' |-> database'[p]]
        BY <3>2, <4>1
      <4> QED
        BY <4>1, <4>2
    <3> QED
      BY <2>3, <3>1, <3>2
  <2>6. TablesInv'
    BY <2>1, <2>2, <2>4, <2>5 DEF TablesInv, ResolvedBut
  <2> QED
    BY <1>3, <2>6 DEF Database!ReadFile, AnswersInv
<1>4. CASE Database!ResolveDatabase
  <2>1. Database!CommandTable' = Database!CommandTable /\ Database!BitcodeTable' = Database!BitcodeTable
    BY <1>4, InputStays DEF Database!ResolveDatabase
  <2>2. PICK p \in unresolved : \E f \in Database!Outcomes(database[p]) :
          Database!Resolve(p, database[p], f) /\ database' = [database EXCEPT ![p] = f]
    BY <1>4 DEF Database!ResolveDatabase
  <2>3. PICK f : Database!Resolve(p, database[p], f) /\ database' = [database EXCEPT ![p] = f]
    BY <2>2
  <2>4. AnswersInv' /\ Kept
    BY <2>3, ResolveStep
  <2>5. ResolvedBut(database, Database!CommandTable, unresolved) /\ ResolvedBut(bitcodeFlags, Database!BitcodeTable, DOMAIN bitcodeFlags)
    BY <1>4 DEF Database!ResolveDatabase, TablesInv
  <2>6. ResolvedBut(bitcodeFlags, Database!BitcodeTable, DOMAIN bitcodeFlags)'
    BY <1>4, <2>1, <2>5 DEF Database!ResolveDatabase, ResolvedBut
  <2>7. database' = [q \in DOMAIN database' |-> database'[q]] /\ DOMAIN database' = DOMAIN database
    BY <2>3, <2>5 DEF ResolvedBut
  <2>8. ASSUME NEW q \in DOMAIN database
        PROVE  IF q \in unresolved' THEN database'[q] = Database!CommandTable[q] ELSE Resolved(database[q], Database!CommandTable[q])'
    <3>1. unresolved' = unresolved \ {p}
      BY <2>3 DEF Database!Resolve
    <3>2. CASE q = p
      <4>1. database'[q] = f /\ database[q] = Database!CommandTable[q]
        BY <2>3, <2>5, <3>2 DEF ResolvedBut
      <4> QED
        BY <2>1, <2>3, <3>1, <3>2, <4>1, ResolveStep DEF Resolved
    <3>3. CASE q # p
      BY <2>1, <2>3, <2>4, <2>5, <3>1, <3>3, ResolvedStays DEF Resolved
    <3> QED
      BY <3>2, <3>3
  <2>9. ResolvedBut(database, Database!CommandTable, unresolved)'
    BY <2>1, <2>7, <2>8 DEF ResolvedBut
  <2> QED
    BY <1>4, <2>4, <2>6, <2>9 DEF Database!ResolveDatabase, TablesInv
<1>5. CASE Database!ResolveBitcode
  <2>1. Database!CommandTable' = Database!CommandTable /\ Database!BitcodeTable' = Database!BitcodeTable
    BY <1>5, InputStays DEF Database!ResolveBitcode
  <2>2. PICK p \in unresolved : \E f \in Database!Outcomes(bitcodeFlags[p]) :
          Database!Resolve(p, bitcodeFlags[p], f) /\ bitcodeFlags' = [bitcodeFlags EXCEPT ![p] = f]
    BY <1>5 DEF Database!ResolveBitcode
  <2>3. PICK f : Database!Resolve(p, bitcodeFlags[p], f) /\ bitcodeFlags' = [bitcodeFlags EXCEPT ![p] = f]
    BY <2>2
  <2>4. AnswersInv' /\ Kept
    BY <2>3, ResolveStep
  <2>5. ResolvedBut(database, Database!CommandTable, {}) /\ ResolvedBut(bitcodeFlags, Database!BitcodeTable, unresolved)
    BY <1>5 DEF Database!ResolveBitcode, TablesInv
  <2>6. ResolvedBut(database, Database!CommandTable, {})'
    <3>1. database' = database
      BY <1>5 DEF Database!ResolveBitcode
    <3>2. /\ database = [q \in DOMAIN database |-> database[q]]
          /\ \A q \in DOMAIN database :
               IF Database!NeedsResourceDir(Database!CommandTable[q])
                 THEN Database!CommandTable[q].compiler \in DOMAIN resourceDirs'
                      /\ database[q] = Database!WithResourceDir(Database!CommandTable[q], resourceDirs'[Database!CommandTable[q].compiler])
                 ELSE database[q] = Database!CommandTable[q]
      BY <2>4, <2>5, ResolvedStays
    <3> QED
      BY <2>1, <3>1, <3>2 DEF ResolvedBut, Resolved
  <2>7. bitcodeFlags' = [q \in DOMAIN bitcodeFlags' |-> bitcodeFlags'[q]] /\ DOMAIN bitcodeFlags' = DOMAIN bitcodeFlags
    BY <2>3, <2>5 DEF ResolvedBut
  <2>8. ASSUME NEW q \in DOMAIN bitcodeFlags
        PROVE  IF q \in unresolved' THEN bitcodeFlags'[q] = Database!BitcodeTable[q]
               ELSE Resolved(bitcodeFlags[q], Database!BitcodeTable[q])'
    <3>1. unresolved' = unresolved \ {p}
      BY <2>3 DEF Database!Resolve
    <3>2. CASE q = p
      <4>1. bitcodeFlags'[q] = f /\ bitcodeFlags[q] = Database!BitcodeTable[q]
        BY <2>3, <2>5, <3>2 DEF ResolvedBut
      <4> QED
        BY <2>1, <2>3, <3>1, <3>2, <4>1, ResolveStep DEF Resolved
    <3>3. CASE q # p
      BY <2>1, <2>3, <2>4, <2>5, <3>1, <3>3, ResolvedStays DEF Resolved
    <3> QED
      BY <3>2, <3>3
  <2>9. ResolvedBut(bitcodeFlags, Database!BitcodeTable, unresolved)'
    BY <2>1, <2>7, <2>8 DEF ResolvedBut
  <2> QED
    BY <1>5, <2>4, <2>6, <2>9 DEF Database!ResolveBitcode, TablesInv
<1>6. CASE Database!TableResolved
  <2>1. Database!CommandTable' = Database!CommandTable /\ Database!BitcodeTable' = Database!BitcodeTable
    BY <1>6, InputStays DEF Database!TableResolved
  <2>2. AnswersInv'
    BY <1>6 DEF Database!TableResolved, AnswersInv
  <2>3. TablesInv'
    BY <1>6, <2>1 DEF Database!TableResolved, TablesInv, ResolvedBut, Resolved
  <2> QED
    BY <2>2, <2>3
<1> QED
  BY <1>1, <1>2, <1>3, <1>4, <1>5, <1>6 DEF Database!Next

-----------------------------------------------------------------------------
(* The tables of the driver *)

\* What goes on elsewhere leaves the tables alone.
LEMMA DriverStep == [Next]_vars => [Database!Next]_(Database!vars)
<1> SUFFICES ASSUME [Next]_vars PROVE Database!Next \/ UNCHANGED Database!vars
  OBVIOUS
<1>1. CASE MakeDatabase
  BY <1>1 DEF MakeDatabase
<1>2. CASE UNCHANGED databaseVars
  BY <1>2 DEF databaseVars, Database!vars, Database!input
<1> QED
  BY <1>1, <1>2
     DEF Next, vars, MakeMutators, TakeMutators, StartSearch, SearchMutations, MutateOperator, MutateCondition

\* The plugin makes its tables as CompilationDatabase says, whatever else it does.
THEOREM DriverMakesDatabase == Spec => Database!Spec
<1>1. Init => Database!Init
  BY DEF Init
<1> QED
  BY <1>1, DriverStep, PTL DEF Spec, Database!Spec


\* A compiler is asked once for its resource directory, and its answer is in all the
\* entries of that compiler that need one, in the bitcode's table and the database's.
THEOREM OneAnswerCorrect == Spec => []OneAnswerPerCompiler
<1>1. ASSUME DatabaseInv PROVE Database!OneAnswerPerCompiler
  <2>1. \A i, j \in DOMAIN answers : answers[i][1] = answers[j][1] => i = j
    BY <1>1 DEF DatabaseInv, AnswersInv
  <2>2. ASSUME NEW k \in DOMAIN answers, NEW table, NEW original, ResolvedBut(table, original, {}),
               NEW p \in DOMAIN table, original[p].compiler = answers[k][1]
        PROVE  table[p] = Database!WithResourceDir(original[p], answers[k][2])
    <3>1. Resolved(table[p], original[p])
      BY <2>2 DEF ResolvedBut
    <3>2. resourceDirs[original[p].compiler] = answers[k][2]
      BY <1>1, <2>2 DEF DatabaseInv, AnswersInv
    <3> QED
      BY <3>1, <3>2 DEF Resolved, Database!WithResourceDir
  <2>3. pc = "ready" => ResolvedBut(database, Database!CommandTable, {}) /\ ResolvedBut(bitcodeFlags, Database!BitcodeTable, {})
    BY <1>1 DEF DatabaseInv, TablesInv
  <2> QED
    BY <2>1, <2>2, <2>3 DEF Database!OneAnswerPerCompiler
<1>2. DatabaseInv => Database!OneAnswerPerCompiler
  BY <1>1
<1> QED
  BY <1>2, InitDatabaseInv, NextDatabaseInv, DriverMakesDatabase, PTL DEF Database!Spec, OneAnswerPerCompiler

-----------------------------------------------------------------------------
(* The flags of a file: paths without dots stay as they are, so that the   *)
(* lookup finds an entry under one of the two forms of its path only.      *)

\* The fold of RemoveDots is over sets of positions, the greatest one first.
DotsStep(p, g, s) ==
  IF s = {} THEN <<>> ELSE Database!Component(g[s \ {Database!Max(s)}], p[Database!Max(s)])

DotsLoop(p, g, n) == g = [s \in SUBSET (1 .. n) |-> DotsStep(p, g, s)]

LEMMA GreatestIs ==
  ASSUME NEW n \in Nat, NEW s \in SUBSET (1 .. n), n \in s
  PROVE  Database!Max(s) = n
<1>1. \A x \in s : (\A y \in s : x >= y) => x = n
  OBVIOUS
<1>2. \A y \in s : n >= y
  OBVIOUS
<1> QED
  BY <1>1, <1>2 DEF Database!Max

LEMMA DotsLoopIs == \A n \in Nat : \A p : \E g : DotsLoop(p, g, n)
<1> SUFFICES ASSUME NEW p PROVE \A n \in Nat : \E g : DotsLoop(p, g, n)
  OBVIOUS
<1> DEFINE T == {n \in Nat : ~ \E g : DotsLoop(p, g, n)}
<1>1. SUFFICES ASSUME T # {} PROVE FALSE
  OBVIOUS
<1>2. PICK n \in T : \A m \in T : n <= m
  BY <1>1, Smallest
<1>3. CASE n = 0
  <2> DEFINE g == [s \in SUBSET (1 .. 0) |-> <<>>]
  <2>1. \A s \in SUBSET (1 .. 0) : s = {}
    OBVIOUS
  <2>2. DotsLoop(p, g, 0)
    BY <2>1 DEF DotsLoop, DotsStep
  <2> QED
    BY <1>2, <1>3, <2>2
<1>4. CASE n # 0
  <2>1. n - 1 \in Nat /\ ~ (n <= n - 1)
    BY <1>4
  <2>2. PICK g : DotsLoop(p, g, n - 1)
    BY <1>2, <2>1
  <2> DEFINE h == [s \in SUBSET (1 .. n) |-> IF n \in s THEN Database!Component(g[s \ {n}], p[n]) ELSE g[s]]
  <2>3. ASSUME NEW s \in SUBSET (1 .. n)
        PROVE  h[s] = DotsStep(p, h, s)
    <3>1. CASE n \in s
      <4>1. Database!Max(s) = n
        BY <3>1, GreatestIs
      <4>2. s \ {n} \in SUBSET (1 .. n) /\ n \notin s \ {n}
        OBVIOUS
      <4>3. h[s \ {n}] = g[s \ {n}] /\ h[s] = Database!Component(g[s \ {n}], p[n])
        BY <3>1, <4>2
      <4> HIDE DEF h
      <4> QED
        BY <3>1, <4>1, <4>3 DEF DotsStep
    <3>2. CASE n \notin s
      <4>1. s \in SUBSET (1 .. n - 1)
        BY <2>1, <3>2
      <4>2. g[s] = DotsStep(p, g, s)
        BY <2>2, <4>1 DEF DotsLoop
      <4>3. s \ {Database!Max(s)} \in SUBSET (1 .. n) /\ n \notin s \ {Database!Max(s)}
        BY <3>2
      <4>4. h[s] = g[s] /\ h[s \ {Database!Max(s)}] = g[s \ {Database!Max(s)}]
        BY <3>2, <4>3
      <4> HIDE DEF h
      <4> QED
        BY <4>2, <4>4 DEF DotsStep
    <3> QED
      BY <3>1, <3>2
  <2>4. DotsLoop(p, h, n)
    <3>1. h = [s \in SUBSET (1 .. n) |-> h[s]]
      OBVIOUS
    <3> HIDE DEF h
    <3> QED
      BY <2>3, <3>1 DEF DotsLoop
  <2> QED
    BY <1>2, <2>4
<1> QED
  BY <1>3, <1>4

\* RemoveDots takes one component after the other.
LEMMA RemoveDotsIs ==
  ASSUME NEW p \in Seq(STRING)
  PROVE  \E walk : /\ walk[0] = <<>>
                   /\ \A k \in 1 .. Len(p) : walk[k] = Database!Component(walk[k - 1], p[k])
                   /\ Database!RemoveDots(p) = walk[Len(p)]
<1> DEFINE D == 1 .. Len(p)
<1>1. Len(p) \in Nat /\ DOMAIN p = D
  OBVIOUS
<1>2. \E g : DotsLoop(p, g, Len(p))
  BY <1>1, DotsLoopIs
<1>3. PICK g : DotsLoop(p, g, Len(p)) /\ Database!RemoveDots(p) = g[D]
  <2> DEFINE g == CHOOSE f : DotsLoop(p, f, Len(p))
  <2>1. DotsLoop(p, g, Len(p))
    BY <1>2
  <2>2. Database!RemoveDots(p) = g[D]
    BY <1>1 DEF Database!RemoveDots, Database!FoldLeft, Database!MapThenFoldSet, DotsLoop, DotsStep
  <2> QED
    BY <2>1, <2>2
<1> DEFINE walk == [k \in 0 .. Len(p) |-> g[1 .. k]]
<1>4. walk[0] = <<>>
  <2>1. 1 .. 0 = {} /\ {} \in SUBSET D
    OBVIOUS
  <2>2. g[{}] = DotsStep(p, g, {})
    BY <1>3, <2>1 DEF DotsLoop
  <2> QED
    BY <1>1, <2>1, <2>2 DEF DotsStep
<1>5. ASSUME NEW k \in D
      PROVE  walk[k] = Database!Component(walk[k - 1], p[k])
  <2>1. 1 .. k \in SUBSET D /\ k \in 1 .. k /\ k \in Nat /\ 1 .. k # {}
    <3>1. k \in Nat /\ 1 <= k /\ k <= Len(p)
      BY <1>1
    <3>2. k \in 1 .. k
      BY <3>1
    <3>3. \A x \in 1 .. k : x \in 1 .. Len(p)
      BY <1>1, <3>1
    <3> QED
      BY <3>1, <3>2, <3>3
  <2>2. Database!Max(1 .. k) = k
    BY <2>1, GreatestIs
  <2>3. (1 .. k) \ {k} = 1 .. k - 1
    BY <2>1
  <2>4. g[1 .. k] = DotsStep(p, g, 1 .. k)
    BY <1>3, <2>1 DEF DotsLoop
  <2>5. g[1 .. k] = Database!Component(g[1 .. k - 1], p[k])
    BY <2>1, <2>2, <2>3, <2>4 DEF DotsStep
  <2>6. walk[k] = g[1 .. k] /\ walk[k - 1] = g[1 .. k - 1]
    BY <1>1
  <2> QED
    BY <2>5, <2>6
<1>6. walk[Len(p)] = g[D]
  BY <1>1
<1> HIDE DEF walk
<1> QED
  BY <1>3, <1>4, <1>5, <1>6

\* absolute, and without dots
Clean(q) == q \in Seq(STRING) /\ q # <<>> /\ q[1] = "/" /\ \A j \in 2 .. Len(q) : q[j] \notin {".", ".."}

LEMMA ComponentIsClean ==
  ASSUME NEW q, Clean(q), NEW c \in STRING
  PROVE  Clean(Database!Component(q, c))
<1>1. q \in Seq(STRING) /\ Len(q) \in Nat /\ Len(q) > 0 /\ q[1] = "/"
  BY DEF Clean
<1>2. CASE c = "." \/ (c = ".." /\ q = <<"/">>)
  BY <1>2 DEF Database!Component
<1>3. CASE c = ".." /\ q # <<"/">>
  <2>1. Len(q) # 1
    BY <1>1, <1>3
  <2>2. Database!Last(q) # ".."
    BY <1>1, <2>1 DEF Clean, Database!Last
  <2>3. Database!Component(q, c) = SubSeq(q, 1, Len(q) - 1)
    BY <1>1, <1>3, <2>2 DEF Database!Component, Database!Front
  <2>4. PICK s : s = SubSeq(q, 1, Len(q) - 1)
    OBVIOUS
  <2>5. s \in Seq(STRING) /\ Len(s) = Len(q) - 1 /\ \A j \in 1 .. Len(q) - 1 : s[j] = q[j]
    <3>1. PICK n \in Int : n = Len(q) - 1
      BY <1>1
    <3>2. \A i \in 1 .. n : q[i] \in STRING
      BY <1>1, <3>1
    <3>3. /\ s \in Seq(STRING)
          /\ Len(s) = IF 1 <= n THEN n - 1 + 1 ELSE 0
          /\ \A i \in 1 .. n - 1 + 1 : s[i] = q[1 + i - 1]
      BY <2>4, <3>1, <3>2, SubSeqProperties
    <3> QED
      BY <1>1, <2>1, <3>1, <3>3
  <2>6. Clean(s)
    BY <1>1, <2>1, <2>5 DEF Clean
  <2> QED
    BY <2>3, <2>4, <2>6
<1>4. CASE c \notin {".", ".."}
  <2>1. Database!Component(q, c) = Append(q, c)
    BY <1>4 DEF Database!Component
  <2>2. Append(q, c) \in Seq(STRING) /\ Len(Append(q, c)) = Len(q) + 1 /\ Append(q, c)[Len(q) + 1] = c
        /\ \A j \in 1 .. Len(q) : Append(q, c)[j] = q[j]
    BY <1>1
  <2>3. Clean(Append(q, c))
    BY <1>1, <1>4, <2>2 DEF Clean
  <2> QED
    BY <2>1, <2>3
<1> QED
  BY <1>2, <1>3, <1>4

LEMMA NoDotsAreLeft ==
  ASSUME NEW p \in Seq(STRING), p # <<>>, p[1] = "/"
  PROVE  Clean(Database!RemoveDots(p))
<1>1. PICK walk : /\ walk[0] = <<>>
                  /\ \A k \in 1 .. Len(p) : walk[k] = Database!Component(walk[k - 1], p[k])
                  /\ Database!RemoveDots(p) = walk[Len(p)]
  BY RemoveDotsIs
<1>2. Len(p) \in Nat /\ Len(p) > 0
  OBVIOUS
<1> DEFINE T == {k \in 1 .. Len(p) : ~ Clean(walk[k])}
<1>3. T = {}
  <2>1. SUFFICES ASSUME T # {} PROVE FALSE
    OBVIOUS
  <2>2. PICK k \in T : \A j \in T : k <= j
    <3>1. T \subseteq Nat
      BY <1>2
    <3> QED
      BY <2>1, <3>1, Smallest
  <2>3. CASE k = 1
    <3>1. walk[1] = Database!Component(walk[1 - 1], p[1])
      BY <1>1, <1>2
    <3>2. walk[1] = Database!Component(<<>>, "/")
      BY <1>1, <3>1
    <3>3. walk[1] = <<"/">>
      BY <3>2 DEF Database!Component
    <3>4. Clean(<<"/">>)
      BY DEF Clean
    <3> QED
      BY <2>2, <2>3, <3>3, <3>4
  <2>4. CASE k # 1
    <3>1. k - 1 \in 1 .. Len(p) /\ ~ (k <= k - 1)
      BY <1>2, <2>4
    <3>2. Clean(walk[k - 1])
      BY <2>2, <3>1
    <3>3. p[k] \in STRING
      OBVIOUS
    <3> QED
      BY <1>1, <2>2, <3>2, <3>3, ComponentIsClean
  <2> QED
    BY <2>3, <2>4
<1> QED
  BY <1>1, <1>2, <1>3

LEMMA CleanStays ==
  ASSUME NEW p, Clean(p)
  PROVE  Database!RemoveDots(p) = p
<1>1. p \in Seq(STRING) /\ Len(p) \in Nat /\ Len(p) > 0 /\ p[1] = "/"
  BY DEF Clean
<1>2. PICK walk : /\ walk[0] = <<>>
                  /\ \A k \in 1 .. Len(p) : walk[k] = Database!Component(walk[k - 1], p[k])
                  /\ Database!RemoveDots(p) = walk[Len(p)]
  BY <1>1, RemoveDotsIs
<1> DEFINE T == {k \in 1 .. Len(p) : ~ walk[k] = SubSeq(p, 1, k)}
<1>3. T = {}
  <2>1. SUFFICES ASSUME T # {} PROVE FALSE
    OBVIOUS
  <2>2. PICK k \in T : \A j \in T : k <= j
    <3>1. T \subseteq Nat
      BY <1>1
    <3> QED
      BY <2>1, <3>1, Smallest
  <2>3. CASE k = 1
    <3>1. walk[1] = Database!Component(walk[1 - 1], p[1])
      BY <1>1, <1>2
    <3>2. walk[1] = Database!Component(<<>>, "/")
      BY <1>1, <1>2, <3>1
    <3>3. walk[1] = <<"/">>
      BY <3>2 DEF Database!Component
    <3>4. SubSeq(p, 1, 1) = <<"/">>
      <4>1. PICK s : s = SubSeq(p, 1, 1)
        OBVIOUS
      <4>2. \A i \in 1 .. 1 : p[i] \in STRING
        BY <1>1
      <4>3. /\ s \in Seq(STRING)
            /\ Len(s) = IF 1 <= 1 THEN 1 - 1 + 1 ELSE 0
            /\ \A i \in 1 .. 1 - 1 + 1 : s[i] = p[1 + i - 1]
        BY <4>1, <4>2, SubSeqProperties
      <4>4. Len(s) = 1 /\ s[1] = "/"
        BY <1>1, <4>3
      <4>5. s = <<"/">>
        BY <4>3, <4>4
      <4> QED
        BY <4>1, <4>5
    <3> QED
      BY <2>2, <2>3, <3>3, <3>4
  <2>4. CASE k # 1
    <3>1. k - 1 \in 1 .. Len(p) /\ ~ (k <= k - 1) /\ k \in 2 .. Len(p)
      BY <1>1, <2>4
    <3>2. walk[k - 1] = SubSeq(p, 1, k - 1)
      BY <2>2, <3>1
    <3>3. p[k] \in STRING /\ p[k] \notin {".", ".."}
      BY <1>1, <3>1 DEF Clean
    <3>4. walk[k] = Append(SubSeq(p, 1, k - 1), p[k])
      BY <1>2, <3>2, <3>3 DEF Database!Component
    <3>5. Append(SubSeq(p, 1, k - 1), p[k]) = SubSeq(p, 1, k)
      BY <1>1, <3>1
    <3> QED
      BY <2>2, <3>4, <3>5
  <2> QED
    BY <2>3, <2>4
<1>4. walk[Len(p)] = SubSeq(p, 1, Len(p))
  BY <1>1, <1>3
<1> QED
  BY <1>1, <1>2, <1>4

\* The path of a file is absolute, and only its root is called "/".
Absolute(p) == p \in Seq(STRING) /\ p # <<>> /\ p[1] = "/" /\ \A j \in 2 .. Len(p) : p[j] # "/"

LEMMA LocationIs ==
  ASSUME NEW tool, tool.directory \in Directories, tool.file \in Files
  PROVE  Absolute(Database!Location(tool)) /\ Database!PathOf(tool) = Database!Location(tool)
<1>a. PICK d : d = tool.directory
  OBVIOUS
<1>b. PICK f : f = tool.file
  OBVIOUS
<1>1. d \in Seq(STRING) /\ d # <<>> /\ d[1] = "/" /\ \A k \in 2 .. Len(d) : d[k] # "/"
  BY <1>a, DirectoriesAssumption DEF IsPath, Database!IsAbsolute
<1>2. f \in Seq(STRING) /\ f # <<>> /\ \A k \in 2 .. Len(f) : f[k] # "/"
  BY <1>b, PathsAssumption DEF IsPath
<1>3. Database!PathOf(tool) = Database!Location(tool)
  BY <1>b, <1>2 DEF Database!PathOf, Database!AbsoluteFilePath, Database!Location
<1>4. CASE f[1] = "/"
  <2>1. Database!Location(tool) = f
    BY <1>b, <1>2, <1>4 DEF Database!Location, Database!IsAbsolute
  <2> QED
    BY <1>2, <1>3, <1>4, <2>1 DEF Absolute
<1>5. CASE f[1] # "/"
  <2>1. Database!Location(tool) = d \o f
    <3>1. Head(f) = f[1]
      BY <1>2
    <3>2. ~ Database!IsAbsolute(tool.file)
      BY <1>b, <1>5, <3>1 DEF Database!IsAbsolute
    <3> QED
      BY <1>a, <1>b, <3>2 DEF Database!Location
  <2>2. PICK p : p = d \o f
    OBVIOUS
  <2>3. /\ p \in Seq(STRING) /\ Len(d) \in Nat /\ Len(d) > 0 /\ Len(f) \in Nat /\ Len(p) = Len(d) + Len(f)
        /\ \A k \in 1 .. Len(d) : p[k] = d[k]
        /\ \A k \in 1 .. Len(f) : p[Len(d) + k] = f[k]
    <3>1. /\ d \o f \in Seq(STRING) /\ Len(d \o f) = Len(d) + Len(f)
          /\ \A i \in 1 .. Len(d) + Len(f) : (d \o f)[i] = IF i <= Len(d) THEN d[i] ELSE f[i - Len(d)]
      BY <1>1, <1>2, ConcatProperties
    <3>2. Len(d) \in Nat /\ Len(d) > 0 /\ Len(f) \in Nat
      BY <1>1, <1>2
    <3>3. \A k \in 1 .. Len(d) : p[k] = d[k]
      BY <2>2, <3>1, <3>2
    <3>4. ASSUME NEW k \in 1 .. Len(f) PROVE p[Len(d) + k] = f[k]
      <4>1. Len(d) + k \in 1 .. Len(d) + Len(f) /\ ~ (Len(d) + k <= Len(d)) /\ (Len(d) + k) - Len(d) = k
        BY <3>2
      <4> QED
        BY <2>2, <3>1, <4>1
    <3> QED
      BY <2>2, <3>1, <3>2, <3>3, <3>4
  <2>4. ASSUME NEW j \in 2 .. Len(p)
        PROVE  p[j] # "/"
    <3>1. CASE j <= Len(d)
      BY <1>1, <2>3, <3>1
    <3>2. CASE j > Len(d)
      <4>1. PICK k \in 1 .. Len(f) : j = Len(d) + k
        <5>1. j - Len(d) \in 1 .. Len(f) /\ j = Len(d) + (j - Len(d))
          BY <2>3, <3>2
        <5> QED
          BY <5>1
      <4>2. f[k] # "/"
        BY <1>2, <1>5, <2>3, <4>1
      <4> QED
        BY <2>3, <4>1, <4>2
    <3> QED
      BY <2>3, <3>1, <3>2
  <2>5. p # <<>> /\ p[1] = "/"
    BY <1>1, <2>3
  <2>6. Absolute(p)
    BY <2>3, <2>4, <2>5 DEF Absolute
  <2> QED
    BY <1>3, <2>1, <2>2, <2>6
<1> QED
  BY <1>4, <1>5

LEMMA AskedIs ==
  ASSUME NEW p \in Database!Asked
  PROVE  Absolute(p)
<1>1. PICK d \in Directories, f \in Files : p = Database!Location([directory |-> d, file |-> f])
  BY DEF Database!Asked
<1>2. PICK tool : tool = [directory |-> d, file |-> f]
  OBVIOUS
<1>3. tool.directory \in Directories /\ tool.file \in Files
  BY <1>2
<1> QED
  BY <1>1, <1>2, <1>3, LocationIs

\* A path is found by its last component only if it has no other.
LEMMA FilenameIs ==
  ASSUME NEW p, Absolute(p), Absolute(Database!Filename(p))
  PROVE  Database!Filename(p) = p
<1>1. p \in Seq(STRING) /\ Len(p) \in Nat /\ Len(p) > 0 /\ p[1] = "/"
  BY DEF Absolute
<1>2. Database!Filename(p) = <<p[Len(p)]>> /\ Database!Filename(p)[1] = p[Len(p)]
  BY DEF Database!Filename, Database!Last
<1>3. p[Len(p)] = "/"
  BY <1>2 DEF Absolute
<1>4. Len(p) = 1
  <2>1. PICK n : n = Len(p)
    OBVIOUS
  <2>2. n \in Nat /\ n > 0 /\ n \notin 2 .. n
    BY <1>1, <1>3, <2>1 DEF Absolute
  <2>3. n = 1
    BY <2>2
  <2> QED
    BY <2>1, <2>3
<1> QED
  BY <1>1, <1>2, <1>4

LEMMA DotsOnce ==
  ASSUME NEW p, Absolute(p)
  PROVE  Database!RemoveDots(Database!RemoveDots(p)) = Database!RemoveDots(p)
<1>1. Clean(Database!RemoveDots(p))
  BY NoDotsAreLeft DEF Absolute
<1> QED
  BY <1>1, CleanStays

\* Of the tools with one path the last is in the table.
LEMMA TableIs ==
  ASSUME NEW tools \in Seq(Database!Tool), NEW recorded \in SUBSET (DOMAIN tools), NEW who,
         NEW q \in DOMAIN Database!Table(tools, who, recorded)
  PROVE  \E k \in recorded :
           /\ Database!Location(tools[k]) = q
           /\ Database!IsLast(tools, recorded, k)
           /\ Database!Table(tools, who, recorded)[q] = Database!Entry(Database!Said(tools, who, k))
<1> DEFINE same == {k \in recorded : Database!PathOf(tools[k]) = q}
           Last(k) == Database!PathOf(tools[k]) = q /\ \A j \in recorded : Database!PathOf(tools[j]) = q => j <= k
<1>1. \A k \in recorded : Database!PathOf(tools[k]) = Database!Location(tools[k])
  <2> SUFFICES ASSUME NEW k \in recorded PROVE Database!PathOf(tools[k]) = Database!Location(tools[k])
    OBVIOUS
  <2>1. tools[k] \in Database!Tool
    OBVIOUS
  <2>2. tools[k].directory \in Directories /\ tools[k].file \in Files
    BY <2>1 DEF Database!Tool
  <2> QED
    BY <2>2, LocationIs
<1>2. same # {}
  BY DEF Database!Table
<1>3. \E k \in recorded : Last(k)
  <2> DEFINE T == {Len(tools) - k : k \in same}
  <2>1. Len(tools) \in Nat /\ \A k \in recorded : k \in Nat /\ k <= Len(tools)
    OBVIOUS
  <2>2. T \in SUBSET Nat /\ T # {}
    BY <1>2, <2>1
  <2>3. PICK n \in T : \A m \in T : n <= m
    BY <2>2, Smallest
  <2>4. PICK k \in same : n = Len(tools) - k
    BY <2>3
  <2>5. \A j \in same : j <= k
    <3> SUFFICES ASSUME NEW j \in same PROVE j <= k
      OBVIOUS
    <3>1. Len(tools) - j \in T
      OBVIOUS
    <3>2. n <= Len(tools) - j
      BY <2>3, <3>1
    <3> QED
      BY <2>1, <2>4, <3>2
  <2> QED
    BY <2>4, <2>5
<1>4. PICK k : k = CHOOSE i \in recorded : Last(i)
  OBVIOUS
<1>5. k \in recorded /\ Last(k)
  BY <1>3, <1>4
<1>6. Database!Table(tools, who, recorded)[q] = Database!Entry(Database!Said(tools, who, k))
  BY <1>4 DEF Database!Table
<1>7. Database!IsLast(tools, recorded, k)
  BY <1>1, <1>5 DEF Database!IsLast
<1> QED
  BY <1>1, <1>5, <1>6, <1>7

-----------------------------------------------------------------------------
(* Who gave the flags of an entry: its words are those of its line and the *)
(* extra ones, and the one that is nobody else's.                          *)

Words(s) == {s[j] : j \in DOMAIN s}

LEMMA SeqGrows == \A T, S : T \subseteq S => \A s \in Seq(T) : s \in Seq(S)
  OBVIOUS

LEMMA WordsOfBoth ==
  ASSUME NEW S, NEW s \in Seq(S), NEW t \in Seq(S)
  PROVE  s \o t \in Seq(S) /\ Words(s \o t) = Words(s) \cup Words(t)
<1>1. /\ s \o t \in Seq(S) /\ Len(s \o t) = Len(s) + Len(t)
      /\ \A i \in 1 .. Len(s) + Len(t) : (s \o t)[i] = IF i <= Len(s) THEN s[i] ELSE t[i - Len(s)]
  BY ConcatProperties
<1>2. PICK u : u = s \o t
  OBVIOUS
<1>3. Len(s) \in Nat /\ Len(t) \in Nat /\ DOMAIN s = 1 .. Len(s) /\ DOMAIN t = 1 .. Len(t) /\ DOMAIN u = 1 .. Len(s) + Len(t)
  BY <1>1, <1>2
<1>4. ASSUME NEW i \in DOMAIN u PROVE u[i] \in Words(s) \cup Words(t)
  <2>1. CASE i <= Len(s)
    <3>1. i \in DOMAIN s /\ u[i] = s[i]
      BY <1>1, <1>2, <1>3, <2>1
    <3> QED
      BY <3>1 DEF Words
  <2>2. CASE ~ (i <= Len(s))
    <3>1. i - Len(s) \in DOMAIN t /\ u[i] = t[i - Len(s)]
      BY <1>1, <1>2, <1>3, <2>2
    <3> QED
      BY <3>1 DEF Words
  <2> QED
    BY <2>1, <2>2
<1>5. ASSUME NEW j \in DOMAIN s PROVE s[j] \in Words(u)
  <2>1. j \in DOMAIN u /\ u[j] = s[j]
    BY <1>1, <1>2, <1>3
  <2> QED
    BY <2>1 DEF Words
<1>6. ASSUME NEW j \in DOMAIN t PROVE t[j] \in Words(u)
  <2>1. Len(s) + j \in DOMAIN u /\ ~ (Len(s) + j <= Len(s)) /\ (Len(s) + j) - Len(s) = j
    BY <1>3
  <2>2. u[Len(s) + j] = t[j]
    BY <1>1, <1>2, <1>3, <2>1
  <2> QED
    BY <2>1, <2>2 DEF Words
<1>7. Words(u) = Words(s) \cup Words(t)
  BY <1>4, <1>5, <1>6 DEF Words
<1> QED
  BY <1>1, <1>2, <1>7

\* the compiler and the flags of a line, with a word behind it
LEMMA WordsOfLine ==
  ASSUME NEW line \in Seq(STRING), line # <<>>, NEW w \in STRING
  PROVE  /\ Head(Append(line, w)) \in Words(line)
         /\ Tail(Append(line, w)) \in Seq(STRING)
         /\ Words(Tail(Append(line, w))) \subseteq Words(line) \cup {w}
         /\ w \in Words(Tail(Append(line, w)))
<1>1. PICK s : s = Append(line, w)
  OBVIOUS
<1>2. /\ Len(line) \in Nat /\ Len(line) > 0 /\ DOMAIN line = 1 .. Len(line)
      /\ s \in Seq(STRING) /\ Len(s) = Len(line) + 1 /\ s # <<>>
      /\ s[Len(line) + 1] = w /\ \A j \in 1 .. Len(line) : s[j] = line[j]
  <2>1. Len(line) \in Nat /\ Len(line) > 0 /\ DOMAIN line = 1 .. Len(line)
    OBVIOUS
  <2>2. /\ s \in Seq(STRING) /\ Len(s) = Len(line) + 1
        /\ \A i \in 1 .. Len(line) : s[i] = line[i]
        /\ s[Len(line) + 1] = w
    BY <1>1, AppendProperties
  <2>3. s # <<>>
    BY <2>1, <2>2
  <2> QED
    BY <2>1, <2>2, <2>3
<1>3. PICK t : t = Tail(s)
  OBVIOUS
<1>4. /\ t \in Seq(STRING) /\ Len(t) = Len(line) /\ DOMAIN t = 1 .. Len(line)
      /\ \A i \in 1 .. Len(line) : t[i] = s[i + 1]
  <2>1. t \in Seq(STRING) /\ Len(t) = Len(s) - 1 /\ \A i \in 1 .. Len(t) : t[i] = s[i + 1]
    BY <1>2, <1>3, HeadTailProperties
  <2> QED
    BY <1>2, <2>1
<1>5. Head(s) = line[1] /\ 1 \in DOMAIN line
  BY <1>2
<1>6. Head(s) \in Words(line)
  BY <1>5 DEF Words
<1>7. ASSUME NEW i \in DOMAIN t PROVE t[i] \in Words(line) \cup {w}
  <2>1. CASE i = Len(line)
    BY <1>2, <1>4, <2>1
  <2>2. CASE i # Len(line)
    <3>1. i + 1 \in DOMAIN line /\ t[i] = line[i + 1]
      BY <1>2, <1>4, <2>2
    <3> QED
      BY <3>1 DEF Words
  <2> QED
    BY <2>1, <2>2
<1>8. Len(line) \in DOMAIN t /\ t[Len(line)] = w
  <2>1. PICK n \in Nat : n = Len(line)
    BY <1>2
  <2>2. n \in 1 .. n
    BY <1>2, <2>1
  <2> QED
    BY <1>2, <1>4, <2>1, <2>2
<1>9. Words(t) \subseteq Words(line) \cup {w}
  BY <1>7 DEF Words
<1>10. w \in Words(t)
  BY <1>8 DEF Words
<1> QED
  BY <1>1, <1>3, <1>4, <1>6, <1>9, <1>10

LEMMA OtherWordsAre ==
  /\ "" \in OtherWords /\ "-resource-dir" \in OtherWords
  /\ \A line \in Lines \cup Extra : line \in Seq(STRING) /\ Words(line) \subseteq OtherWords
<1>1. \A line \in Lines \cup Extra : Words(line) \subseteq OtherWords
  BY DEF Words, OtherWords, Database!ToSet
<1> QED
  BY <1>1, LinesAssumption DEF OtherWords

\* An answer is the name of a directory that is made from that of the compiler, or empty.
AnswersAre == \A c \in DOMAIN resourceDirs : resourceDirs[c] \in Database!Answers(c)

LEMMA EntryWords ==
  ASSUME AnswersAre, NEW tools \in Seq(Database!Tool), extraFlags \in Extra, NEW who \in Seq(STRING),
         NEW k \in DOMAIN tools, k \in DOMAIN who, who[k] \notin OtherWords,
         NEW e, Resolved(e, Database!Entry(Database!Said(tools, who, k)))
  PROVE  /\ Words(e.flags) \subseteq OtherWords \cup {who[k]}
         /\ who[k] \in Words(e.flags) <=> tools[k].line # <<>>
<1>1. PICK line : line = tools[k].line
  OBVIOUS
<1>2. line \in Lines
  <2>1. tools[k] \in Database!Tool
    OBVIOUS
  <2> QED
    BY <1>1, <2>1 DEF Database!Tool
<1>3. /\ line \in Seq(STRING) /\ Words(line) \subseteq OtherWords
      /\ extraFlags \in Seq(STRING) /\ Words(extraFlags) \subseteq OtherWords
  BY <1>2, OtherWordsAre
<1>4. CASE line = <<>>
  <2>1. Database!Entry(Database!Said(tools, who, k)) = [compiler |-> "", flags |-> extraFlags]
    BY <1>1, <1>4 DEF Database!Said, Database!Entry
  <2>2. e = [compiler |-> "", flags |-> extraFlags]
    <3>1. PICK original : original = [compiler |-> "", flags |-> extraFlags]
      OBVIOUS
    <3>2. original.compiler = ""
      BY <3>1
    <3>3. ~ Database!NeedsResourceDir(original)
      BY <3>2 DEF Database!NeedsResourceDir
    <3> QED
      BY <2>1, <3>1, <3>3 DEF Resolved
  <2>3. e.flags = extraFlags
    BY <2>2
  <2> QED
    BY <1>1, <1>3, <1>4, <2>3
<1>5. CASE line # <<>>
  <2>1. PICK w \in STRING : w = who[k]
    <3>1. who[k] \in STRING
      BY ElementOfSeq
    <3> QED
      BY <3>1
  <2>2. Database!Said(tools, who, k) = Append(line, w)
    BY <1>1, <1>5, <2>1 DEF Database!Said
  <2>3. PICK compiler : compiler = Head(Append(line, w))
    OBVIOUS
  <2>4. PICK rest : rest = Tail(Append(line, w))
    OBVIOUS
  <2>5. /\ compiler \in Words(line) /\ rest \in Seq(STRING) /\ Words(rest) \subseteq Words(line) \cup {w}
        /\ w \in Words(rest)
    BY <1>3, <1>5, <2>3, <2>4, WordsOfLine
  <2>6. PICK flags : flags = rest \o extraFlags
    OBVIOUS
  <2>7. flags \in Seq(STRING) /\ Words(flags) = Words(rest) \cup Words(extraFlags)
    BY <1>3, <2>5, <2>6, WordsOfBoth
  <2>8. PICK original : original = [compiler |-> compiler, flags |-> flags]
    OBVIOUS
  <2>9. Append(line, w) # <<>>
    BY <1>3, <2>1
  <2>10. Database!Entry(Database!Said(tools, who, k)) = original
    BY <2>2, <2>3, <2>4, <2>6, <2>8, <2>9 DEF Database!Entry
  <2>11. Words(e.flags) \subseteq Words(flags) \cup OtherWords /\ Words(flags) \subseteq Words(e.flags)
    <3>1. CASE e = original
      BY <2>8, <3>1
    <3>2. CASE e # original
      <4>1. compiler \in DOMAIN resourceDirs /\ e = Database!WithResourceDir(original, resourceDirs[compiler])
        BY <2>8, <2>10, <3>2 DEF Resolved
      <4>2. PICK dir : dir = resourceDirs[compiler]
        OBVIOUS
      <4>3. dir \in {"", compiler}
        BY <4>1, <4>2 DEF AnswersAre, Database!Answers
      <4>4. e.flags = flags \o <<"-resource-dir", dir>>
        BY <2>8, <3>2, <4>1, <4>2 DEF Database!WithResourceDir
      <4>5. PICK S : S = STRING \cup {"-resource-dir", dir}
        OBVIOUS
      <4>6. PICK added : added = <<"-resource-dir", dir>>
        OBVIOUS
      <4>7. "-resource-dir" \in S /\ dir \in S /\ STRING \subseteq S
        BY <4>5
      <4>8. added \in Seq(S) /\ Words(added) = {"-resource-dir", dir}
        <5>1. \A x, y \in S : <<x, y>> \in Seq(S)
          OBVIOUS
        <5>2. added \in Seq(S)
          BY <4>6, <4>7, <5>1
        <5>3. Words(added) = {"-resource-dir", dir}
          BY <4>6 DEF Words
        <5> QED
          BY <5>2, <5>3
      <4>9. Words(e.flags) = Words(flags) \cup Words(added)
        <5>1. flags \in Seq(S)
          BY <2>7, <4>7, SeqGrows, Zenon
        <5>2. Words(flags \o added) = Words(flags) \cup Words(added)
          BY <4>8, <5>1, WordsOfBoth
        <5> QED
          BY <4>4, <4>6, <5>2
      <4>10. compiler \in OtherWords /\ "" \in OtherWords /\ "-resource-dir" \in OtherWords
        BY <1>3, <2>5, OtherWordsAre
      <4> QED
        BY <4>3, <4>8, <4>9, <4>10
    <3> QED
      BY <3>1, <3>2
  <2> QED
    BY <1>1, <1>3, <1>5, <2>1, <2>5, <2>7, <2>11
<1> QED
  BY <1>4, <1>5

LEMMA WordsDiffer ==
  /\ UnitWords \in Seq(STRING) /\ CommandWords \in Seq(STRING)
  /\ \A k \in DOMAIN UnitWords : UnitWords[k] \notin OtherWords
  /\ \A k \in DOMAIN CommandWords : CommandWords[k] \notin OtherWords
  /\ \A j, k \in DOMAIN UnitWords : UnitWords[j] = UnitWords[k] => j = k
  /\ \A j, k \in DOMAIN CommandWords : CommandWords[j] = CommandWords[k] => j = k
  /\ \A j \in DOMAIN UnitWords, k \in DOMAIN CommandWords : UnitWords[j] # CommandWords[k]
<1>1. UnitWords \in Seq(STRING) /\ CommandWords \in Seq(STRING)
  BY WordsAssumption
<1>2. PICK n \in Nat : n = Len(UnitWords)
  BY <1>1
<1>3. PICK m \in Nat : m = Len(CommandWords)
  BY <1>1
<1>4. DOMAIN UnitWords = 1 .. n /\ DOMAIN CommandWords = 1 .. m
  BY <1>1, <1>2, <1>3
<1>5. PICK s : s = UnitWords \o CommandWords
  OBVIOUS
<1>6. /\ s \in Seq(STRING) /\ Len(s) = n + m
      /\ \A i \in 1 .. n + m : s[i] = IF i <= n THEN UnitWords[i] ELSE CommandWords[i - n]
  BY <1>1, <1>2, <1>3, <1>5, ConcatProperties
<1>7. DOMAIN s = 1 .. n + m
  BY <1>6
<1>8. /\ \A i, j \in DOMAIN s : s[i] = s[j] => i = j
      /\ \A i \in DOMAIN s : s[i] \notin OtherWords
  BY <1>5, WordsAssumption DEF Database!IsInjective, Database!ToSet
<1>9. ASSUME NEW k \in 1 .. n PROVE k \in DOMAIN s /\ s[k] = UnitWords[k]
  BY <1>6, <1>7
<1>10. ASSUME NEW k \in 1 .. m PROVE n + k \in DOMAIN s /\ s[n + k] = CommandWords[k]
  <2>1. n + k \in 1 .. n + m /\ ~ (n + k <= n) /\ (n + k) - n = k
    OBVIOUS
  <2> QED
    BY <1>6, <1>7, <2>1
<1>11. \A j, k \in 1 .. m : n + j = n + k => j = k
  OBVIOUS
<1>12. \A j \in 1 .. n, k \in 1 .. m : j # n + k
  OBVIOUS
<1>13. \A j, k \in 1 .. n : UnitWords[j] = UnitWords[k] => j = k
  BY <1>8, <1>9
<1>14. \A j, k \in 1 .. m : CommandWords[j] = CommandWords[k] => j = k
  BY <1>8, <1>10, <1>11
<1>15. \A j \in 1 .. n, k \in 1 .. m : UnitWords[j] # CommandWords[k]
  BY <1>8, <1>9, <1>10, <1>12
<1> QED
  BY <1>1, <1>4, <1>8, <1>9, <1>10, <1>13, <1>14, <1>15

-----------------------------------------------------------------------------
\* The tools are as many as there are words for them, and their tables have the paths they are for.
ToolsAre ==
  /\ units \in Seq(Database!Tool) /\ Len(units) <= Len(UnitWords)
  /\ commands \in Seq(Database!Tool) /\ Len(commands) <= Len(CommandWords)
  /\ pc # "start" => extraFlags \in Extra

FlagsInv ==
  /\ ToolsAre /\ AnswersAre
  /\ pc \in {"database", "bitcode", "ready"} =>
       /\ DOMAIN bitcodeFlags = DOMAIN Database!BitcodeTable
       /\ DOMAIN database \in {{}, DOMAIN Database!CommandTable}

LEMMA SourcesAre ==
  ASSUME NEW e, NEW tools, NEW who
  PROVE  Database!Sources(e, tools, who) = {k \in DOMAIN tools : who[k] \in Words(e.flags)}
BY DEF Database!Sources, Words

LEMMA HasWords ==
  ASSUME ToolsAre
  PROVE  /\ \A k \in DOMAIN units : k \in DOMAIN UnitWords
         /\ \A k \in DOMAIN commands : k \in DOMAIN CommandWords
<1>1. /\ UnitWords \in Seq(STRING) /\ CommandWords \in Seq(STRING)
      /\ units \in Seq(Database!Tool) /\ commands \in Seq(Database!Tool)
      /\ Len(units) <= Len(UnitWords) /\ Len(commands) <= Len(CommandWords)
  BY WordsDiffer DEF ToolsAre
<1>2. Len(units) \in Nat /\ DOMAIN units = 1 .. Len(units) /\ Len(UnitWords) \in Nat /\ DOMAIN UnitWords = 1 .. Len(UnitWords)
  BY <1>1
<1>3. Len(commands) \in Nat /\ DOMAIN commands = 1 .. Len(commands)
      /\ Len(CommandWords) \in Nat /\ DOMAIN CommandWords = 1 .. Len(CommandWords)
  BY <1>1
<1> QED
  BY <1>1, <1>2, <1>3

LEMMA UnitSources ==
  ASSUME ToolsAre, AnswersAre, pc # "start", NEW k \in DOMAIN units, units[k].line # <<>>,
         NEW e, Resolved(e, Database!Entry(Database!Said(units, UnitWords, k)))
  PROVE  /\ Database!Sources(e, units, UnitWords) = {k}
         /\ Database!Sources(e, commands, CommandWords) = {}
<1>1. k \in DOMAIN UnitWords
  BY HasWords
<1>2. Words(e.flags) \subseteq OtherWords \cup {UnitWords[k]} /\ UnitWords[k] \in Words(e.flags)
  BY <1>1, EntryWords, WordsDiffer DEF ToolsAre
<1>3. \A j \in DOMAIN units : UnitWords[j] \in Words(e.flags) => j = k
  BY <1>1, <1>2, HasWords, WordsDiffer
<1>4. \A j \in DOMAIN commands : CommandWords[j] \notin Words(e.flags)
  BY <1>1, <1>2, HasWords, WordsDiffer
<1> QED
  BY <1>2, <1>3, <1>4, SourcesAre

LEMMA CommandSources ==
  ASSUME ToolsAre, AnswersAre, pc # "start", NEW k \in DOMAIN commands,
         NEW e, Resolved(e, Database!Entry(Database!Said(commands, CommandWords, k)))
  PROVE  /\ Database!Sources(e, units, UnitWords) = {}
         /\ Database!Sources(e, commands, CommandWords) = IF commands[k].line = <<>> THEN {} ELSE {k}
<1>1. k \in DOMAIN CommandWords
  BY HasWords
<1>2. /\ Words(e.flags) \subseteq OtherWords \cup {CommandWords[k]}
      /\ CommandWords[k] \in Words(e.flags) <=> commands[k].line # <<>>
  BY <1>1, EntryWords, WordsDiffer DEF ToolsAre
<1>3. \A j \in DOMAIN commands : CommandWords[j] \in Words(e.flags) => j = k
  BY <1>1, <1>2, HasWords, WordsDiffer
<1>4. \A j \in DOMAIN units : UnitWords[j] \notin Words(e.flags)
  BY <1>1, <1>2, HasWords, WordsDiffer
<1> QED
  BY <1>2, <1>3, <1>4, SourcesAre

LEMMA FallbackSources ==
  ASSUME ToolsAre, pc # "start"
  PROVE  /\ Database!Sources(Database!Fallback, units, UnitWords) = {}
         /\ Database!Sources(Database!Fallback, commands, CommandWords) = {}
<1>1. Words(extraFlags) \subseteq OtherWords
  BY OtherWordsAre DEF ToolsAre
<1>2. Database!Fallback.flags = extraFlags
  BY DEF Database!Fallback
<1>3. \A j \in DOMAIN units : UnitWords[j] \notin Words(extraFlags)
  BY <1>1, HasWords, WordsDiffer
<1>4. \A j \in DOMAIN commands : CommandWords[j] \notin Words(extraFlags)
  BY <1>1, HasWords, WordsDiffer
<1> QED
  BY <1>2, <1>3, <1>4, SourcesAre

-----------------------------------------------------------------------------
\* what is known of an entry that is in one of the two tables
LEMMA BitcodeEntry ==
  ASSUME DatabaseInv, FlagsInv, pc = "ready", NEW q \in DOMAIN bitcodeFlags
  PROVE  \E k \in Database!RecordedUnits :
           /\ Database!Location(units[k]) = q
           /\ Database!IsLast(units, Database!RecordedUnits, k)
           /\ Database!Sources(bitcodeFlags[q], units, UnitWords) = {k}
           /\ Database!Sources(bitcodeFlags[q], commands, CommandWords) = {}
<1>1. ToolsAre /\ AnswersAre /\ q \in DOMAIN Database!BitcodeTable
  BY DEF FlagsInv
<1>2. Resolved(bitcodeFlags[q], Database!BitcodeTable[q])
  BY DEF DatabaseInv, TablesInv, ResolvedBut
<1>3. Database!RecordedUnits \in SUBSET DOMAIN units /\ units \in Seq(Database!Tool)
  BY <1>1 DEF Database!RecordedUnits, ToolsAre
<1>4. PICK k \in Database!RecordedUnits :
        /\ Database!Location(units[k]) = q
        /\ Database!IsLast(units, Database!RecordedUnits, k)
        /\ Database!BitcodeTable[q] = Database!Entry(Database!Said(units, UnitWords, k))
  BY <1>1, <1>3, TableIs DEF Database!BitcodeTable
<1>5. k \in DOMAIN units /\ units[k].line # <<>>
  BY DEF Database!RecordedUnits
<1>6. Resolved(bitcodeFlags[q], Database!Entry(Database!Said(units, UnitWords, k)))
  BY <1>2, <1>4
<1> QED
  BY <1>1, <1>4, <1>5, <1>6, UnitSources

LEMMA CommandEntry ==
  ASSUME DatabaseInv, FlagsInv, pc = "ready", NEW q \in DOMAIN database
  PROVE  \E k \in DOMAIN commands :
           /\ Database!Location(commands[k]) = q
           /\ Database!IsLast(commands, DOMAIN commands, k)
           /\ Database!Sources(database[q], units, UnitWords) = {}
           /\ Database!Sources(database[q], commands, CommandWords) = IF commands[k].line = <<>> THEN {} ELSE {k}
<1>1. ToolsAre /\ AnswersAre /\ q \in DOMAIN Database!CommandTable
  BY DEF FlagsInv
<1>2. Resolved(database[q], Database!CommandTable[q])
  BY DEF DatabaseInv, TablesInv, ResolvedBut
<1>3. DOMAIN commands \in SUBSET DOMAIN commands /\ commands \in Seq(Database!Tool)
  BY <1>1 DEF ToolsAre
<1>4. PICK k \in DOMAIN commands :
        /\ Database!Location(commands[k]) = q
        /\ Database!IsLast(commands, DOMAIN commands, k)
        /\ Database!CommandTable[q] = Database!Entry(Database!Said(commands, CommandWords, k))
  BY <1>1, <1>3, TableIs DEF Database!CommandTable
<1>6. Resolved(database[q], Database!Entry(Database!Said(commands, CommandWords, k)))
  BY <1>2, <1>4
<1> QED
  BY <1>1, <1>4, <1>6, CommandSources

\* The lookup finds an entry of the bitcode, or none is there, one of the database.
KeysOf(p) == {p, Database!Filename(p), Database!RemoveDots(p)}

LEMMA LookupIs ==
  ASSUME NEW p
  PROVE  \/ /\ Database!CompilationFlagsForFile(p) = Database!Fallback
            /\ \A q \in KeysOf(p) : q \notin DOMAIN bitcodeFlags /\ q \notin DOMAIN database
         \/ \E q \in KeysOf(p) : q \in DOMAIN bitcodeFlags /\ Database!CompilationFlagsForFile(p) = bitcodeFlags[q]
         \/ /\ \A q \in KeysOf(p) : q \notin DOMAIN bitcodeFlags
            /\ \E q \in KeysOf(p) : q \in DOMAIN database /\ Database!CompilationFlagsForFile(p) = database[q]
<1> DEFINE t == Database!Tries(p)
           hits == {k \in 1 .. 6 : t[k].key \in DOMAIN t[k].table}
<1>1. PICK keys : keys = <<p, Database!Filename(p), Database!RemoveDots(p)>>
  OBVIOUS
<1>2. /\ \A k \in 1 .. 3 : t[k].table = bitcodeFlags /\ t[k].key = keys[k]
      /\ \A k \in 4 .. 6 : t[k].table = database /\ t[k].key = keys[k - 3]
  <2>1. t = [k \in 1 .. 6 |-> IF k <= 3 THEN [table |-> bitcodeFlags, key |-> keys[k]]
                                        ELSE [table |-> database, key |-> keys[k - 3]]]
    BY <1>1 DEF Database!Tries
  <2> QED
    BY <2>1
<1>3. KeysOf(p) = {keys[1], keys[2], keys[3]}
  BY <1>1 DEF KeysOf
<1>4. Database!CompilationFlagsForFile(p) =
        IF hits = {} THEN Database!Fallback ELSE t[Database!Min(hits)].table[t[Database!Min(hits)].key]
  BY DEF Database!CompilationFlagsForFile
<1> HIDE DEF t
<1>5. CASE hits = {}
  <2>1. ASSUME NEW k \in 1 .. 3 PROVE keys[k] \notin DOMAIN bitcodeFlags /\ keys[k] \notin DOMAIN database
    <3>1. k \in 1 .. 6 /\ k + 3 \in 1 .. 6 /\ k + 3 \in 4 .. 6 /\ (k + 3) - 3 = k
      OBVIOUS
    <3>2. t[k].key \notin DOMAIN t[k].table /\ t[k + 3].key \notin DOMAIN t[k + 3].table
      BY <1>5, <3>1
    <3> QED
      BY <1>2, <3>1, <3>2
  <2> QED
    BY <1>3, <1>4, <1>5, <2>1
<1>6. CASE hits # {}
  <2>1. PICK m \in hits : \A j \in hits : m <= j
    <3>1. hits \in SUBSET Nat
      OBVIOUS
    <3> QED
      BY <1>6, <3>1, Smallest
  <2>2. Database!Min(hits) = m
    <3>1. \A x \in hits : (\A y \in hits : x <= y) => x = m
      BY <2>1
    <3> QED
      BY <2>1, <3>1 DEF Database!Min
  <2>3. Database!CompilationFlagsForFile(p) = t[m].table[t[m].key]
    BY <1>4, <1>6, <2>2
  <2>4. CASE m \in 1 .. 3
    <3>1. t[m].table = bitcodeFlags /\ t[m].key = keys[m] /\ keys[m] \in KeysOf(p)
      BY <1>2, <1>3, <2>4
    <3> QED
      BY <2>1, <2>3, <3>1
  <2>5. CASE m \in 4 .. 6
    <3>1. t[m].table = database /\ t[m].key = keys[m - 3] /\ keys[m - 3] \in KeysOf(p)
      BY <1>2, <1>3, <2>5
    <3>2. ASSUME NEW k \in 1 .. 3 PROVE keys[k] \notin DOMAIN bitcodeFlags
      <4>1. k \notin hits
        BY <2>1, <2>5
      <4> QED
        BY <1>2, <4>1
    <3> QED
      BY <1>3, <2>1, <2>3, <3>1, <3>2
  <2> QED
    BY <2>1, <2>4, <2>5
<1> QED
  BY <1>5, <1>6

\* An entry is found under the path, or under the path without dots.
LEMMA KeyIs ==
  ASSUME NEW p, Absolute(p), NEW q \in KeysOf(p), Absolute(q)
  PROVE  q \in {p, Database!RemoveDots(p)} /\ Database!RemoveDots(q) = Database!RemoveDots(p)
<1>1. q \in {p, Database!RemoveDots(p)}
  BY FilenameIs DEF KeysOf
<1> QED
  BY <1>1, DotsOnce

LEMMA DatabaseCardinality == \A S : Database!Cardinality(S) = Cardinality(S)
  BY Zenon DEF Database!Cardinality, Cardinality

LEMMA TableDomains ==
  ASSUME ToolsAre
  PROVE  /\ \A k \in DOMAIN units : Absolute(Database!Location(units[k])) /\ Database!PathOf(units[k]) = Database!Location(units[k])
         /\ \A k \in DOMAIN commands :
              Absolute(Database!Location(commands[k])) /\ Database!PathOf(commands[k]) = Database!Location(commands[k])
         /\ \A k \in Database!RecordedUnits : Database!Location(units[k]) \in DOMAIN Database!BitcodeTable
         /\ \A k \in DOMAIN commands : Database!Location(commands[k]) \in DOMAIN Database!CommandTable
<1>1. ASSUME NEW tools \in Seq(Database!Tool), NEW k \in DOMAIN tools
      PROVE  Absolute(Database!Location(tools[k])) /\ Database!PathOf(tools[k]) = Database!Location(tools[k])
  <2>1. tools[k] \in Database!Tool
    OBVIOUS
  <2>2. tools[k].directory \in Directories /\ tools[k].file \in Files
    BY <2>1 DEF Database!Tool
  <2> QED
    BY <2>2, LocationIs
<1>2. units \in Seq(Database!Tool) /\ commands \in Seq(Database!Tool)
  BY DEF ToolsAre
<1>3. Database!RecordedUnits \subseteq DOMAIN units
  BY DEF Database!RecordedUnits
<1>4. DOMAIN Database!BitcodeTable = {Database!PathOf(units[k]) : k \in Database!RecordedUnits}
  BY DEF Database!BitcodeTable, Database!Table
<1>5. DOMAIN Database!CommandTable = {Database!PathOf(commands[k]) : k \in DOMAIN commands}
  BY DEF Database!CommandTable, Database!Table
<1> QED
  BY <1>1, <1>2, <1>3, <1>4, <1>5

LEMMA FlagsAreOfTheFile == DatabaseInv /\ FlagsInv => FlagsOfTheFile
<1> SUFFICES ASSUME DatabaseInv, FlagsInv, pc = "ready", NEW p \in Database!Asked
             PROVE  LET e  == Database!CompilationFlagsForFile(p)
                        us == Database!Sources(e, units, UnitWords)
                        cs == Database!Sources(e, commands, CommandWords)
                        Own == {k \in DOMAIN commands :
                                  /\ Database!Location(commands[k]) \in {p, Database!RemoveDots(p)}
                                  /\ Database!IsLast(commands, DOMAIN commands, k)}
                        OwnUnit == \E k \in Database!RecordedUnits : Database!Location(units[k]) = p
                    IN /\ Database!Cardinality(us) + Database!Cardinality(cs) <= 1
                       /\ Database!About(p, units, Database!RecordedUnits, us)
                       /\ Database!About(p, commands, DOMAIN commands, cs)
                       /\ OwnUnit => us # {}
                       /\ us \cup cs = {} /\ Own # {} /\ DOMAIN database # {} => \E k \in Own : commands[k].line = <<>>
  BY DEF FlagsOfTheFile, Database!FlagsOfTheFile
<1> DEFINE e   == Database!CompilationFlagsForFile(p)
           us  == Database!Sources(e, units, UnitWords)
           cs  == Database!Sources(e, commands, CommandWords)
           Own == {k \in DOMAIN commands : /\ Database!Location(commands[k]) \in {p, Database!RemoveDots(p)}
                                           /\ Database!IsLast(commands, DOMAIN commands, k)}
           OwnUnit == \E k \in Database!RecordedUnits : Database!Location(units[k]) = p
<1>1. Absolute(p) /\ ToolsAre
  BY AskedIs DEF FlagsInv
<1>2. /\ DOMAIN bitcodeFlags = DOMAIN Database!BitcodeTable
      /\ DOMAIN database \in {{}, DOMAIN Database!CommandTable}
  BY DEF FlagsInv
<1>3. OwnUnit => p \in DOMAIN bitcodeFlags /\ p \in KeysOf(p)
  BY <1>1, <1>2, TableDomains DEF KeysOf
<1>4. \A S : (\E k : S = {k}) => Database!Cardinality(S) = 1
  <2> SUFFICES ASSUME NEW k PROVE Database!Cardinality({k}) = 1
    OBVIOUS
  <2> QED
    BY FS_Singleton, DatabaseCardinality
<1>5. Database!Cardinality({}) = 0
  BY FS_EmptySet, DatabaseCardinality
<1>6. CASE /\ e = Database!Fallback
           /\ \A q \in KeysOf(p) : q \notin DOMAIN bitcodeFlags /\ q \notin DOMAIN database
  <2>1. us = {} /\ cs = {}
    BY <1>1, <1>6, FallbackSources
  <2>2. ~ OwnUnit
    BY <1>3, <1>6
  <2>3. ASSUME Own # {}, DOMAIN database # {} PROVE FALSE
    <3>1. PICK k \in DOMAIN commands : Database!Location(commands[k]) \in {p, Database!RemoveDots(p)}
      BY <2>3
    <3>2. Database!Location(commands[k]) \in DOMAIN database
      BY <1>1, <1>2, <2>3, TableDomains
    <3>3. Database!Location(commands[k]) \in KeysOf(p)
      BY <3>1 DEF KeysOf
    <3> QED
      BY <1>6, <3>2, <3>3
  <2>4. Database!About(p, units, Database!RecordedUnits, us) /\ Database!About(p, commands, DOMAIN commands, cs)
    BY <2>1 DEF Database!About
  <2>5. Database!Cardinality(us) + Database!Cardinality(cs) <= 1
    BY <1>5, <2>1
  <2> HIDE DEF us, cs, e, Own, OwnUnit
  <2> QED
    BY <2>2, <2>3, <2>4, <2>5 DEF us, cs, e, Own, OwnUnit
<1>7. CASE \E q \in KeysOf(p) : q \in DOMAIN bitcodeFlags /\ e = bitcodeFlags[q]
  <2>1. PICK q \in KeysOf(p) : q \in DOMAIN bitcodeFlags /\ e = bitcodeFlags[q]
    BY <1>7
  <2>2. PICK k \in Database!RecordedUnits :
          /\ Database!Location(units[k]) = q
          /\ Database!IsLast(units, Database!RecordedUnits, k)
          /\ us = {k} /\ cs = {}
    BY <2>1, BitcodeEntry
  <2>3. Absolute(q)
    BY <1>1, <2>2, TableDomains DEF Database!RecordedUnits
  <2>4. Database!RemoveDots(q) = Database!RemoveDots(p)
    BY <1>1, <2>3, KeyIs
  <2>5. Database!About(p, units, Database!RecordedUnits, us) /\ Database!About(p, commands, DOMAIN commands, cs)
    BY <2>2, <2>4 DEF Database!About
  <2>6. Database!Cardinality(us) + Database!Cardinality(cs) <= 1
    BY <1>4, <1>5, <2>2
  <2>7. us # {}
    BY <2>2
  <2> HIDE DEF us, cs, e, Own, OwnUnit
  <2> QED
    BY <2>5, <2>6, <2>7 DEF us, cs, e, Own, OwnUnit
<1>8. CASE /\ \A q \in KeysOf(p) : q \notin DOMAIN bitcodeFlags
           /\ \E q \in KeysOf(p) : q \in DOMAIN database /\ e = database[q]
  <2>1. PICK q \in KeysOf(p) : q \in DOMAIN database /\ e = database[q]
    BY <1>8
  <2>2. PICK k \in DOMAIN commands :
          /\ Database!Location(commands[k]) = q
          /\ Database!IsLast(commands, DOMAIN commands, k)
          /\ us = {} /\ cs = IF commands[k].line = <<>> THEN {} ELSE {k}
    BY <2>1, CommandEntry
  <2>3. Absolute(q)
    BY <1>1, <2>2, TableDomains
  <2>4. Database!RemoveDots(q) = Database!RemoveDots(p) /\ q \in {p, Database!RemoveDots(p)}
    BY <1>1, <2>3, KeyIs
  <2>5. Database!About(p, units, Database!RecordedUnits, us) /\ Database!About(p, commands, DOMAIN commands, cs)
    BY <2>2, <2>4 DEF Database!About
  <2>6. Database!Cardinality(us) + Database!Cardinality(cs) <= 1
    <3>1. Database!Cardinality(us) = 0
      BY <1>5, <2>2
    <3>2. Database!Cardinality(cs) \in {0, 1}
      <4>1. CASE commands[k].line = <<>>
        BY <1>5, <2>2, <4>1
      <4>2. CASE commands[k].line # <<>>
        <5>1. cs = {k}
          BY <2>2, <4>2
        <5>2. Database!Cardinality(cs) = 1
          BY <1>4, <5>1
        <5> QED
          BY <5>2
      <4> QED
        BY <4>1, <4>2
    <3> HIDE DEF us, cs
    <3> QED
      BY <3>1, <3>2
  <2>7. ~ OwnUnit
    BY <1>3, <1>8
  <2>8. k \in Own
    BY <2>2, <2>4
  <2>9. us \cup cs = {} => commands[k].line = <<>>
    BY <2>2
  <2> HIDE DEF us, cs, e, Own, OwnUnit
  <2> QED
    BY <2>5, <2>6, <2>7, <2>8, <2>9 DEF us, cs, e, Own, OwnUnit
<1> QED
  BY <1>6, <1>7, <1>8, LookupIs

-----------------------------------------------------------------------------
LEMMA InitFlagsInv == Database!Init => FlagsInv
<1> SUFFICES ASSUME Database!Init PROVE FlagsInv
  OBVIOUS
<1>1. units = <<>> /\ commands = <<>> /\ pc = "start" /\ resourceDirs = <<>>
  BY DEF Database!Init
<1>2. Len(UnitWords) \in Nat /\ Len(CommandWords) \in Nat
  BY WordsDiffer
<1>3. ToolsAre
  BY <1>1, <1>2 DEF ToolsAre
<1>4. AnswersAre
  BY <1>1 DEF AnswersAre
<1> QED
  BY <1>1, <1>3, <1>4 DEF FlagsInv

LEMMA BoundedIs ==
  ASSUME NEW S, NEW n \in Nat, NEW s \in Database!BoundedSeq(S, n)
  PROVE  s \in Seq(S) /\ Len(s) <= n
<1>1. PICK m \in 0 .. n : s \in [1 .. m -> S]
  BY DEF Database!BoundedSeq, Database!SeqOf
<1> QED
  BY <1>1

LEMMA AskIsAnswered ==
  ASSUME AnswersAre, NEW compiler, NEW dir \in Database!Answers(compiler), Database!Ask(compiler, dir)
  PROVE  AnswersAre'
<1>1. resourceDirs' = [c \in DOMAIN resourceDirs \cup {compiler} |-> IF c = compiler THEN dir ELSE resourceDirs[c]]
  BY DEF Database!Ask
<1> QED
  BY <1>1 DEF AnswersAre, Database!Answers

LEMMA ResolveIsAnswered ==
  ASSUME AnswersAre, NEW p, NEW e, NEW f, Database!Resolve(p, e, f)
  PROVE  AnswersAre'
<1>1. CASE UNCHANGED resourceDirs
  BY <1>1 DEF AnswersAre, Database!Answers
<1>2. CASE \E dir \in Database!Answers(e.compiler) : Database!Ask(e.compiler, dir)
  BY <1>2, AskIsAnswered
<1> QED
  BY <1>1, <1>2 DEF Database!Resolve

LEMMA NextFlagsInv == FlagsInv /\ [Database!Next]_(Database!vars) => FlagsInv'
<1> SUFFICES ASSUME FlagsInv, [Database!Next]_(Database!vars) PROVE FlagsInv'
  OBVIOUS
<1>1. ASSUME UNCHANGED Database!input, pc # "start" \/ pc' = "start" PROVE ToolsAre'
  BY <1>1 DEF ToolsAre, Database!input, FlagsInv, Database!Tool
<1>2. ASSUME UNCHANGED Database!input
      PROVE  Database!CommandTable' = Database!CommandTable /\ Database!BitcodeTable' = Database!BitcodeTable
  BY <1>2, InputStays
<1>3. CASE UNCHANGED Database!vars
  <2>1. UNCHANGED Database!input /\ (pc # "start" \/ pc' = "start")
    BY <1>3 DEF Database!vars
  <2>2. AnswersAre'
    BY <1>3 DEF Database!vars, FlagsInv, AnswersAre, Database!Answers
  <2> QED
    BY <1>1, <1>2, <1>3, <2>1, <2>2 DEF FlagsInv, Database!vars
<1>4. CASE Database!Open
  <2>1. Len(UnitWords) \in Nat /\ Len(CommandWords) \in Nat
    BY WordsDiffer
  <2>2. /\ units' \in Database!BoundedSeq(Database!Tool, Len(UnitWords))
        /\ commands' \in Database!BoundedSeq(Database!Tool, Len(CommandWords))
        /\ extraFlags' \in Extra /\ pc' = "file" /\ resourceDirs' = resourceDirs
    BY <1>4 DEF Database!Open
  <2>3. ToolsAre'
    BY <2>1, <2>2, BoundedIs DEF ToolsAre, Database!Tool
  <2>4. AnswersAre'
    BY <2>2 DEF FlagsInv, AnswersAre, Database!Answers
  <2> QED
    BY <2>2, <2>3, <2>4 DEF FlagsInv
<1>5. CASE Database!ReadFile
  <2>1. UNCHANGED Database!input /\ pc # "start" /\ resourceDirs' = resourceDirs
    BY <1>5 DEF Database!ReadFile
  <2>2. bitcodeFlags' = Database!BitcodeTable /\ (database' = Database!CommandTable \/ database' = <<>>)
    BY <1>5 DEF Database!ReadFile
  <2>3. DOMAIN database' \in {{}, DOMAIN Database!CommandTable}
    BY <2>2
  <2>4. AnswersAre'
    BY <2>1 DEF FlagsInv, AnswersAre, Database!Answers
  <2> QED
    BY <1>1, <1>2, <2>1, <2>2, <2>3, <2>4 DEF FlagsInv
<1>6. CASE Database!ResolveDatabase
  <2>1. UNCHANGED Database!input /\ pc = "database" /\ pc' = pc /\ bitcodeFlags' = bitcodeFlags
    BY <1>6 DEF Database!ResolveDatabase
  <2>2. AnswersAre'
    BY <1>6, ResolveIsAnswered DEF Database!ResolveDatabase, FlagsInv
  <2>3. DOMAIN database' = DOMAIN database
    BY <1>6 DEF Database!ResolveDatabase
  <2> QED
    BY <1>1, <1>2, <2>1, <2>2, <2>3 DEF FlagsInv
<1>7. CASE Database!ResolveBitcode
  <2>1. UNCHANGED Database!input /\ pc = "bitcode" /\ pc' = pc /\ database' = database
    BY <1>7 DEF Database!ResolveBitcode
  <2>2. AnswersAre'
    BY <1>7, ResolveIsAnswered DEF Database!ResolveBitcode, FlagsInv
  <2>3. DOMAIN bitcodeFlags' = DOMAIN bitcodeFlags
    BY <1>7 DEF Database!ResolveBitcode
  <2> QED
    BY <1>1, <1>2, <2>1, <2>2, <2>3 DEF FlagsInv
<1>8. CASE Database!TableResolved
  <2>1. UNCHANGED Database!input /\ pc \in {"database", "bitcode"} /\ bitcodeFlags' = bitcodeFlags
        /\ database' = database /\ resourceDirs' = resourceDirs
    BY <1>8 DEF Database!TableResolved
  <2>2. AnswersAre'
    BY <2>1 DEF FlagsInv, AnswersAre, Database!Answers
  <2> QED
    BY <1>1, <1>2, <2>1, <2>2 DEF FlagsInv
<1> QED
  BY <1>3, <1>4, <1>5, <1>6, <1>7, <1>8 DEF Database!Next

\* The flags the junk detector gets for a file are those that were given for it, by the
\* last one that gave any.
THEOREM FlagsCorrect == Spec => []FlagsOfTheFile
<1>1. Init => DatabaseInv /\ FlagsInv
  BY InitDatabaseInv, InitFlagsInv DEF Init
<1>2. (DatabaseInv /\ FlagsInv) /\ [Next]_vars => (DatabaseInv /\ FlagsInv)'
  BY DriverStep, NextDatabaseInv, NextFlagsInv
<1>3. DatabaseInv /\ FlagsInv => FlagsOfTheFile
  BY FlagsAreOfTheFile
<1> QED
  BY <1>1, <1>2, <1>3, PTL DEF Spec

-----------------------------------------------------------------------------
(* The factory: a group is expanded, for groups are nested and the nesting *)
(* ends.  The levels say how deep it is.                                   *)

Groups  == DOMAIN Factory!GroupsMapping
Members(g) == Factory!GroupsMapping[g]

Lists == {"cxx_calls", "cxx_const_assignment", "cxx_bitwise_assignment", "cxx_arithmetic_assignment", "cxx_increment",
          "cxx_decrement", "cxx_arithmetic", "cxx_bitwise", "cxx_logical", "cxx_comparison", "cxx_boundary"}

Level0 == Factory!Words \ Groups
Level1 == Level0 \union Lists
Level2 == Level1 \union {"cxx_assignment", "cxx_default", "experimental"}
Level3 == Level2 \union {"cxx_all"}

\* Every name is in a level, and no mutator has the name of a group.
LEMMA GroupsAre ==
  /\ Groups = Lists \union {"cxx_assignment", "cxx_default", "experimental", "cxx_all", "all"}
  /\ Factory!Registered \intersect Groups = {}
  /\ Factory!Words = Level3 \union {"all"}
<1>1. Groups = Lists \union {"cxx_assignment", "cxx_default", "experimental", "cxx_all", "all"}
  BY DEF Groups, Lists, Factory!GroupsMapping
<1>2. Factory!Registered \intersect Groups = {}
  BY <1>1 DEF Lists, Factory!Registered, Factory!Calls, Factory!Constants, Factory!BitAssigns, Factory!Assigns,
              Factory!Increments, Factory!Decrements, Factory!Arithmetic, Factory!Bits, Factory!Logicals,
              Factory!Comparison, Factory!Boundary
<1>3. Factory!Words = Level3 \union {"all"}
  BY <1>1 DEF Level0, Level1, Level2, Level3, Factory!Words, Groups
<1> QED
  BY <1>1, <1>2, <1>3

\* the groups that are not lists
LEMMA Nested ==
  /\ Members("cxx_assignment") = {"cxx_bitwise_assignment", "cxx_arithmetic_assignment", "cxx_const_assignment"}
  /\ Members("cxx_default") = {"cxx_increment", "cxx_arithmetic", "cxx_comparison", "cxx_boundary"}
  /\ Members("experimental") = {"negate_mutator", "scalar_value_mutator", "cxx_logical"}
  /\ Members("cxx_all") = {"cxx_assignment", "cxx_increment", "cxx_decrement", "cxx_arithmetic", "cxx_comparison",
                           "cxx_boundary", "cxx_bitwise", "cxx_calls"}
  /\ Members("all") = {"cxx_all", "experimental"}
  BY DEF Members, Factory!GroupsMapping

\* A list has no groups, and a group only groups of a lower level.
LEMMA MembersAreLower ==
  /\ \A g \in Lists : Members(g) \subseteq Factory!Registered
  /\ \A g \in Groups \intersect Level1 : Members(g) \subseteq Level0
  /\ \A g \in Groups \intersect Level2 : Members(g) \subseteq Level1
  /\ \A g \in Groups \intersect Level3 : Members(g) \subseteq Level2
  /\ \A g \in Groups : Members(g) \subseteq Level3
<1>1. \A g \in Lists : Members(g) \subseteq Factory!Registered
  BY DEF Members, Lists, Factory!Registered, Factory!GroupsMapping
<1>2. Factory!Registered \subseteq Level0
  BY GroupsAre DEF Level0, Factory!Words
<1>3. Groups \intersect Level0 = {} /\ Level0 \subseteq Level1 /\ Level1 \subseteq Level2 /\ Level2 \subseteq Level3
  BY DEF Level0, Level1, Level2, Level3
<1>4. {"negate_mutator", "scalar_value_mutator"} \subseteq Factory!Registered
  BY DEF Factory!Registered
<1>6. \A g \in Groups \intersect Level1 : Members(g) \subseteq Level0
  BY <1>1, <1>2, <1>3 DEF Level1
<1>7. \A g \in {"cxx_assignment", "cxx_default", "experimental"} : Members(g) \subseteq Level1
  BY <1>2, <1>4, Nested DEF Level1, Lists
<1>8. Members("cxx_all") \subseteq Level2
  BY Nested DEF Level1, Level2, Lists
<1>9. Members("all") \subseteq Level3
  BY Nested DEF Level2, Level3
<1>10. \A g \in Groups \intersect Level2 : Members(g) \subseteq Level1
  BY <1>3, <1>6, <1>7 DEF Level2
<1>11. \A g \in Groups \intersect Level3 : Members(g) \subseteq Level2
  BY <1>3, <1>8, <1>10 DEF Level3
<1>12. \A g \in Groups : Members(g) \subseteq Level3
  BY <1>3, <1>9, <1>11, GroupsAre DEF Groups, Factory!Words
<1> QED
  BY <1>1, <1>6, <1>10, <1>11, <1>12

\* one turn of the recursion of expandGroups
Expanded(expand) ==
  [w \in Factory!Words |-> IF w \notin Groups THEN {w} ELSE UNION {expand[m] : m \in Members(w)}]

\* two functions on a set
SameOn(S, E, F) == \A w \in S : E[w] = F[w]

\* The members of the groups of one set are in the other.
Above(Upper, Lower) ==
  Upper \subseteq Factory!Words /\ \A g \in Groups \intersect Upper : Members(g) \subseteq Lower

\* Each level is above the one before.
LEMMA LevelsAre ==
  Above(Level1, Level0) /\ Above(Level2, Level1) /\ Above(Level3, Level2) /\ Above(Factory!Words, Level3)
<1>1. Level1 \subseteq Factory!Words /\ Level2 \subseteq Factory!Words /\ Level3 \subseteq Factory!Words
  BY GroupsAre DEF Level0, Level1, Level2, Level3, Groups, Factory!Words
<1> QED
  BY <1>1, MembersAreLower DEF Above

\* Two of them that agree on the members agree on the groups.
LEMMA ExpandedAgree ==
  ASSUME NEW E, NEW F, NEW G, NEW H, G = Expanded(E), H = Expanded(F),
         NEW Upper, NEW Lower, Above(Upper, Lower), SameOn(Lower, E, F)
  PROVE  SameOn(Upper, G, H)
<1> SUFFICES ASSUME NEW w \in Upper PROVE G[w] = H[w]
  BY DEF SameOn
<1>1. CASE w \in Groups
  <2>1. \A m \in Members(w) : E[m] = F[m]
    BY <1>1 DEF Above, SameOn
  <2>2. {E[m] : m \in Members(w)} = {F[m] : m \in Members(w)}
    BY <2>1
  <2> QED
    BY <1>1, <2>2 DEF Expanded, Above
<1>2. CASE w \notin Groups
  BY <1>2 DEF Expanded, Above
<1> QED
  BY <1>1, <1>2

\* The recursion of ExpandGroup ends.
LEMMA ExpandGroupIs ==
  /\ \A w \in Level0 : Factory!ExpandGroup[w] = {w}
  /\ \A g \in Groups : Factory!ExpandGroup[g] = UNION {Factory!ExpandGroup[m] : m \in Members(g)}
<1>0. /\ Level0 \subseteq Factory!Words /\ Level1 \subseteq Factory!Words /\ Level2 \subseteq Factory!Words
      /\ Level3 \subseteq Factory!Words /\ Groups \subseteq Factory!Words /\ Level0 \intersect Groups = {}
  BY GroupsAre DEF Level0, Level1, Level2, Level3, Groups, Factory!Words
<1>1. PICK E0 : E0 = [w \in Factory!Words |-> {w}]
  OBVIOUS
<1>2. PICK E1 : E1 = Expanded(E0)
  OBVIOUS
<1>3. PICK E2 : E2 = Expanded(E1)
  OBVIOUS
<1>4. PICK E3 : E3 = Expanded(E2)
  OBVIOUS
<1>5. PICK E4 : E4 = Expanded(E3)
  OBVIOUS
<1>6. Above(Level1, Level0) /\ Above(Level2, Level1) /\ Above(Level3, Level2) /\ Above(Factory!Words, Level3)
  BY LevelsAre
<1>7. E4 = Expanded(E4)
  <2>1. SameOn(Level0, E0, E1)
    BY <1>0, <1>1, <1>2 DEF Expanded, SameOn
  <2>2. SameOn(Level1, E1, E2)
    BY <1>2, <1>3, <1>6, <2>1, ExpandedAgree
  <2>3. SameOn(Level2, E2, E3)
    BY <1>3, <1>4, <1>6, <2>2, ExpandedAgree
  <2>4. SameOn(Level3, E3, E4)
    BY <1>4, <1>5, <1>6, <2>3, ExpandedAgree
  <2>5. PICK E5 : E5 = Expanded(E4)
    OBVIOUS
  <2>6. SameOn(Factory!Words, E4, E5)
    BY <1>5, <1>6, <2>4, <2>5, ExpandedAgree
  <2>7. E4 = E5
    BY <1>5, <2>5, <2>6 DEF Expanded, SameOn
  <2> QED
    BY <2>5, <2>7
<1> DEFINE expand == CHOOSE expand : expand = Expanded(expand)
<1>8. expand = Expanded(expand)
  BY <1>7
<1>9. Factory!ExpandGroup = expand
  BY DEF Factory!ExpandGroup, Expanded, Groups, Members
<1> HIDE DEF expand
<1>10. \A w \in Factory!Words : expand[w] = Expanded(expand)[w]
  BY <1>8
<1>11. \A w \in Factory!Words : expand[w] = IF w \notin Groups THEN {w} ELSE UNION {expand[m] : m \in Members(w)}
  BY <1>10 DEF Expanded
<1>12. \A w \in Factory!Words :
         Factory!ExpandGroup[w] = IF w \notin Groups THEN {w} ELSE UNION {Factory!ExpandGroup[m] : m \in Members(w)}
  BY <1>9, <1>11
<1> QED
  BY <1>0, <1>12

\* What an expansion has: of a list what is in it, of a group in the end mutators that are there.
LEMMA GroupsExpand ==
  /\ \A g \in Lists : Factory!ExpandGroup[g] = Members(g)
  /\ \A g \in Groups : Factory!ExpandGroup[g] \subseteq Factory!Registered
  /\ Factory!ExpandGroup["all"] = Factory!Registered
<1> DEFINE E(g) == Factory!ExpandGroup[g]
<1>1. \A g \in Lists : g \in Groups /\ Members(g) \subseteq Level0 /\ E(g) = UNION {E(m) : m \in Members(g)}
  BY GroupsAre, MembersAreLower, ExpandGroupIs DEF Level1
<1>2. \A m \in Level0 : E(m) = {m}
  BY ExpandGroupIs
<1>3. \A g \in Lists : E(g) = Members(g)
  <2> SUFFICES ASSUME NEW g \in Lists PROVE UNION {E(m) : m \in Members(g)} = Members(g)
    BY <1>1
  <2>1. \A m \in Members(g) : E(m) = {m}
    BY <1>1, <1>2
  <2> HIDE DEF E
  <2> QED
    BY <2>1
<1>4. \A g \in Groups : E(g) = UNION {E(m) : m \in Members(g)}
  BY ExpandGroupIs
<1> HIDE DEF E
<1>5. {"cxx_assignment", "cxx_default", "experimental", "cxx_all", "all"} \subseteq Groups
  BY GroupsAre
<1>6. {"negate_mutator", "scalar_value_mutator"} \subseteq Factory!Registered \intersect Level0
  BY GroupsAre DEF Factory!Registered, Level0, Factory!Words
<1>7. /\ E("cxx_assignment") = UNION {E("cxx_bitwise_assignment"), E("cxx_arithmetic_assignment"), E("cxx_const_assignment")}
      /\ E("cxx_default") = UNION {E("cxx_increment"), E("cxx_arithmetic"), E("cxx_comparison"), E("cxx_boundary")}
      /\ E("experimental") = {"negate_mutator", "scalar_value_mutator"} \union E("cxx_logical")
      /\ E("cxx_all") = UNION {E("cxx_assignment"), E("cxx_increment"), E("cxx_decrement"), E("cxx_arithmetic"),
                               E("cxx_comparison"), E("cxx_boundary"), E("cxx_bitwise"), E("cxx_calls")}
      /\ E("all") = E("cxx_all") \union E("experimental")
  BY <1>2, <1>4, <1>5, <1>6, Nested
<1>8. /\ E("cxx_calls") = Factory!Calls /\ E("cxx_const_assignment") = Factory!Constants
      /\ E("cxx_bitwise_assignment") = Factory!BitAssigns /\ E("cxx_arithmetic_assignment") = Factory!Assigns
      /\ E("cxx_increment") = Factory!Increments /\ E("cxx_decrement") = Factory!Decrements
      /\ E("cxx_arithmetic") = Factory!Arithmetic /\ E("cxx_bitwise") = Factory!Bits
      /\ E("cxx_logical") = Factory!Logicals /\ E("cxx_comparison") = Factory!Comparison
      /\ E("cxx_boundary") = Factory!Boundary
  BY <1>3 DEF Lists, Members, Factory!GroupsMapping
<1>9. E("all") = Factory!Registered
  BY <1>7, <1>8 DEF Factory!Registered
<1>10. \A g \in Groups : E(g) \subseteq Factory!Registered
  <2>1. \A g \in Lists : E(g) \subseteq Factory!Registered
    BY <1>3, MembersAreLower
  <2>2. \A g \in {"cxx_assignment", "cxx_default", "experimental", "cxx_all"} : E(g) \subseteq Factory!Registered
    BY <1>6, <1>7, <2>1 DEF Lists
  <2> QED
    BY <1>9, <2>1, <2>2, GroupsAre
<1> QED
  BY <1>3, <1>9, <1>10 DEF E

-----------------------------------------------------------------------------
(* Under, the mutators at the ends of the paths, in four steps *)

Step(S) == S \union UNION {Members(g) : g \in S \intersect Groups}

\* A step expands the same.
LEMMA StepExpands ==
  ASSUME NEW S \in SUBSET Factory!Words
  PROVE  Step(S) \in SUBSET Factory!Words /\ Factory!ExpandGroups(Step(S)) = Factory!ExpandGroups(S)
<1>1. Step(S) \in SUBSET Factory!Words
  BY MembersAreLower, GroupsAre DEF Step
<1>2. ASSUME NEW g \in Step(S), NEW x \in Factory!ExpandGroup[g]
      PROVE  \E h \in S : x \in Factory!ExpandGroup[h]
  <2>1. CASE g \in S
    BY <2>1
  <2>2. ASSUME NEW h \in S \intersect Groups, g \in Members(h)
        PROVE  x \in Factory!ExpandGroup[h]
    BY <1>2, <2>2, ExpandGroupIs
  <2> QED
    BY <2>1, <2>2 DEF Step
<1>3. S \subseteq Step(S)
  BY DEF Step
<1> QED
  BY <1>1, <1>2, <1>3 DEF Factory!ExpandGroups

\* What the second of two steps adds is below what the first one did.
LEMMA NewAreLower ==
  ASSUME NEW A, NEW B, NEW C, B = Step(A), C = Step(B), NEW Upper, NEW Lower, Above(Upper, Lower), B \ A \subseteq Upper
  PROVE  C \ B \subseteq Lower
<1> SUFFICES ASSUME NEW x \in C, x \notin B PROVE x \in Lower
  OBVIOUS
<1>1. PICK g \in B \intersect Groups : x \in Members(g)
  BY DEF Step
<1>2. g \notin A
  BY <1>1 DEF Step
<1> QED
  BY <1>1, <1>2 DEF Above

\* No member of a group in T is missing from it.
Closed(T) == \A g \in T \intersect Groups : Members(g) \subseteq T

\* What those of T that are in S expand to is in T.
Within(T, S) == \A g \in T \intersect S : Factory!ExpandGroup[g] \subseteq T \ Groups

\* Nothing leads out of a set that is closed.
LEMMA ClosedExpands ==
  ASSUME NEW T \in SUBSET Factory!Words, Closed(T), NEW Upper, NEW Lower, Above(Upper, Lower), Within(T, Lower)
  PROVE  Within(T, Upper)
<1> SUFFICES ASSUME NEW g \in T \intersect Upper, NEW x \in Factory!ExpandGroup[g] PROVE x \in T \ Groups
  BY DEF Within
<1>1. CASE g \in Groups
  <2>1. PICK m \in Members(g) : x \in Factory!ExpandGroup[m]
    BY <1>1, ExpandGroupIs
  <2>2. m \in T \intersect Lower
    BY <1>1 DEF Closed, Above
  <2> QED
    BY <2>1, <2>2 DEF Within
<1>2. CASE g \notin Groups
  <2>1. Factory!ExpandGroup[g] = {g}
    BY <1>2, ExpandGroupIs DEF Level0
  <2> QED
    BY <1>2, <2>1
<1> QED
  BY <1>1, <1>2

\* Four steps are enough: expandGroups finds exactly what is under the groups.
LEMMA ExpandGroupsIs ==
  ASSUME NEW S \in SUBSET Factory!Words
  PROVE  Factory!ExpandGroups(S) = Factory!Under(S)
<1>1. PICK S1 : S1 = Step(S)
  OBVIOUS
<1>2. PICK S2 : S2 = Step(S1)
  OBVIOUS
<1>3. PICK S3 : S3 = Step(S2)
  OBVIOUS
<1>4. PICK T : T = Step(S3)
  OBVIOUS
<1>5. Factory!Under(S) = T \ Groups
  BY <1>1, <1>2, <1>3, <1>4 DEF Factory!Under, Step, Members, Groups
<1>6. T \in SUBSET Factory!Words /\ Factory!ExpandGroups(T) = Factory!ExpandGroups(S)
  BY <1>1, <1>2, <1>3, <1>4, StepExpands
<1>7. /\ Above(Level1, Level0) /\ Above(Level2, Level1) /\ Above(Level3, Level2) /\ Above(Factory!Words, Level3)
  BY LevelsAre
<1>8. Closed(T)
  <2>1. S1 \ S \subseteq Level3
    BY <1>1, MembersAreLower DEF Step
  <2>2. S2 \ S1 \subseteq Level2
    BY <1>1, <1>2, <1>7, <2>1, NewAreLower
  <2>3. S3 \ S2 \subseteq Level1
    BY <1>2, <1>3, <1>7, <2>2, NewAreLower
  <2>4. T \ S3 \subseteq Level0
    BY <1>3, <1>4, <1>7, <2>3, NewAreLower
  <2> QED
    BY <1>4, <2>4 DEF Closed, Step, Level0
<1>9. Within(T, Factory!Words)
  <2>1. Within(T, Level0)
    BY ExpandGroupIs DEF Within, Level0
  <2>2. Within(T, Level1)
    BY <1>6, <1>7, <1>8, <2>1, ClosedExpands
  <2>3. Within(T, Level2)
    BY <1>6, <1>7, <1>8, <2>2, ClosedExpands
  <2>4. Within(T, Level3)
    BY <1>6, <1>7, <1>8, <2>3, ClosedExpands
  <2> QED
    BY <1>6, <1>7, <1>8, <2>4, ClosedExpands
<1>10. ASSUME NEW x \in T, x \notin Groups
       PROVE  x \in Factory!ExpandGroup[x]
  BY <1>6, <1>10, ExpandGroupIs DEF Level0
<1>11. Factory!ExpandGroups(T) = T \ Groups
  BY <1>6, <1>9, <1>10 DEF Factory!ExpandGroups, Within
<1> QED
  BY <1>5, <1>6, <1>11

\* No mutator is in no group.
LEMMA AllAre == Factory!Under({"all"}) = Factory!Registered
<1>1. {"all"} \in SUBSET Factory!Words
  BY GroupsAre
<1>2. Factory!ExpandGroups({"all"}) = Factory!ExpandGroup["all"]
  BY DEF Factory!ExpandGroups
<1> QED
  BY <1>1, <1>2, ExpandGroupsIs, GroupsExpand

\* The call of mutators() makes the selection, whatever was there before.
LEMMA MutatorsSelect ==
  ASSUME NEW groups \in Factory!Requests, NEW ignore \in Factory!Requests, Factory!Mutators(groups, ignore)
  PROVE  Factory!SelectionIsExact'
<1> DEFINE asked == IF groups = {} THEN {"cxx_default"} ELSE groups
<1>1. asked \in SUBSET Factory!Words /\ ignore \in SUBSET Factory!Words /\ groups \in SUBSET Names
  BY GroupsAre DEF Factory!Requests, Factory!Words, Groups
<1>2. Factory!Selected(groups, ignore) = Factory!Under(asked) \ Factory!Under(ignore)
  BY <1>1, ExpandGroupsIs DEF Factory!Selected
<1>3. /\ result' = (Factory!Under(asked) \ Factory!Under(ignore)) \intersect Factory!Registered
      /\ mapping' \subseteq Factory!Registered
      /\ wanted' = groups /\ ignored' = ignore
  BY <1>2 DEF Factory!Mutators
<1>4. ASSUME NEW x \in Factory!Selected(groups, ignore), x \notin Factory!Registered
      PROVE  x \in groups \ Groups
  <2>1. PICK g \in asked : x \in Factory!ExpandGroup[g]
    BY <1>4 DEF Factory!Selected, Factory!ExpandGroups
  <2>2. g \notin Groups
    BY <1>4, <2>1, GroupsExpand
  <2>3. x = g
    BY <1>1, <2>1, <2>2, ExpandGroupIs DEF Level0
  <2>4. g \in groups
    BY <2>2, GroupsAre
  <2> QED
    BY <2>2, <2>3, <2>4
<1>5. "" \notin Factory!Selected(groups, ignore) \ Factory!Registered
  BY <1>1, <1>4, NamesAssumption
<1>6. warnings' = (Factory!Selected(groups, ignore) \ Factory!Registered) \union (IF result' = {} THEN {""} ELSE {})
  BY DEF Factory!Mutators
<1>7. ("" \in warnings' <=> result' = {}) /\ warnings' \ {""} \subseteq groups \ Groups
  BY <1>4, <1>5, <1>6
<1> QED
  BY <1>3, <1>7, AllAre DEF Factory!SelectionIsExact, Groups

\* The mutators are those of the groups, without those of the ignored groups, however deep
\* either is nested, for any names in the configuration, and a warning names what the user
\* wrote.
THEOREM SelectionCorrect == Spec => []SelectionIsExact
<1>1. Init => SelectionIsExact
  BY DEF Init, Factory!Init, SelectionIsExact, Factory!SelectionIsExact
<1>2. SelectionIsExact /\ [Next]_vars => SelectionIsExact'
  <2> SUFFICES ASSUME SelectionIsExact, [Next]_vars PROVE SelectionIsExact'
    OBVIOUS
  <2>1. CASE MakeMutators
    BY <2>1, MutatorsSelect DEF MakeMutators, Factory!Next, SelectionIsExact
  <2>2. CASE TakeMutators
    BY <2>2 DEF TakeMutators, SelectionIsExact, Factory!SelectionIsExact
  <2>3. CASE UNCHANGED factoryVars
    BY <2>3 DEF factoryVars, SelectionIsExact, Factory!SelectionIsExact
  <2> QED
    BY <2>1, <2>2, <2>3
       DEF Next, vars, MakeDatabase, StartSearch, SearchMutations, MutateOperator, MutateCondition
<1> QED
  BY <1>1, <1>2, PTL DEF Spec

-----------------------------------------------------------------------------
(* What Only makes of a sequence.  It is a recursive function: first, that *)
(* there is one; then, by the smallest number of items for which it would  *)
(* not hold, that the result is the items that are let through, in order.  *)

\* what a filter lets through of the first k items, from what it does of those before
Longer(t, x, S) == t \o Search!If(x \in S, <<x>>)

\* The loop of Only is a function that is there.
LEMMA OnlyRecursion ==
  ASSUME NEW s, NEW S, Len(s) \in Nat
  PROVE  \E kept : /\ kept = [k \in 0 .. Len(s) |-> IF k = 0 THEN <<>> ELSE Longer(kept[k - 1], s[k], S)]
                   /\ Search!Only(s, S) = kept[Len(s)]
<1> DEFINE Loop(g, n) == g = [k \in 0 .. n |-> IF k = 0 THEN <<>> ELSE Longer(g[k - 1], s[k], S)]
           T == {n \in Nat : ~ \E g : Loop(g, n)}
<1>1. T = {}
  <2>1. SUFFICES ASSUME T # {} PROVE FALSE
    OBVIOUS
  <2>2. PICK n \in T : \A m \in T : n <= m
    BY <2>1, Smallest
  <2>3. CASE n = 0
    <3> DEFINE g == [k \in 0 .. 0 |-> <<>>]
    <3>1. Loop(g, 0)
      OBVIOUS
    <3> QED
      BY <2>2, <2>3, <3>1
  <2>4. CASE n # 0
    <3>1. n - 1 \in Nat /\ n - 1 \notin T
      BY <2>2, <2>4
    <3>2. PICK g : Loop(g, n - 1)
      BY <3>1
    <3> DEFINE h == [k \in 0 .. n |-> IF k = n THEN Longer(g[n - 1], s[n], S) ELSE g[k]]
    <3>3. ASSUME NEW k \in 0 .. n
          PROVE  h[k] = IF k = 0 THEN <<>> ELSE Longer(h[k - 1], s[k], S)
      <4>1. CASE k = n
        <5>1. h[k - 1] = g[n - 1] /\ h[k] = Longer(g[n - 1], s[n], S)
          BY <2>4, <4>1
        <5> QED
          BY <2>4, <4>1, <5>1
      <4>2. CASE k # n
        <5>1. k \in 0 .. n - 1 /\ h[k] = g[k]
          BY <4>2
        <5>2. g[k] = IF k = 0 THEN <<>> ELSE Longer(g[k - 1], s[k], S)
          BY <3>2, <5>1
        <5>3. k # 0 => h[k - 1] = g[k - 1]
          BY <5>1
        <5> QED
          BY <5>1, <5>2, <5>3
      <4> QED
        BY <4>1, <4>2
    <3>4. Loop(h, n)
      <4> HIDE DEF h
      <4>1. h = [k \in 0 .. n |-> h[k]]
        BY DEF h
      <4> QED
        BY <3>3, <4>1
    <3> QED
      BY <2>2, <3>4
  <2> QED
    BY <2>3, <2>4
<1>2. PICK g : Loop(g, Len(s))
  BY <1>1
<1> DEFINE kept == CHOOSE kept : kept = [k \in 0 .. Len(s) |-> IF k = 0 THEN <<>> ELSE Longer(kept[k - 1], s[k], S)]
<1>3. kept = [k \in 0 .. Len(s) |-> IF k = 0 THEN <<>> ELSE Longer(kept[k - 1], s[k], S)]
  BY <1>2
<1>4. Search!Only(s, S) = kept[Len(s)]
  BY DEF Search!Only, Longer
<1> QED
  BY <1>3, <1>4

\* t is what of the first n items of s is in S, and h are their places.
Picked(t, h, s, n, S) ==
  /\ h \in [1 .. Len(t) -> 1 .. n]
  /\ \A k \in 1 .. Len(t) : t[k] = s[h[k]] /\ s[h[k]] \in S
  /\ \A k, l \in 1 .. Len(t) : k < l => h[k] < h[l]
  /\ \A j \in 1 .. n : s[j] \in S => \E k \in 1 .. Len(t) : h[k] = j

\* One more item.
LEMMA LongerPicks ==
  ASSUME NEW X, NEW s \in Seq(X), NEW n \in Nat, n + 1 <= Len(s), NEW S,
         NEW t \in Seq(X), NEW h, Picked(t, h, s, n, S)
  PROVE  /\ Longer(t, s[n + 1], S) \in Seq(X)
         /\ \E g : Picked(Longer(t, s[n + 1], S), g, s, n + 1, S)
<1>1. CASE s[n + 1] \in S
  <2> DEFINE u == Longer(t, s[n + 1], S)
             g == [k \in 1 .. Len(t) + 1 |-> IF k <= Len(t) THEN h[k] ELSE n + 1]
  <2>1. u = t \o <<s[n + 1]>>
    BY <1>1 DEF Longer, Search!If
  <2>2. s[n + 1] \in X
    OBVIOUS
  <2>3. /\ u \in Seq(X) /\ Len(u) = Len(t) + 1 /\ Len(t) \in Nat
        /\ \A k \in 1 .. Len(t) : u[k] = t[k]
        /\ u[Len(t) + 1] = s[n + 1]
    BY <2>1, <2>2
  <2>4. g \in [1 .. Len(u) -> 1 .. n + 1]
    BY <2>3 DEF Picked
  <2>5. ASSUME NEW k \in 1 .. Len(t)
        PROVE  g[k] = h[k] /\ h[k] \in 1 .. n
    <3>1. k \in 1 .. Len(t) + 1 /\ k <= Len(t)
      BY <2>3
    <3>2. h \in [1 .. Len(t) -> 1 .. n]
      BY DEF Picked
    <3> QED
      BY <3>1, <3>2
  <2>6. g[Len(t) + 1] = n + 1
    BY <2>3
  <2> HIDE DEF u, g
  <2>7. \A k \in 1 .. Len(u) : u[k] = s[g[k]] /\ s[g[k]] \in S
    <3> TAKE k \in 1 .. Len(u)
    <3>1. CASE k \in 1 .. Len(t)
      BY <2>3, <2>5, <3>1 DEF Picked
    <3>2. CASE k = Len(t) + 1
      BY <1>1, <2>3, <2>6, <3>2
    <3> QED
      BY <2>3, <3>1, <3>2
  <2>8. \A k, l \in 1 .. Len(u) : k < l => g[k] < g[l]
    <3> TAKE k, l \in 1 .. Len(u)
    <3>1. CASE k < l /\ l \in 1 .. Len(t)
      <4>1. k \in 1 .. Len(t)
        BY <2>3, <3>1
      <4> QED
        BY <2>5, <3>1, <4>1 DEF Picked
    <3>2. CASE k < l /\ l = Len(t) + 1
      <4>1. k \in 1 .. Len(t)
        BY <2>3, <3>2
      <4> QED
        BY <2>5, <2>6, <3>2, <4>1
    <3> QED
      BY <2>3, <3>1, <3>2
  <2>9. \A j \in 1 .. n + 1 : s[j] \in S => \E k \in 1 .. Len(u) : g[k] = j
    <3> SUFFICES ASSUME NEW j \in 1 .. n + 1, s[j] \in S
                 PROVE  \E k \in 1 .. Len(u) : g[k] = j
      OBVIOUS
    <3>1. CASE j = n + 1
      BY <2>3, <2>6, <3>1
    <3>2. CASE j \in 1 .. n
      <4>1. PICK k \in 1 .. Len(t) : h[k] = j
        BY <3>2 DEF Picked
      <4> QED
        BY <2>3, <2>5, <4>1
    <3> QED
      BY <3>1, <3>2
  <2>10. Picked(u, g, s, n + 1, S)
    BY <2>4, <2>7, <2>8, <2>9 DEF Picked
  <2> QED
    BY <2>3, <2>10 DEF u
<1>2. CASE s[n + 1] \notin S
  <2>1. Longer(t, s[n + 1], S) = t
    BY <1>2 DEF Longer, Search!If
  <2>2. Picked(t, h, s, n + 1, S)
    BY <1>2 DEF Picked
  <2> QED
    BY <2>1, <2>2
<1> QED
  BY <1>1, <1>2

\* What Only makes of a sequence are its items that are in S, in their order.
LEMMA OnlyPicks ==
  ASSUME NEW X, NEW s \in Seq(X), NEW S
  PROVE  /\ Search!Only(s, S) \in Seq(X)
         /\ \E h : Picked(Search!Only(s, S), h, s, Len(s), S)
<1>1. PICK kept : /\ kept = [k \in 0 .. Len(s) |-> IF k = 0 THEN <<>> ELSE Longer(kept[k - 1], s[k], S)]
                  /\ Search!Only(s, S) = kept[Len(s)]
  <2>1. Len(s) \in Nat
    OBVIOUS
  <2> QED
    BY <2>1, OnlyRecursion
<1> DEFINE Good(n) == kept[n] \in Seq(X) /\ \E h : Picked(kept[n], h, s, n, S)
           T == {n \in 0 .. Len(s) : ~ Good(n)}
<1>2. kept[0] = <<>> /\ \A n \in 1 .. Len(s) : kept[n] = Longer(kept[n - 1], s[n], S)
  <2>1. ASSUME NEW n \in 0 .. Len(s)
        PROVE  kept[n] = IF n = 0 THEN <<>> ELSE Longer(kept[n - 1], s[n], S)
    BY <1>1
  <2> QED
    BY <2>1
<1> HIDE DEF Good
<1>3. T = {}
  <2>1. SUFFICES ASSUME T # {} PROVE FALSE
    OBVIOUS
  <2>2. PICK n \in T : \A m \in T : n <= m
    <3>1. T \in SUBSET Nat
      OBVIOUS
    <3> HIDE DEF T
    <3> QED
      BY <2>1, <3>1, Smallest
  <2>3. CASE n = 0
    <3>1. kept[0] \in Seq(X) /\ Len(kept[0]) = 0
      BY <1>2
    <3>2. Picked(kept[0], [k \in 1 .. 0 |-> 1], s, 0, S)
      BY <3>1 DEF Picked
    <3> QED
      BY <2>2, <2>3, <3>1, <3>2 DEF Good
  <2>4. CASE n # 0
    <3>1. n - 1 \in Nat /\ n - 1 \in 0 .. Len(s) /\ Good(n - 1) /\ (n - 1) + 1 = n
      BY <2>2, <2>4
    <3>2. PICK h : Picked(kept[n - 1], h, s, n - 1, S)
      BY <3>1 DEF Good
    <3> HIDE DEF T
    <3>3. n \in 1 .. Len(s)
      BY <2>2, <2>4 DEF T
    <3>4. Good(n)
      BY <1>2, <3>1, <3>2, <3>3, LongerPicks DEF Good
    <3> QED
      BY <2>2, <3>4 DEF T
  <2> QED
    BY <2>3, <2>4
<1>4. Len(s) \in 0 .. Len(s)
  OBVIOUS
<1> QED
  BY <1>1, <1>3, <1>4 DEF Good

\* The same without the places: what is there, and that no two items change places.
LEMMA OnlyIs ==
  ASSUME NEW X, NEW s \in Seq(X), NEW S
  PROVE  /\ Search!Only(s, S) \in Seq(X)
         /\ Search!ToSet(Search!Only(s, S)) = Search!ToSet(s) \cap S
         /\ \A k, l \in DOMAIN Search!Only(s, S) :
              k < l => \E i, j \in DOMAIN s : i < j /\ s[i] = Search!Only(s, S)[k] /\ s[j] = Search!Only(s, S)[l]
<1>1. PICK t : t = Search!Only(s, S)
  OBVIOUS
<1>2. PICK h : t \in Seq(X) /\ Picked(t, h, s, Len(s), S)
  BY <1>1, OnlyPicks
<1>3. DOMAIN s = 1 .. Len(s) /\ DOMAIN t = 1 .. Len(t)
  BY <1>2
<1>4. \A k \in DOMAIN t : h[k] \in DOMAIN s
  BY <1>2, <1>3 DEF Picked
<1>5. Search!ToSet(t) = Search!ToSet(s) \cap S
  <2>1. ASSUME NEW x \in Search!ToSet(t) PROVE x \in Search!ToSet(s) \cap S
    BY <1>2, <1>3, <1>4, <2>1 DEF Search!ToSet, Picked
  <2>2. ASSUME NEW x \in Search!ToSet(s), x \in S PROVE x \in Search!ToSet(t)
    <3>1. PICK j \in 1 .. Len(s) : x = s[j]
      BY <1>3, <2>2 DEF Search!ToSet
    <3>2. PICK k \in 1 .. Len(t) : h[k] = j
      BY <1>2, <2>2, <3>1 DEF Picked
    <3> QED
      BY <1>2, <1>3, <3>1, <3>2 DEF Search!ToSet, Picked
  <2> QED
    BY <2>1, <2>2
<1>6. \A k, l \in DOMAIN t : k < l => \E i, j \in DOMAIN s : i < j /\ s[i] = t[k] /\ s[j] = t[l]
  <2> TAKE k, l \in DOMAIN t
  <2> HAVE k < l
  <2>1. h[k] < h[l] /\ s[h[k]] = t[k] /\ s[h[l]] = t[l]
    BY <1>2, <1>3 DEF Picked
  <2> QED
    BY <1>4, <2>1
<1> QED
  BY <1>1, <1>2, <1>5, <1>6

-----------------------------------------------------------------------------
(* The lists of filters *)

\* The lists the driver makes of the configuration (EnableFilters).
FilterNames == {"noDebug", "path", "blockAddress", "variadic", "diff", "junk"}

FiltersOf ==
  [function    |-> <<"noDebug">> \o Search!If(config.path, <<"path">>) \o <<"blockAddress", "variadic">>,
   instruction |-> <<"noDebug">> \o Search!If(config.diff, <<"diff">>),
   mutation    |-> <<"noDebug">> \o Search!If(config.path, <<"path">>) \o Search!If(config.junk, <<"junk">>)]

\* What the lists let through, in any order.
FunctionOK == {f \in Search!Functions : f \in located \ unmovable /\ (config.path => f \in inPath)}

InstructionOK == {i \in Search!Instructions : i \in Located /\ (config.diff => i \in InDiff)}

\* The filters as sequences of names.
LEMMA ListsAre ==
  /\ FiltersOf.function = IF config.path THEN <<"noDebug", "path", "blockAddress", "variadic">>
                                         ELSE <<"noDebug", "blockAddress", "variadic">>
  /\ FiltersOf.instruction = IF config.diff THEN <<"noDebug", "diff">> ELSE <<"noDebug">>
  /\ FiltersOf.mutation = IF config.path THEN IF config.junk THEN <<"noDebug", "path", "junk">> ELSE <<"noDebug", "path">>
                          ELSE IF config.junk THEN <<"noDebug", "junk">> ELSE <<"noDebug">>
<1>1. ASSUME NEW s \in Seq(FilterNames), NEW u \in Seq(FilterNames), NEW v \in Seq(FilterNames), Len(v) = Len(s) + Len(u),
             \A k \in 1 .. Len(s) : v[k] = s[k], \A k \in 1 .. Len(u) : v[Len(s) + k] = u[k]
      PROVE  s \o u = v
  <2>1. \A k \in 1 .. Len(v) : (s \o u)[k] = v[k]
    <3> TAKE k \in 1 .. Len(v)
    <3>. Len(s) \in Nat /\ Len(u) \in Nat /\ Len(v) \in Nat
      OBVIOUS
    <3>3. k \in 1 .. Len(s) \/ k > Len(s)
      OBVIOUS
    <3>1. CASE k \in 1 .. Len(s)
      BY <1>1, <3>1
    <3>2. CASE k > Len(s)
      <4>1. k - Len(s) \in 1 .. Len(u) /\ Len(s) + (k - Len(s)) = k
        BY <1>1, <3>2
      <4>2. (s \o u)[k] = u[k - Len(s)]
        BY <1>1, <3>2
      <4> QED
        BY <1>1, <4>1, <4>2
    <3> QED
      BY <3>1, <3>2, <3>3
  <2> QED
    BY <1>1, <2>1, SeqEqual
<1>2. \A s \in Seq(FilterNames) : s \o <<>> = s
  BY ConcatEmptySeq
<1>3. \A a, b \in FilterNames : <<a>> \o <<b>> = <<a, b>>
  <2> TAKE a, b \in FilterNames
  <2> DEFINE s == <<a>>
             u == <<b>>
             v == <<a, b>>
  <2>1. /\ s \in Seq(FilterNames) /\ u \in Seq(FilterNames) /\ v \in Seq(FilterNames)
        /\ Len(s) = 1 /\ Len(u) = 1 /\ Len(v) = 2
        /\ s[1] = a /\ u[1] = b
        /\ v[1] = a /\ v[2] = b
    OBVIOUS
  <2> HIDE DEF s, u, v
  <2>2. /\ Len(v) = Len(s) + Len(u)
        /\ \A k \in 1 .. Len(s) : v[k] = s[k]
        /\ \A k \in 1 .. Len(u) : v[Len(s) + k] = u[k]
    BY <2>1
  <2>3. s \o u = v
    BY <1>1, <2>1, <2>2, Zenon
  <2> QED
    BY <2>3 DEF s, u, v
<1>4. \A a, b, c \in FilterNames : <<a, b>> \o <<c>> = <<a, b, c>>
  <2> TAKE a, b, c \in FilterNames
  <2> DEFINE s == <<a, b>>
             u == <<c>>
             v == <<a, b, c>>
  <2>1. /\ s \in Seq(FilterNames) /\ u \in Seq(FilterNames) /\ v \in Seq(FilterNames)
        /\ Len(s) = 2 /\ Len(u) = 1 /\ Len(v) = 3
        /\ s[1] = a /\ s[2] = b /\ u[1] = c
        /\ v[1] = a /\ v[2] = b /\ v[3] = c
    OBVIOUS
  <2> HIDE DEF s, u, v
  <2>2. /\ Len(v) = Len(s) + Len(u)
        /\ \A k \in 1 .. Len(s) : v[k] = s[k]
        /\ \A k \in 1 .. Len(u) : v[Len(s) + k] = u[k]
    BY <2>1
  <2>3. s \o u = v
    BY <1>1, <2>1, <2>2, Zenon
  <2> QED
    BY <2>3 DEF s, u, v
<1>5. \A a, b, c \in FilterNames : <<a>> \o <<b, c>> = <<a, b, c>>
  <2> TAKE a, b, c \in FilterNames
  <2> DEFINE s == <<a>>
             u == <<b, c>>
             v == <<a, b, c>>
  <2>1. /\ s \in Seq(FilterNames) /\ u \in Seq(FilterNames) /\ v \in Seq(FilterNames)
        /\ Len(s) = 1 /\ Len(u) = 2 /\ Len(v) = 3
        /\ s[1] = a /\ u[1] = b /\ u[2] = c
        /\ v[1] = a /\ v[2] = b /\ v[3] = c
    OBVIOUS
  <2> HIDE DEF s, u, v
  <2>2. /\ Len(v) = Len(s) + Len(u)
        /\ \A k \in 1 .. Len(s) : v[k] = s[k]
        /\ \A k \in 1 .. Len(u) : v[Len(s) + k] = u[k]
    BY <2>1
  <2>3. s \o u = v
    BY <1>1, <2>1, <2>2, Zenon
  <2> QED
    BY <2>3 DEF s, u, v
<1>6. \A a, b, c, d \in FilterNames : <<a, b>> \o <<c, d>> = <<a, b, c, d>>
  <2> TAKE a, b, c, d \in FilterNames
  <2> DEFINE s == <<a, b>>
             u == <<c, d>>
             v == <<a, b, c, d>>
  <2>1. /\ s \in Seq(FilterNames) /\ u \in Seq(FilterNames) /\ v \in Seq(FilterNames)
        /\ Len(s) = 2 /\ Len(u) = 2 /\ Len(v) = 4
        /\ s[1] = a /\ s[2] = b /\ u[1] = c /\ u[2] = d
        /\ v[1] = a /\ v[2] = b /\ v[3] = c /\ v[4] = d
    OBVIOUS
  <2> HIDE DEF s, u, v
  <2>2. /\ Len(v) = Len(s) + Len(u)
        /\ \A k \in 1 .. Len(s) : v[k] = s[k]
        /\ \A k \in 1 .. Len(u) : v[Len(s) + k] = u[k]
    BY <2>1
  <2>3. s \o u = v
    BY <1>1, <2>1, <2>2, Zenon
  <2> QED
    BY <2>3 DEF s, u, v
<1>7. /\ <<"noDebug">> \o <<>> = <<"noDebug">> /\ <<"noDebug", "path">> \o <<>> = <<"noDebug", "path">>
      /\ <<"noDebug">> \o <<"path">> = <<"noDebug", "path">>
      /\ <<"noDebug">> \o <<"diff">> = <<"noDebug", "diff">>
      /\ <<"noDebug">> \o <<"junk">> = <<"noDebug", "junk">>
      /\ <<"noDebug", "path">> \o <<"junk">> = <<"noDebug", "path", "junk">>
      /\ <<"noDebug">> \o <<"blockAddress", "variadic">> = <<"noDebug", "blockAddress", "variadic">>
      /\ <<"noDebug", "path">> \o <<"blockAddress", "variadic">> = <<"noDebug", "path", "blockAddress", "variadic">>
  BY <1>2, <1>3, <1>4, <1>5, <1>6 DEF FilterNames
<1> QED
  BY <1>7 DEF FiltersOf, Search!If

\* A list lets through what passes each of its filters, and asks about the path only
\* what has a location.
LEMMA FunctionFilters ==
  ASSUME NEW f \in Search!Functions
  PROVE  /\ Search!Passes(f, FiltersOf.function, Search!Functionwise) <=> f \in FunctionOK
         /\ f \notin located => ~ Search!AsksPath(f, FiltersOf.function, Search!Functionwise)
  BY ListsAre DEF Search!Passes, Search!AsksPath, Search!Functionwise, FunctionOK

LEMMA InstructionFilters ==
  ASSUME NEW i \in Search!Instructions
  PROVE  Search!Passes(i, FiltersOf.instruction, Search!Instructionwise) <=> i \in InstructionOK
  BY ListsAre DEF Search!Passes, Search!Instructionwise, InstructionOK

-----------------------------------------------------------------------------
(* The search for mutations: what each loop has made of what it has        *)
(* reached, in the order of the code.                                      *)

Points == [mutator : Search!Kinds, instruction : Search!Instructions]

\* what the instruction filters let through of a function
SelectedOf(f) == {i \in InstructionOK : functionOf[i] = f}

\* p is of a mutator that is there, and of an instruction it looks at.
IsFound(p) ==
  /\ p.mutator \in config.mutators
  /\ p.instruction \in (IF p.mutator = "trivial" THEN InstructionOK \cap Trivial ELSE Logical)

\* s is A from the smallest on
Ascending(s, A) ==
  /\ s \in Seq(Nat) /\ Search!ToSet(s) = A
  /\ \A k, l \in DOMAIN s : k < l => s[k] < s[l]

\* ps is A in the order of MutationsAreExact, which makes them different from each other
InOrder(ps, A) ==
  /\ ps \in Seq(Points) /\ Search!ToSet(ps) = A
  /\ \A k, l \in DOMAIN ps : k < l => Search!Before(ps[k], ps[l])

\* t, what a loop over s has not reached, is the end of s.
Rest(t, s) ==
  /\ Len(t) <= Len(s)
  /\ \A k \in 1 .. Len(t) : t[k] = s[Len(s) - Len(t) + k]

\* the places in s it has been at
Done(t, s) == 1 .. Len(s) - Len(t)

\* the list of the functions of a module
AllFunctions == [f \in Search!Functions |-> f]

InputInv ==
  /\ functionOf \in [Search!Instructions -> Search!Functions]
  /\ \A i, j \in Search!Instructions : i < j => functionOf[i] <= functionOf[j]
  /\ config \in Search!Configurations

StageInv ==
  /\ stage \in {"start", "filters", "functions", "select", "search", "apply", "done"}
  /\ ~ nullSeen
  /\ selected = [f \in Search!Functions |-> selected[f]]
  /\ stage \in {"start", "filters"} => functions = <<>>
  /\ stage \in {"start", "filters", "functions", "select"} => mutations = <<>>
  /\ stage # "start" => InputInv
  /\ stage \notin {"start", "filters"} => filters = FiltersOf

\* The functions seen so far that pass their filters are in filteredFunctions.
FunctionsInv ==
  stage = "functions" =>
    /\ todo \in Seq(Nat) /\ Rest(todo, AllFunctions)
    /\ Ascending(functions, FunctionOK \cap Done(todo, AllFunctions))

\* The functions seen so far have their selected instructions.
SelectInv ==
  stage = "select" =>
    /\ todo \in Seq(Nat) /\ Rest(todo, functions) /\ Ascending(functions, FunctionOK)
    /\ \A k \in Done(todo, functions) : Ascending(selected[functions[k]], SelectedOf(functions[k]))

\* what the mutators find in the functions fs
PointsOf(fs) == {p \in Points : IsFound(p) /\ functionOf[p.instruction] \in fs}

\* The mutations are those of the functions seen so far.
PointsInv ==
  stage = "search" =>
    /\ todo \in Seq(Nat) /\ Rest(todo, functions) /\ Ascending(functions, FunctionOK)
    /\ \A f \in FunctionOK : Ascending(selected[f], SelectedOf(f))
    /\ InOrder(mutations, PointsOf({functions[k] : k \in Done(todo, functions)}))

\* what passes the mutation filters at the places ks of their list
PassedBy(ks) ==
  {p \in PointsOf(FunctionOK) : \A k \in ks : p.instruction \in Search!Instructionwise[FiltersOf.mutation[k]]}

\* The mutations are those that pass the filters applied so far.
ApplyInv ==
  stage = "apply" =>
    /\ todo \in Seq(FilterNames) /\ Rest(todo, FiltersOf.mutation)
    /\ InOrder(mutations, PassedBy(Done(todo, FiltersOf.mutation)))

DoneInv == stage = "done" => InOrder(mutations, PassedBy(1 .. Len(FiltersOf.mutation)))

SearchInv == StageInv /\ FunctionsInv /\ SelectInv /\ PointsInv /\ ApplyInv /\ DoneInv

-----------------------------------------------------------------------------
(* Loops *)

\* One turn of a loop.
LEMMA RestStep ==
  ASSUME NEW X, NEW s \in Seq(X), NEW t \in Seq(X), t # <<>>, Rest(t, s)
  PROVE  \E n \in 1 .. Len(s) :
           /\ Head(t) = s[n]
           /\ Tail(t) \in Seq(X) /\ Rest(Tail(t), s)
           /\ Done(t, s) = 1 .. n - 1 /\ Done(Tail(t), s) = 1 .. n
<1> DEFINE n == Len(s) - Len(t) + 1
<1>1. /\ Len(t) \in Nat /\ Len(t) > 0 /\ Len(s) \in Nat
      /\ Tail(t) \in Seq(X) /\ Len(Tail(t)) = Len(t) - 1
      /\ \A k \in 1 .. Len(Tail(t)) : Tail(t)[k] = t[k + 1]
  OBVIOUS
<1>2. n \in 1 .. Len(s) /\ Head(t) = s[n]
  BY <1>1 DEF Rest
<1>3. Rest(Tail(t), s)
  <2> SUFFICES ASSUME NEW k \in 1 .. Len(Tail(t))
               PROVE  Tail(t)[k] = s[Len(s) - Len(Tail(t)) + k]
    BY <1>1 DEF Rest
  <2>1. k + 1 \in 1 .. Len(t) /\ Len(s) - Len(t) + (k + 1) = Len(s) - Len(Tail(t)) + k
    BY <1>1
  <2> QED
    BY <1>1, <2>1 DEF Rest
<1>4. Len(s) - Len(t) = n - 1 /\ Len(s) - Len(Tail(t)) = n
  BY <1>1
<1>5. Done(t, s) = 1 .. n - 1 /\ Done(Tail(t), s) = 1 .. n
  BY <1>4 DEF Done
<1> QED
  BY <1>1, <1>2, <1>3, <1>5

\* Its start and its end.
LEMMA RestEnds ==
  ASSUME NEW X, NEW s \in Seq(X)
  PROVE  Rest(s, s) /\ Done(s, s) = {} /\ Done(<<>>, s) = 1 .. Len(s)
  BY DEF Rest, Done

-----------------------------------------------------------------------------
(* Ascending sequences of numbers, and mutations in their order *)

\* What is kept of an ascending sequence is one.
LEMMA AscendingOnly ==
  ASSUME NEW s, NEW A, Ascending(s, A), NEW S
  PROVE  Ascending(Search!Only(s, S), A \cap S)
<1>1. PICK t : t = Search!Only(s, S)
  OBVIOUS
<1>2. /\ t \in Seq(Nat) /\ Search!ToSet(t) = A \cap S
      /\ \A k, l \in DOMAIN t : k < l => \E i, j \in DOMAIN s : i < j /\ s[i] = t[k] /\ s[j] = t[l]
  BY <1>1, OnlyIs DEF Ascending
<1> QED
  BY <1>1, <1>2 DEF Ascending

\* So is one with a number at its end that is above the others.
LEMMA AscendingAppend ==
  ASSUME NEW s, NEW A, Ascending(s, A), NEW x \in Nat, \A y \in A : y < x
  PROVE  Ascending(s \o <<x>>, A \cup {x})
<1>1. PICK t : t = s \o <<x>>
  OBVIOUS
<1>2. /\ t \in Seq(Nat) /\ Len(t) = Len(s) + 1 /\ Len(s) \in Nat
      /\ DOMAIN t = 1 .. Len(s) + 1 /\ DOMAIN s = 1 .. Len(s)
      /\ \A k \in DOMAIN s : t[k] = s[k]
      /\ t[Len(s) + 1] = x
  BY <1>1 DEF Ascending
<1>3. \A k \in DOMAIN s : s[k] \in A /\ s[k] \in Nat
  BY <1>2 DEF Ascending, Search!ToSet
<1>4. Search!ToSet(t) = A \cup {x}
  <2>1. ASSUME NEW y \in Search!ToSet(t) PROVE y \in A \cup {x}
    BY <1>2, <1>3, <2>1 DEF Search!ToSet
  <2>2. ASSUME NEW y \in A PROVE y \in Search!ToSet(t)
    BY <1>2, <2>2 DEF Search!ToSet, Ascending
  <2>3. x \in Search!ToSet(t)
    BY <1>2 DEF Search!ToSet
  <2> QED
    BY <2>1, <2>2, <2>3
<1>5. ASSUME NEW k \in DOMAIN t, NEW l \in DOMAIN t, k < l
      PROVE  t[k] < t[l]
  <2>1. CASE l \in DOMAIN s
    <3>1. k \in DOMAIN s
      BY <1>2, <1>5, <2>1
    <3> QED
      BY <1>2, <1>5, <2>1, <3>1 DEF Ascending
  <2>2. CASE l = Len(s) + 1
    <3>1. k \in DOMAIN s
      BY <1>2, <1>5, <2>2
    <3> QED
      BY <1>2, <1>3, <2>2, <3>1
  <2> QED
    BY <1>2, <2>1, <2>2
<1> QED
  BY <1>1, <1>2, <1>4, <1>5 DEF Ascending

\* The numbers up to n, as the loops over functions and code take them.
LEMMA AscendingAll ==
  /\ Ascending([f \in Search!Functions |-> f], Search!Functions)
  /\ Ascending([i \in Search!Instructions |-> i], Search!Instructions)
  /\ Len([f \in Search!Functions |-> f]) = NFunctions
<1>1. ASSUME NEW n \in Nat
      PROVE  Ascending([k \in 1 .. n |-> k], 1 .. n) /\ Len([k \in 1 .. n |-> k]) = n
  <2>1. [k \in 1 .. n |-> k] \in Seq(Nat) /\ DOMAIN [k \in 1 .. n |-> k] = 1 .. n
    OBVIOUS
  <2>2. Len([k \in 1 .. n |-> k]) = n
    OBVIOUS
  <2> QED
    BY <2>1, <2>2 DEF Ascending, Search!ToSet
<1> QED
  BY <1>1, NumbersAssumption DEF Search!Functions, Search!Instructions

\* The same for mutations in their order.
LEMMA InOrderOnly ==
  ASSUME NEW ps, NEW A, InOrder(ps, A), NEW S
  PROVE  InOrder(Search!Only(ps, S), A \cap S)
<1>1. PICK t : t = Search!Only(ps, S)
  OBVIOUS
<1>2. /\ t \in Seq(Points) /\ Search!ToSet(t) = A \cap S
      /\ \A k, l \in DOMAIN t : k < l => \E i, j \in DOMAIN ps : i < j /\ ps[i] = t[k] /\ ps[j] = t[l]
  BY <1>1, OnlyIs DEF InOrder
<1> QED
  BY <1>1, <1>2 DEF InOrder

LEMMA InOrderConcat ==
  ASSUME NEW ps, NEW A, InOrder(ps, A), NEW qs, NEW B, InOrder(qs, B),
         \A p \in A, q \in B : Search!Before(p, q)
  PROVE  InOrder(ps \o qs, A \cup B)
<1>1. PICK t : t = ps \o qs
  OBVIOUS
<1>2. /\ t \in Seq(Points) /\ Len(ps) \in Nat /\ Len(qs) \in Nat
      /\ DOMAIN t = 1 .. Len(ps) + Len(qs) /\ DOMAIN ps = 1 .. Len(ps) /\ DOMAIN qs = 1 .. Len(qs)
      /\ \A k \in DOMAIN ps : t[k] = ps[k]
      /\ \A k \in DOMAIN t : k \notin DOMAIN ps => k - Len(ps) \in DOMAIN qs /\ t[k] = qs[k - Len(ps)]
      /\ \A k \in DOMAIN qs : Len(ps) + k \in DOMAIN t /\ t[Len(ps) + k] = qs[k]
  BY <1>1 DEF InOrder
<1>3. /\ \A k \in DOMAIN ps : ps[k] \in A
      /\ \A k \in DOMAIN qs : qs[k] \in B
  BY DEF InOrder, Search!ToSet
<1>4. Search!ToSet(t) = A \cup B
  <2>1. ASSUME NEW x \in Search!ToSet(t) PROVE x \in A \cup B
    BY <1>2, <1>3, <2>1 DEF Search!ToSet
  <2>2. ASSUME NEW x \in A PROVE x \in Search!ToSet(t)
    BY <1>2, <2>2 DEF Search!ToSet, InOrder
  <2>3. ASSUME NEW x \in B PROVE x \in Search!ToSet(t)
    BY <1>2, <2>3 DEF Search!ToSet, InOrder
  <2> QED
    BY <2>1, <2>2, <2>3
<1>5. ASSUME NEW k \in DOMAIN t, NEW l \in DOMAIN t, k < l
      PROVE  Search!Before(t[k], t[l])
  <2>1. CASE k \in DOMAIN ps /\ l \in DOMAIN ps
    BY <1>2, <1>5, <2>1 DEF InOrder
  <2>2. CASE k \in DOMAIN ps /\ l \notin DOMAIN ps
    BY <1>2, <1>3, <2>2
  <2>3. CASE k \notin DOMAIN ps /\ l \notin DOMAIN ps
    <3>1. k - Len(ps) < l - Len(ps)
      BY <1>2, <1>5
    <3> QED
      BY <1>2, <2>3, <3>1 DEF InOrder
  <2>4. l \in DOMAIN ps => k \in DOMAIN ps
    BY <1>2, <1>5
  <2> QED
    BY <2>1, <2>2, <2>3, <2>4
<1> QED
  BY <1>1, <1>2, <1>4, <1>5 DEF InOrder

\* What a mutator makes of the instructions of a function is in order.
LEMMA InOrderFound ==
  ASSUME NEW s, NEW A \in SUBSET Search!Instructions, Ascending(s, A), NEW m \in Search!Kinds,
         \A i, j \in A : functionOf[i] = functionOf[j]
  PROVE  InOrder([k \in DOMAIN s |-> [mutator |-> m, instruction |-> s[k]]],
                 {p \in Points : p.mutator = m /\ p.instruction \in A})
<1> DEFINE B == {p \in Points : p.mutator = m /\ p.instruction \in A}
<1>1. PICK t : t = [k \in DOMAIN s |-> [mutator |-> m, instruction |-> s[k]]]
  OBVIOUS
<1>2. \A k \in DOMAIN s : s[k] \in A
  BY DEF Ascending, Search!ToSet
<1>3. DOMAIN s = 1 .. Len(s) /\ Len(s) \in Nat
  BY DEF Ascending
<1>4. \A k \in DOMAIN s : t[k] \in B /\ t[k].mutator = m /\ t[k].instruction = s[k]
  BY <1>1, <1>2 DEF Points
<1>5. t \in Seq(Points) /\ DOMAIN t = DOMAIN s
  BY <1>1, <1>3, <1>4
<1>6. Search!ToSet(t) = B
  <2>1. ASSUME NEW p \in B PROVE p \in Search!ToSet(t)
    <3>1. PICK k \in DOMAIN s : p.instruction = s[k]
      BY DEF Ascending, Search!ToSet
    <3>2. p = [mutator |-> p.mutator, instruction |-> p.instruction]
      BY DEF Points
    <3>3. p = t[k]
      BY <1>1, <3>1, <3>2
    <3> QED
      BY <1>5, <3>3 DEF Search!ToSet
  <2> QED
    BY <1>4, <1>5, <2>1 DEF Search!ToSet
<1>7. ASSUME NEW k \in DOMAIN t, NEW l \in DOMAIN t, k < l
      PROVE  Search!Before(t[k], t[l])
  <2>1. s[k] < s[l]
    BY <1>5, <1>7 DEF Ascending
  <2>2. functionOf[s[k]] = functionOf[s[l]]
    BY <1>2, <1>5
  <2> QED
    BY <1>4, <1>5, <2>1, <2>2 DEF Search!Before
<1> QED
  BY <1>1, <1>5, <1>6, <1>7 DEF InOrder


-----------------------------------------------------------------------------
(* The steps of the search *)

LEMMA SearchInputStays ==
  ASSUME UNCHANGED Search!input
  PROVE  /\ FunctionOK' = FunctionOK /\ InstructionOK' = InstructionOK /\ FiltersOf' = FiltersOf
         /\ functionOf' = functionOf /\ config' = config
         /\ \A p : IsFound(p)' <=> IsFound(p)
  BY DEF Search!input, FunctionOK, InstructionOK, FiltersOf, IsFound

LEMMA SearchStays == SearchInv /\ UNCHANGED searchVars => SearchInv'
<1> SUFFICES ASSUME SearchInv, UNCHANGED searchVars PROVE SearchInv'
  OBVIOUS
<1>1. UNCHANGED <<Search!input, stage, filters, todo, functions, selected, mutations, nullSeen>>
  BY DEF searchVars, Search!input
<1>2. StageInv' /\ FunctionsInv'
  BY <1>1, SearchInputStays DEF SearchInv, StageInv, FunctionsInv, InputInv, Ascending, Rest, Done, Search!input
<1>3. SelectInv'
  <2> SUFFICES ASSUME stage = "select" PROVE SelectInv'
    BY <1>1 DEF SelectInv
  <2>1. /\ todo \in Seq(Nat) /\ Rest(todo, functions) /\ Ascending(functions, FunctionOK)
        /\ \A k \in Done(todo, functions) : Ascending(selected[functions[k]], SelectedOf(functions[k]))
    BY DEF SearchInv, SelectInv
  <2> QED
    <3>1. Rest(todo, functions)' /\ Ascending(functions, FunctionOK)'
      BY <1>1, <2>1, SearchInputStays DEF Rest, Ascending
    <3>2. ASSUME NEW k \in Done(todo, functions)
          PROVE  Ascending(selected[functions[k]], SelectedOf(functions[k]))'
      <4>1. Ascending(selected[functions[k]], SelectedOf(functions[k]))
        BY <2>1
      <4>2. selected[functions[k]]' = selected[functions[k]] /\ SelectedOf(functions[k])' = SelectedOf(functions[k])
        BY <1>1, SearchInputStays DEF SelectedOf
      <4> QED
        BY <4>1, <4>2 DEF Ascending
    <3>3. Done(todo, functions)' = Done(todo, functions)
      BY <1>1 DEF Done
    <3> QED
      BY <1>1, <2>1, <3>1, <3>2, <3>3 DEF SelectInv
<1>4. PointsInv'
  BY <1>1, SearchInputStays
     DEF SearchInv, PointsInv, Ascending, Rest, Done, SelectedOf, InOrder, PointsOf, Search!Before
<1>5. ApplyInv'
  <2> SUFFICES ASSUME stage = "apply" PROVE ApplyInv'
    BY <1>1 DEF ApplyInv
  <2>1. PassedBy(Done(todo, FiltersOf.mutation))' = PassedBy(Done(todo, FiltersOf.mutation))
    BY <1>1, SearchInputStays DEF PassedBy, PointsOf, Done, Search!Instructionwise
  <2>2. /\ todo \in Seq(FilterNames) /\ Rest(todo, FiltersOf.mutation)
        /\ InOrder(mutations, PassedBy(Done(todo, FiltersOf.mutation)))
    BY DEF SearchInv, ApplyInv
  <2> QED
    BY <1>1, <2>1, <2>2, SearchInputStays DEF ApplyInv, Rest, InOrder, Search!Before
<1>6. DoneInv'
  <2> SUFFICES ASSUME stage = "done" PROVE DoneInv'
    BY <1>1 DEF DoneInv
  <2>1. PassedBy(1 .. Len(FiltersOf.mutation))' = PassedBy(1 .. Len(FiltersOf.mutation))
    BY <1>1, SearchInputStays DEF PassedBy, PointsOf, Search!Instructionwise
  <2>2. InOrder(mutations, PassedBy(1 .. Len(FiltersOf.mutation)))
    BY DEF SearchInv, DoneInv
  <2> QED
    BY <1>1, <2>1, <2>2, SearchInputStays DEF DoneInv, InOrder, Search!Before
<1> QED
  BY <1>2, <1>3, <1>4, <1>5, <1>6 DEF SearchInv

LEMMA MutateBitcodeStep ==
  ASSUME SearchInv, NEW c \in Search!Configurations, Search!MutateBitcode(c)
  PROVE  SearchInv'
<1>1. StageInv'
  BY DEF Search!MutateBitcode, SearchInv, StageInv, InputInv
<1> QED
  BY <1>1 DEF Search!MutateBitcode, SearchInv, FunctionsInv, SelectInv, PointsInv, ApplyInv, DoneInv

LEMMA EnableFiltersStep ==
  ASSUME SearchInv, Search!EnableFilters
  PROVE  SearchInv'
<1>1. UNCHANGED <<Search!input, functions, selected, mutations, nullSeen>> /\ stage = "filters" /\ stage' = "functions"
  BY DEF Search!EnableFilters
<1>2. filters' = FiltersOf /\ todo' = AllFunctions
  BY DEF Search!EnableFilters, FiltersOf, AllFunctions
<1>3. StageInv'
  BY <1>1, <1>2, SearchInputStays DEF SearchInv, StageInv, InputInv, Search!input
<1>4. todo' \in Seq(Nat) /\ Rest(todo', AllFunctions) /\ Done(todo', AllFunctions) = {}
  BY <1>2, AscendingAll, RestEnds DEF AllFunctions, Ascending
<1>5. Ascending(functions', {})
  BY <1>1 DEF SearchInv, StageInv, Ascending, Search!ToSet
<1>6. FunctionsInv'
  BY <1>1, <1>4, <1>5, SearchInputStays DEF FunctionsInv, AllFunctions
<1> QED
  BY <1>1, <1>3, <1>6 DEF SearchInv, SelectInv, PointsInv, ApplyInv, DoneInv

LEMMA FilterFunctionStep ==
  ASSUME SearchInv, Search!FilterFunction
  PROVE  SearchInv'
<1>1. /\ UNCHANGED <<Search!input, stage, filters, selected, mutations>> /\ stage = "functions"
      /\ todo # <<>> /\ todo' = Tail(todo)
  BY DEF Search!FilterFunction
<1>2. /\ AllFunctions \in Seq(Nat) /\ Len(AllFunctions) = NFunctions
      /\ \A f \in Search!Functions : AllFunctions[f] = f
  BY AscendingAll DEF AllFunctions, Ascending
<1>3. PICK n \in Search!Functions :
        /\ Head(todo) = n
        /\ todo' \in Seq(Nat) /\ Rest(todo', AllFunctions)
        /\ Done(todo, AllFunctions) = 1 .. n - 1 /\ Done(todo', AllFunctions) = 1 .. n
  <2>1. todo \in Seq(Nat) /\ Rest(todo, AllFunctions)
    BY <1>1 DEF SearchInv, FunctionsInv
  <2>2. \E n \in 1 .. Len(AllFunctions) :
           /\ Head(todo) = AllFunctions[n]
           /\ Tail(todo) \in Seq(Nat) /\ Rest(Tail(todo), AllFunctions)
           /\ Done(todo, AllFunctions) = 1 .. n - 1 /\ Done(Tail(todo), AllFunctions) = 1 .. n
    BY <1>1, <1>2, <2>1, RestStep
  <2> QED
    BY <1>1, <1>2, <2>2 DEF Search!Functions
<1>4. filters = FiltersOf
  BY <1>1 DEF SearchInv, StageInv
<1>5. nullSeen' = FALSE
  BY <1>3, <1>4, FunctionFilters DEF Search!FilterFunction, SearchInv, StageInv
<1>6. StageInv'
  BY <1>1, <1>5, SearchInputStays DEF SearchInv, StageInv, InputInv, Search!input
<1>7. n \in Nat /\ Ascending(functions, FunctionOK \cap (1 .. n - 1))
  BY <1>1, <1>3, NumbersAssumption DEF SearchInv, FunctionsInv, Search!Functions
<1>8. Ascending(functions', FunctionOK \cap (1 .. n))
  <2>1. CASE n \in FunctionOK
    <3>1. functions' = functions \o <<n>>
      BY <1>3, <1>4, <2>1, FunctionFilters DEF Search!FilterFunction, Search!If
    <3>2. (FunctionOK \cap (1 .. n - 1)) \cup {n} = FunctionOK \cap (1 .. n)
      BY <1>7, <2>1 DEF FunctionOK, Search!Functions
    <3>3. \A y \in FunctionOK \cap (1 .. n - 1) : y < n
      BY <1>7
    <3> QED
      BY <1>7, <3>1, <3>2, <3>3, AscendingAppend
  <2>2. CASE n \notin FunctionOK
    <3>1. functions' = functions \o <<>>
      BY <1>3, <1>4, <2>2, FunctionFilters DEF Search!FilterFunction, Search!If
    <3>2. functions' = functions
      BY <1>7, <3>1, ConcatEmptySeq DEF Ascending
    <3>3. FunctionOK \cap (1 .. n - 1) = FunctionOK \cap (1 .. n)
      BY <1>7, <2>2 DEF FunctionOK, Search!Functions
    <3> QED
      BY <1>7, <3>2, <3>3
  <2> QED
    BY <2>1, <2>2
<1>9. FunctionsInv'
  BY <1>1, <1>3, <1>8, SearchInputStays DEF FunctionsInv, AllFunctions
<1> QED
  BY <1>1, <1>6, <1>9 DEF SearchInv, SelectInv, PointsInv, ApplyInv, DoneInv

\* The code of a function, in order.
LEMMA CodeAscends ==
  ASSUME NEW f
  PROVE  Ascending(Search!Code(f), {i \in Search!Instructions : functionOf[i] = f})
<1>1. Ascending(Search!Code(f), Search!Instructions \cap {i \in Search!Instructions : functionOf[i] = f})
  BY AscendingAll, AscendingOnly DEF Search!Code
<1>2. Search!Instructions \cap {i \in Search!Instructions : functionOf[i] = f}
        = {i \in Search!Instructions : functionOf[i] = f}
  OBVIOUS
<1> QED
  BY <1>1, <1>2

\* One turn of a loop over the functions that passed.
LEMMA FunctionTurn ==
  ASSUME Ascending(functions, FunctionOK), todo \in Seq(Nat), Rest(todo, functions), todo # <<>>
  PROVE  \E n \in DOMAIN functions :
           /\ Head(todo) = functions[n] /\ functions[n] \in FunctionOK
           /\ Tail(todo) \in Seq(Nat) /\ Rest(Tail(todo), functions)
           /\ Done(todo, functions) = 1 .. n - 1 /\ Done(Tail(todo), functions) = 1 .. n
           /\ n \in Nat /\ \A k \in 1 .. n - 1 : k \in DOMAIN functions /\ functions[k] < functions[n]
<1>1. functions \in Seq(Nat) /\ DOMAIN functions = 1 .. Len(functions) /\ Len(functions) \in Nat
  BY DEF Ascending
<1>2. PICK n \in 1 .. Len(functions) :
        /\ Head(todo) = functions[n]
        /\ Tail(todo) \in Seq(Nat) /\ Rest(Tail(todo), functions)
        /\ Done(todo, functions) = 1 .. n - 1 /\ Done(Tail(todo), functions) = 1 .. n
  BY <1>1, RestStep
<1>3. functions[n] \in FunctionOK
  BY <1>1, <1>2 DEF Ascending, Search!ToSet
<1>4. ASSUME NEW k \in 1 .. n - 1
      PROVE  k \in DOMAIN functions /\ functions[k] < functions[n]
  <2>1. k \in 1 .. Len(functions) /\ k < n /\ n \in 1 .. Len(functions)
    BY <1>1, <1>2
  <2> QED
    BY <1>1, <2>1 DEF Ascending
<1>5. n \in DOMAIN functions /\ n \in Nat
  BY <1>1
<1> QED
  BY <1>2, <1>3, <1>4, <1>5

LEMMA SelectInstructionsStep ==
  ASSUME SearchInv, Search!SelectInstructions
  PROVE  SearchInv'
<1>1. /\ UNCHANGED <<Search!input, stage, filters, functions, mutations, nullSeen>> /\ stage = "select"
      /\ todo # <<>> /\ todo' = Tail(todo)
  BY DEF Search!SelectInstructions
<1>2. PICK n \in DOMAIN functions :
        /\ Head(todo) = functions[n] /\ functions[n] \in FunctionOK
        /\ todo' \in Seq(Nat) /\ Rest(todo', functions)
        /\ Done(todo, functions) = 1 .. n - 1 /\ Done(todo', functions) = 1 .. n
        /\ n \in Nat /\ \A k \in 1 .. n - 1 : k \in DOMAIN functions /\ functions[k] < functions[n]
  BY <1>1, FunctionTurn DEF SearchInv, SelectInv
<1>3. PICK f : f = functions[n] /\ f \in Search!Functions
  BY <1>2 DEF FunctionOK
<1> DEFINE passing == {i \in Search!Instructions : Search!Passes(i, filters.instruction, Search!Instructionwise)}
<1>4. selected' = [selected EXCEPT ![f] = Search!Only(Search!Code(f), passing)]
  BY <1>2, <1>3 DEF Search!SelectInstructions
<1>5. selected = [g \in Search!Functions |-> selected[g]] /\ filters = FiltersOf
  BY <1>1 DEF SearchInv, StageInv
<1>6. selected'[f] = Search!Only(Search!Code(f), passing) /\ \A g \in Search!Functions : g # f => selected'[g] = selected[g]
  BY <1>3, <1>4, <1>5
<1>7. passing = InstructionOK
  BY <1>5, InstructionFilters DEF InstructionOK
<1>8. {i \in Search!Instructions : functionOf[i] = f} \cap InstructionOK = SelectedOf(f)
  BY DEF SelectedOf, InstructionOK
<1>9. Ascending(selected'[f], SelectedOf(f))
  <2> HIDE DEF passing
  <2>1. Ascending(Search!Code(f), {i \in Search!Instructions : functionOf[i] = f})
    BY CodeAscends
  <2>2. Ascending(Search!Only(Search!Code(f), InstructionOK), {i \in Search!Instructions : functionOf[i] = f} \cap InstructionOK)
    BY <2>1, AscendingOnly
  <2> QED
    BY <1>6, <1>7, <1>8, <2>2
<1>10. StageInv'
  <2>1. selected' = [g \in Search!Functions |-> selected'[g]]
    BY <1>4, <1>5
  <2> QED
    BY <1>1, <2>1, SearchInputStays DEF SearchInv, StageInv, InputInv, Search!input
<1>11. ASSUME NEW k \in 1 .. n
       PROVE  Ascending(selected'[functions[k]], SelectedOf(functions[k]))
  <2>1. CASE k = n
    BY <1>3, <1>9, <2>1
  <2>2. CASE k \in 1 .. n - 1
    <3>1. functions[k] \in FunctionOK /\ functions[k] # f
      <4>1. functions[k] \in FunctionOK /\ functions[k] \in Nat /\ f \in Nat
        BY <1>1, <1>2, <1>3, <2>2 DEF SearchInv, SelectInv, Ascending, Search!ToSet
      <4> QED
        BY <1>2, <1>3, <2>2, <4>1
    <3>2. selected'[functions[k]] = selected[functions[k]]
      BY <1>6, <3>1 DEF FunctionOK
    <3> QED
      BY <1>1, <1>2, <2>2, <3>2 DEF SearchInv, SelectInv
  <2> QED
    BY <1>2, <2>1, <2>2
<1>12. Ascending(functions, FunctionOK)
  BY <1>1 DEF SearchInv, SelectInv
<1>13. SelectInv'
  BY <1>1, <1>2, <1>11, <1>12, SearchInputStays DEF SelectInv, Ascending, SelectedOf
<1> QED
  BY <1>1, <1>10, <1>13 DEF SearchInv, FunctionsInv, PointsInv, ApplyInv, DoneInv


\* What the mutators of one kind find in a function.
LEMMA FoundInFunction ==
  ASSUME NEW f \in Search!Functions, Ascending(selected[f], SelectedOf(f)), NEW m \in Search!Kinds
  PROVE  InOrder(Search!If(m \in config.mutators, Search!Found(m, f)),
                 {p \in PointsOf({f}) : p.mutator = m})
<1> DEFINE A == IF m = "trivial" THEN SelectedOf(f) \cap Trivial
                ELSE {i \in Search!Instructions : functionOf[i] = f} \cap Logical
<1>1. Ascending(Search!Matches(m, f), A)
  BY AscendingOnly, CodeAscends DEF Search!Matches
<1>2. A \in SUBSET Search!Instructions /\ \A i, j \in A : functionOf[i] = functionOf[j]
  BY DEF SelectedOf, InstructionOK
<1>3. \A i \in Search!Instructions :
        i \in A <=> /\ functionOf[i] = f
                    /\ i \in (IF m = "trivial" THEN InstructionOK \cap Trivial ELSE Logical)
  BY DEF SelectedOf
<1> HIDE DEF A
<1>4. InOrder(Search!Found(m, f), {p \in Points : p.mutator = m /\ p.instruction \in A})
  BY <1>1, <1>2, InOrderFound DEF Search!Found
<1>5. CASE m \in config.mutators
  <2>1. {p \in Points : p.mutator = m /\ p.instruction \in A} = {p \in PointsOf({f}) : p.mutator = m}
    BY <1>3, <1>5 DEF PointsOf, IsFound, Points
  <2> QED
    BY <1>4, <1>5, <2>1 DEF Search!If
<1>6. CASE m \notin config.mutators
  <2>1. {p \in PointsOf({f}) : p.mutator = m} = {}
    BY <1>6 DEF PointsOf, IsFound
  <2>2. InOrder(<<>>, {})
    BY DEF InOrder, Search!ToSet
  <2> QED
    BY <1>6, <2>1, <2>2 DEF Search!If
<1> QED
  BY <1>5, <1>6

LEMMA SearchPointsStep ==
  ASSUME SearchInv, Search!SearchPoints
  PROVE  SearchInv'
<1>1. /\ UNCHANGED <<Search!input, stage, filters, functions, selected, nullSeen>> /\ stage = "search"
      /\ todo # <<>> /\ todo' = Tail(todo)
  BY DEF Search!SearchPoints
<1>2. /\ todo \in Seq(Nat) /\ Rest(todo, functions) /\ Ascending(functions, FunctionOK)
      /\ \A f \in FunctionOK : Ascending(selected[f], SelectedOf(f))
      /\ InOrder(mutations, PointsOf({functions[k] : k \in Done(todo, functions)}))
  BY <1>1 DEF SearchInv, PointsInv
<1>3. PICK n \in DOMAIN functions :
        /\ Head(todo) = functions[n] /\ functions[n] \in FunctionOK
        /\ todo' \in Seq(Nat) /\ Rest(todo', functions)
        /\ Done(todo, functions) = 1 .. n - 1 /\ Done(todo', functions) = 1 .. n
        /\ n \in Nat /\ \A k \in 1 .. n - 1 : k \in DOMAIN functions /\ functions[k] < functions[n]
  BY <1>1, <1>2, FunctionTurn
<1>4. PICK f : f = functions[n] /\ f \in Search!Functions /\ f \in Nat
  BY <1>3 DEF FunctionOK, Search!Functions
<1> DEFINE before == {functions[k] : k \in 1 .. n - 1}
           Trivials == {p \in PointsOf({f}) : p.mutator = "trivial"}
           Logicals == {p \in PointsOf({f}) : p.mutator = "logical"}
<1>5. /\ InOrder(Search!If("trivial" \in config.mutators, Search!Found("trivial", f)), Trivials)
      /\ InOrder(Search!If("logical" \in config.mutators, Search!Found("logical", f)), Logicals)
  BY <1>2, <1>3, <1>4, FoundInFunction DEF Search!Kinds
<1>6. mutations' = (mutations \o Search!If("trivial" \in config.mutators, Search!Found("trivial", f)))
                              \o Search!If("logical" \in config.mutators, Search!Found("logical", f))
  BY <1>3, <1>4 DEF Search!SearchPoints
<1>7. \A p \in PointsOf(before), q \in PointsOf({f}) : Search!Before(p, q)
  <2> TAKE p \in PointsOf(before), q \in PointsOf({f})
  <2>1. functionOf[p.instruction] \in before /\ functionOf[q.instruction] = f
    BY DEF PointsOf
  <2>2. functionOf[p.instruction] < f
    BY <1>3, <1>4, <2>1
  <2> QED
    BY <2>1, <2>2 DEF Search!Before
<1>8. \A p \in Trivials, q \in Logicals : Search!Before(p, q)
  BY DEF PointsOf, Search!Before
<1>9. InOrder(mutations, PointsOf(before))
  BY <1>2, <1>3
<1> HIDE DEF before
<1>10. InOrder(mutations', (PointsOf(before) \cup Trivials) \cup Logicals)
  <2>1. PICK a, b : /\ a = Search!If("trivial" \in config.mutators, Search!Found("trivial", f))
                    /\ b = Search!If("logical" \in config.mutators, Search!Found("logical", f))
    OBVIOUS
  <2>2. InOrder(a, Trivials) /\ InOrder(b, Logicals) /\ mutations' = (mutations \o a) \o b
    BY <1>5, <1>6, <2>1
  <2>3. InOrder(mutations \o a, PointsOf(before) \cup Trivials)
    <3>1. \A p \in PointsOf(before), q \in Trivials : Search!Before(p, q)
      BY <1>7
    <3> QED
      BY <1>9, <2>2, <3>1, InOrderConcat
  <2>4. \A p \in PointsOf(before) \cup Trivials, q \in Logicals : Search!Before(p, q)
    BY <1>7, <1>8
  <2> HIDE DEF Trivials, Logicals
  <2>5. InOrder((mutations \o a) \o b, (PointsOf(before) \cup Trivials) \cup Logicals)
    BY <2>2, <2>3, <2>4, InOrderConcat
  <2> QED
    BY <2>2, <2>5
<1>11. (PointsOf(before) \cup Trivials) \cup Logicals = PointsOf({functions[k] : k \in 1 .. n})
  <2>1. {functions[k] : k \in 1 .. n} = before \cup {f}
    <3>1. n \in 1 .. Len(functions) /\ Len(functions) \in Nat
      BY <1>2, <1>3 DEF Ascending
    <3>2. \A k : k \in 1 .. n <=> k \in 1 .. n - 1 \/ k = n
      BY <3>1
    <3> QED
      BY <1>4, <3>2 DEF before
  <2>2. \A p \in Points : p.mutator \in {"trivial", "logical"}
    BY DEF Points, Search!Kinds
  <2> QED
    BY <2>1, <2>2 DEF PointsOf
<1>12. InOrder(mutations', PointsOf({functions[k] : k \in Done(todo', functions)}))
  BY <1>3, <1>10, <1>11
<1>13. StageInv'
  BY <1>1, SearchInputStays DEF SearchInv, StageInv, InputInv, Search!input
<1>14. PointsInv'
  <2>1. Ascending(functions, FunctionOK)'
    BY <1>1, <1>2, SearchInputStays DEF Ascending
  <2>2. ASSUME NEW g \in FunctionOK PROVE Ascending(selected[g], SelectedOf(g))'
    <3>1. selected[g]' = selected[g] /\ SelectedOf(g)' = SelectedOf(g)
      BY <1>1, SearchInputStays DEF SelectedOf
    <3> QED
      BY <1>2, <3>1 DEF Ascending
  <2>3. InOrder(mutations, PointsOf({functions[k] : k \in Done(todo, functions)}))'
    <3>1. PointsOf({functions[k] : k \in Done(todo, functions)})' = PointsOf({functions[k] : k \in Done(todo', functions)})
      BY <1>1, SearchInputStays DEF PointsOf, Done
    <3> QED
      BY <1>12, <3>1, SearchInputStays, <1>1 DEF InOrder, Search!Before
  <2> QED
    BY <1>1, <1>3, <2>1, <2>2, <2>3, SearchInputStays DEF PointsInv, Rest
<1> QED
  BY <1>1, <1>13, <1>14 DEF SearchInv, FunctionsInv, SelectInv, ApplyInv, DoneInv

LEMMA MutationFiltersTyped == FiltersOf.mutation \in Seq(FilterNames)
<1>1. /\ <<"noDebug", "path", "junk">> \in Seq(FilterNames) /\ <<"noDebug", "path">> \in Seq(FilterNames)
      /\ <<"noDebug", "junk">> \in Seq(FilterNames) /\ <<"noDebug">> \in Seq(FilterNames)
  BY DEF FilterNames
<1> QED
  BY <1>1, ListsAre

LEMMA ApplyFilterStep ==
  ASSUME SearchInv, Search!ApplyFilter
  PROVE  SearchInv'
<1>1. /\ UNCHANGED <<Search!input, stage, filters, functions, selected>> /\ stage = "apply"
      /\ todo # <<>> /\ todo' = Tail(todo)
  BY DEF Search!ApplyFilter
<1>2. /\ todo \in Seq(FilterNames) /\ Rest(todo, FiltersOf.mutation)
      /\ InOrder(mutations, PassedBy(Done(todo, FiltersOf.mutation)))
  BY <1>1 DEF SearchInv, ApplyInv
<1>3. FiltersOf.mutation \in Seq(FilterNames)
  BY MutationFiltersTyped
<1>4. PICK n \in 1 .. Len(FiltersOf.mutation) :
        /\ Head(todo) = FiltersOf.mutation[n]
        /\ todo' \in Seq(FilterNames) /\ Rest(todo', FiltersOf.mutation)
        /\ Done(todo, FiltersOf.mutation) = 1 .. n - 1 /\ Done(todo', FiltersOf.mutation) = 1 .. n
  <2>1. \E n \in 1 .. Len(FiltersOf.mutation) :
           /\ Head(todo) = FiltersOf.mutation[n]
           /\ Tail(todo) \in Seq(FilterNames) /\ Rest(Tail(todo), FiltersOf.mutation)
           /\ Done(todo, FiltersOf.mutation) = 1 .. n - 1 /\ Done(Tail(todo), FiltersOf.mutation) = 1 .. n
    BY <1>1, <1>2, <1>3, RestStep
  <2> QED
    BY <1>1, <2>1
<1> DEFINE S == [mutator : Search!Kinds, instruction : Search!Instructionwise[FiltersOf.mutation[n]]]
<1>5. mutations' = Search!Only(mutations, S)
  BY <1>4 DEF Search!ApplyFilter
<1>6. PassedBy(1 .. n - 1) \cap S = PassedBy(1 .. n)
  <2>1. n \in Nat
    BY <1>3, <1>4
  <2>2. \A p \in Points : p \in S <=> p.instruction \in Search!Instructionwise[FiltersOf.mutation[n]]
    BY DEF Points
  <2>3. \A k : k \in 1 .. n <=> k \in 1 .. n - 1 \/ k = n
    BY <1>3, <1>4
  <2> HIDE DEF S
  <2> QED
    BY <2>2, <2>3 DEF PassedBy, PointsOf
<1>7. InOrder(mutations', PassedBy(1 .. n))
  <2> HIDE DEF S
  <2>1. InOrder(Search!Only(mutations, S), PassedBy(1 .. n - 1) \cap S)
    BY <1>2, <1>4, InOrderOnly
  <2> QED
    BY <1>5, <1>6, <2>1
<1>8. nullSeen' = FALSE
  <2> SUFFICES ASSUME Head(todo) = "path", NEW k \in DOMAIN mutations
               PROVE  mutations[k].instruction \in Located
    BY DEF Search!ApplyFilter, SearchInv, StageInv
  <2>1. n > 1 /\ FiltersOf.mutation[1] = "noDebug"
    BY <1>4, ListsAre
  <2>2. mutations[k] \in PassedBy(1 .. n - 1)
    BY <1>2, <1>4 DEF InOrder, Search!ToSet
  <2>3. 1 \in 1 .. n - 1
    BY <1>4, <2>1
  <2>4. mutations[k].instruction \in Search!Instructionwise["noDebug"]
    BY <2>1, <2>2, <2>3 DEF PassedBy
  <2> QED
    BY <2>4 DEF Search!Instructionwise
<1>9. StageInv'
  BY <1>1, <1>8, SearchInputStays DEF SearchInv, StageInv, InputInv, Search!input
<1>10. ApplyInv'
  <2>1. PassedBy(Done(todo, FiltersOf.mutation))' = PassedBy(1 .. n)
    BY <1>1, <1>4, SearchInputStays DEF PassedBy, PointsOf, Done, Search!Instructionwise
  <2> QED
    BY <1>1, <1>4, <1>7, <2>1, SearchInputStays DEF ApplyInv, Rest, InOrder, Search!Before
<1> QED
  BY <1>1, <1>9, <1>10 DEF SearchInv, FunctionsInv, SelectInv, PointsInv, DoneInv


LEMMA NextStageStep ==
  ASSUME SearchInv, Search!NextStage
  PROVE  SearchInv'
<1>1. /\ UNCHANGED <<Search!input, filters, functions, selected, mutations, nullSeen>>
      /\ stage \in {"functions", "select", "search", "apply"} /\ todo = <<>>
      /\ stage' = CASE stage = "functions" -> "select" [] stage = "select" -> "search"
                    [] stage = "search" -> "apply" [] stage = "apply" -> "done"
      /\ todo' = CASE stage' = "apply" -> filters.mutation [] stage' = "done" -> <<>> [] OTHER -> functions
  BY DEF Search!NextStage, Search!After
<1>2. StageInv'
  BY <1>1, SearchInputStays DEF SearchInv, StageInv, InputInv, Search!input
<1>3. CASE stage = "functions"
  <2>1. stage' = "select" /\ todo' = functions
    BY <1>1, <1>3
  <2>2. Done(todo, AllFunctions) = Search!Functions
    BY <1>1, AscendingAll, RestEnds DEF AllFunctions, Ascending, Search!Functions
  <2>3. Ascending(functions, FunctionOK)
    <3>1. FunctionOK \cap Search!Functions = FunctionOK
      BY DEF FunctionOK
    <3> QED
      BY <1>3, <2>2, <3>1 DEF SearchInv, FunctionsInv
  <2>4. functions \in Seq(Nat) /\ Rest(functions, functions) /\ Done(functions, functions) = {}
    BY <2>3, RestEnds DEF Ascending
  <2>5. SelectInv'
    BY <1>1, <2>1, <2>3, <2>4, SearchInputStays DEF SelectInv, Ascending, Rest, Done
  <2> QED
    BY <1>2, <2>1, <2>5 DEF SearchInv, FunctionsInv, PointsInv, ApplyInv, DoneInv
<1>4. CASE stage = "select"
  <2>1. stage' = "search" /\ todo' = functions
    BY <1>1, <1>4
  <2>2. /\ Ascending(functions, FunctionOK)
        /\ \A k \in Done(todo, functions) : Ascending(selected[functions[k]], SelectedOf(functions[k]))
    BY <1>4 DEF SearchInv, SelectInv
  <2>3. /\ functions \in Seq(Nat) /\ Rest(functions, functions) /\ Done(functions, functions) = {}
        /\ Done(todo, functions) = DOMAIN functions
    BY <1>1, <2>2, RestEnds DEF Ascending
  <2>4. ASSUME NEW g \in FunctionOK PROVE Ascending(selected[g], SelectedOf(g))'
    <3>1. PICK k \in DOMAIN functions : functions[k] = g
      BY <2>2 DEF Ascending, Search!ToSet
    <3>2. Ascending(selected[g], SelectedOf(g))
      BY <2>2, <2>3, <3>1
    <3>3. selected[g]' = selected[g] /\ SelectedOf(g)' = SelectedOf(g)
      BY <1>1, SearchInputStays DEF SelectedOf
    <3> QED
      BY <3>2, <3>3 DEF Ascending
  <2>5. InOrder(mutations, PointsOf({functions[k] : k \in Done(todo, functions)}))'
    <3>1. mutations' = <<>>
      BY <1>1, <1>4 DEF SearchInv, StageInv
    <3>2. PointsOf({functions[k] : k \in Done(todo, functions)})' = {}
      <4>1. Done(todo, functions)' = {}
        BY <1>1, <2>1, <2>3 DEF Done
      <4> QED
        BY <4>1 DEF PointsOf
    <3> QED
      BY <3>1, <3>2 DEF InOrder, Search!ToSet
  <2>6. PointsInv'
    <3>1. Ascending(functions, FunctionOK)' /\ Rest(todo, functions)' /\ todo' \in Seq(Nat)
      BY <1>1, <2>1, <2>2, <2>3, SearchInputStays DEF Ascending, Rest
    <3> QED
      BY <1>1, <2>4, <2>5, <3>1, SearchInputStays DEF PointsInv
  <2> QED
    BY <1>2, <2>1, <2>6 DEF SearchInv, FunctionsInv, SelectInv, ApplyInv, DoneInv
<1>5. CASE stage = "search"
  <2>1. stage' = "apply" /\ todo' = FiltersOf.mutation
    BY <1>1, <1>5 DEF SearchInv, StageInv
  <2>2. /\ Ascending(functions, FunctionOK)
        /\ InOrder(mutations, PointsOf({functions[k] : k \in Done(todo, functions)}))
    BY <1>5 DEF SearchInv, PointsInv
  <2>3. {functions[k] : k \in Done(todo, functions)} = FunctionOK
    <3>1. Done(todo, functions) = DOMAIN functions
      BY <1>1, <2>2, RestEnds DEF Ascending
    <3> QED
      BY <2>2, <3>1 DEF Ascending, Search!ToSet
  <2>4. FiltersOf.mutation \in Seq(FilterNames)
    BY MutationFiltersTyped
  <2>5. Rest(FiltersOf.mutation, FiltersOf.mutation) /\ Done(FiltersOf.mutation, FiltersOf.mutation) = {}
    BY <2>4, RestEnds
  <2>6. PassedBy(Done(todo, FiltersOf.mutation))' = PointsOf(FunctionOK)
    <3>1. Done(todo, FiltersOf.mutation)' = {}
      BY <2>1, <2>5, <1>1, SearchInputStays DEF Done
    <3> QED
      BY <1>1, <3>1, SearchInputStays DEF PassedBy, PointsOf
  <2>7. InOrder(mutations, PointsOf(FunctionOK))
    BY <2>2, <2>3
  <2>8. ApplyInv'
    BY <1>1, <2>1, <2>4, <2>5, <2>6, <2>7, SearchInputStays DEF ApplyInv, Rest, InOrder, Search!Before
  <2> QED
    BY <1>2, <2>1, <2>8 DEF SearchInv, FunctionsInv, SelectInv, PointsInv, DoneInv
<1>6. CASE stage = "apply"
  <2>1. stage' = "done"
    BY <1>1, <1>6
  <2>2. Done(todo, FiltersOf.mutation) = 1 .. Len(FiltersOf.mutation)
    BY <1>1, MutationFiltersTyped, RestEnds
  <2>3. InOrder(mutations, PassedBy(1 .. Len(FiltersOf.mutation)))
    BY <1>6, <2>2 DEF SearchInv, ApplyInv
  <2>4. PassedBy(1 .. Len(FiltersOf.mutation))' = PassedBy(1 .. Len(FiltersOf.mutation))
    BY <1>1, SearchInputStays DEF PassedBy, PointsOf, Search!Instructionwise
  <2>5. DoneInv'
    BY <1>1, <2>3, <2>4, SearchInputStays DEF DoneInv, InOrder, Search!Before
  <2> QED
    BY <1>2, <2>1, <2>5 DEF SearchInv, FunctionsInv, SelectInv, PointsInv, ApplyInv
<1> QED
  BY <1>1, <1>3, <1>4, <1>5, <1>6

-----------------------------------------------------------------------------
(* The search in the composition *)

\* Its mutators are those that were made.
SearchInDriver == SearchInv /\ kinds \subseteq Search!Kinds

LEMMA InitSearchInv == Init => SearchInDriver
  BY DEF Init, Search!Init, SearchInDriver, SearchInv, StageInv, FunctionsInv, SelectInv, PointsInv, ApplyInv, DoneInv

LEMMA NextSearchInv == SearchInDriver /\ [Next]_vars => SearchInDriver'
<1> SUFFICES ASSUME SearchInDriver, [Next]_vars PROVE SearchInDriver'
  OBVIOUS
<1>1. CASE UNCHANGED searchVars /\ (UNCHANGED kinds \/ TakeMutators)
  BY <1>1, SearchStays DEF SearchInDriver, TakeMutators
<1>2. CASE StartSearch
  <2>1. PICK path \in BOOLEAN, diff \in BOOLEAN, junk \in BOOLEAN :
          Search!MutateBitcode([path |-> path, diff |-> diff, junk |-> junk, mutators |-> kinds])
    BY <1>2 DEF StartSearch
  <2>2. [path |-> path, diff |-> diff, junk |-> junk, mutators |-> kinds] \in Search!Configurations
    BY DEF SearchInDriver, Search!Configurations
  <2> QED
    BY <1>2, <2>1, <2>2, MutateBitcodeStep DEF SearchInDriver, StartSearch
<1>3. CASE SearchMutations
  <2>1. Search!EnableFilters \/ Search!FilterFunction \/ Search!SelectInstructions \/ Search!SearchPoints
          \/ Search!ApplyFilter \/ Search!NextStage
    BY <1>3 DEF SearchMutations, Search!Next, Search!MutateBitcode
  <2>2. SearchInv'
    BY <2>1, EnableFiltersStep, FilterFunctionStep, SelectInstructionsStep, SearchPointsStep, ApplyFilterStep,
       NextStageStep DEF SearchInDriver
  <2> QED
    BY <1>3, <2>2 DEF SearchInDriver, SearchMutations
<1> QED
  BY <1>1, <1>2, <1>3
     DEF Next, vars, MakeDatabase, MakeMutators, TakeMutators, MutateOperator, MutateCondition

\* No filter by path is asked about a location that is null.
THEOREM LocationsCorrect == Spec => []PathFilterSeesLocations
<1>1. SearchInDriver => PathFilterSeesLocations
  BY DEF SearchInDriver, SearchInv, StageInv, PathFilterSeesLocations, Search!PathFilterSeesLocations
<1> QED
  BY <1>1, InitSearchInv, NextSearchInv, PTL DEF Spec

\* The mutations are exactly those of the mutators that were made which pass the filters
\* that are on, each once, in the order of the code.
THEOREM MutationsCorrect == Spec => []MutationsAreExact
<1>1. ASSUME SearchInDriver PROVE MutationsAreExact
  <2>1. \A k, l \in DOMAIN mutations : k < l => Search!Before(mutations[k], mutations[l])
    BY <1>1 DEF SearchInDriver, SearchInv, StageInv, PointsInv, ApplyInv, DoneInv, InOrder
  <2>2. ASSUME stage = "done"
        PROVE  Search!ToSet(mutations) = {p \in Points : Search!Matching(p) /\ Search!Wanted(p)}
    <3>1. Search!ToSet(mutations) = PassedBy(1 .. Len(FiltersOf.mutation)) /\ InputInv
      BY <1>1, <2>2 DEF SearchInDriver, SearchInv, DoneInv, StageInv, InOrder
    <3>2. ASSUME NEW p \in Points
          PROVE  p \in PassedBy(1 .. Len(FiltersOf.mutation)) <=> Search!Matching(p) /\ Search!Wanted(p)
      <4>1. (\A k \in 1 .. Len(FiltersOf.mutation) : p.instruction \in Search!Instructionwise[FiltersOf.mutation[k]])
              <=> /\ p.instruction \in Located
                  /\ config.path => p.instruction \in InPath
                  /\ config.junk => p.instruction \notin Junk
        BY ListsAre DEF Search!Instructionwise
      <4>2. p.instruction \in Search!Instructions /\ functionOf[p.instruction] \in Search!Functions
        BY <3>1 DEF Points, InputInv
      <4> QED
        BY <4>1, <4>2 DEF PassedBy, PointsOf, IsFound, FunctionOK, InstructionOK, Search!Matching, Search!Wanted
    <3>3. PassedBy(1 .. Len(FiltersOf.mutation)) \subseteq Points
      BY DEF PassedBy, PointsOf
    <3> QED
      BY <3>1, <3>2, <3>3
  <2> QED
    BY <2>1, <2>2 DEF MutationsAreExact, Search!MutationsAreExact, Points
<1>2. SearchInDriver => MutationsAreExact
  BY <1>1
<1> QED
  BY <1>2, InitSearchInv, NextSearchInv, PTL DEF Spec

-----------------------------------------------------------------------------
(* The operators: what a mutant computes is what the source would compute  *)
(* with the operator replaced, on numbers of any width that are neither    *)
(* negative nor NaN. The numbers are those of W bits, so that the lemmas   *)
(* begin with powers of two and with bits.                                 *)

\* The powers of two, up to the width of a number, are what their recursion says.
LEMMA TwoToRecursion ==
  Operator!TwoTo = [n \in 0 .. W |-> IF n = 0 THEN 1 ELSE 2 * Operator!TwoTo[n - 1]]
<1> USE WAssumption
<1> DEFINE Loop(g, n) == g = [k \in 0 .. n |-> IF k = 0 THEN 1 ELSE 2 * g[k - 1]]
           T == {n \in Nat : ~ \E g : Loop(g, n)}
<1>1. T = {}
  <2>1. SUFFICES ASSUME T # {} PROVE FALSE
    OBVIOUS
  <2>2. PICK n \in T : \A m \in T : n <= m
    BY <2>1, Smallest
  <2>3. CASE n = 0
    <3> DEFINE g == [k \in 0 .. 0 |-> 1]
    <3>1. Loop(g, 0)
      OBVIOUS
    <3> QED
      BY <2>2, <2>3, <3>1
  <2>4. CASE n # 0
    <3>1. n - 1 \in Nat /\ ~ (n <= n - 1)
      BY <2>4
    <3>2. PICK g : Loop(g, n - 1)
      BY <2>2, <3>1
    <3> DEFINE h == [k \in 0 .. n |-> IF k = n THEN 2 * g[n - 1] ELSE g[k]]
    <3>3. ASSUME NEW k \in 0 .. n
          PROVE  h[k] = IF k = 0 THEN 1 ELSE 2 * h[k - 1]
      <4>1. CASE k = n
        <5>1. h[k - 1] = g[n - 1] /\ h[k] = 2 * g[n - 1]
          BY <2>4, <4>1
        <5> QED
          BY <2>4, <4>1, <5>1
      <4>2. CASE k # n
        <5>1. k \in 0 .. n - 1 /\ h[k] = g[k]
          BY <4>2
        <5>2. g[k] = IF k = 0 THEN 1 ELSE 2 * g[k - 1]
          BY <3>2, <5>1
        <5>3. k # 0 => h[k - 1] = g[k - 1]
          BY <5>1
        <5> QED
          BY <5>1, <5>2, <5>3
      <4> QED
        BY <4>1, <4>2
    <3>4. Loop(h, n)
      <4> HIDE DEF h
      <4>1. h = [k \in 0 .. n |-> h[k]]
        BY DEF h
      <4> QED
        BY <3>3, <4>1
    <3> QED
      BY <2>2, <3>4
  <2> QED
    BY <2>3, <2>4
<1>2. \E g : Loop(g, W)
  BY <1>1
<1> QED
  BY <1>2 DEF Operator!TwoTo

LEMMA TwoToIs ==
  /\ Operator!TwoTo[0] = 1
  /\ \A n \in Nat : n < W => Operator!TwoTo[n + 1] = 2 * Operator!TwoTo[n]
  /\ \A n \in 0 .. W : Operator!TwoTo[n] \in Nat /\ Operator!TwoTo[n] > 0
<1> USE WAssumption
<1>1. Operator!TwoTo[0] = 1
  BY TwoToRecursion
<1>2. ASSUME NEW n \in Nat, n < W
      PROVE  Operator!TwoTo[n + 1] = 2 * Operator!TwoTo[n]
  <2>1. n + 1 \in 0 .. W /\ n + 1 # 0 /\ (n + 1) - 1 = n
    BY <1>2
  <2> QED
    BY TwoToRecursion, <2>1
<1>3. \A n \in 0 .. W : Operator!TwoTo[n] \in Nat /\ Operator!TwoTo[n] > 0
  <2> DEFINE T == {n \in 0 .. W : ~(Operator!TwoTo[n] \in Nat /\ Operator!TwoTo[n] > 0)}
  <2>1. SUFFICES ASSUME T # {} PROVE FALSE
    OBVIOUS
  <2>2. PICK n \in T : \A m \in T : n <= m
    <3>1. T \subseteq Nat
      OBVIOUS
    <3> QED
      BY <2>1, <3>1, Smallest
  <2>3. n # 0
    BY <1>1, <2>2
  <2>4. n - 1 \in Nat /\ n - 1 < W /\ n - 1 \in 0 .. W /\ n - 1 \notin T /\ (n - 1) + 1 = n
    BY <2>2, <2>3
  <2>5. Operator!TwoTo[n] = 2 * Operator!TwoTo[n - 1]
    BY <1>2, <2>4
  <2>6. Operator!TwoTo[n - 1] \in Nat /\ Operator!TwoTo[n - 1] > 0
    BY <2>4
  <2> QED
    BY <2>2, <2>5, <2>6
<1> QED
  BY <1>1, <1>2, <1>3

\* A lower power divides a higher one.
LEMMA PowerDivides ==
  ASSUME NEW w \in 0 .. W, NEW k \in 0 .. w
  PROVE  \E n \in Nat : n > 0 /\ Operator!TwoTo[w] = n * Operator!TwoTo[k]
<1> USE WAssumption
<1> DEFINE P(v) == \E n \in Nat : n > 0 /\ Operator!TwoTo[v] = n * Operator!TwoTo[k]
           T == {v \in k .. w : ~P(v)}
<1>1. SUFFICES ASSUME T # {} PROVE FALSE
  OBVIOUS
<1>2. PICK v \in T : \A m \in T : v <= m
  <2>1. T \subseteq Nat
    OBVIOUS
  <2> QED
    BY <1>1, <2>1, Smallest
<1>3. PICK t \in Nat : t = Operator!TwoTo[k]
  BY TwoToIs
<1>4. P(k)
  <2>1. 1 * Operator!TwoTo[k] = Operator!TwoTo[k]
    BY <1>3
  <2> QED
    BY <2>1
<1>5. v # k /\ v - 1 \in k .. w /\ v - 1 \notin T
  BY <1>2, <1>4
<1>6. PICK n \in Nat : n > 0 /\ Operator!TwoTo[v - 1] = n * Operator!TwoTo[k]
  BY <1>5
<1>7. Operator!TwoTo[v] = 2 * Operator!TwoTo[v - 1]
  <2>1. v - 1 \in Nat /\ v - 1 < W /\ (v - 1) + 1 = v
    BY <1>2, <1>5
  <2> QED
    BY <2>1, TwoToIs
<1>8. 2 * n \in Nat /\ 2 * n > 0 /\ Operator!TwoTo[v] = (2 * n) * Operator!TwoTo[k]
  BY <1>3, <1>6, <1>7
<1> QED
  BY <1>2, <1>8

\* Quotient and remainder.
LEMMA Divided ==
  ASSUME NEW x \in Nat, NEW d \in Nat, d > 0
  PROVE  x \div d \in Nat /\ x % d \in 0 .. d - 1 /\ x = d * (x \div d) + (x % d)
  OBVIOUS

LEMMA DividedBy ==
  ASSUME NEW d \in Nat, d > 0, NEW q \in Int, NEW r \in 0 .. d - 1
  PROVE  (d * q + r) \div d = q /\ (d * q + r) % d = r
  OBVIOUS

\* One more bit.
LEMMA LowerBits ==
  ASSUME NEW x \in Nat, NEW d \in Nat, d > 0
  PROVE  x % (2 * d) = d * ((x \div d) % 2) + (x % d)
<1>1. PICK q \in Nat : q = x \div d
  BY Divided
<1>2. PICK r \in 0 .. d - 1 : r = x % d
  BY Divided
<1>3. PICK p \in Nat : p = q \div 2
  BY Divided
<1>4. PICK b \in 0 .. 1 : b = q % 2
  BY Divided
<1>5. q = 2 * p + b /\ x = d * q + r
  BY <1>1, <1>2, <1>3, <1>4, Divided
<1>6. x = (2 * d) * p + (d * b + r)
  BY <1>5
<1>7. d * b + r \in 0 .. 2 * d - 1
  <2>1. CASE b = 0
    BY <2>1
  <2>2. CASE b = 1
    BY <2>2
  <2> QED
    BY <2>1, <2>2
<1>8. PICK e \in Nat : e = 2 * d /\ e > 0
  OBVIOUS
<1>9. x % e = d * b + r
  <2>1. PICK t \in 0 .. e - 1 : t = d * b + r
    BY <1>7, <1>8
  <2>2. x = e * p + t
    BY <1>6, <1>8, <2>1
  <2>3. p \in Int
    OBVIOUS
  <2>4. (e * p + t) % e = t
    BY <1>8, <2>3, DividedBy
  <2> QED
    BY <2>1, <2>2, <2>4
<1> QED
  BY <1>1, <1>2, <1>4, <1>8, <1>9

\* A number is determined by its bits.
LEMMA BitsDetermine ==
  ASSUME NEW w \in 0 .. W, NEW x \in 0 .. Operator!TwoTo[w] - 1, NEW y \in 0 .. Operator!TwoTo[w] - 1,
         Operator!Bits(x, w) = Operator!Bits(y, w)
  PROVE  x = y
<1> USE WAssumption
<1> DEFINE P(k) == x % Operator!TwoTo[k] = y % Operator!TwoTo[k]
           T == {k \in 0 .. w : ~P(k)}
<1>0. x \in Nat /\ y \in Nat
  BY TwoToIs
<1>1. P(0)
  <2>1. x % 1 = 0 /\ y % 1 = 0
    BY <1>0
  <2> QED
    BY <2>1, TwoToIs
<1>2. T = {}
  <2>1. SUFFICES ASSUME T # {} PROVE FALSE
    OBVIOUS
  <2>2. PICK k \in T : \A m \in T : k <= m
    <3>1. T \subseteq Nat
      OBVIOUS
    <3> QED
      BY <2>1, <3>1, Smallest
  <2>3. k # 0
    BY <1>1, <2>2
  <2>4. k - 1 \in 0 .. w /\ k - 1 \in Nat /\ k - 1 < W /\ (k - 1) + 1 = k /\ k - 1 \in 0 .. w - 1 /\ k - 1 \in 0 .. W
    BY <2>2, <2>3
  <2>5. P(k - 1)
    <3>1. ~ (k <= k - 1)
      BY <2>4
    <3>2. k - 1 \notin T
      BY <2>2, <3>1
    <3> QED
      BY <2>4, <3>2
  <2>6. PICK d \in Nat : d = Operator!TwoTo[k - 1] /\ d > 0
    BY <2>4, TwoToIs
  <2>7. Operator!TwoTo[k] = 2 * d
    BY <2>4, <2>6, TwoToIs
  <2>8. (x \div d) % 2 = 1 <=> (y \div d) % 2 = 1
    <3>1. k - 1 \in Operator!Bits(x, w) <=> k - 1 \in Operator!Bits(y, w)
      OBVIOUS
    <3> QED
      BY <2>4, <2>6, <3>1 DEF Operator!Bits
  <2>9. (x \div d) % 2 = (y \div d) % 2
    <3>1. (x \div d) % 2 \in 0 .. 1 /\ (y \div d) % 2 \in 0 .. 1
      BY <1>0, <2>6, Divided
    <3> QED
      BY <2>8, <3>1
  <2>10. x % (2 * d) = y % (2 * d)
    <3>1. x % (2 * d) = d * ((x \div d) % 2) + (x % d)
      BY <1>0, <2>6, LowerBits
    <3>2. y % (2 * d) = d * ((y \div d) % 2) + (y % d)
      BY <1>0, <2>6, LowerBits
    <3> QED
      BY <2>5, <2>6, <2>9, <3>1, <3>2
  <2> QED
    BY <2>2, <2>7, <2>10
<1>3. x % Operator!TwoTo[w] = x /\ y % Operator!TwoTo[w] = y
  <2>1. PICK m \in Nat : m = Operator!TwoTo[w] /\ m > 0
    BY TwoToIs
  <2>2. \A z \in 0 .. m - 1 : z % m = z
    <3>1. SUFFICES ASSUME NEW z \in 0 .. m - 1 PROVE z % m = z
      OBVIOUS
    <3>2. m * 0 + z = z
      BY <2>1
    <3> QED
      BY <2>1, <3>2, DividedBy
  <2> QED
    BY <2>1, <2>2
<1> QED
  <2>1. w \notin T /\ w \in 0 .. w
    BY <1>2
  <2> QED
    BY <1>3, <2>1

\* The number of its bits is the number.
LEMMA NumberOfBits ==
  ASSUME NEW w \in 0 .. W, NEW x \in 0 .. Operator!TwoTo[w] - 1
  PROVE  Operator!Number(Operator!Bits(x, w), w) = x
<1> DEFINE n == CHOOSE n \in 0 .. Operator!TwoTo[w] - 1 : Operator!Bits(n, w) = Operator!Bits(x, w)
<1>1. n \in 0 .. Operator!TwoTo[w] - 1 /\ Operator!Bits(n, w) = Operator!Bits(x, w)
  BY Zenon
<1>2. Operator!Number(Operator!Bits(x, w), w) = n
  BY Zenon DEF Operator!Number
<1> HIDE DEF n
<1>3. n = x
  BY <1>1, BitsDetermine
<1> QED
  BY <1>2, <1>3

\* 0 has no bit, and the largest number has all.
LEMMA NoBits ==
  ASSUME NEW w \in 0 .. W
  PROVE  Operator!Bits(0, w) = {}
<1>1. SUFFICES ASSUME NEW k \in 0 .. w - 1, (0 \div Operator!TwoTo[k]) % 2 = 1 PROVE FALSE
  BY DEF Operator!Bits
<1>2. PICK d \in Nat : d = Operator!TwoTo[k] /\ d > 0
  BY TwoToIs, WAssumption
<1>3. 0 \div d = 0
  <2>1. d * 0 + 0 = 0 /\ 0 \in 0 .. d - 1
    BY <1>2
  <2> QED
    BY <1>2, <2>1, DividedBy
<1> QED
  BY <1>1, <1>2, <1>3

LEMMA EveryBit ==
  ASSUME NEW w \in 1 .. W
  PROVE  Operator!Bits(Operator!TwoTo[w] - 1, w) = 0 .. w - 1
<1> USE WAssumption
<1>1. SUFFICES ASSUME NEW k \in 0 .. w - 1
               PROVE  ((Operator!TwoTo[w] - 1) \div Operator!TwoTo[k]) % 2 = 1
  BY DEF Operator!Bits
<1>2. k \in Nat /\ k < W /\ k + 1 \in 0 .. w /\ k \in 0 .. W /\ w \in 0 .. W
  OBVIOUS
<1>3. PICK d \in Nat : d = Operator!TwoTo[k] /\ d > 0
  BY <1>2, TwoToIs
<1>4. PICK n \in Nat : n > 0 /\ Operator!TwoTo[w] = n * Operator!TwoTo[k + 1]
  BY <1>2, PowerDivides
<1>5. Operator!TwoTo[k + 1] = 2 * d
  BY <1>2, <1>3, TwoToIs
<1>6. Operator!TwoTo[w] - 1 = d * (2 * n - 1) + (d - 1)
  BY <1>3, <1>4, <1>5
<1>7. (Operator!TwoTo[w] - 1) \div d = 2 * n - 1
  <2>1. PICK q \in Int : q = 2 * n - 1
    BY <1>4
  <2>2. d - 1 \in 0 .. d - 1
    BY <1>3
  <2>3. (d * q + (d - 1)) \div d = q
    BY <1>3, <2>2, DividedBy
  <2> QED
    BY <1>6, <2>1, <2>3
<1>8. 2 * n - 1 = 2 * (n - 1) + 1
  BY <1>4
<1>9. (2 * n - 1) % 2 = 1
  BY <1>4, <1>8, DividedBy
<1> QED
  BY <1>3, <1>7, <1>9

\* x % m for an x that is less than m
LEMMA SmallRemainder ==
  ASSUME NEW m \in Nat, m > 0, NEW x \in 0 .. m - 1
  PROVE  x % m = x
<1>1. m * 0 + x = x
  OBVIOUS
<1> QED
  BY <1>1, DividedBy

-----------------------------------------------------------------------------
(* What the mutation of an instruction is: the patterns of a mutator name  *)
(* opcodes, and the instruction that is mutated is the one the replacement *)
(* is compiled to, or one that is known to compute the same.               *)

BinaryInstruction(o, t) == Operator!Instruction(Operator!BinaryOpcode(o, t), Operator!A, Operator!B)
StepInstruction(n, t) == Operator!Instruction(Operator!BinaryOpcode("+", t), Operator!A,
                                   Operator!Constant(IF t = "double" THEN n ELSE n % Operator!TwoTo[W]))

\* What the operators of the mutators are compiled to.
LEMMA CompiledBinary ==
  ASSUME NEW o \in Operator!Assignable, NEW f \in {"binary", "assign"}, NEW t
  PROVE  Operator!Compiled(<<o, f>>, t) = {BinaryInstruction(o, t)}
  BY DEF Operator!Compiled, BinaryInstruction, Operator!Assignable

LEMMA RelationsAre ==
  /\ DOMAIN Operator!Relations = {"lt", "le", "gt", "ge", "eq", "ne"}
  /\ Operator!Relations["lt"] = "<" /\ Operator!Relations["le"] = "<="
  /\ Operator!Relations["gt"] = ">" /\ Operator!Relations["ge"] = ">="
  /\ Operator!Relations["eq"] = "==" /\ Operator!Relations["ne"] = "!="
  BY DEF Operator!Relations

LEMMA CompiledRelation ==
  ASSUME NEW r \in {"lt", "le", "gt", "ge", "eq", "ne"}, NEW t
  PROVE  Operator!Compiled(<<Operator!Relations[r], "binary">>, t) = {BinaryInstruction(Operator!Relations[r], t)}
  BY RelationsAre DEF Operator!Compiled, BinaryInstruction

LEMMA CompiledStep ==
  ASSUME NEW f \in {"pre", "post"}, NEW t
  PROVE  /\ Operator!Compiled(<<"++", f>>, t) = {StepInstruction(1, t)}
         /\ t # "trapping" => Operator!Compiled(<<"--", f>>, t) = {StepInstruction(-1, t)}
         /\ t = "trapping" => Operator!Compiled(<<"--", f>>, t) =
              {Operator!Instruction(<<"SSubO">>, Operator!A, Operator!Constant(1))}
  BY DEF Operator!Compiled, StepInstruction

LEMMA CompiledUnary ==
  ASSUME NEW t
  PROVE  /\ Operator!Compiled(<<"~", "unary">>, t) =
              {Operator!Instruction(<<"Xor">>, Operator!A, Operator!Constant(Operator!AllBits(t)))}
         /\ Operator!Compiled(<<"!", "unary">>, t) =
              {Operator!Instruction(<<"Xor">>, Operator!A, Operator!Constant(Operator!AllBits(t)))}
         /\ \A i \in Operator!Compiled(<<"-", "unary">>, t) :
              \/ i = Operator!Instruction(Operator!BinaryOpcode("-", t), Operator!Constant(0), Operator!A)
              \/ t = "double" /\ i = Operator!Instruction(<<"FNeg">>, Operator!A, Operator!A)
  BY DEF Operator!Compiled

LEMMA OpcodesAre ==
  /\ Operator!BinaryOpcode("+", "int") = <<"Add">> /\ Operator!BinaryOpcode("+", "unsigned") = <<"Add">>
  /\ Operator!BinaryOpcode("+", "trapping") = <<"SAddO">> /\ Operator!BinaryOpcode("+", "double") = <<"FAdd">>
  /\ Operator!BinaryOpcode("-", "int") = <<"Sub">> /\ Operator!BinaryOpcode("-", "unsigned") = <<"Sub">>
  /\ Operator!BinaryOpcode("-", "trapping") = <<"SSubO">> /\ Operator!BinaryOpcode("-", "double") = <<"FSub">>
  /\ Operator!BinaryOpcode("*", "int") = <<"Mul">> /\ Operator!BinaryOpcode("*", "unsigned") = <<"Mul">>
  /\ Operator!BinaryOpcode("*", "trapping") = <<"SMulO">> /\ Operator!BinaryOpcode("*", "double") = <<"FMul">>
  /\ Operator!BinaryOpcode("/", "int") = <<"SDiv">> /\ Operator!BinaryOpcode("/", "unsigned") = <<"UDiv">>
  /\ Operator!BinaryOpcode("/", "trapping") = <<"SDiv">> /\ Operator!BinaryOpcode("/", "double") = <<"FDiv">>
  /\ Operator!BinaryOpcode("%", "int") = <<"SRem">> /\ Operator!BinaryOpcode("%", "unsigned") = <<"URem">>
  /\ Operator!BinaryOpcode(">>", "int") = <<"AShr">> /\ Operator!BinaryOpcode(">>", "unsigned") = <<"LShr">>
  /\ \A t : /\ Operator!BinaryOpcode("<<", t) = <<"Shl">>
            /\ Operator!BinaryOpcode("&", t) = <<"And">>
            /\ Operator!BinaryOpcode("|", t) = <<"Or">>
            /\ Operator!BinaryOpcode("^", t) = <<"Xor">>
  BY DEF Operator!BinaryOpcode, Operator!OneOf

\* A pattern that names an opcode changes nothing else.
LEMMA MutateOpcode ==
  ASSUME NEW x, NEW y \in {"Add", "Sub", "FAdd", "FSub", "SAddO", "SSubO", "Mul", "FMul", "SMulO", "SDiv", "UDiv", "FDiv",
                           "Shl", "LShr", "AShr", "And", "Or"}, NEW o, NEW l, NEW r, NEW t
  PROVE  Operator!Mutate(Operator!Replace(x, y), Operator!Instruction(o, l, r), t) = Operator!Instruction(<<y>>, l, r)
  BY DEF Operator!Mutate, Operator!Replace, Operator!Instruction

RelationOpcode(r, t) == <<CASE t = "int" -> "ICMP_S" [] t = "unsigned" -> "ICMP_U" [] t = "double" -> "FCMP_O", r>>

LEMMA RelationOpcodes ==
  /\ \A r \in {"lt", "le", "gt", "ge"}, t \in {"int", "unsigned", "double"} :
        Operator!BinaryOpcode(Operator!Relations[r], t) = RelationOpcode(r, t)
  /\ \A t \in {"int", "unsigned"} : /\ Operator!BinaryOpcode("==", t) = <<"ICMP", "eq">>
                                    /\ Operator!BinaryOpcode("!=", t) = <<"ICMP", "ne">>
  /\ Operator!BinaryOpcode("==", "double") = <<"FCMP_O", "eq">>
  /\ Operator!BinaryOpcode("!=", "double") = <<"FCMP_U", "ne">>
<1>1. ASSUME NEW r \in {"lt", "le", "gt", "ge"}
      PROVE  (CHOOSE q \in DOMAIN Operator!Relations : Operator!Relations[q] = Operator!Relations[r]) = r
  <2>1. \A q \in DOMAIN Operator!Relations : Operator!Relations[q] = Operator!Relations[r] => q = r
    BY RelationsAre
  <2>2. r \in DOMAIN Operator!Relations
    BY RelationsAre
  <2> QED
    BY <2>1, <2>2
<1>2. ASSUME NEW r \in {"lt", "le", "gt", "ge"}, NEW t \in {"int", "unsigned", "double"}
      PROVE  Operator!BinaryOpcode(Operator!Relations[r], t) = RelationOpcode(r, t)
  <2>1. Operator!BinaryOpcode(Operator!Relations[r], t) = <<Operator!OneOf(t, "ICMP_S", "ICMP_S", "ICMP_U", "FCMP_O"), r>>
    BY <1>1, RelationsAre DEF Operator!BinaryOpcode
  <2> QED
    BY <2>1 DEF Operator!OneOf, RelationOpcode
<1>3. \A t \in {"int", "unsigned"} : /\ Operator!BinaryOpcode("==", t) = <<"ICMP", "eq">>
                                     /\ Operator!BinaryOpcode("!=", t) = <<"ICMP", "ne">>
  BY DEF Operator!BinaryOpcode, Operator!OneOf
<1>4. Operator!BinaryOpcode("==", "double") = <<"FCMP_O", "eq">> /\ Operator!BinaryOpcode("!=", "double") = <<"FCMP_U", "ne">>
  BY DEF Operator!BinaryOpcode, Operator!OneOf
<1> QED
  BY <1>2, <1>3, <1>4

Op(o, l, r) == Operator!Instruction(<<o>>, l, r)
NewInstructions(m, t) ==
  IF m.to = "" THEN Operator!Noop
  ELSE IF m.to = "42" THEN Operator!Literal(42, t)
  ELSE Operator!Compiled(<<m.to, m.kind[2]>>, t)

\* Instructions i and j are the same, or are known to compute the same on what is
\* neither negative nor NaN.
Alike(t, i, j) ==
  \/ i = j
  \/ t \in {"int", "unsigned"} /\ \E n, k \in {1, -1} :
       /\ n # k
       /\ i = Op("Sub", Operator!A, Operator!Constant(n % Operator!TwoTo[W]))
       /\ j = Op("Add", Operator!A, Operator!Constant(k % Operator!TwoTo[W]))
  \/ t = "double" /\ i = Op("FSub", Operator!A, Operator!Constant(1)) /\ j = Op("FAdd", Operator!A, Operator!Constant(-1))
  \/ t = "unsigned" /\ i = Op("SDiv", Operator!A, Operator!B) /\ j = Op("UDiv", Operator!A, Operator!B)
  \/ t = "trapping" /\ i = Op("Mul", Operator!A, Operator!B) /\ j = Op("SMulO", Operator!A, Operator!B)
  \/ t = "int" /\ i = Op("LShr", Operator!A, Operator!B) /\ j = Op("AShr", Operator!A, Operator!B)
  \/ t \in {"int", "unsigned"} /\ i = Op("Sub", Operator!A, Operator!Constant(0)) /\ j = Op("Copy", Operator!A, Operator!A)
  \/ t = "double" /\ i = Op("FSub", Operator!A, Operator!Constant(0)) /\ j = Op("Copy", Operator!A, Operator!A)
  \/ t \in {"int", "unsigned"} /\ i = Op("And", Operator!A, Operator!Constant(Operator!AllBits(t)))
                               /\ j = Op("Copy", Operator!A, Operator!A)
  \/ t = "bool" /\ i = Op("Xor", Operator!A, Operator!Constant(0)) /\ j = Op("Copy", Operator!A, Operator!A)
  \/ t = "double" /\ \E r \in {"eq", "ne"} : \E p, q \in {"FCMP_O", "FCMP_U"} :
       /\ i = Operator!Instruction(<<p, r>>, Operator!A, Operator!B)
       /\ j = Operator!Instruction(<<q, r>>, Operator!A, Operator!B)

Simple == {"Add", "Sub", "FAdd", "FSub", "SAddO", "SSubO", "Mul", "FMul", "SMulO", "SDiv", "UDiv", "FDiv",
           "Shl", "LShr", "AShr", "And", "Or"}

\* what is known of a mutation
Mutation(m, p, t, i, j) ==
  /\ p \in m.patterns /\ t \in Operator!Types(m.kind)
  /\ i \in Operator!Compiled(m.kind, t)
  /\ Operator!CanMutate(m, p, i)
  /\ j \in NewInstructions(m, t)

\* The mutators of an operator and its assignment.
LEMMA BothAre ==
  ASSUME NEW o, NEW to, NEW patterns, NEW m \in Operator!Both(o, to, patterns)
  PROVE  /\ \E f \in {"binary", "assign"} : m.kind = <<o, f>>
         /\ m.to = to /\ m.patterns = patterns
  BY DEF Operator!Both, Operator!Mutator

LEMMA BothMutate ==
  ASSUME NEW o \in Operator!Assignable, NEW to \in Operator!Assignable, NEW patterns,
         NEW m \in Operator!Both(o, to, patterns), NEW p, NEW t, NEW i, NEW j, Mutation(m, p, t, i, j),
         NEW x, NEW y \in Simple, p = Operator!Replace(x, y)
  PROVE  /\ <<x>> = Operator!BinaryOpcode(o, t)
         /\ Operator!Mutate(p, i, t) = Op(y, Operator!A, Operator!B)
         /\ j = Operator!Instruction(Operator!BinaryOpcode(to, t), Operator!A, Operator!B)
<1>0. m.to = to /\ \E f \in {"binary", "assign"} : m.kind = <<o, f>>
  BY BothAre
<1>1. PICK f \in {"binary", "assign"} : m.kind = <<o, f>>
  BY <1>0
<1>3. to # "" /\ to # "42"
  BY DEF Operator!Assignable
<1>4. NewInstructions(m, t) = Operator!Compiled(<<to, f>>, t)
  <2>1. m.kind[2] = f
    BY <1>1
  <2> QED
    BY <1>0, <1>3, <2>1 DEF NewInstructions
<1>5. Operator!Replace(x, y).from = i.opcode
  BY DEF Mutation, Operator!CanMutate
<1>6. i \in Operator!Compiled(<<o, f>>, t) /\ j \in Operator!Compiled(<<to, f>>, t)
  BY <1>1, <1>4 DEF Mutation
<1>7. i = Operator!Instruction(Operator!BinaryOpcode(o, t), Operator!A, Operator!B)
  <2>1. Operator!Compiled(<<o, f>>, t) = {BinaryInstruction(o, t)}
    BY CompiledBinary, Zenon
  <2> QED
    BY <1>6, <2>1 DEF BinaryInstruction
<1>8. j = Operator!Instruction(Operator!BinaryOpcode(to, t), Operator!A, Operator!B)
  <2>1. Operator!Compiled(<<to, f>>, t) = {BinaryInstruction(to, t)}
    BY CompiledBinary, Zenon
  <2> QED
    BY <1>6, <2>1 DEF BinaryInstruction
<1>9. <<x>> = Operator!BinaryOpcode(o, t)
  BY <1>5, <1>7 DEF Operator!Replace, Operator!Instruction
<1>10. Operator!Mutate(p, i, t) = Op(y, Operator!A, Operator!B)
  BY <1>7, MutateOpcode DEF Op, Simple
<1> QED
  BY <1>8, <1>9, <1>10

LEMMA BothOn ==
  ASSUME NEW o, NEW to, NEW patterns, NEW m \in Operator!Both(o, to, patterns),
         NEW p, NEW t, NEW i, NEW j, Mutation(m, p, t, i, j)
  PROVE  /\ p \in patterns
         /\ o \in {"+", "-", "*", "/"} => t \in {"int", "trapping", "unsigned", "double"}
         /\ o \in {"%", "&", "|", "^", "<<", ">>"} => t \in {"int", "unsigned"}
<1>1. m.patterns = patterns /\ \E f \in {"binary", "assign"} : m.kind = <<o, f>>
  BY BothAre
<1>2. PICK f \in {"binary", "assign"} : m.kind = <<o, f>>
  BY <1>1
<1>3. p \in patterns /\ t \in Operator!Types(<<o, f>>)
  BY <1>1, <1>2 DEF Mutation
<1> QED
  BY <1>3 DEF Operator!Types

Remainders == {"FRem", "SRem", "URem"}

LEMMA ArithmeticAlike ==
  ASSUME NEW m \in Operator!Arithmetic, NEW p, NEW t, NEW i, NEW j, Mutation(m, p, t, i, j)
  PROVE  Alike(t, Operator!Mutate(p, i, t), j)
<1>1. CASE m \in Operator!Both("+", "-", Operator!AddToSub)
  <2>1. p \in Operator!AddToSub /\ t \in {"int", "trapping", "unsigned", "double"}
    <3>1. p \in Operator!AddToSub /\ ("+" \in {"+", "-", "*", "/"} => t \in {"int", "trapping", "unsigned", "double"})
      BY <1>1, BothOn, Zenon
    <3> QED
      BY <3>1
  <2>2. \E x, y \in Simple \union Remainders : p = Operator!Replace(x, y) /\ <<x, y>> \in {<<"Add", "Sub">>, <<"FAdd", "FSub">>, <<"SAddO", "SSubO">>}
    BY <2>1 DEF Operator!AddToSub, Simple, Remainders
  <2>3. PICK x, y : p = Operator!Replace(x, y) /\ <<x, y>> \in {<<"Add", "Sub">>, <<"FAdd", "FSub">>, <<"SAddO", "SSubO">>}
    BY <2>2
  <2>4. y \in Simple /\ "+" \in Operator!Assignable /\ "-" \in Operator!Assignable
    BY <2>3 DEF Simple, Operator!Assignable
  <2>5. /\ <<x>> = Operator!BinaryOpcode("+", t)
        /\ Operator!Mutate(p, i, t) = Op(y, Operator!A, Operator!B)
        /\ j = Operator!Instruction(Operator!BinaryOpcode("-", t), Operator!A, Operator!B)
    BY <1>1, <2>3, <2>4, BothMutate
  <2>6. <<y>> = Operator!BinaryOpcode("-", t)
    BY <2>1, <2>3, <2>5, OpcodesAre
  <2> QED
    BY <2>5, <2>6 DEF Alike, Op
<1>2. CASE m \in Operator!Both("-", "+", Operator!SubToAdd)
  <2>1. p \in Operator!SubToAdd /\ t \in {"int", "trapping", "unsigned", "double"}
    <3>1. p \in Operator!SubToAdd /\ ("-" \in {"+", "-", "*", "/"} => t \in {"int", "trapping", "unsigned", "double"})
      BY <1>2, BothOn, Zenon
    <3> QED
      BY <3>1
  <2>2. \E x, y \in Simple \union Remainders : p = Operator!Replace(x, y) /\ <<x, y>> \in {<<"Sub", "Add">>, <<"FSub", "FAdd">>, <<"SSubO", "SAddO">>}
    BY <2>1 DEF Operator!SubToAdd, Simple, Remainders
  <2>3. PICK x, y : p = Operator!Replace(x, y) /\ <<x, y>> \in {<<"Sub", "Add">>, <<"FSub", "FAdd">>, <<"SSubO", "SAddO">>}
    BY <2>2
  <2>4. y \in Simple /\ "-" \in Operator!Assignable /\ "+" \in Operator!Assignable
    BY <2>3 DEF Simple, Operator!Assignable
  <2>5. /\ <<x>> = Operator!BinaryOpcode("-", t)
        /\ Operator!Mutate(p, i, t) = Op(y, Operator!A, Operator!B)
        /\ j = Operator!Instruction(Operator!BinaryOpcode("+", t), Operator!A, Operator!B)
    BY <1>2, <2>3, <2>4, BothMutate
  <2>6. <<y>> = Operator!BinaryOpcode("+", t)
    BY <2>1, <2>3, <2>5, OpcodesAre
  <2> QED
    BY <2>5, <2>6 DEF Alike, Op
<1>3. CASE m \in Operator!Both("*", "/", Operator!MulToDiv)
  <2>1. p \in Operator!MulToDiv /\ t \in {"int", "trapping", "unsigned", "double"}
    <3>1. p \in Operator!MulToDiv /\ ("*" \in {"+", "-", "*", "/"} => t \in {"int", "trapping", "unsigned", "double"})
      BY <1>3, BothOn, Zenon
    <3> QED
      BY <3>1
  <2>2. \E x, y \in Simple \union Remainders : p = Operator!Replace(x, y) /\ <<x, y>> \in {<<"Mul", "SDiv">>, <<"FMul", "FDiv">>}
    BY <2>1 DEF Operator!MulToDiv, Simple, Remainders
  <2>3. PICK x, y : p = Operator!Replace(x, y) /\ <<x, y>> \in {<<"Mul", "SDiv">>, <<"FMul", "FDiv">>}
    BY <2>2
  <2>4. y \in Simple /\ "*" \in Operator!Assignable /\ "/" \in Operator!Assignable
    BY <2>3 DEF Simple, Operator!Assignable
  <2>5. /\ <<x>> = Operator!BinaryOpcode("*", t)
        /\ Operator!Mutate(p, i, t) = Op(y, Operator!A, Operator!B)
        /\ j = Operator!Instruction(Operator!BinaryOpcode("/", t), Operator!A, Operator!B)
    BY <1>3, <2>3, <2>4, BothMutate
  <2>6. <<y>> = Operator!BinaryOpcode("/", t) \/ (t = "unsigned" /\ y = "SDiv" /\ Operator!BinaryOpcode("/", t) = <<"UDiv">>)
    BY <2>1, <2>3, <2>5, OpcodesAre
  <2> QED
    BY <2>5, <2>6 DEF Alike, Op
<1>4. CASE m \in Operator!Both("/", "*", Operator!DivToMul)
  <2>1. p \in Operator!DivToMul /\ t \in {"int", "trapping", "unsigned", "double"}
    <3>1. p \in Operator!DivToMul /\ ("/" \in {"+", "-", "*", "/"} => t \in {"int", "trapping", "unsigned", "double"})
      BY <1>4, BothOn, Zenon
    <3> QED
      BY <3>1
  <2>2. \E x, y \in Simple \union Remainders : p = Operator!Replace(x, y) /\ <<x, y>> \in {<<"FDiv", "FMul">>, <<"SDiv", "Mul">>, <<"UDiv", "Mul">>}
    BY <2>1 DEF Operator!DivToMul, Simple, Remainders
  <2>3. PICK x, y : p = Operator!Replace(x, y) /\ <<x, y>> \in {<<"FDiv", "FMul">>, <<"SDiv", "Mul">>, <<"UDiv", "Mul">>}
    BY <2>2
  <2>4. y \in Simple /\ "/" \in Operator!Assignable /\ "*" \in Operator!Assignable
    BY <2>3 DEF Simple, Operator!Assignable
  <2>5. /\ <<x>> = Operator!BinaryOpcode("/", t)
        /\ Operator!Mutate(p, i, t) = Op(y, Operator!A, Operator!B)
        /\ j = Operator!Instruction(Operator!BinaryOpcode("*", t), Operator!A, Operator!B)
    BY <1>4, <2>3, <2>4, BothMutate
  <2>6. <<y>> = Operator!BinaryOpcode("*", t) \/ (t = "trapping" /\ y = "Mul" /\ Operator!BinaryOpcode("*", t) = <<"SMulO">>)
    BY <2>1, <2>3, <2>5, OpcodesAre
  <2> QED
    BY <2>5, <2>6 DEF Alike, Op
<1>5. CASE m \in Operator!Both("%", "/", Operator!RemToDiv)
  <2>1. p \in Operator!RemToDiv /\ t \in {"int", "unsigned"}
    <3>1. p \in Operator!RemToDiv /\ ("%" \in {"%", "&", "|", "^", "<<", ">>"} => t \in {"int", "unsigned"})
      BY <1>5, BothOn, Zenon
    <3> QED
      BY <3>1
  <2>2. \E x, y \in Simple \union Remainders : p = Operator!Replace(x, y) /\ <<x, y>> \in {<<"FRem", "FDiv">>, <<"SRem", "SDiv">>, <<"URem", "UDiv">>}
    BY <2>1 DEF Operator!RemToDiv, Simple, Remainders
  <2>3. PICK x, y : p = Operator!Replace(x, y) /\ <<x, y>> \in {<<"FRem", "FDiv">>, <<"SRem", "SDiv">>, <<"URem", "UDiv">>}
    BY <2>2
  <2>4. y \in Simple /\ "%" \in Operator!Assignable /\ "/" \in Operator!Assignable
    BY <2>3 DEF Simple, Operator!Assignable
  <2>5. /\ <<x>> = Operator!BinaryOpcode("%", t)
        /\ Operator!Mutate(p, i, t) = Op(y, Operator!A, Operator!B)
        /\ j = Operator!Instruction(Operator!BinaryOpcode("/", t), Operator!A, Operator!B)
    BY <1>5, <2>3, <2>4, BothMutate
  <2>6. <<y>> = Operator!BinaryOpcode("/", t)
    BY <2>1, <2>3, <2>5, OpcodesAre
  <2> QED
    BY <2>5, <2>6 DEF Alike, Op
<1> QED
  BY <1>1, <1>2, <1>3, <1>4, <1>5 DEF Operator!Arithmetic

LEMMA BitwiseAlike ==
  ASSUME NEW m \in Operator!Bitwise, NEW p, NEW t, NEW i, NEW j, Mutation(m, p, t, i, j)
  PROVE  Alike(t, Operator!Mutate(p, i, t), j)
<1>1. CASE m \in Operator!Both("<<", ">>", Operator!LShiftToRShift)
  <2>1. p \in Operator!LShiftToRShift /\ t \in {"int", "unsigned"}
    <3>1. p \in Operator!LShiftToRShift /\ ("<<" \in {"%", "&", "|", "^", "<<", ">>"} => t \in {"int", "unsigned"})
      BY <1>1, BothOn, Zenon
    <3> QED
      BY <3>1
  <2>2. PICK x, y : p = Operator!Replace(x, y) /\ <<x, y>> \in {<<"Shl", "LShr">>}
    BY <2>1 DEF Operator!LShiftToRShift
  <2>3. y \in Simple /\ "<<" \in Operator!Assignable /\ ">>" \in Operator!Assignable
    BY <2>2 DEF Simple, Operator!Assignable
  <2>4. /\ <<x>> = Operator!BinaryOpcode("<<", t)
        /\ Operator!Mutate(p, i, t) = Op(y, Operator!A, Operator!B)
        /\ j = Operator!Instruction(Operator!BinaryOpcode(">>", t), Operator!A, Operator!B)
    BY <1>1, <2>2, <2>3, BothMutate
  <2>5. <<y>> = Operator!BinaryOpcode(">>", t) \/ (t = "int" /\ y = "LShr" /\ Operator!BinaryOpcode(">>", t) = <<"AShr">>)
    BY <2>1, <2>2, <2>4, OpcodesAre
  <2> QED
    BY <2>4, <2>5 DEF Alike, Op
<1>2. CASE m \in Operator!Both(">>", "<<", Operator!RShiftToLShift)
  <2>1. p \in Operator!RShiftToLShift /\ t \in {"int", "unsigned"}
    <3>1. p \in Operator!RShiftToLShift /\ (">>" \in {"%", "&", "|", "^", "<<", ">>"} => t \in {"int", "unsigned"})
      BY <1>2, BothOn, Zenon
    <3> QED
      BY <3>1
  <2>2. PICK x, y : p = Operator!Replace(x, y) /\ <<x, y>> \in {<<"LShr", "Shl">>, <<"AShr", "Shl">>}
    BY <2>1 DEF Operator!RShiftToLShift
  <2>3. y \in Simple /\ ">>" \in Operator!Assignable /\ "<<" \in Operator!Assignable
    BY <2>2 DEF Simple, Operator!Assignable
  <2>4. /\ <<x>> = Operator!BinaryOpcode(">>", t)
        /\ Operator!Mutate(p, i, t) = Op(y, Operator!A, Operator!B)
        /\ j = Operator!Instruction(Operator!BinaryOpcode("<<", t), Operator!A, Operator!B)
    BY <1>2, <2>2, <2>3, BothMutate
  <2>5. <<y>> = Operator!BinaryOpcode("<<", t)
    BY <2>1, <2>2, <2>4, OpcodesAre
  <2> QED
    BY <2>4, <2>5 DEF Alike, Op
<1>3. CASE m \in Operator!Both("|", "&", {Operator!Replace("Or", "And")})
  <2>1. p \in {Operator!Replace("Or", "And")} /\ t \in {"int", "unsigned"}
    <3>1. p \in {Operator!Replace("Or", "And")} /\ ("|" \in {"%", "&", "|", "^", "<<", ">>"} => t \in {"int", "unsigned"})
      BY <1>3, BothOn
    <3> QED
      BY <3>1
  <2>2. PICK x, y : p = Operator!Replace(x, y) /\ <<x, y>> \in {<<"Or", "And">>}
    BY <2>1
  <2>3. y \in Simple /\ "|" \in Operator!Assignable /\ "&" \in Operator!Assignable
    BY <2>2 DEF Simple, Operator!Assignable
  <2>4. /\ <<x>> = Operator!BinaryOpcode("|", t)
        /\ Operator!Mutate(p, i, t) = Op(y, Operator!A, Operator!B)
        /\ j = Operator!Instruction(Operator!BinaryOpcode("&", t), Operator!A, Operator!B)
    BY <1>3, <2>2, <2>3, BothMutate
  <2>5. <<y>> = Operator!BinaryOpcode("&", t)
    BY <2>1, <2>2, <2>4, OpcodesAre
  <2> QED
    BY <2>4, <2>5 DEF Alike, Op
<1>4. CASE m \in Operator!Both("&", "|", {Operator!Replace("And", "Or")})
  <2>1. p \in {Operator!Replace("And", "Or")} /\ t \in {"int", "unsigned"}
    <3>1. p \in {Operator!Replace("And", "Or")} /\ ("&" \in {"%", "&", "|", "^", "<<", ">>"} => t \in {"int", "unsigned"})
      BY <1>4, BothOn
    <3> QED
      BY <3>1
  <2>2. PICK x, y : p = Operator!Replace(x, y) /\ <<x, y>> \in {<<"And", "Or">>}
    BY <2>1
  <2>3. y \in Simple /\ "&" \in Operator!Assignable /\ "|" \in Operator!Assignable
    BY <2>2 DEF Simple, Operator!Assignable
  <2>4. /\ <<x>> = Operator!BinaryOpcode("&", t)
        /\ Operator!Mutate(p, i, t) = Op(y, Operator!A, Operator!B)
        /\ j = Operator!Instruction(Operator!BinaryOpcode("|", t), Operator!A, Operator!B)
    BY <1>4, <2>2, <2>3, BothMutate
  <2>5. <<y>> = Operator!BinaryOpcode("|", t)
    BY <2>1, <2>2, <2>4, OpcodesAre
  <2> QED
    BY <2>4, <2>5 DEF Alike, Op
<1>5. CASE m \in Operator!Both("^", "|", {Operator!Replace("Xor", "Or")})
  <2>1. p \in {Operator!Replace("Xor", "Or")} /\ t \in {"int", "unsigned"}
    <3>1. p \in {Operator!Replace("Xor", "Or")} /\ ("^" \in {"%", "&", "|", "^", "<<", ">>"} => t \in {"int", "unsigned"})
      BY <1>5, BothOn
    <3> QED
      BY <3>1
  <2>2. PICK x, y : p = Operator!Replace(x, y) /\ <<x, y>> \in {<<"Xor", "Or">>}
    BY <2>1
  <2>3. y \in Simple /\ "^" \in Operator!Assignable /\ "|" \in Operator!Assignable
    BY <2>2 DEF Simple, Operator!Assignable
  <2>4. /\ <<x>> = Operator!BinaryOpcode("^", t)
        /\ Operator!Mutate(p, i, t) = Op(y, Operator!A, Operator!B)
        /\ j = Operator!Instruction(Operator!BinaryOpcode("|", t), Operator!A, Operator!B)
    BY <1>5, <2>2, <2>3, BothMutate
  <2>5. <<y>> = Operator!BinaryOpcode("|", t)
    BY <2>1, <2>2, <2>4, OpcodesAre
  <2> QED
    BY <2>4, <2>5 DEF Alike, Op
<1> QED
  BY <1>1, <1>2, <1>3, <1>4, <1>5 DEF Operator!Bitwise

LEMMA SmallPowers ==
  /\ Operator!TwoTo[W] \in Nat /\ Operator!TwoTo[W] > 1
  /\ 1 % Operator!TwoTo[W] = 1 /\ 0 % Operator!TwoTo[W] = 0
<1> USE WAssumption
<1>1. W - 1 \in Nat /\ W - 1 < W /\ (W - 1) + 1 = W /\ W - 1 \in 0 .. W /\ W \in 0 .. W
  OBVIOUS
<1>2. PICK d \in Nat : d = Operator!TwoTo[W - 1] /\ d > 0
  BY <1>1, TwoToIs
<1>3. Operator!TwoTo[W] = 2 * d
  BY <1>1, <1>2, TwoToIs
<1>4. PICK m \in Nat : m = Operator!TwoTo[W]
  BY <1>1, TwoToIs
<1>5. m > 1
  BY <1>2, <1>3, <1>4
<1>6. 1 % m = 1 /\ 0 % m = 0
  BY <1>5, SmallRemainder
<1> QED
  BY <1>4, <1>5, <1>6

LEMMA IncDecAlike ==
  ASSUME NEW m \in Operator!IncDec, NEW p, NEW t, NEW i, NEW j, Mutation(m, p, t, i, j)
  PROVE  Alike(t, Operator!Mutate(p, i, t), j)
<1>1. ASSUME NEW f \in {"pre", "post"}, m = Operator!Mutator("++", f, "--", Operator!AddToSub)
      PROVE  Alike(t, Operator!Mutate(p, i, t), j)
  <2>1. m.kind = <<"++", f>> /\ m.to = "--" /\ m.patterns = Operator!AddToSub /\ m.kind[1] = "++" /\ m.kind[2] = f
    BY <1>1 DEF Operator!Mutator
  <2>2. t \in {"int", "trapping", "unsigned", "double"}
    BY <2>1 DEF Mutation, Operator!Types
  <2>3. NewInstructions(m, t) = Operator!Compiled(<<"--", f>>, t)
    BY <2>1 DEF NewInstructions
  <2>4. i = StepInstruction(1, t)
    BY <2>1, CompiledStep DEF Mutation
  <2>5. j = IF t = "trapping" THEN Op("SSubO", Operator!A, Operator!Constant(1)) ELSE StepInstruction(-1, t)
    BY <2>3, CompiledStep DEF Mutation, Op
  <2>6. PICK x, y : p = Operator!Replace(x, y) /\ <<x, y>> \in {<<"Add", "Sub">>, <<"FAdd", "FSub">>, <<"SAddO", "SSubO">>}
    BY <2>1 DEF Operator!AddToSub, Mutation
  <2>7. p.from = <<x>> /\ p.from = i.opcode
    BY <2>6 DEF Operator!Replace, Mutation, Operator!CanMutate
  <2>8. PICK n : n = (IF t = "double" THEN 1 ELSE 1 % Operator!TwoTo[W])
    OBVIOUS
  <2>9. i = Operator!Instruction(Operator!BinaryOpcode("+", t), Operator!A, Operator!Constant(n))
    BY <2>4, <2>8 DEF StepInstruction
  <2>10. <<x>> = Operator!BinaryOpcode("+", t)
    BY <2>7, <2>9 DEF Operator!Instruction
  <2>11. Operator!Mutate(p, i, t) = Op(y, Operator!A, Operator!Constant(n))
    BY <2>6, <2>9, MutateOpcode DEF Op
  <2>12. CASE t = "trapping"
    <3>1. y = "SSubO"
      BY <2>6, <2>10, <2>12, OpcodesAre
    <3> QED
      BY <2>5, <2>8, <2>11, <2>12, <3>1, SmallPowers DEF Alike
  <2>13. CASE t = "double"
    <3>1. y = "FSub"
      BY <2>6, <2>10, <2>13, OpcodesAre
    <3>2. j = Op("FAdd", Operator!A, Operator!Constant(-1))
      BY <2>5, <2>13, OpcodesAre DEF Op, StepInstruction
    <3> QED
      BY <2>8, <2>11, <2>13, <3>1, <3>2 DEF Alike
  <2>14. CASE t \in {"int", "unsigned"}
    <3>1. y = "Sub"
      BY <2>6, <2>10, <2>14, OpcodesAre
    <3>2. j = Op("Add", Operator!A, Operator!Constant((-1) % Operator!TwoTo[W]))
      BY <2>5, <2>14, OpcodesAre DEF Op, StepInstruction
    <3> QED
      BY <2>8, <2>11, <2>14, <3>1, <3>2 DEF Alike
  <2> QED
    BY <2>2, <2>12, <2>13, <2>14
<1>2. ASSUME NEW f \in {"pre", "post"}, m = Operator!Mutator("--", f, "++", Operator!DecToInc)
      PROVE  Alike(t, Operator!Mutate(p, i, t), j)
  <2>1. m.kind = <<"--", f>> /\ m.to = "++" /\ m.patterns = Operator!DecToInc /\ m.kind[1] = "--" /\ m.kind[2] = f
    BY <1>2 DEF Operator!Mutator
  <2>2. t \in {"int", "trapping", "unsigned", "double"}
    BY <2>1 DEF Mutation, Operator!Types
  <2>3. NewInstructions(m, t) = Operator!Compiled(<<"++", f>>, t)
    BY <2>1 DEF NewInstructions
  <2>4. i = IF t = "trapping" THEN Op("SSubO", Operator!A, Operator!Constant(1)) ELSE StepInstruction(-1, t)
    BY <2>1, CompiledStep DEF Mutation, Op
  <2>5. j = StepInstruction(1, t)
    BY <2>3, CompiledStep DEF Mutation
  <2>6. PICK x, y : p = Operator!Replace(x, y) /\ <<x, y>> \in {<<"Sub", "Add">>, <<"FSub", "FAdd">>, <<"SSubO", "SAddO">>, <<"Add", "Sub">>}
    BY <2>1 DEF Operator!DecToInc, Operator!SubToAdd, Mutation
  <2>7. p.from = <<x>> /\ p.from = i.opcode
    BY <2>6 DEF Operator!Replace, Mutation, Operator!CanMutate
  <2>8. CASE t = "trapping"
    <3>1. i = Operator!Instruction(<<"SSubO">>, Operator!A, Operator!Constant(1))
      BY <2>4, <2>8 DEF Op
    <3>2. x = "SSubO" /\ y = "SAddO"
      BY <2>6, <2>7, <3>1 DEF Operator!Instruction
    <3>3. Operator!Mutate(p, i, t) = Op("SAddO", Operator!A, Operator!Constant(1))
      BY <2>6, <3>1, <3>2, MutateOpcode DEF Op
    <3>4. j = Op("SAddO", Operator!A, Operator!Constant(1))
      BY <2>5, <2>8, OpcodesAre, SmallPowers DEF Op, StepInstruction
    <3> QED
      BY <3>3, <3>4 DEF Alike
  <2>9. CASE t = "double"
    <3>1. i = Op("FAdd", Operator!A, Operator!Constant(-1))
      BY <2>4, <2>9, OpcodesAre DEF Op, StepInstruction
    <3> QED
      BY <2>6, <2>7, <3>1 DEF Op, Operator!Instruction
  <2>10. CASE t \in {"int", "unsigned"}
    <3>0. PICK n : n = (-1) % Operator!TwoTo[W]
      OBVIOUS
    <3>1. i = Operator!Instruction(<<"Add">>, Operator!A, Operator!Constant(n))
      BY <2>4, <2>10, <3>0, OpcodesAre DEF Op, StepInstruction
    <3>2. x = "Add" /\ y = "Sub"
      BY <2>6, <2>7, <3>1 DEF Operator!Instruction
    <3>3. Operator!Mutate(p, i, t) = Op("Sub", Operator!A, Operator!Constant(n))
      BY <2>6, <3>1, <3>2, MutateOpcode DEF Op
    <3>4. j = Op("Add", Operator!A, Operator!Constant(1 % Operator!TwoTo[W]))
      BY <2>5, <2>10, OpcodesAre DEF Op, StepInstruction
    <3> QED
      BY <2>10, <3>0, <3>3, <3>4 DEF Alike
  <2> QED
    BY <2>2, <2>8, <2>9, <2>10
<1> QED
  BY <1>1, <1>2 DEF Operator!IncDec

LEMMA TypesOfUnary ==
  /\ Operator!Types(<<"-", "unary">>) = {"int", "trapping", "unsigned", "double"}
  /\ Operator!Types(<<"~", "unary">>) = {"int", "unsigned"}
  /\ Operator!Types(<<"!", "unary">>) = {"bool"}
  BY DEF Operator!Types

LEMMA ReplaceIs ==
  ASSUME NEW x, NEW y
  PROVE  Operator!Replace(x, y).from = <<x>> /\ Operator!Replace(x, y).to = <<y>>
  BY DEF Operator!Replace

\* Patterns that do more than naming an opcode.
LEMMA MutateKeep ==
  ASSUME NEW x, NEW o, NEW l, NEW r, NEW t
  PROVE  Operator!Mutate(Operator!Replace(x, "operand"), Operator!Instruction(o, l, r), t) = Op("Copy", l, l)
  BY DEF Operator!Mutate, Operator!Replace, Operator!Instruction, Op

LEMMA MutateValue ==
  ASSUME NEW x, NEW o, NEW l, NEW r, NEW t
  PROVE  Operator!Mutate(Operator!Replace(x, "42"), Operator!Instruction(o, l, r), t)
           = Op("Copy", Operator!Const42(t), Operator!Const42(t))
  BY DEF Operator!Mutate, Operator!Replace, Operator!Instruction, Op

LEMMA NoopsAlike ==
  ASSUME NEW m \in Operator!Noops, NEW p, NEW t, NEW i, NEW j, Mutation(m, p, t, i, j)
  PROVE  Alike(t, Operator!Mutate(p, i, t), j)
<1>1. CASE m = Operator!Mutator("-", "unary", "", Operator!UnaryMinus)
  <2>1. m.kind = <<"-", "unary">> /\ m.to = "" /\ m.patterns = Operator!UnaryMinus
    BY <1>1 DEF Operator!Mutator
  <2>2. t \in {"int", "trapping", "unsigned", "double"}
    BY <2>1, TypesOfUnary DEF Mutation
  <2>3. j = Op("Copy", Operator!A, Operator!A)
    BY <2>1 DEF Mutation, NewInstructions, Operator!Noop, Op
  <2>4. PICK x, y : p = Operator!Replace(x, y) /\ <<x, y>> \in {<<"Sub", "swap operands">>, <<"FSub", "swap operands">>, <<"FNeg", "operand">>}
    BY <2>1 DEF Mutation, Operator!UnaryMinus
  <2>8. <<x>> = i.opcode
    BY <2>4, ReplaceIs DEF Mutation, Operator!CanMutate
  <2>5. i \in Operator!Compiled(<<"-", "unary">>, t)
    BY <2>1 DEF Mutation
  <2>6. CASE t = "double" /\ i = Operator!Instruction(<<"FNeg">>, Operator!A, Operator!A)
    <3>1. y = "operand"
      BY <2>4, <2>6, <2>8 DEF Operator!Instruction
    <3>2. Operator!Mutate(p, i, t) = Op("Copy", Operator!A, Operator!A)
      BY <2>4, <2>6, <3>1, MutateKeep
    <3> QED
      BY <2>3, <3>2 DEF Alike
  <2>7. CASE i = Operator!Instruction(Operator!BinaryOpcode("-", t), Operator!Constant(0), Operator!A)
    <3>1. <<x>> = Operator!BinaryOpcode("-", t)
      BY <2>7, <2>8 DEF Operator!Instruction
    <3>2. y = "swap operands" /\ t # "trapping"
      <4>1. Operator!BinaryOpcode("-", t) \in {<<"Sub">>, <<"SSubO">>, <<"FSub">>}
        BY <2>2, OpcodesAre
      <4>2. x # "FNeg" /\ x # "SSubO"
        <5>1. x \in {"Sub", "FSub", "FNeg"}
          BY <2>4
        <5>2. x \in {"Sub", "SSubO", "FSub"}
          BY <3>1, <4>1
        <5> QED
          BY <5>1, <5>2
      <4>3. t # "trapping"
        BY <3>1, <4>2, OpcodesAre
      <4> QED
        BY <2>4, <4>2, <4>3
    <3>3. Operator!Mutate(p, i, t) = Operator!Instruction(Operator!BinaryOpcode("-", t), Operator!A, Operator!Constant(0))
      <4>1. p = Operator!Replace(x, "swap operands")
        BY <2>4, <3>2
      <4>2. PICK o, z : o = Operator!BinaryOpcode("-", t) /\ z = Operator!Constant(0)
        OBVIOUS
      <4>3. Operator!Mutate(Operator!Replace(x, "swap operands"), Operator!Instruction(o, z, Operator!A), t)
              = Operator!Instruction(o, Operator!A, z)
        BY DEF Operator!Mutate, Operator!Replace, Operator!Instruction
      <4> QED
        BY <2>7, <4>1, <4>2, <4>3
    <3> QED
      BY <2>2, <2>3, <3>2, <3>3, OpcodesAre DEF Alike, Op
  <2> QED
    BY <2>5, <2>6, <2>7, CompiledUnary
<1>2. CASE m = Operator!Mutator("~", "unary", "", Operator!BitNot)
  <2>1. m.kind = <<"~", "unary">> /\ m.to = "" /\ m.patterns = Operator!BitNot
    BY <1>2 DEF Operator!Mutator
  <2>2. t \in {"int", "unsigned"}
    BY <2>1, TypesOfUnary DEF Mutation
  <2>3. j = Op("Copy", Operator!A, Operator!A)
    BY <2>1 DEF Mutation, NewInstructions, Operator!Noop, Op
  <2>4. p = Operator!Replace("Xor", "And")
    BY <2>1 DEF Mutation, Operator!BitNot
  <2>5. i = Operator!Instruction(<<"Xor">>, Operator!A, Operator!Constant(Operator!AllBits(t)))
    BY <2>1, CompiledUnary DEF Mutation
  <2>6. Operator!Mutate(p, i, t) = Op("And", Operator!A, Operator!Constant(Operator!AllBits(t)))
    BY <2>4, <2>5, MutateOpcode DEF Op
  <2> QED
    BY <2>2, <2>3, <2>6 DEF Alike
<1>3. CASE m = Operator!Mutator("!", "unary", "", Operator!Negation)
  <2>1. m.kind = <<"!", "unary">> /\ m.to = "" /\ m.patterns = Operator!Negation
    BY <1>3 DEF Operator!Mutator
  <2>2. t = "bool"
    BY <2>1, TypesOfUnary DEF Mutation
  <2>3. j = Op("Copy", Operator!A, Operator!A)
    BY <2>1 DEF Mutation, NewInstructions, Operator!Noop, Op
  <2>4. p = Operator!Replace("Xor", "negate operand")
    BY <2>1 DEF Mutation, Operator!Negation
  <2>5. i = Operator!Instruction(<<"Xor">>, Operator!A, Operator!Constant(Operator!AllBits(t)))
    BY <2>1, CompiledUnary DEF Mutation
  <2>6. Operator!AllBits(t) - Operator!AllBits(t) = 0
    <3>1. Operator!TwoTo[1] \in Nat
      BY TwoToIs, WAssumption
    <3> QED
      BY <2>2, <3>1 DEF Operator!AllBits, Operator!Width
  <2>7. Operator!Mutate(p, i, t) = Op("Xor", Operator!A, Operator!Constant(Operator!AllBits(t) - Operator!AllBits(t)))
    <3>1. Operator!Constant(Operator!AllBits(t))[1] = Operator!AllBits(t)
      BY DEF Operator!Constant
    <3>2. PICK c : c = Operator!Constant(Operator!AllBits(t))
      OBVIOUS
    <3>3. Operator!Mutate(p, i, t) = Operator!Instruction(<<"Xor">>, Operator!A, Operator!Constant(Operator!AllBits(t) - c[1]))
      <4>1. Operator!Mutate(Operator!Replace("Xor", "negate operand"), Operator!Instruction(<<"Xor">>, Operator!A, c), t)
              = Operator!Instruction(<<"Xor">>, Operator!A, Operator!Constant(Operator!AllBits(t) - c[1]))
        BY DEF Operator!Mutate, Operator!Replace, Operator!Instruction
      <4> QED
        BY <2>4, <2>5, <3>2, <4>1
    <3> QED
      BY <3>1, <3>2, <3>3 DEF Op
  <2>8. Operator!Mutate(p, i, t) = Op("Xor", Operator!A, Operator!Constant(0))
    BY <2>6, <2>7
  <2> QED
    BY <2>2, <2>3, <2>8 DEF Alike
<1> QED
  BY <1>1, <1>2, <1>3 DEF Operator!Noops

LEMMA ComparisonAlike ==
  ASSUME NEW m \in Operator!Comparison, NEW p, NEW t, NEW i, NEW j, Mutation(m, p, t, i, j)
  PROVE  Alike(t, Operator!Mutate(p, i, t), j)
<1>1. PICK r, s \in {"lt", "le", "gt", "ge", "eq", "ne"} :
        /\ m = Operator!Mutator(Operator!Relations[r], "binary", Operator!Relations[s], Operator!Relational(r, s))
        /\ (r \in {"eq", "ne"}) <=> (s \in {"eq", "ne"})
  BY DEF Operator!Comparison
<1>2. m.kind = <<Operator!Relations[r], "binary">> /\ m.to = Operator!Relations[s] /\ m.patterns = Operator!Relational(r, s)
  BY <1>1 DEF Operator!Mutator
<1>3. t \in {"int", "unsigned", "double"}
  BY <1>2, RelationsAre DEF Mutation, Operator!Types
<1>4. i = Operator!Instruction(Operator!BinaryOpcode(Operator!Relations[r], t), Operator!A, Operator!B)
  <2>1. Operator!Compiled(<<Operator!Relations[r], "binary">>, t) = {BinaryInstruction(Operator!Relations[r], t)}
    BY CompiledRelation
  <2> QED
    BY <1>2, <2>1 DEF Mutation, BinaryInstruction
<1>5. j = Operator!Instruction(Operator!BinaryOpcode(Operator!Relations[s], t), Operator!A, Operator!B)
  <2>1. Operator!Compiled(<<Operator!Relations[s], "binary">>, t) = {BinaryInstruction(Operator!Relations[s], t)}
    BY CompiledRelation
  <2>2. Operator!Relations[s] # "" /\ Operator!Relations[s] # "42"
    BY RelationsAre
  <2>3. NewInstructions(m, t) = Operator!Compiled(<<Operator!Relations[s], "binary">>, t)
    <3>1. m.kind[2] = "binary"
      BY <1>2
    <3> QED
      BY <1>2, <2>2, <3>1 DEF NewInstructions
  <2> QED
    BY <2>1, <2>3 DEF Mutation, BinaryInstruction
<1>6. PICK q \in {"ICMP", "ICMP_S", "ICMP_U", "FCMP_O", "FCMP_U"} : p.from = <<q, r>> /\ p.to = <<q, s>>
  BY <1>2 DEF Mutation, Operator!Relational
<1>7. <<q, r>> = Operator!BinaryOpcode(Operator!Relations[r], t)
  BY <1>4, <1>6 DEF Mutation, Operator!CanMutate, Operator!Instruction
<1>8. Operator!Mutate(p, i, t) = Operator!Instruction(<<q, s>>, Operator!A, Operator!B)
  BY <1>4, <1>6 DEF Operator!Mutate, Operator!Instruction
<1>9. CASE r \in {"lt", "le", "gt", "ge"}
  <2>1. s \in {"lt", "le", "gt", "ge"}
    BY <1>1, <1>9
  <2>2. Operator!BinaryOpcode(Operator!Relations[r], t) = RelationOpcode(r, t)
    BY <1>3, <1>9, RelationOpcodes
  <2>3. Operator!BinaryOpcode(Operator!Relations[s], t) = RelationOpcode(s, t)
    BY <1>3, <2>1, RelationOpcodes
  <2>4. <<q, s>> = RelationOpcode(s, t)
    <3>1. PICK u : u = (CASE t = "int" -> "ICMP_S" [] t = "unsigned" -> "ICMP_U" [] t = "double" -> "FCMP_O")
      OBVIOUS
    <3>2. RelationOpcode(r, t) = <<u, r>> /\ RelationOpcode(s, t) = <<u, s>>
      BY <3>1 DEF RelationOpcode
    <3>3. q = u
      BY <1>7, <2>2, <3>2
    <3> QED
      BY <3>2, <3>3
  <2> QED
    BY <1>5, <1>8, <2>3, <2>4 DEF Alike
<1>10. CASE r \in {"eq", "ne"}
  <2>1. s \in {"eq", "ne"}
    BY <1>1, <1>10
  <2>2. CASE t = "double"
    <3>1. q \in {"FCMP_O", "FCMP_U"}
      BY <1>7, <1>10, <2>2, RelationsAre, RelationOpcodes
    <3>2. PICK u \in {"FCMP_O", "FCMP_U"} : Operator!BinaryOpcode(Operator!Relations[s], t) = <<u, s>>
      BY <2>1, <2>2, RelationsAre, RelationOpcodes
    <3> QED
      BY <1>5, <1>8, <2>1, <2>2, <3>1, <3>2 DEF Alike
  <2>3. CASE t \in {"int", "unsigned"}
    <3>1. q = "ICMP"
      BY <1>7, <1>10, <2>3, RelationsAre, RelationOpcodes
    <3>2. Operator!BinaryOpcode(Operator!Relations[s], t) = <<"ICMP", s>>
      BY <2>1, <2>3, RelationsAre, RelationOpcodes
    <3> QED
      BY <1>5, <1>8, <3>1, <3>2 DEF Alike
  <2> QED
    BY <1>3, <2>2, <2>3
<1> QED
  BY <1>9, <1>10

LEMMA ValuesAlike ==
  ASSUME NEW m \in Operator!Values, NEW p, NEW t, NEW i, NEW j, Mutation(m, p, t, i, j), ~(t = "bool" /\ m.to = "42")
  PROVE  Alike(t, Operator!Mutate(p, i, t), j)
<1>1. ASSUME m.to = "42", NEW x, p = Operator!Replace(x, "42"), NEW o, NEW l, i = Op(o, l, l)
      PROVE  Alike(t, Operator!Mutate(p, i, t), j)
  <2>1. t # "bool"
    BY <1>1
  <2>2. Operator!Mutate(p, i, t) = Op("Copy", Operator!Const42(t), Operator!Const42(t))
    BY <1>1, MutateValue DEF Op
  <2>3. Operator!Width(t) = W
    BY <2>1 DEF Operator!Width
  <2>4. Operator!Literal(42, t) = {Operator!Instruction(<<"Copy">>, Operator!Const42(t), Operator!Const42(t))}
    BY <2>1, <2>3 DEF Operator!Literal, Operator!Const42
  <2>5. j \in Operator!Literal(42, t)
    BY <1>1 DEF Mutation, NewInstructions
  <2> QED
    BY <2>2, <2>4, <2>5 DEF Alike, Op
<1>2. CASE \E f \in {"assign", "init"} : m = Operator!Mutator("=", f, "42", Operator!Numbers)
  <2>1. PICK f \in {"assign", "init"} : m = Operator!Mutator("=", f, "42", Operator!Numbers)
    BY <1>2
  <2>2. m.kind = <<"=", f>> /\ m.to = "42" /\ m.patterns = Operator!Numbers
    BY <2>1 DEF Operator!Mutator
  <2>3. p = Operator!Replace("Store", "42")
    BY <2>2 DEF Mutation, Operator!Numbers
  <2>4. Operator!Compiled(<<"=", f>>, t) = {Op("Store", Operator!B, Operator!B)}
    BY DEF Operator!Compiled, Op
  <2>5. i = Op("Store", Operator!B, Operator!B)
    BY <2>2, <2>4 DEF Mutation
  <2> QED
    BY <1>1, <2>2, <2>3, <2>5
<1>3. CASE m = Operator!Mutator("f()", "value", "42", Operator!ScalarCalls)
  <2>2. m.kind = <<"f()", "value">> /\ m.to = "42" /\ m.patterns = Operator!ScalarCalls
    BY <1>3 DEF Operator!Mutator
  <2>3. p = Operator!Replace("Call", "42")
    BY <2>2 DEF Mutation, Operator!ScalarCalls
  <2>4. Operator!Compiled(<<"f()", "value">>, t) = {Op(o, Operator!A, Operator!A) : o \in {"Call", "OtherCall"}}
    BY DEF Operator!Compiled, Op
  <2>5. PICK o : i = Op(o, Operator!A, Operator!A)
    BY <2>2, <2>4 DEF Mutation
  <2> QED
    BY <1>1, <2>2, <2>3, <2>5
<1>4. CASE m = Operator!Mutator("f()", "statement", "", Operator!VoidCalls)
  <2>1. m.kind = <<"f()", "statement">> /\ m.to = "" /\ m.patterns = Operator!VoidCalls
    BY <1>4 DEF Operator!Mutator
  <2>2. PICK x : p = Operator!Replace(x, "operand")
    BY <2>1 DEF Mutation, Operator!VoidCalls
  <2>3. Operator!Compiled(<<"f()", "statement">>, t) = {Op(o, Operator!A, Operator!A) : o \in {"VoidCall", "VoidIntrinsic", "OtherCall"}}
    BY DEF Operator!Compiled, Op
  <2>4. PICK o : i = Op(o, Operator!A, Operator!A)
    BY <2>1, <2>3 DEF Mutation
  <2>5. Operator!Mutate(p, i, t) = Op("Copy", Operator!A, Operator!A)
    BY <2>2, <2>4, MutateKeep DEF Op
  <2>6. j = Op("Copy", Operator!A, Operator!A)
    BY <2>1 DEF Mutation, NewInstructions, Operator!Noop, Op
  <2> QED
    BY <2>5, <2>6 DEF Alike
<1> QED
  BY <1>2, <1>3, <1>4 DEF Operator!Values

LEMMA MutantsAlike ==
  ASSUME NEW m \in Operator!Mutators, NEW p, NEW t, NEW i, NEW j, Mutation(m, p, t, i, j), ~(t = "bool" /\ m.to = "42")
  PROVE  Alike(t, Operator!Mutate(p, i, t), j)
  BY ArithmeticAlike, BitwiseAlike, IncDecAlike, NoopsAlike, ComparisonAlike, ValuesAlike DEF Operator!Mutators

-----------------------------------------------------------------------------
(* What instructions compute: those that are alike compute the same.       *)

ValueOf(x, a, b) == IF x = Operator!A THEN a ELSE IF x = Operator!B THEN b ELSE x[1]

LEMMA ValuesAre ==
  ASSUME NEW a, NEW b
  PROVE  /\ ValueOf(Operator!A, a, b) = a /\ ValueOf(Operator!B, a, b) = b
         /\ \A n : ValueOf(Operator!Constant(n), a, b) = n
<1>1. Operator!B # Operator!A
  BY DEF Operator!A, Operator!B, Operator!Variable
<1>2. ASSUME NEW n
      PROVE  Operator!Constant(n) # Operator!A /\ Operator!Constant(n) # Operator!B /\ Operator!Constant(n)[1] = n
  BY DEF Operator!A, Operator!B, Operator!Variable, Operator!Constant
<1> QED
  BY <1>1, <1>2 DEF ValueOf

LEMMA RunIs ==
  ASSUME NEW o, NEW l, NEW r, NEW t, NEW a, NEW b
  PROVE  Operator!Run(Op(o, l, r), t, a, b) = Operator!Compute(o, Operator!Width(t), ValueOf(l, a, b), ValueOf(r, a, b))
<1>1. Op(o, l, r).opcode = <<o>> /\ Op(o, l, r).l = l /\ Op(o, l, r).r = r
  BY DEF Op, Operator!Instruction
<1>2. Len(<<o>>) = 1 /\ <<o>>[1] = o
  OBVIOUS
<1> QED
  BY <1>1, <1>2 DEF Operator!Run, ValueOf

LEMMA RunComparison ==
  ASSUME NEW p, NEW r, NEW t, NEW a, NEW b
  PROVE  Operator!Run(Operator!Instruction(<<p, r>>, Operator!A, Operator!B), t, a, b)
           = IF Operator!Compare(<<p, r>>, Operator!Width(t), a, b) THEN 1 ELSE 0
<1>1. PICK i : i = Operator!Instruction(<<p, r>>, Operator!A, Operator!B)
  OBVIOUS
<1>2. i.opcode = <<p, r>> /\ i.l = Operator!A /\ i.r = Operator!B
  BY <1>1 DEF Operator!Instruction
<1>3. Len(<<p, r>>) # 1
  OBVIOUS
<1>4. Operator!Run(i, t, a, b) = IF Operator!Compare(<<p, r>>, Operator!Width(t), ValueOf(Operator!A, a, b), ValueOf(Operator!B, a, b)) THEN 1 ELSE 0
  BY <1>2, <1>3 DEF Operator!Run, ValueOf
<1> QED
  BY <1>1, <1>4, ValuesAre

LEMMA ComputeAdd ==
  ASSUME NEW w, NEW x, NEW y
  PROVE  Operator!Compute("Add", w, x, y) = (x + y) % Operator!TwoTo[w]
  BY DEF Operator!Compute, Operator!Defined, Operator!Result

LEMMA ComputeSub ==
  ASSUME NEW w, NEW x, NEW y
  PROVE  Operator!Compute("Sub", w, x, y) = (x - y) % Operator!TwoTo[w]
  BY DEF Operator!Compute, Operator!Defined, Operator!Result

LEMMA ComputeMul ==
  ASSUME NEW w, NEW x, NEW y
  PROVE  Operator!Compute("Mul", w, x, y) = (x * y) % Operator!TwoTo[w]
  BY DEF Operator!Compute, Operator!Defined, Operator!Result

LEMMA ComputeCopy ==
  ASSUME NEW w, NEW x, NEW y
  PROVE  Operator!Compute("Copy", w, x, y) = x
  BY DEF Operator!Compute, Operator!Defined, Operator!Result

LEMMA ComputeAnd ==
  ASSUME NEW w, NEW x, NEW y
  PROVE  Operator!Compute("And", w, x, y) = Operator!Number(Operator!Bits(x, w) \intersect Operator!Bits(y, w), w)
  BY DEF Operator!Compute, Operator!Defined, Operator!Result

LEMMA ComputeXor ==
  ASSUME NEW w, NEW x, NEW y
  PROVE  Operator!Compute("Xor", w, x, y) = Operator!Number((Operator!Bits(x, w) \union Operator!Bits(y, w)) \ (Operator!Bits(x, w) \intersect Operator!Bits(y, w)), w)
  BY DEF Operator!Compute, Operator!Defined, Operator!Result

LEMMA ComputeDouble ==
  ASSUME NEW w, NEW x, NEW y, x # Operator!NaN, y # Operator!NaN
  PROVE  /\ Operator!Compute("FAdd", w, x, y) = x + y
         /\ Operator!Compute("FSub", w, x, y) = x - y
  BY DEF Operator!Compute, Operator!Defined, Operator!Result

LEMMA ComputePartly ==
  ASSUME NEW w, NEW x, NEW y
  PROVE  /\ Operator!Compute("UDiv", w, x, y) = IF y = 0 THEN Operator!Undefined ELSE x \div y
         /\ Operator!Compute("SDiv", w, x, y) =
              IF y = 0 \/ (Operator!Signed(x, w) = -Operator!TwoTo[w - 1] /\ Operator!Signed(y, w) = -1) THEN Operator!Undefined
              ELSE Operator!Truncated(Operator!Signed(x, w), Operator!Signed(y, w)) % Operator!TwoTo[w]
         /\ Operator!Compute("LShr", w, x, y) = IF y < w THEN x \div Operator!TwoTo[y] ELSE Operator!Undefined
         /\ Operator!Compute("AShr", w, x, y) =
              IF y < w THEN (Operator!Signed(x, w) \div Operator!TwoTo[y]) % Operator!TwoTo[w] ELSE Operator!Undefined
         /\ Operator!Compute("SMulO", w, x, y) =
              IF Operator!Signed(x, w) * Operator!Signed(y, w) \in -Operator!TwoTo[w - 1] .. Operator!TwoTo[w - 1] - 1
                THEN (Operator!Signed(x, w) * Operator!Signed(y, w)) % Operator!TwoTo[w] ELSE Operator!Undefined
  BY DEF Operator!Compute, Operator!Defined, Operator!Result, Operator!Checked

\* numbers that are neither negative nor NaN
Plain(t) == {x \in Operator!Operands(t) :
               /\ t = "double" => x # Operator!NaN
               /\ t \in {"int", "trapping", "unsigned"} => x < Operator!TwoTo[W - 1]}

\* Half of the numbers of a width are not negative.
LEMMA HalfIs ==
  \E h \in Nat : /\ h > 0 /\ Operator!TwoTo[W - 1] = h /\ Operator!TwoTo[W] = 2 * h
                 /\ \A t \in {"int", "trapping", "unsigned"} : Plain(t) = 0 .. h - 1
<1> USE WAssumption
<1>1. W - 1 \in Nat /\ W - 1 < W /\ (W - 1) + 1 = W /\ W - 1 \in 0 .. W
  OBVIOUS
<1>2. PICK h \in Nat : h = Operator!TwoTo[W - 1] /\ h > 0
  BY <1>1, TwoToIs
<1>3. Operator!TwoTo[W] = 2 * h
  BY <1>1, <1>2, TwoToIs
<1>4. ASSUME NEW t \in {"int", "trapping", "unsigned"}
      PROVE  Plain(t) = 0 .. h - 1
  BY <1>2, <1>3 DEF Plain, Operator!Operands, Operator!AllBits, Operator!Width
<1> QED
  BY <1>2, <1>3, <1>4

LEMMA SignedIs ==
  ASSUME NEW h \in Nat, Operator!TwoTo[W - 1] = h, NEW x \in 0 .. h - 1
  PROVE  Operator!Signed(x, W) = x
  BY DEF Operator!Signed

LEMMA TruncatedIs ==
  ASSUME NEW x \in Nat, NEW y \in Nat, y # 0
  PROVE  Operator!Truncated(x, y) = x \div y
  BY DEF Operator!Truncated

\* A quotient is not larger.
LEMMA QuotientIsSmaller ==
  ASSUME NEW x \in Nat, NEW d \in Nat, d > 0
  PROVE  x \div d \in 0 .. x
<1>1. PICK q \in Nat : q = x \div d
  BY Divided
<1>2. PICK r \in 0 .. d - 1 : r = x % d
  BY Divided
<1>3. x = d * q + r
  BY <1>1, <1>2, Divided
<1>4. PICK e \in Nat : d = e + 1
  <2>1. d - 1 \in Nat /\ d = (d - 1) + 1
    OBVIOUS
  <2> QED
    BY <2>1
<1>5. x = e * q + q + r /\ e * q \in Nat
  BY <1>3, <1>4
<1> QED
  BY <1>1, <1>5

Less(x, n, m) == (x - (n % m)) % m
More(x, n, m) == (x + (n % m)) % m

\* x - 1 is x + (m - 1), and x - (m - 1) is x + 1.
LEMMA OneStep ==
  ASSUME NEW h \in Nat, h > 0, NEW m \in Nat, m = 2 * h, NEW x \in 0 .. h - 1,
         NEW n, NEW k, (n = 1 /\ k = -1) \/ (n = -1 /\ k = 1)
  PROVE  Less(x, n, m) = More(x, k, m)
<1>1. 1 % m = 1
  BY SmallRemainder
<1>2. (-1) % m = m - 1
  <2>1. m * (-1) + (m - 1) = -1 /\ m - 1 \in 0 .. m - 1
    OBVIOUS
  <2> QED
    BY <2>1, DividedBy
<1>3. CASE n = 1 /\ k = -1
  <2>1. CASE x = 0
    <3>1. (x + (m - 1)) % m = m - 1
      BY <2>1, SmallRemainder
    <3> QED
      BY <1>1, <1>2, <1>3, <2>1, <3>1 DEF Less, More
  <2>2. CASE x # 0
    <3>1. x - 1 \in 0 .. m - 1
      BY <2>2
    <3>2. (x - 1) % m = x - 1
      BY <3>1, SmallRemainder
    <3>3. x + (m - 1) = m * 1 + (x - 1)
      OBVIOUS
    <3>4. (m * 1 + (x - 1)) % m = x - 1
      BY <3>1, DividedBy
    <3> QED
      BY <1>1, <1>2, <1>3, <3>2, <3>3, <3>4 DEF Less, More
  <2> QED
    BY <2>1, <2>2
<1>4. CASE n = -1 /\ k = 1
  <2>1. x + 1 \in 0 .. m - 1
    OBVIOUS
  <2>2. (x + 1) % m = x + 1
    BY <2>1, SmallRemainder
  <2>3. x - (m - 1) = m * (-1) + (x + 1)
    OBVIOUS
  <2>4. (m * (-1) + (x + 1)) % m = x + 1
    BY <2>1, DividedBy
  <2> QED
    BY <1>1, <1>2, <1>4, <2>2, <2>3, <2>4 DEF Less, More
<1> QED
  BY <1>3, <1>4

\* All bits are an identity of And, and none is one of Xor.
LEMMA AndWithAll ==
  ASSUME NEW w \in 1 .. W, NEW x \in 0 .. Operator!TwoTo[w] - 1
  PROVE  Operator!Compute("And", w, x, Operator!TwoTo[w] - 1) = x
<1>1. Operator!Bits(x, w) \intersect Operator!Bits(Operator!TwoTo[w] - 1, w) = Operator!Bits(x, w)
  BY EveryBit DEF Operator!Bits
<1>2. w \in 0 .. W
  BY WAssumption
<1>3. Operator!Compute("And", w, x, Operator!TwoTo[w] - 1) = Operator!Number(Operator!Bits(x, w), w)
  BY <1>1, ComputeAnd
<1> QED
  BY <1>2, <1>3, NumberOfBits

LEMMA XorWithNone ==
  ASSUME NEW w \in 1 .. W, NEW x \in 0 .. Operator!TwoTo[w] - 1
  PROVE  Operator!Compute("Xor", w, x, 0) = x
<1>1. w \in 0 .. W
  BY WAssumption
<1>2. (Operator!Bits(x, w) \union Operator!Bits(0, w)) \ (Operator!Bits(x, w) \intersect Operator!Bits(0, w)) = Operator!Bits(x, w)
  BY <1>1, NoBits
<1>3. Operator!Compute("Xor", w, x, 0) = Operator!Number(Operator!Bits(x, w), w)
  BY <1>2, ComputeXor
<1> QED
  BY <1>1, <1>3, NumberOfBits

\* Instructions that are alike compute the same.
LEMMA AlikeAgree ==
  ASSUME NEW t, NEW i, NEW j, Alike(t, i, j), NEW a \in Plain(t), NEW b \in Plain(t),
         Operator!Run(j, t, a, b) # Operator!Undefined
  PROVE  Operator!Run(i, t, a, b) = Operator!Run(j, t, a, b)
<1> USE WAssumption
<1>1. PICK h \in Nat : /\ h > 0 /\ Operator!TwoTo[W - 1] = h /\ Operator!TwoTo[W] = 2 * h
                       /\ \A u \in {"int", "trapping", "unsigned"} : Plain(u) = 0 .. h - 1
  BY HalfIs
<1>2. PICK m \in Nat : m = Operator!TwoTo[W] /\ m = 2 * h
  BY <1>1
<1>3. t # "bool" => Operator!Width(t) = W
  BY DEF Operator!Width
<1>4. t \in {"int", "trapping", "unsigned"} => /\ a \in 0 .. h - 1 /\ b \in 0 .. h - 1
                                               /\ Operator!Signed(a, W) = a /\ Operator!Signed(b, W) = b
  BY <1>1, SignedIs
<1>5. CASE t \in {"int", "unsigned"} /\ \E n, k \in {1, -1} :
             /\ n # k
             /\ i = Op("Sub", Operator!A, Operator!Constant(n % Operator!TwoTo[W]))
             /\ j = Op("Add", Operator!A, Operator!Constant(k % Operator!TwoTo[W]))
  <2>1. PICK n, k \in {1, -1} : /\ n # k
             /\ i = Op("Sub", Operator!A, Operator!Constant(n % m))
             /\ j = Op("Add", Operator!A, Operator!Constant(k % m))
    BY <1>2, <1>5
  <2>2. Operator!Run(i, t, a, b) = Operator!Compute("Sub", W, a, n % m)
    BY <1>3, <1>5, <2>1, RunIs, ValuesAre
  <2>3. Operator!Run(j, t, a, b) = Operator!Compute("Add", W, a, k % m)
    BY <1>3, <1>5, <2>1, RunIs, ValuesAre
  <2>4. (a - (n % m)) % m = (a + (k % m)) % m
    <3>1. a \in 0 .. h - 1
      BY <1>4, <1>5
    <3>2. (n = 1 /\ k = -1) \/ (n = -1 /\ k = 1)
      BY <2>1
    <3>3. Less(a, n, m) = More(a, k, m)
      BY <1>1, <1>2, <3>1, <3>2, OneStep
    <3> QED
      BY <3>3 DEF Less, More
  <2>5. Operator!Compute("Sub", W, a, n % m) = (a - (n % m)) % m
    BY <1>2, ComputeSub
  <2>6. Operator!Compute("Add", W, a, k % m) = (a + (k % m)) % m
    BY <1>2, ComputeAdd
  <2> QED
    BY <2>2, <2>3, <2>4, <2>5, <2>6
<1>6. CASE t = "double" /\ i = Op("FSub", Operator!A, Operator!Constant(1)) /\ j = Op("FAdd", Operator!A, Operator!Constant(-1))
  <2>1. a \in {-1, 0, 1}
    BY <1>6 DEF Plain, Operator!Operands
  <2>2. Operator!Run(i, t, a, b) = Operator!Compute("FSub", W, a, 1)
    BY <1>3, <1>6, RunIs, ValuesAre
  <2>3. Operator!Run(j, t, a, b) = Operator!Compute("FAdd", W, a, -1)
    BY <1>3, <1>6, RunIs, ValuesAre
  <2>4. a # Operator!NaN /\ 1 # Operator!NaN /\ -1 # Operator!NaN
    BY <2>1 DEF Operator!NaN
  <2>5. a - 1 = a + (-1)
    BY <2>1
  <2> QED
    BY <2>2, <2>3, <2>4, <2>5, ComputeDouble
<1>7. CASE t = "unsigned" /\ i = Op("SDiv", Operator!A, Operator!B) /\ j = Op("UDiv", Operator!A, Operator!B)
  <2>1. Operator!Run(i, t, a, b) = Operator!Compute("SDiv", W, a, b)
    BY <1>3, <1>7, RunIs, ValuesAre
  <2>2. Operator!Run(j, t, a, b) = Operator!Compute("UDiv", W, a, b)
    BY <1>3, <1>7, RunIs, ValuesAre
  <2>3. a \in 0 .. h - 1 /\ b \in 0 .. h - 1 /\ Operator!Signed(a, W) = a /\ Operator!Signed(b, W) = b
    BY <1>4, <1>7
  <2>4. b # 0 /\ Operator!Compute("UDiv", W, a, b) = a \div b
    BY <2>2, ComputePartly
  <2>5. a # -h
    BY <1>1, <2>3
  <2>6. Operator!Compute("SDiv", W, a, b) = Operator!Truncated(a, b) % m
    BY <1>1, <1>2, <2>3, <2>4, <2>5, ComputePartly
  <2>7. Operator!Truncated(a, b) = a \div b
    BY <2>3, <2>4, TruncatedIs
  <2>8. a \div b \in 0 .. m - 1
    <3>1. a \div b \in 0 .. a
      BY <2>3, <2>4, QuotientIsSmaller
    <3> QED
      BY <1>2, <2>3, <3>1
  <2>9. (a \div b) % m = a \div b
    BY <1>1, <1>2, <2>8, SmallRemainder
  <2> QED
    BY <2>1, <2>2, <2>4, <2>6, <2>7, <2>9
<1>8. CASE t = "trapping" /\ i = Op("Mul", Operator!A, Operator!B) /\ j = Op("SMulO", Operator!A, Operator!B)
  <2>1. Operator!Run(i, t, a, b) = Operator!Compute("Mul", W, a, b)
    BY <1>3, <1>8, RunIs, ValuesAre
  <2>2. Operator!Run(j, t, a, b) = Operator!Compute("SMulO", W, a, b)
    BY <1>3, <1>8, RunIs, ValuesAre
  <2>3. Operator!Signed(a, W) = a /\ Operator!Signed(b, W) = b
    BY <1>4, <1>8
  <2>4. Operator!Compute("SMulO", W, a, b) = (a * b) % Operator!TwoTo[W]
    BY <2>2, <2>3, ComputePartly
  <2> QED
    BY <2>1, <2>2, <2>4, ComputeMul
<1>9. CASE t = "int" /\ i = Op("LShr", Operator!A, Operator!B) /\ j = Op("AShr", Operator!A, Operator!B)
  <2>1. Operator!Run(i, t, a, b) = Operator!Compute("LShr", W, a, b)
    BY <1>3, <1>9, RunIs, ValuesAre
  <2>2. Operator!Run(j, t, a, b) = Operator!Compute("AShr", W, a, b)
    BY <1>3, <1>9, RunIs, ValuesAre
  <2>3. a \in 0 .. h - 1 /\ b \in 0 .. h - 1 /\ Operator!Signed(a, W) = a
    BY <1>4, <1>9
  <2>4. b < W /\ Operator!Compute("AShr", W, a, b) = (a \div Operator!TwoTo[b]) % Operator!TwoTo[W]
    BY <2>2, <2>3, ComputePartly
  <2>5. PICK d \in Nat : d = Operator!TwoTo[b] /\ d > 0
    BY <2>3, <2>4, TwoToIs
  <2>6. a \div d \in 0 .. m - 1
    <3>1. a \div d \in 0 .. a
      BY <2>3, <2>5, QuotientIsSmaller
    <3> QED
      BY <1>2, <2>3, <3>1
  <2>7. (a \div d) % m = a \div d
    BY <1>1, <1>2, <2>6, SmallRemainder
  <2>8. Operator!Compute("LShr", W, a, b) = a \div d
    BY <2>4, <2>5, ComputePartly
  <2> QED
    BY <1>2, <2>1, <2>2, <2>4, <2>5, <2>7, <2>8
<1>10. CASE t \in {"int", "unsigned"} /\ i = Op("Sub", Operator!A, Operator!Constant(0)) /\ j = Op("Copy", Operator!A, Operator!A)
  <2>1. Operator!Run(i, t, a, b) = Operator!Compute("Sub", W, a, 0)
    BY <1>3, <1>10, RunIs, ValuesAre
  <2>2. Operator!Run(j, t, a, b) = a
    BY <1>3, <1>10, RunIs, ValuesAre, ComputeCopy
  <2>3. a \in 0 .. m - 1 /\ a - 0 = a
    BY <1>2, <1>4, <1>10
  <2>4. a % m = a
    BY <1>1, <1>2, <2>3, SmallRemainder
  <2> QED
    BY <1>2, <2>1, <2>2, <2>3, <2>4, ComputeSub
<1>11. CASE t = "double" /\ i = Op("FSub", Operator!A, Operator!Constant(0)) /\ j = Op("Copy", Operator!A, Operator!A)
  <2>1. a \in {-1, 0, 1}
    BY <1>11 DEF Plain, Operator!Operands
  <2>2. Operator!Run(i, t, a, b) = Operator!Compute("FSub", W, a, 0)
    BY <1>3, <1>11, RunIs, ValuesAre
  <2>3. Operator!Run(j, t, a, b) = a
    BY <1>3, <1>11, RunIs, ValuesAre, ComputeCopy
  <2>4. a # Operator!NaN /\ 0 # Operator!NaN /\ a - 0 = a
    BY <2>1 DEF Operator!NaN
  <2> QED
    BY <2>2, <2>3, <2>4, ComputeDouble
<1>12. CASE /\ t \in {"int", "unsigned"}
            /\ i = Op("And", Operator!A, Operator!Constant(Operator!AllBits(t)))
            /\ j = Op("Copy", Operator!A, Operator!A)
  <2>1. Operator!AllBits(t) = Operator!TwoTo[W] - 1
    BY <1>12 DEF Operator!AllBits, Operator!Width
  <2>2. Operator!Run(i, t, a, b) = Operator!Compute("And", W, a, Operator!TwoTo[W] - 1)
    BY <1>3, <1>12, <2>1, RunIs, ValuesAre
  <2>3. Operator!Run(j, t, a, b) = a
    BY <1>3, <1>12, RunIs, ValuesAre, ComputeCopy
  <2>4. a \in 0 .. Operator!TwoTo[W] - 1 /\ W \in 1 .. W
    BY <1>2, <1>4, <1>12
  <2> QED
    BY <2>2, <2>3, <2>4, AndWithAll
<1>13. CASE t = "bool" /\ i = Op("Xor", Operator!A, Operator!Constant(0)) /\ j = Op("Copy", Operator!A, Operator!A)
  <2>1. Operator!Width(t) = 1 /\ 1 \in 1 .. W
    BY <1>13 DEF Operator!Width
  <2>2. a \in 0 .. Operator!TwoTo[1] - 1
    BY <1>13, <2>1 DEF Plain, Operator!Operands, Operator!AllBits
  <2>3. Operator!Run(i, t, a, b) = Operator!Compute("Xor", 1, a, 0)
    BY <1>13, <2>1, RunIs, ValuesAre
  <2>4. Operator!Run(j, t, a, b) = a
    BY <1>13, RunIs, ValuesAre, ComputeCopy
  <2> QED
    BY <2>1, <2>2, <2>3, <2>4, XorWithNone
<1>14. CASE t = "double" /\ \E r \in {"eq", "ne"} : \E p, q \in {"FCMP_O", "FCMP_U"} :
              /\ i = Operator!Instruction(<<p, r>>, Operator!A, Operator!B)
              /\ j = Operator!Instruction(<<q, r>>, Operator!A, Operator!B)
  <2>1. PICK r \in {"eq", "ne"}, p, q \in {"FCMP_O", "FCMP_U"} :
              /\ i = Operator!Instruction(<<p, r>>, Operator!A, Operator!B)
              /\ j = Operator!Instruction(<<q, r>>, Operator!A, Operator!B)
    BY <1>14
  <2>2. a # Operator!NaN /\ b # Operator!NaN
    BY <1>14 DEF Plain
  <2>3. ASSUME NEW u \in {"FCMP_O", "FCMP_U"}
        PROVE  Operator!Compare(<<u, r>>, W, a, b) <=> Operator!Related(r, a, b)
    <3>1. <<u, r>>[1] = u /\ <<u, r>>[2] = r
      OBVIOUS
    <3>2. ~(Operator!NaN \in {a, b})
      BY <2>2
    <3> QED
      BY <3>1, <3>2 DEF Operator!Compare
  <2>4. Operator!Run(i, t, a, b) = IF Operator!Compare(<<p, r>>, W, a, b) THEN 1 ELSE 0
    BY <1>3, <1>14, <2>1, RunComparison
  <2>5. Operator!Run(j, t, a, b) = IF Operator!Compare(<<q, r>>, W, a, b) THEN 1 ELSE 0
    BY <1>3, <1>14, <2>1, RunComparison
  <2> QED
    BY <2>3, <2>4, <2>5
<1> QED
  BY <1>5, <1>6, <1>7, <1>8, <1>9, <1>10, <1>11, <1>12, <1>13, <1>14 DEF Alike

-----------------------------------------------------------------------------
\* instruction i is one the operator is compiled to
IsCompiled(i) ==
  construct \in Operator!Constructs /\ type \in Operator!Types(construct) /\ i \in Operator!Compiled(construct, type)

\* the mutation is one that the patterns find in i
IsFoundIn(i) ==
  \E m \in Operator!Mutators : \E p \in m.patterns :
    Operator!CanMutate(m, p, i) /\ operatorPoint = [mutator |-> m, pattern |-> p]

OperatorInv ==
  /\ operatorStage = "compiled" => IsCompiled(instruction)
  /\ operatorStage = "found" => IsCompiled(instruction) /\ IsFoundIn(instruction)
  /\ operatorStage = "kept" => IsCompiled(instruction) /\ IsFoundIn(instruction) /\ operatorPoint.mutator.kind = construct
  /\ operatorStage = "applied" =>
       \E i : /\ IsCompiled(i) /\ IsFoundIn(i) /\ operatorPoint.mutator.kind = construct
              /\ instruction = Operator!Mutate(operatorPoint.pattern, i, type)

LEMMA InitOperatorInv == Init => OperatorInv
  BY DEF Init, Operator!Init, OperatorInv

LEMMA OperatorStep == [Next]_vars => [Operator!Next]_(Operator!vars)
<1> SUFFICES ASSUME [Next]_vars PROVE [Operator!Next]_(Operator!vars)
  OBVIOUS
<1> USE DEF Operator!vars
<1>1. CASE MakeDatabase
  BY <1>1 DEF MakeDatabase, operatorVars
<1>2. CASE MakeMutators
  BY <1>2 DEF MakeMutators, operatorVars
<1>3. CASE TakeMutators
  BY <1>3 DEF TakeMutators, operatorVars
<1>4. CASE StartSearch
  BY <1>4 DEF StartSearch, operatorVars
<1>5. CASE SearchMutations
  BY <1>5 DEF SearchMutations, operatorVars
<1>6. CASE MutateOperator
  BY <1>6 DEF MutateOperator
<1>7. CASE MutateCondition
  BY <1>7 DEF MutateCondition, operatorVars
<1>8. CASE UNCHANGED vars
  BY <1>8 DEF vars, operatorVars
<1> QED
  BY <1>1, <1>2, <1>3, <1>4, <1>5, <1>6, <1>7, <1>8 DEF Next

LEMMA NextOperatorInv == OperatorInv /\ [Next]_vars => OperatorInv'
<1> SUFFICES ASSUME OperatorInv, [Operator!Next]_(Operator!vars) PROVE OperatorInv'
  BY OperatorStep
<1>1. CASE Operator!Compile
  <2>1. operatorStage' = "compiled" /\ IsCompiled(instruction)'
    BY <1>1 DEF Operator!Compile, IsCompiled
  <2> QED
    BY <2>1 DEF OperatorInv
<1>2. CASE Operator!FindMutation
  <2>1. operatorStage' = "found" /\ operatorStage = "compiled" /\ UNCHANGED <<construct, type, instruction>>
    BY <1>2 DEF Operator!FindMutation
  <2>2. IsCompiled(instruction)'
    BY <2>1 DEF OperatorInv, IsCompiled
  <2>3. IsFoundIn(instruction)'
    BY <1>2, <2>1 DEF Operator!FindMutation, IsFoundIn
  <2> QED
    BY <2>1, <2>2, <2>3 DEF OperatorInv
<1>3. CASE Operator!IsJunk
  <2>1. operatorStage = "found" /\ UNCHANGED <<construct, type, instruction, operatorPoint>>
    BY <1>3 DEF Operator!IsJunk
  <2>2. IsCompiled(instruction)' /\ IsFoundIn(instruction)'
    BY <2>1 DEF OperatorInv, IsCompiled, IsFoundIn
  <2>3. operatorStage' = "junk" \/ (operatorStage' = "kept" /\ operatorPoint'.mutator.kind = construct')
    BY <1>3, <2>1 DEF Operator!IsJunk
  <2> QED
    BY <2>2, <2>3 DEF OperatorInv
<1>4. CASE Operator!ApplyMutation
  <2>1. /\ operatorStage = "kept" /\ operatorStage' = "applied" /\ UNCHANGED <<construct, type, operatorPoint>>
        /\ instruction' = Operator!Mutate(operatorPoint.pattern, instruction, type)
    BY <1>4 DEF Operator!ApplyMutation
  <2>2. IsCompiled(instruction) /\ IsFoundIn(instruction) /\ operatorPoint.mutator.kind = construct
    BY <2>1 DEF OperatorInv
  <2>3. PICK i : i = instruction
    OBVIOUS
  <2>4. IsCompiled(i)' /\ IsFoundIn(i)' /\ operatorPoint'.mutator.kind = construct'
    BY <2>1, <2>2, <2>3 DEF IsCompiled, IsFoundIn
  <2>5. instruction' = Operator!Mutate(operatorPoint', i, type') \/ instruction' = Operator!Mutate(operatorPoint'.pattern, i, type')
    BY <2>1, <2>3
  <2> QED
    BY <2>1, <2>3, <2>4, <2>5 DEF OperatorInv
<1>5. CASE UNCHANGED Operator!vars
  BY <1>5 DEF Operator!vars, OperatorInv, IsCompiled, IsFoundIn
<1> QED
  BY <1>1, <1>2, <1>3, <1>4, <1>5 DEF Operator!Next

LEMMA ReplacedAgree == OperatorInv => MutantIsTheReplacement
<1> SUFFICES ASSUME OperatorInv, operatorStage = "applied", ~(type = "bool" /\ operatorPoint.mutator.to = "42")
             PROVE  Operator!Agrees(Plain(type))
  BY DEF MutantIsTheReplacement, Operator!MutantIsTheReplacement, Plain
<1>1. PICK i : /\ IsCompiled(i) /\ IsFoundIn(i) /\ operatorPoint.mutator.kind = construct
               /\ instruction = Operator!Mutate(operatorPoint.pattern, i, type)
  BY DEF OperatorInv
<1>2. PICK m \in Operator!Mutators : \E p \in m.patterns :
        Operator!CanMutate(m, p, i) /\ operatorPoint = [mutator |-> m, pattern |-> p]
  BY <1>1 DEF IsFoundIn
<1>0. PICK p \in m.patterns : Operator!CanMutate(m, p, i) /\ operatorPoint = [mutator |-> m, pattern |-> p]
  BY <1>2
<1>3. operatorPoint.mutator = m /\ operatorPoint.pattern = p
  BY <1>0
<1>4. SUFFICES ASSUME NEW a \in Plain(type), NEW b \in Plain(type), NEW j \in Operator!Replacement,
                      Operator!Run(j, type, a, b) # Operator!Undefined
               PROVE  Operator!Run(instruction, type, a, b) = Operator!Run(j, type, a, b)
  BY DEF Operator!Agrees
<1>5. Operator!Replacement = NewInstructions(m, type)
  BY <1>1, <1>3 DEF Operator!Replacement, NewInstructions
<1>6. Mutation(m, p, type, i, j)
  BY <1>0, <1>1, <1>3, <1>4, <1>5 DEF Mutation, IsCompiled
<1>7. Alike(type, instruction, j)
  BY <1>1, <1>3, <1>6, MutantsAlike
<1> QED
  BY <1>4, <1>7, AlikeAgree

\* A mutant computes what the source would with the operator replaced, on all numbers of
\* any width that are neither negative nor NaN.
THEOREM ReplacementCorrect == Spec => []MutantIsTheReplacement
<1>1. Init => OperatorInv
  BY InitOperatorInv
<1>2. OperatorInv /\ [Next]_vars => OperatorInv'
  BY NextOperatorInv
<1>3. OperatorInv => MutantIsTheReplacement
  BY ReplacedAgree
<1> QED
  BY <1>1, <1>2, <1>3, PTL DEF Spec

-----------------------------------------------------------------------------
(* A mutator finds a mutation of an instruction at most once: its patterns *)
(* do not overlap, and no two mutators of an operator have the same        *)
(* replacement.                                                            *)

\* the mutators of operators that are no comparison
Mutates(o, f, to, patterns) ==
  \/ o = "++" /\ to = "--" /\ patterns = Operator!AddToSub
  \/ o = "--" /\ to = "++" /\ patterns = Operator!DecToInc
  \/ o = "+" /\ to = "-" /\ patterns = Operator!AddToSub
  \/ o = "-" /\ f # "unary" /\ to = "+" /\ patterns = Operator!SubToAdd
  \/ o = "*" /\ to = "/" /\ patterns = Operator!MulToDiv
  \/ o = "/" /\ to = "*" /\ patterns = Operator!DivToMul
  \/ o = "%" /\ to = "/" /\ patterns = Operator!RemToDiv
  \/ o = "<<" /\ to = ">>" /\ patterns = Operator!LShiftToRShift
  \/ o = ">>" /\ to = "<<" /\ patterns = Operator!RShiftToLShift
  \/ o = "|" /\ to = "&" /\ patterns = {Operator!Replace("Or", "And")}
  \/ o = "&" /\ to = "|" /\ patterns = {Operator!Replace("And", "Or")}
  \/ o = "^" /\ to = "|" /\ patterns = {Operator!Replace("Xor", "Or")}
  \/ o = "-" /\ f = "unary" /\ to = "" /\ patterns = Operator!UnaryMinus
  \/ o = "~" /\ to = "" /\ patterns = Operator!BitNot
  \/ o = "!" /\ to = "" /\ patterns = Operator!Negation
  \/ o = "=" /\ to = "42" /\ patterns = Operator!Numbers
  \/ o = "f()" /\ f = "value" /\ to = "42" /\ patterns = Operator!ScalarCalls
  \/ o = "f()" /\ f = "statement" /\ to = "" /\ patterns = Operator!VoidCalls

LEMMA MutatesOnce ==
  ASSUME NEW o, NEW f, NEW to, NEW patterns, NEW to2, NEW patterns2,
         Mutates(o, f, to, patterns), Mutates(o, f, to2, patterns2)
  PROVE  to = to2 /\ patterns = patterns2
  BY DEF Mutates

LEMMA KindIs ==
  ASSUME NEW o, NEW f, NEW to, NEW patterns
  PROVE  /\ Operator!Mutator(o, f, to, patterns).kind[1] = o /\ Operator!Mutator(o, f, to, patterns).kind[2] = f
         /\ Operator!Mutator(o, f, to, patterns).kind = <<o, f>>
         /\ Operator!Mutator(o, f, to, patterns).to = to
         /\ Operator!Mutator(o, f, to, patterns).patterns = patterns
  BY DEF Operator!Mutator

Comparisons == {"<", "<=", ">", ">=", "==", "!="}

LEMMA OtherMutators ==
  ASSUME NEW m \in Operator!Mutators, m \notin Operator!Comparison
  PROVE  \E o, f, to, patterns : /\ m = Operator!Mutator(o, f, to, patterns)
                                 /\ Mutates(o, f, to, patterns) /\ o \notin Comparisons
<1> DEFINE Is(o, f, to, patterns) ==
      /\ m = Operator!Mutator(o, f, to, patterns)
      /\ Mutates(o, f, to, patterns) /\ o \notin Comparisons
<1> SUFFICES \E o, f, to, patterns : Is(o, f, to, patterns)
  OBVIOUS
<1>1. CASE m \in Operator!IncDec
  <2>1. PICK f : \/ Is("++", f, "--", Operator!AddToSub)
                 \/ Is("--", f, "++", Operator!DecToInc)
    BY <1>1 DEF Operator!IncDec, Mutates, Comparisons
  <2> HIDE DEF Is
  <2> QED
    BY <2>1
<1>2. CASE m \in Operator!Arithmetic
  <2>1. PICK f \in {"binary", "assign"} :
           \/ Is("+", f, "-", Operator!AddToSub)
           \/ Is("-", f, "+", Operator!SubToAdd)
           \/ Is("*", f, "/", Operator!MulToDiv)
           \/ Is("/", f, "*", Operator!DivToMul)
           \/ Is("%", f, "/", Operator!RemToDiv)
    BY <1>2 DEF Operator!Arithmetic, Operator!Both, Mutates, Comparisons
  <2> HIDE DEF Is
  <2> QED
    BY <2>1
<1>3. CASE m \in Operator!Bitwise
  <2>1. PICK f \in {"binary", "assign"} :
           \/ Is("<<", f, ">>", Operator!LShiftToRShift)
           \/ Is(">>", f, "<<", Operator!RShiftToLShift)
           \/ Is("|", f, "&", {Operator!Replace("Or", "And")})
           \/ Is("&", f, "|", {Operator!Replace("And", "Or")})
           \/ Is("^", f, "|", {Operator!Replace("Xor", "Or")})
    BY <1>3 DEF Operator!Bitwise, Operator!Both, Mutates, Comparisons
  <2> HIDE DEF Is
  <2> QED
    BY <2>1
<1>4. CASE m \in Operator!Noops
  <2>1. \/ Is("-", "unary", "", Operator!UnaryMinus)
        \/ Is("~", "unary", "", Operator!BitNot)
        \/ Is("!", "unary", "", Operator!Negation)
    BY <1>4 DEF Operator!Noops, Mutates, Comparisons
  <2> HIDE DEF Is
  <2> QED
    BY <2>1
<1>5. CASE m \in Operator!Values
  <2>1. \/ \E f \in {"assign", "init"} : Is("=", f, "42", Operator!Numbers)
        \/ Is("f()", "value", "42", Operator!ScalarCalls)
        \/ Is("f()", "statement", "", Operator!VoidCalls)
    BY <1>5 DEF Operator!Values, Mutates, Comparisons
  <2> HIDE DEF Is
  <2> QED
    BY <2>1
<1> QED
  BY <1>1, <1>2, <1>3, <1>4, <1>5 DEF Operator!Mutators

\* A comparison has a mutator for another comparison at most once.
IsComparison(m, r, s) ==
  m = Operator!Mutator(Operator!Relations[r], "binary", Operator!Relations[s], Operator!Relational(r, s))

Relation == {"lt", "le", "gt", "ge", "eq", "ne"}

LEMMA ComparisonIs ==
  ASSUME NEW m \in Operator!Comparison
  PROVE  /\ m.kind[1] \in Comparisons
         /\ \E r, s \in Relation : IsComparison(m, r, s)
<1>1. PICK r, s \in Relation : IsComparison(m, r, s)
  BY DEF Operator!Comparison, IsComparison, Relation
<1>2. m.kind[1] = Operator!Relations[r]
  BY <1>1, KindIs DEF IsComparison
<1>3. Operator!Relations[r] \in Comparisons
  BY RelationsAre DEF Relation, Comparisons
<1> QED
  BY <1>1, <1>2, <1>3

LEMMA SameKind ==
  ASSUME NEW m \in Operator!Mutators, NEW n \in Operator!Mutators, m.kind = n.kind, m # n
  PROVE  \E r, s, u \in Relation : s # u /\ IsComparison(m, r, s) /\ IsComparison(n, r, u)
<1>1. m \in Operator!Comparison /\ n \in Operator!Comparison
  <2>1. ASSUME NEW v \in Operator!Mutators, v \notin Operator!Comparison
        PROVE  v.kind[1] \notin Comparisons
    BY <2>1, OtherMutators, KindIs
  <2>2. m \in Operator!Comparison <=> n \in Operator!Comparison
    BY <2>1, ComparisonIs
  <2>3. ASSUME m \notin Operator!Comparison, n \notin Operator!Comparison
        PROVE  m = n
    <3>1. PICK o, f, to, patterns : m = Operator!Mutator(o, f, to, patterns) /\ Mutates(o, f, to, patterns)
      BY <2>3, OtherMutators
    <3>2. PICK o2, f2, to2, patterns2 : n = Operator!Mutator(o2, f2, to2, patterns2) /\ Mutates(o2, f2, to2, patterns2)
      BY <2>3, OtherMutators
    <3>3. m.kind[1] = o /\ m.kind[2] = f
      BY <3>1, KindIs
    <3>4. n.kind[1] = o2 /\ n.kind[2] = f2
      BY <3>2, KindIs
    <3>5. o = o2 /\ f = f2
      BY <3>3, <3>4
    <3>6. to = to2 /\ patterns = patterns2
      BY <3>1, <3>2, <3>5, MutatesOnce
    <3> QED
      BY <3>1, <3>2, <3>5, <3>6
  <2> QED
    BY <2>2, <2>3
<1>2. PICK r, s \in Relation : IsComparison(m, r, s)
  BY <1>1, ComparisonIs
<1>3. PICK q, u \in Relation : IsComparison(n, q, u)
  BY <1>1, ComparisonIs
<1>4. m.kind[1] = Operator!Relations[r] /\ n.kind[1] = Operator!Relations[q]
  BY <1>2, <1>3, KindIs DEF IsComparison
<1>5. Operator!Relations[r] = Operator!Relations[q]
  BY <1>4
<1>6. r = q
  BY <1>5, RelationsAre DEF Relation
<1>7. s # u
  BY <1>2, <1>3, <1>6 DEF IsComparison
<1> QED
  BY <1>2, <1>3, <1>6, <1>7

\* Two patterns of a mutator do not match the same instruction.
LEMMA PatternsDiffer ==
  ASSUME NEW m \in Operator!Mutators, NEW p \in m.patterns, NEW q \in m.patterns, p.from = q.from
  PROVE  p = q
<1>1. CASE m \in Operator!Comparison
  <2>1. PICK r, s \in Relation : IsComparison(m, r, s)
    BY <1>1, ComparisonIs
  <2>2. m.patterns = Operator!Relational(r, s)
    BY <2>1, KindIs DEF IsComparison
  <2>3. PICK x : p = [from |-> <<x, r>>, to |-> <<x, s>>]
    BY <2>2 DEF Operator!Relational
  <2>4. PICK y : q = [from |-> <<y, r>>, to |-> <<y, s>>]
    BY <2>2 DEF Operator!Relational
  <2>5. <<x, r>> = <<y, r>>
    BY <2>3, <2>4
  <2> QED
    BY <2>3, <2>4, <2>5
<1>2. ASSUME NEW x1, NEW y1, NEW x2, NEW y2, x1 = x2 => y1 = y2, p = Operator!Replace(x1, y1), q = Operator!Replace(x2, y2)
      PROVE  p = q
  <2>1. <<x1>> = <<x2>>
    BY <1>2, ReplaceIs
  <2>2. x1 = x2
    BY <2>1
  <2> QED
    BY <1>2, <2>2
<1>3. CASE m.patterns = Operator!AddToSub
  <2>1. PICK x1, y1 : p = Operator!Replace(x1, y1) /\ <<x1, y1>> \in {<<"Add", "Sub">>, <<"FAdd", "FSub">>, <<"SAddO", "SSubO">>}
    BY <1>3 DEF Operator!AddToSub
  <2>2. PICK x2, y2 : q = Operator!Replace(x2, y2) /\ <<x2, y2>> \in {<<"Add", "Sub">>, <<"FAdd", "FSub">>, <<"SAddO", "SSubO">>}
    BY <1>3 DEF Operator!AddToSub
  <2>3. x1 = x2 => y1 = y2
    BY <2>1, <2>2
  <2> QED
    BY <1>2, <2>1, <2>2, <2>3
<1>4. CASE m.patterns = Operator!SubToAdd
  <2>1. PICK x1, y1 : p = Operator!Replace(x1, y1) /\ <<x1, y1>> \in {<<"Sub", "Add">>, <<"FSub", "FAdd">>, <<"SSubO", "SAddO">>}
    BY <1>4 DEF Operator!SubToAdd
  <2>2. PICK x2, y2 : q = Operator!Replace(x2, y2) /\ <<x2, y2>> \in {<<"Sub", "Add">>, <<"FSub", "FAdd">>, <<"SSubO", "SAddO">>}
    BY <1>4 DEF Operator!SubToAdd
  <2>3. x1 = x2 => y1 = y2
    BY <2>1, <2>2
  <2> QED
    BY <1>2, <2>1, <2>2, <2>3
<1>5. CASE m.patterns = Operator!DecToInc
  <2>1. PICK x1, y1 : p = Operator!Replace(x1, y1) /\ <<x1, y1>> \in {<<"Sub", "Add">>, <<"FSub", "FAdd">>, <<"SSubO", "SAddO">>, <<"Add", "Sub">>}
    BY <1>5 DEF Operator!DecToInc, Operator!SubToAdd
  <2>2. PICK x2, y2 : q = Operator!Replace(x2, y2) /\ <<x2, y2>> \in {<<"Sub", "Add">>, <<"FSub", "FAdd">>, <<"SSubO", "SAddO">>, <<"Add", "Sub">>}
    BY <1>5 DEF Operator!DecToInc, Operator!SubToAdd
  <2>3. x1 = x2 => y1 = y2
    BY <2>1, <2>2
  <2> QED
    BY <1>2, <2>1, <2>2, <2>3
<1>6. CASE m.patterns = Operator!MulToDiv
  <2>1. PICK x1, y1 : p = Operator!Replace(x1, y1) /\ <<x1, y1>> \in {<<"Mul", "SDiv">>, <<"FMul", "FDiv">>}
    BY <1>6 DEF Operator!MulToDiv
  <2>2. PICK x2, y2 : q = Operator!Replace(x2, y2) /\ <<x2, y2>> \in {<<"Mul", "SDiv">>, <<"FMul", "FDiv">>}
    BY <1>6 DEF Operator!MulToDiv
  <2>3. x1 = x2 => y1 = y2
    BY <2>1, <2>2
  <2> QED
    BY <1>2, <2>1, <2>2, <2>3
<1>7. CASE m.patterns = Operator!DivToMul
  <2>1. PICK x1, y1 : p = Operator!Replace(x1, y1) /\ <<x1, y1>> \in {<<"FDiv", "FMul">>, <<"SDiv", "Mul">>, <<"UDiv", "Mul">>}
    BY <1>7 DEF Operator!DivToMul
  <2>2. PICK x2, y2 : q = Operator!Replace(x2, y2) /\ <<x2, y2>> \in {<<"FDiv", "FMul">>, <<"SDiv", "Mul">>, <<"UDiv", "Mul">>}
    BY <1>7 DEF Operator!DivToMul
  <2>3. x1 = x2 => y1 = y2
    BY <2>1, <2>2
  <2> QED
    BY <1>2, <2>1, <2>2, <2>3
<1>8. CASE m.patterns = Operator!RemToDiv
  <2>1. PICK x1, y1 : p = Operator!Replace(x1, y1) /\ <<x1, y1>> \in {<<"FRem", "FDiv">>, <<"SRem", "SDiv">>, <<"URem", "UDiv">>}
    BY <1>8 DEF Operator!RemToDiv
  <2>2. PICK x2, y2 : q = Operator!Replace(x2, y2) /\ <<x2, y2>> \in {<<"FRem", "FDiv">>, <<"SRem", "SDiv">>, <<"URem", "UDiv">>}
    BY <1>8 DEF Operator!RemToDiv
  <2>3. x1 = x2 => y1 = y2
    BY <2>1, <2>2
  <2> QED
    BY <1>2, <2>1, <2>2, <2>3
<1>9. CASE m.patterns = Operator!RShiftToLShift
  <2>1. PICK x1, y1 : p = Operator!Replace(x1, y1) /\ <<x1, y1>> \in {<<"LShr", "Shl">>, <<"AShr", "Shl">>}
    BY <1>9 DEF Operator!RShiftToLShift
  <2>2. PICK x2, y2 : q = Operator!Replace(x2, y2) /\ <<x2, y2>> \in {<<"LShr", "Shl">>, <<"AShr", "Shl">>}
    BY <1>9 DEF Operator!RShiftToLShift
  <2>3. x1 = x2 => y1 = y2
    BY <2>1, <2>2
  <2> QED
    BY <1>2, <2>1, <2>2, <2>3
<1>10. CASE m.patterns = Operator!UnaryMinus
  <2>1. PICK x1, y1 : p = Operator!Replace(x1, y1) /\ <<x1, y1>> \in {<<"Sub", "swap operands">>, <<"FSub", "swap operands">>, <<"FNeg", "operand">>}
    BY <1>10 DEF Operator!UnaryMinus
  <2>2. PICK x2, y2 : q = Operator!Replace(x2, y2) /\ <<x2, y2>> \in {<<"Sub", "swap operands">>, <<"FSub", "swap operands">>, <<"FNeg", "operand">>}
    BY <1>10 DEF Operator!UnaryMinus
  <2>3. x1 = x2 => y1 = y2
    BY <2>1, <2>2
  <2> QED
    BY <1>2, <2>1, <2>2, <2>3
<1>11. CASE m.patterns = Operator!VoidCalls
  <2>1. PICK x1, y1 : p = Operator!Replace(x1, y1) /\ <<x1, y1>> \in {<<"VoidCall", "operand">>, <<"VoidIntrinsic", "operand">>}
    BY <1>11 DEF Operator!VoidCalls
  <2>2. PICK x2, y2 : q = Operator!Replace(x2, y2) /\ <<x2, y2>> \in {<<"VoidCall", "operand">>, <<"VoidIntrinsic", "operand">>}
    BY <1>11 DEF Operator!VoidCalls
  <2>3. x1 = x2 => y1 = y2
    BY <2>1, <2>2
  <2> QED
    BY <1>2, <2>1, <2>2, <2>3
<1>12. CASE \E x, y : m.patterns = {Operator!Replace(x, y)}
  BY <1>12
<1>13. CASE m \notin Operator!Comparison
  <2>1. \/ m.patterns \in {Operator!AddToSub, Operator!SubToAdd, Operator!DecToInc, Operator!MulToDiv, Operator!DivToMul, Operator!RemToDiv, Operator!RShiftToLShift, Operator!UnaryMinus, Operator!VoidCalls}
        \/ \E x, y : m.patterns = {Operator!Replace(x, y)}
    <3>1. PICK o, f, to, patterns : m = Operator!Mutator(o, f, to, patterns) /\ Mutates(o, f, to, patterns)
      BY <1>13, OtherMutators
    <3>2. m.patterns = patterns
      BY <3>1, KindIs
    <3> QED
      BY <3>1, <3>2 DEF Mutates, Operator!LShiftToRShift, Operator!BitNot, Operator!Negation, Operator!Numbers, Operator!ScalarCalls
  <2> QED
    BY <2>1, <1>3, <1>4, <1>5, <1>6, <1>7, <1>8, <1>9, <1>10, <1>11, <1>12
<1> QED
  BY <1>1, <1>13

\* Some pattern of a mutator matches what the operator is compiled to.
LEMMA HasPattern ==
  ASSUME NEW m \in Operator!Mutators, NEW t \in Operator!Types(m.kind), t \notin {"double", "trapping"},
         NEW i \in Operator!Compiled(m.kind, t), i.opcode # <<"OtherCall">>
  PROVE  \E p \in m.patterns : Operator!CanMutate(m, p, i)
<1>1. CASE m \in Operator!Comparison
  <2>1. PICK r, s \in Relation : IsComparison(m, r, s)
    BY <1>1, ComparisonIs
  <2>2. m.kind = <<Operator!Relations[r], "binary">> /\ m.patterns = Operator!Relational(r, s)
    BY <2>1, KindIs DEF IsComparison
  <2>3. t \in {"int", "unsigned"}
    BY <2>2, RelationsAre DEF Operator!Types, Relation
  <2>4. Operator!Compiled(m.kind, t) = {BinaryInstruction(Operator!Relations[r], t)}
    BY <2>2, CompiledRelation DEF Relation
  <2>5. i.opcode = Operator!BinaryOpcode(Operator!Relations[r], t)
    BY <2>4 DEF BinaryInstruction, Operator!Instruction
  <2>6. PICK q : i.opcode = <<q, r>> /\ q \in IF r \in {"eq", "ne"} THEN {"ICMP"} ELSE {"ICMP_S", "ICMP_U"}
    <3>1. CASE r \in {"lt", "le", "gt", "ge"}
      BY <2>3, <2>5, <3>1, RelationOpcodes DEF RelationOpcode
    <3>2. CASE r \in {"eq", "ne"}
      BY <2>3, <2>5, <3>2, RelationOpcodes, RelationsAre
    <3> QED
      BY <3>1, <3>2 DEF Relation
  <2>7. PICK p : p = [from |-> <<q, r>>, to |-> <<q, s>>]
    OBVIOUS
  <2>8. p \in m.patterns /\ p.from = i.opcode
    BY <2>2, <2>6, <2>7 DEF Operator!Relational
  <2>9. m.kind # <<"-", "unary">>
    BY <2>2, RelationsAre DEF Relation
  <2> QED
    BY <2>8, <2>9 DEF Operator!CanMutate
<1>2. ASSUME NEW x, NEW y, Operator!Replace(x, y) \in m.patterns, i.opcode = <<x>>, m.kind # <<"-", "unary">> \/ i.l = Operator!Constant(0)
      PROVE  \E p \in m.patterns : Operator!CanMutate(m, p, i)
  BY <1>2, ReplaceIs DEF Operator!CanMutate
<1>3. CASE m \in Operator!IncDec
  <2>1. PICK f \in {"pre", "post"}, o \in {"++", "--"} :
          m.kind = <<o, f>> /\ m.patterns = IF o = "++" THEN Operator!AddToSub ELSE Operator!DecToInc
    BY <1>3, KindIs DEF Operator!IncDec
  <2>2. t \in {"int", "unsigned"}
    BY <2>1 DEF Operator!Types
  <2>3. Operator!Compiled(m.kind, t) \in {{StepInstruction(1, t)}, {StepInstruction(-1, t)}}
    BY <2>1, <2>2, CompiledStep
  <2>4. i.opcode = <<"Add">>
    BY <2>2, <2>3, OpcodesAre DEF StepInstruction, Operator!Instruction
  <2>5. Operator!Replace("Add", "Sub") \in m.patterns
    BY <2>1 DEF Operator!AddToSub, Operator!DecToInc
  <2>6. m.kind # <<"-", "unary">>
    BY <2>1
  <2> QED
    BY <1>2, <2>4, <2>5, <2>6
<1>4. ASSUME NEW o \in Operator!Assignable, NEW to, NEW patterns, m \in Operator!Both(o, to, patterns)
      PROVE  t \in {"int", "unsigned"} /\ i.opcode = Operator!BinaryOpcode(o, t) /\ m.kind # <<"-", "unary">> /\ m.patterns = patterns
  <2>1. PICK f \in {"binary", "assign"} : m.kind = <<o, f>>
    BY <1>4, BothAre
  <2>2. t \in {"int", "unsigned"}
    BY <2>1 DEF Operator!Types, Operator!Assignable
  <2>3. Operator!Compiled(<<o, f>>, t) = {BinaryInstruction(o, t)}
    BY CompiledBinary, Zenon
  <2>4. i.opcode = Operator!BinaryOpcode(o, t)
    BY <2>1, <2>3 DEF BinaryInstruction, Operator!Instruction
  <2>5. m.patterns = patterns
    BY <1>4, BothAre
  <2> QED
    BY <2>1, <2>2, <2>4, <2>5
<1>5. CASE m \in Operator!Arithmetic \/ m \in Operator!Bitwise
  <2>1. ASSUME NEW o \in Operator!Assignable, NEW to, NEW patterns, m \in Operator!Both(o, to, patterns),
               \A u \in {"int", "unsigned"} : \E x, y : Operator!Replace(x, y) \in patterns /\ Operator!BinaryOpcode(o, u) = <<x>>
        PROVE  \E p \in m.patterns : Operator!CanMutate(m, p, i)
    BY <1>2, <1>4, <2>1
  <2>2. \A o \in {"+", "-", "*", "/", "%", "<<", ">>", "|", "&", "^"} : o \in Operator!Assignable
    BY DEF Operator!Assignable
  <2>3. CASE m \in Operator!Both("+", "-", Operator!AddToSub)
    BY <2>1, <2>2, <2>3, OpcodesAre DEF Operator!AddToSub
  <2>4. CASE m \in Operator!Both("-", "+", Operator!SubToAdd)
    BY <2>1, <2>2, <2>4, OpcodesAre DEF Operator!SubToAdd
  <2>5. CASE m \in Operator!Both("*", "/", Operator!MulToDiv)
    BY <2>1, <2>2, <2>5, OpcodesAre DEF Operator!MulToDiv
  <2>6. CASE m \in Operator!Both("/", "*", Operator!DivToMul)
    BY <2>1, <2>2, <2>6, OpcodesAre DEF Operator!DivToMul
  <2>7. CASE m \in Operator!Both("%", "/", Operator!RemToDiv)
    BY <2>1, <2>2, <2>7, OpcodesAre DEF Operator!RemToDiv
  <2>8. CASE m \in Operator!Both("<<", ">>", Operator!LShiftToRShift)
    BY <2>1, <2>2, <2>8, OpcodesAre DEF Operator!LShiftToRShift
  <2>9. CASE m \in Operator!Both(">>", "<<", Operator!RShiftToLShift)
    BY <2>1, <2>2, <2>9, OpcodesAre DEF Operator!RShiftToLShift
  <2>10. CASE m \in Operator!Both("|", "&", {Operator!Replace("Or", "And")})
    BY <2>1, <2>2, <2>10, OpcodesAre
  <2>11. CASE m \in Operator!Both("&", "|", {Operator!Replace("And", "Or")})
    BY <2>1, <2>2, <2>11, OpcodesAre
  <2>12. CASE m \in Operator!Both("^", "|", {Operator!Replace("Xor", "Or")})
    BY <2>1, <2>2, <2>12, OpcodesAre
  <2> QED
    BY <1>5, <2>3, <2>4, <2>5, <2>6, <2>7, <2>8, <2>9, <2>10, <2>11, <2>12 DEF Operator!Arithmetic, Operator!Bitwise
<1>6. CASE m = Operator!Mutator("-", "unary", "", Operator!UnaryMinus)
  <2>1. m.kind = <<"-", "unary">> /\ m.patterns = Operator!UnaryMinus
    BY <1>6 DEF Operator!Mutator
  <2>2. t \in {"int", "unsigned"}
    BY <2>1, TypesOfUnary
  <2>3. i = Operator!Instruction(Operator!BinaryOpcode("-", t), Operator!Constant(0), Operator!A)
    BY <2>1, <2>2, CompiledUnary
  <2>4. i.opcode = <<"Sub">> /\ i.l = Operator!Constant(0)
    BY <2>2, <2>3, OpcodesAre DEF Operator!Instruction
  <2>5. Operator!Replace("Sub", "swap operands") \in m.patterns
    BY <2>1 DEF Operator!UnaryMinus
  <2> QED
    BY <1>2, <2>4, <2>5
<1>7. CASE m \in {Operator!Mutator("~", "unary", "", Operator!BitNot), Operator!Mutator("!", "unary", "", Operator!Negation)}
  <2>1. /\ m.kind \in {<<"~", "unary">>, <<"!", "unary">>}
        /\ \E y : Operator!Replace("Xor", y) \in m.patterns
    <3>1. CASE m = Operator!Mutator("~", "unary", "", Operator!BitNot)
      <4>1. m.kind = <<"~", "unary">> /\ m.patterns = Operator!BitNot
        BY <3>1 DEF Operator!Mutator
      <4>2. Operator!Replace("Xor", "And") \in m.patterns
        BY <4>1 DEF Operator!BitNot
      <4> QED
        BY <4>1, <4>2
    <3>2. CASE m = Operator!Mutator("!", "unary", "", Operator!Negation)
      <4>1. m.kind = <<"!", "unary">> /\ m.patterns = Operator!Negation
        BY <3>2 DEF Operator!Mutator
      <4>2. Operator!Replace("Xor", "negate operand") \in m.patterns
        BY <4>1 DEF Operator!Negation
      <4> QED
        BY <4>1, <4>2
    <3> QED
      BY <1>7, <3>1, <3>2
  <2>2. i.opcode = <<"Xor">>
    BY <2>1, CompiledUnary DEF Operator!Instruction
  <2>3. m.kind # <<"-", "unary">>
    BY <2>1
  <2> QED
    BY <1>2, <2>1, <2>2, <2>3
<1>8. CASE m \in Operator!Values
  <2>1. CASE \E f \in {"assign", "init"} : m = Operator!Mutator("=", f, "42", Operator!Numbers)
    <3>1. PICK f \in {"assign", "init"} : m = Operator!Mutator("=", f, "42", Operator!Numbers)
      BY <2>1
    <3>2. m.kind = <<"=", f>> /\ Operator!Replace("Store", "42") \in m.patterns
      BY <3>1, KindIs DEF Operator!Numbers
    <3>3. Operator!Compiled(<<"=", f>>, t) = {Operator!Instruction(<<"Store">>, Operator!B, Operator!B)}
      BY DEF Operator!Compiled
    <3>4. i.opcode = <<"Store">>
      BY <3>2, <3>3 DEF Operator!Instruction
    <3>5. m.kind # <<"-", "unary">>
      BY <3>2
    <3> QED
      BY <1>2, <3>2, <3>4, <3>5
  <2>2. CASE m = Operator!Mutator("f()", "value", "42", Operator!ScalarCalls)
    <3>2. m.kind = <<"f()", "value">> /\ Operator!Replace("Call", "42") \in m.patterns
      BY <2>2, KindIs DEF Operator!ScalarCalls
    <3>3. Operator!Compiled(<<"f()", "value">>, t) = {Operator!Instruction(<<o>>, Operator!A, Operator!A) : o \in {"Call", "OtherCall"}}
      BY DEF Operator!Compiled
    <3>4. i.opcode = <<"Call">>
      BY <3>2, <3>3 DEF Operator!Instruction
    <3>5. m.kind # <<"-", "unary">>
      BY <3>2
    <3> QED
      BY <1>2, <3>2, <3>4, <3>5
  <2>3. CASE m = Operator!Mutator("f()", "statement", "", Operator!VoidCalls)
    <3>2. m.kind = <<"f()", "statement">> /\ m.patterns = Operator!VoidCalls
      BY <2>3 DEF Operator!Mutator
    <3>3. Operator!Compiled(<<"f()", "statement">>, t) =
            {Operator!Instruction(<<o>>, Operator!A, Operator!A) : o \in {"VoidCall", "VoidIntrinsic", "OtherCall"}}
      BY DEF Operator!Compiled
    <3>4. PICK o : i.opcode = <<o>> /\ o \in {"VoidCall", "VoidIntrinsic"}
      BY <3>2, <3>3 DEF Operator!Instruction
    <3>5. m.kind # <<"-", "unary">>
      BY <3>2
    <3>6. Operator!Replace(o, "operand") \in m.patterns
      BY <3>2, <3>4 DEF Operator!VoidCalls
    <3> QED
      BY <1>2, <3>4, <3>5, <3>6
  <2> QED
    BY <1>8, <2>1, <2>2, <2>3 DEF Operator!Values
<1>9. CASE m \in Operator!Noops
  BY <1>6, <1>7, <1>9 DEF Operator!Noops
<1> QED
  BY <1>1, <1>3, <1>5, <1>8, <1>9 DEF Operator!Mutators

LEMMA RelationsFinite == IsFiniteSet(Relation)
<1>1. IsFiniteSet({"lt"})
  BY FS_Singleton, Zenon
<1>2. IsFiniteSet({"lt"} \union {"le"})
  BY <1>1, FS_AddElement, Zenon
<1>3. IsFiniteSet(({"lt"} \union {"le"}) \union {"gt"})
  BY <1>2, FS_AddElement, Zenon
<1>4. IsFiniteSet((({"lt"} \union {"le"}) \union {"gt"}) \union {"ge"})
  BY <1>3, FS_AddElement, Zenon
<1>5. IsFiniteSet(((({"lt"} \union {"le"}) \union {"gt"}) \union {"ge"}) \union {"eq"})
  BY <1>4, FS_AddElement, Zenon
<1>6. IsFiniteSet((((({"lt"} \union {"le"}) \union {"gt"}) \union {"ge"}) \union {"eq"}) \union {"ne"})
  BY <1>5, FS_AddElement, Zenon
<1>7. Relation = ((((({"lt"} \union {"le"}) \union {"gt"}) \union {"ge"}) \union {"eq"}) \union {"ne"})
  BY DEF Relation
<1> QED
  BY <1>6, <1>7

OwnMutators(c) == {m \in Operator!Mutators : m.kind = c}

\* An operator has finitely many mutators.
LEMMA OwnFinite ==
  ASSUME NEW c
  PROVE  IsFiniteSet(OwnMutators(c))
<1> DEFINE R == Relation \X Relation
           f == [x \in R |-> Operator!Mutator(Operator!Relations[x[1]], "binary", Operator!Relations[x[2]],
                                              Operator!Relational(x[1], x[2]))]
           T == {f[x] : x \in R}
<1>1. IsFiniteSet(R)
  BY RelationsFinite, FS_Product, Zenon
<1>2. f \in Surjection(R, T)
  BY Zenon DEF Surjection
<1>3. IsFiniteSet(T)
  BY <1>1, <1>2, FS_Surjection, Zenon
<1>4. ASSUME NEW m, NEW r \in Relation, NEW s \in Relation, IsComparison(m, r, s)
      PROVE  m \in T
  <2>1. <<r, s>> \in R /\ f[<<r, s>>] = m
    BY <1>4 DEF IsComparison
  <2> QED
    BY <2>1
<1> HIDE DEF T
<1>5. CASE OwnMutators(c) = {}
  BY <1>5, FS_EmptySet
<1>6. ASSUME NEW m \in OwnMutators(c)
      PROVE  IsFiniteSet(OwnMutators(c))
  <2>1. IsFiniteSet(T \union {m})
    BY <1>3, FS_AddElement, Zenon
  <2>2. OwnMutators(c) \subseteq T \union {m}
    <3>1. SUFFICES ASSUME NEW n \in OwnMutators(c), n # m PROVE n \in T
      OBVIOUS
    <3>2. m \in Operator!Mutators /\ n \in Operator!Mutators /\ n.kind = m.kind
      BY DEF OwnMutators
    <3> QED
      BY <1>4, <3>1, <3>2, SameKind
  <2> QED
    BY <2>1, <2>2, FS_Subset, Zenon
<1> QED
  BY <1>5, <1>6

LEMMA OperatorCardinality == \A S : Operator!Cardinality(S) = Cardinality(S)
  BY Zenon DEF Operator!Cardinality, Cardinality

LEMMA FoundOnce == OperatorInv => OneMutationPerMutator
<1> SUFFICES ASSUME OperatorInv, operatorStage = "compiled" PROVE OneMutationPerMutator
  BY DEF OneMutationPerMutator, Operator!OneMutationPerMutator
<1> DEFINE own == OwnMutators(construct)
           pairs == UNION {{<<m, p>> : p \in m.patterns} : m \in own}
           kept == {mp \in pairs : Operator!CanMutate(mp[1], mp[2], instruction)}
           made == {Operator!Mutate(mp[2], instruction, type) : mp \in kept}
<1>1. construct \in Operator!Constructs /\ type \in Operator!Types(construct) /\ instruction \in Operator!Compiled(construct, type)
  BY DEF OperatorInv, IsCompiled
<1>2. ASSUME NEW x \in kept
      PROVE  /\ x[1] \in own /\ x[1] \in Operator!Mutators /\ x[1].kind = construct
             /\ x[2] \in x[1].patterns /\ x[2].from = instruction.opcode /\ x = <<x[1], x[2]>>
  BY DEF OwnMutators, Operator!CanMutate
<1>3. ASSUME NEW x \in kept, NEW y \in kept, x[1] = y[1]
      PROVE  x = y
  <2>1. x[2] = y[2]
    BY <1>2, <1>3, PatternsDiffer
  <2> QED
    BY <1>2, <1>3, <2>1
<1>4. IsFiniteSet(kept) /\ Cardinality(kept) <= Cardinality(own)
  <2> DEFINE g == [x \in kept |-> x[1]]
  <2>1. g \in Injection(kept, own)
    BY <1>2, <1>3 DEF Injection, IsInjective
  <2> QED
    BY <2>1, OwnFinite, FS_Injection
<1>5. ASSUME NEW x \in kept, NEW y \in kept, x # y
      PROVE  Operator!Mutate(x[2], instruction, type) # Operator!Mutate(y[2], instruction, type)
  <2>1. PICK r, s, u \in Relation : s # u /\ IsComparison(x[1], r, s) /\ IsComparison(y[1], r, u)
    BY <1>2, <1>3, <1>5, SameKind
  <2>2. construct = <<Operator!Relations[r], "binary">>
    BY <1>2, <2>1, KindIs DEF IsComparison
  <2>3. x[1].patterns = Operator!Relational(r, s) /\ y[1].patterns = Operator!Relational(r, u)
    BY <2>1, KindIs DEF IsComparison
  <2>4. PICK q : x[2].to = <<q, s>>
    BY <1>2, <2>3 DEF Operator!Relational
  <2>5. PICK v : y[2].to = <<v, u>>
    BY <1>2, <2>3 DEF Operator!Relational
  <2>6. PICK i : i = instruction /\ i = BinaryInstruction(Operator!Relations[r], type)
    BY <1>1, <2>2, CompiledRelation DEF Relation
  <2>7. ASSUME NEW p, NEW a, NEW b, p.to = <<a, b>>
        PROVE  Operator!Mutate(p, i, type).opcode = <<a, b>>
    BY <2>6, <2>7 DEF Operator!Mutate, BinaryInstruction, Operator!Instruction
  <2>8. <<q, s>> # <<v, u>>
    BY <2>1
  <2> QED
    BY <2>4, <2>5, <2>6, <2>7, <2>8
<1>6. Cardinality(made) = Cardinality(kept)
  <2> DEFINE f == [x \in kept |-> Operator!Mutate(x[2], instruction, type)]
  <2>1. f \in Bijection(kept, made)
    BY <1>5, Zenon DEF Bijection, Injection, IsInjective, Surjection
  <2> QED
    BY <1>4, <2>1, FS_Bijection, Zenon DEF ExistsBijection
<1>7. ASSUME type \notin {"double", "trapping"}, instruction.opcode # <<"OtherCall">>
      PROVE  {mp[1] : mp \in kept} = own
  <2>1. ASSUME NEW m \in own
        PROVE  m \in {mp[1] : mp \in kept}
    <3>1. m \in Operator!Mutators /\ m.kind = construct
      BY DEF OwnMutators
    <3>2. PICK p \in m.patterns : Operator!CanMutate(m, p, instruction)
      BY <1>1, <1>7, <3>1, HasPattern
    <3>3. <<m, p>> \in kept /\ <<m, p>>[1] = m
      BY <3>2
    <3> QED
      BY <3>3
  <2> QED
    BY <1>2, <2>1
<1> QED
  BY <1>4, <1>6, <1>7, OperatorCardinality DEF OneMutationPerMutator, Operator!OneMutationPerMutator, OwnMutators

\* Of the mutators for one operator with one replacement at most one finds an instruction,
\* and it finds it once.
THEOREM MutatorsCorrect == Spec => []OneMutationPerMutator
<1>1. Init => OperatorInv
  BY InitOperatorInv
<1>2. OperatorInv /\ [Next]_vars => OperatorInv'
  BY NextOperatorInv
<1>3. OperatorInv => OneMutationPerMutator
  BY FoundOnce
<1> QED
  BY <1>1, <1>2, <1>3, PTL DEF Spec

===============================================================================
