------------------------- MODULE TaskExecutorProofs -------------------------
(***************************************************************************)
(* Theorems about TaskExecutor, for every size of the input, every number  *)
(* of tasks and every number of results per item.                          *)
(***************************************************************************)
EXTENDS TaskExecutor, NaturalsInduction, WellFoundedInduction, TLAPS

USE DEF Items, Workers

-----------------------------------------------------------------------------
(* Slices *)

\* the first item of worker k's slice, in closed form
Offset(c, w, k) == k * (c \div w) + Smaller(k, c % w)

\* Division with remainder, as the provers need it.
LEMMA DivMod ==
  ASSUME NEW a \in Nat, NEW b \in Nat \ {0}
  PROVE  \E q \in Nat : \E r \in 0 .. b - 1 : a \div b = q /\ a % b = r /\ a = b * q + r
  BY Z3
\* The size taskBatches computes for worker k: the quotient, and one more item
\* for the first c % w workers.
LEMMA BatchValue ==
  ASSUME NEW c \in Nat, NEW w \in Nat \ {0}, NEW k \in 0 .. w - 1,
         NEW q \in Nat, NEW r \in 0 .. w - 1, c = w * q + r
  PROVE  Batch(c, w, k) = q + (IF k < r THEN 1 ELSE 0)
<1> DEFINE a == c - k
<1>1. a \in Int
  BY Z3
<1>2. CASE k < r
  <2>1. PICK t \in 1 .. w - 1 : t = r - k /\ a = w * q + t
    BY <1>2, Z3
  <2>2. a \div w = q /\ a % w = t
    <3> HIDE DEF a
    <3> QED BY <1>1, <2>1, Z3
  <2> QED
    BY <1>2, <2>1, <2>2 DEF Batch
<1>3. CASE k = r
  <2>1. a = w * q + 0
    BY <1>3, Z3
  <2>2. a \div w = q /\ a % w = 0
    <3> HIDE DEF a
    <3> QED BY <1>1, <2>1, Z3
  <2> QED
    BY <1>3, <2>2 DEF Batch
<1>4. CASE r < k
  <2>1. PICK p \in Int, t \in 1 .. w - 1 : p = q - 1 /\ t = w + r - k /\ a = w * p + t
    BY <1>4, Z3
  <2>2. a \div w = p /\ a % w = t
    <3> HIDE DEF a
    <3> QED BY <1>1, <2>1, Z3
  <2> QED
    BY <1>4, <2>1, <2>2 DEF Batch
<1> QED
  BY <1>2, <1>3, <1>4

\* Offset is where the spawning loop puts the slices: it starts at 0, grows by
\* the batch of each worker, which is never empty, and ends at the end of the
\* input -- the assert that closes taskBatches.
LEMMA OffsetFacts ==
  ASSUME NEW c \in Nat, NEW w \in 1 .. c
  PROVE  /\ Offset(c, w, 0) = 0
         /\ Offset(c, w, w) = c
         /\ \A k \in 0 .. w : Offset(c, w, k) \in 0 .. c
         /\ \A k \in 0 .. w - 1 : /\ Offset(c, w, k + 1) = Offset(c, w, k) + Batch(c, w, k)
                                  /\ Batch(c, w, k) >= 1
<1>1. PICK q \in Nat : \E r \in 0 .. w - 1 : c \div w = q /\ c % w = r /\ c = w * q + r
  BY DivMod
<1>2. PICK r \in 0 .. w - 1 : c \div w = q /\ c % w = r /\ c = w * q + r
  BY <1>1
<1>3. \A k : Offset(c, w, k) = k * q + Smaller(k, r)
  BY <1>2 DEF Offset
<1>4. q >= 1
  BY <1>2, Z3
<1>5. \A k \in 0 .. w : k * q >= 0 /\ k * q <= w * q /\ (k + 1) * q = k * q + q /\ k * q \in Int
  BY Z3
<1>6. w * q = c - r
  BY <1>2, Z3
<1>7. Offset(c, w, 0) = 0 /\ Offset(c, w, w) = c
  BY <1>3, <1>5, <1>6 DEF Smaller
<1>8. ASSUME NEW k \in 0 .. w PROVE Offset(c, w, k) \in 0 .. c
  BY <1>3, <1>5, <1>6 DEF Smaller
<1>9. ASSUME NEW k \in 0 .. w - 1
      PROVE  Offset(c, w, k + 1) = Offset(c, w, k) + Batch(c, w, k) /\ Batch(c, w, k) >= 1
  <2>1. Batch(c, w, k) = q + (IF k < r THEN 1 ELSE 0)
    BY <1>2, w \in Nat \ {0}, BatchValue
  <2>2. (k + 1) * q = k * q + q /\ k * q \in Int
    BY <1>5
  <2> QED
    BY <1>3, <1>4, <2>1, <2>2 DEF Smaller
<1> QED
  BY <1>7, <1>8, <1>9

-----------------------------------------------------------------------------
(* Result sequences *)

\* the result <<x, k>> belongs to the items a .. b - 1, or to the first p
\* results of item b
Due(x, k, a, b, p) == x \in a .. b /\ k \in 1 .. (IF x < b THEN Emits[x] ELSE p)

InOrder(s) == \A i, j \in DOMAIN s : i < j => Before(s[i], s[j])

\* s holds exactly these results, in order
Exact(s, a, b, p) ==
  /\ s \in Seq(Results)
  /\ InOrder(s)
  /\ \A i \in DOMAIN s : Due(s[i][1], s[i][2], a, b, p)
  /\ \A x \in a .. b : \A k \in 1 .. (IF x < b THEN Emits[x] ELSE p) :
       \E i \in DOMAIN s : s[i] = <<x, k>>

\* Pushing the next result of item b.
LEMMA ExactAppend ==
  ASSUME NEW s, NEW a \in Nat, NEW b \in Items, NEW p \in Nat,
         Exact(s, a, b, p), a <= b, p < Emits[b]
  PROVE  Exact(Append(s, <<b, p + 1>>), a, b, p + 1)
<1> DEFINE r == <<b, p + 1>>
           t == Append(s, r)
<1>1. r \in Results /\ s \in Seq(Results)
  BY EmitsAssumption, MaxItemsAssumption DEF Results, Exact
<1>2. /\ t \in Seq(Results) /\ DOMAIN s = 1 .. Len(s) /\ DOMAIN t = 1 .. Len(s) + 1
      /\ Len(s) \in Nat
      /\ \A i \in 1 .. Len(s) : t[i] = s[i]
      /\ t[Len(s) + 1] = r
  BY <1>1
<1>3. \A i \in 1 .. Len(s) : s[i][1] \in a .. b /\ s[i][2] \in 1 .. (IF s[i][1] < b THEN Emits[s[i][1]] ELSE p)
  BY <1>2 DEF Exact, Due
<1> HIDE DEF t
<1>4. ASSUME NEW i \in DOMAIN t, NEW j \in DOMAIN t, i < j
      PROVE  Before(t[i], t[j])
  <2>1. CASE j <= Len(s)
    <3>1. i \in DOMAIN s /\ j \in DOMAIN s /\ t[i] = s[i] /\ t[j] = s[j]
      BY <1>2, <1>4, <2>1
    <3> QED BY <1>4, <3>1 DEF Exact, InOrder
  <2>2. CASE j > Len(s)
    <3>1. i \in 1 .. Len(s) /\ t[i] = s[i] /\ t[j] = r
      BY <1>2, <1>4, <2>2
    <3> QED BY <1>3, <3>1 DEF Before, Due
  <2> QED
    BY <1>2, <2>1, <2>2
<1>5. \A i \in DOMAIN t : Due(t[i][1], t[i][2], a, b, p + 1)
  BY <1>2, <1>3 DEF Due
<1>6. ASSUME NEW x \in a .. b, NEW k \in 1 .. (IF x < b THEN Emits[x] ELSE p + 1)
      PROVE  \E i \in DOMAIN t : t[i] = <<x, k>>
  <2>1. CASE x < b \/ k < p + 1
    <3>1. k \in 1 .. (IF x < b THEN Emits[x] ELSE p)
      BY <2>1
    <3>2. PICK i \in DOMAIN s : s[i] = <<x, k>>
      BY <3>1 DEF Exact
    <3> QED BY <1>2, <3>2
  <2>2. CASE x = b /\ k = p + 1
    BY <1>2, <2>2
  <2> QED
    BY <2>1, <2>2
<1> QED
  BY <1>2, <1>4, <1>5, <1>6 DEF Exact, InOrder, t

\* Going on to the next item when everything item b gave was pushed.
LEMMA ExactAdvance ==
  ASSUME NEW s, NEW a \in Nat, NEW b \in Nat, a <= b, Exact(s, a, b, Emits[b])
  PROVE  Exact(s, a, b + 1, 0)
<1>1. \A i \in DOMAIN s : Due(s[i][1], s[i][2], a, b + 1, 0)
  BY DEF Exact, Due
<1>2. ASSUME NEW x \in a .. b + 1, NEW k \in 1 .. (IF x < b + 1 THEN Emits[x] ELSE 0)
      PROVE  \E i \in DOMAIN s : s[i] = <<x, k>>
  <2>1. x \in a .. b /\ k \in 1 .. (IF x < b THEN Emits[x] ELSE Emits[b])
    BY <1>2
  <2> QED
    BY <2>1 DEF Exact
<1> QED
  BY <1>1, <1>2 DEF Exact

\* Moving the results of the following slice behind those of the slices before.
LEMMA ExactConcat ==
  ASSUME NEW s, NEW t, NEW a \in Nat, NEW b \in Nat, NEW c \in Nat, a <= b, b <= c,
         Exact(s, a, b, 0), Exact(t, b, c, 0)
  PROVE  Exact(s \o t, a, c, 0)
<1> DEFINE u == s \o t
<1>1. /\ u \in Seq(Results) /\ DOMAIN s = 1 .. Len(s) /\ DOMAIN t = 1 .. Len(t)
      /\ DOMAIN u = 1 .. Len(s) + Len(t)
      /\ Len(s) \in Nat /\ Len(t) \in Nat
      /\ \A i \in 1 .. Len(s) : u[i] = s[i]
      /\ \A i \in 1 .. Len(t) : u[Len(s) + i] = t[i]
      /\ \A i \in Len(s) + 1 .. Len(s) + Len(t) : u[i] = t[i - Len(s)]
  BY DEF Exact
<1>2. \A i \in 1 .. Len(s) : s[i][1] \in a .. b - 1 /\ s[i][2] \in 1 .. Emits[s[i][1]]
  BY <1>1 DEF Exact, Due
<1>3. \A i \in 1 .. Len(t) : t[i][1] \in b .. c - 1 /\ t[i][2] \in 1 .. Emits[t[i][1]]
  BY <1>1 DEF Exact, Due
<1> HIDE DEF u
<1>4. ASSUME NEW i \in DOMAIN u, NEW j \in DOMAIN u, i < j
      PROVE  Before(u[i], u[j])
  <2>1. CASE j <= Len(s)
    <3>1. i \in DOMAIN s /\ j \in DOMAIN s /\ u[i] = s[i] /\ u[j] = s[j]
      BY <1>1, <1>4, <2>1
    <3> QED BY <1>4, <3>1 DEF Exact, InOrder
  <2>2. CASE i > Len(s)
    <3>1. i - Len(s) \in DOMAIN t /\ j - Len(s) \in DOMAIN t /\ i - Len(s) < j - Len(s)
      BY <1>1, <1>4, <2>2
    <3>2. Before(t[i - Len(s)], t[j - Len(s)])
      BY <3>1 DEF Exact, InOrder
    <3> QED
      BY <1>1, <1>4, <2>2, <3>2
  <2>3. CASE i <= Len(s) /\ j > Len(s)
    <3>1. u[i][1] \in a .. b - 1
      BY <1>1, <1>2, <2>3
    <3>2. u[j][1] \in b .. c - 1
      <4>1. j - Len(s) \in 1 .. Len(t) /\ u[j] = t[j - Len(s)]
        BY <1>1, <2>3
      <4> QED BY <1>3, <4>1
    <3> QED
      BY <3>1, <3>2 DEF Before
  <2> QED
    BY <1>1, <2>1, <2>2, <2>3
<1>5. ASSUME NEW i \in DOMAIN u PROVE Due(u[i][1], u[i][2], a, c, 0)
  <2>1. CASE i <= Len(s)
    BY <1>1, <1>2, <2>1 DEF Due
  <2>2. CASE i > Len(s)
    <3>1. i - Len(s) \in 1 .. Len(t) /\ u[i] = t[i - Len(s)]
      BY <1>1, <2>2
    <3> QED BY <1>3, <3>1 DEF Due
  <2> QED
    BY <1>1, <2>1, <2>2
<1>6. ASSUME NEW x \in a .. c, NEW k \in 1 .. (IF x < c THEN Emits[x] ELSE 0)
      PROVE  \E i \in DOMAIN u : u[i] = <<x, k>>
  <2>1. x < c /\ k \in 1 .. Emits[x]
    BY <1>6
  <2>2. CASE x < b
    <3>1. PICK i \in DOMAIN s : s[i] = <<x, k>>
      BY <2>1, <2>2 DEF Exact
    <3> QED BY <1>1, <3>1
  <2>3. CASE x >= b
    <3>1. PICK i \in DOMAIN t : t[i] = <<x, k>>
      BY <2>1, <2>3 DEF Exact
    <3>2. Len(s) + i \in DOMAIN u /\ u[Len(s) + i] = <<x, k>>
      BY <1>1, <3>1
    <3> QED BY <3>2
  <2> QED
    BY <2>2, <2>3
<1> QED
  BY <1>1, <1>4, <1>5, <1>6 DEF Exact, InOrder, u

\* Nothing is due of an empty slice.
LEMMA ExactEmpty ==
  ASSUME NEW a \in Nat
  PROVE  Exact(<<>>, a, a, 0)
  BY DEF Exact, InOrder, Due

-----------------------------------------------------------------------------
(* The inductive invariant *)

Off(k) == Offset(n, workers, k)

ControlInv ==
  /\ pc = "enter" => workers = 0 /\ spawned = 0 /\ scan = "off"
  /\ pc \in {"spawn", "join", "merge", "sequential"} => workers \in 1 .. n /\ m # 0
  /\ pc = "spawn" => scan = "off" /\ reserved = workers
  /\ pc \in {"join", "merge", "sequential"} => scan # "off"
  /\ pc = "sequential" => workers = 1
  /\ pc = "merge" => scan = "done"
  /\ workers \in 0 .. n
  /\ stale = {}
  /\ scan = "off" => idx = 0 /\ sum = 0 /\ shown = 0
  /\ scan # "off" => workers \in 1 .. n /\ spawned = workers

SliceInv ==
  /\ workers = 0 => end = 0
  /\ workers > 0 => end = Off(spawned)
  /\ \A w \in 0 .. spawned - 1 : first[w] = Off(w) /\ last[w] = Off(w + 1)

WorkInv ==
  /\ \A w \in Workers : w >= spawned =>
       first[w] = 0 /\ it[w] = 0 /\ pushed[w] = 0 /\ counter[w] = 0 /\ storage[w] = <<>>
  /\ \A w \in 0 .. spawned - 1 :
       /\ it[w] \in first[w] .. last[w]
       /\ counter[w] = it[w] - first[w]
       /\ it[w] < last[w] => pushed[w] <= Emits[it[w]]
       /\ it[w] = last[w] => pushed[w] = 0

\* the reporter's partial sum never exceeds the items of the slices it has
\* passed, and reaches it only when all those slices are done
ReporterInv ==
  /\ scan # "off" =>
       /\ sum <= Off(idx)
       /\ sum = Off(idx) => \A w \in 0 .. idx - 1 : Finished(w)
  /\ scan = "done" \/ (shown = n /\ workers > 0) =>
       \A w \in 0 .. workers - 1 : Finished(w)

OutputInv ==
  /\ pc \in {"spawn", "join", "merge"} =>
       \A w \in 0 .. spawned - 1 : Exact(storage[w], first[w], it[w], pushed[w])
  /\ pc = "sequential" => Exact(out, 0, it[0], pushed[0])
  /\ pc \in {"enter", "spawn", "join"} => out = <<>> /\ merged = 0
  /\ pc = "merge" => Exact(out, 0, Off(merged), 0)
  /\ pc = "returned" /\ m # 0 => Exact(out, 0, n, 0)
  /\ InOrder(out)

IInv == TypeOK /\ ControlInv /\ SliceInv /\ WorkInv /\ ReporterInv /\ OutputInv

-----------------------------------------------------------------------------
LEMMA OffFacts ==
  ASSUME TypeOK, workers \in 1 .. n
  PROVE  /\ Off(0) = 0 /\ Off(workers) = n
         /\ \A k \in 0 .. workers : Off(k) \in 0 .. n
         /\ \A k \in 0 .. workers - 1 : /\ Off(k + 1) = Off(k) + Batch(n, workers, k)
                                        /\ Batch(n, workers, k) >= 1
                                        /\ Off(k) < Off(k + 1)
<1>1. n \in Nat
  BY MaxItemsAssumption DEF TypeOK
<1>2. \A k \in 0 .. workers : Off(k) \in 0 .. n
  BY <1>1, OffsetFacts DEF Off
<1>3. ASSUME NEW k \in 0 .. workers - 1
      PROVE  /\ Off(k + 1) = Off(k) + Batch(n, workers, k)
             /\ Batch(n, workers, k) >= 1
             /\ Off(k) < Off(k + 1)
  <2>1. Off(k + 1) = Off(k) + Batch(n, workers, k) /\ Batch(n, workers, k) >= 1
    BY <1>1, OffsetFacts DEF Off
  <2>2. Off(k) \in Int /\ Off(k + 1) \in Int
    BY <1>1, <1>2
  <2>3. Batch(n, workers, k) \in Int
    BY <1>1 DEF Batch
  <2> QED
    BY <2>1, <2>2, <2>3
<1> QED
  BY <1>1, <1>2, <1>3, OffsetFacts DEF Off

LEMMA InitIInv == Init => IInv
<1> SUFFICES ASSUME Init PROVE IInv
  OBVIOUS
<1> USE MaxItemsAssumption, MaxTasksAssumption DEF Init
<1>1. TypeOK
  BY DEF TypeOK
<1>2. ControlInv /\ SliceInv /\ WorkInv /\ ReporterInv
  BY DEF ControlInv, SliceInv, WorkInv, ReporterInv
<1>3. OutputInv
  BY DEF OutputInv, InOrder
<1> QED
  BY <1>1, <1>2, <1>3 DEF IInv

\* The helpers of the step proofs: what Off is while the input and the number
\* of workers stay the same.
LEMMA OffStable ==
  ASSUME n' = n, workers' = workers
  PROVE  \A k : Off(k)' = Off(k)
  BY DEF Off

LEMMA ReturnEarlyStep == IInv /\ ReturnEarly => IInv'
<1> SUFFICES ASSUME IInv, ReturnEarly PROVE IInv'
  OBVIOUS
<1> USE DEF IInv, ReturnEarly, inputs, slices, work, reporter
<1>1. TypeOK'
  BY DEF TypeOK
<1>2. ControlInv' /\ SliceInv' /\ WorkInv'
  BY OffStable DEF TypeOK, ControlInv, SliceInv, WorkInv
<1>3. ReporterInv'
  BY DEF TypeOK, ControlInv, ReporterInv
<1>4. OutputInv'
  <2>1. n = 0 \/ m = 0
    OBVIOUS
  <2>2. out' = <<>> /\ InOrder(out')
    BY DEF OutputInv
  <2>3. Exact(<<>>, 0, 0, 0)
    BY ExactEmpty
  <2> QED
    BY <2>1, <2>2, <2>3 DEF OutputInv
<1> QED
  BY <1>1, <1>2, <1>3, <1>4

LEMMA StartSequentialStep == IInv /\ StartSequential => IInv'
<1> SUFFICES ASSUME IInv, StartSequential PROVE IInv'
  OBVIOUS
<1> USE MaxItemsAssumption, MaxTasksAssumption
<1>1. /\ n \in 1 .. MaxItems /\ m \in 1 .. MaxTasks /\ 0 \in Workers
      /\ workers = 0 /\ spawned = 0 /\ scan = "off" /\ idx = 0 /\ sum = 0 /\ shown = 0
      /\ stale = {} /\ merged = 0 /\ out = <<>>
  BY DEF IInv, StartSequential, TypeOK, ControlInv, OutputInv
<1>2. /\ pc' = "sequential" /\ workers' = 1 /\ spawned' = 1 /\ end' = n /\ scan' = "scanning"
      /\ last' = [last EXCEPT ![0] = n]
      /\ UNCHANGED <<n, m, reserved, first, stale, it, pushed, counter, storage,
                     idx, sum, shown, merged, out>>
  BY DEF StartSequential, inputs, work
<1>3. last \in [Workers -> 0 .. n]
  BY DEF IInv, TypeOK
<1>4. last' \in [Workers -> 0 .. n] /\ last'[0] = n
  BY <1>1, <1>2, <1>3
<1>5. TypeOK'
  <2>1. /\ first' \in [Workers -> 0 .. n] /\ it' \in [Workers -> 0 .. n]
        /\ pushed' \in [Workers -> Nat] /\ counter' \in [Workers -> 0 .. n]
        /\ storage' \in [Workers -> Seq(Results)] /\ out' \in Seq(Results)
        /\ reserved' \in 0 .. MaxTasks
    BY <1>2 DEF IInv, TypeOK
  <2>2. /\ n' \in 0 .. MaxItems /\ m' \in 0 .. MaxTasks /\ workers' \in 0 .. MaxTasks
        /\ spawned' \in 0 .. workers' /\ end' \in 0 .. n' /\ idx' \in 0 .. workers'
        /\ sum' \in 0 .. n' /\ shown' \in 0 .. n' /\ merged' \in 0 .. workers'
    BY <1>1, <1>2
  <2>3. stale' \in SUBSET Workers /\ n' = n
    BY <1>1, <1>2
  <2> QED
    BY <1>2, <1>4, <2>1, <2>2, <2>3 DEF TypeOK
<1>6. ControlInv'
  BY <1>1, <1>2 DEF ControlInv
<1>7. Off(0)' = 0 /\ Off(1)' = n
  BY <1>1, <1>2, OffsetFacts DEF Off
<1>8. first'[0] = 0 /\ it'[0] = 0 /\ pushed'[0] = 0 /\ counter'[0] = 0
  BY <1>1, <1>2 DEF IInv, WorkInv
<1>9. SliceInv'
  BY <1>1, <1>2, <1>4, <1>7, <1>8 DEF SliceInv
<1>10. WorkInv'
  <2>1. 0 <= Emits[0]
    BY <1>1, EmitsAssumption
  <2>2. \A w \in Workers : w >= 1 =>
          first'[w] = 0 /\ it'[w] = 0 /\ pushed'[w] = 0 /\ counter'[w] = 0 /\ storage'[w] = <<>>
    BY <1>1, <1>2 DEF IInv, WorkInv
  <2> QED
    BY <1>1, <1>2, <1>4, <1>8, <2>1, <2>2 DEF WorkInv
<1>11. ReporterInv'
  BY <1>1, <1>2, <1>7 DEF ReporterInv
<1>12. OutputInv'
  <2>1. Exact(<<>>, 0, 0, 0)
    BY ExactEmpty
  <2>2. InOrder(out')
    BY <1>2 DEF IInv, OutputInv
  <2> QED
    BY <1>1, <1>2, <1>8, <2>1, <2>2 DEF OutputInv
<1> QED
  BY <1>5, <1>6, <1>9, <1>10, <1>11, <1>12 DEF IInv

LEMMA StartParallelStep == IInv /\ StartParallel => IInv'
<1> SUFFICES ASSUME IInv, StartParallel PROVE IInv'
  OBVIOUS
<1> USE MaxItemsAssumption, MaxTasksAssumption
    DEF IInv, StartParallel, inputs, work, reporter
<1>1. n \in 2 .. MaxItems /\ m \in 2 .. MaxTasks /\ workers' \in 2 .. n /\ workers' \in 2 .. m
  BY DEF TypeOK, Smaller
<1>2. TypeOK'
  BY <1>1 DEF TypeOK, ControlInv
<1>3. ControlInv'
  BY <1>1 DEF TypeOK, ControlInv
<1>4. Off(0)' = 0
  BY <1>1, OffsetFacts DEF Off
<1>5. SliceInv' /\ WorkInv'
  BY <1>1, <1>4 DEF TypeOK, ControlInv, SliceInv, WorkInv
<1>6. ReporterInv'
  BY <1>1 DEF TypeOK, ControlInv, ReporterInv
<1>7. OutputInv'
  BY DEF ControlInv, OutputInv
<1> QED
  BY <1>2, <1>3, <1>5, <1>6, <1>7

LEMMA SpawnWorkerStep == IInv /\ SpawnWorker => IInv'
<1> SUFFICES ASSUME IInv, SpawnWorker PROVE IInv'
  OBVIOUS
<1> USE MaxItemsAssumption, MaxTasksAssumption
    DEF IInv
<1>1. /\ n \in Nat /\ workers \in 1 .. n /\ spawned \in 0 .. workers - 1
      /\ spawned \in Workers /\ reserved = workers /\ stale = {} /\ pc = "spawn"
      /\ scan = "off"
  BY DEF SpawnWorker, TypeOK, ControlInv
<1>2. /\ end = Off(spawned) /\ end' = Off(spawned + 1)
      /\ end \in 0 .. n /\ end' \in 0 .. n /\ end < end'
  <2>1. end = Off(spawned) /\ end' = end + Batch(n, workers, spawned)
    BY <1>1 DEF SpawnWorker, SliceInv
  <2>2. TypeOK /\ spawned \in 0 .. workers /\ spawned + 1 \in 0 .. workers
    BY <1>1
  <2> QED
    BY <1>1, <2>1, <2>2, OffFacts
<1>3. /\ first' = [first EXCEPT ![spawned] = end]
      /\ last' = [last EXCEPT ![spawned] = end']
      /\ it' = [it EXCEPT ![spawned] = end]
      /\ spawned' = spawned + 1
      /\ UNCHANGED <<n, m, pc, workers, pushed, counter, storage, scan, idx, sum, shown, merged, out>>
      /\ reserved' = reserved /\ stale' = stale
  BY <1>1 DEF SpawnWorker, inputs, reporter
<1>4. \A k : Off(k)' = Off(k)
  BY <1>3, OffStable
<1>5. TypeOK'
  <2>1. first' \in [Workers -> 0 .. n] /\ last' \in [Workers -> 0 .. n] /\ it' \in [Workers -> 0 .. n]
    BY <1>1, <1>2, <1>3 DEF TypeOK
  <2>2. /\ spawned' \in 0 .. workers /\ pushed' \in [Workers -> Nat]
        /\ counter' \in [Workers -> 0 .. n] /\ storage' \in [Workers -> Seq(Results)]
        /\ out' \in Seq(Results)
    BY <1>1, <1>3 DEF TypeOK
  <2> QED
    BY <1>1, <1>2, <1>3, <2>1, <2>2 DEF TypeOK
<1>6. ControlInv'
  BY <1>1, <1>3 DEF TypeOK, ControlInv
<1>7. /\ first'[spawned] = end /\ last'[spawned] = end' /\ it'[spawned] = end
      /\ \A w \in Workers \ {spawned} : first'[w] = first[w] /\ last'[w] = last[w] /\ it'[w] = it[w]
  BY <1>1, <1>3 DEF TypeOK
<1>8. SliceInv'
  <2>1. ASSUME NEW w \in 0 .. spawned PROVE first'[w] = Off(w) /\ last'[w] = Off(w + 1)
    <3>1. CASE w = spawned
      BY <1>2, <1>7, <3>1
    <3>2. CASE w # spawned
      <4>1. w \in 0 .. spawned - 1 /\ w \in Workers \ {spawned}
        BY <1>1, <3>2
      <4> QED BY <1>7, <4>1 DEF SliceInv
    <3> QED BY <3>1, <3>2
  <2> QED
    BY <1>1, <1>2, <1>4, <1>3, <2>1 DEF SliceInv
<1>9. WorkInv'
  <2>1. ASSUME NEW w \in Workers, w >= spawned + 1
        PROVE  first'[w] = 0 /\ it'[w] = 0 /\ pushed'[w] = 0 /\ counter'[w] = 0 /\ storage'[w] = <<>>
    BY <1>1, <1>3, <1>7, <2>1 DEF WorkInv
  <2>2. ASSUME NEW w \in 0 .. spawned
        PROVE  /\ it'[w] \in first'[w] .. last'[w]
               /\ counter'[w] = it'[w] - first'[w]
               /\ it'[w] < last'[w] => pushed'[w] <= Emits[it'[w]]
               /\ it'[w] = last'[w] => pushed'[w] = 0
    <3>1. CASE w = spawned
      <4>1. 0 <= Emits[end]
        BY <1>1, <1>2, EmitsAssumption DEF TypeOK
      <4> QED BY <1>1, <1>2, <1>3, <1>7, <3>1, <4>1 DEF WorkInv
    <3>2. CASE w # spawned
      <4>1. w \in 0 .. spawned - 1 /\ w \in Workers \ {spawned}
        BY <1>1, <3>2
      <4>2. pushed'[w] = pushed[w] /\ counter'[w] = counter[w]
        BY <1>3
      <4> QED BY <1>7, <4>1, <4>2 DEF WorkInv
    <3> QED BY <3>1, <3>2
  <2> QED
    BY <1>1, <1>3, <2>1, <2>2 DEF WorkInv
<1>10. ReporterInv'
  BY <1>1, <1>3 DEF TypeOK, ControlInv, ReporterInv
<1>11. OutputInv'
  <2>1. Exact(<<>>, end, end, 0)
    BY <1>2, ExactEmpty
  <2>2. ASSUME NEW w \in 0 .. spawned
        PROVE  Exact(storage'[w], first'[w], it'[w], pushed'[w])
    <3>1. CASE w = spawned
      <4>1. storage'[w] = <<>> /\ pushed'[w] = 0
        BY <1>1, <1>3, <3>1 DEF WorkInv
      <4> QED BY <1>7, <2>1, <3>1, <4>1
    <3>2. CASE w # spawned
      BY <1>1, <1>3, <1>7, <3>2 DEF TypeOK, OutputInv
    <3> QED BY <3>1, <3>2
  <2> QED
    BY <1>1, <1>3, <2>2 DEF OutputInv
<1> QED
  BY <1>5, <1>6, <1>8, <1>9, <1>10, <1>11

LEMMA SpawnReporterStep == IInv /\ SpawnReporter => IInv'
<1> SUFFICES ASSUME IInv, SpawnReporter PROVE IInv'
  OBVIOUS
<1> USE MaxItemsAssumption, MaxTasksAssumption
    DEF IInv, SpawnReporter, inputs, slices, work
<1>1. \A k : Off(k)' = Off(k)
  BY OffStable
<1>2. workers \in 1 .. n /\ Off(0) = 0
  BY OffFacts DEF ControlInv
<1>3. TypeOK' /\ ControlInv'
  BY DEF TypeOK, ControlInv
<1>4. SliceInv' /\ WorkInv'
  BY <1>1 DEF SliceInv, WorkInv
<1>5. ReporterInv'
  BY <1>1, <1>2 DEF TypeOK, ControlInv, ReporterInv
<1>6. OutputInv'
  BY DEF OutputInv
<1> QED
  BY <1>3, <1>4, <1>5, <1>6

LEMMA JoinThreadsStep == IInv /\ JoinThreads => IInv'
<1> SUFFICES ASSUME IInv, JoinThreads PROVE IInv'
  OBVIOUS
<1>1. /\ pc = "join" /\ pc' = "merge" /\ scan = "done"
      /\ \A w \in 0 .. workers - 1 : Finished(w)
      /\ UNCHANGED <<n, m, workers, reserved, spawned, end, first, last, it, pushed, counter,
                     storage, stale, scan, idx, sum, shown, merged, out>>
  BY DEF JoinThreads, inputs, slices, work, reporter
<1>2. \A k : Off(k)' = Off(k)
  BY <1>1, OffStable
<1>3. TypeOK' /\ ControlInv'
  BY <1>1 DEF IInv, TypeOK, ControlInv
<1>4. SliceInv' /\ WorkInv' /\ ReporterInv'
  BY <1>1, <1>2 DEF IInv, SliceInv, WorkInv, ReporterInv, Finished
<1>5. OutputInv'
  <2>1. Off(0) = 0 /\ out = <<>> /\ merged = 0
    BY <1>1, OffFacts DEF IInv, ControlInv, OutputInv
  <2>2. Exact(<<>>, 0, 0, 0)
    BY ExactEmpty
  <2> QED
    BY <1>1, <1>2, <2>1, <2>2 DEF IInv, OutputInv
<1> QED
  BY <1>3, <1>4, <1>5 DEF IInv

LEMMA MergeStorageStep == IInv /\ MergeStorage => IInv'
<1> SUFFICES ASSUME IInv, MergeStorage PROVE IInv'
  OBVIOUS
<1> USE MaxTasksAssumption
<1>1. /\ pc = "merge" /\ merged < workers
      /\ out' = out \o storage[merged] /\ merged' = merged + 1
      /\ UNCHANGED <<n, m, pc, workers, reserved, spawned, end, first, last, it, pushed, counter,
                     storage, stale, scan, idx, sum, shown>>
  BY DEF MergeStorage, inputs, slices, work, reporter
<1>2. \A k : Off(k)' = Off(k)
  BY <1>1, OffStable
<1>3. /\ n \in Nat /\ workers \in 1 .. n /\ spawned = workers /\ scan = "done"
      /\ merged \in 0 .. workers - 1 /\ merged \in Workers
  BY <1>1, MaxItemsAssumption DEF IInv, TypeOK, ControlInv
<1>4. storage[merged] \in Seq(Results) /\ out \in Seq(Results)
  BY <1>3 DEF IInv, TypeOK
<1>5. TypeOK'
  <2>1. out' \in Seq(Results) /\ merged' \in 0 .. workers
    BY <1>1, <1>3, <1>4
  <2> QED
    BY <1>1, <2>1 DEF IInv, TypeOK
<1>6. ControlInv' /\ SliceInv' /\ WorkInv' /\ ReporterInv'
  BY <1>1, <1>2 DEF IInv, ControlInv, SliceInv, WorkInv, ReporterInv, Finished
<1>7. OutputInv'
  <2>1. /\ first[merged] = Off(merged) /\ last[merged] = Off(merged + 1)
        /\ it[merged] = last[merged] /\ pushed[merged] = 0
    BY <1>3 DEF IInv, SliceInv, WorkInv, ReporterInv, Finished
  <2>2. Off(merged) \in Nat /\ Off(merged + 1) \in Nat /\ Off(merged) <= Off(merged + 1)
    BY <1>3, OffFacts DEF IInv
  <2>3. Exact(out, 0, Off(merged), 0) /\ Exact(storage[merged], Off(merged), Off(merged + 1), 0)
    BY <1>1, <1>3, <2>1 DEF IInv, OutputInv
  <2>4. Exact(out', 0, Off(merged'), 0)
    BY <1>1, <2>2, <2>3, ExactConcat
  <2>5. InOrder(out')
    BY <2>4 DEF Exact
  <2> QED
    BY <1>1, <1>2, <2>4, <2>5 DEF IInv, OutputInv
<1> QED
  BY <1>5, <1>6, <1>7 DEF IInv

LEMMA ReturnStep == IInv /\ Return => IInv'
<1> SUFFICES ASSUME IInv, Return PROVE IInv'
  OBVIOUS
<1>1. /\ pc' = "returned"
      /\ \/ pc = "merge" /\ merged = workers
         \/ pc = "sequential" /\ Finished(0) /\ scan = "done"
      /\ UNCHANGED <<n, m, workers, reserved, spawned, end, first, last, it, pushed, counter,
                     storage, stale, scan, idx, sum, shown, merged, out>>
  BY DEF Return, inputs, slices, work, reporter
<1>2. \A k : Off(k)' = Off(k)
  BY <1>1, OffStable
<1>3. TypeOK' /\ ControlInv'
  BY <1>1 DEF IInv, TypeOK, ControlInv
<1>4. SliceInv' /\ WorkInv' /\ ReporterInv'
  BY <1>1, <1>2 DEF IInv, SliceInv, WorkInv, ReporterInv, Finished
<1>5. Exact(out, 0, n, 0)
  <2>1. CASE pc = "merge" /\ merged = workers
    BY <2>1, OffFacts DEF IInv, ControlInv, OutputInv
  <2>2. CASE pc = "sequential" /\ Finished(0)
    <3>1. workers = 1 /\ spawned = 1 /\ workers \in 1 .. n
      BY <2>2 DEF IInv, ControlInv
    <3>2. last[0] = Off(1) /\ Off(1) = n /\ it[0] = last[0] /\ pushed[0] = 0
      BY <2>2, <3>1, OffFacts DEF IInv, SliceInv, WorkInv, Finished
    <3> QED
      BY <2>2, <3>2 DEF IInv, OutputInv
  <2> QED
    BY <1>1, <2>1, <2>2
<1>6. OutputInv'
  BY <1>1, <1>5 DEF IInv, OutputInv
<1> QED
  BY <1>3, <1>4, <1>6 DEF IInv

LEMMA ExitProgramStep == ASSUME NEW w \in Workers, IInv, ExitProgram(w) PROVE IInv'
<1>1. /\ pc' = "exited"
      /\ UNCHANGED <<n, m, workers, reserved, spawned, end, first, last, it, pushed, counter,
                     storage, stale, scan, idx, sum, shown, merged, out>>
  BY DEF ExitProgram, inputs, slices, work, reporter
<1>2. \A k : Off(k)' = Off(k)
  BY <1>1, OffStable
<1>3. TypeOK' /\ ControlInv'
  BY <1>1 DEF IInv, TypeOK, ControlInv
<1>4. SliceInv' /\ WorkInv' /\ ReporterInv'
  BY <1>1, <1>2 DEF IInv, SliceInv, WorkInv, ReporterInv, Finished
<1>5. OutputInv'
  BY <1>1 DEF IInv, OutputInv
<1> QED
  BY <1>3, <1>4, <1>5 DEF IInv

\* What the two worker steps need to know of the running worker.
LEMMA RunningFacts ==
  ASSUME NEW w \in Workers, IInv, Running(w)
  PROVE  /\ n \in Nat /\ workers \in 1 .. n /\ w \in 0 .. spawned - 1 /\ w \in 0 .. workers - 1
         /\ pc \in {"spawn", "join", "sequential"}
         /\ first[w] \in Nat /\ last[w] \in 0 .. n /\ it[w] \in first[w] .. last[w] - 1
         /\ it[w] \in Items /\ Emits[it[w]] \in Nat
         /\ pushed[w] \in 0 .. Emits[it[w]]
         /\ counter[w] = it[w] - first[w]
         /\ pc = "sequential" => w = 0 /\ first[w] = 0
<1> USE MaxItemsAssumption, MaxTasksAssumption
<1>1. /\ n \in 0 .. MaxItems /\ spawned \in 0 .. workers /\ workers \in 0 .. n
      /\ first[w] \in 0 .. n /\ last[w] \in 0 .. n /\ it[w] \in 0 .. n /\ pushed[w] \in Nat
  BY DEF IInv, TypeOK, ControlInv
<1>2. w < spawned /\ it[w] # last[w] /\ pc \notin {"returned", "exited"}
  BY DEF Running, Finished
<1>3. w \in 0 .. spawned - 1 /\ workers \in 1 .. n /\ w \in 0 .. workers - 1
  BY <1>1, <1>2
<1>4. /\ it[w] \in first[w] .. last[w] /\ counter[w] = it[w] - first[w]
      /\ it[w] < last[w] => pushed[w] <= Emits[it[w]]
  BY <1>3 DEF IInv, WorkInv
<1>5. it[w] \in first[w] .. last[w] - 1 /\ it[w] \in Items /\ Emits[it[w]] \in Nat
  BY <1>1, <1>2, <1>4, EmitsAssumption
<1>6. pc \in {"spawn", "join", "sequential"}
  <2>1. pc # "enter"
    BY <1>3 DEF IInv, ControlInv
  <2>2. ASSUME pc = "merge" PROVE FALSE
    BY <1>2, <1>3, <2>2 DEF IInv, ControlInv, ReporterInv, Finished
  <2> QED
    BY <1>2, <2>1, <2>2 DEF IInv, TypeOK
<1>7. pc = "sequential" => w = 0 /\ first[w] = 0
  <2> SUFFICES ASSUME pc = "sequential" PROVE w = 0 /\ first[w] = 0
    OBVIOUS
  <2>1. w = 0 /\ Off(0) = 0
    BY <1>3, OffFacts DEF IInv, ControlInv
  <2> QED
    BY <1>3, <2>1 DEF IInv, SliceInv
<1> QED
  BY <1>1, <1>3, <1>4, <1>5, <1>6, <1>7

LEMMA PushStep == ASSUME NEW w \in Workers, IInv, Push(w) PROVE IInv'
<1> DEFINE r == <<it[w], pushed[w] + 1>>
<1>1. Running(w) /\ pushed[w] < Emits[it[w]]
  BY DEF Push
<1>2. /\ pushed' = [pushed EXCEPT ![w] = pushed[w] + 1]
      /\ \/ pc = "sequential" /\ out' = Append(out, r) /\ storage' = storage
         \/ pc # "sequential" /\ storage' = [storage EXCEPT ![w] = Append(storage[w], r)] /\ out' = out
      /\ UNCHANGED <<n, m, pc, workers, reserved, spawned, end, first, last, it, counter,
                     stale, scan, idx, sum, shown, merged>>
  BY DEF Push, inputs, slices, reporter
<1>3. /\ n \in Nat /\ workers \in 1 .. n /\ w \in 0 .. spawned - 1
      /\ pc \in {"spawn", "join", "sequential"}
      /\ first[w] \in Nat /\ it[w] \in first[w] .. last[w] - 1 /\ last[w] \in 0 .. n
      /\ it[w] \in Items /\ Emits[it[w]] \in Nat /\ pushed[w] \in Nat
      /\ pc = "sequential" => w = 0 /\ first[w] = 0
  BY <1>1, RunningFacts
<1>4. /\ pushed \in [Workers -> Nat] /\ storage \in [Workers -> Seq(Results)] /\ out \in Seq(Results)
  BY DEF IInv, TypeOK
<1>5. /\ pushed'[w] = pushed[w] + 1
      /\ \A v \in Workers \ {w} : pushed'[v] = pushed[v] /\ storage'[v] = storage[v]
      /\ pc # "sequential" => storage'[w] = Append(storage[w], r)
  BY <1>2, <1>4
<1>6. \A k : Off(k)' = Off(k)
  BY <1>2, OffStable
<1>7. TypeOK'
  <2>1. r \in Results
    BY <1>1, <1>3, MaxItemsAssumption DEF Results
  <2>2. pushed' \in [Workers -> Nat] /\ storage' \in [Workers -> Seq(Results)] /\ out' \in Seq(Results)
    <3>1. pushed' \in [Workers -> Nat]
      BY <1>2, <1>3, <1>4
    <3>2. storage[w] \in Seq(Results)
      BY <1>4
    <3>3. Append(storage[w], r) \in Seq(Results) /\ Append(out, r) \in Seq(Results)
      BY <1>4, <2>1, <3>2
    <3>4. storage' \in [Workers -> Seq(Results)] /\ out' \in Seq(Results)
      BY <1>2, <1>4, <3>3
    <3> QED BY <3>1, <3>4
  <2> QED
    BY <1>2, <2>2 DEF IInv, TypeOK
<1>8. ControlInv' /\ SliceInv' /\ ReporterInv'
  BY <1>2, <1>6 DEF IInv, ControlInv, SliceInv, ReporterInv, Finished
<1>9. WorkInv'
  <2>1. ASSUME NEW v \in Workers, v >= spawned
        PROVE  first'[v] = 0 /\ it'[v] = 0 /\ pushed'[v] = 0 /\ counter'[v] = 0 /\ storage'[v] = <<>>
    <3>1. v \in Workers \ {w}
      BY <1>3, <2>1 DEF IInv, TypeOK
    <3> QED BY <1>2, <1>5, <2>1, <3>1 DEF IInv, WorkInv
  <2>2. ASSUME NEW v \in 0 .. spawned - 1
        PROVE  /\ it[v] \in first[v] .. last[v]
               /\ counter[v] = it[v] - first[v]
               /\ it[v] < last[v] => pushed'[v] <= Emits[it[v]]
               /\ it[v] = last[v] => pushed'[v] = 0
    <3>1. CASE v = w
      BY <1>1, <1>3, <1>5, <3>1 DEF IInv, WorkInv
    <3>2. CASE v # w
      <4>1. v \in Workers \ {w}
        BY <3>2, MaxTasksAssumption DEF IInv, TypeOK
      <4> QED BY <1>5, <4>1 DEF IInv, WorkInv
    <3> QED BY <3>1, <3>2
  <2> QED
    BY <1>2, <2>1, <2>2 DEF WorkInv
<1>10. OutputInv'
  <2>1. CASE pc = "sequential"
    <3>1. Exact(out, 0, it[0], pushed[0]) /\ w = 0 /\ out' = Append(out, r)
      BY <1>2, <1>3, <2>1 DEF IInv, OutputInv
    <3>2. Exact(out', 0, it'[0], pushed'[0])
      BY <1>1, <1>2, <1>3, <1>5, <3>1, ExactAppend
    <3>3. InOrder(out')
      BY <3>2 DEF Exact
    <3> QED
      BY <1>2, <2>1, <3>2, <3>3 DEF OutputInv
  <2>2. CASE pc \in {"spawn", "join"}
    <3>1. ASSUME NEW v \in 0 .. spawned - 1
          PROVE  Exact(storage'[v], first[v], it[v], pushed'[v])
      <4>1. Exact(storage[v], first[v], it[v], pushed[v])
        BY <2>2 DEF IInv, OutputInv
      <4>2. CASE v = w
        <5>1. Exact(storage[w], first[w], it[w], pushed[w]) /\ first[w] <= it[w]
          BY <1>3, <4>1, <4>2
        <5>2. Exact(Append(storage[w], r), first[w], it[w], pushed[w] + 1)
          BY <1>1, <1>3, <5>1, ExactAppend
        <5> QED BY <1>5, <2>2, <4>2, <5>2
      <4>3. CASE v # w
        <5>1. v \in Workers \ {w}
          BY <4>3, MaxTasksAssumption DEF IInv, TypeOK
        <5> QED BY <1>5, <4>1, <5>1
      <4> QED BY <4>2, <4>3
    <3> QED
      BY <1>2, <2>2, <3>1 DEF IInv, OutputInv
  <2> QED
    BY <1>3, <2>1, <2>2
<1> QED
  BY <1>7, <1>8, <1>9, <1>10 DEF IInv

LEMMA AdvanceStep == ASSUME NEW w \in Workers, IInv, Advance(w) PROVE IInv'
<1>1. Running(w) /\ pushed[w] = Emits[it[w]]
  BY DEF Advance
<1>2. /\ it' = [it EXCEPT ![w] = it[w] + 1]
      /\ pushed' = [pushed EXCEPT ![w] = 0]
      /\ counter' = [counter EXCEPT ![w] = counter[w] + 1]
      /\ UNCHANGED <<n, m, pc, workers, reserved, spawned, end, first, last, storage,
                     stale, scan, idx, sum, shown, merged, out>>
  BY DEF Advance, inputs, slices, reporter
<1>3. /\ n \in Nat /\ workers \in 1 .. n /\ w \in 0 .. spawned - 1 /\ w \in 0 .. workers - 1
      /\ pc \in {"spawn", "join", "sequential"}
      /\ first[w] \in Nat /\ it[w] \in first[w] .. last[w] - 1 /\ last[w] \in 0 .. n
      /\ it[w] \in Items /\ counter[w] = it[w] - first[w]
      /\ pc = "sequential" => w = 0 /\ first[w] = 0
  BY <1>1, RunningFacts
<1>4. it \in [Workers -> 0 .. n] /\ pushed \in [Workers -> Nat] /\ counter \in [Workers -> 0 .. n]
  BY DEF IInv, TypeOK
<1>5. /\ it'[w] = it[w] + 1 /\ pushed'[w] = 0 /\ counter'[w] = counter[w] + 1
      /\ \A v \in Workers \ {w} : it'[v] = it[v] /\ pushed'[v] = pushed[v] /\ counter'[v] = counter[v]
  BY <1>2, <1>4
<1>6. \A k : Off(k)' = Off(k)
  BY <1>2, OffStable
<1>7. TypeOK'
  <2>1. it' \in [Workers -> 0 .. n] /\ pushed' \in [Workers -> Nat] /\ counter' \in [Workers -> 0 .. n]
    BY <1>2, <1>3, <1>4
  <2> QED
    BY <1>2, <2>1 DEF IInv, TypeOK
<1>8. ControlInv' /\ SliceInv'
  BY <1>2, <1>6 DEF IInv, ControlInv, SliceInv
<1>9. WorkInv'
  <2>1. ASSUME NEW v \in Workers, v >= spawned
        PROVE  first[v] = 0 /\ it'[v] = 0 /\ pushed'[v] = 0 /\ counter'[v] = 0 /\ storage[v] = <<>>
    <3>1. v \in Workers \ {w}
      BY <1>3, <2>1 DEF IInv, TypeOK
    <3> QED BY <1>5, <2>1, <3>1 DEF IInv, WorkInv
  <2>2. ASSUME NEW v \in 0 .. spawned - 1
        PROVE  /\ it'[v] \in first[v] .. last[v]
               /\ counter'[v] = it'[v] - first[v]
               /\ it'[v] < last[v] => pushed'[v] <= Emits[it'[v]]
               /\ it'[v] = last[v] => pushed'[v] = 0
    <3>1. CASE v = w
      <4>1. it'[w] < last[w] => Emits[it'[w]] \in Nat
        <5> SUFFICES ASSUME it'[w] < last[w] PROVE Emits[it'[w]] \in Nat
          OBVIOUS
        <5>1. n \in 0 .. MaxItems
          BY DEF IInv, TypeOK
        <5>2. it'[w] \in 0 .. MaxItems - 1
          BY <1>3, <1>5, <5>1, MaxItemsAssumption
        <5> QED BY <5>2, EmitsAssumption
      <4>2. it'[w] < last[w] => 0 <= Emits[it'[w]]
        BY <4>1
      <4> QED BY <1>3, <1>5, <3>1, <4>2
    <3>2. CASE v # w
      <4>1. v \in Workers \ {w}
        BY <3>2, MaxTasksAssumption DEF IInv, TypeOK
      <4> QED BY <1>5, <4>1 DEF IInv, WorkInv
    <3> QED BY <3>1, <3>2
  <2> QED
    BY <1>2, <2>1, <2>2 DEF WorkInv
<1>10. ReporterInv'
  <2>1. ~ Finished(w) /\ w \in 0 .. workers - 1
    BY <1>1, <1>3 DEF Running
  <2>2. \A v \in Workers : Finished(v) => Finished(v)'
    BY <1>2, <1>5, <2>1 DEF Finished
  <2>3. ~ (scan = "done" \/ (shown = n /\ workers > 0))
    BY <2>1 DEF IInv, ReporterInv
  <2>4. \A v \in 0 .. idx - 1 : v \in Workers
    BY MaxTasksAssumption DEF IInv, TypeOK
  <2> QED
    BY <1>2, <1>6, <2>2, <2>3, <2>4 DEF IInv, ReporterInv
<1>11. OutputInv'
  <2>1. CASE pc = "sequential"
    <3>1. Exact(out, 0, it[0], Emits[it[0]]) /\ w = 0
      BY <1>1, <1>3, <2>1 DEF IInv, OutputInv
    <3>2. Exact(out, 0, it[0] + 1, 0)
      BY <1>3, <3>1, ExactAdvance
    <3> QED
      BY <1>2, <1>5, <2>1, <3>1, <3>2 DEF IInv, OutputInv
  <2>2. CASE pc \in {"spawn", "join"}
    <3>1. ASSUME NEW v \in 0 .. spawned - 1
          PROVE  Exact(storage[v], first[v], it'[v], pushed'[v])
      <4>1. Exact(storage[v], first[v], it[v], pushed[v])
        BY <2>2 DEF IInv, OutputInv
      <4>2. CASE v = w
        <5>1. Exact(storage[w], first[w], it[w] + 1, 0)
          BY <1>1, <1>3, <4>1, <4>2, ExactAdvance
        <5> QED BY <1>5, <4>2, <5>1
      <4>3. CASE v # w
        <5>1. v \in Workers \ {w}
          BY <4>3, MaxTasksAssumption DEF IInv, TypeOK
        <5> QED BY <1>5, <4>1, <5>1
      <4> QED BY <4>2, <4>3
    <3> QED
      BY <1>2, <2>2, <3>1 DEF IInv, OutputInv
  <2> QED
    BY <1>3, <2>1, <2>2
<1> QED
  BY <1>7, <1>8, <1>9, <1>10, <1>11 DEF IInv

\* The partial sum takes in the counter of slice idx: it stays below the items
\* of the slices passed, and meets them only if that slice is done as well.
LEMMA ReadCounterStep == IInv /\ ReadCounter => IInv'
<1> SUFFICES ASSUME IInv, ReadCounter PROVE IInv'
  OBVIOUS
<1> USE MaxItemsAssumption, MaxTasksAssumption
<1>1. /\ scan = "scanning" /\ idx < workers
      /\ sum' = sum + counter[idx] /\ idx' = idx + 1
      /\ UNCHANGED <<n, m, pc, workers, reserved, spawned, end, first, last, it, pushed, counter,
                     storage, stale, scan, shown, merged, out>>
  BY DEF ReadCounter, Scanning, inputs, slices, work
<1>2. \A k : Off(k)' = Off(k)
  BY <1>1, OffStable
<1>3. /\ n \in Nat /\ workers \in 1 .. n /\ spawned = workers
      /\ idx \in 0 .. workers - 1 /\ idx \in Workers /\ sum \in 0 .. n
  BY <1>1 DEF IInv, TypeOK, ControlInv
<1>4. /\ first[idx] = Off(idx) /\ last[idx] = Off(idx + 1)
      /\ it[idx] \in first[idx] .. last[idx] /\ counter[idx] = it[idx] - first[idx]
  BY <1>3 DEF IInv, SliceInv, WorkInv
<1>5. /\ Off(idx) \in 0 .. n /\ Off(idx + 1) \in 0 .. n
  BY <1>3, OffFacts DEF IInv
<1>6. sum <= Off(idx) /\ (sum = Off(idx) => \A w \in 0 .. idx - 1 : Finished(w))
  BY <1>1 DEF IInv, ReporterInv
<1>7. sum' <= Off(idx') /\ sum' \in 0 .. n
  BY <1>1, <1>3, <1>4, <1>5, <1>6
<1>8. sum' = Off(idx') => sum = Off(idx) /\ Finished(idx)
  BY <1>1, <1>3, <1>4, <1>5, <1>6 DEF Finished
<1>9. sum' = Off(idx') => \A w \in 0 .. idx : Finished(w)
  <2> SUFFICES ASSUME sum' = Off(idx'), NEW w \in 0 .. idx PROVE Finished(w)
    OBVIOUS
  <2>1. w = idx \/ w \in 0 .. idx - 1
    BY <1>3
  <2> QED
    BY <1>6, <1>8, <2>1
<1>10. TypeOK'
  <2>1. idx' \in 0 .. workers
    BY <1>1, <1>3
  <2> QED
    BY <1>1, <1>7, <2>1 DEF IInv, TypeOK
<1>11. ControlInv' /\ SliceInv' /\ WorkInv' /\ OutputInv'
  BY <1>1, <1>2 DEF IInv, ControlInv, SliceInv, WorkInv, OutputInv
<1>12. ReporterInv'
  <2>1. \A w \in 0 .. idx' - 1 : w \in 0 .. idx
    BY <1>1, <1>3
  <2> QED
    BY <1>1, <1>2, <1>7, <1>9, <2>1 DEF IInv, ReporterInv, Finished
<1> QED
  BY <1>10, <1>11, <1>12 DEF IInv

LEMMA ReportStep == IInv /\ Report => IInv'
<1> SUFFICES ASSUME IInv, Report PROVE IInv'
  OBVIOUS
<1> USE MaxItemsAssumption, MaxTasksAssumption
<1>1. /\ scan = "scanning" /\ idx = workers /\ idx' = 0 /\ sum' = 0
      /\ shown' = (IF sum = 0 THEN shown ELSE sum)
      /\ scan' = (IF sum = n THEN "done" ELSE "scanning")
      /\ UNCHANGED <<n, m, pc, workers, reserved, spawned, end, first, last, it, pushed, counter,
                     storage, stale, merged, out>>
  BY DEF Report, Scanning, inputs, slices, work
<1>2. \A k : Off(k)' = Off(k)
  BY <1>1, OffStable
<1>3. n \in Nat /\ workers \in 1 .. n /\ spawned = workers /\ Off(workers) = n /\ Off(0) = 0
  <2>1. n \in Nat /\ workers \in 1 .. n /\ spawned = workers
    BY <1>1 DEF IInv, TypeOK, ControlInv
  <2> QED
    BY <2>1, OffFacts DEF IInv
<1>4. sum = n => \A w \in 0 .. workers - 1 : Finished(w)
  BY <1>1, <1>3 DEF IInv, ReporterInv
<1>5. TypeOK'
  <2>1. idx' \in 0 .. workers /\ sum' \in 0 .. n /\ shown' \in 0 .. n
        /\ scan' \in {"off", "scanning", "done"}
    BY <1>1, <1>3 DEF IInv, TypeOK
  <2> QED
    BY <1>1, <2>1 DEF IInv, TypeOK
<1>6. pc # "merge" /\ pc # "enter" /\ pc # "spawn"
  BY <1>1 DEF IInv, ControlInv
<1>7. ControlInv' /\ SliceInv' /\ WorkInv' /\ OutputInv'
  <2>1. scan' # "off"
    BY <1>1
  <2> QED
    BY <1>1, <1>2, <1>3, <1>6, <2>1 DEF IInv, ControlInv, SliceInv, WorkInv, OutputInv
<1>8. ReporterInv'
  <2>1. scan' = "done" \/ shown' = n => \A w \in 0 .. workers - 1 : Finished(w)
    BY <1>1, <1>3, <1>4 DEF IInv, ReporterInv
  <2>2. sum' = Off(idx') /\ \A w \in 0 .. idx' - 1 : FALSE
    BY <1>1, <1>3
  <2> QED
    BY <1>1, <1>2, <1>3, <2>1, <2>2 DEF ReporterInv, Finished
<1> QED
  BY <1>5, <1>7, <1>8 DEF IInv

LEMMA StutterStep == IInv /\ UNCHANGED vars => IInv'
<1> SUFFICES ASSUME IInv, UNCHANGED vars PROVE IInv'
  OBVIOUS
<1>1. UNCHANGED <<n, m, pc, workers, reserved, spawned, end, first, last, it, pushed, counter,
                  storage, stale, scan, idx, sum, shown, merged, out>>
  BY DEF vars, inputs, slices, work, reporter
<1>2. \A k : Off(k)' = Off(k)
  BY <1>1, OffStable
<1>3. TypeOK' /\ ControlInv'
  BY <1>1 DEF IInv, TypeOK, ControlInv
<1>4. SliceInv' /\ WorkInv' /\ ReporterInv' /\ OutputInv'
  BY <1>1, <1>2 DEF IInv, SliceInv, WorkInv, ReporterInv, OutputInv, Finished
<1> QED
  BY <1>3, <1>4 DEF IInv

-----------------------------------------------------------------------------
\* The invariant is inductive: one step of the proof per action.
LEMMA Invariance == Spec => []IInv
<1>1. IInv /\ [Next]_vars => IInv'
  <2> SUFFICES ASSUME IInv, [Next]_vars PROVE IInv'
    OBVIOUS
  <2>1. CASE Main
    BY <2>1, ReturnEarlyStep, StartSequentialStep, StartParallelStep, SpawnWorkerStep,
       SpawnReporterStep, JoinThreadsStep, MergeStorageStep, ReturnStep DEF Main
  <2>2. ASSUME NEW w \in Workers, Worker(w) \/ ExitProgram(w) PROVE IInv'
    BY <2>2, PushStep, AdvanceStep, ExitProgramStep DEF Worker
  <2>3. CASE Reporter
    BY <2>3, ReadCounterStep, ReportStep DEF Reporter
  <2>4. CASE Ended \/ UNCHANGED vars
    BY <2>4, StutterStep DEF Ended
  <2> QED
    BY <2>1, <2>2, <2>3, <2>4 DEF Next
<1> QED
  BY InitIInv, <1>1, PTL DEF Spec

\* Type correctness of TaskExecutor::execute and its threads.
THEOREM TypeCorrect == Spec => []TypeOK
<1>1. IInv => TypeOK
  BY DEF IInv
<1> QED
  BY <1>1, Invariance, PTL

\* taskBatches and the spawning loop cut any input into consecutive, non-empty
\* and balanced slices that together are the whole input.
THEOREM SlicesCorrect == Spec => []SlicesPartitionInput
<1>1. IInv => SlicesPartitionInput
  <2> SUFFICES ASSUME IInv PROVE SlicesPartitionInput
    OBVIOUS
  <2>1. CASE spawned = 0
    <3>1. 0 .. spawned - 1 = {}
      BY <2>1
    <3>2. pc \notin {"join", "merge", "sequential"}
      BY <2>1 DEF IInv, ControlInv
    <3> QED BY <3>1, <3>2 DEF SlicesPartitionInput
  <2>2. CASE spawned # 0
    <3>1. n \in Nat /\ workers \in 1 .. n /\ spawned \in 1 .. workers
      BY <2>2, MaxItemsAssumption DEF IInv, TypeOK, ControlInv
    <3>2. \A w \in 0 .. spawned - 1 : first[w] = Off(w) /\ last[w] = Off(w + 1)
      BY DEF IInv, SliceInv
    <3>3. /\ Off(0) = 0 /\ Off(workers) = n
          /\ \A k \in 0 .. workers : Off(k) \in 0 .. n
          /\ \A k \in 0 .. workers - 1 : /\ Off(k + 1) = Off(k) + Batch(n, workers, k)
                                         /\ Off(k) < Off(k + 1)
      BY <3>1, OffFacts DEF IInv
    <3>4. PICK q \in Nat : \E r \in 0 .. workers - 1 : n = workers * q + r
      <4>1. workers \in Nat \ {0}
        BY <3>1
      <4> QED BY <3>1, <4>1, DivMod
    <3>5. PICK r \in 0 .. workers - 1 : n = workers * q + r
      BY <3>4
    <3>6. \A k \in 0 .. workers - 1 : Batch(n, workers, k) = q + (IF k < r THEN 1 ELSE 0)
      <4> TAKE k \in 0 .. workers - 1
      <4>1. workers \in Nat \ {0} /\ n \in Nat
        BY <3>1
      <4> QED BY <3>5, <4>1, BatchValue
    <3>7. ASSUME NEW w \in 0 .. spawned - 1
          PROVE  /\ first[w] = (IF w = 0 THEN 0 ELSE last[w - 1])
                 /\ first[w] < last[w]
                 /\ \A v \in 0 .. w : last[v] - first[v] - (last[w] - first[w]) \in {0, 1}
      <4>1. w # 0 => last[w - 1] = Off(w)
        <5> SUFFICES ASSUME w # 0 PROVE last[w - 1] = Off(w)
          OBVIOUS
        <5>1. w - 1 \in 0 .. spawned - 1 /\ w - 1 + 1 = w
          BY <3>1
        <5> QED BY <3>2, <5>1
      <4>2. \A v \in 0 .. w : last[v] - first[v] = q + (IF v < r THEN 1 ELSE 0)
        <5> TAKE v \in 0 .. w
        <5>1. v \in 0 .. spawned - 1 /\ v \in 0 .. workers - 1 /\ v \in 0 .. workers /\ v + 1 \in 0 .. workers
          BY <3>1
        <5>2. last[v] = first[v] + (q + (IF v < r THEN 1 ELSE 0)) /\ first[v] \in Int
          BY <3>2, <3>3, <3>6, <5>1
        <5> QED BY <5>2
      <4>3. first[w] < last[w]
        BY <3>1, <3>2, <3>3
      <4>4. \A v \in 0 .. w : last[v] - first[v] - (last[w] - first[w]) \in {0, 1}
        BY <3>1, <4>2
      <4> QED BY <3>2, <3>3, <4>1, <4>3, <4>4
    <3>8. pc \in {"join", "merge", "sequential"} => end = n /\ last[workers - 1] = n
      <4> SUFFICES ASSUME pc \in {"join", "merge", "sequential"} PROVE end = n /\ last[workers - 1] = n
        OBVIOUS
      <4>1. spawned = workers
        BY DEF IInv, ControlInv
      <4>2. workers - 1 \in 0 .. spawned - 1 /\ workers - 1 + 1 = workers
        BY <3>1, <4>1
      <4> QED BY <3>1, <3>2, <3>3, <4>1, <4>2 DEF IInv, SliceInv
    <3> QED BY <3>7, <3>8 DEF SlicesPartitionInput
  <2> QED
    BY <2>1, <2>2
<1> QED
  BY <1>1, Invariance, PTL

\* No worker is left with a reference into a vector that moved.
THEOREM ReferencesCorrect == Spec => []ReferencesStayValid
<1>1. IInv => ReferencesStayValid
  BY DEF IInv, ControlInv, ReferencesStayValid
<1> QED
  BY <1>1, Invariance, PTL

\* The reporter's unsynchronised sum reaches the total only after the last item.
THEOREM ReporterCorrect == Spec => []ReporterEndsAfterLastItem
<1>1. IInv => ReporterEndsAfterLastItem
  BY DEF IInv, TypeOK, ControlInv, ReporterInv, ReporterEndsAfterLastItem
<1> QED
  BY <1>1, Invariance, PTL

\* The output does not depend on the interleaving of the workers.
THEOREM OutputCorrect == Spec => []OutputInInputOrder
<1>1. IInv => OutputInInputOrder
  <2> SUFFICES ASSUME IInv PROVE OutputInInputOrder
    OBVIOUS
  <2>1. \A i, j \in DOMAIN out : i < j => Before(out[i], out[j])
    BY DEF IInv, OutputInv, InOrder
  <2>2. ASSUME pc = "returned", m # 0, NEW x \in 0 .. n - 1, NEW k \in 1 .. Emits[x]
        PROVE  \E i \in DOMAIN out : out[i] = <<x, k>>
    <3>1. Exact(out, 0, n, 0)
      BY <2>2 DEF IInv, OutputInv
    <3>2. x \in 0 .. n /\ x < n
      BY MaxItemsAssumption DEF IInv, TypeOK
    <3> QED BY <3>1, <3>2 DEF Exact
  <2> QED
    BY <2>1, <2>2 DEF OutputInInputOrder
<1> QED
  BY <1>1, Invariance, PTL

-----------------------------------------------------------------------------
(* The refinement of OrderedMap: there is one sequence of exactly the      *)
(* results due, what the sequential loop makes, and what is exact for part *)
(* of the input is the beginning of it.                                    *)

\* The least counterexample, in place of induction.
LEMMA Smallest ==
  ASSUME NEW T \in SUBSET Nat, T # {}
  PROVE  \E a \in T : \A b \in T : a <= b
<1>1. \E x \in T : \A y \in T : ~ (<<y, x>> \in OpToRel(<, Nat))
  BY NatLessThanWellFounded, WFMin
<1>2. PICK x \in T : \A y \in T : ~ (<<y, x>> \in OpToRel(<, Nat))
  BY <1>1
<1>3. \A y \in T : ~ (y < x)
  BY <1>2 DEF OpToRel
<1> QED
  BY <1>3

\* Before is a strict order of the results, and a total one.
LEMMA BeforeOrders ==
  ASSUME NEW r \in Results, NEW s \in Results
  PROVE  /\ ~ (Before(r, s) /\ Before(s, r))
         /\ r = s \/ Before(r, s) \/ Before(s, r)
         /\ ~ Before(r, r)
<1>1. r[1] \in Nat /\ r[2] \in Nat /\ s[1] \in Nat /\ s[2] \in Nat /\ r = <<r[1], r[2]>> /\ s = <<s[1], s[2]>>
  BY DEF Results
<1> QED
  BY <1>1 DEF Before

\* What is exact is results, and they are due.
LEMMA ExactOnly ==
  ASSUME NEW s, NEW a, NEW b, NEW p, Exact(s, a, b, p), NEW i \in 1 .. Len(s)
  PROVE  /\ s[i] = <<s[i][1], s[i][2]>>
         /\ s[i][1] \in Items /\ Emits[s[i][1]] \in Nat /\ s[i][2] \in 1 .. Emits[s[i][1]]
         /\ s[i][1] \in a .. b /\ s[i][2] \in 1 .. (IF s[i][1] < b THEN Emits[s[i][1]] ELSE p)
<1>1. s \in Seq(Results) /\ Due(s[i][1], s[i][2], a, b, p)
  BY DEF Exact
<1>2. s[i] \in Results
  BY <1>1
<1>3. s[i] = <<s[i][1], s[i][2]>> /\ s[i][1] \in Items /\ s[i][2] \in 1 .. Emits[s[i][1]]
  BY <1>2 DEF Results
<1>4. Emits[s[i][1]] \in Nat
  BY <1>3, EmitsAssumption
<1> QED
  BY <1>1, <1>3, <1>4 DEF Due

\* What is exact for the items before b, and p results of b, begins what is
\* exact for more items.
LEMMA ExactPrefix ==
  ASSUME NEW s, NEW t, NEW b \in Nat, NEW p \in Nat, NEW c \in Nat,
         Exact(s, 0, b, p), Exact(t, 0, c, 0),
         (b < c /\ p <= Emits[b]) \/ (b = c /\ p = 0)
  PROVE  \A i \in 1 .. Len(s) : i <= Len(t) /\ s[i] = t[i]
<1> DEFINE T == {i \in 1 .. Len(s) : ~ (i <= Len(t) /\ s[i] = t[i])}
<1>1. /\ s \in Seq(Results) /\ t \in Seq(Results) /\ Len(s) \in Nat /\ Len(t) \in Nat
      /\ DOMAIN s = 1 .. Len(s) /\ DOMAIN t = 1 .. Len(t)
      /\ \A i \in 1 .. Len(s) : s[i] \in Results
      /\ \A i \in 1 .. Len(t) : t[i] \in Results
  BY DEF Exact
<1>2. /\ \A i, j \in 1 .. Len(s) : i < j => Before(s[i], s[j])
      /\ \A i, j \in 1 .. Len(t) : i < j => Before(t[i], t[j])
  BY <1>1 DEF Exact, InOrder
<1>3. SUFFICES ASSUME T # {} PROVE FALSE
  OBVIOUS
<1>4. PICK i \in T : \A j \in T : i <= j
  <2>1. T \in SUBSET Nat
    BY <1>1
  <2> HIDE DEF T
  <2> QED
    BY <1>3, <2>1, Smallest
<1>5. /\ i \in 1 .. Len(s) /\ ~ (i <= Len(t) /\ s[i] = t[i])
      /\ \A j \in 1 .. i - 1 : j \in 1 .. Len(s) /\ j <= Len(t) /\ s[j] = t[j]
  BY <1>1, <1>4
<1> HIDE DEF T
<1>6. PICK j \in 1 .. Len(t) : t[j] = s[i]
  <2>1. PICK x, k : /\ s[i] = <<x, k>> /\ x \in Items /\ Emits[x] \in Nat /\ k \in 1 .. Emits[x]
                    /\ x \in 0 .. b /\ k \in 1 .. (IF x < b THEN Emits[x] ELSE p)
    BY <1>5, ExactOnly
  <2>2. x < c
    BY <2>1
  <2>3. x \in 0 .. c /\ k \in 1 .. (IF x < c THEN Emits[x] ELSE 0)
    BY <2>1, <2>2
  <2>4. \E j \in 1 .. Len(t) : t[j] = <<x, k>>
    BY <1>1, <2>3 DEF Exact
  <2> QED
    BY <2>1, <2>4
<1>7. i < j
  <2>1. ASSUME j < i PROVE FALSE
    <3>1. j \in 1 .. Len(s) /\ s[j] = t[j] /\ Before(s[j], s[i])
      BY <1>2, <1>5, <1>6, <2>1
    <3> QED
      BY <1>1, <1>5, <1>6, <3>1, BeforeOrders
  <2>2. i # j
    BY <1>5, <1>6
  <2> QED
    BY <1>5, <1>6, <2>1, <2>2
<1>8. i \in 1 .. Len(t) /\ Before(t[i], s[i])
  BY <1>1, <1>2, <1>5, <1>6, <1>7
<1>9. PICK l \in 1 .. Len(s) : s[l] = t[i]
  <2>1. PICK x, k : t[i] = <<x, k>> /\ x \in Items /\ k \in 1 .. Emits[x]
    BY <1>8, ExactOnly
  <2>2. s[i][1] \in 0 .. b /\ s[i][2] \in 1 .. (IF s[i][1] < b THEN Emits[s[i][1]] ELSE p)
    BY <1>5, ExactOnly
  <2>3. x < s[i][1] \/ (x = s[i][1] /\ k < s[i][2])
    BY <1>8, <2>1 DEF Before
  <2>4. x \in 0 .. b /\ k \in 1 .. (IF x < b THEN Emits[x] ELSE p)
    BY <2>1, <2>2, <2>3
  <2>5. \E l \in 1 .. Len(s) : s[l] = <<x, k>>
    BY <1>1, <2>4 DEF Exact
  <2> QED
    BY <2>1, <2>5
<1>10. l < i
  <2>1. ASSUME i < l PROVE FALSE
    <3>1. Before(s[i], s[l])
      BY <1>2, <1>5, <2>1
    <3> QED
      BY <1>1, <1>5, <1>8, <1>9, <3>1, BeforeOrders
  <2>2. l # i
    BY <1>1, <1>5, <1>8, <1>9, BeforeOrders
  <2> QED
    BY <1>5, <1>9, <2>1, <2>2
<1>11. t[l] = t[i] /\ Before(t[l], t[i])
  BY <1>1, <1>2, <1>5, <1>8, <1>9, <1>10
<1> QED
  BY <1>1, <1>8, <1>11, BeforeOrders

\* The loop of FlattenSeq is a function that is there.
LEMMA FlattenRecursion ==
  ASSUME NEW s, Len(s) \in Nat \ {0}
  PROVE  \E flat : /\ flat = [i \in 1 .. Len(s) |-> IF i = 1 THEN s[i] ELSE flat[i - 1] \o s[i]]
                   /\ Map!FlattenSeq(s) = flat[Len(s)]
<1> DEFINE Loop(g, c) == g = [i \in 1 .. c |-> IF i = 1 THEN s[i] ELSE g[i - 1] \o s[i]]
           T == {c \in Nat : ~ \E g : Loop(g, c)}
<1>1. T = {}
  <2>1. SUFFICES ASSUME T # {} PROVE FALSE
    OBVIOUS
  <2>2. PICK c \in T : \A l \in T : c <= l
    BY <2>1, Smallest
  <2>3. CASE c = 0
    <3> DEFINE g == [i \in 1 .. 0 |-> <<>>]
    <3>1. Loop(g, 0)
      OBVIOUS
    <3> QED
      BY <2>2, <2>3, <3>1
  <2>4. CASE c # 0
    <3>0. c \in Nat \ {0}
      BY <2>2, <2>4
    <3>1. c - 1 \in Nat /\ c - 1 \notin T
      <4> HIDE DEF T
      <4> QED
        BY <2>2, <3>0
    <3>2. PICK g : Loop(g, c - 1)
      BY <3>1
    <3> DEFINE h == [i \in 1 .. c |-> IF i = c /\ c # 1 THEN g[c - 1] \o s[c] ELSE IF i = c THEN s[i] ELSE g[i]]
    <3>3. ASSUME NEW i \in 1 .. c
          PROVE  h[i] = IF i = 1 THEN s[i] ELSE h[i - 1] \o s[i]
      <4>1. CASE i = c
        <5>1. c # 1 => h[i - 1] = g[c - 1] /\ h[i] = g[c - 1] \o s[c]
          <6>1. SUFFICES ASSUME c # 1 PROVE h[i - 1] = g[c - 1] /\ h[i] = g[c - 1] \o s[c]
            OBVIOUS
          <6>2. i \in 1 .. c /\ i - 1 \in 1 .. c /\ i - 1 # c
            BY <3>0, <4>1, <6>1
          <6>3. h[i] = g[c - 1] \o s[c]
            BY <4>1, <6>1
          <6>4. h[i - 1] = g[i - 1]
            BY <6>2
          <6> QED
            BY <4>1, <6>3, <6>4
        <5>2. c = 1 => h[i] = s[i]
          BY <4>1
        <5> QED
          BY <4>1, <5>1, <5>2
      <4>2. CASE i # c
        <5>1. i \in 1 .. c - 1 /\ h[i] = g[i]
          BY <4>2
        <5>2. g[i] = IF i = 1 THEN s[i] ELSE g[i - 1] \o s[i]
          BY <3>2, <5>1
        <5>3. i # 1 => h[i - 1] = g[i - 1]
          BY <5>1
        <5> QED
          BY <5>1, <5>2, <5>3
      <4> QED
        BY <4>1, <4>2
    <3>4. Loop(h, c)
      <4> HIDE DEF h
      <4>1. h = [i \in 1 .. c |-> h[i]]
        BY DEF h
      <4> QED
        BY <3>3, <4>1
    <3> QED
      BY <2>2, <3>4
  <2> QED
    BY <2>3, <2>4
<1>2. PICK g : Loop(g, Len(s))
  BY <1>1
<1> DEFINE flat == CHOOSE flat : flat = [i \in 1 .. Len(s) |-> IF i = 1 THEN s[i] ELSE flat[i - 1] \o s[i]]
<1>3. flat = [i \in 1 .. Len(s) |-> IF i = 1 THEN s[i] ELSE flat[i - 1] \o s[i]]
  BY <1>2
<1>4. Map!FlattenSeq(s) = flat[Len(s)]
  BY DEF Map!FlattenSeq
<1> QED
  BY <1>3, <1>4

\* The sequential loop makes exactly the results due.
LEMMA SequentialIsExact ==
  ASSUME NEW c \in 0 .. MaxItems
  PROVE  Exact(Map!Sequential(c), 0, c, 0)
<1> DEFINE Of(i) == [k \in 1 .. Emits[i - 1] |-> <<i - 1, k>>]
           s == [i \in 1 .. c |-> Of(i)]
<1>0. c \in Nat /\ Map!Sequential(c) = Map!FlattenSeq(s)
  BY MaxItemsAssumption DEF Map!Sequential
<1>1. ASSUME NEW i \in 1 .. c
      PROVE  Exact(Of(i), i - 1, i, 0)
  <2>1. PICK x : x = i - 1 /\ x \in Items /\ i = x + 1
    BY <1>0, MaxItemsAssumption
  <2>2. Emits[x] \in Nat
    BY <2>1, EmitsAssumption
  <2>3. PICK t : t = [k \in 1 .. Emits[x] |-> <<x, k>>]
    OBVIOUS
  <2>4. t \in Seq(Results) /\ DOMAIN t = 1 .. Emits[x] /\ \A k \in 1 .. Emits[x] : t[k] = <<x, k>>
    <3>1. \A k \in 1 .. Emits[x] : <<x, k>> \in Results
      BY <2>1, <2>2, MaxItemsAssumption DEF Results
    <3> QED
      BY <2>2, <2>3, <3>1
  <2>5. InOrder(t)
    BY <2>1, <2>2, <2>4 DEF InOrder, Before
  <2>6. \A k \in DOMAIN t : Due(t[k][1], t[k][2], x, x + 1, 0)
    BY <2>1, <2>2, <2>4 DEF Due
  <2>7. ASSUME NEW y \in x .. x + 1, NEW k \in 1 .. (IF y < x + 1 THEN Emits[y] ELSE 0)
        PROVE  \E l \in DOMAIN t : t[l] = <<y, k>>
    <3>1. y = x /\ k \in DOMAIN t
      BY <2>1, <2>4, <2>7
    <3> QED
      BY <2>4, <3>1
  <2>8. Exact(t, x, x + 1, 0)
    BY <2>4, <2>5, <2>6, <2>7 DEF Exact
  <2> QED
    BY <2>1, <2>3, <2>8
<1>2. Len(s) = c /\ \A i \in 1 .. c : s[i] = Of(i)
  BY <1>0
<1> HIDE DEF Of, s
<1>3. CASE c = 0
  <2>1. Map!FlattenSeq(s) = <<>>
    BY <1>2, <1>3 DEF Map!FlattenSeq, s
  <2> QED
    BY <1>0, <1>3, <2>1, ExactEmpty
<1>4. CASE c # 0
  <2>1. PICK flat : /\ flat = [i \in 1 .. Len(s) |-> IF i = 1 THEN s[i] ELSE flat[i - 1] \o s[i]]
                    /\ Map!FlattenSeq(s) = flat[Len(s)]
    <3>1. Len(s) \in Nat \ {0}
      BY <1>0, <1>2, <1>4
    <3> QED
      BY <3>1, FlattenRecursion
  <2>2. \A i \in 1 .. c : flat[i] = IF i = 1 THEN Of(i) ELSE flat[i - 1] \o Of(i)
    BY <1>2, <2>1
  <2> DEFINE T == {i \in 1 .. c : ~ Exact(flat[i], 0, i, 0)}
  <2>3. T = {}
    <3>1. SUFFICES ASSUME T # {} PROVE FALSE
      OBVIOUS
    <3>2. PICK i \in T : \A j \in T : i <= j
      <4>1. T \in SUBSET Nat
        BY <1>0
      <4> HIDE DEF T
      <4> QED
        BY <3>1, <4>1, Smallest
    <3>3. i \in 1 .. c /\ ~ Exact(flat[i], 0, i, 0)
      BY <3>2
    <3>4. CASE i = 1
      <4>1. Exact(Of(1), 0, 1, 0)
        <5>1. Exact(Of(i), i - 1, i, 0) /\ i - 1 = 0
          BY <1>1, <3>3, <3>4
        <5> QED
          BY <3>4, <5>1
      <4> QED
        BY <2>2, <3>3, <3>4, <4>1
    <3>5. CASE i # 1
      <4>1. i - 1 \in 1 .. c /\ i - 1 \in Nat /\ i \in Nat /\ i - 1 <= i /\ 0 <= i - 1
        BY <1>0, <3>3, <3>5
      <4>2. Exact(flat[i - 1], 0, i - 1, 0)
        <5>1. i - 1 \notin T
          BY <3>2, <3>3
        <5> QED
          BY <4>1, <5>1
      <4>3. PICK r : r = i - 1
        OBVIOUS
      <4>4. Exact(flat[r], 0, r, 0) /\ Exact(Of(i), r, i, 0) /\ r \in Nat /\ i \in Nat /\ r <= i
        BY <1>1, <3>3, <4>1, <4>2, <4>3
      <4>5. Exact(flat[r] \o Of(i), 0, i, 0)
        BY <4>4, ExactConcat
      <4>6. flat[i] = flat[r] \o Of(i)
        BY <2>2, <3>3, <3>5, <4>3
      <4> QED
        BY <3>3, <4>5, <4>6
    <3> QED
      BY <3>4, <3>5
  <2>4. Exact(flat[c], 0, c, 0)
    BY <1>0, <1>4, <2>3
  <2> QED
    BY <1>0, <1>2, <2>1, <2>4
<1> QED
  BY <1>3, <1>4

\* What is exact for part of the input is the beginning of what the
\* sequential loop makes.
LEMMA ExactIsPrefix ==
  ASSUME NEW s, NEW b \in Nat, NEW p \in Nat, NEW c \in 0 .. MaxItems, Exact(s, 0, b, p),
         (b < c /\ p <= Emits[b]) \/ (b = c /\ p = 0)
  PROVE  /\ Len(s) \in 0 .. Len(Map!Sequential(c))
         /\ s = SubSeq(Map!Sequential(c), 1, Len(s))
         /\ b = c => s = Map!Sequential(c)
<1>1. PICK t : t = Map!Sequential(c)
  OBVIOUS
<1>2. c \in Nat /\ Exact(t, 0, c, 0)
  BY <1>1, MaxItemsAssumption, SequentialIsExact
<1>3. \A i \in 1 .. Len(s) : i <= Len(t) /\ s[i] = t[i]
  BY <1>2, ExactPrefix
<1>4. s \in Seq(Results) /\ t \in Seq(Results) /\ Len(s) \in Nat /\ Len(t) \in Nat
  BY <1>2 DEF Exact
<1>5. Len(s) <= Len(t)
  <2>1. Len(s) = 0 \/ Len(s) \in 1 .. Len(s)
    BY <1>4
  <2> QED
    BY <1>3, <1>4, <2>1
<1>6. s = SubSeq(t, 1, Len(s))
  BY <1>3, <1>4, <1>5
<1>7. ASSUME b = c PROVE s = t
  <2>1. Exact(s, 0, c, 0)
    BY <1>7
  <2>2. \A i \in 1 .. Len(t) : i <= Len(s) /\ t[i] = s[i]
    BY <1>2, <2>1, ExactPrefix
  <2>3. Len(t) = 0 \/ Len(t) \in 1 .. Len(t)
    BY <1>4
  <2>4. Len(t) = Len(s)
    BY <1>4, <1>5, <2>2, <2>3
  <2> QED
    BY <1>3, <1>4, <2>4
<1> QED
  BY <1>1, <1>4, <1>5, <1>6, <1>7

\* A push of the sequential path is a step of the sequential loop; a worker's
\* own storage is nothing the caller sees.
LEMMA PushMaps ==
  ASSUME NEW w \in Workers, IInv, Push(w)
  PROVE  [Map!Next]_(Map!vars)
<1>1. /\ Running(w) /\ pushed[w] < Emits[it[w]]
      /\ pc = "sequential" => out' = Append(out, <<it[w], pushed[w] + 1>>)
      /\ pc # "sequential" => out' = out
      /\ UNCHANGED <<n, m, pc>>
  BY DEF Push, inputs
<1>2. CASE pc # "sequential"
  BY <1>1, <1>2 DEF Map!vars, status
<1>3. CASE pc = "sequential"
  <2>1. /\ w = 0 /\ it[w] \in Items /\ it[w] \in 0 .. n - 1 /\ pushed[w] \in Nat /\ n \in 0 .. MaxItems
        /\ m # 0 /\ Exact(out, 0, it[w], pushed[w]) /\ out \in Seq(Results)
    <3>1. w = 0 /\ first[w] = 0 /\ it[w] \in first[w] .. last[w] - 1 /\ last[w] \in 0 .. n /\ it[w] \in Items
      BY <1>1, <1>3, RunningFacts
    <3>2. n \in 0 .. MaxItems /\ pushed[w] \in Nat /\ out \in Seq(Results) /\ m # 0
      BY <1>3 DEF IInv, TypeOK, ControlInv
    <3>3. Exact(out, 0, it[w], pushed[w])
      BY <1>3, <3>1 DEF IInv, OutputInv
    <3> QED
      BY <3>1, <3>2, <3>3, MaxItemsAssumption
  <2>2. PICK o : o = out'
    OBVIOUS
  <2>3. Exact(o, 0, it[w], pushed[w] + 1)
    <3>1. 0 \in Nat /\ 0 <= it[w]
      BY <2>1
    <3>2. PICK b, k : b = it[w] /\ k = pushed[w]
      OBVIOUS
    <3>3. Exact(Append(out, <<b, k + 1>>), 0, b, k + 1)
      BY <1>1, <2>1, <3>1, <3>2, ExactAppend
    <3> QED
      BY <1>1, <1>3, <2>2, <3>2, <3>3
  <2>4. Len(o) = Len(out) + 1 /\ Len(out) \in Nat
    BY <1>1, <1>3, <2>1, <2>2
  <2>5. it[w] \in Nat /\ pushed[w] + 1 \in Nat /\ it[w] < n /\ pushed[w] + 1 <= Emits[it[w]]
    <3>1. Emits[it[w]] \in Nat
      BY <2>1, EmitsAssumption
    <3> QED
      BY <1>1, <2>1, <3>1, MaxItemsAssumption
  <2>6. Len(o) \in 0 .. Len(Map!Sequential(n)) /\ o = SubSeq(Map!Sequential(n), 1, Len(o))
    BY <2>1, <2>3, <2>5, ExactIsPrefix
  <2>7. Len(o) \in Len(out) + 1 .. Len(Map!Sequential(n))
    BY <2>4, <2>6
  <2>8. status = "running" /\ status' = status /\ n' = n /\ m' = m
    BY <1>1, <1>3 DEF status
  <2>9. Map!Extend
    BY <2>1, <2>2, <2>6, <2>7, <2>8 DEF Map!Extend
  <2> QED
    BY <2>9 DEF Map!Next
<1> QED
  BY <1>2, <1>3

\* A storage that is merged is the next piece of the output, or empty.
LEMMA MergeMaps == IInv /\ MergeStorage => [Map!Next]_(Map!vars)
<1> SUFFICES ASSUME IInv, MergeStorage PROVE [Map!Next]_(Map!vars)
  OBVIOUS
<1>1. /\ pc = "merge" /\ merged < workers /\ out' = out \o storage[merged] /\ merged' = merged + 1
      /\ UNCHANGED <<n, m, pc, workers>>
  BY DEF MergeStorage, inputs, slices
<1>2. /\ n \in 0 .. MaxItems /\ n \in Nat /\ workers \in 1 .. n /\ m # 0 /\ merged \in 0 .. workers - 1
      /\ out \in Seq(Results) /\ storage[merged] \in Seq(Results)
  <2>1. n \in 0 .. MaxItems /\ workers \in 1 .. n /\ m # 0 /\ merged \in 0 .. workers - 1 /\ out \in Seq(Results)
    BY <1>1 DEF IInv, TypeOK, ControlInv
  <2>2. merged \in Workers
    BY <1>1, <2>1, MaxTasksAssumption DEF IInv, TypeOK
  <2> QED
    BY <2>1, <2>2, MaxItemsAssumption DEF IInv, TypeOK
<1>3. IInv'
  BY MergeStorageStep
<1>4. Exact(out', 0, Off(merged + 1), 0) /\ Off(merged + 1) \in 0 .. n
  <2>1. Off(merged)' = Off(merged + 1)
    BY <1>1 DEF Off
  <2>2. Exact(out', 0, Off(merged)', 0)
    BY <1>1, <1>3 DEF IInv, OutputInv
  <2>3. merged + 1 \in 0 .. workers
    BY <1>2
  <2>4. Off(merged + 1) \in 0 .. n
    BY <1>2, <2>3, OffFacts DEF IInv
  <2> QED
    BY <2>1, <2>2, <2>4
<1>5. PICK o, b : o = out' /\ b = Off(merged + 1)
  OBVIOUS
<1>6. PICK t : t = storage[merged] /\ t \in Seq(Results)
  BY <1>2
<1>7. Len(o) = Len(out) + Len(t) /\ Len(out) \in Nat /\ Len(t) \in Nat
  BY <1>1, <1>2, <1>5, <1>6
<1>8. Len(o) \in 0 .. Len(Map!Sequential(n)) /\ o = SubSeq(Map!Sequential(n), 1, Len(o))
  <2>1. Exact(o, 0, b, 0) /\ b \in Nat /\ b <= n
    BY <1>2, <1>4, <1>5
  <2>2. b < n => 0 <= Emits[b]
    <3>1. SUFFICES ASSUME b < n PROVE 0 <= Emits[b]
      OBVIOUS
    <3>2. b \in Items
      BY <1>2, <2>1, <3>1, MaxItemsAssumption
    <3>3. Emits[b] \in Nat
      BY <3>2, EmitsAssumption
    <3> QED
      BY <3>3
  <2>3. (b < n /\ 0 <= Emits[b]) \/ (b = n /\ 0 = 0)
    BY <1>2, <2>1, <2>2
  <2> QED
    BY <1>2, <2>1, <2>3, ExactIsPrefix
<1>9. status = "running" /\ status' = status /\ n' = n /\ m' = m
  BY <1>1 DEF status
<1>10. CASE Len(t) = 0
  <2>1. out' = out
    BY <1>1, <1>2, <1>6, <1>10
  <2> QED
    BY <1>9, <2>1 DEF Map!vars
<1>11. CASE Len(t) # 0
  <2>1. Len(o) \in Len(out) + 1 .. Len(Map!Sequential(n))
    BY <1>7, <1>8, <1>11
  <2>2. Map!Extend
    BY <1>2, <1>5, <1>8, <1>9, <2>1 DEF Map!Extend
  <2> QED
    BY <2>2 DEF Map!Next
<1> QED
  BY <1>10, <1>11

\* execute() returns what the sequential loop makes.
LEMMA ReturnMaps == IInv /\ (Return \/ ReturnEarly) => Map!Return
<1> SUFFICES ASSUME IInv, Return \/ ReturnEarly PROVE Map!Return
  OBVIOUS
<1>1. status = "running" /\ status' = "returned" /\ UNCHANGED <<n, m, out>>
  BY DEF Return, ReturnEarly, status, inputs
<1>2. n \in 0 .. MaxItems /\ n \in Nat
  BY MaxItemsAssumption DEF IInv, TypeOK
<1>3. m = 0 \/ Exact(out, 0, n, 0)
  <2>1. CASE Return
    <3>1. IInv' /\ pc' = "returned"
      BY <2>1, ReturnStep DEF Return
    <3> QED
      BY <1>1, <3>1 DEF IInv, OutputInv
  <2>2. CASE ReturnEarly
    <3>1. IInv' /\ pc' = "returned"
      BY <2>2, ReturnEarlyStep DEF ReturnEarly
    <3> QED
      BY <1>1, <3>1 DEF IInv, OutputInv
  <2> QED
    BY <2>1, <2>2
<1>4. m = 0 \/ out = Map!Sequential(n)
  <2>1. PICK b : b = n
    OBVIOUS
  <2> QED
    BY <1>2, <1>3, <2>1, ExactIsPrefix
<1> QED
  BY <1>1, <1>4 DEF Map!Return

\* Every interleaving of the workers, the reporter and the main thread makes
\* what one loop over the input would: TaskExecutor::execute implements
\* OrderedMap, but for its fairness.
THEOREM Refinement == Spec => Map!Init /\ [][Map!Next]_(Map!vars)
<1>1. Init => Map!Init
  BY DEF Init, Map!Init, status
<1>2. IInv /\ [Next]_vars => [Map!Next]_(Map!vars)
  <2> SUFFICES ASSUME IInv, [Next]_vars PROVE [Map!Next]_(Map!vars)
    OBVIOUS
  <2>1. CASE ReturnEarly \/ Return
    BY <2>1, ReturnMaps DEF Map!Next
  <2>2. CASE MergeStorage
    BY <2>2, MergeMaps
  <2>3. CASE StartSequential \/ StartParallel \/ SpawnWorker \/ SpawnReporter \/ JoinThreads
    <3>1. UNCHANGED <<n, m, out>>
      BY <2>3 DEF StartSequential, StartParallel, SpawnWorker, SpawnReporter, JoinThreads, inputs
    <3>2. pc \in {"enter", "spawn", "join"} /\ pc' \in {"sequential", "spawn", "join", "merge"}
      BY <2>3 DEF StartSequential, StartParallel, SpawnWorker, SpawnReporter, JoinThreads
    <3> QED
      BY <3>1, <3>2 DEF Map!vars, status
  <2>4. ASSUME NEW w \in Workers, Push(w) PROVE [Map!Next]_(Map!vars)
    BY <2>4, PushMaps
  <2>5. ASSUME NEW w \in Workers, Advance(w) PROVE [Map!Next]_(Map!vars)
    BY <2>5 DEF Advance, inputs, Map!vars, status
  <2>6. ASSUME NEW w \in Workers, ExitProgram(w) PROVE [Map!Next]_(Map!vars)
    <3>1. Running(w) /\ pc' = "exited" /\ UNCHANGED <<n, m, out>>
      BY <2>6 DEF ExitProgram, inputs
    <3>2. n # 0 /\ m # 0 /\ status = "running"
      <4>1. n \in Nat /\ workers \in 1 .. n /\ pc \in {"spawn", "join", "sequential"}
        BY <3>1, RunningFacts
      <4> QED
        BY <4>1 DEF IInv, ControlInv, status
    <3>3. status' = "exited"
      BY <3>1 DEF status
    <3> QED
      BY <3>1, <3>2, <3>3 DEF Map!Next, Map!Exit
  <2>7. CASE Reporter
    BY <2>7 DEF Reporter, ReadCounter, Report, inputs, Map!vars, status
  <2>8. CASE Ended \/ UNCHANGED vars
    BY <2>8 DEF Ended, vars, inputs, Map!vars, status
  <2> QED
    BY <2>1, <2>2, <2>3, <2>4, <2>5, <2>6, <2>7, <2>8 DEF Next, Main, Worker
<1> QED
  BY <1>1, <1>2, Invariance, PTL DEF Spec

=============================================================================
