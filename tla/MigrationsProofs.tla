-------------------------- MODULE MigrationsProofs --------------------------
(***************************************************************************)
(* Two results about the openers of the database, for any number of them.  *)
(*                                                                         *)
(* The clock gate, for any budget, run length and threshold: the service   *)
(* is let in on contiguous good readings only. The inductive invariant     *)
(* says what the counter stands for: its last so many readings were good.  *)
(*                                                                         *)
(* The schema, for any openers, releases and rows, until a plan is         *)
(* committed that a third release made stale: the committed database is    *)
(* always one version's, and who was let in can write while its major      *)
(* lasts. The argument has three parts:                                    *)
(*  - a statement does the same to tables and indexes whatever rows there  *)
(*    are (RunAlike), so a batch that ends on a database with rows ends    *)
(*    like the one on the fresh install (BatchAlike);                      *)
(*  - the order of versions is the order of the list (VersionsSorted);     *)
(*  - SchemaInv: a migration under way is on the way from what it read, or *)
(*    repeats entries that another applied meanwhile, and then it fails at *)
(*    the second of them or has nothing left to change, or it is off its   *)
(*    plan.                                                                *)
(***************************************************************************)
EXTENDS Migrations, TLAPS, WellFoundedInduction

InTheGate(gate) == gate.at \in {"gate", "admitted"}
CountsTheRun(gate) ==
  /\ gate.taken \in Seq(Errors) /\ Len(gate.taken) <= MaxPolls
  /\ gate.streak \in 0..Len(gate.taken)
  /\ \A i \in Len(gate.taken) - gate.streak + 1 .. Len(gate.taken) : is_good(gate.taken[i])
  /\ gate.at = "admitted" => gate.streak >= Consecutive
GateInv ==
  /\ proc = [p \in Openers |-> proc[p]]
  /\ \A p \in Openers : InTheGate(proc[p]) => CountsTheRun(proc[p])

\* One poll: the reading is appended, and the run goes on or starts again.
LEMMA PollCounts ==
  ASSUME NEW gate, NEW error \in Errors, MayPoll(gate), CountsTheRun(gate)
  PROVE  CountsTheRun(AfterPoll(gate, error))
<1> DEFINE next == AfterPoll(gate, error)
<1>1. /\ next.taken = Append(gate.taken, error)
      /\ next.streak = next_streak(gate.streak, is_good(error))
      /\ next.at = "admitted" => next.streak >= Consecutive
  <2>1. next.taken = Append(gate.taken, error) /\ next.streak = next_streak(gate.streak, is_good(error))
    BY DEF AfterPoll
  <2>2. next.at = "admitted" => outcome(next.streak, Len(gate.taken)) = "Ready"
    BY Zenon DEF AfterPoll
  <2> QED
    BY <2>1, <2>2 DEF outcome
<1>2. /\ next.taken \in Seq(Errors) /\ Len(next.taken) = Len(gate.taken) + 1
      /\ Len(next.taken) <= MaxPolls
      /\ next.taken[Len(next.taken)] = error
      /\ \A i \in 1..Len(gate.taken) : next.taken[i] = gate.taken[i]
  BY <1>1, GateAssumption DEF CountsTheRun, MayPoll
<1>3. CASE is_good(error)
  <2>1. next.streak = gate.streak + 1 /\ next.streak \in 0..Len(next.taken)
    BY <1>1, <1>2, <1>3 DEF next_streak, CountsTheRun
  <2>2. ASSUME NEW i \in Len(next.taken) - next.streak + 1 .. Len(next.taken)
        PROVE  is_good(next.taken[i])
    <3>1. CASE i = Len(next.taken)
      BY <1>2, <1>3, <3>1
    <3>2. CASE i \in Len(gate.taken) - gate.streak + 1 .. Len(gate.taken)
      <4>1. i \in 1..Len(gate.taken)
        BY <3>2 DEF CountsTheRun
      <4>2. is_good(gate.taken[i])
        BY <3>2 DEF CountsTheRun
      <4> QED
        BY <1>2, <4>1, <4>2
    <3> QED
      BY <1>2, <2>1, <3>1, <3>2 DEF CountsTheRun
  <2> QED
    BY <1>1, <1>2, <2>1, <2>2 DEF CountsTheRun
<1>4. CASE ~is_good(error)
  BY <1>1, <1>2, <1>4 DEF next_streak, CountsTheRun
<1> QED
  BY <1>3, <1>4

\* The count of the gate is right in every state.
LEMMA GateInvHolds == Spec => []GateInv
<1>1. Init => GateInv
  BY DEF Init, GateInv, Off, InTheGate
<1>2. GateInv /\ [Next]_vars => GateInv'
  <2> SUFFICES ASSUME GateInv, [Next]_vars PROVE GateInv'
    OBVIOUS
  <2> USE DEF GateInv, InTheGate
  <2>1. ASSUME NEW p \in Openers, Poll(p) PROVE GateInv'
    <3>1. PICK error \in Errors :
            proc' = [proc EXCEPT ![p] = IF AfterPoll(proc[p], error).at = "refused" THEN Off
                                        ELSE AfterPoll(proc[p], error)]
      BY <2>1 DEF Poll
    <3>2. MayPoll(proc[p]) /\ CountsTheRun(proc[p])
      BY <2>1 DEF Poll
    <3>3. CountsTheRun(AfterPoll(proc[p], error))
      BY <3>2, PollCounts
    <3>4. proc'[p] = Off \/ proc'[p] = AfterPoll(proc[p], error)
      BY <3>1
    <3>5. InTheGate(proc'[p]) => CountsTheRun(proc'[p])
      BY <3>3, <3>4 DEF Off
    <3> QED
      BY <3>1, <3>5
  <2>2. ASSUME NEW p \in Openers, Gate(p) PROVE GateInv'
    <3>1. CountsTheRun(Waiting)
      BY GateAssumption DEF CountsTheRun, Waiting
    <3> QED
      BY <2>2, <3>1 DEF Gate
  <2>3. ASSUME NEW p \in Openers, \E r : proc' = [proc EXCEPT ![p] = r] /\ ~InTheGate(r)
        PROVE  GateInv'
    BY <2>3
  <2>4. ASSUME NEW p \in Openers,
               Open(p) \/ Refuse(p) \/ Begin(p) \/ Settle(p) \/ Lock(p) \/ BusyTimeout(p) \/ Exit(p)
        PROVE  GateInv'
    BY <2>3, <2>4 DEF Open, Refuse, Begin, Settle, Lock, BusyTimeout, Exit, Off
  <2>5. ASSUME NEW p \in Openers, Migrate(p) \/ CommitMigration(p)
        PROVE  GateInv'
    BY <2>3, <2>5 DEF Migrate, CommitMigration, Off
  <2>6. CASE UNCHANGED proc
    BY <2>6
  <2> QED
    BY <2>1, <2>2, <2>4, <2>5, <2>6 DEF Next, vars, Write, Backfill
<1> QED
  BY <1>1, <1>2, PTL DEF Spec

\* For any budget, run length and threshold: whatever the clock did while the gate
\* waited, the start that is let in has just seen it good Consecutive times in a row.
THEOREM GateAdmitsOnGoodClock == Spec => []AdmittedOnGoodClock
<1>1. GateInv => AdmittedOnGoodClock
  <2> SUFFICES ASSUME GateInv, NEW p \in Gated, proc[p].at = "admitted" PROVE OnGoodReadings(proc[p])
    BY DEF AdmittedOnGoodClock
  <2> DEFINE taken == proc[p].taken
             streak == proc[p].streak
             n == Len(taken)
  <2>1. CountsTheRun(proc[p])
    BY OpenersAssumption DEF GateInv, InTheGate
  <2>2. /\ n \in Nat /\ n <= MaxPolls /\ streak \in 0..n /\ streak >= Consecutive
        /\ \A i \in n - streak + 1 .. n : is_good(taken[i])
    BY <2>1 DEF CountsTheRun
  <2>3. Consecutive \in Nat /\ MaxPolls \in Nat
    BY GateAssumption
  <2> HIDE DEF taken, streak, n
  <2>4. n \in Consecutive..MaxPolls /\ \A i \in n - Consecutive + 1 .. n : i \in n - streak + 1 .. n
    BY ONLY <2>2, <2>3
  <2> QED
    BY <2>2, <2>4 DEF OnGoodReadings, n, taken
<1> QED
  BY <1>1, GateInvHolds, PTL
-----------------------------------------------------------------------------
(* What statements do, whatever rows there are.                            *)
Empty(d) == \A t \in DOMAIN d.tables : d.tables[t].rows = {}

\* The parts of a database and of a table, which the proofs name in place of the records.
LEMMA DatabaseFields ==
  \A v, T, I : /\ Database(v, T, I).version = v /\ Database(v, T, I).tables = T
               /\ Database(v, T, I).indexes = I
BY DEF Database
\* The same of a table.
LEMMA TableFields ==
  \A k, c, f, r : /\ Table(k, c, f, r).key = k /\ Table(k, c, f, r).cols = c
                  /\ Table(k, c, f, r).refs = f /\ Table(k, c, f, r).rows = r
BY DEF Table

\* Databases that are alike still are when the same table is put into both.
LEMMA PutAlike ==
  ASSUME NEW d, NEW e, NEW n, NEW t, NEW u, Alike(d, e), Empty(e), SameTable(t, u), u.rows = {}
  PROVE  Alike(WithTable(d, n, t), WithTable(e, n, u)) /\ Empty(WithTable(e, n, u))
<1> DEFINE f == WithTable(d, n, t)
           g == WithTable(e, n, u)
<1>1. /\ f.indexes = d.indexes /\ g.indexes = e.indexes
      /\ f.tables = [m \in DOMAIN d.tables \cup {n} |-> IF m = n THEN t ELSE d.tables[m]]
      /\ g.tables = [m \in DOMAIN e.tables \cup {n} |-> IF m = n THEN u ELSE e.tables[m]]
  BY DatabaseFields DEF WithTable
<1> HIDE DEF f, g
<1>2. DOMAIN f.tables = DOMAIN g.tables /\ DOMAIN g.tables = DOMAIN e.tables \cup {n} /\ f.indexes = g.indexes
  BY <1>1 DEF Alike
<1>3. ASSUME NEW m \in DOMAIN e.tables \cup {n}
      PROVE  SameTable(f.tables[m], g.tables[m]) /\ g.tables[m].rows = {}
  BY <1>1 DEF Alike, Empty
<1>4. Alike(f, g) /\ Empty(g)
  BY <1>2, <1>3 DEF Alike, Empty
<1> QED
  BY <1>4 DEF f, g

\* A statement that can be run on a database with rows can be run without them, and
\* does the same to tables and indexes.
LEMMA RunAlike ==
  ASSUME NEW d, NEW e, NEW s, Empty(e), Alike(d, e), Possible(d, s)
  PROVE  Possible(e, s) /\ Alike(Run(d, s), Run(e, s)) /\ Empty(Run(e, s))
<1> DEFINE T == DOMAIN d.tables
<1>1. DOMAIN e.tables = T /\ e.indexes = d.indexes
  BY DEF Alike
<1>2. \A t \in T : SameTable(d.tables[t], e.tables[t]) /\ e.tables[t].rows = {}
  BY <1>1 DEF Alike, Empty
<1>3. \A t \in T : Columns(d, t) = Columns(e, t)
  BY <1>2 DEF Columns, SameTable
<1>4. CASE s.do = "create table"
  <2>1. Possible(e, s)
    BY <1>1, <1>4 DEF Possible
  <2>2. Run(d, s) = TableCreated(d, s) /\ Run(e, s) = TableCreated(e, s)
    BY <1>4 DEF Run
  <2> QED
    BY <2>1, <2>2, PutAlike, TableFields DEF TableCreated, SameTable
<1>5. CASE s.do = "create index"
  <2>1. Possible(e, s)
    BY <1>1, <1>3, <1>5 DEF Possible
  <2>2. Run(d, s) = IndexCreated(d, s) /\ Run(e, s) = IndexCreated(e, s)
    BY <1>5 DEF Run
  <2>3. /\ Run(d, s).tables = d.tables /\ Run(e, s).tables = e.tables
        /\ Run(d, s).indexes = Run(e, s).indexes
    BY <1>1, <2>2, DatabaseFields DEF IndexCreated
  <2> QED
    BY <2>1, <2>3 DEF Alike, Empty
<1>6. CASE s.do = "add column"
  <2> DEFINE t == d.tables[s.table]
             u == e.tables[s.table]
  <2>1. Possible(e, s) /\ s.table \in T
    BY <1>1, <1>3, <1>6 DEF Possible
  <2>2. Run(d, s) = ColumnAdded(d, s) /\ Run(e, s) = ColumnAdded(e, s)
    BY <1>6 DEF Run
  <2>3. SameTable(t, u) /\ u.rows = {}
    BY <1>2, <2>1
  <2> QED
    BY <2>1, <2>2, <2>3, PutAlike, TableFields DEF ColumnAdded, SameTable
<1>7. CASE s.do = "drop column"
  <2> DEFINE t == d.tables[s.table]
             u == e.tables[s.table]
             left == DOMAIN t.cols \ {s.col}
  <2>1. Possible(e, s) /\ s.table \in T
    BY <1>1, <1>3, <1>7 DEF Possible
  <2>2. Run(d, s) = ColumnDropped(d, s) /\ Run(e, s) = ColumnDropped(e, s)
    BY <1>7 DEF Run
  <2>3. SameTable(t, u) /\ u.rows = {}
    BY <1>2, <2>1
  <2>4. {Project(row, left) : row \in u.rows} = {}
    BY <2>3
  <2> QED
    BY <2>1, <2>2, <2>3, <2>4, PutAlike, TableFields DEF ColumnDropped, SameTable
<1>8. CASE s.do = "drop table"
  <2>1. Possible(e, s)
    BY <1>1, <1>8 DEF Possible
  <2>2. Run(d, s) = TableDropped(d, s) /\ Run(e, s) = TableDropped(e, s)
    BY <1>8 DEF Run
  <2> DEFINE f == Run(d, s)
             g == Run(e, s)
  <2>3. /\ f.tables = [n \in T \ {s.table} |-> WithRows(d.tables[n], Cascaded(d, s.table, n))]
        /\ g.tables = [n \in T \ {s.table} |-> WithRows(e.tables[n], Cascaded(e, s.table, n))]
        /\ f.indexes = g.indexes
    BY <1>1, <2>2, DatabaseFields DEF TableDropped
  <2>4. \A n \in T \ {s.table} : Cascaded(e, s.table, n) = {}
    BY <1>2 DEF Cascaded
  <2> HIDE DEF f, g
  <2>5. ASSUME NEW n \in T \ {s.table}
        PROVE  SameTable(f.tables[n], g.tables[n]) /\ g.tables[n].rows = {}
    BY <1>2, <2>3, <2>4, TableFields DEF SameTable, WithRows
  <2>6. Alike(f, g) /\ Empty(g)
    BY <2>3, <2>5 DEF Alike, Empty
  <2> QED
    BY <2>1, <2>6 DEF f, g
<1>9. CASE s.do = "rename table"
  <2>1. Possible(e, s) /\ s.table \in T
    BY <1>1, <1>9 DEF Possible
  <2>2. Run(d, s) = TableRenamed(d, s) /\ Run(e, s) = TableRenamed(e, s)
    BY <1>9 DEF Run
  <2> DEFINE f == Run(d, s)
             g == Run(e, s)
             U == (T \ {s.table}) \cup {s.as}
  <2>3. /\ f.tables = [n \in U |-> d.tables[IF n = s.as THEN s.table ELSE n]]
        /\ g.tables = [n \in U |-> e.tables[IF n = s.as THEN s.table ELSE n]]
        /\ f.indexes = g.indexes
    BY <1>1, <2>2, DatabaseFields DEF TableRenamed
  <2> HIDE DEF f, g
  <2>4. ASSUME NEW n \in U
        PROVE  SameTable(f.tables[n], g.tables[n]) /\ g.tables[n].rows = {}
    BY <1>2, <2>1, <2>3
  <2> HIDE DEF U
  <2>5. Alike(f, g) /\ Empty(g)
    BY <2>3, <2>4 DEF Alike, Empty
  <2> QED
    BY <2>1, <2>5 DEF f, g
<1>10. CASE s.do = "copy rows"
  <2> DEFINE t == d.tables[s.as]
             u == e.tables[s.as]
  <2>1. s.as \in T /\ s.table \in T
    BY <1>10 DEF Possible
  <2>2. Copied(e, s) = {}
    BY <1>2, <2>1 DEF Copied
  <2>3. Possible(e, s)
    BY <1>1, <1>3, <1>10, <2>1, <2>2 DEF Possible
  <2>4. Run(d, s) = RowsCopied(d, s) /\ Run(e, s) = RowsCopied(e, s)
    BY <1>10 DEF Run
  <2>5. SameTable(t, u) /\ u.rows = {}
    BY <1>2, <2>1
  <2> QED
    BY <2>2, <2>3, <2>4, <2>5, PutAlike, TableFields DEF RowsCopied, WithRows, SameTable
<1> QED
  BY <1>4, <1>5, <1>6, <1>7, <1>8, <1>9, <1>10 DEF Possible

\* Whatever goes wrong at some statement goes wrong at a first one.
LEMMA LeastNumber ==
  ASSUME NEW T \in SUBSET Nat, T # {}
  PROVE  \E x \in T : \A y \in T : x <= y
<1> DEFINE R == OpToRel(<, Nat)
<1>1. IsWellFoundedOn(R, Nat)
  BY NatLessThanWellFounded
<1> HIDE DEF R
<1>2. PICK x \in T : \A y \in T : ~ (<<y, x>> \in R)
  BY <1>1, WFMin
<1>3. \A y \in T : ~ (y < x)
  BY <1>2 DEF R, OpToRel
<1> QED
  BY <1>3

\* A list of statements can be run from its beginning, one after the other.
Begins(f, d) == f[0] = [ok |-> TRUE, db |-> d]
Goes(f, sql, k) == \A i \in 1..k : f[i] = AfterStatement(f[i - 1], sql[i])
\* execute_batch as the record of every statement's outcome.
LEMMA BatchRuns ==
  ASSUME NEW d, NEW sql, Len(sql) \in Nat
  PROVE  \E f : Begins(f, d) /\ Goes(f, sql, Len(sql)) /\ execute_batch(d, sql) = f[Len(sql)]
<1> DEFINE n == Len(sql)
           Step(f, i) == IF i = 0 THEN [ok |-> TRUE, db |-> d] ELSE AfterStatement(f[i - 1], sql[i])
           Defined(k) == \E f : f = [i \in 0..k |-> Step(f, i)]
           Bad == {k \in 0..n : ~Defined(k)}
<1>1. n \in Nat
  OBVIOUS
<1>2. Bad = {}
  <2>1. SUFFICES ASSUME Bad # {} PROVE FALSE
    OBVIOUS
  <2>2. PICK k \in Bad : \A l \in Bad : k <= l
    <3>1. Bad \in SUBSET Nat
      BY <1>1
    <3> HIDE DEF Bad
    <3> QED
      BY <2>1, <3>1, LeastNumber
  <2>3. k \in 0..n /\ ~Defined(k)
    OBVIOUS
  <2>4. CASE k = 0
    <3> DEFINE f == [i \in 0..0 |-> [ok |-> TRUE, db |-> d]]
    <3>1. \A i \in 0..0 : Step(f, i) = [ok |-> TRUE, db |-> d]
      OBVIOUS
    <3>2. f = [i \in 0..k |-> Step(f, i)]
      BY <2>4, <3>1
    <3> HIDE DEF f, Step
    <3> QED
      BY <2>3, <3>2
  <2>5. CASE k # 0
    <3>1. k \in Nat /\ k - 1 \in 0..n
      BY <1>1, <2>3, <2>5
    <3>2. Defined(k - 1)
      <4>1. k - 1 \notin Bad
        <5> HIDE DEF Bad
        <5> QED
          BY <2>2, <3>1
      <4> HIDE DEF Defined
      <4> QED
        BY <3>1, <4>1
    <3>3. PICK f : f = [i \in 0..k - 1 |-> Step(f, i)]
      BY <3>2
    <3> DEFINE g == [i \in 0..k |-> IF i = k THEN Step(f, i) ELSE f[i]]
    <3>4. \A i \in 0..k - 1 : g[i] = f[i] /\ f[i] = Step(f, i)
      <4>1. \A i \in 0..k - 1 : i \in 0..k /\ i # k
        BY <3>1
      <4> HIDE DEF Step
      <4> QED
        BY <3>3, <4>1
    <3>5. \A i \in 0..k : Step(g, i) = Step(f, i)
      <4> TAKE i \in 0..k
      <4>1. CASE i = 0
        BY <4>1
      <4>2. CASE i # 0
        <5>1. i - 1 \in 0..k - 1
          BY <3>1, <4>2
        <5>2. g[i - 1] = f[i - 1]
          BY <3>4, <5>1
        <5> HIDE DEF g
        <5> QED
          BY <4>2, <5>2
      <4> QED
        BY <4>1, <4>2
    <3>6. \A i \in 0..k : g[i] = Step(g, i)
      <4>1. \A i \in 0..k : i = k \/ i \in 0..k - 1
        BY <3>1
      <4>2. k \in 0..k
        BY <3>1
      <4> HIDE DEF Step
      <4>3. g[k] = Step(f, k)
        BY <4>2
      <4> HIDE DEF g
      <4> QED
        BY <3>4, <3>5, <4>1, <4>2, <4>3
    <3>7. g = [i \in 0..k |-> Step(g, i)]
      <4> HIDE DEF Step
      <4>1. g = [i \in 0..k |-> g[i]]
        OBVIOUS
      <4> HIDE DEF g
      <4> QED
        BY <3>6, <4>1
    <3> HIDE DEF g, Step
    <3> QED
      BY <2>3, <3>7
  <2> QED
    BY <2>4, <2>5
<1>3. n \in 0..n
  BY <1>1
<1>4. Defined(n)
  <2> HIDE DEF Defined
  <2> QED
    BY <1>2, <1>3
<1> DEFINE f == CHOOSE f : f = [i \in 0..n |-> Step(f, i)]
<1>5. f = [i \in 0..n |-> Step(f, i)]
  <2> HIDE DEF Step
  <2> QED
    BY <1>4
<1>6. execute_batch(d, sql) = f[n]
  BY DEF execute_batch
<1> HIDE DEF f
<1>7. \A i \in 0..n : f[i] = Step(f, i)
  <2> HIDE DEF Step
  <2> QED
    BY <1>5
<1>8. Begins(f, d)
  <2>1. 0 \in 0..n
    BY <1>1
  <2> QED
    BY <1>7, <2>1 DEF Begins
<1>9. Goes(f, sql, n)
  <2> SUFFICES ASSUME NEW i \in 1..n PROVE f[i] = AfterStatement(f[i - 1], sql[i])
    BY DEF Goes
  <2>1. i \in 0..n /\ i # 0
    BY <1>1
  <2> QED
    BY <1>7, <2>1
<1> QED
  BY <1>6, <1>8, <1>9

\* A list of statements that can be run on a database with rows can be run without them,
\* and what it makes of tables and indexes is the same.
LEMMA BatchAlike ==
  ASSUME NEW d, NEW e, NEW sql, Len(sql) \in Nat, Alike(d, e), Empty(e), execute_batch(d, sql).ok
  PROVE  /\ execute_batch(e, sql).ok /\ Empty(execute_batch(e, sql).db)
         /\ Alike(execute_batch(d, sql).db, execute_batch(e, sql).db)
<1> DEFINE n == Len(sql)
<1>1. PICK f : Begins(f, d) /\ Goes(f, sql, n) /\ execute_batch(d, sql) = f[n]
  BY BatchRuns
<1>2. PICK g : Begins(g, e) /\ Goes(g, sql, n) /\ execute_batch(e, sql) = g[n]
  BY BatchRuns
<1> DEFINE Same(i) == f[i].ok => g[i].ok /\ Empty(g[i].db) /\ Alike(f[i].db, g[i].db)
           Bad == {i \in 0..n : ~Same(i)}
<1>3. n \in Nat
  OBVIOUS
<1> HIDE DEF n
<1>4. Bad = {}
  <2>1. SUFFICES ASSUME Bad # {} PROVE FALSE
    OBVIOUS
  <2>2. PICK k \in Bad : \A l \in Bad : k <= l
    <3>1. Bad \in SUBSET Nat
      BY <1>3
    <3> HIDE DEF Bad
    <3> QED
      BY <2>1, <3>1, LeastNumber
  <2>3. k \in 0..n /\ ~Same(k)
    OBVIOUS
  <2>4. Same(0)
    BY <1>1, <1>2 DEF Begins
  <2>5. k \in 1..n /\ k - 1 \in 0..n /\ ~(k <= k - 1)
    BY <1>3, <2>3, <2>4
  <2>6. Same(k - 1)
    <3>1. k - 1 \notin Bad
      <4> HIDE DEF Bad
      <4> QED
        BY <2>2, <2>5
    <3> HIDE DEF Same
    <3> QED
      BY <2>5, <3>1
  <2>7. f[k] = AfterStatement(f[k - 1], sql[k]) /\ g[k] = AfterStatement(g[k - 1], sql[k])
    BY <1>1, <1>2, <2>5 DEF Goes
  <2>8. f[k].ok
    BY <2>3
  <2>9. f[k - 1].ok /\ Possible(f[k - 1].db, sql[k]) /\ f[k].db = Run(f[k - 1].db, sql[k])
    BY <2>7, <2>8 DEF AfterStatement
  <2>10. /\ Possible(g[k - 1].db, sql[k]) /\ Empty(Run(g[k - 1].db, sql[k]))
         /\ Alike(Run(f[k - 1].db, sql[k]), Run(g[k - 1].db, sql[k]))
    BY <2>6, <2>9, RunAlike
  <2>11. g[k].ok /\ g[k].db = Run(g[k - 1].db, sql[k])
    BY <2>6, <2>7, <2>9, <2>10 DEF AfterStatement
  <2> QED
    BY <2>3, <2>9, <2>10, <2>11
<1>5. Same(n)
  <2>1. n \in 0..n
    BY <1>3
  <2> HIDE DEF Same
  <2> QED
    BY <1>4, <2>1
<1> QED
  BY <1>1, <1>2, <1>5

\* The databases of a fresh install follow one from the other.
LEMMA FreshDefined ==
  /\ DOMAIN Fresh = 0..Len(MIGRATIONS) /\ Fresh[0] = NoDatabase
  /\ \A n \in 1..Len(MIGRATIONS) :
       Fresh[n] = AtVersion(execute_batch(Fresh[n - 1], MIGRATIONS[n].sql).db, MIGRATIONS[n].version)
<1> DEFINE L == Len(MIGRATIONS)
           Step(f, i) == IF i = 0 THEN NoDatabase
                         ELSE AtVersion(execute_batch(f[i - 1], MIGRATIONS[i].sql).db, MIGRATIONS[i].version)
           Defined(k) == \E f : f = [i \in 0..k |-> Step(f, i)]
           Bad == {k \in 0..L : ~Defined(k)}
<1>1. L \in Nat
  BY DEF MIGRATIONS
<1> HIDE DEF L
<1>2. Bad = {}
  <2>1. SUFFICES ASSUME Bad # {} PROVE FALSE
    OBVIOUS
  <2>2. PICK k \in Bad : \A l \in Bad : k <= l
    <3>1. Bad \in SUBSET Nat
      BY <1>1
    <3> HIDE DEF Bad
    <3> QED
      BY <2>1, <3>1, LeastNumber
  <2>3. k \in 0..L /\ ~Defined(k)
    OBVIOUS
  <2>4. CASE k = 0
    <3> DEFINE f == [i \in 0..0 |-> NoDatabase]
    <3>1. \A i \in 0..0 : Step(f, i) = NoDatabase
      OBVIOUS
    <3>2. f = [i \in 0..k |-> Step(f, i)]
      BY <2>4, <3>1
    <3> HIDE DEF f, Step
    <3> QED
      BY <2>3, <3>2
  <2>5. CASE k # 0
    <3>1. k \in Nat /\ k - 1 \in 0..L
      BY <1>1, <2>3, <2>5
    <3>2. Defined(k - 1)
      <4>1. k - 1 \notin Bad
        <5> HIDE DEF Bad
        <5> QED
          BY <2>2, <3>1
      <4> HIDE DEF Defined
      <4> QED
        BY <3>1, <4>1
    <3>3. PICK f : f = [i \in 0..k - 1 |-> Step(f, i)]
      BY <3>2
    <3> DEFINE g == [i \in 0..k |-> IF i = k THEN Step(f, i) ELSE f[i]]
    <3>4. \A i \in 0..k - 1 : g[i] = f[i] /\ f[i] = Step(f, i)
      <4>1. \A i \in 0..k - 1 : i \in 0..k /\ i # k
        BY <3>1
      <4> HIDE DEF Step
      <4> QED
        BY <3>3, <4>1
    <3>5. \A i \in 0..k : Step(g, i) = Step(f, i)
      <4> TAKE i \in 0..k
      <4>1. CASE i = 0
        BY <4>1
      <4>2. CASE i # 0
        <5>1. i - 1 \in 0..k - 1
          BY <3>1, <4>2
        <5>2. g[i - 1] = f[i - 1]
          BY <3>4, <5>1
        <5> HIDE DEF g
        <5> QED
          BY <4>2, <5>2
      <4> QED
        BY <4>1, <4>2
    <3>6. \A i \in 0..k : g[i] = Step(g, i)
      <4>1. \A i \in 0..k : i = k \/ i \in 0..k - 1
        BY <3>1
      <4>2. k \in 0..k
        BY <3>1
      <4> HIDE DEF Step
      <4>3. g[k] = Step(f, k)
        BY <4>2
      <4> HIDE DEF g
      <4> QED
        BY <3>4, <3>5, <4>1, <4>2, <4>3
    <3>7. g = [i \in 0..k |-> Step(g, i)]
      <4> HIDE DEF Step
      <4>1. g = [i \in 0..k |-> g[i]]
        OBVIOUS
      <4> HIDE DEF g
      <4> QED
        BY <3>6, <4>1
    <3> HIDE DEF g, Step
    <3> QED
      BY <2>3, <3>7
  <2> QED
    BY <2>4, <2>5
<1>3. L \in 0..L
  BY <1>1
<1>4. Defined(L)
  <2> HIDE DEF Defined
  <2> QED
    BY <1>2, <1>3
<1> DEFINE f == CHOOSE f : f = [i \in 0..L |-> Step(f, i)]
<1>5. f = [i \in 0..L |-> Step(f, i)]
  <2> HIDE DEF Step
  <2> QED
    BY <1>4
<1>6. Fresh = f
  BY DEF Fresh, L
<1> HIDE DEF f
<1>7. \A i \in 0..L : Fresh[i] = Step(Fresh, i)
  <2> HIDE DEF Step
  <2> QED
    BY <1>5, <1>6
<1>8. Fresh[0] = NoDatabase
  <2>1. 0 \in 0..L
    BY <1>1
  <2> QED
    BY <1>7, <2>1
<1>9. ASSUME NEW n \in 1..L
      PROVE  Fresh[n] = AtVersion(execute_batch(Fresh[n - 1], MIGRATIONS[n].sql).db, MIGRATIONS[n].version)
  <2>1. n \in 0..L /\ n # 0
    BY <1>1
  <2> QED
    BY <1>7, <2>1
<1>10. DOMAIN Fresh = 0..L
  BY <1>5, <1>6
<1> QED
  BY <1>8, <1>9, <1>10 DEF L

\* Every entry is a finite list of statements.
LEMMA ListsOfStatements == \A n \in 1..Len(MIGRATIONS) : Len(MIGRATIONS[n].sql) \in Nat
BY DEF MIGRATIONS, Migration_1_0, Migration_2_0

-----------------------------------------------------------------------------
(* Versions.                                                               *)
Releases == 1..Len(MIGRATIONS)
\* The list is finite.
LEMMA ReleaseCount == Len(MIGRATIONS) \in Nat
BY DEF MIGRATIONS

\* Numbers of a version that its one integer can hold.
Numbered(v) == v.major \in 1..999 /\ v.minor \in 0..999
\* The list's versions are made of such numbers.
LEMMA VersionsFit ==
  \A n \in Releases : LET v == MIGRATIONS[n].version IN Numbered(v) /\ v = Version(v.major, v.minor)
<1> TAKE n \in Releases
<1> DEFINE v == MIGRATIONS[n].version
           limit == COMPONENT_LIMIT - 1
<1>1. limit = 999
  BY DEF COMPONENT_LIMIT
<1>2. v \in [major : 1..limit, minor : 0..limit]
  <2>1. n \in 1..Len(MIGRATIONS)
    BY DEF Releases
  <2> QED
    BY <2>1, SortedAssumption
<1> HIDE DEF v, limit
<1>3. Numbered(v) /\ v = Version(v.major, v.minor)
  BY ONLY <1>1, <1>2 DEF Numbered, Version
<1> QED
  BY <1>3 DEF v

\* A version is read from user_version as it was written there.
LEMMA VersionsReadBack == \A n \in Releases : decode(encode(MIGRATIONS[n].version)) = MIGRATIONS[n].version
<1> TAKE n \in Releases
<1> DEFINE v == MIGRATIONS[n].version
           a == v.major
           b == v.minor
<1>1. a \in 1..999 /\ b \in 0..999 /\ v = Version(a, b)
  BY VersionsFit DEF Numbered
<1> HIDE DEF v
<1>2. encode(v) = IF b = 0 THEN a ELSE a * 1000 + b
  BY DEF encode, COMPONENT_LIMIT
<1> HIDE DEF a, b
<1>3. CASE b = 0
  <2>1. encode(v) = a
    BY <1>2, <1>3
  <2>2. decode(a) = Version(a, 0)
    BY <1>1 DEF decode, COMPONENT_LIMIT
  <2> QED
    BY <1>1, <1>3, <2>1, <2>2 DEF v
<1>4. CASE b # 0
  <2>1. encode(v) = a * 1000 + b
    BY <1>2, <1>4
  <2>2. ~(a * 1000 + b < 1000)
    BY <1>1
  <2>3. decode(a * 1000 + b) = Version((a * 1000 + b) \div 1000, (a * 1000 + b) % 1000)
    BY <2>2 DEF decode, COMPONENT_LIMIT
  <2>4. (a * 1000 + b) \div 1000 = a /\ (a * 1000 + b) % 1000 = b
    BY <1>1
  <2> QED
    BY <1>1, <2>1, <2>3, <2>4 DEF v
<1> QED
  BY <1>3, <1>4

VersionOf(n) == decode(Fresh[n].version)
\* user_version of a fresh install is the version of its last entry.
LEMMA FreshVersions ==
  /\ VersionOf(0) = Version(0, 0)
  /\ \A n \in Releases : VersionOf(n) = MIGRATIONS[n].version
<1>1. Fresh[0].version = 0
  BY FreshDefined, DatabaseFields DEF NoDatabase
<1>2. \A n \in Releases : Fresh[n].version = encode(MIGRATIONS[n].version)
  BY FreshDefined, DatabaseFields DEF AtVersion, Releases
<1> QED
  BY <1>1, <1>2, VersionsReadBack DEF VersionOf, decode, COMPONENT_LIMIT

\* The half of it that orders versions.
LEMMA VersionNumbers == \A n \in Releases : Numbered(MIGRATIONS[n].version)
BY VersionsFit

\* The derived order of Version, major before minor, is a strict one.
LEMMA OrderOfVersions ==
  ASSUME NEW v, NEW w, Numbered(v), Numbered(w)
  PROVE  /\ ~Precedes(v, v) /\ (Precedes(v, w) => ~Precedes(w, v) /\ w.major >= v.major)
         /\ v.major >= v.major /\ Precedes(Version(0, 0), v)
<1> DEFINE a == v.major
           b == v.minor
           c == w.major
           d == w.minor
<1>1. a \in 1..999 /\ b \in 0..999 /\ c \in 1..999 /\ d \in 0..999
  BY DEF Numbered
<1>2. Version(0, 0).major = 0
  BY DEF Version
<1>3. Precedes(v, w) <=> (a < c \/ (a = c /\ b < d))
  BY DEF Precedes
<1>4. Precedes(w, v) <=> (c < a \/ (c = a /\ d < b))
  BY DEF Precedes
<1>5. Precedes(v, v) <=> (a < a \/ (a = a /\ b < b))
  BY DEF Precedes
<1>6. 0 < a => Precedes(Version(0, 0), v)
  BY <1>2 DEF Precedes
<1> HIDE DEF a, b, c, d
<1>0. a \in Int /\ b \in Int /\ c \in Int /\ d \in Int /\ a >= 1
  BY <1>1
<1>7. /\ ~Precedes(v, v) /\ (Precedes(v, w) => ~Precedes(w, v) /\ c >= a)
      /\ a >= a /\ Precedes(Version(0, 0), v)
  BY <1>0, <1>3, <1>4, <1>5, <1>6
<1> QED
  BY <1>7 DEF a, c

\* The order of versions is that of the list.
LEMMA VersionsSorted ==
  \A n \in 0..Len(MIGRATIONS), i \in Releases :
    /\ Precedes(VersionOf(n), MIGRATIONS[i].version) <=> n < i
    /\ i <= n => VersionOf(n).major >= MIGRATIONS[i].version.major
<1> TAKE n \in 0..Len(MIGRATIONS), i \in Releases
<1> DEFINE L == Len(MIGRATIONS)
           v == MIGRATIONS[i].version
           w == VersionOf(n)
<1>1. L \in Nat /\ n \in 0..L /\ i \in 1..L
  BY ReleaseCount DEF Releases
<1>2. n \in Int /\ i \in Int /\ n >= 0 /\ i >= 1
  BY <1>1
<1>3. Numbered(v)
  BY VersionNumbers
<1>4. w = IF n = 0 THEN Version(0, 0) ELSE MIGRATIONS[n].version
  <2>1. n # 0 => n \in Releases
    BY <1>1 DEF Releases
  <2> QED
    BY <2>1, FreshVersions
<1>5. CASE n = 0
  <2>1. n < i /\ ~(i <= n)
    BY <1>2, <1>5
  <2>2. w = Version(0, 0) /\ Precedes(Version(0, 0), v)
    BY <1>3, <1>4, <1>5, OrderOfVersions
  <2> QED
    BY <2>1, <2>2
<1>6. CASE n # 0
  <2>1. n \in Releases /\ w = MIGRATIONS[n].version
    BY <1>1, <1>4, <1>6 DEF Releases
  <2>2. Numbered(w)
    BY <2>1, VersionNumbers
  <2>3. (n < i => Precedes(w, v)) /\ (i < n => Precedes(v, w)) /\ (n = i => w = v)
    <3>1. \A j, k \in Releases : j < k => Precedes(MIGRATIONS[j].version, MIGRATIONS[k].version)
      BY SortedAssumption DEF Releases
    <3> QED
      BY <2>1, <3>1
  <2> HIDE DEF v, w, L
  <2>4. \/ n < i /\ ~(i <= n) /\ ~(n = i)
        \/ i < n /\ ~(n < i)
        \/ n = i /\ ~(n < i)
    BY <1>2
  <2>5. (Precedes(w, v) <=> n < i) /\ (i <= n => w.major >= v.major)
    BY <1>3, <2>2, <2>3, <2>4, OrderOfVersions
  <2> QED
    BY <2>5 DEF v, w
<1> QED
  BY <1>5, <1>6

\* Each place has a version of its own.
LEMMA VersionsDiffer ==
  ASSUME NEW n \in 0..Len(MIGRATIONS), NEW i \in 0..Len(MIGRATIONS), VersionOf(n) = VersionOf(i)
  PROVE  n = i
<1>1. ASSUME NEW a \in 0..Len(MIGRATIONS), NEW b \in 0..Len(MIGRATIONS), a < b, VersionOf(a) = VersionOf(b)
      PROVE  FALSE
  <2>1. b \in Releases
    <3> DEFINE L == Len(MIGRATIONS)
    <3>1. L \in Nat /\ a \in 0..L /\ b \in 0..L
      BY ReleaseCount
    <3> HIDE DEF L
    <3>2. b \in 1..L
      BY <1>1, <3>1
    <3> QED
      BY <3>2 DEF L, Releases
  <2>2. Precedes(VersionOf(a), MIGRATIONS[b].version)
    BY <1>1, <2>1, VersionsSorted
  <2>3. b \in Int
    BY <1>1
  <2>4. ~Precedes(VersionOf(b), MIGRATIONS[b].version)
    BY <2>1, <2>3, VersionsSorted
  <2> QED
    BY <1>1, <2>2, <2>4
<1>2. n < i \/ i < n \/ n = i
  BY ReleaseCount
<1> QED
  BY <1>1, <1>2

\* Being alike is an equivalence.
LEMMA AlikeIsAnEquality ==
  ASSUME NEW d, NEW e
  PROVE  /\ Alike(d, d) /\ (Alike(d, e) => Alike(e, d))
         /\ \A f : Alike(d, e) /\ Alike(e, f) => Alike(d, f)
BY DEF Alike, SameTable

\* A list of statements puts no rows into tables that have none.
LEMMA BatchEmpty ==
  ASSUME NEW e, NEW sql, Len(sql) \in Nat, Empty(e)
  PROVE  Empty(execute_batch(e, sql).db)
<1> DEFINE n == Len(sql)
<1>1. PICK f : Begins(f, e) /\ Goes(f, sql, n) /\ execute_batch(e, sql) = f[n]
  BY BatchRuns
<1> DEFINE None(i) == Empty(f[i].db)
           Bad == {i \in 0..n : ~None(i)}
<1>2. n \in Nat
  OBVIOUS
<1> HIDE DEF n
<1>3. Bad = {}
  <2>1. SUFFICES ASSUME Bad # {} PROVE FALSE
    OBVIOUS
  <2>2. PICK k \in Bad : \A l \in Bad : k <= l
    <3>1. Bad \in SUBSET Nat
      BY <1>2
    <3> HIDE DEF Bad
    <3> QED
      BY <2>1, <3>1, LeastNumber
  <2>3. k \in 0..n /\ ~None(k)
    OBVIOUS
  <2>4. None(0)
    BY <1>1 DEF Begins
  <2>5. k \in 1..n /\ k - 1 \in 0..n /\ ~(k <= k - 1)
    BY <1>2, <2>3, <2>4
  <2>6. None(k - 1)
    <3>1. k - 1 \notin Bad
      <4> HIDE DEF Bad
      <4> QED
        BY <2>2, <2>5
    <3> HIDE DEF None
    <3> QED
      BY <2>5, <3>1
  <2>7. f[k] = AfterStatement(f[k - 1], sql[k])
    BY <1>1, <2>5 DEF Goes
  <2>8. f[k].db = f[k - 1].db \/ (Possible(f[k - 1].db, sql[k]) /\ f[k].db = Run(f[k - 1].db, sql[k]))
    BY <2>7 DEF AfterStatement
  <2>9. Alike(f[k - 1].db, f[k - 1].db)
    BY AlikeIsAnEquality
  <2> QED
    BY <2>3, <2>6, <2>8, <2>9, RunAlike
<1>4. None(n)
  <2>1. n \in 0..n
    BY <1>2
  <2> HIDE DEF None
  <2> QED
    BY <1>3, <2>1
<1> QED
  BY <1>1, <1>4

\* A fresh install has no rows.
LEMMA FreshEmpty == \A n \in 0..Len(MIGRATIONS) : Empty(Fresh[n])
<1> DEFINE L == Len(MIGRATIONS)
           None(i) == Empty(Fresh[i])
           Bad == {i \in 0..L : ~None(i)}
<1>1. L \in Nat
  BY ReleaseCount
<1> HIDE DEF L
<1>2. Bad = {}
  <2>1. SUFFICES ASSUME Bad # {} PROVE FALSE
    OBVIOUS
  <2>2. PICK k \in Bad : \A l \in Bad : k <= l
    <3>1. Bad \in SUBSET Nat
      BY <1>1
    <3> HIDE DEF Bad
    <3> QED
      BY <2>1, <3>1, LeastNumber
  <2>3. k \in 0..L /\ ~None(k)
    OBVIOUS
  <2>4. None(0)
    <3>1. DOMAIN Fresh[0].tables = {}
      BY FreshDefined, DatabaseFields DEF NoDatabase
    <3> QED
      BY <3>1 DEF Empty
  <2>5. k \in 1..L /\ k - 1 \in 0..L /\ ~(k <= k - 1)
    BY <1>1, <2>3, <2>4
  <2>6. None(k - 1)
    <3>1. k - 1 \notin Bad
      <4> HIDE DEF Bad
      <4> QED
        BY <2>2, <2>5
    <3> HIDE DEF None
    <3> QED
      BY <2>5, <3>1
  <2> DEFINE done == execute_batch(Fresh[k - 1], MIGRATIONS[k].sql).db
  <2>7. Fresh[k] = AtVersion(done, MIGRATIONS[k].version)
    BY <2>5, FreshDefined DEF L
  <2>8. Len(MIGRATIONS[k].sql) \in Nat
    BY <2>5, ListsOfStatements DEF L
  <2>9. Empty(done)
    BY <2>6, <2>8, BatchEmpty
  <2> HIDE DEF done
  <2>10. Empty(AtVersion(done, MIGRATIONS[k].version))
    BY <2>9, DatabaseFields DEF AtVersion, Empty
  <2> QED
    BY <2>3, <2>7, <2>10
<1> QED
  BY <1>2 DEF L

\* user_version is set beside the tables.
LEMMA VersionApart ==
  ASSUME NEW d, NEW v
  PROVE  Alike(AtVersion(d, v), d) /\ AtVersion(d, v).version = encode(v)
<1>1. /\ AtVersion(d, v).tables = d.tables /\ AtVersion(d, v).indexes = d.indexes
      /\ AtVersion(d, v).version = encode(v)
  BY DatabaseFields DEF AtVersion
<1> QED
  BY <1>1 DEF Alike, SameTable

\* The next entry, applied to what is like a fresh install of the one before it.
LEMMA NextRelease ==
  ASSUME NEW d, NEW n \in Releases, Alike(d, Fresh[n - 1]), execute_batch(d, MIGRATIONS[n].sql).ok
  PROVE  Alike(execute_batch(d, MIGRATIONS[n].sql).db, Fresh[n])
<1> DEFINE sql == MIGRATIONS[n].sql
           done == execute_batch(d, sql).db
           fresh == execute_batch(Fresh[n - 1], sql).db
<1>1. n - 1 \in 0..Len(MIGRATIONS)
  BY ReleaseCount DEF Releases
<1>2. Empty(Fresh[n - 1])
  BY <1>1, FreshEmpty
<1>3. Len(sql) \in Nat
  BY ListsOfStatements DEF Releases
<1>4. Alike(done, fresh)
  BY <1>2, <1>3, BatchAlike
<1>5. Fresh[n] = AtVersion(fresh, MIGRATIONS[n].version)
  BY FreshDefined DEF Releases
<1> HIDE DEF done, fresh, sql
<1>6. Alike(fresh, Fresh[n])
  BY <1>5, VersionApart, AlikeIsAnEquality
<1> QED
  BY <1>4, <1>6, AlikeIsAnEquality DEF done, sql

\* The entry of a release applied to what has it: it changes nothing, or the next one fails.
Doomed(work, i) == ~execute_batch(work, MIGRATIONS[i].sql).ok
\* What RepeatsAssumption says of a fresh install, of any database like it.
LEMMA RepeatedEntry ==
  ASSUME NEW d, NEW n \in Releases, NEW i \in Releases, i <= n, Alike(d, Fresh[n]),
         execute_batch(d, MIGRATIONS[i].sql).ok
  PROVE  IF i = n THEN Alike(execute_batch(d, MIGRATIONS[i].sql).db, Fresh[n])
         ELSE Doomed(execute_batch(d, MIGRATIONS[i].sql).db, i + 1)
<1> DEFINE sql == MIGRATIONS[i].sql
           done == execute_batch(d, sql)
           once == execute_batch(Fresh[n], sql)
<1>1. n \in 0..Len(MIGRATIONS) /\ i \in 1..n
  BY ReleaseCount DEF Releases
<1>2. Empty(Fresh[n])
  BY <1>1, FreshEmpty
<1>3. Len(sql) \in Nat
  BY ListsOfStatements DEF Releases
<1>4. once.ok /\ Empty(once.db) /\ Alike(done.db, once.db)
  BY <1>2, <1>3, BatchAlike
<1>5. once.ok => IF i = n THEN Alike(once.db, Fresh[n])
                 ELSE ~execute_batch(once.db, MIGRATIONS[i + 1].sql).ok
  BY <1>1, RepeatsAssumption DEF Releases
<1> HIDE DEF done, once
<1>6. CASE i = n
  <2>1. Alike(done.db, Fresh[n])
    BY <1>4, <1>5, <1>6, AlikeIsAnEquality
  <2> QED
    BY <1>6, <2>1 DEF done
<1>7. CASE i # n
  <2>1. ~execute_batch(once.db, MIGRATIONS[i + 1].sql).ok
    BY <1>4, <1>5, <1>7
  <2>2. i + 1 \in 1..Len(MIGRATIONS)
    <3>1. Len(MIGRATIONS) \in Nat /\ n \in 1..Len(MIGRATIONS)
      BY ReleaseCount DEF Releases
    <3> QED
      BY <1>1, <1>7, <3>1
  <2>3. Len(MIGRATIONS[i + 1].sql) \in Nat
    BY <2>2, ListsOfStatements
  <2>4. ~execute_batch(done.db, MIGRATIONS[i + 1].sql).ok
    BY <1>4, <2>1, <2>3, BatchAlike
  <2> QED
    BY <1>7, <2>4 DEF done, Doomed
<1> QED
  BY <1>6, <1>7
-----------------------------------------------------------------------------
Stands(d, n) == d.version = Fresh[n].version /\ Alike(d, Fresh[n])
Running == {"opened", "begun", "migrating", "ready"}
OfARelease(r) == r.at \in Running => r.binary \in Binaries
\* What was read when the migration began is older than the release.
BegunRight(r) == r.at = "begun" => \E n \in 0..r.binary - 1 : r.current = VersionOf(n)
\* Either the work is on the way from what was read, or the entries are applied to
\* what has them: the first is next, or the second, which fails. Or the database is
\* not what the plan was made for.
WorkRight(r, d) ==
  r.at = "migrating" =>
    \E n \in 0..r.binary - 1 :
      /\ r.current = VersionOf(n) /\ r.next \in n + 1..r.binary + 1
      /\ \/ OffPlan(r, d)
         \/ Alike(r.work, Fresh[r.next - 1])
         \/ r.next = n + 1 /\ Alike(r.work, Fresh[r.binary])
         \/ r.next = n + 2 /\ r.next <= r.binary /\ Doomed(r.work, r.next)
\* Whoever may write found its version or a minor after it, and none before it came since.
ReadyRight(r, d) ==
  r.at = "ready" =>
    /\ r.found.major = MIGRATIONS[r.binary].version.major
    /\ \E n \in r.binary..Len(MIGRATIONS) : Stands(d, n)
Right(r, d) == OfARelease(r) /\ BegunRight(r) /\ WorkRight(r, d) /\ ReadyRight(r, d)

Typed == DOMAIN proc = Openers
OneAtATime == \A p, q \in Openers : proc[p].at = "migrating" /\ proc[q].at = "migrating" => p = q
DatabaseRight == \E n \in 0..Len(MIGRATIONS) : Stands(db, n)
SchemaInv ==
  /\ Typed /\ OneAtATime
  /\ ~stale => DatabaseRight /\ \A p \in Openers : Right(proc[p], db)

\* An opener that has read nothing yet can be wrong about nothing.
LEMMA Idle == ASSUME NEW r, NEW d, r.at \notin Running PROVE Right(r, d)
BY DEF Right, Running, OfARelease, BegunRight, WorkRight, ReadyRight
\* The states of an opener that has nothing open.
LEMMA IdleStates ==
  /\ Off.at = "off" /\ Waiting.at = "gate"
  /\ \A gate, error : AfterPoll(gate, error).at \in {"gate", "admitted", "refused"}
  /\ "off" \notin Running /\ "gate" \notin Running /\ "admitted" \notin Running /\ "refused" \notin Running
<1>1. \A gate, error : AfterPoll(gate, error).at \in {"gate", "admitted", "refused"}
  BY Zenon DEF AfterPoll
<1> QED
  BY <1>1 DEF Off, Waiting, Running

\* One opener moves on, and the database is left alone.
LEMMA OpenerMoves ==
  ASSUME SchemaInv, NEW p \in Openers, NEW r, proc' = [proc EXCEPT ![p] = r], UNCHANGED <<db, stale>>,
         ~stale => Right(r, db), r.at = "migrating" => Unlocked \/ proc[p].at = "migrating"
  PROVE  SchemaInv'
<1>1. DOMAIN proc' = Openers /\ proc'[p] = r /\ \A q \in Openers \ {p} : proc'[q] = proc[q]
  BY DEF SchemaInv, Typed
<1>2. Typed'
  BY <1>1 DEF SchemaInv, Typed
<1>3. OneAtATime'
  BY <1>1 DEF SchemaInv, OneAtATime, Unlocked
<1>4. ~stale => DatabaseRight'
  BY DEF SchemaInv, DatabaseRight
<1>5. ~stale => \A q \in Openers : Right(proc'[q], db')
  BY <1>1 DEF SchemaInv
<1> QED
  BY <1>2, <1>3, <1>4, <1>5 DEF SchemaInv

\* Rows do not matter to which version a database is of.
LEMMA StandsOn ==
  ASSUME NEW d, NEW e, NEW n, Stands(d, n), e.version = d.version, Alike(e, d)
  PROVE  Stands(e, n)
BY AlikeIsAnEquality DEF Stands
\* Rows change, and nothing else does.
LEMMA RowsChange ==
  ASSUME SchemaInv, Unlocked, UNCHANGED <<proc, stale>>, db'.version = db.version, Alike(db', db)
  PROVE  SchemaInv'
<1>1. \A n : Stands(db, n) => Stands(db', n)
  BY StandsOn
<1>2. Typed' /\ OneAtATime'
  BY DEF SchemaInv, Typed, OneAtATime
<1>3. ~stale => DatabaseRight'
  BY <1>1 DEF SchemaInv, DatabaseRight
<1>4. ASSUME ~stale, NEW p \in Openers PROVE Right(proc[p], db')
  <2>1. Right(proc[p], db) /\ proc[p].at # "migrating"
    BY <1>4 DEF SchemaInv, Unlocked
  <2> QED
    BY <1>1, <2>1 DEF Right, BegunRight, ReadyRight, WorkRight
<1> QED
  BY <1>2, <1>3, <1>4 DEF SchemaInv

\* Releases are places of the list, from 1.
LEMMA Deployable == Binaries \subseteq Releases /\ \A n \in Releases : n \in Nat /\ n >= 1 /\ n <= Len(MIGRATIONS)
BY BinariesAssumption, ReleaseCount DEF Releases

\* What Begin read as older is the version of an earlier place of the list.
LEMMA BeginKeeps ==
  ASSUME SchemaInv, NEW p \in Openers, Begin(p)
  PROVE  SchemaInv'
<1> DEFINE b == proc[p].binary
           r == [at |-> "begun", binary |-> b, current |-> decode(db.version)]
<1>1. r.at = "begun" /\ r.binary = b /\ r.current = decode(db.version)
  OBVIOUS
<1>2. proc' = [proc EXCEPT ![p] = r] /\ UNCHANGED <<db, stale>> /\ proc[p].at = "opened"
  BY DEF Begin
<1>3. Precedes(decode(db.version), MIGRATIONS[b].version)
  BY DEF Begin, Pending, Declared
<1> HIDE DEF b, r
<1>4. ASSUME ~stale PROVE Right(r, db)
  <2>1. b \in Binaries /\ b \in Releases
    BY <1>2, <1>4, Deployable DEF SchemaInv, Right, OfARelease, Running, b
  <2>2. PICK n \in 0..Len(MIGRATIONS) : Stands(db, n)
    BY <1>4 DEF SchemaInv, DatabaseRight
  <2>3. decode(db.version) = VersionOf(n)
    BY <2>2 DEF Stands, VersionOf
  <2>4. n < b
    BY <1>3, <2>1, <2>3, VersionsSorted
  <2>5. n \in 0..b - 1
    BY <2>1, <2>4, Deployable
  <2> QED
    BY <1>1, <2>1, <2>3, <2>5 DEF Right, OfARelease, BegunRight, WorkRight, ReadyRight
<1> QED
  BY <1>1, <1>2, <1>4, OpenerMoves

\* Neither a newer major, which is refused, nor an older one, which is migrated.
LEMMA EqualMajors ==
  ASSUME NEW v, NEW w, Numbered(v), Numbered(w), ~(v.major > w.major), v.major >= w.major
  PROVE  v.major = w.major
<1> DEFINE a == v.major
           b == w.major
<1>1. a \in 1..999 /\ b \in 1..999 /\ ~(a > b) /\ a >= b
  BY DEF Numbered
<1> HIDE DEF a, b
<1>2. a = b
  BY <1>1
<1> QED
  BY <1>2 DEF a, b

\* Who finds nothing to do found its own version or a minor after it.
LEMMA SettleKeeps ==
  ASSUME SchemaInv, NEW p \in Openers, Settle(p)
  PROVE  SchemaInv'
<1> DEFINE b == proc[p].binary
           r == [at |-> "ready", binary |-> b, found |-> decode(db.version)]
           L == Len(MIGRATIONS)
<1>1. r.at = "ready" /\ r.binary = b /\ r.found = decode(db.version)
  OBVIOUS
<1>2. proc' = [proc EXCEPT ![p] = r] /\ UNCHANGED <<db, stale>> /\ proc[p].at = "opened"
  BY DEF Settle
<1>3. /\ ~Precedes(decode(db.version), MIGRATIONS[b].version)
      /\ ~(decode(db.version).major > MIGRATIONS[b].version.major)
  BY DEF Settle, Pending, TooNew, Declared
<1> HIDE DEF b, r
<1>4. ASSUME ~stale PROVE Right(r, db)
  <2>1. b \in Binaries /\ b \in Releases
    BY <1>2, <1>4, Deployable DEF SchemaInv, Right, OfARelease, Running, b
  <2>2. PICK n \in 0..L : Stands(db, n)
    BY <1>4 DEF SchemaInv, DatabaseRight
  <2>3. decode(db.version) = VersionOf(n)
    BY <2>2 DEF Stands, VersionOf
  <2>4. ~(n < b) /\ (b <= n => VersionOf(n).major >= MIGRATIONS[b].version.major)
    BY <1>3, <2>1, <2>3, VersionsSorted
  <2>5. b \in Nat /\ b >= 1 /\ L \in Nat
    BY <2>1, Deployable, ReleaseCount
  <2>6. b <= n /\ n \in b..L /\ n \in Releases
    <3> HIDE DEF L
    <3>1. b <= n /\ n \in b..L /\ n \in 1..L
      BY <2>4, <2>5
    <3> QED
      BY <3>1 DEF L, Releases
  <2>7. VersionOf(n) = MIGRATIONS[n].version
    BY <2>6, FreshVersions
  <2>8. VersionOf(n).major = MIGRATIONS[b].version.major
    <3>1. Numbered(MIGRATIONS[n].version) /\ Numbered(MIGRATIONS[b].version)
      BY <2>1, <2>6, VersionNumbers
    <3> QED
      BY <1>3, <2>3, <2>4, <2>6, <2>7, <3>1, EqualMajors
  <2> QED
    BY <1>1, <2>1, <2>2, <2>3, <2>6, <2>8 DEF Right, OfARelease, BegunRight, WorkRight, ReadyRight
<1> QED
  BY <1>1, <1>2, <1>4, OpenerMoves

\* The first of the entries that are missing is the one after what was read.
LEMMA FirstMissing ==
  ASSUME NEW n \in Nat, NEW release \in Releases, n < release,
         NEW S, S = {i \in 1..release : Precedes(VersionOf(n), MIGRATIONS[i].version)}
  PROVE  FirstOf(S) = n + 1
<1>1. release \in Nat /\ release <= Len(MIGRATIONS) /\ Len(MIGRATIONS) \in Nat
  BY Deployable, ReleaseCount
<1>2. n \in 0..Len(MIGRATIONS) /\ 1..release \subseteq Releases
  BY <1>1 DEF Releases
<1>3. S = {i \in 1..release : n < i}
  BY <1>2, VersionsSorted
<1>4. n + 1 \in S /\ \A i \in S : i \in Int /\ n + 1 <= i
  BY <1>1, <1>3
<1>5. \A i \in S : (\A j \in S : i <= j) => i = n + 1
  BY <1>4
<1> QED
  BY <1>4, <1>5 DEF FirstOf

\* The lock is taken on what was read, or on what another of the release made of it, or
\* the plan is for nothing that is there.
LEMMA LockKeeps ==
  ASSUME SchemaInv, NEW p \in Openers, Lock(p)
  PROVE  SchemaInv'
<1> DEFINE b == proc[p].binary
           r == [at |-> "migrating", binary |-> b, current |-> proc[p].current,
                 work |-> db, next |-> FirstOf(Unapplied(p))]
<1>1. /\ r.at = "migrating" /\ r.binary = b /\ r.current = proc[p].current
      /\ r.work = db /\ r.next = FirstOf(Unapplied(p))
  OBVIOUS
<1>2. proc' = [proc EXCEPT ![p] = r] /\ UNCHANGED <<db, stale>> /\ Unlocked /\ proc[p].at = "begun"
  BY DEF Lock
<1>3. Unapplied(p) = {i \in 1..b : Precedes(proc[p].current, MIGRATIONS[i].version)}
  BY DEF Unapplied
<1> HIDE DEF b, r
<1>4. ASSUME ~stale PROVE Right(r, db)
  <2>1. b \in Binaries /\ b \in Releases
    BY <1>2, <1>4, Deployable DEF SchemaInv, Right, OfARelease, Running, b
  <2>2. PICK n \in 0..b - 1 : proc[p].current = VersionOf(n)
    BY <1>2, <1>4 DEF SchemaInv, Right, BegunRight, b
  <2>3. n \in Nat /\ n < b /\ n + 1 \in n + 1..b + 1 /\ n + 1 - 1 = n
    BY <2>1, Deployable
  <2>4. r.next = n + 1
    BY <1>1, <1>3, <2>1, <2>2, <2>3, FirstMissing
  <2>5. PICK m \in 0..Len(MIGRATIONS) : Stands(db, m)
    BY <1>4 DEF SchemaInv, DatabaseRight
  <2>6. decode(db.version) = VersionOf(m) /\ MIGRATIONS[b].version = VersionOf(b)
    BY <2>1, <2>5, FreshVersions DEF Stands, VersionOf
  <2>7. n \in 0..Len(MIGRATIONS) /\ b \in 0..Len(MIGRATIONS)
    BY <2>1, <2>3, Deployable, ReleaseCount
  <2>8. OffPlan(r, db) \/ m = n \/ m = b
    BY <1>1, <2>2, <2>6, <2>7, VersionsDiffer DEF OffPlan, Declared
  <2>9. OffPlan(r, db) \/ Alike(r.work, Fresh[r.next - 1]) \/ (r.next = n + 1 /\ Alike(r.work, Fresh[b]))
    BY <1>1, <2>3, <2>4, <2>5, <2>8 DEF Stands
  <2>10. WorkRight(r, db)
    BY <1>1, <2>2, <2>3, <2>4, <2>9 DEF WorkRight
  <2> QED
    BY <1>1, <2>1, <2>10 DEF Right, OfARelease, BegunRight, ReadyRight
<1> QED
  BY <1>1, <1>2, <1>4, OpenerMoves

\* One entry: the next release, or an entry repeated.
LEMMA EntryMoves ==
  ASSUME NEW old, NEW new, NEW b \in Releases, NEW n \in 0..b - 1, NEW k \in n + 1..b + 1, k <= b,
         NEW sql, sql = MIGRATIONS[k].sql, execute_batch(old, sql).ok, new = execute_batch(old, sql).db,
         \/ Alike(old, Fresh[k - 1])
         \/ k = n + 1 /\ Alike(old, Fresh[b])
         \/ k = n + 2 /\ k <= b /\ Doomed(old, k)
  PROVE  \/ Alike(new, Fresh[k])
         \/ k + 1 = n + 2 /\ k + 1 <= b /\ Doomed(new, k + 1)
<1>1. n \in Int /\ b \in Int /\ k \in Int /\ n + 1 <= k /\ n >= 0 /\ b <= Len(MIGRATIONS)
  BY Deployable
<1>2. k \in Releases
  <2>1. k \in Int /\ k >= 1 /\ k <= Len(MIGRATIONS)
    BY <1>1, ReleaseCount
  <2> QED
    BY <2>1, ReleaseCount DEF Releases
<1>3. CASE Alike(old, Fresh[k - 1])
  BY <1>2, <1>3, NextRelease
<1>4. CASE k = n + 1 /\ Alike(old, Fresh[b])
  <2>1. IF k = b THEN Alike(new, Fresh[b]) ELSE Doomed(new, k + 1)
    BY <1>2, <1>4, RepeatedEntry
  <2>2. k # b => k + 1 = n + 2 /\ k + 1 <= b
    BY <1>1, <1>4
  <2> QED
    BY <2>1, <2>2
<1>5. CASE k = n + 2 /\ k <= b /\ Doomed(old, k)
  BY <1>5 DEF Doomed
<1> QED
  BY <1>3, <1>4, <1>5

\* Another entry keeps the migration on its way.
LEMMA MigrateKeeps ==
  ASSUME SchemaInv, NEW p \in Openers, Migrate(p)
  PROVE  SchemaInv'
<1> DEFINE old == proc[p]
           k == proc[p].next
           b == proc[p].binary
           done == execute_batch(proc[p].work, MIGRATIONS[proc[p].next].sql)
           r == [at |-> "migrating", binary |-> b, current |-> proc[p].current,
                 work |-> done.db, next |-> k + 1]
<1>1. /\ r.at = "migrating" /\ r.binary = b /\ r.current = old.current
      /\ r.work = done.db /\ r.next = k + 1
  OBVIOUS
<1>2. /\ UNCHANGED <<db, stale>> /\ proc' = [proc EXCEPT ![p] = IF done.ok THEN r ELSE Off]
      /\ old.at = "migrating" /\ k <= b
  BY DEF Migrate
<1>3. CASE ~done.ok
  <2>1. proc' = [proc EXCEPT ![p] = Off]
    BY <1>2, <1>3
  <2>2. Right(Off, db)
    BY Idle, IdleStates
  <2> QED
    BY <1>2, <2>1, <2>2, IdleStates, OpenerMoves
<1>4. CASE done.ok
  <2>1. proc' = [proc EXCEPT ![p] = r]
    BY <1>2, <1>4
  <2>2. done = execute_batch(old.work, MIGRATIONS[k].sql) /\ b = old.binary
    OBVIOUS
  <2> HIDE DEF r, done, k, b
  <2>3. ASSUME ~stale PROVE Right(r, db)
    <3>1. b \in Binaries /\ b \in Releases
      BY <1>2, <2>2, <2>3, Deployable DEF SchemaInv, Right, OfARelease, Running
    <3>2. PICK n \in 0..b - 1 :
            /\ old.current = VersionOf(n) /\ k \in n + 1..b + 1
            /\ \/ OffPlan(old, db)
               \/ Alike(old.work, Fresh[k - 1])
               \/ k = n + 1 /\ Alike(old.work, Fresh[b])
               \/ k = n + 2 /\ k <= b /\ Doomed(old.work, k)
      BY <1>2, <2>2, <2>3 DEF SchemaInv, Right, WorkRight, k
    <3>3. n \in Int /\ b \in Int /\ k \in Int /\ n + 1 <= k /\ k <= b
      BY <1>2, <3>1, <3>2, Deployable
    <3>4. k + 1 \in n + 1..b + 1 /\ k + 1 - 1 = k
      BY <3>3
    <3>5. OffPlan(old, db) => OffPlan(r, db)
      BY <1>1, <2>2 DEF OffPlan
    <3>6. \/ OffPlan(r, db)
          \/ Alike(r.work, Fresh[k])
          \/ k + 1 = n + 2 /\ k + 1 <= b /\ Doomed(r.work, k + 1)
      <4>1. CASE OffPlan(old, db)
        BY <3>5, <4>1
      <4>2. CASE ~OffPlan(old, db)
        <5>1. \/ Alike(old.work, Fresh[k - 1])
              \/ k = n + 1 /\ Alike(old.work, Fresh[b])
              \/ k = n + 2 /\ k <= b /\ Doomed(old.work, k)
          BY <3>2, <4>2
        <5>2. done.ok /\ r.work = done.db
          BY <1>1, <1>4
        <5>3. k \in n + 1..b + 1 /\ k <= b
          BY <3>2, <3>3
        <5> HIDE DEF old
        <5> QED
          BY <2>2, <3>1, <5>1, <5>2, <5>3, EntryMoves
      <4> QED
        BY <4>1, <4>2
    <3>7. WorkRight(r, db)
      <4>1. /\ r.current = VersionOf(n) /\ r.next \in n + 1..r.binary + 1
            /\ \/ OffPlan(r, db)
               \/ Alike(r.work, Fresh[r.next - 1])
               \/ r.next = n + 2 /\ r.next <= r.binary /\ Doomed(r.work, r.next)
        BY <1>1, <3>2, <3>4, <3>6
      <4> QED
        BY <1>1, <4>1 DEF WorkRight
    <3> QED
      BY <1>1, <3>1, <3>7 DEF Right, OfARelease, BegunRight, ReadyRight
  <2> QED
    BY <1>1, <1>2, <2>1, <2>3, OpenerMoves
<1> QED
  BY <1>3, <1>4

\* Work that got past the last entry, on the plan, is the release's schema, and nobody
\* who may write is of a later one.
LEMMA OnPlan ==
  ASSUME SchemaInv, ~stale, NEW p \in Openers, proc[p].at = "migrating", proc[p].next > proc[p].binary,
         ~OffPlan(proc[p], db)
  PROVE  /\ proc[p].binary \in Binaries /\ proc[p].binary \in Releases
         /\ Alike(proc[p].work, Fresh[proc[p].binary])
         /\ \A q \in Openers : proc[q].at = "ready" => proc[q].binary <= proc[p].binary
<1> DEFINE old == proc[p]
           k == proc[p].next
           b == proc[p].binary
           L == Len(MIGRATIONS)
<1>1. b \in Binaries /\ b \in Releases
  BY Deployable DEF SchemaInv, Right, OfARelease, Running
<1>2. PICK n \in 0..b - 1 :
        /\ old.current = VersionOf(n) /\ k \in n + 1..b + 1
        /\ \/ Alike(old.work, Fresh[k - 1])
           \/ k = n + 1 /\ Alike(old.work, Fresh[b])
           \/ k = n + 2 /\ k <= b /\ Doomed(old.work, k)
  BY DEF SchemaInv, Right, WorkRight
<1>3. b \in Nat /\ b <= L /\ L \in Nat /\ k > b
  BY <1>1, Deployable, ReleaseCount
<1> HIDE DEF k, L
<1>4. Alike(old.work, Fresh[b])
  <2> HIDE DEF b
  <2>1. k = b + 1 /\ k # n + 1 /\ ~(k <= b) /\ k - 1 = b
    BY <1>2, <1>3
  <2> QED
    BY <1>2, <2>1
<1>5. decode(db.version) \in {VersionOf(n), VersionOf(b)}
  BY <1>1, <1>2, FreshVersions DEF OffPlan, Declared
<1>6. ASSUME NEW q \in Openers, proc[q].at = "ready" PROVE proc[q].binary <= b
  <2>1. proc[q].binary \in Releases
    BY <1>6, Deployable DEF SchemaInv, Right, OfARelease, Running
  <2>2. PICK m \in proc[q].binary..L : Stands(db, m)
    BY <1>6 DEF SchemaInv, Right, ReadyRight, L
  <2>3. proc[q].binary \in Nat /\ m \in 0..L /\ n \in 0..L /\ b \in 0..L
    BY <1>3, <2>1, Deployable
  <2>4. decode(db.version) = VersionOf(m)
    BY <2>2 DEF Stands, VersionOf
  <2>5. m = n \/ m = b
    BY <1>5, <2>3, <2>4, VersionsDiffer DEF L
  <2> QED
    BY <1>3, <2>2, <2>3, <2>5
<1> QED
  BY <1>1, <1>4, <1>6

\* Nobody else migrates while one does.
LEMMA CommitTyped ==
  ASSUME SchemaInv, NEW p \in Openers, NEW r, proc' = [proc EXCEPT ![p] = r], r.at = "ready"
  PROVE  Typed' /\ OneAtATime' /\ proc'[p] = r /\ \A q \in Openers \ {p} : proc'[q] = proc[q]
BY DEF SchemaInv, Typed, OneAtATime

\* Only work that got past the last entry is committed, and is the release's schema.
LEMMA CommitKeeps ==
  ASSUME SchemaInv, NEW p \in Openers, CommitMigration(p)
  PROVE  SchemaInv'
<1> DEFINE old == proc[p]
           b == proc[p].binary
           r == [at |-> "ready", binary |-> b, found |-> Declared(b)]
           L == Len(MIGRATIONS)
<1>1. old.at = "migrating" /\ old.next > b
  BY DEF CommitMigration
<1>2. CASE ~DeferredResolve(old.work)
  <2>1. proc' = [proc EXCEPT ![p] = Off] /\ UNCHANGED <<db, stale>>
    BY <1>2 DEF CommitMigration
  <2>2. Right(Off, db)
    BY Idle, IdleStates
  <2> QED
    BY <2>1, <2>2, IdleStates, OpenerMoves
<1>3. CASE DeferredResolve(old.work)
  <2>1. /\ db' = AtVersion(old.work, Declared(b)) /\ proc' = [proc EXCEPT ![p] = r]
        /\ stale' = (stale \/ OffPlan(old, db))
    BY <1>3 DEF CommitMigration
  <2>2. r.at = "ready" /\ r.binary = b /\ r.found = MIGRATIONS[b].version
    BY DEF Declared
  <2> HIDE DEF r
  <2>3. Typed' /\ OneAtATime' /\ proc'[p] = r /\ \A q \in Openers \ {p} : proc'[q] = proc[q]
    BY <2>1, <2>2, CommitTyped
  <2>4. ASSUME ~stale' PROVE DatabaseRight' /\ \A q \in Openers : Right(proc'[q], db')
    <3>1. ~stale /\ ~OffPlan(old, db)
      BY <2>1, <2>4
    <3>2. /\ b \in Binaries /\ b \in Releases /\ Alike(old.work, Fresh[b])
          /\ \A q \in Openers : proc[q].at = "ready" => proc[q].binary <= b
      BY <1>1, <3>1, OnPlan
    <3> HIDE DEF b, L
    <3>3. Stands(db', b)
      <4>1. Alike(db', old.work) /\ db'.version = encode(MIGRATIONS[b].version)
        BY <2>1, VersionApart DEF Declared
      <4>2. Fresh[b].version = encode(MIGRATIONS[b].version)
        BY <3>2, FreshDefined, VersionApart DEF Releases
      <4>3. Alike(db', Fresh[b])
        BY <3>2, <4>1, AlikeIsAnEquality
      <4> QED
        BY <4>1, <4>2, <4>3 DEF Stands
    <3>4. b \in Nat /\ b <= L /\ L \in Nat /\ b \in 0..L /\ b \in b..L
      <4>1. b \in Nat /\ b <= L /\ L \in Nat
        BY <3>2, Deployable, ReleaseCount DEF L
      <4> QED
        BY <4>1
    <3>5. Right(r, db')
      BY <2>2, <3>2, <3>3, <3>4 DEF Right, OfARelease, BegunRight, WorkRight, ReadyRight, L
    <3>6. ASSUME NEW q \in Openers \ {p} PROVE Right(proc[q], db')
      <4>1. Right(proc[q], db) /\ proc[q].at # "migrating"
        BY <1>1, <3>1 DEF SchemaInv, OneAtATime
      <4>2. proc[q].at = "ready" => proc[q].binary \in Releases /\ proc[q].binary <= b
        BY <3>2, <4>1, Deployable DEF Right, OfARelease, Running
      <4>3. proc[q].at = "ready" => b \in proc[q].binary..L
        BY <3>4, <4>2, Deployable
      <4> QED
        BY <3>3, <4>1, <4>3 DEF Right, OfARelease, BegunRight, WorkRight, ReadyRight, L
    <3>7. \A q \in Openers : Right(proc'[q], db')
      BY <2>3, <3>5, <3>6
    <3>8. DatabaseRight'
      BY <3>3, <3>4 DEF DatabaseRight, L
    <3> QED
      BY <3>7, <3>8
  <2> QED
    BY <2>3, <2>4 DEF SchemaInv
<1> QED
  BY <1>2, <1>3

\* Putting the same kind of table back, with other rows.
LEMMA RowsOnly ==
  ASSUME NEW d, NEW n \in DOMAIN d.tables, NEW rows
  PROVE  LET e == WithTable(d, n, WithRows(d.tables[n], rows))
         IN e.version = d.version /\ Alike(e, d)
<1> DEFINE t == WithRows(d.tables[n], rows)
           e == WithTable(d, n, t)
<1>1. /\ e.version = d.version /\ e.indexes = d.indexes
      /\ e.tables = [m \in DOMAIN d.tables \cup {n} |-> IF m = n THEN t ELSE d.tables[m]]
  BY DatabaseFields DEF WithTable
<1>2. SameTable(t, d.tables[n])
  BY TableFields DEF WithRows, SameTable
<1> HIDE DEF e, t
<1>3. \A m \in DOMAIN d.tables : SameTable(e.tables[m], d.tables[m])
  BY <1>1, <1>2 DEF SameTable
<1>4. DOMAIN e.tables = DOMAIN d.tables
  BY <1>1
<1>5. e.version = d.version /\ Alike(e, d)
  BY <1>1, <1>3, <1>4 DEF Alike
<1> QED
  BY <1>5 DEF e, t

\* Inserted rows change no table and no index.
LEMMA InsertedAlike ==
  ASSUME NEW d, NEW rows
  PROVE  Inserted(d, rows).version = d.version /\ Alike(Inserted(d, rows), d)
<1> DEFINE e == Inserted(d, rows)
           New(t) == {r[2] : r \in {q \in rows : q[1] = t /\ ~Holds(d, t, q[2])}}
<1>1. /\ e.version = d.version /\ e.indexes = d.indexes
      /\ e.tables = [t \in DOMAIN d.tables |-> WithRows(d.tables[t], d.tables[t].rows \cup New(t))]
  BY DatabaseFields DEF Inserted
<1> HIDE DEF e, New
<1>2. \A t \in DOMAIN d.tables : SameTable(e.tables[t], d.tables[t])
  BY <1>1, TableFields DEF WithRows, SameTable
<1>3. e.version = d.version /\ Alike(e, d)
  BY <1>1, <1>2 DEF Alike
<1> QED
  BY <1>3 DEF e

\* Rows are written while nobody migrates.
LEMMA WriteKeeps ==
  ASSUME SchemaInv, NEW p \in Openers, Write(p)
  PROVE  SchemaInv'
<1>1. PICK rows : db' = Inserted(db, rows)
  BY Zenon DEF Write
<1>2. Unlocked /\ UNCHANGED <<proc, stale>>
  BY DEF Write
<1> QED
  BY <1>1, <1>2, InsertedAlike, RowsChange

\* Backfilling changes rows only.
LEMMA BackfillKeeps ==
  ASSUME SchemaInv, NEW p \in Openers, Backfill(p)
  PROVE  SchemaInv'
<1> DEFINE d == Inserted(db, {SeriesRow})
<1>1. PICK rows : db' = WithTable(d, "measurement", WithRows(d.tables["measurement"], rows))
  BY Zenon DEF Backfill
<1>2. Unlocked /\ UNCHANGED <<proc, stale>> /\ "measurement" \in DOMAIN db.tables
  BY DEF Backfill
<1>3. d.version = db.version /\ Alike(d, db)
  BY InsertedAlike
<1> HIDE DEF d
<1>4. "measurement" \in DOMAIN d.tables
  BY <1>2, <1>3 DEF Alike
<1>5. db'.version = d.version /\ Alike(db', d)
  BY <1>1, <1>4, RowsOnly
<1>6. Alike(db', db)
  BY <1>3, <1>5, AlikeIsAnEquality
<1> QED
  BY <1>2, <1>3, <1>5, <1>6, RowsChange

\* A start, the clock gate, or an end: nothing is held of the database.
LEMMA IdleKeeps ==
  ASSUME SchemaInv, NEW p \in Openers, Gate(p) \/ Poll(p) \/ Refuse(p) \/ BusyTimeout(p) \/ Exit(p)
  PROVE  SchemaInv'
<1>1. UNCHANGED <<db, stale>>
  BY DEF Gate, Poll, Refuse, BusyTimeout, Exit
<1>2. \E r : proc' = [proc EXCEPT ![p] = r] /\ r.at \in {"off", "gate", "admitted"}
  <2>1. CASE Poll(p)
    <3>1. PICK error : proc' = [proc EXCEPT ![p] = IF AfterPoll(proc[p], error).at = "refused" THEN Off
                                                   ELSE AfterPoll(proc[p], error)]
      BY <2>1 DEF Poll
    <3>2. AfterPoll(proc[p], error).at \in {"gate", "admitted", "refused"} /\ Off.at = "off"
      BY IdleStates
    <3> QED
      BY <3>1, <3>2
  <2>2. CASE Gate(p)
    BY <2>2, IdleStates DEF Gate
  <2>3. CASE Refuse(p) \/ BusyTimeout(p) \/ Exit(p)
    BY <2>3, IdleStates DEF Refuse, BusyTimeout, Exit
  <2> QED
    BY <2>1, <2>2, <2>3
<1>3. PICK r : proc' = [proc EXCEPT ![p] = r] /\ r.at \in {"off", "gate", "admitted"}
  BY <1>2
<1>4. Right(r, db)
  BY <1>3, Idle, IdleStates
<1> QED
  BY <1>1, <1>3, <1>4, OpenerMoves

\* Opening reads nothing yet.
LEMMA OpenKeeps ==
  ASSUME SchemaInv, NEW p \in Openers, Open(p)
  PROVE  SchemaInv'
<1>1. PICK b \in Binaries : proc' = [proc EXCEPT ![p] = [at |-> "opened", binary |-> b]]
  BY DEF Open
<1> DEFINE r == [at |-> "opened", binary |-> b]
<1>2. proc' = [proc EXCEPT ![p] = r] /\ UNCHANGED <<db, stale>>
  BY <1>1 DEF Open
<1>3. r.at = "opened" /\ r.binary = b
  OBVIOUS
<1> HIDE DEF r
<1>4. Right(r, db)
  BY <1>3 DEF Right, OfARelease, BegunRight, WorkRight, ReadyRight
<1> QED
  BY <1>2, <1>3, <1>4, OpenerMoves

\* Every opener's picture of the database stays right.
LEMMA SchemaInvHolds == Spec => []SchemaInv
<1>1. Init => SchemaInv
  <2> SUFFICES ASSUME Init PROVE SchemaInv
    OBVIOUS
  <2>1. \A p \in Openers : proc[p] = Off
    BY DEF Init
  <2>2. Typed /\ OneAtATime
    BY <2>1, IdleStates DEF Init, Typed, OneAtATime
  <2>3. DatabaseRight
    <3>1. 0 \in 0..Len(MIGRATIONS)
      BY ReleaseCount
    <3>2. Stands(db, 0)
      BY FreshDefined, AlikeIsAnEquality DEF Init, Stands
    <3> QED
      BY <3>1, <3>2 DEF DatabaseRight
  <2>4. \A p \in Openers : Right(proc[p], db)
    BY <2>1, Idle, IdleStates
  <2> QED
    BY <2>2, <2>3, <2>4 DEF SchemaInv
<1>2. SchemaInv /\ [Next]_vars => SchemaInv'
  <2> SUFFICES ASSUME SchemaInv, [Next]_vars PROVE SchemaInv'
    OBVIOUS
  <2>1. ASSUME NEW p \in Openers,
               \/ Gate(p) \/ Poll(p) \/ Open(p) \/ Refuse(p) \/ Begin(p) \/ Settle(p) \/ Lock(p)
               \/ BusyTimeout(p) \/ Migrate(p) \/ CommitMigration(p)
               \/ Write(p) \/ Backfill(p) \/ Exit(p)
        PROVE  SchemaInv'
    BY <2>1, IdleKeeps, OpenKeeps, BeginKeeps, SettleKeeps, LockKeeps, MigrateKeeps, CommitKeeps,
       WriteKeeps, BackfillKeeps
  <2>2. CASE UNCHANGED vars
    BY <2>2 DEF vars, SchemaInv, Typed, OneAtATime, DatabaseRight
  <2> QED
    BY <2>1, <2>2 DEF Next
<1> QED
  BY <1>1, <1>2, PTL DEF Spec

\* For any number of openers and any releases, replaced at any moment: unless a plan was
\* committed that a third release had made stale, the committed tables, columns, keys and
\* indexes are always those of a fresh install of the stored version, whichever openers
\* race and wherever they are killed (migrate_with: the version is read before BEGIN, the
\* migrations are one transaction).
THEOREM SchemaStaysWhole == Spec => []SchemaIsItsVersion
<1>1. SchemaInv => SchemaIsItsVersion
  <2> SUFFICES ASSUME SchemaInv, ~stale
               PROVE  \E n \in DOMAIN Fresh : db.version = Fresh[n].version /\ Alike(db, Fresh[n])
    BY DEF SchemaIsItsVersion
  <2>1. PICK n \in 0..Len(MIGRATIONS) : Stands(db, n)
    BY DEF SchemaInv, DatabaseRight
  <2>2. n \in DOMAIN Fresh
    BY FreshDefined
  <2> QED
    BY <2>1, <2>2 DEF Stands
<1> QED
  BY <1>1, SchemaInvHolds, PTL

\* For any number of openers and any releases, beside one another, by the rule for a minor
\* bump: as long as no newer major is migrated under it, whoever migrate_with has let in
\* finds every table and column that it inserts into, and fills every column that has to be,
\* on whichever newer minor a release left behind before or beside it.
THEOREM AdmittedCanWrite == Spec => []AcceptedBinaryWrites
<1>1. SchemaInv => AcceptedBinaryWrites
  <2> SUFFICES ASSUME SchemaInv, ~stale, NEW p \in Openers, proc[p].at = "ready",
                      decode(db.version).major = proc[p].found.major,
                      NEW rows \in Writes(Declared(proc[p].binary))
               PROVE  Accepts(db, rows)
    BY DEF AcceptedBinaryWrites
  <2> DEFINE b == proc[p].binary
  <2>1. b \in Releases
    BY Deployable DEF SchemaInv, Right, OfARelease, Running
  <2>2. proc[p].found.major = MIGRATIONS[b].version.major
    BY DEF SchemaInv, Right, ReadyRight
  <2>3. PICK n \in b..Len(MIGRATIONS) : Stands(db, n)
    BY DEF SchemaInv, Right, ReadyRight
  <2> HIDE DEF b
  <2>4. b \in 1..Len(MIGRATIONS) /\ n \in 1..Len(MIGRATIONS) /\ b <= n
    BY <2>1, ReleaseCount DEF Releases
  <2>5. decode(db.version) = MIGRATIONS[n].version
    BY <2>3, <2>4, FreshVersions DEF Stands, VersionOf, Releases
  <2>6. MIGRATIONS[b].version.major = MIGRATIONS[n].version.major
    BY <2>2, <2>5
  <2>7. Accepts(Fresh[n], rows)
    BY <2>4, <2>6, MinorsAssumption DEF Declared, b
  <2>8. Alike(db, Fresh[n])
    BY <2>3 DEF Stands
  <2> SUFFICES ASSUME NEW r \in rows
               PROVE  /\ r[1] \in DOMAIN db.tables
                      /\ DOMAIN r[2] \subseteq Columns(db, r[1])
                      /\ NotNull(db.tables[r[1]]) \subseteq DOMAIN r[2]
    BY DEF Accepts
  <2>9. /\ r[1] \in DOMAIN Fresh[n].tables
        /\ DOMAIN r[2] \subseteq Columns(Fresh[n], r[1])
        /\ NotNull(Fresh[n].tables[r[1]]) \subseteq DOMAIN r[2]
    BY <2>7 DEF Accepts
  <2>10. r[1] \in DOMAIN db.tables /\ SameTable(db.tables[r[1]], Fresh[n].tables[r[1]])
    BY <2>8, <2>9 DEF Alike
  <2>11. /\ Columns(db, r[1]) = Columns(Fresh[n], r[1])
         /\ NotNull(db.tables[r[1]]) = NotNull(Fresh[n].tables[r[1]])
    BY <2>10 DEF SameTable, Columns, NotNull
  <2> QED
    BY <2>9, <2>10, <2>11
<1> QED
  BY <1>1, SchemaInvHolds, PTL

\* What holds at the start and after every step holds at the end.
LEMMA Upwards ==
  ASSUME NEW n \in Nat, NEW P, 0 \in P, \A i \in 1..n : i - 1 \in P => i \in P
  PROVE  n \in P
<1> DEFINE Bad == {i \in 0..n : i \notin P}
<1>1. SUFFICES ASSUME n \notin P PROVE FALSE
  OBVIOUS
<1>2. PICK k \in Bad : \A l \in Bad : k <= l
  <2>1. Bad \in SUBSET Nat /\ n \in Bad
    BY <1>1
  <2> HIDE DEF Bad
  <2> QED
    BY <2>1, LeastNumber
<1>3. k \in 1..n /\ k \notin P /\ k - 1 \in 0..n /\ ~(k <= k - 1)
  BY <1>2
<1>4. k - 1 \in P
  BY <1>2, <1>3
<1> QED
  BY <1>3, <1>4

\* Every statement of a batch that succeeded was run.
LEMMA AllRan ==
  ASSUME NEW f, NEW sql, NEW n \in Nat, Goes(f, sql, n), f[n].ok
  PROVE  /\ f[0].ok
         /\ \A i \in 1..n : /\ f[i].ok /\ Possible(f[i - 1].db, sql[i])
                            /\ f[i].db = Run(f[i - 1].db, sql[i])
<1> DEFINE P == {i \in 0..n : f[n - i].ok}
<1>1. ASSUME NEW i \in 1..n, f[i].ok
      PROVE  f[i - 1].ok /\ Possible(f[i - 1].db, sql[i]) /\ f[i].db = Run(f[i - 1].db, sql[i])
  <2>1. f[i] = AfterStatement(f[i - 1], sql[i])
    BY DEF Goes
  <2> QED
    BY <1>1, <2>1 DEF AfterStatement
<1>2. \A i \in 0..n : \A j \in 0..i : j \in P
  <2> TAKE i \in 0..n
  <2> DEFINE Q == {j \in 0..n : j \in P}
  <2>1. 0 \in P
    <3>1. n - 0 = n /\ 0 \in 0..n
      OBVIOUS
    <3> QED
      BY <3>1
  <2>2. ASSUME NEW j \in 1..n, j - 1 \in P PROVE j \in P
    <3>1. f[n - (j - 1)].ok
      BY <2>2
    <3>2. n - (j - 1) \in 1..n /\ n - (j - 1) - 1 = n - j /\ j \in 0..n
      OBVIOUS
    <3>3. f[n - j].ok
      BY <1>1, <3>1, <3>2
    <3> QED
      BY <3>2, <3>3
  <2>3. ASSUME NEW j \in 0..n PROVE j \in P
    <3>1. \A l \in 1..j : l \in 1..n
      OBVIOUS
    <3> HIDE DEF P
    <3> QED
      BY <2>1, <2>2, <3>1, Upwards
  <2> HIDE DEF P
  <2> QED
    BY <2>3
<1>3. \A i \in 0..n : f[i].ok
  <2> TAKE i \in 0..n
  <2>1. n - i \in 0..n /\ n - (n - i) = i
    OBVIOUS
  <2>2. n - i \in P
    <3> HIDE DEF P
    <3>1. n \in 0..n /\ n - i \in 0..n
      BY <2>1
    <3> QED
      BY <1>2, <3>1
  <2> QED
    BY <2>1, <2>2
<1>4. 0 \in 0..n /\ \A i \in 1..n : i \in 0..n
  OBVIOUS
<1> QED
  BY <1>1, <1>3, <1>4

-----------------------------------------------------------------------------
(* The columns and references of the tables that are rebuilt.              *)
OfMeasurements == {"measurement", "measurement_new"}
OfSessions == {"web_session", "web_session_new"}
TidyTable(n, cols, refs) ==
  /\ \A c \in DOMAIN refs : refs[c].to \in {"series", "web_user"}
  /\ n \in OfMeasurements => cols \subseteq DOMAIN NewMeasurement \cup {"type", "attributes"}
  /\ n \in OfSessions => cols \subseteq DOMAIN Token
Tidy(d) == \A n \in DOMAIN d.tables : TidyTable(n, DOMAIN d.tables[n].cols, d.tables[n].refs)
TidyStatement(s) ==
  /\ s.do = "create table" => TidyTable(s.table, DOMAIN s.cols, s.refs)
  /\ s.do = "add column" => TidyTable(s.table, {s.col}, NoRefs)
  /\ s.do = "rename table" => /\ s.as \in OfMeasurements => s.table \in OfMeasurements
                              /\ s.as \in OfSessions => s.table \in OfSessions
TidyList(sql) == Len(sql) \in Nat /\ \A i \in 1..Len(sql) : TidyStatement(sql[i])

\* Being tidy is about columns and references only.
LEMMA AlikeTidy == ASSUME NEW d, NEW e, Alike(d, e), Tidy(e) PROVE Tidy(d)
BY DEF Alike, SameTable, Tidy

\* A tidy table put into a tidy database.
LEMMA PutTidy ==
  ASSUME NEW d, NEW n, NEW t, Tidy(d), TidyTable(n, DOMAIN t.cols, t.refs)
  PROVE  Tidy(WithTable(d, n, t))
<1>1. WithTable(d, n, t).tables = [m \in DOMAIN d.tables \cup {n} |-> IF m = n THEN t ELSE d.tables[m]]
  BY DatabaseFields DEF WithTable
<1> QED
  BY <1>1 DEF Tidy

\* What DROP TABLE and RENAME make of the tables.
TablesLeft(d, gone) == [n \in DOMAIN d.tables \ {gone} |-> WithRows(d.tables[n], Cascaded(d, gone, n))]
TablesNamed(d, old, as) ==
  [n \in (DOMAIN d.tables \ {old}) \cup {as} |-> d.tables[IF n = as THEN old ELSE n]]
\* The statements that are said in terms of the tables alone.
LEMMA TablesAfter ==
  ASSUME NEW d, NEW s
  PROVE  /\ s.do = "create index" => Run(d, s).tables = d.tables
         /\ s.do = "drop table" => Run(d, s).tables = TablesLeft(d, s.table)
         /\ s.do = "rename table" => Run(d, s).tables = TablesNamed(d, s.table, s.as)
<1>1. /\ s.do = "create index" => Run(d, s) = IndexCreated(d, s)
      /\ s.do = "drop table" => Run(d, s) = TableDropped(d, s)
      /\ s.do = "rename table" => Run(d, s) = TableRenamed(d, s)
  BY DEF Run
<1>2. IndexCreated(d, s).tables = d.tables
  BY DatabaseFields DEF IndexCreated
<1>3. TableDropped(d, s).tables = TablesLeft(d, s.table)
  BY DatabaseFields DEF TableDropped, TablesLeft
<1>4. TableRenamed(d, s).tables = TablesNamed(d, s.table, s.as)
  BY DatabaseFields DEF TableRenamed, TablesNamed
<1> QED
  BY <1>1, <1>2, <1>3, <1>4

\* A tidy statement leaves a tidy database tidy.
LEMMA RunTidy ==
  ASSUME NEW d, NEW s, Tidy(d), Possible(d, s), TidyStatement(s)
  PROVE  Tidy(Run(d, s))
<1>1. CASE s.do = "create table"
  <2>1. Run(d, s) = TableCreated(d, s)
    BY <1>1 DEF Run
  <2>2. TidyTable(s.table, DOMAIN s.cols, s.refs)
    BY <1>1 DEF TidyStatement
  <2> QED
    BY <2>1, <2>2, PutTidy, TableFields DEF TableCreated
<1>2. CASE s.do = "create index"
  <2>1. Run(d, s).tables = d.tables
    BY <1>2, TablesAfter
  <2> QED
    BY <2>1 DEF Tidy
<1>3. CASE s.do = "add column"
  <2> DEFINE t == d.tables[s.table]
             cols == [c \in DOMAIN t.cols \cup {s.col} |-> IF c = s.col THEN s.how ELSE t.cols[c]]
             u == Table(t.key, cols, t.refs, t.rows)
  <2>1. Run(d, s) = WithTable(d, s.table, u)
    BY <1>3 DEF Run, ColumnAdded
  <2>2. s.table \in DOMAIN d.tables
    BY <1>3 DEF Possible
  <2>3. u.refs = t.refs /\ DOMAIN u.cols = DOMAIN t.cols \cup {s.col}
    BY TableFields
  <2>4. TidyTable(s.table, {s.col}, NoRefs) /\ TidyTable(s.table, DOMAIN t.cols, t.refs)
    BY <1>3, <2>2 DEF TidyStatement, Tidy
  <2> HIDE DEF t, u
  <2>5. TidyTable(s.table, DOMAIN u.cols, u.refs)
    BY <2>3, <2>4 DEF TidyTable
  <2> QED
    BY <2>1, <2>5, PutTidy
<1>4. CASE s.do = "drop column"
  <2> DEFINE t == d.tables[s.table]
             left == DOMAIN t.cols \ {s.col}
             u == Table(t.key, [c \in left |-> t.cols[c]], t.refs, {Project(row, left) : row \in t.rows})
  <2>1. Run(d, s) = WithTable(d, s.table, u)
    BY <1>4 DEF Run, ColumnDropped
  <2>2. s.table \in DOMAIN d.tables
    BY <1>4 DEF Possible
  <2>3. u.refs = t.refs /\ DOMAIN u.cols \subseteq DOMAIN t.cols
    BY TableFields
  <2>4. TidyTable(s.table, DOMAIN t.cols, t.refs)
    BY <2>2 DEF Tidy
  <2> HIDE DEF t, u
  <2>5. TidyTable(s.table, DOMAIN u.cols, u.refs)
    BY <2>3, <2>4 DEF TidyTable
  <2> QED
    BY <2>1, <2>5, PutTidy
<1>5. CASE s.do = "drop table"
  <2>1. Run(d, s).tables = TablesLeft(d, s.table)
    BY <1>5, TablesAfter
  <2>2. \A t, rows : WithRows(t, rows).cols = t.cols /\ WithRows(t, rows).refs = t.refs
    BY TableFields DEF WithRows
  <2> QED
    BY <2>1, <2>2 DEF Tidy, TablesLeft
<1>6. CASE s.do = "rename table"
  <2>1. Run(d, s).tables = TablesNamed(d, s.table, s.as)
    BY <1>6, TablesAfter
  <2>2. /\ s.table \in DOMAIN d.tables
        /\ s.as \in OfMeasurements => s.table \in OfMeasurements
        /\ s.as \in OfSessions => s.table \in OfSessions
    BY <1>6 DEF Possible, TidyStatement
  <2>3. TidyTable(s.as, DOMAIN d.tables[s.table].cols, d.tables[s.table].refs)
    BY <2>2 DEF Tidy, TidyTable
  <2> QED
    BY <2>1, <2>3 DEF Tidy, TablesNamed
<1>7. CASE s.do = "copy rows"
  <2> DEFINE t == d.tables[s.as]
             u == WithRows(t, t.rows \cup Copied(d, s))
  <2>1. Run(d, s) = WithTable(d, s.as, u)
    BY <1>7 DEF Run, RowsCopied
  <2>2. s.as \in DOMAIN d.tables
    BY <1>7 DEF Possible
  <2>3. u.refs = t.refs /\ u.cols = t.cols
    BY TableFields DEF WithRows
  <2>4. TidyTable(s.as, DOMAIN t.cols, t.refs)
    BY <2>2 DEF Tidy
  <2> HIDE DEF t, u
  <2> QED
    BY <2>1, <2>3, <2>4, PutTidy
<1> QED
  BY <1>1, <1>2, <1>3, <1>4, <1>5, <1>6, <1>7 DEF Possible

\* So does every beginning of a list of them.
LEMMA BatchTidy ==
  ASSUME NEW d, NEW sql, NEW f, Tidy(d), TidyList(sql), Begins(f, d), Goes(f, sql, Len(sql))
  PROVE  \A i \in 0..Len(sql) : Tidy(f[i].db)
<1> DEFINE n == Len(sql)
           P == {i \in 0..n : Tidy(f[i].db)}
<1>1. n \in Nat
  BY DEF TidyList
<1>2. 0 \in P
  BY <1>1 DEF Begins
<1>3. ASSUME NEW i \in 1..n, i - 1 \in P PROVE i \in P
  <2>1. f[i] = AfterStatement(f[i - 1], sql[i]) /\ TidyStatement(sql[i])
    BY DEF Goes, TidyList
  <2>2. f[i].db = f[i - 1].db \/ (Possible(f[i - 1].db, sql[i]) /\ f[i].db = Run(f[i - 1].db, sql[i]))
    BY <2>1 DEF AfterStatement
  <2>3. Tidy(f[i].db)
    BY <1>3, <2>1, <2>2, RunTidy
  <2>4. i \in 0..n
    BY <1>1
  <2> QED
    BY <2>3, <2>4
<1> HIDE DEF P
<1>4. ASSUME NEW i \in 0..n PROVE i \in P
  <2>1. i \in Nat /\ \A j \in 1..i : j \in 1..n
    BY <1>1
  <2> QED
    BY <1>2, <1>3, <2>1, Upwards
<1> QED
  BY <1>4 DEF P

-----------------------------------------------------------------------------
(* Rows.                                                                   *)

\* Rows have the columns of their table, and their key.
Fit(d) ==
  \A n \in DOMAIN d.tables : \A row \in d.tables[n].rows :
    DOMAIN row \subseteq DOMAIN d.tables[n].cols /\ KeyOf(n) \in DOMAIN row
\* What an entry may do to a row: leave out columns that migrations drop.
Stays(table, row, new) ==
  /\ new[KeyOf(table)] = row[KeyOf(table)]
  /\ DOMAIN new \subseteq DOMAIN row
  /\ DOMAIN row \ DOMAIN new \subseteq (IF table = "series" THEN {} ELSE Dropping)
  /\ \A c \in DOMAIN new : new[c] = row[c]
Unowned(d, table, row) == table = "web_session" /\ ~Resolves(d, [username |-> UserRef], row, "username")
Found(e, table, row) == table \in DOMAIN e.tables /\ \E new \in e.tables[table].rows : Stays(table, row, new)
Carried(d, e) ==
  \A n \in DOMAIN d.tables : \A row \in d.tables[n].rows : Found(e, n, row) \/ Unowned(d, n, row)

\* A row that is left alone stays.
LEMMA SameRowStays == ASSUME NEW n, NEW row PROVE Stays(n, row, row)
BY DEF Stays

\* What stays of what stayed stays of the row.
LEMMA StaysOn ==
  ASSUME NEW n, NEW r1, NEW r2, NEW r3, Stays(n, r1, r2), Stays(n, r2, r3)
  PROVE  Stays(n, r1, r3)
BY DEF Stays

\* The session of a user who is not there.
LEMMA UnownedMeans ==
  ASSUME NEW d, NEW n, NEW row
  PROVE  Unowned(d, n, row) <=>
           /\ n = "web_session" /\ "username" \in DOMAIN row
           /\ ~("web_user" \in DOMAIN d.tables
                /\ \E parent \in d.tables["web_user"].rows : parent["username"] = row["username"])
<1>1. [username |-> UserRef]["username"].to = "web_user"
  BY DEF UserRef
<1>2. KeyOf("web_user") = "username"
  BY DEF KeyOf
<1> QED
  BY <1>1, <1>2 DEF Unowned, Resolves

\* Entry after entry: a user whose row is carried still owns the sessions.
LEMMA CarriedOn ==
  ASSUME NEW d, NEW e, NEW f, Carried(d, e), Carried(e, f)
  PROVE  Carried(d, f)
<1> SUFFICES ASSUME NEW n \in DOMAIN d.tables, NEW row \in d.tables[n].rows, ~Unowned(d, n, row)
             PROVE  Found(f, n, row)
  BY DEF Carried
<1>1. PICK new \in e.tables[n].rows : n \in DOMAIN e.tables /\ Stays(n, row, new)
  BY DEF Carried, Found
<1>2. ~Unowned(e, n, new)
  <2> SUFFICES ASSUME Unowned(e, n, new) PROVE FALSE
    OBVIOUS
  <2>1. /\ n = "web_session" /\ "username" \in DOMAIN new
        /\ ~("web_user" \in DOMAIN e.tables
             /\ \E parent \in e.tables["web_user"].rows : parent["username"] = new["username"])
    BY UnownedMeans
  <2>2. "username" \in DOMAIN row /\ new["username"] = row["username"]
    BY <1>1, <2>1 DEF Stays
  <2>3. PICK parent \in d.tables["web_user"].rows :
          "web_user" \in DOMAIN d.tables /\ parent["username"] = row["username"]
    BY <2>1, <2>2, UnownedMeans
  <2>4. ~Unowned(d, "web_user", parent)
    BY DEF Unowned
  <2>5. PICK later \in e.tables["web_user"].rows :
          "web_user" \in DOMAIN e.tables /\ Stays("web_user", parent, later)
    BY <2>3, <2>4 DEF Carried, Found
  <2>6. later["username"] = parent["username"]
    BY <2>5 DEF Stays, KeyOf
  <2> QED
    BY <2>1, <2>2, <2>3, <2>5, <2>6
<1>3. PICK last \in f.tables[n].rows : n \in DOMAIN f.tables /\ Stays(n, new, last)
  BY <1>1, <1>2 DEF Carried, Found
<1> QED
  BY <1>1, <1>3, StaysOn DEF Found

\* The statements that touch no row: they create, or add a column.
Gentle == {"create table", "create index", "add column"}
RowsKept(d, e) ==
  /\ \A n \in DOMAIN d.tables : /\ n \in DOMAIN e.tables /\ e.tables[n].rows = d.tables[n].rows
                                /\ DOMAIN d.tables[n].cols \subseteq DOMAIN e.tables[n].cols
  /\ \A n \in DOMAIN e.tables \ DOMAIN d.tables : e.tables[n].rows = {}

\* Rows that are kept twice are kept.
LEMMA RowsKeptOn ==
  ASSUME NEW d, NEW e, NEW f, RowsKept(d, e), RowsKept(e, f)
  PROVE  RowsKept(d, f)
BY DEF RowsKept

\* Rows that are kept are carried, and fit.
LEMMA RowsKeptCarries ==
  ASSUME NEW d, NEW e, RowsKept(d, e), Fit(d)
  PROVE  Fit(e) /\ Carried(d, e)
<1>1. Carried(d, e)
  BY SameRowStays DEF Carried, Found, RowsKept
<1>2. Fit(e)
  <2> SUFFICES ASSUME NEW n \in DOMAIN e.tables, NEW row \in e.tables[n].rows
               PROVE  DOMAIN row \subseteq DOMAIN e.tables[n].cols /\ KeyOf(n) \in DOMAIN row
    BY DEF Fit
  <2>1. n \in DOMAIN d.tables
    BY DEF RowsKept
  <2>2. row \in d.tables[n].rows /\ DOMAIN d.tables[n].cols \subseteq DOMAIN e.tables[n].cols
    BY <2>1 DEF RowsKept
  <2> QED
    BY <2>1, <2>2 DEF Fit
<1> QED
  BY <1>1, <1>2

\* Creating a table or an index, or adding a column, keeps all rows.
LEMMA GentleRun ==
  ASSUME NEW d, NEW s, s.do \in Gentle, Possible(d, s)
  PROVE  RowsKept(d, Run(d, s))
<1>1. CASE s.do = "create table"
  <2> DEFINE u == Table(s.key, s.cols, s.refs, {})
  <2>1. Run(d, s) = WithTable(d, s.table, u)
    BY <1>1 DEF Run, TableCreated
  <2>2. s.table \notin DOMAIN d.tables
    BY <1>1 DEF Possible
  <2>3. WithTable(d, s.table, u).tables = [m \in DOMAIN d.tables \cup {s.table} |-> IF m = s.table THEN u ELSE d.tables[m]]
    BY DatabaseFields DEF WithTable
  <2>4. u.rows = {}
    BY TableFields
  <2> HIDE DEF u
  <2> QED
    BY <2>1, <2>2, <2>3, <2>4 DEF RowsKept
<1>2. CASE s.do = "create index"
  BY <1>2, TablesAfter DEF RowsKept
<1>3. CASE s.do = "add column"
  <2> DEFINE t == d.tables[s.table]
             cols == [c \in DOMAIN t.cols \cup {s.col} |-> IF c = s.col THEN s.how ELSE t.cols[c]]
             u == Table(t.key, cols, t.refs, t.rows)
  <2>1. Run(d, s) = WithTable(d, s.table, u)
    BY <1>3 DEF Run, ColumnAdded
  <2>2. s.table \in DOMAIN d.tables
    BY <1>3 DEF Possible
  <2>3. u.rows = d.tables[s.table].rows /\ DOMAIN d.tables[s.table].cols \subseteq DOMAIN u.cols
    BY TableFields
  <2>4. WithTable(d, s.table, u).tables = [m \in DOMAIN d.tables \cup {s.table} |-> IF m = s.table THEN u ELSE d.tables[m]]
    BY DatabaseFields DEF WithTable
  <2> HIDE DEF u
  <2> QED
    BY <2>1, <2>2, <2>3, <2>4 DEF RowsKept
<1> QED
  BY <1>1, <1>2, <1>3 DEF Gentle

\* A list of such statements keeps all rows.
LEMMA GentleBatch ==
  ASSUME NEW d, NEW sql, Len(sql) \in Nat, \A i \in 1..Len(sql) : sql[i].do \in Gentle,
         execute_batch(d, sql).ok
  PROVE  RowsKept(d, execute_batch(d, sql).db)
<1> DEFINE n == Len(sql)
<1>1. PICK f : Begins(f, d) /\ Goes(f, sql, n) /\ execute_batch(d, sql) = f[n]
  BY BatchRuns
<1> DEFINE P == {i \in 0..n : RowsKept(d, f[i].db)}
<1>2. n \in Nat
  OBVIOUS
<1>3. \A i \in 1..n : Possible(f[i - 1].db, sql[i]) /\ f[i].db = Run(f[i - 1].db, sql[i])
  BY <1>1, <1>2, AllRan
<1>4. 0 \in P
  BY <1>1, <1>2 DEF Begins, RowsKept
<1>5. ASSUME NEW i \in 1..n, i - 1 \in P PROVE i \in P
  <2>1. RowsKept(d, f[i - 1].db)
    BY <1>5
  <2>2. RowsKept(f[i - 1].db, f[i].db)
    BY <1>3, GentleRun
  <2>3. i \in 0..n
    BY <1>2
  <2> QED
    BY <2>1, <2>2, <2>3, RowsKeptOn
<1> HIDE DEF P, n
<1>6. n \in P
  BY <1>2, <1>4, <1>5, Upwards
<1> QED
  BY <1>1, <1>6 DEF P

\* Four statements that make a table anew: what they leave of every table.
Anew(table, as, key, cols, refs, resolving, d, d1, d2, d3, d4) ==
  /\ Possible(d, CreateTable(as, key, cols, refs)) /\ d1 = Run(d, CreateTable(as, key, cols, refs))
  /\ Possible(d1, CopyRows(table, as, resolving)) /\ d2 = Run(d1, CopyRows(table, as, resolving))
  /\ Possible(d2, DropTable(table)) /\ d3 = Run(d2, DropTable(table))
  /\ Possible(d3, RenameTable(as, table)) /\ d4 = Run(d3, RenameTable(as, table))
Rebuilding(table, as, refs, resolving) ==
  /\ table # as /\ {table, as} \cap {"series", "web_user"} = {} /\ resolving \subseteq DOMAIN refs
  /\ \A c \in DOMAIN refs : refs[c].to \in {"series", "web_user"}
Referring(d, table, refs, resolving) ==
  {r \in d.tables[table].rows : \A c \in resolving : Resolves(d, refs, r, c)}
Cut(rows, cols) == {Project(row, DOMAIN cols) : row \in rows}

\* e is d with t in place of n, without the table gone, with old under another name.
IsPut(e, d, n, t) ==
  /\ DOMAIN e.tables = DOMAIN d.tables \cup {n} /\ e.tables[n] = t
  /\ \A m \in DOMAIN d.tables \ {n} : e.tables[m] = d.tables[m]
IsDropped(e, d, gone) ==
  /\ DOMAIN e.tables = DOMAIN d.tables \ {gone}
  /\ \A n \in DOMAIN d.tables \ {gone} : e.tables[n] = WithRows(d.tables[n], Cascaded(d, gone, n))
IsRenamed(e, d, old, as) ==
  /\ DOMAIN e.tables = (DOMAIN d.tables \ {old}) \cup {as} /\ e.tables[as] = d.tables[old]
  /\ \A n \in DOMAIN d.tables \ {old} : e.tables[n] = d.tables[n]
\* The tables of a database that a table was put into.
LEMMA PutTable == \A d, n, t : IsPut(WithTable(d, n, t), d, n, t)
<1> TAKE d, n, t
<1> DEFINE e == WithTable(d, n, t)
<1>1. e.tables = [m \in DOMAIN d.tables \cup {n} |-> IF m = n THEN t ELSE d.tables[m]]
  BY DatabaseFields DEF WithTable
<1> HIDE DEF e
<1>2. IsPut(e, d, n, t)
  BY <1>1 DEF IsPut
<1> QED
  BY <1>2 DEF e
\* A table with other rows is the same table otherwise.
LEMMA RowsReplaced ==
  \A t, rows : /\ WithRows(t, rows).key = t.key /\ WithRows(t, rows).cols = t.cols
               /\ WithRows(t, rows).refs = t.refs /\ WithRows(t, rows).rows = rows
BY TableFields DEF WithRows
\* What DROP TABLE leaves.
LEMMA DropLeaves ==
  ASSUME NEW d, NEW s, s.do = "drop table"
  PROVE  IsDropped(Run(d, s), d, s.table)
<1>1. Run(d, s).tables = TablesLeft(d, s.table)
  BY TablesAfter
<1> QED
  BY <1>1 DEF TablesLeft, IsDropped
\* What RENAME moves.
LEMMA RenameMoves ==
  ASSUME NEW d, NEW s, s.do = "rename table", s.as \notin DOMAIN d.tables
  PROVE  IsRenamed(Run(d, s), d, s.table, s.as)
<1>1. Run(d, s).tables = TablesNamed(d, s.table, s.as)
  BY TablesAfter
<1> QED
  BY <1>1 DEF TablesNamed, IsRenamed

\* e is d with table made anew.
IsRebuilt(e, d, table, cols, refs, resolving) ==
  /\ table \in DOMAIN d.tables /\ DOMAIN e.tables = DOMAIN d.tables
  /\ \A n \in DOMAIN d.tables \ {table} :
       e.tables[n].rows = d.tables[n].rows /\ e.tables[n].cols = d.tables[n].cols
  /\ e.tables[table].cols = cols
  /\ e.tables[table].rows = Cut(Referring(d, table, refs, resolving), cols)
\* The new table has its columns and the rows that were copied; no other table loses any, since
\* nothing refers to the one that is dropped.
LEMMA RebuiltTable ==
  ASSUME NEW table, NEW as, NEW key, NEW cols, NEW refs, NEW resolving, NEW d, NEW d1, NEW d2, NEW d3, NEW d4,
         Anew(table, as, key, cols, refs, resolving, d, d1, d2, d3, d4),
         Tidy(d), Rebuilding(table, as, refs, resolving)
  PROVE  IsRebuilt(d4, d, table, cols, refs, resolving)
<1> DEFINE D == DOMAIN d.tables
           s1 == CreateTable(as, key, cols, refs)
           s2 == CopyRows(table, as, resolving)
           s3 == DropTable(table)
           s4 == RenameTable(as, table)
           copied == Cut(Referring(d, table, refs, resolving), cols)
           t1 == Table(key, cols, refs, {})
           t2 == WithRows(t1, t1.rows \cup copied)
<1>1. /\ s1.do = "create table" /\ s1.table = as /\ s1.key = key /\ s1.cols = cols /\ s1.refs = refs
      /\ s2.do = "copy rows" /\ s2.table = table /\ s2.as = as /\ s2.resolving = resolving
      /\ s3.do = "drop table" /\ s3.table = table
      /\ s4.do = "rename table" /\ s4.table = as /\ s4.as = table
  BY DEF CreateTable, CopyRows, DropTable, RenameTable
<1>2. /\ Possible(d, s1) /\ d1 = Run(d, s1) /\ Possible(d1, s2) /\ d2 = Run(d1, s2)
      /\ Possible(d2, s3) /\ d3 = Run(d2, s3) /\ Possible(d3, s4) /\ d4 = Run(d3, s4)
  BY DEF Anew
<1> HIDE DEF s1, s2, s3, s4
<1>3. d1 = Run(d, s1) /\ d2 = Run(d1, s2) /\ d3 = Run(d2, s3) /\ d4 = Run(d3, s4)
  BY <1>2
<1>4. as \notin D
  BY <1>1, <1>2 DEF Possible
<1>5. d1 = WithTable(d, as, t1)
  BY <1>1, <1>3 DEF Run, TableCreated
<1>6. t1.key = key /\ t1.cols = cols /\ t1.refs = refs /\ t1.rows = {}
  BY TableFields
<1> HIDE DEF t1
<1>7. DOMAIN d1.tables = D \cup {as} /\ d1.tables[as] = t1 /\ \A m \in D : d1.tables[m] = d.tables[m]
  <2>1. /\ DOMAIN d1.tables = D \cup {as} /\ d1.tables[as] = t1
        /\ \A m \in D \ {as} : d1.tables[m] = d.tables[m]
    <3>1. IsPut(d1, d, as, t1)
      BY <1>5, PutTable
    <3> QED
      BY <3>1 DEF IsPut
  <2> QED
    BY <1>4, <2>1
<1>8. table \in D /\ table # as
  <2>1. table \in DOMAIN d1.tables /\ table # as
    BY <1>1, <1>2 DEF Possible, Rebuilding
  <2> QED
    BY <1>7, <2>1
<1>9. \A r : \A c \in resolving : Resolves(d1, refs, r, c) <=> Resolves(d, refs, r, c)
  <2> TAKE r
  <2> TAKE c \in resolving
  <2> DEFINE to == refs[c].to
  <2>1. to \in {"series", "web_user"} /\ to # as
    BY DEF Rebuilding
  <2> HIDE DEF to
  <2>2. (to \in DOMAIN d1.tables <=> to \in D) /\ (to \in D => d1.tables[to] = d.tables[to])
    BY <1>7, <2>1
  <2> QED
    BY <2>2 DEF Resolves, to
<1>10. Copied(d1, s2) = copied
  <2>1. d1.tables[table] = d.tables[table]
    BY <1>7, <1>8
  <2>2. Referring(d1, table, refs, resolving) = Referring(d, table, refs, resolving)
    BY <1>9, <2>1 DEF Referring
  <2>3. Copied(d1, s2) = Cut(Referring(d1, table, refs, resolving), cols)
    <3>1. /\ s2.table = table /\ s2.as = as /\ s2.resolving = resolving
          /\ d1.tables[as].cols = cols /\ d1.tables[as].refs = refs
      BY <1>1, <1>6, <1>7
    <3> QED
      BY <3>1 DEF Copied, Cut, Referring
  <2> QED
    BY <2>2, <2>3
<1> HIDE DEF copied
<1>11. d2 = WithTable(d1, as, t2)
  <2>1. d2 = RowsCopied(d1, s2)
    BY <1>1, <1>3 DEF Run
  <2> QED
    BY <1>1, <1>7, <1>10, <2>1 DEF RowsCopied
<1>12. t2.cols = cols /\ t2.refs = refs /\ t2.rows = copied
  BY <1>6, RowsReplaced
<1> HIDE DEF t2
<1>13. DOMAIN d2.tables = D \cup {as} /\ d2.tables[as] = t2 /\ \A m \in D : d2.tables[m] = d.tables[m]
  <2>1. IsPut(d2, d1, as, t2)
    BY <1>11, PutTable
  <2>2. DOMAIN d2.tables = D \cup {as} /\ d2.tables[as] = t2
    BY <1>7, <2>1 DEF IsPut
  <2>3. ASSUME NEW m \in D PROVE d2.tables[m] = d.tables[m]
    <3>1. m \in DOMAIN d1.tables \ {as}
      BY <1>4, <1>7
    <3> QED
      BY <1>7, <2>1, <3>1 DEF IsPut
  <2> QED
    BY <2>2, <2>3
<1>14. ASSUME NEW m \in D \cup {as} PROVE Cascaded(d2, table, m) = d2.tables[m].rows
  <2>1. \A c \in DOMAIN d2.tables[m].refs : d2.tables[m].refs[c].to \in {"series", "web_user"}
    <3>1. CASE m = as
      BY <1>12, <1>13, <3>1 DEF Rebuilding
    <3>2. CASE m \in D
      BY <1>13, <3>2 DEF Tidy, TidyTable
    <3> QED
      BY <3>1, <3>2
  <2>2. table \notin {"series", "web_user"}
    BY DEF Rebuilding
  <2>3. \A c \in DOMAIN d2.tables[m].refs : d2.tables[m].refs[c].to # table
    BY <2>1, <2>2
  <2> QED
    BY <2>3 DEF Cascaded
<1>15. /\ DOMAIN d3.tables = (D \cup {as}) \ {table}
       /\ \A m \in (D \cup {as}) \ {table} : d3.tables[m] = WithRows(d2.tables[m], Cascaded(d2, table, m))
  <2>1. s3.do = "drop table" /\ s3.table = table
    BY <1>1
  <2>2. IsDropped(d3, d2, table)
    BY <1>3, <2>1, DropLeaves
  <2> QED
    BY <1>13, <2>2 DEF IsDropped
<1>16. ASSUME NEW m \in (D \cup {as}) \ {table}
       PROVE  d3.tables[m].rows = d2.tables[m].rows /\ d3.tables[m].cols = d2.tables[m].cols
  <2>1. d3.tables[m] = WithRows(d2.tables[m], d2.tables[m].rows)
    BY <1>14, <1>15
  <2> QED
    BY <2>1, RowsReplaced
<1>17. /\ DOMAIN d4.tables = (DOMAIN d3.tables \ {as}) \cup {table} /\ d4.tables[table] = d3.tables[as]
       /\ \A n \in DOMAIN d3.tables \ {as} : d4.tables[n] = d3.tables[n]
  <2>1. s4.do = "rename table" /\ s4.table = as /\ s4.as = table /\ s4.as \notin DOMAIN d3.tables
    BY <1>1, <1>15
  <2>2. IsRenamed(d4, d3, as, table)
    BY <1>3, <2>1, RenameMoves
  <2> QED
    BY <2>2 DEF IsRenamed
<1>18. DOMAIN d4.tables = D
  BY <1>4, <1>8, <1>15, <1>17
<1>19. d4.tables[table].cols = cols /\ d4.tables[table].rows = copied
  <2>1. as \in (D \cup {as}) \ {table}
    BY <1>8
  <2> QED
    BY <1>12, <1>13, <1>16, <1>17, <2>1
<1>20. ASSUME NEW n \in D \ {table}
       PROVE  d4.tables[n].rows = d.tables[n].rows /\ d4.tables[n].cols = d.tables[n].cols
  <2>1. n \in (D \cup {as}) \ {table} /\ n \in DOMAIN d3.tables \ {as}
    BY <1>4, <1>15
  <2> QED
    BY <1>13, <1>16, <1>17, <2>1
<1> QED
  BY <1>8, <1>18, <1>19, <1>20 DEF copied, IsRebuilt

\* No row is lost on the way but those that refer to nobody, and only dropped columns are.
LEMMA RebuildCarries ==
  ASSUME NEW table, NEW as, NEW key, NEW cols, NEW refs, NEW resolving, NEW d, NEW d1, NEW d2, NEW d3, NEW d4,
         Anew(table, as, key, cols, refs, resolving, d, d1, d2, d3, d4),
         Tidy(d), Rebuilding(table, as, refs, resolving),
         Fit(d), KeyOf(table) \in DOMAIN cols,
         table \in DOMAIN d.tables => DOMAIN d.tables[table].cols \ DOMAIN cols \subseteq Dropping,
         resolving = {} \/ (table = "web_session" /\ resolving = {"username"} /\ refs = [username |-> UserRef])
  PROVE  Fit(d4) /\ Carried(d, d4) /\ DOMAIN d4.tables = DOMAIN d.tables
<1> DEFINE D == DOMAIN d.tables
           Stay == Referring(d, table, refs, resolving)
<1>1. /\ table \in D /\ DOMAIN d4.tables = D
      /\ \A n \in D \ {table} : d4.tables[n].rows = d.tables[n].rows /\ d4.tables[n].cols = d.tables[n].cols
      /\ d4.tables[table].cols = cols
      /\ d4.tables[table].rows = Cut(Stay, cols)
  <2>1. IsRebuilt(d4, d, table, cols, refs, resolving)
    BY RebuiltTable
  <2> QED
    BY <2>1 DEF IsRebuilt
<1>2. ASSUME NEW row
      PROVE  /\ DOMAIN Project(row, DOMAIN cols) = DOMAIN row \cap DOMAIN cols
             /\ \A c \in DOMAIN row \cap DOMAIN cols : Project(row, DOMAIN cols)[c] = row[c]
  BY DEF Project
<1>3. ASSUME NEW row \in d.tables[table].rows
      PROVE  Stays(table, row, Project(row, DOMAIN cols)) /\ KeyOf(table) \in DOMAIN Project(row, DOMAIN cols)
  <2>1. DOMAIN row \subseteq DOMAIN d.tables[table].cols /\ KeyOf(table) \in DOMAIN row
    BY <1>1 DEF Fit
  <2>2. DOMAIN row \ (DOMAIN row \cap DOMAIN cols) \subseteq Dropping
    BY <1>1, <2>1
  <2>3. table # "series"
    BY DEF Rebuilding
  <2> QED
    BY <1>2, <2>1, <2>2, <2>3 DEF Stays
<1>0. Stay = {r \in d.tables[table].rows : \A c \in resolving : Resolves(d, refs, r, c)}
  BY DEF Referring
<1> HIDE DEF Stay
<1>4. Fit(d4)
  <2> SUFFICES ASSUME NEW n \in D, NEW new \in d4.tables[n].rows
               PROVE  DOMAIN new \subseteq DOMAIN d4.tables[n].cols /\ KeyOf(n) \in DOMAIN new
    BY <1>1 DEF Fit
  <2>1. CASE n = table
    <3>1. PICK row \in Stay : new = Project(row, DOMAIN cols)
      BY <1>1, <2>1 DEF Cut
    <3>2. row \in d.tables[table].rows
      BY <1>0, <3>1
    <3>3. KeyOf(n) \in DOMAIN new
      BY <1>3, <2>1, <3>1, <3>2
    <3>4. DOMAIN new \subseteq DOMAIN cols
      BY <1>2, <3>1
    <3> QED
      BY <1>1, <2>1, <3>3, <3>4
  <2>2. CASE n # table
    BY <1>1, <2>2 DEF Fit
  <2> QED
    BY <2>1, <2>2
<1>5. Carried(d, d4)
  <2> SUFFICES ASSUME NEW n \in D, NEW row \in d.tables[n].rows
               PROVE  Found(d4, n, row) \/ Unowned(d, n, row)
    BY DEF Carried
  <2>1. CASE n # table
    <3>1. row \in d4.tables[n].rows /\ n \in DOMAIN d4.tables
      BY <1>1, <2>1
    <3> QED
      BY <3>1, SameRowStays DEF Found
  <2>2. CASE n = table /\ row \in Stay
    <3>1. Project(row, DOMAIN cols) \in d4.tables[n].rows /\ n \in DOMAIN d4.tables
      BY <1>1, <2>2 DEF Cut
    <3> QED
      BY <1>3, <2>2, <3>1 DEF Found
  <2>3. CASE n = table /\ row \notin Stay
    <3>1. resolving # {} /\ \E c \in resolving : ~Resolves(d, refs, row, c)
      BY <1>0, <2>3
    <3> QED
      BY <2>3, <3>1 DEF Unowned
  <2> QED
    BY <2>1, <2>2, <2>3
<1> QED
  BY <1>1, <1>4, <1>5

-----------------------------------------------------------------------------
(* The entries of the list.                                                *)
LEMMA Entries ==
  /\ Len(MIGRATIONS) = 11
  /\ MIGRATIONS[1].sql = Migration_1_0 /\ MIGRATIONS[2].sql = Migration_2_0
  /\ MIGRATIONS[3].sql = Migration_3_0 /\ MIGRATIONS[4].sql = Migration_3_1
  /\ MIGRATIONS[5].sql = Migration_3_2 /\ MIGRATIONS[6].sql = Migration_3_3
  /\ MIGRATIONS[7].sql = Migration_4_0 /\ MIGRATIONS[8].sql = Migration_4_1
  /\ MIGRATIONS[9].sql = Migration_4_2 /\ MIGRATIONS[10].sql = Migration_4_3
  /\ MIGRATIONS[11].sql = Migration_5_0
BY DEF MIGRATIONS

\* Which statements are tidy.
LEMMA TidyStatements ==
  /\ \A n, t, c : TidyStatement(CreateIndex(n, t, c)) /\ TidyStatement(CreateUniqueIndex(n, t, c))
  /\ \A t, a, r : TidyStatement(CopyRows(t, a, r)) /\ TidyStatement(DropTable(t)) /\ TidyStatement(DropColumn(t, a))
  /\ \A t, a : (a \in OfMeasurements => t \in OfMeasurements) /\ (a \in OfSessions => t \in OfSessions)
                 => TidyStatement(RenameTable(t, a))
  /\ \A t, k, c, r : TidyTable(t, DOMAIN c, r) => TidyStatement(CreateTable(t, k, c, r))
  /\ \A t, c, h : TidyTable(t, {c}, NoRefs) => TidyStatement(AddColumn(t, c, h))
<1>1. \A n, t, c : TidyStatement(CreateIndex(n, t, c)) /\ TidyStatement(CreateUniqueIndex(n, t, c))
  BY DEF TidyStatement, CreateIndex, CreateUniqueIndex
<1>2. \A t, a, r : TidyStatement(CopyRows(t, a, r)) /\ TidyStatement(DropTable(t)) /\ TidyStatement(DropColumn(t, a))
  BY DEF TidyStatement, CopyRows, DropTable, DropColumn
<1>3. \A t, a : (a \in OfMeasurements => t \in OfMeasurements) /\ (a \in OfSessions => t \in OfSessions)
                  => TidyStatement(RenameTable(t, a))
  BY DEF TidyStatement, RenameTable
<1>4. \A t, k, c, r : TidyTable(t, DOMAIN c, r) => TidyStatement(CreateTable(t, k, c, r))
  BY DEF TidyStatement, CreateTable
<1>5. \A t, c, h : TidyTable(t, {c}, NoRefs) => TidyStatement(AddColumn(t, c, h))
  BY DEF TidyStatement, AddColumn
<1> QED
  BY <1>1, <1>2, <1>3, <1>4, <1>5

\* The tables of the list are tidy.
LEMMA TidyTables ==
  /\ TidyTable("measurement", DOMAIN OldMeasurement, NoRefs)
  /\ \A n \in OfMeasurements : TidyTable(n, DOMAIN NewMeasurement, [series_id |-> SeriesRef])
  /\ TidyTable("measurement", {"series_id"}, NoRefs)
  /\ TidyTable("web_session", DOMAIN Token, NoRefs)
  /\ TidyTable("web_session_new", DOMAIN Token, [username |-> UserRef])
  /\ \A n \in {"api_key", "web_user", "series", "web_passkey", "web_login_token"} : \A cols :
       TidyTable(n, cols, NoRefs) /\ TidyTable(n, cols, [username |-> UserRef])
<1>0. /\ \A c \in DOMAIN NoRefs : NoRefs[c].to \in {"series", "web_user"}
      /\ \A c \in DOMAIN [username |-> UserRef] : [username |-> UserRef][c].to \in {"series", "web_user"}
      /\ \A c \in DOMAIN [series_id |-> SeriesRef] : [series_id |-> SeriesRef][c].to \in {"series", "web_user"}
  <2>1. UserRef.to = "web_user" /\ SeriesRef.to = "series"
    BY DEF UserRef, SeriesRef
  <2>2. DOMAIN [username |-> UserRef] = {"username"} /\ DOMAIN [series_id |-> SeriesRef] = {"series_id"}
        /\ DOMAIN NoRefs = {}
    BY DEF NoRefs
  <2>3. [username |-> UserRef]["username"] = UserRef /\ [series_id |-> SeriesRef]["series_id"] = SeriesRef
    OBVIOUS
  <2> QED
    BY <2>1, <2>2, <2>3
<1> DEFINE Within(n, cols) ==
             /\ n \in OfMeasurements => cols \subseteq DOMAIN NewMeasurement \cup {"type", "attributes"}
             /\ n \in OfSessions => cols \subseteq DOMAIN Token
<1>1. \A n, cols : TidyTable(n, cols, NoRefs) <=> Within(n, cols)
  BY <1>0 DEF TidyTable
<1>2. \A n, cols : TidyTable(n, cols, [username |-> UserRef]) <=> Within(n, cols)
  BY <1>0 DEF TidyTable
<1>3. \A n, cols : TidyTable(n, cols, [series_id |-> SeriesRef]) <=> Within(n, cols)
  BY <1>0 DEF TidyTable
<1>4. /\ DOMAIN OldMeasurement \subseteq DOMAIN NewMeasurement \cup {"type", "attributes"}
      /\ "series_id" \in DOMAIN NewMeasurement
  BY DEF OldMeasurement, NewMeasurement
<1>5. \A n \in OfMeasurements : n \notin OfSessions
  BY DEF OfMeasurements, OfSessions
<1>6. /\ "measurement" \in OfMeasurements /\ "measurement" \notin OfSessions
      /\ "web_session" \notin OfMeasurements /\ "web_session_new" \notin OfMeasurements
      /\ \A n \in {"api_key", "web_user", "series", "web_passkey", "web_login_token"} :
           n \notin OfMeasurements /\ n \notin OfSessions
  BY DEF OfMeasurements, OfSessions
<1>7. TidyTable("measurement", DOMAIN OldMeasurement, NoRefs) /\ TidyTable("measurement", {"series_id"}, NoRefs)
  BY <1>1, <1>4, <1>6
<1>8. \A n \in OfMeasurements : TidyTable(n, DOMAIN NewMeasurement, [series_id |-> SeriesRef])
  BY <1>3, <1>5
<1>9. TidyTable("web_session", DOMAIN Token, NoRefs) /\ TidyTable("web_session_new", DOMAIN Token, [username |-> UserRef])
  BY <1>1, <1>2, <1>6
<1>10. \A n \in {"api_key", "web_user", "series", "web_passkey", "web_login_token"} : \A cols :
         TidyTable(n, cols, NoRefs) /\ TidyTable(n, cols, [username |-> UserRef])
  BY <1>1, <1>2, <1>6
<1> QED
  BY <1>7, <1>8, <1>9, <1>10

\* What is created touches no row.
LEMMA Kinds ==
  /\ \A n, t, c : CreateIndex(n, t, c).do \in Gentle
  /\ \A t, k, c, r : CreateTable(t, k, c, r).do \in Gentle
  /\ \A t, c, h : AddColumn(t, c, h).do \in Gentle
<1>1. \A n, t, c : CreateIndex(n, t, c).do \in Gentle
  BY DEF CreateIndex, Gentle
<1>2. \A t, k, c, r : CreateTable(t, k, c, r).do \in Gentle
  BY DEF CreateTable, Gentle
<1>3. \A t, c, h : AddColumn(t, c, h).do \in Gentle
  BY DEF AddColumn, Gentle
<1> QED
  BY <1>1, <1>2, <1>3

\* Entries that touch no row.
GentleList(sql) == Len(sql) \in Nat /\ \A i \in 1..Len(sql) : sql[i].do \in Gentle
\* Six of the entries only create and add.
LEMMA GentleEntries ==
  /\ GentleList(Migration_3_0) /\ GentleList(Migration_3_1) /\ GentleList(Migration_3_2)
  /\ GentleList(Migration_3_3) /\ GentleList(Migration_4_1) /\ GentleList(Migration_4_3)
<1>1. GentleList(Migration_3_0)
  BY Kinds DEF GentleList, Migration_3_0
<1>2. GentleList(Migration_3_1)
  BY Kinds DEF GentleList, Migration_3_1
<1>3. GentleList(Migration_3_2)
  BY Kinds DEF GentleList, Migration_3_2
<1>4. GentleList(Migration_3_3)
  BY Kinds DEF GentleList, Migration_3_3
<1>5. GentleList(Migration_4_1)
  BY Kinds DEF GentleList, Migration_4_1
<1>6. GentleList(Migration_4_3)
  BY Kinds DEF GentleList, Migration_4_3
<1> QED
  BY <1>1, <1>2, <1>3, <1>4, <1>5, <1>6

\* The statements of 4.0, one by one.
LEMMA Statements_4_0 ==
  /\ Len(Migration_4_0) = 11
  /\ Migration_4_0[1] = CreateTable("measurement_new", {"id"}, NewMeasurement, [series_id |-> SeriesRef])
  /\ Migration_4_0[2] = CopyRows("measurement", "measurement_new", {})
  /\ Migration_4_0[3] = DropTable("measurement")
  /\ Migration_4_0[4] = RenameTable("measurement_new", "measurement")
  /\ Migration_4_0[5] = CreateIndex("measurement_event_time_idx", "measurement", {"event_time", "id"})
  /\ Migration_4_0[6] = CreateIndex("measurement_series_event_time_idx", "measurement", {"series_id", "event_time", "id"})
  /\ Migration_4_0[7] = CreateTable("web_session_new", {"id"}, Token, [username |-> UserRef])
  /\ Migration_4_0[8] = CopyRows("web_session", "web_session_new", {"username"})
  /\ Migration_4_0[9] = DropTable("web_session")
  /\ Migration_4_0[10] = RenameTable("web_session_new", "web_session")
  /\ Migration_4_0[11] = CreateIndex("web_session_expires_at_idx", "web_session", {"expires_at"})
BY DEF Migration_4_0, Rebuilt

\* The statements of 4.2, one by one.
LEMMA Statements_4_2 ==
  /\ Len(Migration_4_2) = 6
  /\ Migration_4_2[1] = CreateTable("measurement_new", {}, NewMeasurement, [series_id |-> SeriesRef])
  /\ Migration_4_2[2] = CopyRows("measurement", "measurement_new", {})
  /\ Migration_4_2[3] = DropTable("measurement")
  /\ Migration_4_2[4] = RenameTable("measurement_new", "measurement")
  /\ Migration_4_2[5] = CreateUniqueIndex("measurement_event_time_idx", "measurement", {"event_time", "id"})
  /\ Migration_4_2[6] = CreateIndex("measurement_series_event_time_idx", "measurement", {"series_id", "event_time", "id"})
BY DEF Migration_4_2, Rebuilt

\* The two renamings of the list.
LEMMA RenamesTidy ==
  /\ TidyStatement(RenameTable("measurement_new", "measurement"))
  /\ TidyStatement(RenameTable("web_session_new", "web_session"))
<1>1. /\ "measurement_new" \in OfMeasurements /\ "measurement" \notin OfSessions
      /\ "web_session_new" \in OfSessions /\ "web_session" \notin OfMeasurements
  BY DEF OfMeasurements, OfSessions
<1> QED
  BY <1>1, TidyStatements

\* Every entry is a list of tidy statements.
LEMMA TidyLists == \A n \in Releases : TidyList(MIGRATIONS[n].sql)
<1>1. TidyList(Migration_1_0)
  BY TidyStatements, TidyTables DEF TidyList, Migration_1_0, TypeIndexes
<1>2. TidyList(Migration_2_0)
  BY TidyStatements, TidyTables DEF TidyList, Migration_2_0, TypeIndexes
<1>3. TidyList(Migration_3_0)
  BY TidyStatements, TidyTables DEF TidyList, Migration_3_0
<1>4. TidyList(Migration_3_1)
  BY TidyStatements, TidyTables DEF TidyList, Migration_3_1
<1>5. TidyList(Migration_3_2)
  BY TidyStatements, TidyTables DEF TidyList, Migration_3_2
<1>6. TidyList(Migration_3_3)
  BY TidyStatements DEF TidyList, Migration_3_3
<1>7. TidyList(Migration_4_0)
  <2>1. /\ TidyStatement(Migration_4_0[1]) /\ TidyStatement(Migration_4_0[2]) /\ TidyStatement(Migration_4_0[3])
        /\ TidyStatement(Migration_4_0[4]) /\ TidyStatement(Migration_4_0[5]) /\ TidyStatement(Migration_4_0[6])
    BY Statements_4_0, TidyStatements, TidyTables, RenamesTidy DEF OfMeasurements
  <2>2. /\ TidyStatement(Migration_4_0[7]) /\ TidyStatement(Migration_4_0[8]) /\ TidyStatement(Migration_4_0[9])
        /\ TidyStatement(Migration_4_0[10]) /\ TidyStatement(Migration_4_0[11])
    BY Statements_4_0, TidyStatements, TidyTables, RenamesTidy
  <2>3. Len(Migration_4_0) = 11
    BY Statements_4_0
  <2>4. ASSUME NEW i \in 1..11 PROVE TidyStatement(Migration_4_0[i])
    <3>1. i = 1 \/ i = 2 \/ i = 3 \/ i = 4 \/ i = 5 \/ i = 6 \/ i = 7 \/ i = 8 \/ i = 9 \/ i = 10 \/ i = 11
      OBVIOUS
    <3> QED
      BY <2>1, <2>2, <3>1
  <2> QED
    BY <2>3, <2>4 DEF TidyList
<1>8. TidyList(Migration_4_1)
  BY TidyStatements, TidyTables DEF TidyList, Migration_4_1
<1>9. TidyList(Migration_4_2)
  <2>1. /\ TidyStatement(Migration_4_2[1]) /\ TidyStatement(Migration_4_2[2]) /\ TidyStatement(Migration_4_2[3])
        /\ TidyStatement(Migration_4_2[4]) /\ TidyStatement(Migration_4_2[5]) /\ TidyStatement(Migration_4_2[6])
    BY Statements_4_2, TidyStatements, TidyTables, RenamesTidy DEF OfMeasurements
  <2>2. Len(Migration_4_2) = 6
    BY Statements_4_2
  <2>3. ASSUME NEW i \in 1..6 PROVE TidyStatement(Migration_4_2[i])
    <3>1. i = 1 \/ i = 2 \/ i = 3 \/ i = 4 \/ i = 5 \/ i = 6
      OBVIOUS
    <3> QED
      BY <2>1, <3>1
  <2> QED
    BY <2>2, <2>3 DEF TidyList
<1>10. TidyList(Migration_4_3)
  BY TidyStatements, TidyTables DEF TidyList, Migration_4_3
<1>11. TidyList(Migration_5_0)
  BY TidyStatements DEF TidyList, Migration_5_0
<1>12. \A n \in Releases : n = 1 \/ n = 2 \/ n = 3 \/ n = 4 \/ n = 5 \/ n = 6 \/ n = 7 \/ n = 8 \/ n = 9 \/ n = 10 \/ n = 11
  BY Entries DEF Releases
<1> QED
  BY <1>1, <1>2, <1>3, <1>4, <1>5, <1>6, <1>7, <1>8, <1>9, <1>10, <1>11, <1>12, Entries

\* What the statements of an entry may do to the rows.
Keeps(d, e) == Fit(e) /\ Carried(d, e) /\ DOMAIN d.tables \subseteq DOMAIN e.tables
\* What keeps rows twice keeps them.
LEMMA KeepsOn ==
  ASSUME NEW d, NEW e, NEW f, Keeps(d, e), Keeps(e, f)
  PROVE  Keeps(d, f)
BY CarriedOn DEF Keeps

\* Creating keeps rows.
LEMMA CreatesKeep ==
  ASSUME NEW d, NEW s, s.do \in Gentle, Possible(d, s), Fit(d)
  PROVE  Keeps(d, Run(d, s))
<1>1. RowsKept(d, Run(d, s))
  BY GentleRun
<1> QED
  BY <1>1, RowsKeptCarries DEF Keeps, RowsKept

\* Both rebuildings of measurement drop its type and attributes, and nothing else.
LEMMA RebuildMeasurement ==
  ASSUME NEW key, NEW d, NEW d1, NEW d2, NEW d3, NEW d4,
         Anew("measurement", "measurement_new", key, NewMeasurement, [series_id |-> SeriesRef], {}, d, d1, d2, d3, d4),
         Tidy(d), Fit(d)
  PROVE  Keeps(d, d4)
<1> DEFINE refs == [series_id |-> SeriesRef]
<1>1. Rebuilding("measurement", "measurement_new", refs, {})
  <2>1. SeriesRef.to = "series" /\ DOMAIN refs = {"series_id"} /\ refs["series_id"] = SeriesRef
    BY DEF SeriesRef
  <2> HIDE DEF refs
  <2> QED
    BY <2>1 DEF Rebuilding
<1>2. KeyOf("measurement") \in DOMAIN NewMeasurement
  BY DEF KeyOf, NewMeasurement
<1>3. "measurement" \in DOMAIN d.tables => DOMAIN d.tables["measurement"].cols \ DOMAIN NewMeasurement \subseteq Dropping
  BY DEF Tidy, TidyTable, OfMeasurements, Dropping
<1> HIDE DEF refs
<1>4. Anew("measurement", "measurement_new", key, NewMeasurement, refs, {}, d, d1, d2, d3, d4)
  BY DEF refs
<1>5. Fit(d4) /\ Carried(d, d4) /\ DOMAIN d4.tables = DOMAIN d.tables
  BY <1>1, <1>2, <1>3, <1>4, RebuildCarries
<1> QED
  BY <1>5 DEF Keeps

\* Rebuilding web_session leaves out the sessions of nobody.
LEMMA RebuildSessions ==
  ASSUME NEW d, NEW d1, NEW d2, NEW d3, NEW d4,
         Anew("web_session", "web_session_new", {"id"}, Token, [username |-> UserRef], {"username"}, d, d1, d2, d3, d4),
         Tidy(d), Fit(d)
  PROVE  Keeps(d, d4)
<1> DEFINE refs == [username |-> UserRef]
<1>1. Rebuilding("web_session", "web_session_new", refs, {"username"})
  <2>1. UserRef.to = "web_user" /\ DOMAIN refs = {"username"} /\ refs["username"] = UserRef
    BY DEF UserRef
  <2> HIDE DEF refs
  <2> QED
    BY <2>1 DEF Rebuilding
<1>2. KeyOf("web_session") \in DOMAIN Token
  BY DEF KeyOf, Token
<1>3. "web_session" \in DOMAIN d.tables => DOMAIN d.tables["web_session"].cols \ DOMAIN Token \subseteq Dropping
  BY DEF Tidy, TidyTable, OfSessions
<1>4. refs = [username |-> UserRef]
  OBVIOUS
<1> HIDE DEF refs
<1>5. Anew("web_session", "web_session_new", {"id"}, Token, refs, {"username"}, d, d1, d2, d3, d4)
  BY <1>4
<1>6. Fit(d4) /\ Carried(d, d4) /\ DOMAIN d4.tables = DOMAIN d.tables
  BY <1>1, <1>2, <1>3, <1>4, <1>5, RebuildCarries
<1> QED
  BY <1>6 DEF Keeps

\* What a batch that succeeded ran, and in which databases.
Ran(f, sql, d, n) ==
  /\ f[0].db = d
  /\ \A i \in 1..n : Possible(f[i - 1].db, sql[i]) /\ f[i].db = Run(f[i - 1].db, sql[i])
  /\ \A i \in 0..n : Tidy(f[i].db)
\* A list that succeeded, as the databases after each statement.
LEMMA EntryRan ==
  ASSUME NEW d, NEW sql, Tidy(d), TidyList(sql), execute_batch(d, sql).ok
  PROVE  \E f : Ran(f, sql, d, Len(sql)) /\ execute_batch(d, sql).db = f[Len(sql)].db
<1>1. Len(sql) \in Nat
  BY DEF TidyList
<1>2. PICK f : Begins(f, d) /\ Goes(f, sql, Len(sql)) /\ execute_batch(d, sql) = f[Len(sql)]
  BY <1>1, BatchRuns
<1>3. \A i \in 1..Len(sql) : Possible(f[i - 1].db, sql[i]) /\ f[i].db = Run(f[i - 1].db, sql[i])
  BY <1>1, <1>2, AllRan
<1>4. \A i \in 0..Len(sql) : Tidy(f[i].db)
  BY <1>2, BatchTidy
<1>5. f[0].db = d
  BY <1>2 DEF Begins
<1> QED
  BY <1>2, <1>3, <1>4, <1>5 DEF Ran

\* 4.0: measurement rebuilt, its indexes, web_session rebuilt, its index.
LEMMA Keeps_4_0 ==
  ASSUME NEW d, Tidy(d), Fit(d), execute_batch(d, Migration_4_0).ok
  PROVE  Keeps(d, execute_batch(d, Migration_4_0).db)
<1> DEFINE sql == Migration_4_0
<1>1. TidyList(sql) /\ Len(sql) = 11
  <2>1. 7 \in Releases
    BY Entries DEF Releases
  <2> QED
    BY <2>1, TidyLists, Entries, Statements_4_0
<1>2. PICK f : Ran(f, sql, d, 11) /\ execute_batch(d, sql).db = f[11].db
  BY <1>1, EntryRan
<1>3. /\ Possible(f[0].db, sql[1]) /\ f[1].db = Run(f[0].db, sql[1])
      /\ Possible(f[1].db, sql[2]) /\ f[2].db = Run(f[1].db, sql[2])
      /\ Possible(f[2].db, sql[3]) /\ f[3].db = Run(f[2].db, sql[3])
      /\ Possible(f[3].db, sql[4]) /\ f[4].db = Run(f[3].db, sql[4])
      /\ Possible(f[4].db, sql[5]) /\ f[5].db = Run(f[4].db, sql[5])
      /\ Possible(f[5].db, sql[6]) /\ f[6].db = Run(f[5].db, sql[6])
      /\ Possible(f[6].db, sql[7]) /\ f[7].db = Run(f[6].db, sql[7])
      /\ Possible(f[7].db, sql[8]) /\ f[8].db = Run(f[7].db, sql[8])
      /\ Possible(f[8].db, sql[9]) /\ f[9].db = Run(f[8].db, sql[9])
      /\ Possible(f[9].db, sql[10]) /\ f[10].db = Run(f[9].db, sql[10])
      /\ Possible(f[10].db, sql[11]) /\ f[11].db = Run(f[10].db, sql[11])
  <2>1. \A i \in 1..11 : Possible(f[i - 1].db, sql[i]) /\ f[i].db = Run(f[i - 1].db, sql[i])
    BY <1>2 DEF Ran
  <2> HIDE DEF sql
  <2> QED
    BY <2>1
<1>4. Tidy(f[0].db) /\ Tidy(f[6].db) /\ f[0].db = d
  BY <1>2 DEF Ran
<1>5. Keeps(d, f[4].db)
  <2>1. Anew("measurement", "measurement_new", {"id"}, NewMeasurement, [series_id |-> SeriesRef], {},
             f[0].db, f[1].db, f[2].db, f[3].db, f[4].db)
    BY <1>3, Statements_4_0 DEF Anew
  <2> QED
    BY <1>4, <2>1, RebuildMeasurement
<1>6. Keeps(d, f[6].db)
  <2>1. sql[5].do \in Gentle /\ sql[6].do \in Gentle
    BY Statements_4_0, Kinds
  <2> HIDE DEF sql
  <2>2. Keeps(f[4].db, f[5].db)
    BY <1>3, <1>5, <2>1, CreatesKeep DEF Keeps
  <2>3. Keeps(f[5].db, f[6].db)
    BY <1>3, <2>1, <2>2, CreatesKeep DEF Keeps
  <2> QED
    BY <1>5, <2>2, <2>3, KeepsOn
<1>7. Keeps(f[6].db, f[10].db)
  <2>1. Anew("web_session", "web_session_new", {"id"}, Token, [username |-> UserRef], {"username"},
             f[6].db, f[7].db, f[8].db, f[9].db, f[10].db)
    BY <1>3, Statements_4_0 DEF Anew
  <2>2. Fit(f[6].db)
    BY <1>6 DEF Keeps
  <2> QED
    BY <1>4, <2>1, <2>2, RebuildSessions
<1>8. Keeps(f[10].db, f[11].db)
  <2>1. sql[11].do \in Gentle
    BY Statements_4_0, Kinds
  <2> HIDE DEF sql
  <2> QED
    BY <1>3, <1>7, <2>1, CreatesKeep DEF Keeps
<1>9. Keeps(d, f[11].db)
  BY <1>6, <1>7, <1>8, KeepsOn
<1> QED
  BY <1>2, <1>9

\* 4.2: measurement rebuilt, its indexes.
LEMMA Keeps_4_2 ==
  ASSUME NEW d, Tidy(d), Fit(d), execute_batch(d, Migration_4_2).ok
  PROVE  Keeps(d, execute_batch(d, Migration_4_2).db)
<1> DEFINE sql == Migration_4_2
<1>1. TidyList(sql) /\ Len(sql) = 6
  <2>1. 9 \in Releases
    BY Entries DEF Releases
  <2> QED
    BY <2>1, TidyLists, Entries, Statements_4_2
<1>2. PICK f : Ran(f, sql, d, 6) /\ execute_batch(d, sql).db = f[6].db
  BY <1>1, EntryRan
<1>3. /\ Possible(f[0].db, sql[1]) /\ f[1].db = Run(f[0].db, sql[1])
      /\ Possible(f[1].db, sql[2]) /\ f[2].db = Run(f[1].db, sql[2])
      /\ Possible(f[2].db, sql[3]) /\ f[3].db = Run(f[2].db, sql[3])
      /\ Possible(f[3].db, sql[4]) /\ f[4].db = Run(f[3].db, sql[4])
      /\ Possible(f[4].db, sql[5]) /\ f[5].db = Run(f[4].db, sql[5])
      /\ Possible(f[5].db, sql[6]) /\ f[6].db = Run(f[5].db, sql[6])
  <2>1. \A i \in 1..6 : Possible(f[i - 1].db, sql[i]) /\ f[i].db = Run(f[i - 1].db, sql[i])
    BY <1>2 DEF Ran
  <2> HIDE DEF sql
  <2> QED
    BY <2>1
<1>4. Tidy(f[0].db) /\ f[0].db = d
  BY <1>2 DEF Ran
<1>5. Keeps(d, f[4].db)
  <2>1. Anew("measurement", "measurement_new", {}, NewMeasurement, [series_id |-> SeriesRef], {},
             f[0].db, f[1].db, f[2].db, f[3].db, f[4].db)
    BY <1>3, Statements_4_2 DEF Anew
  <2> QED
    BY <1>4, <2>1, RebuildMeasurement
<1>6. sql[5].do \in Gentle /\ sql[6].do \in Gentle
  <2>1. \A n, t, c : CreateUniqueIndex(n, t, c).do = "create index"
    BY DEF CreateUniqueIndex, CreateIndex
  <2>2. \A n, t, c : CreateUniqueIndex(n, t, c).do \in Gentle
    BY <2>1 DEF Gentle
  <2>3. sql[5] = CreateUniqueIndex("measurement_event_time_idx", "measurement", {"event_time", "id"})
    BY Statements_4_2
  <2>4. sql[6] = CreateIndex("measurement_series_event_time_idx", "measurement", {"series_id", "event_time", "id"})
    BY Statements_4_2
  <2> HIDE DEF sql
  <2>5. sql[5].do \in Gentle
    BY <2>2, <2>3
  <2>6. sql[6].do \in Gentle
    BY <2>4, Kinds
  <2> QED
    BY <2>5, <2>6
<1>7. Keeps(d, f[6].db)
  <2> HIDE DEF sql
  <2>2. Keeps(f[4].db, f[5].db)
    BY <1>3, <1>5, <1>6, CreatesKeep DEF Keeps
  <2>3. Keeps(f[5].db, f[6].db)
    BY <1>3, <1>6, <2>2, CreatesKeep DEF Keeps
  <2> QED
    BY <1>5, <2>2, <2>3, KeepsOn
<1> QED
  BY <1>2, <1>7

\* 5.0 drops a column that is not a key.
LEMMA Keeps_5_0 ==
  ASSUME NEW d, Tidy(d), Fit(d), execute_batch(d, Migration_5_0).ok
  PROVE  Keeps(d, execute_batch(d, Migration_5_0).db)
<1> DEFINE sql == Migration_5_0
           s == DropColumn("web_user", "password_hash")
           t == d.tables["web_user"]
           left == DOMAIN t.cols \ {"password_hash"}
           rows == {Project(row, left) : row \in t.rows}
           u == Table(t.key, [c \in left |-> t.cols[c]], t.refs, rows)
           e == execute_batch(d, sql).db
<1>1. TidyList(sql) /\ Len(sql) = 1 /\ sql[1] = s
  <2>1. 11 \in Releases
    BY Entries DEF Releases
  <2>2. Len(sql) = 1 /\ sql[1] = s
    BY DEF Migration_5_0
  <2> QED
    BY <2>1, <2>2, TidyLists, Entries
<1>2. PICK f : Ran(f, sql, d, 1) /\ e = f[1].db
  BY <1>1, EntryRan
<1>3. f[0].db = d /\ Possible(f[0].db, sql[1]) /\ f[1].db = Run(f[0].db, sql[1])
  <2>1. 1 \in 1..1 /\ 1 - 1 = 0
    OBVIOUS
  <2> HIDE DEF sql
  <2> QED
    BY <1>2, <2>1 DEF Ran
<1>4. Possible(d, s) /\ e = Run(d, s)
  BY <1>1, <1>2, <1>3
<1>5. s.do = "drop column" /\ s.table = "web_user" /\ s.col = "password_hash"
  BY DEF DropColumn
<1> HIDE DEF s, e, sql
<1>6. "web_user" \in DOMAIN d.tables /\ e = WithTable(d, "web_user", u)
  BY <1>4, <1>5 DEF Possible, Run, ColumnDropped
<1>7. DOMAIN u.cols = left /\ u.rows = rows
  <2> DEFINE cols == [c \in left |-> t.cols[c]]
  <2>1. DOMAIN cols = left
    OBVIOUS
  <2> HIDE DEF cols, rows, left, t
  <2>2. \A k, c, r, x : Table(k, c, r, x).cols = c /\ Table(k, c, r, x).rows = x
    BY TableFields
  <2>3. u = Table(t.key, cols, t.refs, rows)
    BY DEF cols
  <2> QED
    BY <2>1, <2>2, <2>3
<1>8. IsPut(e, d, "web_user", u)
  BY <1>6, PutTable
<1> HIDE DEF u
<1>9. /\ DOMAIN e.tables = DOMAIN d.tables /\ e.tables["web_user"] = u
      /\ \A m \in DOMAIN d.tables \ {"web_user"} : e.tables[m] = d.tables[m]
  BY <1>6, <1>8 DEF IsPut
<1>10. \A row : /\ DOMAIN Project(row, left) = DOMAIN row \cap left
                /\ \A c \in DOMAIN row \cap left : Project(row, left)[c] = row[c]
  BY DEF Project
<1>11. KeyOf("web_user") = "username"
  BY DEF KeyOf
<1>12. ASSUME NEW row \in t.rows
       PROVE  /\ Stays("web_user", row, Project(row, left)) /\ "username" \in DOMAIN Project(row, left)
              /\ DOMAIN Project(row, left) \subseteq left
  <2>1. DOMAIN row \subseteq DOMAIN t.cols /\ "username" \in DOMAIN row
    BY <1>6, <1>11 DEF Fit
  <2>2. "username" \in left
    BY <2>1
  <2>3. DOMAIN row \ (DOMAIN row \cap left) \subseteq Dropping
    BY <2>1 DEF Dropping
  <2> HIDE DEF left
  <2> QED
    BY <1>10, <1>11, <2>1, <2>2, <2>3 DEF Stays
<1> HIDE DEF left
<1>13. Fit(e)
  <2> SUFFICES ASSUME NEW n \in DOMAIN d.tables, NEW new \in e.tables[n].rows
               PROVE  DOMAIN new \subseteq DOMAIN e.tables[n].cols /\ KeyOf(n) \in DOMAIN new
    BY <1>9 DEF Fit
  <2>1. CASE n = "web_user"
    <3>1. PICK row \in t.rows : new = Project(row, left)
      BY <1>7, <1>9, <2>1
    <3> QED
      BY <1>7, <1>9, <1>11, <1>12, <2>1, <3>1
  <2>2. CASE n # "web_user"
    BY <1>9, <2>2 DEF Fit
  <2> QED
    BY <2>1, <2>2
<1>14. Carried(d, e)
  <2> SUFFICES ASSUME NEW n \in DOMAIN d.tables, NEW row \in d.tables[n].rows
               PROVE  Found(e, n, row)
    BY DEF Carried
  <2>1. CASE n = "web_user"
    <3>1. Project(row, left) \in e.tables[n].rows
      BY <1>7, <1>9, <2>1
    <3> QED
      BY <1>9, <1>12, <2>1, <3>1 DEF Found
  <2>2. CASE n # "web_user"
    BY <1>9, <2>2, SameRowStays DEF Found
  <2> QED
    BY <2>1, <2>2
<1> QED
  BY <1>9, <1>13, <1>14 DEF Keeps, e, sql

\* The entries that touch no row keep them.
LEMMA GentleKeeps ==
  ASSUME NEW d, NEW sql, GentleList(sql), Fit(d), execute_batch(d, sql).ok
  PROVE  Keeps(d, execute_batch(d, sql).db)
<1>1. RowsKept(d, execute_batch(d, sql).db)
  BY GentleBatch DEF GentleList
<1> QED
  BY <1>1, RowsKeptCarries DEF Keeps, RowsKept

\* Every entry but the first two keeps the rows it finds.
LEMMA EntriesKeep ==
  ASSUME NEW i \in Releases, i # 1, i # 2, NEW d, Tidy(d), Fit(d), execute_batch(d, MIGRATIONS[i].sql).ok
  PROVE  Keeps(d, execute_batch(d, MIGRATIONS[i].sql).db)
<1>1. i = 3 \/ i = 4 \/ i = 5 \/ i = 6 \/ i = 7 \/ i = 8 \/ i = 9 \/ i = 10 \/ i = 11
  BY Entries DEF Releases
<1>2. CASE i = 3 \/ i = 4 \/ i = 5 \/ i = 6 \/ i = 8 \/ i = 10
  <2>1. GentleList(MIGRATIONS[i].sql)
    BY <1>2, GentleEntries, Entries
  <2> QED
    BY <2>1, GentleKeeps
<1>3. CASE i = 7
  BY <1>3, Entries, Keeps_4_0
<1>4. CASE i = 9
  BY <1>4, Entries, Keeps_4_2
<1>5. CASE i = 11
  BY <1>5, Entries, Keeps_5_0
<1> QED
  BY <1>1, <1>2, <1>3, <1>4, <1>5

-----------------------------------------------------------------------------
(* The rows under every opener. No release that could leave a database at  *)
(* 1.0 is about, as 2.0 drops its measurements.                            *)

\* A database is at its start, or a migration to a release in circulation made it.
Made(d) ==
  \/ decode(d.version) = VersionOf(0) /\ DOMAIN d.tables = {}
  \/ /\ \E n \in Binaries : decode(d.version) = VersionOf(n)
     /\ "measurement" \in DOMAIN d.tables
\* What was read is at the start, or there were tables already.
BegunOn(r, d) ==
  r.at = "begun" =>
    \E n \in {0} \cup Binaries : /\ r.current = VersionOf(n) /\ n < r.binary
                                 /\ n # 0 => "measurement" \in DOMAIN d.tables
\* The first entry fails where there are tables, so the first two work on nothing.
WorkKeeps(r, d) ==
  r.at = "migrating" =>
    /\ Tidy(r.work) /\ r.next \in Nat
    /\ \/ r.next = 1 /\ r.work = d
       \/ r.next = 2 /\ DOMAIN d.tables = {} /\ Empty(r.work)
       \/ r.next >= 3 /\ Keeps(d, r.work) /\ "measurement" \in DOMAIN r.work.tables
Kept(r, d) ==
  /\ r.at \in Running => r.binary \in Binaries
  /\ BegunOn(r, d) /\ WorkKeeps(r, d)
RowsInv ==
  /\ Typed /\ OneAtATime
  /\ Fit(db) /\ Tidy(db) /\ Made(db)
  /\ \A p \in Openers : Kept(proc[p], db)

\* Rows are in tables: user_version and the indexes do not matter to them.
LEMMA SameTables ==
  ASSUME NEW d, NEW e, NEW f, f.tables = e.tables
  PROVE  (Fit(e) => Fit(f)) /\ (Carried(d, e) => Carried(d, f)) /\ (Tidy(e) => Tidy(f))
BY DEF Fit, Carried, Found, Tidy

\* A database keeps its own rows.
LEMMA KeepsItself == ASSUME NEW d, Fit(d) PROVE Keeps(d, d)
BY SameRowStays DEF Keeps, Carried, Found

\* Who has no transaction and has read nothing.
LEMMA Aside ==
  ASSUME NEW r, NEW d, r.at \notin {"begun", "migrating"}, r.at \in Running => r.binary \in Binaries
  PROVE  Kept(r, d)
BY DEF Kept, BegunOn, WorkKeeps

\* One opener moves on, and the database is left alone.
LEMMA OpenerKept ==
  ASSUME RowsInv, NEW p \in Openers, NEW r, proc' = [proc EXCEPT ![p] = r],
         UNCHANGED <<db, stale>>, Kept(r, db),
         r.at = "migrating" => Unlocked \/ proc[p].at = "migrating"
  PROVE  RowsInv'
<1>1. DOMAIN proc' = Openers /\ proc'[p] = r /\ \A q \in Openers \ {p} : proc'[q] = proc[q]
  BY DEF RowsInv, Typed
<1>2. \A q \in Openers : Kept(proc'[q], db')
  BY <1>1 DEF RowsInv
<1>3. Typed'
  BY <1>1 DEF RowsInv, Typed
<1>4. OneAtATime'
  BY <1>1 DEF RowsInv, OneAtATime, Unlocked
<1> QED
  BY <1>2, <1>3, <1>4 DEF RowsInv

\* Nobody else migrates, and no table goes: all that the others know stays true.
LEMMA OthersKept ==
  ASSUME RowsInv, NEW q \in Openers, proc[q].at # "migrating", DOMAIN db.tables \subseteq DOMAIN db'.tables
  PROVE  Kept(proc[q], db')
<1>1. Kept(proc[q], db)
  BY DEF RowsInv
<1> QED
  BY <1>1 DEF Kept, BegunOn, WorkKeeps

\* What is read is a release in circulation, before one's own.
LEMMA BeginKept ==
  ASSUME RowsInv, NEW p \in Openers, Begin(p)
  PROVE  RowsInv'
<1> DEFINE r == [at |-> "begun", binary |-> proc[p].binary, current |-> decode(db.version)]
<1>1. proc' = [proc EXCEPT ![p] = r] /\ UNCHANGED <<db, stale>> /\ proc[p].at = "opened"
  BY DEF Begin
<1>2. r.at = "begun" /\ r.current = decode(db.version) /\ r.binary = proc[p].binary
  OBVIOUS
<1>3. proc[p].binary \in Binaries
  BY <1>1 DEF RowsInv, Kept, Running
<1>4. Precedes(decode(db.version), MIGRATIONS[proc[p].binary].version)
  BY DEF Begin, Pending, Declared
<1> HIDE DEF r
<1>5. PICK n \in {0} \cup Binaries : decode(db.version) = VersionOf(n) /\ (n # 0 => "measurement" \in DOMAIN db.tables)
  BY DEF RowsInv, Made
<1>6. n \in 0..Len(MIGRATIONS) /\ proc[p].binary \in Releases
  BY <1>3, Deployable, ReleaseCount DEF Releases
<1>7. n < proc[p].binary
  BY <1>4, <1>5, <1>6, VersionsSorted
<1>8. BegunOn(r, db)
  BY <1>2, <1>5, <1>7 DEF BegunOn
<1>9. Kept(r, db)
  BY <1>2, <1>3, <1>8 DEF Kept, WorkKeeps
<1> QED
  BY <1>1, <1>2, <1>9, OpenerKept

\* The lock is taken on the committed rows. Where there are any, the entries start with the third.
LEMMA LockKept ==
  ASSUME 1 \notin Binaries, RowsInv, NEW p \in Openers, Lock(p)
  PROVE  RowsInv'
<1> DEFINE r == [at |-> "migrating", binary |-> proc[p].binary, current |-> proc[p].current,
                 work |-> db, next |-> FirstOf(Unapplied(p))]
           b == proc[p].binary
<1>1. proc[p].at = "begun" /\ b \in Binaries /\ b \in Releases
  BY Deployable DEF Lock, RowsInv, Kept, Running
<1>2. PICK n \in {0} \cup Binaries :
        proc[p].current = VersionOf(n) /\ n < b /\ (n # 0 => "measurement" \in DOMAIN db.tables)
  BY <1>1 DEF RowsInv, Kept, BegunOn
<1>3. n \in Nat
  BY Deployable
<1>4. FirstOf(Unapplied(p)) = n + 1
  <2>1. Unapplied(p) = {i \in 1..b : Precedes(VersionOf(n), MIGRATIONS[i].version)}
    BY <1>2 DEF Unapplied
  <2> QED
    BY <1>1, <1>2, <1>3, <2>1, FirstMissing
<1>5. r.at = "migrating" /\ r.work = db /\ r.next = n + 1 /\ r.binary = b
  BY <1>4
<1>6. proc' = [proc EXCEPT ![p] = r] /\ UNCHANGED <<db, stale>> /\ Unlocked
  BY DEF Lock
<1> HIDE DEF r, b
<1>7. WorkKeeps(r, db)
  <2>1. Tidy(db) /\ Keeps(db, db)
    BY KeepsItself DEF RowsInv
  <2>2. n = 0 => r.next = 1
    BY <1>5
  <2>3. n # 0 => r.next >= 3 /\ "measurement" \in DOMAIN r.work.tables
    BY <1>2, <1>3, <1>5
  <2> QED
    BY <1>3, <1>5, <2>1, <2>2, <2>3 DEF WorkKeeps
<1>8. Kept(r, db)
  BY <1>1, <1>5, <1>7 DEF Kept, BegunOn
<1> QED
  BY <1>6, <1>8, OpenerKept

\* 1.0 fails where there is a table of measurements.
LEMMA FirstEntry ==
  ASSUME NEW d, Tidy(d), execute_batch(d, Migration_1_0).ok
  PROVE  "measurement" \notin DOMAIN d.tables
<1> DEFINE sql == Migration_1_0
           s == CreateTable("measurement", {"id"}, OldMeasurement, NoRefs)
<1>1. TidyList(sql) /\ Len(sql) = 3 /\ sql[1] = s
  <2>1. 1 \in Releases
    BY Entries DEF Releases
  <2>2. Len(sql) = 3 /\ sql[1] = s
    BY DEF Migration_1_0, TypeIndexes
  <2> QED
    BY <2>1, <2>2, TidyLists, Entries
<1>2. PICK f : Ran(f, sql, d, 3)
  BY <1>1, EntryRan
<1>3. s.do = "create table" /\ s.table = "measurement"
  BY DEF CreateTable
<1> HIDE DEF s, sql
<1>4. Possible(f[0].db, sql[1]) /\ f[0].db = d
  <2>1. 1 \in 1..3 /\ 1 - 1 = 0
    OBVIOUS
  <2> QED
    BY <1>2, <2>1 DEF Ran
<1>5. Possible(d, s)
  BY <1>1, <1>4
<1> QED
  BY <1>3, <1>5 DEF Possible

\* 2.0 leaves one.
LEMMA SecondEntry ==
  ASSUME NEW d, Tidy(d), execute_batch(d, Migration_2_0).ok
  PROVE  "measurement" \in DOMAIN execute_batch(d, Migration_2_0).db.tables
<1> DEFINE sql == Migration_2_0
           s == CreateTable("measurement", {"id"}, OldMeasurement, NoRefs)
           e == execute_batch(d, sql).db
<1>1. TidyList(sql) /\ Len(sql) = 4 /\ sql[2] = s /\ sql[3].do \in Gentle /\ sql[4].do \in Gentle
  <2>1. 2 \in Releases
    BY Entries DEF Releases
  <2>2. Len(sql) = 4 /\ sql[2] = s
        /\ sql[3] = CreateIndex("measurement_type_event_time_idx", "measurement", {"type", "event_time", "id"})
        /\ sql[4] = CreateIndex("measurement_event_time_idx", "measurement", {"event_time", "id"})
    BY DEF Migration_2_0, TypeIndexes
  <2> HIDE DEF sql, s
  <2>3. sql[3].do \in Gentle /\ sql[4].do \in Gentle
    BY <2>2, Kinds
  <2>4. TidyList(sql)
    BY <2>1, TidyLists, Entries DEF sql
  <2> QED
    BY <2>2, <2>3, <2>4
<1>2. PICK f : Ran(f, sql, d, 4) /\ e = f[4].db
  BY <1>1, EntryRan
<1>3. s.do = "create table" /\ s.table = "measurement"
  BY DEF CreateTable
<1> HIDE DEF s, sql, e
<1>4. /\ f[2].db = Run(f[1].db, sql[2])
      /\ Possible(f[2].db, sql[3]) /\ f[3].db = Run(f[2].db, sql[3])
      /\ Possible(f[3].db, sql[4]) /\ f[4].db = Run(f[3].db, sql[4])
  <2>1. \A i \in 1..4 : Possible(f[i - 1].db, sql[i]) /\ f[i].db = Run(f[i - 1].db, sql[i])
    BY <1>2 DEF Ran
  <2> QED
    BY <2>1
<1>5. "measurement" \in DOMAIN f[2].db.tables
  <2> DEFINE t == Table(s.key, s.cols, s.refs, {})
  <2>1. f[2].db = WithTable(f[1].db, "measurement", t)
    BY <1>1, <1>3, <1>4 DEF Run, TableCreated
  <2> HIDE DEF t
  <2>2. IsPut(f[2].db, f[1].db, "measurement", t)
    BY <2>1, PutTable
  <2> QED
    BY <2>2 DEF IsPut
<1>6. RowsKept(f[2].db, f[3].db) /\ RowsKept(f[3].db, f[4].db)
  BY <1>1, <1>4, GentleRun
<1>7. "measurement" \in DOMAIN e.tables
  BY <1>2, <1>5, <1>6 DEF RowsKept
<1> QED
  BY <1>7 DEF e, sql

\* Tidy entries, by their place.
LEMMA EntryTidy ==
  ASSUME NEW i \in Releases, NEW d, Tidy(d), execute_batch(d, MIGRATIONS[i].sql).ok
  PROVE  Tidy(execute_batch(d, MIGRATIONS[i].sql).db)
<1> DEFINE sql == MIGRATIONS[i].sql
           n == Len(sql)
<1>1. TidyList(sql) /\ n \in Nat
  BY TidyLists DEF TidyList
<1>2. PICK f : Ran(f, sql, d, n) /\ execute_batch(d, sql).db = f[n].db
  BY <1>1, EntryRan
<1>3. n \in 0..n
  BY <1>1
<1> HIDE DEF n
<1>4. Tidy(f[n].db)
  BY <1>2, <1>3 DEF Ran
<1> QED
  BY <1>2, <1>4

\* One entry more.
LEMMA MigrateKept ==
  ASSUME 1 \notin Binaries, RowsInv, NEW p \in Openers, Migrate(p)
  PROVE  RowsInv'
<1> DEFINE old == proc[p]
           k == proc[p].next
           done == execute_batch(proc[p].work, MIGRATIONS[proc[p].next].sql)
           r == [at |-> "migrating", binary |-> proc[p].binary, current |-> proc[p].current,
                 work |-> done.db, next |-> proc[p].next + 1]
<1>1. old.at = "migrating" /\ old.binary \in Binaries /\ k <= old.binary
  BY DEF Migrate, RowsInv, Kept, Running
<1>2. UNCHANGED <<db, stale>> /\ proc' = [proc EXCEPT ![p] = IF done.ok THEN r ELSE Off]
  BY DEF Migrate
<1>3. CASE ~done.ok
  <2>1. proc' = [proc EXCEPT ![p] = Off]
    BY <1>2, <1>3
  <2>2. Kept(Off, db) /\ Off.at # "migrating"
    BY Aside, IdleStates
  <2> QED
    BY <1>2, <2>1, <2>2, OpenerKept
<1>4. CASE done.ok
  <2>1. proc' = [proc EXCEPT ![p] = r]
    BY <1>2, <1>4
  <2>2. r.at = "migrating" /\ r.work = done.db /\ r.next = k + 1 /\ r.binary = old.binary
    OBVIOUS
  <2>3. WorkKeeps(old, db) /\ Made(db)
    BY DEF RowsInv, Kept
  <2>4. Tidy(old.work) /\ k \in Nat
    BY <1>1, <2>3 DEF WorkKeeps
  <2>5. k >= 1 => k \in Releases
    <3> DEFINE b == old.binary
               L == Len(MIGRATIONS)
    <3>1. b \in Nat /\ b <= L /\ L \in Nat /\ k <= b
      BY <1>1, Deployable, ReleaseCount
    <3> HIDE DEF b, L, k
    <3>2. k >= 1 => k \in 1..L
      BY <2>4, <3>1
    <3> QED
      BY <3>2 DEF L, Releases
  <2> HIDE DEF r
  <2>6. WorkKeeps(r, db)
    <3>1. CASE k = 1 /\ old.work = db
      <4>1. done = execute_batch(db, Migration_1_0)
        BY <3>1, Entries
      <4>2. Tidy(db)
        BY <2>4, <3>1
      <4> HIDE DEF done, k, old
      <4>3. "measurement" \notin DOMAIN db.tables
        BY <1>4, <4>1, <4>2, FirstEntry
      <4>4. DOMAIN db.tables = {} /\ Empty(db)
        BY <2>3, <4>3 DEF Made, Empty
      <4>5. Len(Migration_1_0) \in Nat
        BY <2>5, <3>1, ListsOfStatements, Entries DEF Releases
      <4>6. Empty(done.db)
        BY <4>1, <4>4, <4>5, BatchEmpty
      <4>7. Tidy(done.db)
        BY <1>4, <2>5, <3>1, <4>1, <4>2, EntryTidy, Entries
      <4>8. r.next = 2
        BY <2>2, <3>1
      <4> QED
        BY <2>2, <4>4, <4>6, <4>7, <4>8 DEF WorkKeeps
    <3>2. CASE k = 2 /\ DOMAIN db.tables = {} /\ Empty(old.work)
      <4>1. done = execute_batch(old.work, Migration_2_0)
        BY <3>2, Entries
      <4> HIDE DEF done, k, old
      <4>2. "measurement" \in DOMAIN done.db.tables
        BY <1>4, <2>4, <4>1, SecondEntry
      <4>3. Len(Migration_2_0) \in Nat
        BY <2>5, <3>2, ListsOfStatements, Entries DEF Releases
      <4>4. Empty(done.db)
        BY <3>2, <4>1, <4>3, BatchEmpty
      <4>5. Tidy(done.db)
        BY <1>4, <2>4, <2>5, <3>2, <4>1, EntryTidy, Entries
      <4>6. Keeps(db, done.db)
        BY <3>2, <4>4 DEF Keeps, Fit, Carried, Empty
      <4>7. r.next >= 3
        BY <2>2, <3>2
      <4> QED
        BY <2>2, <2>4, <4>2, <4>5, <4>6, <4>7 DEF WorkKeeps
    <3>3. CASE k >= 3 /\ Keeps(db, old.work) /\ "measurement" \in DOMAIN old.work.tables
      <4>1. k \in Releases /\ k # 1 /\ k # 2
        BY <2>4, <2>5, <3>3
      <4>2. done = execute_batch(old.work, MIGRATIONS[k].sql)
        OBVIOUS
      <4> HIDE DEF done, k, old
      <4>3. Keeps(old.work, done.db)
        BY <1>4, <2>4, <3>3, <4>1, <4>2, EntriesKeep DEF Keeps
      <4>4. Tidy(done.db)
        BY <1>4, <2>4, <4>1, <4>2, EntryTidy
      <4>5. Keeps(db, done.db) /\ "measurement" \in DOMAIN done.db.tables
        BY <3>3, <4>3, KeepsOn DEF Keeps
      <4>6. r.next >= 3 /\ r.next \in Nat
        BY <2>2, <2>4, <3>3
      <4> QED
        BY <2>2, <4>4, <4>5, <4>6 DEF WorkKeeps
    <3> QED
      BY <1>1, <2>3, <3>1, <3>2, <3>3 DEF WorkKeeps
  <2>7. Kept(r, db)
    BY <1>1, <2>2, <2>6 DEF Kept, BegunOn
  <2> QED
    BY <1>1, <1>2, <2>1, <2>7, OpenerKept
<1> QED
  BY <1>3, <1>4

\* What is committed: the rows, and a version in circulation.
LEMMA CommitCarries ==
  ASSUME 1 \notin Binaries, RowsInv, NEW p \in Openers, CommitMigration(p), DeferredResolve(proc[p].work)
  PROVE  /\ db'.tables = proc[p].work.tables /\ Keeps(db, db') /\ Tidy(db') /\ Made(db')
         /\ proc' = [proc EXCEPT ![p] = [at |-> "ready", binary |-> proc[p].binary,
                                         found |-> Declared(proc[p].binary)]]
<1> DEFINE b == proc[p].binary
           work == proc[p].work
           k == proc[p].next
<1>1. proc[p].at = "migrating" /\ b \in Binaries /\ b \in Releases /\ k > b
  BY Deployable DEF CommitMigration, RowsInv, Kept, Running
<1>2. /\ db' = AtVersion(work, MIGRATIONS[b].version)
      /\ proc' = [proc EXCEPT ![p] = [at |-> "ready", binary |-> b, found |-> Declared(b)]]
  BY DEF CommitMigration, Declared
<1>3. b \in Nat /\ b >= 2
  BY <1>1, Deployable
<1>4. WorkKeeps(proc[p], db)
  BY DEF RowsInv, Kept
<1>5. Tidy(work) /\ Keeps(db, work) /\ "measurement" \in DOMAIN work.tables
  <2>1. k \in Nat /\ k # 1 /\ k # 2
    BY <1>1, <1>3, <1>4 DEF WorkKeeps
  <2> QED
    BY <1>1, <1>4, <2>1 DEF WorkKeeps
<1> HIDE DEF work, b, k
<1>6. db'.tables = work.tables /\ db'.version = encode(MIGRATIONS[b].version)
  BY <1>2, DatabaseFields DEF AtVersion
<1>7. decode(db'.version) = VersionOf(b)
  BY <1>1, <1>6, VersionsReadBack, FreshVersions
<1>8. Made(db')
  BY <1>1, <1>5, <1>6, <1>7 DEF Made
<1>9. Keeps(db, db') /\ Tidy(db')
  BY <1>5, <1>6, SameTables DEF Keeps
<1> QED
  BY <1>2, <1>6, <1>8, <1>9 DEF work, b

\* A commit keeps every picture of the rows right.
LEMMA CommitKept ==
  ASSUME 1 \notin Binaries, RowsInv, NEW p \in Openers, CommitMigration(p)
  PROVE  RowsInv'
<1>1. CASE ~DeferredResolve(proc[p].work)
  <2>1. proc' = [proc EXCEPT ![p] = Off] /\ UNCHANGED <<db, stale>>
    BY <1>1 DEF CommitMigration
  <2>2. Kept(Off, db) /\ Off.at # "migrating"
    BY Aside, IdleStates
  <2> QED
    BY <2>1, <2>2, OpenerKept
<1>2. CASE DeferredResolve(proc[p].work)
  <2> DEFINE r == [at |-> "ready", binary |-> proc[p].binary, found |-> Declared(proc[p].binary)]
  <2>1. /\ Keeps(db, db') /\ Tidy(db') /\ Made(db')
        /\ proc' = [proc EXCEPT ![p] = r]
    BY <1>2, CommitCarries
  <2>2. r.at = "ready" /\ r.binary = proc[p].binary
    OBVIOUS
  <2>3. proc[p].at = "migrating"
    BY DEF CommitMigration
  <2> HIDE DEF r
  <2>4. proc[p].binary \in Binaries
    BY <2>3 DEF RowsInv, Kept, Running
  <2>5. Kept(r, db')
    BY <2>2, <2>4, Aside
  <2>6. DOMAIN proc' = Openers /\ proc'[p] = r /\ \A q \in Openers \ {p} : proc'[q] = proc[q]
    BY <2>1 DEF RowsInv, Typed
  <2>7. ASSUME NEW q \in Openers PROVE Kept(proc'[q], db') /\ (proc'[q].at # "migrating")
    <3>1. CASE q = p
      BY <2>2, <2>5, <2>6, <3>1
    <3>2. CASE q # p
      <4>1. proc[q].at # "migrating"
        BY <2>3, <3>2 DEF RowsInv, OneAtATime
      <4> QED
        BY <2>1, <2>6, <3>2, <4>1, OthersKept DEF Keeps
    <3> QED
      BY <3>1, <3>2
  <2>8. Typed' /\ OneAtATime'
    BY <2>1, <2>6, <2>7 DEF RowsInv, Typed, OneAtATime
  <2> QED
    BY <2>1, <2>7, <2>8 DEF RowsInv, Keeps
<1> QED
  BY <1>1, <1>2

-----------------------------------------------------------------------------
(* What the openers write.                                                 *)
Keyed(rows) == \A r \in rows : KeyOf(r[1]) \in DOMAIN r[2]
\* The key of each table that is written to.
LEMMA KeysOfTables ==
  /\ KeyOf("measurement") = "id" /\ KeyOf("series") = "id" /\ KeyOf("api_key") = "id"
  /\ KeyOf("web_session") = "id" /\ KeyOf("web_login_token") = "id"
  /\ KeyOf("web_user") = "username" /\ KeyOf("web_passkey") = "credential_id"
BY DEF KeyOf
\* The columns of a row that is written.
LEMMA ValuesOf == \A cols, special : DOMAIN Values(cols, special) = cols \cup DOMAIN special
BY DEF Values

\* A row written with columns of its table, and with its key.
LEMMA RowKeyed ==
  ASSUME NEW t, NEW cols, NEW special, KeyOf(t) \in DOMAIN special
  PROVE  Keyed({<<t, Values(cols, special)>>})
<1> DEFINE row == <<t, Values(cols, special)>>
<1>1. row[1] = t /\ row[2] = Values(cols, special)
  OBVIOUS
<1> HIDE DEF row
<1>2. KeyOf(row[1]) \in DOMAIN row[2]
  <2>1. DOMAIN Values(cols, special) = cols \cup DOMAIN special
    BY ValuesOf
  <2>2. DOMAIN row[2] = cols \cup DOMAIN special
    BY <1>1, <2>1
  <2>3. KeyOf(row[1]) = KeyOf(t)
    BY <1>1
  <2> QED
    BY <2>2, <2>3
<1>3. Keyed({row})
  BY <1>2 DEF Keyed
<1> QED
  BY <1>3 DEF row

\* The series goes in with its id.
LEMMA SeriesKeyed == Keyed({SeriesRow})
<1>1. KeyOf("series") \in DOMAIN [id |-> Series]
  BY KeysOfTables
<1> QED
  BY <1>1, RowKeyed DEF SeriesRow

\* So does a measurement, of whichever release.
LEMMA MeasurementsKeyed == \A v, m : Keyed(MeasurementRows(v, m))
<1> TAKE v, m
<1> DEFINE one == <<"measurement", Values(Sent \cup {"type", "attributes"}, [id |-> m])>>
           cols == IF Precedes(v, Version(4, 0)) THEN Sent \cup {"type", "attributes"} ELSE Sent
           two == <<"measurement", Values(cols, [id |-> m, series_id |-> Series])>>
<1>1. Keyed({one})
  <2>1. KeyOf("measurement") \in DOMAIN [id |-> m]
    BY KeysOfTables
  <2> QED
    BY <2>1, RowKeyed
<1>2. Keyed({two})
  <2>1. KeyOf("measurement") \in DOMAIN [id |-> m, series_id |-> Series]
    BY KeysOfTables
  <2> HIDE DEF cols
  <2> QED
    BY <2>1, RowKeyed
<1>3. MeasurementRows(v, m) = {one} \/ MeasurementRows(v, m) = {two, SeriesRow}
  BY DEF MeasurementRows
<1> HIDE DEF one, two
<1> QED
  BY <1>1, <1>2, <1>3, SeriesKeyed DEF Keyed

\* Whatever a release inserts has its key.
LEMMA WritesKeyed == \A v : \A rows \in Writes(v) : Keyed(rows)
<1> TAKE v
<1> TAKE rows \in Writes(v)
<1> DEFINE apikey == <<"api_key", Values({"secret_hash", "label", "created_at"}, [id |-> "pi"])>>
<1>1. \/ \E m \in Measurements : rows = MeasurementRows(v, m)
      \/ rows = {apikey} \/ rows = {UserRow(v)} \/ rows = {Bearer("web_session", "tab")}
      \/ rows = {PasskeyRow} \/ rows = {Bearer("web_login_token", "link")}
  <2>1. PICK i \in Inserts(v) : rows = i.rows
    BY DEF Writes
  <2> HIDE DEF apikey
  <2>2. \/ \E m \in Measurements : i = [since |-> Version(1, 0), rows |-> MeasurementRows(v, m)]
        \/ i = [since |-> Version(3, 0), rows |-> {apikey}]
        \/ i = [since |-> Version(3, 1), rows |-> {UserRow(v)}]
        \/ i = [since |-> Version(3, 1), rows |-> {Bearer("web_session", "tab")}]
        \/ i = [since |-> Version(4, 1), rows |-> {PasskeyRow}]
        \/ i = [since |-> Version(4, 3), rows |-> {Bearer("web_login_token", "link")}]
    BY <2>1 DEF Inserts, apikey
  <2> QED
    BY <2>1, <2>2
<1>2. Keyed({apikey})
  <2>1. KeyOf("api_key") \in DOMAIN [id |-> "pi"]
    BY KeysOfTables
  <2> QED
    BY <2>1, RowKeyed
<1>3. Keyed({UserRow(v)})
  <2> DEFINE cols == IF Precedes(v, Version(5, 0)) THEN {"password_hash", "created_at"} ELSE {"created_at"}
  <2>1. KeyOf("web_user") \in DOMAIN [username |-> "op"]
    BY KeysOfTables
  <2>2. UserRow(v) = <<"web_user", Values(cols, [username |-> "op"])>>
    BY DEF UserRow
  <2> HIDE DEF cols
  <2> QED
    BY <2>1, <2>2, RowKeyed
<1>4. \A t, id : KeyOf(t) = "id" => Keyed({Bearer(t, id)})
  <2> TAKE t, id
  <2>1. "id" \in DOMAIN [id |-> id, username |-> "op"]
    OBVIOUS
  <2> QED
    BY <2>1, RowKeyed DEF Bearer
<1>5. Keyed({PasskeyRow})
  <2>1. KeyOf("web_passkey") \in DOMAIN [credential_id |-> "phone", username |-> "op"]
    BY KeysOfTables
  <2> QED
    BY <2>1, RowKeyed DEF PasskeyRow
<1> HIDE DEF apikey
<1> QED
  BY <1>1, <1>2, <1>3, <1>4, <1>5, KeysOfTables, MeasurementsKeyed

\* The tables of what an INSERT OR IGNORE leaves.
IsInserted(e, d, rows) ==
  /\ DOMAIN e.tables = DOMAIN d.tables
  /\ \A t \in DOMAIN d.tables :
       /\ e.tables[t].cols = d.tables[t].cols /\ d.tables[t].rows \subseteq e.tables[t].rows
       /\ \A new \in e.tables[t].rows \ d.tables[t].rows : \E r \in rows : r[1] = t /\ r[2] = new
\* What inserting makes of the tables.
LEMMA InsertedTables == \A d, rows : IsInserted(Inserted(d, rows), d, rows)
<1> TAKE d, rows
<1> DEFINE e == Inserted(d, rows)
           New(t) == {r[2] : r \in {q \in rows : q[1] = t /\ ~Holds(d, t, q[2])}}
<1>1. e.tables = [t \in DOMAIN d.tables |-> WithRows(d.tables[t], d.tables[t].rows \cup New(t))]
  BY DatabaseFields DEF Inserted
<1>2. \A t : \A new \in New(t) : \E r \in rows : r[1] = t /\ r[2] = new
  OBVIOUS
<1> HIDE DEF e, New
<1>3. \A t \in DOMAIN d.tables :
        e.tables[t].cols = d.tables[t].cols /\ e.tables[t].rows = d.tables[t].rows \cup New(t)
  BY <1>1, RowsReplaced
<1>4. DOMAIN e.tables = DOMAIN d.tables
  BY <1>1
<1>5. IsInserted(e, d, rows)
  BY <1>2, <1>3, <1>4 DEF IsInserted
<1> QED
  BY <1>5 DEF e

\* Inserted rows fit, and no row goes.
LEMMA InsertedFit ==
  ASSUME NEW d, NEW e, NEW rows, Fit(d), Accepts(d, rows), Keyed(rows), IsInserted(e, d, rows)
  PROVE  Keeps(d, e)
<1>1. Carried(d, e)
  BY SameRowStays DEF Carried, Found, IsInserted
<1>2. Fit(e)
  <2> SUFFICES ASSUME NEW t \in DOMAIN d.tables, NEW row \in e.tables[t].rows
               PROVE  DOMAIN row \subseteq DOMAIN e.tables[t].cols /\ KeyOf(t) \in DOMAIN row
    BY DEF Fit, IsInserted
  <2>1. e.tables[t].cols = d.tables[t].cols
    BY DEF IsInserted
  <2>2. CASE row \in d.tables[t].rows
    BY <2>1, <2>2 DEF Fit
  <2>3. CASE row \notin d.tables[t].rows
    <3>1. PICK r \in rows : r[1] = t /\ r[2] = row
      BY <2>3 DEF IsInserted
    <3>2. DOMAIN r[2] \subseteq DOMAIN d.tables[r[1]].cols /\ KeyOf(r[1]) \in DOMAIN r[2]
      BY <3>1 DEF Accepts, Keyed, Columns
    <3> QED
      BY <2>1, <3>1, <3>2
  <2> QED
    BY <2>2, <2>3
<1> QED
  BY <1>1, <1>2 DEF Keeps, IsInserted

\* A write while nobody migrates, that changes no table but its rows.
LEMMA RowsWritten ==
  ASSUME RowsInv, Unlocked, UNCHANGED <<proc, stale>>, Fit(db'), db'.version = db.version, Alike(db', db)
  PROVE  RowsInv'
<1>1. DOMAIN db'.tables = DOMAIN db.tables
  BY DEF Alike
<1>2. ASSUME NEW q \in Openers PROVE Kept(proc[q], db')
  BY <1>1, OthersKept DEF Unlocked
<1>3. Tidy(db') /\ Made(db')
  BY <1>1, AlikeTidy DEF RowsInv, Made
<1> QED
  BY <1>2, <1>3 DEF RowsInv, Typed, OneAtATime

\* A write adds rows.
LEMMA WriteCarries ==
  ASSUME RowsInv, NEW p \in Openers, Write(p)
  PROVE  Keeps(db, db') /\ db'.version = db.version /\ Alike(db', db)
<1>1. PICK rows \in Writes(Declared(proc[p].binary)) : Accepts(db, rows) /\ db' = Inserted(db, rows)
  BY Zenon DEF Write
<1>2. Keyed(rows)
  BY WritesKeyed
<1>3. Fit(db)
  BY DEF RowsInv
<1> QED
  BY <1>1, <1>2, <1>3, InsertedTables, InsertedFit, InsertedAlike

\* Writing keeps every picture of the rows right.
LEMMA WriteKept ==
  ASSUME RowsInv, NEW p \in Openers, Write(p)
  PROVE  RowsInv'
<1>1. Unlocked /\ UNCHANGED <<proc, stale>>
  BY DEF Write
<1> QED
  BY <1>1, WriteCarries, RowsWritten DEF Keeps

\* The row that gets its series, and what there was.
Filled(d, e, row, new) ==
  /\ "measurement" \in DOMAIN d.tables /\ DOMAIN e.tables = DOMAIN d.tables
  /\ DOMAIN new = DOMAIN row \cup {"series_id"} /\ \A c \in DOMAIN row : new[c] = row[c]
  /\ \A t \in DOMAIN d.tables \ {"measurement"} : d.tables[t].rows \subseteq e.tables[t].rows
  /\ d.tables["measurement"].rows \ {row} \subseteq e.tables["measurement"].rows
  /\ new \in e.tables["measurement"].rows
\* A backfill gives one row its series, and changes nothing else of what was there.
LEMMA BackfillFills ==
  ASSUME RowsInv, NEW p \in Openers, Backfill(p)
  PROVE  /\ Fit(db') /\ db'.version = db.version /\ Alike(db', db)
         /\ \E row \in db.tables["measurement"].rows : \E new : Filled(db, db', row, new)
<1> DEFINE d == Inserted(db, {SeriesRow})
           t == d.tables["measurement"]
           filled(row) == [c \in DOMAIN row \cup {"series_id"} |-> IF c = "series_id" THEN Series ELSE row[c]]
<1>1. "measurement" \in DOMAIN db.tables
  BY DEF Backfill
<1>2. PICK row \in db.tables["measurement"].rows :
        /\ "series_id" \notin DOMAIN row /\ Accepts(db, {SeriesRow, <<"measurement", filled(row)>>})
        /\ db' = WithTable(d, "measurement", WithRows(t, (t.rows \ {row}) \cup {filled(row)}))
  BY Zenon DEF Backfill
<1> DEFINE new == filled(row)
           rows == (t.rows \ {row}) \cup {new}
<1>3. DOMAIN new = DOMAIN row \cup {"series_id"} /\ \A c \in DOMAIN row : new[c] = row[c]
  BY <1>2
<1>4. Accepts(db, {SeriesRow}) /\ DOMAIN new \subseteq Columns(db, "measurement")
  <2> DEFINE pair == <<"measurement", new>>
  <2>1. pair[1] = "measurement" /\ pair[2] = new
    OBVIOUS
  <2>2. Accepts(db, {SeriesRow, pair})
    BY <1>2
  <2> HIDE DEF pair, new
  <2> QED
    BY <2>1, <2>2 DEF Accepts
<1>5. db' = WithTable(d, "measurement", WithRows(t, rows))
  BY <1>2
<1> HIDE DEF filled, new
<1>6. IsInserted(d, db, {SeriesRow}) /\ d.version = db.version /\ Alike(d, db)
  BY InsertedTables, InsertedAlike
<1>7. Keeps(db, d)
  BY <1>4, <1>6, SeriesKeyed, InsertedFit DEF RowsInv
<1> DEFINE u == WithRows(t, rows)
<1>8. u.cols = t.cols /\ u.rows = rows
  BY RowsReplaced
<1> HIDE DEF d, u
<1>9. IsPut(db', d, "measurement", u) /\ db'.version = d.version
  <2>1. db' = WithTable(d, "measurement", u)
    BY <1>5 DEF u
  <2>2. IsPut(db', d, "measurement", u)
    BY <2>1, PutTable
  <2>3. \A e, n, x : WithTable(e, n, x).version = e.version
    BY DatabaseFields DEF WithTable
  <2> QED
    BY <2>1, <2>2, <2>3
<1>10. DOMAIN d.tables = DOMAIN db.tables
  BY <1>6 DEF IsInserted
<1>11. Alike(db', db)
  <2>1. Alike(db', d)
    <3>1. "measurement" \in DOMAIN d.tables
      BY <1>1, <1>10
    <3> QED
      BY <1>5, <3>1, RowsOnly
  <2> QED
    BY <1>6, <2>1, AlikeIsAnEquality
<1>12. /\ DOMAIN db'.tables = DOMAIN db.tables /\ db'.tables["measurement"] = u
       /\ \A m \in DOMAIN db.tables \ {"measurement"} : db'.tables[m] = d.tables[m]
  BY <1>1, <1>9, <1>10 DEF IsPut
<1>13. Fit(db')
  <2> SUFFICES ASSUME NEW n \in DOMAIN db.tables, NEW r \in db'.tables[n].rows
               PROVE  DOMAIN r \subseteq DOMAIN db'.tables[n].cols /\ KeyOf(n) \in DOMAIN r
    BY <1>12 DEF Fit
  <2>1. Fit(d) /\ Fit(db)
    BY <1>7 DEF Keeps, RowsInv
  <2>2. CASE n # "measurement"
    BY <1>10, <1>12, <2>1, <2>2 DEF Fit
  <2>3. CASE n = "measurement" /\ r \in t.rows
    BY <1>1, <1>8, <1>10, <1>12, <2>1, <2>3 DEF Fit
  <2>4. CASE n = "measurement" /\ r = new
    <3>1. KeyOf(n) \in DOMAIN row
      BY <1>1, <2>1, <2>4 DEF Fit
    <3>2. DOMAIN db'.tables[n].cols = Columns(db, n)
      BY <1>1, <1>6, <1>8, <1>12, <2>4 DEF Columns, IsInserted
    <3> QED
      BY <1>3, <1>4, <2>4, <3>1, <3>2
  <2>5. n = "measurement" => r \in t.rows \/ r = new
    BY <1>8, <1>12
  <2> QED
    BY <2>2, <2>3, <2>4, <2>5
<1>14. Filled(db, db', row, new)
  <2>1. \A n \in DOMAIN db.tables : db.tables[n].rows \subseteq d.tables[n].rows
    BY <1>6 DEF IsInserted
  <2>2. \A n \in DOMAIN db.tables \ {"measurement"} : db.tables[n].rows \subseteq db'.tables[n].rows
    BY <1>12, <2>1
  <2>3. db'.tables["measurement"].rows = rows
    BY <1>8, <1>12
  <2>4. db.tables["measurement"].rows \ {row} \subseteq rows /\ new \in rows
    BY <1>1, <2>1
  <2> QED
    BY <1>1, <1>3, <1>12, <2>2, <2>3, <2>4 DEF Filled
<1> QED
  BY <1>6, <1>9, <1>11, <1>13, <1>14

\* It keeps every picture of the rows right.
LEMMA BackfillKept ==
  ASSUME RowsInv, NEW p \in Openers, Backfill(p)
  PROVE  RowsInv'
<1>1. Unlocked /\ UNCHANGED <<proc, stale>>
  BY DEF Backfill
<1> QED
  BY <1>1, BackfillFills, RowsWritten

\* Everything that leaves the database alone and holds no transaction.
LEMMA AsideKept ==
  ASSUME RowsInv, NEW p \in Openers, Gate(p) \/ Poll(p) \/ Refuse(p) \/ BusyTimeout(p) \/ Exit(p)
  PROVE  RowsInv'
<1>1. UNCHANGED <<db, stale>>
  BY DEF Gate, Poll, Refuse, BusyTimeout, Exit
<1>2. \E r : proc' = [proc EXCEPT ![p] = r] /\ r.at \in {"off", "gate", "admitted"}
  <2>1. CASE Poll(p)
    <3>1. PICK error : proc' = [proc EXCEPT ![p] = IF AfterPoll(proc[p], error).at = "refused" THEN Off
                                                   ELSE AfterPoll(proc[p], error)]
      BY <2>1 DEF Poll
    <3>2. AfterPoll(proc[p], error).at \in {"gate", "admitted", "refused"} /\ Off.at = "off"
      BY IdleStates
    <3> QED
      BY <3>1, <3>2
  <2>2. CASE Gate(p)
    BY <2>2, IdleStates DEF Gate
  <2>3. CASE Refuse(p) \/ BusyTimeout(p) \/ Exit(p)
    BY <2>3, IdleStates DEF Refuse, BusyTimeout, Exit
  <2> QED
    BY <2>1, <2>2, <2>3
<1>3. PICK r : proc' = [proc EXCEPT ![p] = r] /\ r.at \in {"off", "gate", "admitted"}
  BY <1>2
<1>4. r.at \notin Running /\ r.at \notin {"begun", "migrating"}
  BY <1>3, IdleStates
<1>5. Kept(r, db)
  BY <1>4, Aside
<1> QED
  BY <1>1, <1>3, <1>4, <1>5, OpenerKept

\* A process has a release in circulation when it opens the database, and to its end.
LEMMA OpenKept ==
  ASSUME RowsInv, NEW p \in Openers, Open(p) \/ Settle(p)
  PROVE  RowsInv'
<1>1. ASSUME NEW r, proc' = [proc EXCEPT ![p] = r], r.at \notin {"begun", "migrating"},
             r.binary \in Binaries, UNCHANGED <<db, stale>>
      PROVE  RowsInv'
  <2>1. Kept(r, db)
    BY <1>1, Aside
  <2> QED
    BY <1>1, <2>1, OpenerKept
<1>2. CASE Open(p)
  <2>1. PICK b \in Binaries : proc' = [proc EXCEPT ![p] = [at |-> "opened", binary |-> b]]
    BY <1>2 DEF Open
  <2> DEFINE r == [at |-> "opened", binary |-> b]
  <2>2. r.at = "opened" /\ r.binary = b
    OBVIOUS
  <2>3. UNCHANGED <<db, stale>>
    BY <1>2 DEF Open
  <2> HIDE DEF r
  <2>4. proc' = [proc EXCEPT ![p] = r]
    BY <2>1 DEF r
  <2> QED
    BY <1>1, <2>2, <2>3, <2>4
<1>3. CASE Settle(p)
  <2> DEFINE r == [at |-> "ready", binary |-> proc[p].binary, found |-> decode(db.version)]
  <2>1. r.at = "ready" /\ r.binary = proc[p].binary
    OBVIOUS
  <2>2. proc[p].at = "opened" /\ proc' = [proc EXCEPT ![p] = r] /\ UNCHANGED <<db, stale>>
    BY <1>3 DEF Settle
  <2> HIDE DEF r
  <2>3. proc[p].binary \in Binaries
    BY <2>2 DEF RowsInv, Kept, Running
  <2> QED
    BY <1>1, <2>1, <2>2, <2>3
<1> QED
  BY <1>2, <1>3

\* Every migration at work has all the rows by its third entry, and no sooner can it be committed.
LEMMA RowsInvHolds == ASSUME 1 \notin Binaries PROVE Spec => []RowsInv
<1>1. Init => RowsInv
  <2> SUFFICES ASSUME Init PROVE RowsInv
    OBVIOUS
  <2>1. \A p \in Openers : proc[p] = Off
    BY DEF Init
  <2>2. \A p \in Openers : Kept(proc[p], db)
    BY <2>1, Aside, IdleStates
  <2>3. DOMAIN db.tables = {} /\ decode(db.version) = VersionOf(0)
    BY FreshDefined, DatabaseFields DEF Init, NoDatabase, VersionOf
  <2>4. Typed /\ OneAtATime
    BY <2>1, IdleStates DEF Init, Typed, OneAtATime
  <2> QED
    BY <2>2, <2>3, <2>4 DEF RowsInv, Fit, Tidy, Made
<1>2. RowsInv /\ [Next]_vars => RowsInv'
  <2> SUFFICES ASSUME RowsInv, [Next]_vars PROVE RowsInv'
    OBVIOUS
  <2>1. ASSUME NEW p \in Openers,
               \/ Gate(p) \/ Poll(p) \/ Open(p) \/ Refuse(p) \/ Begin(p) \/ Settle(p) \/ Lock(p)
               \/ BusyTimeout(p) \/ Migrate(p) \/ CommitMigration(p)
               \/ Write(p) \/ Backfill(p) \/ Exit(p)
        PROVE  RowsInv'
    BY <2>1, AsideKept, OpenKept, BeginKept, LockKept, MigrateKept, CommitKept, WriteKept, BackfillKept
  <2>2. CASE UNCHANGED vars
    BY <2>2 DEF vars, RowsInv, Typed, OneAtATime
  <2> QED
    BY <2>1, <2>2 DEF Next
<1> QED
  BY <1>1, <1>2, PTL DEF Spec

\* A row that is carried is one that survives.
LEMMA CarriedSurvives ==
  ASSUME Carried(db, db')
  PROVE  \A t \in DOMAIN db.tables : \A row \in db.tables[t].rows : Survives(t, row) \/ Orphan(t, row)
<1> TAKE t \in DOMAIN db.tables
<1> TAKE row \in db.tables[t].rows
<1>1. Unowned(db, t, row) => Orphan(t, row)
  BY DEF Unowned, Orphan
<1>2. ASSUME Found(db', t, row) PROVE Survives(t, row)
  <2>1. PICK new \in db'.tables[t].rows : Stays(t, row, new)
    BY <1>2 DEF Found
  <2> QED
    BY <2>1 DEF Stays, Survives
<1> QED
  BY <1>1, <1>2 DEF Carried

\* Among releases from 2.0 on, for any number of openers, with a release replaced at any
\* moment: no step of any opener (no migration, its repetition by one that raced, a kill, a
\* revert) loses a committed row or a value of it, but what 4.0 and 5.0 say they drop
\* (store/schema.rs, MIGRATIONS and migrate_with).
THEOREM RowsSurvive == ASSUME 1 \notin Binaries PROVE Spec => NothingLost
<1> DEFINE Lossless ==
             \A t \in DOMAIN db.tables : \A row \in db.tables[t].rows : Survives(t, row) \/ Orphan(t, row)
<1>1. RowsInv /\ [Next]_vars => [Lossless]_db
  <2> SUFFICES ASSUME RowsInv, [Next]_vars, db' # db PROVE Lossless
    OBVIOUS
  <2>1. PICK p \in Openers : CommitMigration(p) \/ Write(p) \/ Backfill(p)
    BY DEF Next, vars, Gate, Poll, Open, Refuse, Begin, Settle, Lock, BusyTimeout, Migrate, Exit
  <2>2. CASE CommitMigration(p)
    <3>1. DeferredResolve(proc[p].work)
      BY <2>2 DEF CommitMigration
    <3> QED
      BY <2>2, <3>1, CommitCarries, CarriedSurvives DEF Keeps
  <2>3. CASE Write(p)
    BY <2>3, WriteCarries, CarriedSurvives DEF Keeps
  <2>4. CASE Backfill(p)
    <3>1. PICK row \in db.tables["measurement"].rows : \E new : Filled(db, db', row, new)
      BY <2>4, BackfillFills
    <3>2. PICK new : Filled(db, db', row, new)
      BY <3>1
    <3> SUFFICES ASSUME NEW t \in DOMAIN db.tables, NEW r \in db.tables[t].rows PROVE Survives(t, r)
      OBVIOUS
    <3>3. CASE r \in db'.tables[t].rows
      BY <3>3 DEF Survives
    <3>4. CASE t = "measurement" /\ r = row
      <4>1. KeyOf(t) \in DOMAIN row
        BY <3>4 DEF RowsInv, Fit
      <4>2. new \in db'.tables[t].rows /\ DOMAIN row \subseteq DOMAIN new /\ \A c \in DOMAIN row : new[c] = row[c]
        BY <3>2, <3>4 DEF Filled
      <4> QED
        BY <3>4, <4>1, <4>2 DEF Survives
    <3> QED
      BY <3>2, <3>3, <3>4 DEF Filled
  <2> QED
    BY <2>1, <2>2, <2>3, <2>4
<1>2. Spec => []RowsInv
  BY RowsInvHolds
<1> QED
  BY <1>1, <1>2, PTL DEF Spec, NothingLost
=============================================================================
