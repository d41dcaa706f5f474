-------------------------- MODULE StoreWriterProofs --------------------------
(***************************************************************************)
(* Theorems about StoreWriter, for every set of handlers, batches, records *)
(* and readings of the clock, every capacity and every bound.              *)
(***************************************************************************)
EXTENDS StoreWriter, SequenceTheorems, FiniteSetTheorems, WellFoundedInduction, TLAPS

-----------------------------------------------------------------------------
(* Counting: what Upsert and Inserted do to tables and their counts.       *)

Disjoint(A, B) == A \cap B = {}

LEMMA LeastOfUnion ==
    ASSUME NEW S \in SUBSET Int, NEW T \in SUBSET Int, NEW x, NEW y,
           IsLeast(x, S), IsLeast(y, T)
    PROVE  IsLeast(Lesser(x, y), S \cup T)
    BY DEF IsLeast, Lesser

LEMMA GreatestOfUnion ==
    ASSUME NEW S \in SUBSET Int, NEW T \in SUBSET Int, NEW x, NEW y,
           IsGreatest(x, S), IsGreatest(y, T)
    PROVE  IsGreatest(Greater(x, y), S \cup T)
    BY DEF IsGreatest, Greater

\* What is counted of a set of records depends on when they arrived only.
LEMMA SummaryOfSame ==
    ASSUME NEW A, NEW B, NEW M, NEW d, \A r \in M : A[r] = B[r], Summarises(d, A, M)
    PROVE  Summarises(d, B, M)
    <1>1. {A[r] : r \in M} = {B[r] : r \in M}
        OBVIOUS
    <1> QED BY <1>1 DEF Summarises

\* Two sets of records apart from each other, merged.
LEMMA SummaryOfUnion ==
    ASSUME NEW A, NEW M \in SUBSET Records, NEW N \in SUBSET Records,
           NEW d, NEW e, Disjoint(M, N), \A r \in M \cup N : A[r] \in Int,
           Summarises(d, A, M), Summarises(e, A, N)
    PROVE  Summarises(Merge(d, e), A, M \cup N)
    <1>1. IsFiniteSet(M) /\ IsFiniteSet(N)
        BY FS_Subset, BatchesAssumption
    <1>2. Cardinality(M \cup N) = Cardinality(M) + Cardinality(N)
        <2>1. Cardinality(M \cup N) =
                Cardinality(M) + Cardinality(N) - Cardinality(M \cap N)
            BY <1>1, FS_Union
        <2>2. Cardinality(M \cap N) = 0
            BY FS_EmptySet, Zenon DEF Disjoint
        <2>3. Cardinality(M) \in Nat /\ Cardinality(N) \in Nat
            BY <1>1, FS_CardinalityType
        <2> QED BY <2>1, <2>2, <2>3
    <1>3. \A r \in Records : EventTime[r] \in Int
        BY BatchesAssumption
    <1> DEFINE E(R) == {EventTime[r] : r \in R}
               P(R) == {A[r] : r \in R}
    <1>4. /\ E(M \cup N) = E(M) \cup E(N) /\ P(M \cup N) = P(M) \cup P(N)
          /\ E(M) \in SUBSET Int /\ E(N) \in SUBSET Int
          /\ P(M) \in SUBSET Int /\ P(N) \in SUBSET Int
        BY <1>3
    <1>5. /\ d.added = Cardinality(M) /\ e.added = Cardinality(N)
          /\ IsLeast(d.emin, E(M)) /\ IsGreatest(d.emax, E(M))
          /\ IsLeast(d.pmin, P(M)) /\ IsGreatest(d.pmax, P(M))
          /\ IsLeast(e.emin, E(N)) /\ IsGreatest(e.emax, E(N))
          /\ IsLeast(e.pmin, P(N)) /\ IsGreatest(e.pmax, P(N))
        BY DEF Summarises
    <1>6. /\ IsLeast(Lesser(d.emin, e.emin), E(M \cup N))
          /\ IsLeast(Lesser(d.pmin, e.pmin), P(M \cup N))
        <2> HIDE DEF E, P
        <2>1. IsLeast(Lesser(d.emin, e.emin), E(M) \cup E(N))
            BY <1>4, <1>5, LeastOfUnion
        <2>2. IsLeast(Lesser(d.pmin, e.pmin), P(M) \cup P(N))
            BY <1>4, <1>5, LeastOfUnion
        <2> QED BY <1>4, <2>1, <2>2
    <1>7. /\ IsGreatest(Greater(d.emax, e.emax), E(M \cup N))
          /\ IsGreatest(Greater(d.pmax, e.pmax), P(M \cup N))
        <2> HIDE DEF E, P
        <2>1. IsGreatest(Greater(d.emax, e.emax), E(M) \cup E(N))
            BY <1>4, <1>5, GreatestOfUnion
        <2>2. IsGreatest(Greater(d.pmax, e.pmax), P(M) \cup P(N))
            BY <1>4, <1>5, GreatestOfUnion
        <2> QED BY <1>4, <2>1, <2>2
    <1> QED BY <1>2, <1>5, <1>6, <1>7 DEF Summarises, Merge

\* Tables apart from each other with exact counts make one with exact counts.
LEMMA ExactUnion ==
    ASSUME NEW A, NEW B, NEW S, NEW T, IsTable(A), IsTable(B),
           Disjoint(DOMAIN A, DOMAIN B), Exact(A, S), Exact(B, T)
    PROVE  Exact(Inserted(A, B), Upsert(S, T))
    <1> DEFINE C == Inserted(A, B)
               U == Upsert(S, T)
    <1>1. /\ DOMAIN C = DOMAIN A \cup DOMAIN B /\ DOMAIN U = DOMAIN S \cup DOMAIN T
          /\ \A r \in DOMAIN A : C[r] = A[r]
          /\ \A r \in DOMAIN B : C[r] = B[r]
        BY DEF Inserted, Upsert, Disjoint
    <1>2. \A r \in DOMAIN C : r \in Records /\ C[r] \in Int
        BY <1>1, BatchesAssumption DEF IsTable
    <1>3. DOMAIN U = {SeriesOf[r] : r \in DOMAIN C}
        BY <1>1 DEF Exact
    <1> SUFFICES ASSUME NEW s \in DOMAIN U
                 PROVE  Summarises(U[s], C, Members(C, s))
        BY <1>3 DEF Exact
    <1>4. /\ Members(C, s) = Members(A, s) \cup Members(B, s)
          /\ Members(A, s) \in SUBSET Records /\ Members(B, s) \in SUBSET Records
          /\ Disjoint(Members(A, s), Members(B, s))
          /\ \A r \in Members(A, s) : A[r] = C[r]
          /\ \A r \in Members(B, s) : B[r] = C[r]
        BY <1>1, <1>2 DEF Members, Disjoint
    <1>5. s \in DOMAIN S => Summarises(S[s], C, Members(A, s))
        BY <1>4, SummaryOfSame DEF Exact
    <1>6. s \in DOMAIN T => Summarises(T[s], C, Members(B, s))
        BY <1>4, SummaryOfSame DEF Exact
    <1>7. /\ s \notin DOMAIN S => Members(A, s) = {}
          /\ s \notin DOMAIN T => Members(B, s) = {}
        BY DEF Exact, Members
    <1>8. U[s] = IF s \notin DOMAIN T THEN S[s]
                 ELSE IF s \in DOMAIN S THEN Merge(S[s], T[s]) ELSE T[s]
        BY <1>1 DEF Upsert
    <1>9. CASE s \in DOMAIN S /\ s \in DOMAIN T
        <2>1. \A r \in Members(A, s) \cup Members(B, s) : C[r] \in Int
            BY <1>2, <1>4 DEF Members
        <2> HIDE DEF C, U
        <2> QED BY <1>4, <1>5, <1>6, <1>8, <1>9, <2>1, SummaryOfUnion
    <1>10. CASE s \notin DOMAIN T
        <2>1. s \in DOMAIN S /\ Members(C, s) = Members(A, s)
            BY <1>1, <1>4, <1>7, <1>10
        <2> HIDE DEF C, U
        <2> QED BY <1>5, <1>8, <1>10, <2>1
    <1>11. CASE s \notin DOMAIN S
        <2>1. s \in DOMAIN T /\ Members(C, s) = Members(B, s)
            BY <1>1, <1>4, <1>7, <1>11
        <2> HIDE DEF C, U
        <2> QED BY <1>6, <1>8, <1>11, <2>1
    <1> QED BY <1>9, <1>10, <1>11

\* One record alone.
LEMMA ExactSingle ==
    ASSUME NEW r \in Records, NEW t \in Times
    PROVE  /\ IsTable([x \in {r} |-> t])
           /\ Exact([x \in {r} |-> t], [s \in {SeriesOf[r]} |-> Single(r, t)])
    <1> DEFINE A == [x \in {r} |-> t]
               S == [s \in {SeriesOf[r]} |-> Single(r, t)]
    <1>1. DOMAIN A = {r} /\ A[r] = t /\ IsTable(A)
        BY DEF IsTable
    <1>2. DOMAIN S = {SeriesOf[r]} /\ S[SeriesOf[r]] = Single(r, t)
        OBVIOUS
    <1>3. Members(A, SeriesOf[r]) = {r} /\ Cardinality({r}) = 1
        BY FS_Singleton DEF Members
    <1>4. t \in Int /\ EventTime[r] \in Int
        BY BatchesAssumption
    <1>5. Summarises(Single(r, t), A, {r})
        BY <1>1, <1>3, <1>4 DEF Summarises, Single, IsLeast, IsGreatest
    <1>6. DOMAIN S = {SeriesOf[x] : x \in DOMAIN A}
        BY <1>1, <1>2
    <1>7. \A s \in DOMAIN S : Summarises(S[s], A, Members(A, s))
        BY <1>2, <1>3, <1>5
    <1> QED BY <1>1, <1>6, <1>7 DEF Exact

LEMMA ExactEmpty == IsTable(Empty) /\ IsCounts(Empty) /\ Exact(Empty, Empty)
    BY DEF IsTable, IsCounts, Exact, Empty

LEMMA InsertedIsTable ==
    ASSUME NEW A, NEW B, IsTable(A), IsTable(B)
    PROVE  IsTable(Inserted(A, B)) /\ DOMAIN Inserted(A, B) = DOMAIN A \cup DOMAIN B
    BY DEF IsTable, Inserted

LEMMA UpsertIsCounts ==
    ASSUME NEW S, NEW T, IsCounts(S), IsCounts(T)
    PROVE  IsCounts(Upsert(S, T))
    <1>1. \A d \in Delta, e \in Delta : Merge(d, e) \in Delta
        BY DEF Merge, Delta, Lesser, Greater
    <1> QED BY <1>1 DEF IsCounts, Upsert
-----------------------------------------------------------------------------
(* Type correctness.                                                       *)

\* A sequence is one of what it holds.
LEMMA SeqOfOwn ==
    ASSUME NEW S, NEW q \in Seq(S)
    PROVE  /\ Len(q) \in Nat /\ DOMAIN q = 1..Len(q)
           /\ ToSet(q) = {q[i] : i \in 1..Len(q)} /\ ToSet(q) \subseteq S
           /\ q \in Seq(ToSet(q))
    <1>1. Len(q) \in Nat /\ q \in [1..Len(q) -> S] /\ DOMAIN q = 1..Len(q)
        BY LenProperties
    <1>2. ToSet(q) = {q[i] : i \in 1..Len(q)}
        BY <1>1 DEF ToSet
    <1>3. q \in [1..Len(q) -> ToSet(q)] /\ ToSet(q) \subseteq S
        BY <1>1, <1>2
    <1>4. q \in Seq(ToSet(q))
        <2> DEFINE T == ToSet(q)
        <2>1. q \in [1..Len(q) -> T] /\ Len(q) \in Nat
            BY <1>1, <1>3
        <2> HIDE DEF T
        <2>2. q \in Seq(T)
            BY <2>1, SeqDef
        <2> QED BY <2>2 DEF T
    <1> QED BY <1>1, <1>2, <1>3, <1>4

\* What the log becomes: fresh, a prefix of itself, or one commit longer.
LEMMA FreshLog ==
    ASSUME NEW c, NEW q, q = <<c>>
    PROVE  /\ q \in Seq(ToSet(q)) /\ q # <<>> /\ Last(q) = c /\ ToSet(q) = {c}
           /\ Len(q) = 1 /\ q[1] = c
    <1>1. Len(q) = 1 /\ q[1] = c /\ q # <<>>
        OBVIOUS
    <1>2. q \in Seq({c})
        OBVIOUS
    <1>3. q \in Seq(ToSet(q)) /\ ToSet(q) = {q[i] : i \in 1..Len(q)}
        BY ONLY <1>2, SeqOfOwn
    <1> QED BY <1>1, <1>3 DEF Last

LEMMA PrefixOfLog ==
    ASSUME NEW S, NEW q \in Seq(S), NEW n \in 1..Len(q), NEW p, p = SubSeq(q, 1, n)
    PROVE  /\ p \in Seq(ToSet(p)) /\ p # <<>> /\ Last(p) = q[n]
           /\ ToSet(p) \subseteq ToSet(q)
           /\ Len(p) = n /\ \A i \in 1..n : p[i] = q[i]
    <1>1. Len(q) \in Nat /\ \A i \in 1..Len(q) : q[i] \in S
        BY LenProperties, ElementOfSeq
    <1>2. p \in Seq(S) /\ Len(p) = n /\ \A i \in 1..n : p[i] = q[i]
        BY <1>1, SubSeqProperties
    <1>3. p \in Seq(ToSet(p)) /\ ToSet(p) = {p[i] : i \in 1..n}
        BY ONLY <1>2, SeqOfOwn
    <1>4. ToSet(q) = {q[i] : i \in 1..Len(q)}
        BY SeqOfOwn
    <1>5. p # <<>>
        BY <1>2, EmptySeq
    <1>6. Last(p) = q[n]
        BY <1>2 DEF Last
    <1>7. \A i \in 1..n : i \in 1..Len(q)
        BY <1>1
    <1>8. ToSet(p) \subseteq ToSet(q)
        BY ONLY <1>2, <1>3, <1>4, <1>7
    <1> QED
        BY ONLY <1>2, <1>3, <1>5, <1>6, <1>8

LEMMA ExtendedLog ==
    ASSUME NEW S, NEW q \in Seq(S), NEW c, NEW p, p = Append(q, c)
    PROVE  /\ p \in Seq(ToSet(p)) /\ p # <<>> /\ Last(p) = c
           /\ ToSet(p) = ToSet(q) \cup {c}
           /\ Len(q) \in Nat /\ Len(p) = Len(q) + 1 /\ p[Len(q) + 1] = c
           /\ \A i \in 1..Len(q) : p[i] = q[i]
    <1>1. q \in Seq(S \cup {c}) /\ Len(q) \in Nat
        BY SeqMonotonic, LenProperties
    <1>2. /\ p \in Seq(S \cup {c}) /\ Len(p) = Len(q) + 1 /\ p[Len(q) + 1] = c
          /\ \A i \in 1..Len(q) : p[i] = q[i]
        BY <1>1, AppendProperties
    <1>3. p \in Seq(ToSet(p)) /\ ToSet(p) = {p[i] : i \in 1..Len(q) + 1}
        BY ONLY <1>2, SeqOfOwn
    <1>4. ToSet(q) = {q[i] : i \in 1..Len(q)}
        BY SeqOfOwn
    <1>5. p # <<>>
        BY <1>1, <1>2, EmptySeq
    <1> QED BY <1>1, <1>2, <1>3, <1>4, <1>5 DEF Last

LEMMA InitTypeOK == Init => TypeOK
    <1> SUFFICES ASSUME Init PROVE TypeOK
        OBVIOUS
    <1>1. HandlersOK
        BY DEF Init, HandlersOK
    <1>2. QueueOK
        BY EmptySeq, StoreConfigAssumption DEF Init, QueueOK
    <1>3. WriterOK
        BY ExactEmpty DEF Init, WriterOK
    <1>4. TablesOK
        <2>1. wal = <<Committed>>
            BY DEF Init
        <2>2. /\ wal \in Seq(ToSet(wal)) /\ wal # <<>>
              /\ Last(wal) = Committed /\ ToSet(wal) = {Committed}
            BY <2>1, FreshLog
        <2>3. IsCommit(Committed)
            BY ExactEmpty DEF Init, Committed, IsCommit
        <2> QED BY <2>2, <2>3, ExactEmpty DEF Init, TablesOK
    <1>5. HistoryOK
        BY StoreConfigAssumption DEF Init, HistoryOK
    <1> QED BY <1>1, <1>2, <1>3, <1>4, <1>5 DEF TypeOK

LEMMA HandlersStep ==
    ASSUME TypeOK, [Next]_vars
    PROVE  HandlersOK'
    <1> USE DEF TypeOK, HandlersOK
    <1>1. CASE UNCHANGED vars
        BY <1>1 DEF vars
    <1>2. CASE Start
        BY <1>2 DEF Start
    <1>3. CASE Crash \/ PowerLoss
        BY <1>3 DEF Crash, PowerLoss, Gone
    <1>4. ASSUME NEW h \in Handlers, NEW b \in Batches, Begin(h, b)
          PROVE  HandlersOK'
        BY <1>4 DEF Begin, Working
    <1>5. ASSUME NEW h \in Handlers, Decode(h) \/ Enqueue(h) \/ Disconnect(h)
          PROVE  HandlersOK'
        <2>1. CASE Decode(h)
            BY <2>1 DEF Decode, Working, Free
        <2>2. CASE Enqueue(h)
            BY <2>2 DEF Enqueue, Working, Free
        <2>3. CASE Disconnect(h)
            BY <2>3 DEF Disconnect
        <2> QED BY <1>5, <2>1, <2>2, <2>3
    <1>6. CASE Reply
        BY <1>6 DEF Reply
    <1>7. CASE Checkpoint \/ Take \/ InsertNext \/ Commit \/ Fails
        BY <1>7 DEF Checkpoint, Take, InsertNext, Commit, Fails
    <1>8. CASE Terminate \/ DropWriter \/ Exit
        BY <1>8 DEF Terminate, DropWriter, Exit
    <1> QED BY <1>1, <1>2, <1>3, <1>4, <1>5, <1>6, <1>7, <1>8 DEF Next

LEMMA QueueStep ==
    ASSUME TypeOK, [Next]_vars
    PROVE  QueueOK'
    <1>1. queue \in Seq(Request) /\ Len(queue) <= QueueCapacity
        BY DEF TypeOK, QueueOK
    <1>2. CASE UNCHANGED queue
        BY <1>1, <1>2 DEF QueueOK
    <1>3. CASE queue' = <<>>
        BY <1>3, EmptySeq, StoreConfigAssumption DEF QueueOK
    <1>4. ASSUME NEW h \in Handlers, Enqueue(h)
          PROVE  QueueOK'
        <2> DEFINE e == [batch |-> handler[h].batch, ptime |-> handler[h].ptime, reply |-> h]
        <2>1. handler[h] \in Working
            BY <1>4 DEF Enqueue, TypeOK, HandlersOK, Free
        <2>2. e \in Request
            BY <2>1 DEF Working, Request
        <2>3. queue' = Append(queue, e) /\ Len(queue) < QueueCapacity
            BY <1>4 DEF Enqueue, HasRoom
        <2> HIDE DEF e
        <2> QED BY <1>1, <2>2, <2>3, StoreConfigAssumption DEF QueueOK
    <1>5. ASSUME NEW h \in Handlers, Disconnect(h)
          PROVE  QueueOK'
        <2> DEFINE F(i) == IF queue[i].reply = h
                           THEN [queue[i] EXCEPT !.reply = NoHandler] ELSE queue[i]
        <2>1. Len(queue) \in Nat /\ DOMAIN queue = 1..Len(queue)
            BY <1>1, LenProperties
        <2>2. \A i \in 1..Len(queue) : F(i) \in Request
            <3>1. \A r \in Request : [r EXCEPT !.reply = NoHandler] \in Request
                BY DEF Request
            <3>2. \A i \in 1..Len(queue) : queue[i] \in Request
                BY <1>1, ElementOfSeq
            <3> QED BY <3>1, <3>2
        <2>3. queue' = [i \in 1..Len(queue) |-> F(i)]
            BY <1>5, <2>1 DEF Disconnect
        <2> HIDE DEF F
        <2>4. queue' \in [1..Len(queue) -> Request]
            BY <2>2, <2>3
        <2>5. queue' \in Seq(Request)
            BY <2>1, <2>4, SeqDef
        <2>6. Len(queue') = Len(queue)
            BY <2>1, <2>3, <2>5, LenProperties
        <2> QED BY <1>1, <2>5, <2>6 DEF QueueOK
    <1>6. CASE Take
        <2>1. queue # <<>> /\ queue' = Tail(queue)
            BY <1>6 DEF Take
        <2> QED BY <1>1, <2>1, HeadTailProperties, LenProperties, StoreConfigAssumption
                DEF QueueOK
    <1>7. CASE Crash \/ PowerLoss \/ Exit
        BY <1>3, <1>7 DEF Crash, PowerLoss, Gone, Exit
    <1>8. CASE Start \/ Checkpoint \/ InsertNext \/ Commit \/ Fails \/ Reply \/ Terminate \/ DropWriter
        BY <1>2, <1>8 DEF Start, Checkpoint, InsertNext, Commit, Fails, Reply, Terminate, DropWriter
    <1>9. ASSUME NEW h \in Handlers, Decode(h) \/ \E b \in Batches : Begin(h, b)
          PROVE  QueueOK'
        BY <1>2, <1>9 DEF Begin, Decode
    <1> QED BY <1>2, <1>4, <1>5, <1>6, <1>7, <1>8, <1>9 DEF Next, vars

LEMMA WriterStep ==
    ASSUME TypeOK, [Next]_vars
    PROVE  WriterOK'
    <1>1. WriterOK
        BY DEF TypeOK
    <1>2. CASE UNCHANGED writer
        BY <1>1, <1>2 DEF writer, WriterOK
    <1>3. CASE IdleWriter
        BY <1>3, ExactEmpty DEF IdleWriter, WriterOK
    <1>4. ASSUME NEW h \in Handlers, Disconnect(h)
          PROVE  WriterOK'
        <2>1. request' \in IF wpc = "idle" THEN {NoRequest} ELSE Request
            <3>1. CASE request.reply # h
                BY <1>1, <1>4, <3>1 DEF Disconnect, WriterOK
            <3>2. CASE request.reply = h
                <4>1. request # NoRequest
                    BY <3>2, BatchesAssumption DEF NoRequest
                <4>2. wpc # "idle" /\ request \in Request
                    BY <1>1, <4>1 DEF WriterOK
                <4>3. [request EXCEPT !.reply = NoHandler] \in Request
                    BY <4>2 DEF Request
                <4> QED BY <1>4, <3>2, <4>2, <4>3 DEF Disconnect
            <3> QED BY <3>1, <3>2
        <2> QED BY <1>1, <1>4, <2>1 DEF Disconnect, WriterOK
    <1>5. CASE Take
        <2>1. Head(queue) \in Request
            BY <1>5, HeadTailProperties DEF Take, TypeOK, QueueOK
        <2> QED BY <1>1, <1>5, <2>1 DEF Take, WriterOK
    <1>6. CASE InsertNext
        <2>1. PICK i \in Left : Insert(Content[request.batch][i]) /\ at' = i
            BY <1>6 DEF InsertNext
        <2> DEFINE r == Content[request.batch][i]
        <2>2. /\ request \in Request /\ r \in Records /\ i \in Nat
              /\ request.ptime \in Times
            <3>1. request \in Request /\ request.batch \in Batches /\ request.ptime \in Times
                BY <1>1, <1>6 DEF InsertNext, WriterOK, Request
            <3>2. Content[request.batch] \in Seq(Records) /\ i \in DOMAIN Content[request.batch]
                BY <2>1, <3>1, BatchesAssumption DEF Left, Measurements
            <3> QED BY <3>1, <3>2, LenProperties, ElementOfSeq
        <2>3. IsTable(added') /\ IsCounts(deltas')
            <3>1. CASE UNCHANGED <<added, deltas>>
                BY <1>1, <3>1 DEF WriterOK
            <3>2. CASE Store(r) /\ Count(r)
                <4>1. /\ IsTable([x \in {r} |-> request.ptime])
                      /\ IsCounts([s \in {SeriesOf[r]} |-> Single(r, request.ptime)])
                    BY <2>2, BatchesAssumption DEF IsTable, IsCounts, Single, Delta
                <4> QED BY <1>1, <3>2, <4>1, InsertedIsTable, UpsertIsCounts
                        DEF Store, Count, WriterOK
            <3> QED BY <2>1, <3>1, <3>2 DEF Insert
        <2> QED BY <1>1, <1>6, <2>1, <2>2, <2>3 DEF InsertNext, WriterOK
    <1>7. CASE Commit \/ Fails
        BY <1>1, <1>7, ExactEmpty DEF Commit, Fails, WriterOK
    <1>8. CASE Crash \/ PowerLoss \/ Reply \/ Exit
        BY <1>3, <1>8 DEF Crash, PowerLoss, Gone, Reply, Exit
    <1>9. CASE Start \/ Checkpoint \/ Terminate \/ DropWriter
        BY <1>2, <1>9 DEF Start, Checkpoint, Terminate, DropWriter
    <1>10. ASSUME NEW h \in Handlers,
                  Decode(h) \/ Enqueue(h) \/ \E b \in Batches : Begin(h, b)
           PROVE  WriterOK'
        BY <1>2, <1>10 DEF Begin, Decode, Enqueue
    <1> QED BY <1>2, <1>4, <1>5, <1>6, <1>7, <1>8, <1>9, <1>10 DEF Next, vars

LEMMA TablesStep ==
    ASSUME TypeOK, [Next]_vars
    PROVE  TablesOK'
    <1>1. /\ IsTable(rows) /\ IsCounts(series) /\ IsTable(added) /\ IsCounts(deltas)
          /\ wal \in Seq(ToSet(wal)) /\ wal # <<>> /\ Last(wal) = Committed
          /\ (\A c \in ToSet(wal) : IsCommit(c)) /\ IsCommit(Committed)
        BY DEF TypeOK, TablesOK, WriterOK, Committed, IsCommit
    <1>2. CASE UNCHANGED <<tables, wal>>
        BY <1>1, <1>2 DEF TablesOK, tables, Committed
    <1>3. ASSUME wal' = <<Committed>>, UNCHANGED tables
          PROVE  TablesOK'
        <2>1. /\ wal' \in Seq(ToSet(wal')) /\ wal' # <<>>
              /\ Last(wal') = Committed /\ ToSet(wal') = {Committed}
            BY <1>3, FreshLog
        <2>2. Committed' = Committed /\ rows' = rows /\ series' = series
            BY <1>3 DEF tables, Committed
        <2> QED BY <1>1, <2>1, <2>2 DEF TablesOK
    <1>4. CASE PowerLoss
        <2>1. PICK n \in 1..Len(wal) :
                /\ wal' = SubSeq(wal, 1, n)
                /\ rows' = wal[n].rows /\ series' = wal[n].series
            BY <1>4 DEF PowerLoss
        <2>2. /\ wal' \in Seq(ToSet(wal')) /\ wal' # <<>> /\ Last(wal') = wal[n]
              /\ ToSet(wal') \subseteq ToSet(wal)
            BY <1>1, <2>1, PrefixOfLog
        <2>3. wal[n] \in ToSet(wal)
            BY <1>1, <2>1, SeqOfOwn
        <2>4. Committed' = wal[n]
            <3>1. wal[n] = [rows |-> wal[n].rows, series |-> wal[n].series]
                BY <1>1, <2>3 DEF IsCommit
            <3> QED BY <2>1, <3>1 DEF Committed
        <2> QED BY <1>1, <2>1, <2>2, <2>3, <2>4 DEF TablesOK, IsCommit
    <1>5. CASE Commit
        <2>1. /\ wal' = Append(wal, Committed')
              /\ rows' = Inserted(rows, added) /\ series' = Upsert(series, deltas)
            BY <1>5 DEF Commit
        <2>2. IsTable(rows') /\ IsCounts(series')
            BY <1>1, <2>1, InsertedIsTable, UpsertIsCounts
        <2>3. /\ wal' \in Seq(ToSet(wal')) /\ wal' # <<>> /\ Last(wal') = Committed'
              /\ ToSet(wal') = ToSet(wal) \cup {Committed'}
            BY <1>1, <2>1, ExtendedLog
        <2>4. IsCommit(Committed')
            BY <2>2 DEF Committed, IsCommit
        <2> QED BY <1>1, <2>2, <2>3, <2>4 DEF TablesOK
    <1>6. CASE Checkpoint \/ Exit
        BY <1>2, <1>3, <1>6 DEF Checkpoint, Exit
    <1>7. CASE Start \/ Crash \/ Take \/ InsertNext \/ Fails \/ Reply \/ Terminate \/ DropWriter
        BY <1>2, <1>7 DEF Start, Crash, Take, InsertNext, Fails, RollsBack, Reply,
                          Terminate, DropWriter
    <1>8. ASSUME NEW h \in Handlers,
                 Decode(h) \/ Enqueue(h) \/ Disconnect(h) \/ \E b \in Batches : Begin(h, b)
          PROVE  TablesOK'
        BY <1>2, <1>8 DEF Begin, Decode, Enqueue, Disconnect
    <1> QED BY <1>2, <1>4, <1>5, <1>6, <1>7, <1>8 DEF Next, vars

LEMMA HistoryStep ==
    ASSUME TypeOK, [Next]_vars
    PROVE  HistoryOK'
    <1> USE StoreConfigAssumption DEF HistoryOK
    <1>1. HistoryOK
        BY DEF TypeOK
    <1>2. CASE UNCHANGED <<counters, history>>
        BY <1>1, <1>2 DEF counters, history
    <1>3. CASE Start
        BY <1>1, <1>3 DEF Start, history
    <1>4. CASE Crash \/ PowerLoss
        <2>1. {q.batch : q \in ToSet(queue) \cup {request}} \ {NoBatch} \subseteq Batches
            <3>1. ToSet(queue) \subseteq Request
                BY SeqOfOwn DEF TypeOK, QueueOK
            <3>2. request \in Request \cup {NoRequest}
                BY DEF TypeOK, WriterOK
            <3> QED BY <3>1, <3>2 DEF Request, NoRequest
        <2> QED BY <1>1, <1>4, <2>1 DEF Crash, PowerLoss, Gone, counters
    <1>5. ASSUME NEW h \in Handlers, NEW b \in Batches, Begin(h, b)
          PROVE  HistoryOK'
        BY <1>1, <1>5 DEF Begin, history
    <1>6. ASSUME NEW h \in Handlers, Decode(h)
          PROVE  HistoryOK'
        <2>1. handler[h].batch \in Batches
            BY <1>6 DEF Decode, TypeOK, HandlersOK, Working, Free
        <2> QED BY <1>1, <1>6, <2>1 DEF Decode, counters
    <1>7. CASE Fails \/ Reply
        <2>1. request.batch \in Batches
            BY <1>7 DEF Fails, Reply, TypeOK, WriterOK, Request
        <2> QED BY <1>1, <1>7, <2>1 DEF Fails, Reply, counters
    <1>8. CASE Checkpoint \/ Take \/ InsertNext \/ Commit \/ Terminate \/ DropWriter \/ Exit
        BY <1>2, <1>8 DEF Checkpoint, Take, InsertNext, Commit, Terminate, DropWriter, Exit
    <1>9. ASSUME NEW h \in Handlers, Enqueue(h) \/ Disconnect(h)
          PROVE  HistoryOK'
        BY <1>2, <1>9 DEF Enqueue, Disconnect
    <1> QED BY <1>2, <1>3, <1>4, <1>5, <1>6, <1>7, <1>8, <1>9 DEF Next, vars

LEMMA NextTypeOK == TypeOK /\ [Next]_vars => TypeOK'
    BY HandlersStep, QueueStep, WriterStep, TablesStep, HistoryStep DEF TypeOK

\* Every variable has its type, the channel never holds more than its capacity,
\* and the tables are what the log ends with.
THEOREM StoreTypeCorrect == Spec => []TypeOK
    BY InitTypeOK, NextTypeOK, PTL DEF Spec
-----------------------------------------------------------------------------
(* The inductive invariant. The properties of the tables do not carry      *)
(* themselves: a power loss goes back to any commit of the log, so each    *)
(* commit has to be right, and the next commit adds a transaction under    *)
(* way, so that has to be exact and apart from the rows, at every record.  *)

Within(A, B) == DOMAIN A \subseteq DOMAIN B /\ \A r \in DOMAIN A : A[r] = B[r]

\* Every commit a power loss may go back to is exact and whole, and the later
\* ones only add rows.
LogOK ==
    /\ \A c \in ToSet(wal) : Exact(c.rows, c.series) /\ Whole(c.rows)
    /\ \A i, j \in 1..Len(wal) : i <= j => Within(wal[i].rows, wal[j].rows)

\* The records of the batch the writer has been through.
Done == {Content[request.batch][i] : i \in {j \in Measurements(request.batch) : j <= at}}

\* The open transaction counts what it adds, adds only what is new and of its
\* batch, and leaves no record of those it has been through out.
TransactionOK ==
    /\ Exact(added, deltas) /\ Disjoint(DOMAIN rows, DOMAIN added)
    /\ wpc # "inserting" => added = Empty /\ deltas = Empty
    /\ wpc = "inserting" => DOMAIN added \subseteq RecordsOf(request.batch) /\ Done \subseteq Stored
    /\ wpc = "reply" /\ result = "ok" => RecordsOf(request.batch) \subseteq DOMAIN rows

IInv == TypeOK /\ LogOK /\ TransactionOK /\ AcknowledgedIsStored
LEMMA EmptyDomain == DOMAIN Empty = {}
    BY DEF Empty

\* What is committed is the last entry of the log, and as right as any.
LEMMA LastCommit ==
    ASSUME TypeOK, LogOK
    PROVE  /\ Len(wal) \in Nat \ {0} /\ wal[Len(wal)] = Committed
           /\ Committed \in ToSet(wal) /\ Exact(rows, series) /\ Whole(rows)
           /\ \A i \in 1..Len(wal) : Within(wal[i].rows, rows)
    <1>1. wal \in Seq(ToSet(wal)) /\ wal # <<>> /\ Last(wal) = Committed
        BY DEF TypeOK, TablesOK
    <1>2. Len(wal) \in Nat \ {0} /\ wal[Len(wal)] = Committed
        BY <1>1, LenProperties, EmptySeq DEF Last
    <1>3. Committed \in ToSet(wal)
        BY <1>1, <1>2, SeqOfOwn
    <1>4. Committed.rows = rows /\ Committed.series = series
        BY DEF Committed
    <1> QED BY <1>2, <1>3, <1>4 DEF LogOK

LEMMA WithinItself == ASSUME NEW A PROVE Within(A, A)
    BY DEF Within

LEMMA WithinInserted ==
    ASSUME NEW A, NEW B, Disjoint(DOMAIN A, DOMAIN B)
    PROVE  Within(A, Inserted(A, B))
    BY DEF Within, Inserted, Disjoint

\* Once the writer is through a batch, all of it is stored or about to be.
LEMMA BatchDone ==
    ASSUME TypeOK, TransactionOK, wpc = "inserting", Left = {}
    PROVE  RecordsOf(request.batch) \subseteq DOMAIN rows \cup DOMAIN added
    <1>1. request.batch \in Batches /\ at \in Nat
        BY DEF TypeOK, WriterOK, Request
    <1>2. Measurements(request.batch) \subseteq Nat
        BY <1>1, BatchesAssumption, LenProperties DEF Measurements
    <1>3. \A i \in Measurements(request.batch) : i <= at
        BY <1>1, <1>2 DEF Left
    <1> QED BY <1>3 DEF TransactionOK, Done, Stored, RecordsOf

LEMMA LogStep ==
    ASSUME TypeOK, LogOK, TransactionOK, [Next]_vars
    PROVE  LogOK'
    <1>1. CASE UNCHANGED wal
        BY <1>1 DEF LogOK
    <1>2. ASSUME wal' = <<Committed>>
          PROVE  LogOK'
        <2>1. Len(wal') = 1 /\ wal'[1] = Committed /\ ToSet(wal') = {Committed}
            BY <1>2, FreshLog
        <2>2. Committed \in ToSet(wal)
            BY LastCommit
        <2> QED BY <2>1, <2>2, WithinItself DEF LogOK
    <1>3. CASE PowerLoss
        <2>1. PICK n \in 1..Len(wal) : wal' = SubSeq(wal, 1, n)
            BY <1>3 DEF PowerLoss
        <2>2. wal \in Seq(ToSet(wal))
            BY DEF TypeOK, TablesOK
        <2>3. /\ Len(wal') = n /\ ToSet(wal') \subseteq ToSet(wal)
              /\ \A i \in 1..n : wal'[i] = wal[i]
            <3>1. Len(wal') = n
                BY <2>1, <2>2, PrefixOfLog
            <3>2. ToSet(wal') \subseteq ToSet(wal)
                BY <2>1, <2>2, PrefixOfLog
            <3>3. \A i \in 1..n : wal'[i] = wal[i]
                BY <2>1, <2>2, PrefixOfLog
            <3> QED BY <3>1, <3>2, <3>3
        <2>4. Len(wal) \in Nat
            BY <2>2, LenProperties
        <2> QED BY <2>3, <2>4 DEF LogOK
    <1>4. CASE Commit
        <2>1. /\ wal' = Append(wal, Committed') /\ wpc = "inserting" /\ Left = {}
              /\ rows' = Inserted(rows, added) /\ series' = Upsert(series, deltas)
            BY <1>4 DEF Commit
        <2>2. /\ wal \in Seq(ToSet(wal)) /\ IsTable(rows) /\ IsTable(added)
              /\ request.batch \in Batches
            BY <2>1 DEF TypeOK, TablesOK, WriterOK, Request
        <2>3. /\ Len(wal) \in Nat /\ Len(wal') = Len(wal) + 1
              /\ wal'[Len(wal) + 1] = Committed' /\ ToSet(wal') = ToSet(wal) \cup {Committed'}
              /\ \A i \in 1..Len(wal) : wal'[i] = wal[i]
            <3>1. Len(wal) \in Nat /\ Len(wal') = Len(wal) + 1
                BY <2>1, <2>2, ExtendedLog
            <3>2. wal'[Len(wal) + 1] = Committed'
                BY <2>1, <2>2, ExtendedLog
            <3>3. ToSet(wal') = ToSet(wal) \cup {Committed'}
                BY <2>1, <2>2, ExtendedLog
            <3>4. \A i \in 1..Len(wal) : wal'[i] = wal[i]
                BY <2>1, <2>2, ExtendedLog
            <3> QED BY <3>1, <3>2, <3>3, <3>4
        <2>4. Committed'.rows = rows' /\ Committed'.series = series'
            BY DEF Committed
        <2>5. Exact(rows', series')
            BY <2>1, <2>2, LastCommit, ExactUnion DEF TransactionOK
        <2>6. Whole(rows')
            <3>1. DOMAIN rows' = DOMAIN rows \cup DOMAIN added
                BY <2>1, <2>2, InsertedIsTable
            <3>2. RecordsOf(request.batch) \subseteq DOMAIN rows'
                BY <2>1, <3>1, BatchDone
            <3>3. DOMAIN added \subseteq RecordsOf(request.batch)
                BY <2>1 DEF TransactionOK
            <3> QED BY <2>2, <3>1, <3>2, <3>3, LastCommit DEF Whole
        <2>7. \A i \in 1..Len(wal) : Within(wal[i].rows, rows')
            <3>1. Within(rows, rows')
                BY <2>1, WithinInserted DEF TransactionOK
            <3> QED BY <3>1, LastCommit DEF Within
        <2>8. \A c \in ToSet(wal') : Exact(c.rows, c.series) /\ Whole(c.rows)
            BY <2>3, <2>4, <2>5, <2>6 DEF LogOK
        <2>9. \A i, j \in 1..Len(wal') : i <= j => Within(wal'[i].rows, wal'[j].rows)
            <3> SUFFICES ASSUME NEW i \in 1..Len(wal'), NEW j \in 1..Len(wal'), i <= j
                         PROVE  Within(wal'[i].rows, wal'[j].rows)
                OBVIOUS
            <3>1. CASE j \in 1..Len(wal)
                BY <2>3, <3>1 DEF LogOK
            <3>2. CASE j = Len(wal) + 1 /\ i \in 1..Len(wal)
                BY <2>3, <2>4, <2>7, <3>2
            <3>3. CASE j = Len(wal) + 1 /\ i = j
                BY <3>3, WithinItself
            <3> QED BY <2>3, <3>1, <3>2, <3>3
        <2> QED BY <2>8, <2>9 DEF LogOK
    <1>5. CASE Checkpoint \/ Exit
        BY <1>1, <1>2, <1>5 DEF Checkpoint, Exit
    <1>6. CASE Start \/ Crash \/ Take \/ InsertNext \/ Fails \/ Reply \/ Terminate \/ DropWriter
        BY <1>1, <1>6 DEF Start, Crash, Take, InsertNext, Fails, RollsBack, Reply,
                          Terminate, DropWriter
    <1>7. ASSUME NEW h \in Handlers,
                 Decode(h) \/ Enqueue(h) \/ Disconnect(h) \/ \E b \in Batches : Begin(h, b)
          PROVE  LogOK'
        BY <1>1, <1>7 DEF Begin, Decode, Enqueue, Disconnect
    <1> QED BY <1>1, <1>3, <1>4, <1>5, <1>6, <1>7 DEF Next, vars

LEMMA TransactionStep ==
    ASSUME TypeOK, TransactionOK, [Next]_vars
    PROVE  TransactionOK'
    <1>1. ASSUME UNCHANGED <<wpc, at, added, deltas, result, rows>>,
                 request'.batch = request.batch
          PROVE  TransactionOK'
        BY <1>1 DEF TransactionOK, Done, Stored
    <1>2. ASSUME wpc' # "inserting", added' = Empty, deltas' = Empty,
                 wpc' = "reply" /\ result' = "ok" => RecordsOf(request'.batch) \subseteq DOMAIN rows'
          PROVE  TransactionOK'
        BY <1>2, ExactEmpty, EmptyDomain DEF TransactionOK, Disjoint
    <1>3. CASE Take
        <2>1. /\ added' = Empty /\ deltas' = Empty /\ wpc' = "inserting"
              /\ at' = 0 /\ rows' = rows
            BY <1>3 DEF Take, TransactionOK, tables
        <2>2. request'.batch \in Batches
            <3>1. Head(queue) \in Request
                BY <1>3, HeadTailProperties DEF Take, TypeOK, QueueOK
            <3> QED BY <1>3, <3>1 DEF Take, Request
        <2>3. Measurements(request'.batch) \subseteq Nat \ {0}
            BY <2>2, BatchesAssumption, LenProperties DEF Measurements
        <2>4. Done' = {}
            BY <2>1, <2>3 DEF Done
        <2> QED BY <2>1, <2>4, ExactEmpty, EmptyDomain DEF TransactionOK, Disjoint
    <1>4. CASE InsertNext
        <2>1. PICK i \in Left : /\ \A j \in Left : i <= j
                                /\ Insert(Content[request.batch][i]) /\ at' = i
            BY <1>4 DEF InsertNext
        <2> DEFINE r == Content[request.batch][i]
        <2>2. /\ wpc = "inserting" /\ wpc' = wpc /\ request' = request /\ rows' = rows
            BY <1>4 DEF InsertNext, tables
        <2>3. /\ request.batch \in Batches /\ request.ptime \in Times
              /\ IsTable(added) /\ at \in Nat
            BY <2>2 DEF TypeOK, WriterOK, Request
        <2>4. Measurements(request.batch) \subseteq Nat
            BY <2>3, BatchesAssumption, LenProperties DEF Measurements
        <2>5. i \in Measurements(request.batch) /\ r \in RecordsOf(request.batch) /\ r \in Records
            <3>1. Content[request.batch] \in Seq(Records)
                BY <2>3, BatchesAssumption
            <3> QED BY <2>1, <3>1, LenProperties, ElementOfSeq
                    DEF Left, Measurements, RecordsOf
        <2>6. \A j \in Measurements(request.batch) : j <= i => j <= at \/ j = i
            BY <2>1, <2>3, <2>4, <2>5 DEF Left
        <2>7. Done' \subseteq Done \cup {r}
            BY <2>1, <2>2, <2>6 DEF Done
        <2>8. CASE r \in Stored /\ UNCHANGED <<added, deltas>>
            BY <2>2, <2>7, <2>8 DEF TransactionOK, Stored
        <2>9. CASE r \notin Stored /\ Store(r) /\ Count(r)
            <3> DEFINE A == [x \in {r} |-> request.ptime]
                       S == [s \in {SeriesOf[r]} |-> Single(r, request.ptime)]
            <3>1. IsTable(A) /\ Exact(A, S) /\ DOMAIN A = {r}
                BY <2>3, <2>5, ExactSingle
            <3>2. added' = Inserted(added, A) /\ deltas' = Upsert(deltas, S)
                BY <2>9 DEF Store, Count
            <3> HIDE DEF A, S
            <3>3. DOMAIN added' = DOMAIN added \cup {r}
                BY <2>3, <3>1, <3>2, InsertedIsTable
            <3>4. Exact(added', deltas')
                <4>1. Disjoint(DOMAIN added, DOMAIN A)
                    BY <2>9, <3>1 DEF Disjoint, Stored
                <4> HIDE DEF r
                <4> QED BY <2>3, <3>1, <3>2, <4>1, ExactUnion DEF TransactionOK
            <3>5. Disjoint(DOMAIN rows', DOMAIN added')
                BY <2>2, <2>9, <3>3 DEF TransactionOK, Disjoint, Stored
            <3>6. DOMAIN added' \subseteq RecordsOf(request'.batch) /\ Done' \subseteq Stored'
                BY <2>2, <2>5, <2>7, <3>3 DEF TransactionOK, Stored
            <3> QED BY <2>2, <3>4, <3>5, <3>6 DEF TransactionOK
        <2> QED BY <2>1, <2>8, <2>9 DEF Insert
    <1>5. CASE Commit
        <2>1. RecordsOf(request.batch) \subseteq DOMAIN rows'
            <3>1. RecordsOf(request.batch) \subseteq DOMAIN rows \cup DOMAIN added
                BY <1>5, BatchDone DEF Commit
            <3> QED BY <1>5, <3>1 DEF Commit, Inserted
        <2> QED BY <1>2, <1>5, <2>1 DEF Commit
    <1>6. CASE Fails
        BY <1>2, <1>6 DEF Fails
    <1>7. CASE Crash \/ PowerLoss \/ Reply \/ Exit
        BY <1>2, <1>7 DEF Crash, PowerLoss, Gone, Reply, Exit, IdleWriter
    <1>8. ASSUME NEW h \in Handlers, Disconnect(h)
          PROVE  TransactionOK'
        <2>1. request'.batch = request.batch
            <3>1. request \in Request \cup {NoRequest}
                BY DEF TypeOK, WriterOK
            <3>2. [request EXCEPT !.reply = NoHandler].batch = request.batch
                BY <3>1 DEF Request, NoRequest
            <3> QED BY <1>8, <3>2 DEF Disconnect
        <2> QED BY <1>1, <1>8, <2>1 DEF Disconnect, tables
    <1>9. CASE UNCHANGED <<writer, tables>>
        BY <1>1, <1>9 DEF writer, tables
    <1>10. CASE Start \/ Checkpoint \/ Terminate \/ DropWriter
        BY <1>9, <1>10 DEF Start, Checkpoint, Terminate, DropWriter
    <1>11. ASSUME NEW h \in Handlers,
                  Decode(h) \/ Enqueue(h) \/ \E b \in Batches : Begin(h, b)
           PROVE  TransactionOK'
        BY <1>9, <1>11 DEF Begin, Decode, Enqueue
    <1> QED BY <1>3, <1>4, <1>5, <1>6, <1>7, <1>8, <1>9, <1>10, <1>11 DEF Next, vars

LEMMA AcknowledgedStep ==
    ASSUME TypeOK, TransactionOK, AcknowledgedIsStored, [Next]_vars
    PROVE  AcknowledgedIsStored'
    <1> USE DEF AcknowledgedIsStored
    <1>1. CASE UNCHANGED <<acked, rows>>
        BY <1>1
    <1>2. CASE PowerLoss
        BY <1>2 DEF PowerLoss
    <1>3. ASSUME NEW h \in Handlers, Decode(h)
          PROVE  AcknowledgedIsStored'
        <2>1. CASE Measurements(handler[h].batch) = {}
            BY <1>3, <2>1 DEF Decode, RecordsOf, tables
        <2>2. CASE UNCHANGED acked
            BY <1>1, <1>3, <2>2 DEF Decode, tables
        <2> QED BY <1>3, <2>1, <2>2 DEF Decode
    <1>4. CASE Commit
        <2>1. DOMAIN rows \subseteq DOMAIN rows' /\ acked' = acked
            BY <1>4 DEF Commit, Inserted, history
        <2> QED BY <2>1
    <1>5. CASE Reply
        <2>1. result = "ok" => RecordsOf(request.batch) \subseteq DOMAIN rows
            BY <1>5 DEF Reply, TransactionOK
        <2> QED BY <1>5, <2>1 DEF Reply, AnswerOf, tables
    <1>6. CASE Start \/ Crash \/ Checkpoint \/ Take \/ InsertNext \/ Fails
        BY <1>1, <1>6 DEF Start, Crash, Checkpoint, Take, InsertNext, Fails, RollsBack,
                          tables, history
    <1>7. CASE Terminate \/ DropWriter \/ Exit
        BY <1>1, <1>7 DEF Terminate, DropWriter, Exit, tables, history
    <1>8. ASSUME NEW h \in Handlers, Enqueue(h) \/ Disconnect(h) \/ \E b \in Batches : Begin(h, b)
          PROVE  AcknowledgedIsStored'
        BY <1>1, <1>8 DEF Begin, Enqueue, Disconnect, tables, history
    <1> QED BY <1>1, <1>2, <1>3, <1>4, <1>5, <1>6, <1>7, <1>8 DEF Next, vars, tables, history

LEMMA InitIInv == Init => IInv
    <1> SUFFICES ASSUME Init PROVE IInv
        OBVIOUS
    <1>1. wal = <<Committed>> /\ Committed.rows = Empty /\ Committed.series = Empty
        BY DEF Init, Committed
    <1>2. LogOK
        <2>1. Len(wal) = 1 /\ wal[1] = Committed /\ ToSet(wal) = {Committed}
            BY <1>1, FreshLog
        <2>2. Whole(Empty)
            BY EmptyDomain DEF Whole
        <2> QED BY <1>1, <2>1, <2>2, ExactEmpty, WithinItself DEF LogOK
    <1>3. TransactionOK
        BY ExactEmpty, EmptyDomain DEF Init, TransactionOK, Disjoint
    <1>4. AcknowledgedIsStored
        BY DEF Init, AcknowledgedIsStored
    <1> QED BY <1>2, <1>3, <1>4, InitTypeOK DEF IInv

LEMMA NextIInv == IInv /\ [Next]_vars => IInv'
    BY NextTypeOK, LogStep, TransactionStep, AcknowledgedStep DEF IInv

LEMMA StoreInvariant == Spec => []IInv
    BY InitIInv, NextIInv, PTL DEF Spec

-----------------------------------------------------------------------------
(* What the store promises.                                                *)

\* In every reachable state the counts and the extents of every series are those
\* of its rows: what `accumulate` and `upsert` add up to, over repeats within a
\* batch and between them, failed writes, kills and power losses.
THEOREM StoreCountsExact == Spec => []SeriesExact
    <1>1. IInv => SeriesExact
        BY LastCommit DEF IInv, SeriesExact
    <1> QED BY <1>1, StoreInvariant, PTL

\* What was answered 200 is in the tables, until the machine loses power.
THEOREM StoreAcknowledgedKept == Spec => []AcknowledgedIsStored
    <1>1. IInv => AcknowledgedIsStored
        BY DEF IInv
    <1> QED BY <1>1, StoreInvariant, PTL

\* No failure, kill or power loss leaves a part of a batch in the tables.
THEOREM StoreBatchesWhole == Spec => []BatchesWhole
    <1>1. IInv => BatchesWhole
        BY LastCommit DEF IInv, BatchesWhole
    <1> QED BY <1>1, StoreInvariant, PTL

\* No step writes a row again: a repeat keeps the processed_time of the first.
THEOREM StoreFirstArrivalKept == Spec => FirstArrivalKept
    <1> DEFINE Kept == \A r \in DOMAIN rows \cap DOMAIN rows' : rows'[r] = rows[r]
    <1>1. ASSUME IInv, [Next]_vars
          PROVE  Kept
        <2>1. CASE UNCHANGED rows
            BY <2>1
        <2>2. CASE PowerLoss
            <3>1. PICK n \in 1..Len(wal) : rows' = wal[n].rows
                BY <2>2 DEF PowerLoss
            <3> QED BY <1>1, <3>1, LastCommit DEF IInv, Within
        <2>3. CASE Commit
            BY <1>1, <2>3 DEF IInv, TransactionOK, Disjoint, Commit, Inserted
        <2>4. CASE Start \/ Crash \/ Checkpoint \/ Take \/ InsertNext \/ Fails
            BY <2>1, <2>4 DEF Start, Crash, Checkpoint, Take, InsertNext, Fails, RollsBack, tables
        <2>5. CASE Reply \/ Terminate \/ DropWriter \/ Exit
            BY <2>1, <2>5 DEF Reply, Terminate, DropWriter, Exit, tables
        <2>6. ASSUME NEW h \in Handlers,
                     \/ Decode(h) \/ Enqueue(h) \/ Disconnect(h)
                     \/ \E b \in Batches : Begin(h, b)
              PROVE  Kept
            BY <2>1, <2>6 DEF Begin, Decode, Enqueue, Disconnect, tables
        <2> QED BY <1>1, <2>1, <2>2, <2>3, <2>4, <2>5, <2>6 DEF Next, vars, tables
    <1>2. IInv /\ [Next]_vars => [Kept]_vars
        BY <1>1
    <1> QED BY <1>1, StoreInvariant, PTL DEF Spec, FirstArrivalKept

-----------------------------------------------------------------------------
(* What identifies content. Induction over numbers, as a set of them, and  *)
(* the recursive functions by their equations.                             *)
\* Induction on the numbers, for a set of them.
LEMMA UpFromZero ==
    ASSUME NEW G \in SUBSET Nat, 0 \in G, \A n \in G : n + 1 \in G
    PROVE  G = Nat
    <1> DEFINE Bad == Nat \ G
               R == OpToRel(<, Nat)
    <1>1. SUFFICES ASSUME Bad # {} PROVE FALSE
        OBVIOUS
    <1>2. IsWellFoundedOn(R, Nat)
        BY NatLessThanWellFounded
    <1> HIDE DEF R
    <1>3. PICK n \in Bad : \A y \in Bad : ~ (<<y, n>> \in R)
        <2>1. Bad \in SUBSET Nat
            OBVIOUS
        <2> HIDE DEF Bad
        <2> QED
            BY <1>1, <1>2, <2>1, WFMin
    <1>4. n # 0 /\ n - 1 \in Nat
        OBVIOUS
    <1>5. n - 1 \in Bad
        BY <1>4
    <1>6. n - 1 < n
        OBVIOUS
    <1>7. n \in Nat
        OBVIOUS
    <1> HIDE DEF Bad
    <1>8. \A y \in Bad : ~ (y \in Nat /\ y < n)
        BY <1>3, <1>7 DEF R, OpToRel
    <1> QED
        BY <1>4, <1>5, <1>6, <1>8

\* Each recursive function is what its definition says of each argument, which
\* tlapm has to be shown.
LEMMA limitIs == limit = [k \in 0..WORD |-> IF k = 0 THEN 1 ELSE 256 * limit[k - 1]]
    <1> DEFINE F(g, k) == IF k = 0 THEN 1 ELSE 256 * g[k - 1]
               G == {m \in Nat : \E g : g = [k \in 0..m |-> F(g, k)]}
    <1>1. 0 \in G
        <2> DEFINE g == [k \in 0..0 |-> 1]
        <2>1. g = [k \in 0..0 |-> F(g, k)]
            OBVIOUS
        <2> QED
            BY <2>1
    <1>2. ASSUME NEW m \in G PROVE m + 1 \in G
        <2>1. PICK g : g = [k \in 0..m |-> F(g, k)]
            OBVIOUS
        <2> DEFINE h == [k \in 0..(m + 1) |-> IF k = m + 1 THEN F(g, k) ELSE g[k]]
        <2>2. ASSUME NEW k \in 0..(m + 1) PROVE h[k] = F(h, k)
            <3>1. k # 0 => h[k - 1] = g[k - 1]
                <4>1. k # 0 => k - 1 \in 0..(m + 1) /\ k - 1 # m + 1
                    OBVIOUS
                <4> HIDE DEF F
                <4> QED
                    BY <4>1
            <3>2. F(h, k) = F(g, k)
                <4> HIDE DEF h
                <4> QED
                    BY <3>1
            <3>3. h[k] = F(g, k)
                <4>1. k # m + 1 => k \in 0..m
                    OBVIOUS
                <4> HIDE DEF F
                <4> QED
                    BY <2>1, <4>1
            <3> QED
                BY <3>2, <3>3
        <2>3. h = [k \in 0..(m + 1) |-> F(h, k)]
            <3>1. h = [k \in 0..(m + 1) |-> h[k]]
                OBVIOUS
            <3> HIDE DEF h, F
            <3> QED
                BY <2>2, <3>1
        <2>4. \E x : x = [k \in 0..(m + 1) |-> F(x, k)]
            BY <2>3
        <2> HIDE DEF F
        <2> QED
            BY <2>4
    <1>3. \E g : g = [k \in 0..WORD |-> F(g, k)]
        <2> HIDE DEF F
        <2>1. G = Nat
            <3> HIDE DEF G
            <3>1. G \in SUBSET Nat
                BY DEF G
            <3> QED
                BY <1>1, <1>2, <3>1, UpFromZero
        <2> QED
            BY <2>1, ContentAssumption
    <1> QED
        BY <1>3, Zenon DEF limit

\* As before, for the bytes of a number.
LEMMA be_bytesIs ==
    be_bytes = [k \in 0..WORD |-> [n \in Nat |->
                   IF k = 0 THEN <<>> ELSE Append(be_bytes[k - 1][n \div 256], n % 256)]]
    <1> DEFINE F(g, k) == [n \in Nat |-> IF k = 0 THEN <<>> ELSE Append(g[k - 1][n \div 256], n % 256)]
               G == {m \in Nat : \E g : g = [k \in 0..m |-> F(g, k)]}
    <1>1. 0 \in G
        <2> DEFINE g == [k \in 0..0 |-> [n \in Nat |-> <<>>]]
        <2>1. g = [k \in 0..0 |-> F(g, k)]
            OBVIOUS
        <2> QED
            BY <2>1
    <1>2. ASSUME NEW m \in G PROVE m + 1 \in G
        <2>1. PICK g : g = [k \in 0..m |-> F(g, k)]
            OBVIOUS
        <2> DEFINE h == [k \in 0..(m + 1) |-> IF k = m + 1 THEN F(g, k) ELSE g[k]]
        <2>2. ASSUME NEW k \in 0..(m + 1) PROVE h[k] = F(h, k)
            <3>1. k # 0 => h[k - 1] = g[k - 1]
                <4>1. k # 0 => k - 1 \in 0..(m + 1) /\ k - 1 # m + 1
                    OBVIOUS
                <4> HIDE DEF F
                <4> QED
                    BY <4>1
            <3>2. F(h, k) = F(g, k)
                <4> HIDE DEF h
                <4> QED
                    BY <3>1
            <3>3. h[k] = F(g, k)
                <4>1. k # m + 1 => k \in 0..m
                    OBVIOUS
                <4> HIDE DEF F
                <4> QED
                    BY <2>1, <4>1
            <3> QED
                BY <3>2, <3>3
        <2>3. h = [k \in 0..(m + 1) |-> F(h, k)]
            <3>1. h = [k \in 0..(m + 1) |-> h[k]]
                OBVIOUS
            <3> HIDE DEF h, F
            <3> QED
                BY <2>2, <3>1
        <2>4. \E x : x = [k \in 0..(m + 1) |-> F(x, k)]
            BY <2>3
        <2> HIDE DEF F
        <2> QED
            BY <2>4
    <1>3. \E g : g = [k \in 0..WORD |-> F(g, k)]
        <2> HIDE DEF F
        <2>1. G = Nat
            <3> HIDE DEF G
            <3>1. G \in SUBSET Nat
                BY DEF G
            <3> QED
                BY <1>1, <1>2, <3>1, UpFromZero
        <2> QED
            BY <2>1, ContentAssumption
    <1> QED
        BY <1>3, Zenon DEF be_bytes

\* As before, for the values of a depth.
LEMMA ValueIs ==
    Value = [k \in 0..Depth |-> IF k = 0 THEN Scalar ELSE Scalar \cup Nested(Value[k - 1])]
    <1> DEFINE F(g, k) == IF k = 0 THEN Scalar ELSE Scalar \cup Nested(g[k - 1])
               G == {m \in Nat : \E g : g = [k \in 0..m |-> F(g, k)]}
    <1>1. 0 \in G
        <2> DEFINE g == [k \in 0..0 |-> Scalar]
        <2>1. g = [k \in 0..0 |-> F(g, k)]
            OBVIOUS
        <2> QED
            BY <2>1
    <1>2. ASSUME NEW m \in G PROVE m + 1 \in G
        <2>1. PICK g : g = [k \in 0..m |-> F(g, k)]
            OBVIOUS
        <2> DEFINE h == [k \in 0..(m + 1) |-> IF k = m + 1 THEN F(g, k) ELSE g[k]]
        <2>2. ASSUME NEW k \in 0..(m + 1) PROVE h[k] = F(h, k)
            <3>1. k # 0 => h[k - 1] = g[k - 1]
                <4>1. k # 0 => k - 1 \in 0..(m + 1) /\ k - 1 # m + 1
                    OBVIOUS
                <4> HIDE DEF F
                <4> QED
                    BY <4>1
            <3>2. F(h, k) = F(g, k)
                <4> HIDE DEF h
                <4> QED
                    BY <3>1
            <3>3. h[k] = F(g, k)
                <4>1. k # m + 1 => k \in 0..m
                    OBVIOUS
                <4> HIDE DEF F
                <4> QED
                    BY <2>1, <4>1
            <3> QED
                BY <3>2, <3>3
        <2>3. h = [k \in 0..(m + 1) |-> F(h, k)]
            <3>1. h = [k \in 0..(m + 1) |-> h[k]]
                OBVIOUS
            <3> HIDE DEF h, F
            <3> QED
                BY <2>2, <3>1
        <2>4. \E x : x = [k \in 0..(m + 1) |-> F(x, k)]
            BY <2>3
        <2> HIDE DEF F
        <2> QED
            BY <2>4
    <1>3. \E g : g = [k \in 0..Depth |-> F(g, k)]
        <2> HIDE DEF F
        <2>1. G = Nat
            <3> HIDE DEF G
            <3>1. G \in SUBSET Nat
                BY DEF G
            <3> QED
                BY <1>1, <1>2, <3>1, UpFromZero
        <2> QED
            BY <2>1, ContentAssumption
    <1> QED
        BY <1>3, Zenon DEF Value

\* As before, for the bytes of a value.
LEMMA put_valueIs ==
    put_value = [k \in 0..Depth |-> [v \in Value[k] |-> put_node(v, IF k = 0 THEN <<>> ELSE put_value[k - 1])]]
    <1> DEFINE F(g, k) == [v \in Value[k] |-> put_node(v, IF k = 0 THEN <<>> ELSE g[k - 1])]
               G == {m \in Nat : \E g : g = [k \in 0..m |-> F(g, k)]}
    <1>1. 0 \in G
        <2> DEFINE g == [k \in 0..0 |-> [v \in Value[0] |-> put_node(v, <<>>)]]
        <2>1. g = [k \in 0..0 |-> F(g, k)]
            OBVIOUS
        <2> QED
            BY <2>1
    <1>2. ASSUME NEW m \in G PROVE m + 1 \in G
        <2>1. PICK g : g = [k \in 0..m |-> F(g, k)]
            OBVIOUS
        <2> DEFINE h == [k \in 0..(m + 1) |-> IF k = m + 1 THEN F(g, k) ELSE g[k]]
        <2>2. ASSUME NEW k \in 0..(m + 1) PROVE h[k] = F(h, k)
            <3>1. k # 0 => h[k - 1] = g[k - 1]
                <4>1. k # 0 => k - 1 \in 0..(m + 1) /\ k - 1 # m + 1
                    OBVIOUS
                <4> HIDE DEF F
                <4> QED
                    BY <4>1
            <3>2. F(h, k) = F(g, k)
                <4> HIDE DEF h
                <4> QED
                    BY <3>1
            <3>3. h[k] = F(g, k)
                <4>1. k # m + 1 => k \in 0..m
                    OBVIOUS
                <4> HIDE DEF F
                <4> QED
                    BY <2>1, <4>1
            <3> QED
                BY <3>2, <3>3
        <2>3. h = [k \in 0..(m + 1) |-> F(h, k)]
            <3>1. h = [k \in 0..(m + 1) |-> h[k]]
                OBVIOUS
            <3> HIDE DEF h, F
            <3> QED
                BY <2>2, <3>1
        <2>4. \E x : x = [k \in 0..(m + 1) |-> F(x, k)]
            BY <2>3
        <2> HIDE DEF F
        <2> QED
            BY <2>4
    <1>3. \E g : g = [k \in 0..Depth |-> F(g, k)]
        <2> HIDE DEF F
        <2>1. G = Nat
            <3> HIDE DEF G
            <3>1. G \in SUBSET Nat
                BY DEF G
            <3> QED
                BY <1>1, <1>2, <3>1, UpFromZero
        <2> QED
            BY <2>1, ContentAssumption
    <1> QED
        BY <1>3, Zenon DEF put_value

\* As before, for what a value means.
LEMMA MeaningIs ==
    Meaning = [k \in 0..Depth |-> [v \in Value[k] |-> MeaningOfNode(v, IF k = 0 THEN <<>> ELSE Meaning[k - 1])]]
    <1> DEFINE F(g, k) == [v \in Value[k] |-> MeaningOfNode(v, IF k = 0 THEN <<>> ELSE g[k - 1])]
               G == {m \in Nat : \E g : g = [k \in 0..m |-> F(g, k)]}
    <1>1. 0 \in G
        <2> DEFINE g == [k \in 0..0 |-> [v \in Value[0] |-> MeaningOfNode(v, <<>>)]]
        <2>1. g = [k \in 0..0 |-> F(g, k)]
            OBVIOUS
        <2> QED
            BY <2>1
    <1>2. ASSUME NEW m \in G PROVE m + 1 \in G
        <2>1. PICK g : g = [k \in 0..m |-> F(g, k)]
            OBVIOUS
        <2> DEFINE h == [k \in 0..(m + 1) |-> IF k = m + 1 THEN F(g, k) ELSE g[k]]
        <2>2. ASSUME NEW k \in 0..(m + 1) PROVE h[k] = F(h, k)
            <3>1. k # 0 => h[k - 1] = g[k - 1]
                <4>1. k # 0 => k - 1 \in 0..(m + 1) /\ k - 1 # m + 1
                    OBVIOUS
                <4> HIDE DEF F
                <4> QED
                    BY <4>1
            <3>2. F(h, k) = F(g, k)
                <4> HIDE DEF h
                <4> QED
                    BY <3>1
            <3>3. h[k] = F(g, k)
                <4>1. k # m + 1 => k \in 0..m
                    OBVIOUS
                <4> HIDE DEF F
                <4> QED
                    BY <2>1, <4>1
            <3> QED
                BY <3>2, <3>3
        <2>3. h = [k \in 0..(m + 1) |-> F(h, k)]
            <3>1. h = [k \in 0..(m + 1) |-> h[k]]
                OBVIOUS
            <3> HIDE DEF h, F
            <3> QED
                BY <2>2, <3>1
        <2>4. \E x : x = [k \in 0..(m + 1) |-> F(x, k)]
            BY <2>3
        <2> HIDE DEF F
        <2> QED
            BY <2>4
    <1>3. \E g : g = [k \in 0..Depth |-> F(g, k)]
        <2> HIDE DEF F
        <2>1. G = Nat
            <3> HIDE DEF G
            <3>1. G \in SUBSET Nat
                BY DEF G
            <3> QED
                BY <1>1, <1>2, <3>1, UpFromZero
        <2> QED
            BY <2>1, ContentAssumption
    <1> QED
        BY <1>3, Zenon DEF Meaning

-----------------------------------------------------------------------------
(* Bytes one after the other: when two of them can be told apart.          *)
LEMMA SameLength ==
    ASSUME NEW T, NEW a \in Seq(T), NEW b \in Seq(T), NEW x \in Seq(T), NEW y \in Seq(T),
           Len(a) = Len(b), a \o x = b \o y
    PROVE  a = b /\ x = y
    <1> DEFINE n == Len(a)
    <1>1. n \in Nat /\ Len(x) \in Nat /\ Len(y) \in Nat
        OBVIOUS
    <1>2. /\ Len(a \o x) = n + Len(x)
          /\ \A i \in 1..(n + Len(x)) : (a \o x)[i] = IF i <= n THEN a[i] ELSE x[i - n]
        BY ConcatProperties
    <1>3. /\ Len(b \o y) = n + Len(y)
          /\ \A i \in 1..(n + Len(y)) : (b \o y)[i] = IF i <= n THEN b[i] ELSE y[i - n]
        <2>1. /\ Len(b \o y) = Len(b) + Len(y)
              /\ \A i \in 1..(Len(b) + Len(y)) : (b \o y)[i] = IF i <= Len(b) THEN b[i] ELSE y[i - Len(b)]
            BY ConcatProperties
        <2> QED
            BY <2>1
    <1> DEFINE z == a \o x
    <1>4. Len(z) = n + Len(x) /\ Len(z) = n + Len(y)
        BY <1>2, <1>3
    <1>5. /\ \A i \in 1..(n + Len(x)) : z[i] = IF i <= n THEN a[i] ELSE x[i - n]
          /\ \A i \in 1..(n + Len(y)) : z[i] = IF i <= n THEN b[i] ELSE y[i - n]
        BY <1>2, <1>3
    <1> HIDE DEF z
    <1>6. Len(x) = Len(y)
        BY <1>1, <1>4
    <1>7. \A i \in 1..n : a[i] = b[i]
        <2> TAKE i \in 1..n
        <2>1. i \in 1..(n + Len(x)) /\ i \in 1..(n + Len(y)) /\ i <= n
            BY <1>1
        <2> QED
            BY <1>5, <2>1
    <1>8. \A i \in 1..Len(x) : x[i] = y[i]
        <2> TAKE i \in 1..Len(x)
        <2> DEFINE j == n + i
        <2>1. j \in 1..(n + Len(x)) /\ j \in 1..(n + Len(y)) /\ ~(j <= n) /\ j - n = i
            BY <1>1, <1>6
        <2> HIDE DEF j, n
        <2>2. z[j] = x[j - n] /\ z[j] = y[j - n]
            BY <1>5, <2>1
        <2> QED
            BY <2>1, <2>2
    <1> HIDE DEF n
    <1> QED
        BY <1>6, <1>7, <1>8, SeqEqual DEF n

\* Neither is the beginning of the other one, whatever bytes follow.
Apart(a, b) ==
    a \in Seq(Byte) /\ b \in Seq(Byte) /\ \A x, y \in Seq(Byte) : a \o x = b \o y => a = b

\* Bytes of one length are apart.
LEMMA SameLengthApart ==
    ASSUME NEW a \in Seq(Byte), NEW b \in Seq(Byte), Len(a) = Len(b)
    PROVE  Apart(a, b)
    BY SameLength DEF Apart

\* Joining is associative.
LEMMA Regroup ==
    ASSUME NEW f \in Seq(Byte), NEW a \in Seq(Byte), NEW x \in Seq(Byte)
    PROVE  (f \o a) \o x = f \o (a \o x) /\ a \o x \in Seq(Byte) /\ f \o a \in Seq(Byte)
    OBVIOUS

\* Where the first parts are apart and the second ones as well, both are read back.
LEMMA JoinedRead ==
    ASSUME NEW f \in Seq(Byte), NEW g \in Seq(Byte), NEW a \in Seq(Byte), NEW b \in Seq(Byte),
           NEW x \in Seq(Byte), NEW y \in Seq(Byte)
    PROVE  Apart(f, g) /\ (f = g => Apart(a, b)) =>
               ((f \o a) \o x = (g \o b) \o y => f = g /\ a = b)
    <1>2. (f \o a) \o x = f \o (a \o x) /\ a \o x \in Seq(Byte)
        OBVIOUS
    <1>3. (g \o b) \o y = g \o (b \o y) /\ b \o y \in Seq(Byte)
        OBVIOUS
    <1> DEFINE u == a \o x
               v == b \o y
    <1>5. /\ u \in Seq(Byte) /\ v \in Seq(Byte)
          /\ (f \o a) \o x = (g \o b) \o y => f \o u = g \o v
        BY <1>2, <1>3, Zenon
    <1> HIDE DEF u, v
    <1>6. Apart(f, g) /\ f \o u = g \o v => f = g
        BY <1>5 DEF Apart
    <1>7. f = g /\ f \o u = g \o v => u = v
        <2> SUFFICES ASSUME f = g, f \o u = g \o v PROVE u = v
            OBVIOUS
        <2>1. f \o u = f \o v /\ Len(f) = Len(f)
            OBVIOUS
        <2> QED
            BY <1>5, <2>1, SameLength
    <1>8. Apart(a, b) /\ u = v => a = b
        BY DEF u, v, Apart
    <1> QED
        BY <1>5, <1>6, <1>7, <1>8, Zenon

IsBytes(a) == a \in Seq(Byte)
\* What one after the other says of each.
Joined(f, g, a, b) == Apart(f \o a, g \o b) /\ (f \o a = g \o b <=> f = g /\ a = b)

\* The same of what is joined, as one fact.
LEMMA JoinedApart ==
    \A f, g, a, b :
        IsBytes(a) /\ IsBytes(b) /\ Apart(f, g) /\ (f = g => Apart(a, b)) => Joined(f, g, a, b)
    <1> SUFFICES ASSUME NEW f, NEW g, NEW a, NEW b,
                        IsBytes(a), IsBytes(b), Apart(f, g), f = g => Apart(a, b)
                 PROVE  Joined(f, g, a, b)
        OBVIOUS
    <1>1. f \in Seq(Byte) /\ g \in Seq(Byte) /\ a \in Seq(Byte) /\ b \in Seq(Byte)
        BY DEF Apart, IsBytes
    <1>2. f \o a \in Seq(Byte) /\ g \o b \in Seq(Byte)
        BY <1>1
    <1>3. \A x, y \in Seq(Byte) : (f \o a) \o x = (g \o b) \o y => f = g /\ a = b
        BY <1>1, JoinedRead
    <1>4. f \o a = g \o b => f = g /\ a = b
        <2>1. <<>> \in Seq(Byte)
            OBVIOUS
        <2>2. (f \o a) \o <<>> = (g \o b) \o <<>> => f = g /\ a = b
            BY <1>3, <2>1
        <2> QED
            BY <2>2
    <1> QED
        BY <1>2, <1>3, <1>4, Zenon DEF Apart, Joined

\* FlattenSeq is the last of the partial concatenations.
LEMMA FlattenIs ==
    ASSUME NEW s, Len(s) \in Nat, Len(s) # 0
    PROVE  \E flat : /\ flat = [i \in 1..Len(s) |-> IF i = 1 THEN s[i] ELSE flat[i - 1] \o s[i]]
                     /\ FlattenSeq(s) = flat[Len(s)]
    <1> DEFINE F(g, k) == IF k = 1 THEN s[k] ELSE g[k - 1] \o s[k]
               G == {m \in Nat : \E g : g = [k \in 1..(m + 1) |-> F(g, k)]}
    <1>1. 0 \in G
        <2> DEFINE g == [k \in 1..(0 + 1) |-> s[1]]
        <2>1. g = [k \in 1..(0 + 1) |-> F(g, k)]
            OBVIOUS
        <2> QED
            BY <2>1
    <1>2. ASSUME NEW m \in G PROVE m + 1 \in G
        <2>1. PICK g : g = [k \in 1..(m + 1) |-> F(g, k)]
            OBVIOUS
        <2> DEFINE h == [k \in 1..(m + 1 + 1) |-> IF k = m + 2 THEN F(g, k) ELSE g[k]]
        <2>2. ASSUME NEW k \in 1..(m + 1 + 1) PROVE h[k] = F(h, k)
            <3>1. k # 1 => h[k - 1] = g[k - 1]
                <4>1. k # 1 => k - 1 \in 1..(m + 1 + 1) /\ k - 1 # m + 2
                    OBVIOUS
                <4> HIDE DEF F
                <4> QED
                    BY <4>1
            <3>2. F(h, k) = F(g, k)
                <4> HIDE DEF h
                <4> QED
                    BY <3>1
            <3>3. h[k] = F(g, k)
                <4>1. k # m + 2 => k \in 1..(m + 1)
                    OBVIOUS
                <4> HIDE DEF F
                <4> QED
                    BY <2>1, <4>1
            <3> QED
                BY <3>2, <3>3
        <2>3. h = [k \in 1..(m + 1 + 1) |-> F(h, k)]
            <3>1. h = [k \in 1..(m + 1 + 1) |-> h[k]]
                OBVIOUS
            <3> HIDE DEF h, F
            <3> QED
                BY <2>2, <3>1
        <2>4. \E x : x = [k \in 1..(m + 1 + 1) |-> F(x, k)]
            BY <2>3
        <2> HIDE DEF F
        <2> QED
            BY <2>4
    <1>3. \E g : g = [k \in 1..Len(s) |-> F(g, k)]
        <2> HIDE DEF F
        <2>1. G = Nat
            <3> HIDE DEF G
            <3>1. G \in SUBSET Nat
                BY DEF G
            <3> QED
                BY <1>1, <1>2, <3>1, UpFromZero
        <2>2. Len(s) - 1 \in Nat /\ (Len(s) - 1) + 1 = Len(s)
            OBVIOUS
        <2>3. \E g : g = [k \in 1..((Len(s) - 1) + 1) |-> F(g, k)]
            <3> DEFINE l == Len(s) - 1
            <3>1. l \in G
                BY <2>1, <2>2
            <3> HIDE DEF l
            <3>2. \E g : g = [k \in 1..(l + 1) |-> F(g, k)]
                BY <3>1
            <3> QED
                BY <3>2 DEF l
        <2> QED
            BY <2>2, <2>3
    <1> DEFINE flat == CHOOSE g : g = [k \in 1..Len(s) |-> F(g, k)]
    <1>4. flat = [k \in 1..Len(s) |-> F(flat, k)]
        <2> HIDE DEF F
        <2> QED
            BY <1>3, Zenon
    <1>5. FlattenSeq(s) = flat[Len(s)]
        BY DEF FlattenSeq
    <1> QED
        BY <1>4, <1>5

\* Sequences of bytes flatten to bytes.
LEMMA FlattenBytes ==
    ASSUME NEW s \in Seq(Seq(Byte))
    PROVE  FlattenSeq(s) \in Seq(Byte)
    <1>1. CASE Len(s) = 0
        <2>1. FlattenSeq(s) = s /\ s = <<>>
            BY <1>1 DEF FlattenSeq
        <2> QED
            BY <2>1
    <1>2. CASE Len(s) # 0
        <2>1. Len(s) \in Nat /\ Len(s) >= 1
            BY <1>2
        <2>2. PICK flat : /\ flat = [i \in 1..Len(s) |-> IF i = 1 THEN s[i] ELSE flat[i - 1] \o s[i]]
                          /\ FlattenSeq(s) = flat[Len(s)]
            BY <1>2, <2>1, FlattenIs
        <2> DEFINE G == {m \in Nat : m + 1 <= Len(s) => flat[m + 1] \in Seq(Byte)}
        <2>3. 0 \in G
            <3>1. 1 \in 1..Len(s) /\ s[1] \in Seq(Byte)
                BY <2>1
            <3>2. flat[1] = s[1]
                BY <2>2, <3>1
            <3> QED
                BY <3>1, <3>2
        <2>4. ASSUME NEW m \in G PROVE m + 1 \in G
            <3>1. SUFFICES ASSUME m + 2 <= Len(s) PROVE flat[m + 2] \in Seq(Byte)
                BY DEF G
            <3>2. m + 2 \in 1..Len(s) /\ m + 2 # 1 /\ (m + 2) - 1 = m + 1 /\ m + 1 <= Len(s)
                BY <2>1, <3>1
            <3>3. flat[m + 2] = flat[m + 1] \o s[m + 2]
                BY <2>2, <3>2
            <3>4. flat[m + 1] \in Seq(Byte) /\ s[m + 2] \in Seq(Byte)
                BY <3>2
            <3> QED
                BY <3>3, <3>4
        <2>5. G = Nat
            <3>1. G \in SUBSET Nat
                OBVIOUS
            <3> HIDE DEF G
            <3> QED
                BY <2>3, <2>4, <3>1, UpFromZero
        <2>6. Len(s) - 1 \in Nat /\ (Len(s) - 1) + 1 = Len(s)
            BY <2>1
        <2> DEFINE l == Len(s) - 1
        <2>7. l \in G /\ l + 1 = Len(s)
            BY <2>5, <2>6
        <2> HIDE DEF l
        <2> QED
            BY <2>1, <2>2, <2>7
    <1> QED
        BY <1>1, <1>2

\* One after the other, as many as each other.
LEMMA FlattenApart ==
    ASSUME NEW A \in Seq(Seq(Byte)), NEW B \in Seq(Seq(Byte)), Len(A) = Len(B),
           \A i \in 1..Len(A) : Apart(A[i], B[i])
    PROVE  Apart(FlattenSeq(A), FlattenSeq(B)) /\ (FlattenSeq(A) = FlattenSeq(B) <=> A = B)
    <1> DEFINE n == Len(A)
    <1>1. n \in Nat
        OBVIOUS
    <1>2. CASE n = 0
        <2>1. \A i \in 1..Len(A) : A[i] = B[i]
            BY <1>2
        <2>2. A = B /\ FlattenSeq(A) \in Seq(Byte)
            BY <1>1, <2>1, SeqEqual, FlattenBytes
        <2> QED
            BY <2>2, SameLengthApart
    <1>3. CASE n # 0
        <2>1. PICK f : /\ f = [i \in 1..n |-> IF i = 1 THEN A[i] ELSE f[i - 1] \o A[i]]
                       /\ FlattenSeq(A) = f[n]
            BY <1>1, <1>3, FlattenIs
        <2>2. PICK g : /\ g = [i \in 1..n |-> IF i = 1 THEN B[i] ELSE g[i - 1] \o B[i]]
                       /\ FlattenSeq(B) = g[n]
            <3>1. Len(B) # 0 /\ Len(B) \in Nat /\ Len(B) = n
                BY <1>1, <1>3
            <3>2. \E h : /\ h = [i \in 1..Len(B) |-> IF i = 1 THEN B[i] ELSE h[i - 1] \o B[i]]
                         /\ FlattenSeq(B) = h[Len(B)]
                BY <3>1, FlattenIs
            <3> QED
                BY <3>1, <3>2
        <2> DEFINE Told(m) == Apart(f[m], g[m]) /\ (f[m] = g[m] <=> \A i \in 1..m : A[i] = B[i])
                   G == {m \in Nat : m + 1 <= n => Told(m + 1)}
        <2>3. \A i \in 1..n : Apart(A[i], B[i]) /\ A[i] \in Seq(Byte) /\ B[i] \in Seq(Byte)
            BY <1>1
        <2> HIDE DEF n
        <2>4. 0 \in G
            <3>1. 1 \in 1..n
                BY <1>1, <1>3
            <3>2. f[1] = A[1] /\ g[1] = B[1]
                BY <2>1, <2>2, <3>1
            <3>3. \A i \in 1..1 : i = 1
                OBVIOUS
            <3>4. Told(1)
                BY <2>3, <3>1, <3>2, <3>3
            <3>5. 0 + 1 = 1 /\ 0 \in Nat
                OBVIOUS
            <3> HIDE DEF Told
            <3> QED
                BY <3>4, <3>5
        <2>5. ASSUME NEW m \in G PROVE m + 1 \in G
            <3>1. SUFFICES ASSUME m + 2 <= n
                           PROVE  Told(m + 2)
                <4>1. (m + 1) + 1 = m + 2 /\ m + 1 \in Nat
                    OBVIOUS
                <4> HIDE DEF Told
                <4> QED
                    BY <4>1
            <3>2. m + 2 \in 1..n /\ m + 2 # 1 /\ (m + 2) - 1 = m + 1 /\ m + 1 <= n
                BY <1>1, <3>1
            <3>3. f[m + 2] = f[m + 1] \o A[m + 2] /\ g[m + 2] = g[m + 1] \o B[m + 2]
                BY <2>1, <2>2, <3>2
            <3>4. Told(m + 1)
                <4> HIDE DEF Told
                <4> QED
                    BY <3>2
            <3>5. Apart(A[m + 2], B[m + 2]) /\ A[m + 2] \in Seq(Byte) /\ B[m + 2] \in Seq(Byte)
                BY <2>3, <3>2
            <3> DEFINE fm == f[m + 1]
                       gm == g[m + 1]
                       a == A[m + 2]
                       b == B[m + 2]
            <3>6. Joined(fm, gm, a, b)
                <4>1. Apart(fm, gm) /\ Apart(a, b) /\ IsBytes(a) /\ IsBytes(b)
                    BY <3>4, <3>5 DEF IsBytes
                <4> HIDE DEF fm, gm, a, b
                <4> QED
                    BY <4>1, JoinedApart
            <3>7. \A i \in 1..(m + 2) : i = m + 2 \/ i \in 1..(m + 1)
                OBVIOUS
            <3>8. \A i \in 1..(m + 1) : i \in 1..(m + 2)
                OBVIOUS
            <3>9. (\A i \in 1..(m + 2) : A[i] = B[i]) <=> (\A i \in 1..(m + 1) : A[i] = B[i]) /\ a = b
                <4>1. m + 2 \in 1..(m + 2)
                    OBVIOUS
                <4> QED
                    BY <3>7, <3>8, <4>1
            <3> QED
                BY <3>3, <3>4, <3>6, <3>9 DEF Joined
        <2>6. G = Nat
            <3>1. G \in SUBSET Nat
                OBVIOUS
            <3> HIDE DEF G
            <3> QED
                BY <2>4, <2>5, <3>1, UpFromZero
        <2> DEFINE l == n - 1
        <2>7. l \in Nat /\ l + 1 = n
            BY <1>1, <1>3
        <2> HIDE DEF l
        <2>8. Told(n)
            <3>1. l \in G
                BY <2>6, <2>7
            <3>2. l + 1 <= n
                BY <1>1, <2>7
            <3> HIDE DEF Told
            <3> QED
                BY <2>7, <3>1, <3>2
        <2>9. (\A i \in 1..n : A[i] = B[i]) <=> A = B
            BY SeqEqual DEF n
        <2> QED
            BY <2>1, <2>2, <2>8, <2>9
    <1> QED
        BY <1>2, <1>3

\* The bytes a and b are what is put for m and for n.
Coded(a, b, m, n) == Apart(a, b) /\ (a = b <=> m = n)

\* One code after another is a code of the pair.
LEMMA CodedJoined ==
    \A f, g, m, n, a, b, p, q :
        /\ IsBytes(a) /\ IsBytes(b) /\ Coded(f, g, m, n) /\ (m = n => Coded(a, b, p, q))
        => Coded(f \o a, g \o b, <<m, p>>, <<n, q>>)
    <1> SUFFICES ASSUME NEW f, NEW g, NEW m, NEW n, NEW a, NEW b, NEW p, NEW q,
                        IsBytes(a), IsBytes(b), Coded(f, g, m, n), m = n => Coded(a, b, p, q)
                 PROVE  Coded(f \o a, g \o b, <<m, p>>, <<n, q>>)
        OBVIOUS
    <1>1. Apart(f, g) /\ (f = g <=> m = n) /\ (m = n => Apart(a, b) /\ (a = b <=> p = q))
        BY DEF Coded
    <1>2. Joined(f, g, a, b)
        BY <1>1, JoinedApart
    <1>3. <<m, p>> = <<n, q>> <=> m = n /\ p = q
        OBVIOUS
    <1> QED
        BY <1>1, <1>2, <1>3, Zenon DEF Coded, Joined

\* Codes are bytes.
LEMMA CodedBytes ==
    \A a, b, m, n : Coded(a, b, m, n) => IsBytes(a) /\ IsBytes(b)
    BY DEF Coded, Apart, IsBytes

-----------------------------------------------------------------------------
(* Numbers and strings.                                                    *)
LEMMA LimitOf ==
    /\ limit[0] = 1
    /\ \A k \in 0..WORD : k # 0 => k - 1 \in 0..WORD /\ limit[k] = 256 * limit[k - 1]
    BY limitIs, ContentAssumption

\* Powers of 256 are numbers.
LEMMA LimitIsNat == \A k \in 0..WORD : limit[k] \in Nat
    <1> DEFINE G == {k \in Nat : k <= WORD => limit[k] \in Nat}
    <1>1. 0 \in G
        BY LimitOf
    <1>2. ASSUME NEW k \in G PROVE k + 1 \in G
        <2>1. SUFFICES ASSUME k + 1 <= WORD PROVE limit[k + 1] \in Nat
            OBVIOUS
        <2>2. k + 1 \in 0..WORD /\ (k + 1) - 1 = k /\ k + 1 # 0 /\ k <= WORD
            BY <2>1, ContentAssumption
        <2>3. limit[k + 1] = 256 * limit[k]
            BY <2>2, LimitOf
        <2> QED
            BY <2>2, <2>3
    <1>3. G = Nat
        <2>1. G \in SUBSET Nat
            OBVIOUS
        <2> HIDE DEF G
        <2> QED
            BY <1>1, <1>2, <2>1, UpFromZero
    <1> QED
        BY <1>3, ContentAssumption

\* A number is its last byte and the rest.
LEMMA Divided ==
    ASSUME NEW n \in Nat
    PROVE  n \div 256 \in Nat /\ n % 256 \in Byte /\ n = 256 * (n \div 256) + (n % 256)
    BY DEF Byte

\* An appended byte and what it was appended to are both read back.
LEMMA AppendTells ==
    ASSUME NEW s \in Seq(Byte), NEW t \in Seq(Byte), NEW x \in Byte, NEW y \in Byte
    PROVE  /\ Append(s, x) \in Seq(Byte) /\ Len(Append(s, x)) = Len(s) + 1
           /\ Append(s, x) = Append(t, y) => s = t /\ x = y
    <1>1. Append(s, x) \in Seq(Byte) /\ Len(Append(s, x)) = Len(s) + 1
        OBVIOUS
    <1> QED
        BY <1>1, AppendInjective

\* The last k bytes of a number: k of them, and as many numbers as they are enough for.
Written(k, n) == be_bytes[k][n] \in Seq(Byte) /\ Len(be_bytes[k][n]) = k
Words(k) ==
    /\ \A n \in 0..(limit[k] - 1) : Written(k, n)
    /\ \A m, n \in 0..(limit[k] - 1) : be_bytes[k][m] = be_bytes[k][n] => m = n

\* k bytes have length k and tell the numbers below 256^k apart.
LEMMA WordsAre == \A k \in 0..WORD : Words(k)
    <1> DEFINE G == {k \in Nat : k <= WORD => Words(k)}
    <1>1. 0 \in G
        <2>1. \A n \in 0..(limit[0] - 1) : n = 0
            BY LimitOf
        <2>2. 0 \in 0..WORD
            BY ContentAssumption
        <2>3. be_bytes[0][0] = <<>>
            BY <2>2, be_bytesIs
        <2>5. Len(<<>>) = 0 /\ <<>> \in Seq(Byte)
            OBVIOUS
        <2>4. Words(0)
            BY <2>1, <2>3, <2>5, Zenon DEF Words, Written
        <2> QED
            BY <2>4
    <1>2. ASSUME NEW k \in G PROVE k + 1 \in G
        <2>1. SUFFICES ASSUME k + 1 <= WORD PROVE Words(k + 1)
            OBVIOUS
        <2>2. k + 1 \in 0..WORD /\ (k + 1) - 1 = k /\ k + 1 # 0 /\ k \in 0..WORD
            BY <2>1, ContentAssumption
        <2>3. limit[k + 1] = 256 * limit[k] /\ limit[k] \in Nat
            BY <2>2, LimitOf, LimitIsNat
        <2>4. Words(k)
            BY <2>2
        <2>5. ASSUME NEW n \in 0..(limit[k + 1] - 1)
              PROVE  /\ n \div 256 \in 0..(limit[k] - 1) /\ n % 256 \in Byte /\ n \in Nat
                     /\ be_bytes[k + 1][n] = Append(be_bytes[k][n \div 256], n % 256)
            <3>1. n \in Nat /\ n < 256 * limit[k]
                BY <2>3, <2>5
            <3>2. n \div 256 \in Nat /\ n % 256 \in Byte /\ n = 256 * (n \div 256) + (n % 256)
                BY <3>1, Divided
            <3> DEFINE d == n \div 256
                       r == n % 256
                       l == limit[k]
            <3>3. d < l
                <4>1. d \in Nat /\ r \in Byte /\ n = 256 * d + r /\ l \in Nat /\ n < 256 * l /\ n \in Nat
                    BY <2>3, <3>1, <3>2
                <4> HIDE DEF d, r, l
                <4> QED
                    BY <4>1 DEF Byte
            <3>4. be_bytes[k + 1][n] = Append(be_bytes[k][n \div 256], n % 256)
                <4>1. be_bytes[k + 1] =
                        [i \in Nat |-> Append(be_bytes[k][i \div 256], i % 256)]
                    <5>1. be_bytes[k + 1] =
                            [i \in Nat |-> IF k + 1 = 0 THEN <<>>
                                           ELSE Append(be_bytes[(k + 1) - 1][i \div 256], i % 256)]
                        BY <2>2, be_bytesIs, Zenon
                    <5> QED
                        BY <2>2, <5>1, Zenon
                <4> QED
                    BY <3>1, <4>1, Zenon
            <3>5. n \div 256 \in 0..(limit[k] - 1)
                <4>1. d \in Nat /\ l \in Nat
                    BY <2>3, <3>2
                <4> HIDE DEF d, l
                <4>2. d \in 0..(l - 1)
                    BY <3>3, <4>1
                <4> QED
                    BY <4>2 DEF d, l
            <3> QED
                BY <3>1, <3>2, <3>4, <3>5, Zenon
        <2>6. ASSUME NEW n \in 0..(limit[k + 1] - 1) PROVE Written(k + 1, n)
            <3>1. /\ n \div 256 \in 0..(limit[k] - 1) /\ n % 256 \in Byte
                  /\ be_bytes[k + 1][n] = Append(be_bytes[k][n \div 256], n % 256)
                BY <2>5
            <3> DEFINE s == be_bytes[k][n \div 256]
                       x == n % 256
            <3>2. s \in Seq(Byte) /\ Len(s) = k /\ x \in Byte /\ be_bytes[k + 1][n] = Append(s, x)
                <4>1. \A i \in 0..(limit[k] - 1) : Written(k, i)
                    BY <2>4, Zenon DEF Words
                <4>2. Written(k, n \div 256)
                    BY <3>1, <4>1, Zenon
                <4> QED
                    BY <3>1, <4>2, Zenon DEF Written
            <3> HIDE DEF s, x
            <3> QED
                BY <3>2, AppendTells DEF Written
        <2>7. ASSUME NEW m \in 0..(limit[k + 1] - 1), NEW n \in 0..(limit[k + 1] - 1),
                     be_bytes[k + 1][m] = be_bytes[k + 1][n]
              PROVE  m = n
            <3> DEFINE s == be_bytes[k][m \div 256]
                       x == m % 256
                       t == be_bytes[k][n \div 256]
                       y == n % 256
            <3>1. /\ m \div 256 \in 0..(limit[k] - 1) /\ x \in Byte /\ m \in Nat
                  /\ be_bytes[k + 1][m] = Append(s, x)
                BY <2>5
            <3>2. /\ n \div 256 \in 0..(limit[k] - 1) /\ y \in Byte /\ n \in Nat
                  /\ be_bytes[k + 1][n] = Append(t, y)
                BY <2>5
            <3>3. s \in Seq(Byte) /\ t \in Seq(Byte)
                <4>1. \A i \in 0..(limit[k] - 1) : Written(k, i)
                    BY <2>4, Zenon DEF Words
                <4>2. Written(k, m \div 256) /\ Written(k, n \div 256)
                    BY <3>1, <3>2, <4>1, Zenon
                <4> QED
                    BY <4>2, Zenon DEF Written
            <3>4. Append(s, x) = Append(t, y)
                BY <2>7, <3>1, <3>2, Zenon
            <3>5. s = t /\ x = y
                <4> HIDE DEF s, t, x, y
                <4> QED
                    BY <3>1, <3>2, <3>3, <3>4, AppendTells
            <3>6. m \div 256 = n \div 256
                BY <2>4, <3>1, <3>2, <3>5 DEF Words
            <3>7. m = 256 * (m \div 256) + x /\ n = 256 * (n \div 256) + y
                BY <3>1, <3>2, Divided
            <3> QED
                BY <3>5, <3>6, <3>7, Zenon
        <2> QED
            BY <2>6, <2>7 DEF Words
    <1>3. G = Nat
        <2>1. G \in SUBSET Nat
            OBVIOUS
        <2> HIDE DEF G
        <2> QED
            BY <1>1, <1>2, <2>1, UpFromZero
    <1> QED
        BY <1>3, ContentAssumption

\* A word is a code of its number.
LEMMA WordCoded == \A m, n : m \in Fits /\ n \in Fits => Coded(Word(m), Word(n), m, n)
    <1> SUFFICES ASSUME NEW m \in Fits, NEW n \in Fits PROVE Coded(Word(m), Word(n), m, n)
        OBVIOUS
    <1>1. Words(WORD)
        BY WordsAre, ContentAssumption
    <1>2. /\ Word(m) \in Seq(Byte) /\ Word(n) \in Seq(Byte) /\ Len(Word(m)) = Len(Word(n))
          /\ Word(m) = Word(n) => m = n
        BY <1>1 DEF Words, Written, Fits, Word
    <1> QED
        BY <1>2, SameLengthApart DEF Coded

\* A string with its length in front is a code of the string.
LEMMA BytesCoded == \A a, b : a \in Bytes /\ b \in Bytes => Coded(put_bytes(a), put_bytes(b), a, b)
    <1> SUFFICES ASSUME NEW a \in Bytes, NEW b \in Bytes
                 PROVE  Coded(put_bytes(a), put_bytes(b), a, b)
        OBVIOUS
    <1>1. IsBytes(a) /\ IsBytes(b) /\ Len(a) \in Fits /\ Len(b) \in Fits
        BY DEF Bytes, IsBytes
    <1>2. Coded(Word(Len(a)), Word(Len(b)), Len(a), Len(b))
        BY <1>1, WordCoded
    <1>3. Len(a) = Len(b) => Apart(a, b)
        BY <1>1, SameLengthApart DEF IsBytes
    <1>4. Joined(Word(Len(a)), Word(Len(b)), a, b)
        BY <1>1, <1>2, <1>3, JoinedApart DEF Coded
    <1>5. a = b => Len(a) = Len(b)
        OBVIOUS
    <1> QED
        BY <1>2, <1>4, <1>5, Zenon DEF Coded, Joined, put_bytes

-----------------------------------------------------------------------------
(* The order of the keys.                                                  *)
\* A set of numbers that has an element has a least one.
LEMMA LeastNumber ==
    ASSUME NEW N \in SUBSET Nat, N # {}
    PROVE  \E n \in N : \A k \in N : n <= k
    <1> DEFINE R == OpToRel(<, Nat)
    <1>1. IsWellFoundedOn(R, Nat)
        BY NatLessThanWellFounded
    <1> HIDE DEF R
    <1>2. PICK n \in N : \A k \in N : ~ (<<k, n>> \in R)
        BY <1>1, WFMin
    <1>3. \A k \in N : ~ (k < n)
        BY <1>2 DEF R, OpToRel
    <1> QED
        BY <1>3

\* sort_unstable_by's order is one: total, and strict.
LEMMA BytesAreNumbers == ASSUME NEW a \in Seq(Byte) PROVE \A i \in 1..Len(a) : a[i] \in Int
    <1>1. \A i \in 1..Len(a) : a[i] \in Byte
        OBVIOUS
    <1>2. \A x \in Byte : x \in Int
        BY DEF Byte
    <1> QED
        BY <1>1, <1>2

\* BytesBefore is a strict total order, in three lemmas.
LEMMA NotBeforeItself == ASSUME NEW a \in Seq(Byte) PROVE ~BytesBefore(a, a)
    <1> SUFFICES ASSUME NEW n \in 1..Len(a), n > Len(a) \/ a[n] < a[n] PROVE FALSE
        BY DEF BytesBefore
    <1>1. Len(a) \in Nat /\ a[n] \in Int
        BY BytesAreNumbers
    <1> QED
        BY <1>1

\* The second of the three.
LEMMA BeforeIsTransitive ==
    ASSUME NEW a \in Seq(Byte), NEW b \in Seq(Byte), NEW c \in Seq(Byte),
           BytesBefore(a, b), BytesBefore(b, c)
    PROVE  BytesBefore(a, c)
    <1>1. PICK m \in 1..Len(b) : /\ \A i \in 1..(m - 1) : i <= Len(a) /\ a[i] = b[i]
                                 /\ m > Len(a) \/ a[m] < b[m]
        BY DEF BytesBefore
    <1>2. PICK n \in 1..Len(c) : /\ \A i \in 1..(n - 1) : i <= Len(b) /\ b[i] = c[i]
                                 /\ n > Len(b) \/ b[n] < c[n]
        BY DEF BytesBefore
    <1>3. Len(a) \in Nat /\ Len(b) \in Nat /\ Len(c) \in Nat
        OBVIOUS
    <1>4. /\ \A i \in 1..Len(a) : a[i] \in Int
          /\ \A i \in 1..Len(b) : b[i] \in Int
          /\ \A i \in 1..Len(c) : c[i] \in Int
        BY BytesAreNumbers
    <1> DEFINE la == Len(a)
               lb == Len(b)
               lc == Len(c)
    <1> HIDE DEF la, lb, lc
    <1>5. CASE m <= n - 1
        <2>1. m \in 1..lc /\ m \in 1..(n - 1) /\ b[m] = c[m]
            BY <1>1, <1>2, <1>3, <1>5 DEF la, lb, lc
        <2>2. \A i \in 1..(m - 1) : i <= la /\ a[i] = c[i]
            BY <1>1, <1>2, <1>5 DEF la
        <2>3. m > la \/ a[m] < c[m]
            BY <1>1, <2>1 DEF la
        <2> QED
            BY <2>1, <2>2, <2>3 DEF BytesBefore, la, lc
    <1>6. CASE ~(m <= n - 1)
        <2>1. m >= n /\ n \in 1..lc /\ n \in 1..lb
            BY <1>1, <1>2, <1>3, <1>6 DEF lb, lc
        <2>2. \A i \in 1..(n - 1) : i <= la /\ a[i] = c[i]
            BY <1>1, <1>2, <2>1 DEF la
        <2>3. b[n] < c[n]
            BY <1>2, <2>1 DEF lb
        <2>4. n > la \/ a[n] < c[n]
            <3>1. CASE m = n
                <4>1. CASE n > la
                    BY <4>1
                <4>2. CASE ~(n > la)
                    <5>1. n \in 1..la /\ a[n] < b[n]
                        BY <1>1, <1>3, <2>1, <3>1, <4>2 DEF la
                    <5> QED
                        BY <1>4, <2>1, <2>3, <5>1 DEF la, lb, lc
                <4> QED
                    BY <4>1, <4>2
            <3>2. CASE m # n
                BY <1>1, <2>1, <2>3, <3>2 DEF la
            <3> QED
                BY <3>1, <3>2
        <2> QED
            BY <2>1, <2>2, <2>4 DEF BytesBefore, la, lc
    <1> QED
        BY <1>5, <1>6

\* The third of the three.
LEMMA OneIsBefore ==
    ASSUME NEW a \in Seq(Byte), NEW b \in Seq(Byte), a # b
    PROVE  BytesBefore(a, b) \/ BytesBefore(b, a)
    <1> DEFINE la == Len(a)
               lb == Len(b)
               N == {n \in Nat : n >= 1 /\ n <= la + 1 /\ n <= lb + 1
                                 /\ (n <= la /\ n <= lb => a[n] # b[n])}
    <1>1. la \in Nat /\ lb \in Nat
        OBVIOUS
    <1>2. N # {}
        <2> HIDE DEF la, lb
        <2>1. CASE la < lb
            <3>1. la + 1 \in N
                BY <1>1, <2>1
            <3> QED
                BY <3>1
        <2>2. CASE lb <= la
            <3>1. lb + 1 \in N
                BY <1>1, <2>2
            <3> QED
                BY <3>1
        <2> QED
            BY <1>1, <2>1, <2>2
    <1>3. PICK n \in N : \A k \in N : n <= k
        <2>1. N \in SUBSET Nat
            OBVIOUS
        <2> HIDE DEF N
        <2> QED
            BY <1>2, <2>1, LeastNumber
    <1>4. \A i \in 1..(n - 1) : i <= la /\ i <= lb /\ a[i] = b[i]
        <2> TAKE i \in 1..(n - 1)
        <2>1. i \in Nat /\ i >= 1 /\ i < n /\ n <= la + 1 /\ n <= lb + 1
            BY <1>3
        <2>2. ~(i \in N)
            BY <1>3, <2>1
        <2> HIDE DEF la, lb
        <2> QED
            BY <1>1, <2>1, <2>2
    <1>5. /\ n \in Nat /\ n >= 1 /\ n <= la + 1 /\ n <= lb + 1
          /\ n <= la /\ n <= lb => a[n] # b[n]
        BY <1>3
    <1>6. /\ \A i \in 1..la : a[i] \in Int
          /\ \A i \in 1..lb : b[i] \in Int
        BY BytesAreNumbers
    <1> HIDE DEF N, la, lb
    <1>7. CASE n <= la /\ n <= lb
        <2>1. n \in 1..la /\ n \in 1..lb /\ (a[n] < b[n] \/ b[n] < a[n])
            BY <1>1, <1>5, <1>6, <1>7
        <2> QED
            BY <1>4, <2>1 DEF BytesBefore, la, lb
    <1>8. CASE n > la /\ n <= lb
        <2>1. n \in 1..lb
            BY <1>1, <1>5, <1>8
        <2> QED
            BY <1>4, <1>8, <2>1 DEF BytesBefore, la, lb
    <1>9. CASE n > lb /\ n <= la
        <2>1. n \in 1..la
            BY <1>1, <1>5, <1>9
        <2> QED
            BY <1>4, <1>9, <2>1 DEF BytesBefore, la, lb
    <1>10. CASE n > la /\ n > lb
        <2>1. la = lb
            BY <1>1, <1>5, <1>10
        <2>2. \A i \in 1..la : i \in 1..(n - 1)
            BY <1>1, <1>5, <1>10
        <2>3. \A i \in 1..la : a[i] = b[i]
            BY <1>4, <2>2
        <2>4. a = b
            BY <2>1, <2>3, SeqEqual DEF la, lb
        <2> QED
            BY <2>4
    <1> QED
        BY <1>1, <1>5, <1>7, <1>8, <1>9, <1>10

\* Different keys can be put in order: each has its place behind those before it.
LEMMA OrderExists ==
    ASSUME NEW n \in Nat, NEW key, \A i \in 1..n : key[i] \in Seq(Byte),
           \A i, j \in 1..n : key[i] = key[j] => i = j
    PROVE  \E p \in Bijection(1..n, 1..n) :
               \A i, j \in 1..n : i < j => ~BytesBefore(key[p[j]], key[p[i]])
    <1> DEFINE S == 1..n
               Ahead(x) == {y \in S : BytesBefore(key[y], key[x])}
               place == [x \in S |-> Cardinality(Ahead(x)) + 1]
    <1>1. IsFiniteSet(S) /\ Cardinality(S) = n
        BY FS_Interval
    <1>2. ASSUME NEW x \in S
          PROVE  /\ IsFiniteSet(Ahead(x)) /\ Cardinality(Ahead(x)) \in Nat /\ x \notin Ahead(x)
                 /\ Cardinality(Ahead(x)) + 1 \in S
        <2>1. x \notin Ahead(x) /\ Ahead(x) \subseteq S
            BY NotBeforeItself
        <2>2. IsFiniteSet(Ahead(x)) /\ Cardinality(Ahead(x)) \in Nat
            BY <1>1, <2>1, FS_Subset, FS_CardinalityType
        <2>3. Cardinality(Ahead(x)) <= n /\ Cardinality(Ahead(x)) # n
            <3> DEFINE A == Ahead(x)
            <3>1. A # S /\ A \in SUBSET S
                BY <2>1
            <3> HIDE DEF A, S
            <3>2. Cardinality(A) <= n /\ Cardinality(A) # n
                BY <1>1, <3>1, FS_Subset
            <3> QED
                BY <3>2 DEF A
        <2> HIDE DEF Ahead
        <2> QED
            BY <2>1, <2>2, <2>3
    <1>3. ASSUME NEW x \in S, NEW y \in S, BytesBefore(key[x], key[y])
          PROVE  place[x] < place[y]
        <2>1. Ahead(x) \cup {x} \subseteq Ahead(y)
            BY <1>3, BeforeIsTransitive
        <2>2. Cardinality(Ahead(x) \cup {x}) = Cardinality(Ahead(x)) + 1
            BY <1>2, FS_AddElement
        <2>3. Cardinality(Ahead(x) \cup {x}) <= Cardinality(Ahead(y))
            BY <1>2, <2>1, FS_Subset
        <2>4. Cardinality(Ahead(x)) \in Nat /\ Cardinality(Ahead(y)) \in Nat
            BY <1>2
        <2> HIDE DEF Ahead
        <2> QED
            BY <2>2, <2>3, <2>4
    <1>4. place \in [S -> S]
        BY <1>2
    <1>5. ASSUME NEW x \in S, NEW y \in S, place[x] = place[y] PROVE x = y
        <2>1. SUFFICES ASSUME x # y PROVE FALSE
            OBVIOUS
        <2>2. BytesBefore(key[x], key[y]) \/ BytesBefore(key[y], key[x])
            BY <2>1, OneIsBefore
        <2>3. place[x] \in S /\ place[y] \in S
            BY <1>4
        <2> HIDE DEF place
        <2> QED
            BY <1>3, <1>5, <2>2, <2>3
    <1> HIDE DEF place
    <1>6. place \in Surjection(S, S)
        <2>1. place \in Injection(S, S)
            BY <1>4, <1>5 DEF Injection, IsInjective
        <2> QED
            BY <1>1, <2>1, FS_Injection
    <1>7. \A k \in S : \E x \in S : place[x] = k
        BY <1>6 DEF Surjection
    <1> DEFINE p == [k \in S |-> CHOOSE x \in S : place[x] = k]
    <1>8. \A k \in S : p[k] \in S /\ place[p[k]] = k
        BY <1>7
    <1>9. p \in [S -> S]
        BY <1>8
    <1> HIDE DEF p, S
    <1>10. p \in Bijection(S, S)
        <2>1. \A x \in S : \E k \in S : p[k] = x
            <3> TAKE x \in S
            <3>1. place[x] \in S
                BY <1>4
            <3> QED
                BY <1>5, <1>8, <3>1
        <2> QED
            BY <1>8, <1>9, <2>1 DEF Bijection, Injection, IsInjective, Surjection
    <1>11. \A i, j \in S : i < j => ~BytesBefore(key[p[j]], key[p[i]])
        <2> SUFFICES ASSUME NEW i \in S, NEW j \in S, i < j, BytesBefore(key[p[j]], key[p[i]])
                     PROVE  FALSE
            OBVIOUS
        <2>1. place[p[j]] < place[p[i]] /\ place[p[j]] = j /\ place[p[i]] = i
            BY <1>3, <1>8
        <2> QED
            BY <2>1 DEF S
    <1> QED
        BY <1>10, <1>11 DEF S

Entries(list) == {list[i] : i \in 1..Len(list)}

\* A function on 1..n is a sequence.
LEMMA FunctionIsSeq ==
    ASSUME NEW U, NEW n \in Nat, NEW f \in [1..n -> U]
    PROVE  f \in Seq(U) /\ Len(f) = n /\ DOMAIN f = 1..n
    OBVIOUS

\* Sorting a map leaves its entries and puts their keys in strict order.
LEMMA SortedKeysAre ==
    ASSUME NEW V, NEW map \in Map(V)
    PROVE  /\ SortedKeys(map) \in Seq(Bytes \X V) /\ Len(SortedKeys(map)) = Len(map)
           /\ Entries(SortedKeys(map)) = Entries(map)
           /\ \A i, j \in 1..Len(map) :
                  i < j => BytesBefore(SortedKeys(map)[i][1], SortedKeys(map)[j][1])
    <1> DEFINE n == Len(map)
               D == DOMAIN map
               Orders(p) == \A i, j \in D : i < j => ~BytesBefore(map[p[j]][1], map[p[i]][1])
               order == CHOOSE p \in Bijection(D, D) : Orders(p)
               keys == [i \in D |-> map[order[i]]]
    <1>1. /\ map \in Seq(Bytes \X V) /\ n \in Nat /\ D = 1..n
          /\ \A i, j \in D : map[i][1] = map[j][1] => i = j
        BY DEF Map
    <1>2. \A i \in D : map[i] \in Bytes \X V /\ map[i][1] \in Seq(Byte)
        <2>1. \A i \in D : map[i] \in Bytes \X V
            BY <1>1
        <2> QED
            BY <2>1 DEF Bytes
    <1>3. \E p \in Bijection(D, D) : Orders(p)
        <2> DEFINE key == [i \in D |-> map[i][1]]
        <2>1. /\ \A i \in 1..n : key[i] \in Seq(Byte)
              /\ \A i, j \in 1..n : key[i] = key[j] => i = j
            BY <1>1, <1>2
        <2> HIDE DEF key
        <2>2. PICK p \in Bijection(1..n, 1..n) :
                    \A i, j \in 1..n : i < j => ~BytesBefore(key[p[j]], key[p[i]])
            BY <1>1, <2>1, OrderExists
        <2>3. p \in [D -> D]
            BY <1>1, <2>2 DEF Bijection, Injection
        <2>4. Orders(p)
            BY <1>1, <2>2, <2>3 DEF key
        <2> QED
            BY <1>1, <2>2, <2>4
    <1>4. order \in Bijection(D, D) /\ Orders(order)
        BY <1>3, Zenon
    <1>5. SortedKeys(map) = keys
        BY DEF SortedKeys
    <1> HIDE DEF order
    <1>6. /\ order \in [D -> D] /\ \A i, j \in D : order[i] = order[j] => i = j
          /\ \A x \in D : \E i \in D : order[i] = x
        BY <1>4 DEF Bijection, Injection, IsInjective, Surjection
    <1>7. keys \in Seq(Bytes \X V) /\ Len(keys) = n /\ DOMAIN keys = 1..n
        <2> HIDE DEF D
        <2>1. \A i \in D : map[order[i]] \in Bytes \X V
            BY <1>2, <1>6
        <2>2. keys \in [D -> Bytes \X V]
            BY <2>1
        <2> HIDE DEF keys
        <2>3. keys \in [1..n -> Bytes \X V]
            BY <1>1, <2>2
        <2> QED
            BY <1>1, <2>3, FunctionIsSeq
    <1>8. Entries(keys) = Entries(map)
        <2>1. \A i \in 1..n : keys[i] = map[order[i]] /\ order[i] \in 1..n
            BY <1>1, <1>6
        <2>2. \A x \in 1..n : \E i \in 1..n : keys[i] = map[x]
            BY <1>1, <1>6
        <2> HIDE DEF keys
        <2>3. Entries(keys) = {keys[i] : i \in 1..n} /\ Entries(map) = {map[i] : i \in 1..n}
            BY <1>7, Zenon DEF Entries
        <2> HIDE DEF n
        <2> QED
            BY <2>1, <2>2, <2>3
    <1>9. ASSUME NEW i \in 1..n, NEW j \in 1..n, i < j
          PROVE  BytesBefore(keys[i][1], keys[j][1])
        <2>1. order[i] \in D /\ order[j] \in D /\ order[i] # order[j]
            <3>1. i \in D /\ j \in D /\ i # j
                BY <1>1, <1>9
            <3> HIDE DEF D
            <3> QED
                BY <1>6, <3>1
        <2>2. ~BytesBefore(map[order[j]][1], map[order[i]][1])
            BY <1>1, <1>4, <1>9
        <2>3. /\ map[order[i]][1] # map[order[j]][1]
              /\ map[order[i]][1] \in Seq(Byte) /\ map[order[j]][1] \in Seq(Byte)
            BY <1>1, <1>2, <2>1
        <2>4. BytesBefore(map[order[i]][1], map[order[j]][1])
            BY <2>2, <2>3, OneIsBefore
        <2> QED
            BY <1>1, <2>4
    <1> QED
        BY <1>5, <1>7, <1>8, <1>9

\* There is one way to put a set of entries in the order of their keys.
Ordered(s, n) ==
    /\ \A i \in 1..n : s[i][1] \in Seq(Byte)
    /\ \A i, j \in 1..n : i < j => BytesBefore(s[i][1], s[j][1])

SameEntries(s, m, t, n) == {s[i] : i \in 1..m} = {t[i] : i \in 1..n}
SameList(s, m, t, n) == m = n /\ \A i \in 1..n : s[i] = t[i]

\* Two lists of the same entries, both in order, are the same list.
LEMMA OrderedOnce ==
    \A m, n, s, t :
        m \in Nat /\ n \in Nat /\ Ordered(s, m) /\ Ordered(t, n) /\ SameEntries(s, m, t, n)
        => SameList(s, m, t, n)
    <1> SUFFICES ASSUME NEW m \in Nat, NEW n \in Nat, NEW s, NEW t, Ordered(s, m), Ordered(t, n),
                        SameEntries(s, m, t, n)
                 PROVE  SameList(s, m, t, n)
        OBVIOUS
    <1>0. {s[i] : i \in 1..m} = {t[i] : i \in 1..n}
        BY DEF SameEntries
    <1> DEFINE N == {i \in Nat : i >= 1 /\ (i <= m \/ i <= n) /\ ~(i <= m /\ i <= n /\ s[i] = t[i])}
    <1>1. /\ \A i, j \in 1..m : i < j => s[i][1] # s[j][1]
          /\ \A i, j \in 1..n : i < j => t[i][1] # t[j][1]
        BY NotBeforeItself DEF Ordered
    <1>2. /\ \A i \in 1..m : \E j \in 1..n : s[i] = t[j]
          /\ \A i \in 1..n : \E j \in 1..m : t[i] = s[j]
        <2>1. \A i \in 1..m : s[i] \in {t[j] : j \in 1..n}
            BY <1>0
        <2>2. \A i \in 1..n : t[i] \in {s[j] : j \in 1..m}
            BY <1>0
        <2> QED
            BY <2>1, <2>2
    <1>3. SUFFICES ASSUME N # {} PROVE FALSE
        <2>1. \A i \in 1..m : i \notin N => i <= n /\ s[i] = t[i]
            OBVIOUS
        <2>2. \A i \in 1..n : i \notin N => i <= m /\ s[i] = t[i]
            OBVIOUS
        <2> HIDE DEF N
        <2>3. m = 0 \/ m \in 1..m
            OBVIOUS
        <2>4. n = 0 \/ n \in 1..n
            OBVIOUS
        <2> QED
            BY <2>1, <2>2, <2>3, <2>4 DEF SameList
    <1>4. PICK k \in N : \A i \in N : k <= i
        <2>1. N \in SUBSET Nat
            OBVIOUS
        <2> HIDE DEF N
        <2> QED
            BY <1>3, <2>1, LeastNumber
    <1>5. /\ k \in Nat /\ k >= 1 /\ (k <= m \/ k <= n)
          /\ ~(k <= m /\ k <= n /\ s[k] = t[k])
        BY <1>4
    <1>6. \A i \in 1..(k - 1) : i <= m /\ i <= n /\ s[i] = t[i]
        <2> TAKE i \in 1..(k - 1)
        <2>1. i \in Nat /\ i >= 1 /\ i < k /\ (i <= m \/ i <= n)
            BY <1>5
        <2>2. ~(i \in N)
            BY <1>4, <2>1
        <2> QED
            BY <2>1, <2>2
    <1> HIDE DEF N
    <1>7. ASSUME k <= m PROVE k <= n /\ \E j \in 1..n : j > k /\ s[k] = t[j]
        <2>1. k \in 1..m
            BY <1>5, <1>7
        <2>2. PICK j \in 1..n : s[k] = t[j]
            BY <1>2, <2>1
        <2>3. j >= k
            <3>1. SUFFICES ASSUME j < k PROVE FALSE
                BY <1>5
            <3>2. j \in 1..(k - 1)
                BY <1>5, <3>1
            <3>3. s[j] = s[k] /\ j \in 1..m
                BY <1>6, <2>2, <3>2
            <3> QED
                BY <1>1, <2>1, <3>1, <3>3
        <2>4. j # k
            BY <1>5, <1>7, <2>2
        <2> QED
            BY <1>5, <2>2, <2>3, <2>4
    <1>8. ASSUME k <= n PROVE k <= m /\ \E j \in 1..m : j > k /\ t[k] = s[j]
        <2>1. k \in 1..n
            BY <1>5, <1>8
        <2>2. PICK j \in 1..m : t[k] = s[j]
            BY <1>2, <2>1
        <2>3. j >= k
            <3>1. SUFFICES ASSUME j < k PROVE FALSE
                BY <1>5
            <3>2. j \in 1..(k - 1)
                BY <1>5, <3>1
            <3>3. t[j] = t[k] /\ j \in 1..n
                BY <1>6, <2>2, <3>2
            <3> QED
                BY <1>1, <2>1, <3>1, <3>3
        <2>4. j # k
            BY <1>5, <1>8, <2>2
        <2> QED
            BY <1>5, <2>2, <2>3, <2>4
    <1>9. k <= m /\ k <= n
        BY <1>5, <1>7, <1>8
    <1>10. PICK j \in 1..n : j > k /\ s[k] = t[j]
        BY <1>7, <1>9
    <1>11. PICK l \in 1..m : l > k /\ t[k] = s[l]
        BY <1>8, <1>9
    <1>12. k \in 1..m /\ k \in 1..n
        BY <1>5, <1>9
    <1>13. BytesBefore(t[k][1], s[k][1]) /\ BytesBefore(s[k][1], t[k][1])
        BY <1>10, <1>11, <1>12 DEF Ordered
    <1>14. t[k][1] \in Seq(Byte) /\ s[k][1] \in Seq(Byte)
        BY <1>12 DEF Ordered
    <1> QED
        BY <1>13, <1>14, BeforeIsTransitive, NotBeforeItself

-----------------------------------------------------------------------------
(* Maps, and values of every type and depth.                               *)
\* Every two of V are told apart by what is put for them.
Codes(V, put, mean) == \A v, w \in V : Coded(put[v], put[w], mean[v], mean[w])

\* A list of bytes flattens to bytes.
LEMMA ListBytes ==
    ASSUME NEW n \in Nat, NEW A \in [1..n -> Seq(Byte)]
    PROVE  A \in Seq(Seq(Byte)) /\ Len(A) = n /\ IsBytes(FlattenSeq(A))
    <1>1. A \in Seq(Seq(Byte)) /\ Len(A) = n
        BY FunctionIsSeq
    <1> QED
        BY <1>1, FlattenBytes DEF IsBytes

AllCoded(n, A, B, M, W) ==
    /\ A \in [1..n -> Seq(Byte)] /\ B \in [1..n -> Seq(Byte)]
    /\ \A i \in 1..n : Coded(A[i], B[i], M[i], W[i])
ListTold(n, A, B, M, W) ==
    /\ Apart(FlattenSeq(A), FlattenSeq(B))
    /\ FlattenSeq(A) = FlattenSeq(B) <=> \A i \in 1..n : M[i] = W[i]

\* Codes one after another are a code of the list, of a known length.
LEMMA ListCoded ==
    \A n, A, B, M, W : n \in Nat /\ AllCoded(n, A, B, M, W) => ListTold(n, A, B, M, W)
    <1> SUFFICES ASSUME NEW n \in Nat, NEW A, NEW B, NEW M, NEW W, AllCoded(n, A, B, M, W)
                 PROVE  ListTold(n, A, B, M, W)
        OBVIOUS
    <1> USE DEF AllCoded
    <1>1. /\ A \in Seq(Seq(Byte)) /\ Len(A) = n
          /\ B \in Seq(Seq(Byte)) /\ Len(B) = n
        BY ListBytes
    <1>2. \A i \in 1..Len(A) : Apart(A[i], B[i])
        BY <1>1 DEF Coded
    <1>3. Apart(FlattenSeq(A), FlattenSeq(B)) /\ (FlattenSeq(A) = FlattenSeq(B) <=> A = B)
        BY <1>1, <1>2, FlattenApart
    <1>4. A = B <=> \A i \in 1..n : A[i] = B[i]
        OBVIOUS
    <1>5. \A i \in 1..n : A[i] = B[i] <=> M[i] = W[i]
        BY DEF Coded
    <1> QED
        BY <1>3, <1>4, <1>5 DEF ListTold

\* What is put for the entries of a map, and what they say.
EntryBytes(keys, put) == [i \in 1..Len(keys) |-> put_bytes(keys[i][1]) \o put[keys[i][2]]]
EntryMeans(keys, mean) == [i \in 1..Len(keys) |-> <<keys[i][1], mean[keys[i][2]]>>]

\* An entry of a map is put as bytes.
LEMMA EntriesAre ==
    ASSUME NEW V, NEW put, NEW mean, Codes(V, put, mean), NEW keys \in Seq(Bytes \X V)
    PROVE  EntryBytes(keys, put) \in [1..Len(keys) -> Seq(Byte)]
    <1>1. \A i \in 1..Len(keys) : keys[i][1] \in Bytes /\ keys[i][2] \in V
        OBVIOUS
    <1>2. \A i \in 1..Len(keys) : put_bytes(keys[i][1]) \in Seq(Byte) /\ put[keys[i][2]] \in Seq(Byte)
        BY <1>1, BytesCoded DEF Codes, Coded, Apart
    <1>3. \A i \in 1..Len(keys) : put_bytes(keys[i][1]) \o put[keys[i][2]] \in Seq(Byte)
        BY <1>2
    <1> QED
        BY <1>3 DEF EntryBytes

\* An entry's bytes are a code of its key and of what its value means.
LEMMA EntryCoded ==
    ASSUME NEW V, NEW put, NEW mean, Codes(V, put, mean),
           NEW j \in Seq(Bytes \X V), NEW k \in Seq(Bytes \X V), Len(j) = Len(k)
    PROVE  \A i \in 1..Len(j) : Coded(EntryBytes(j, put)[i], EntryBytes(k, put)[i],
                                      EntryMeans(j, mean)[i], EntryMeans(k, mean)[i])
    <1> SUFFICES ASSUME NEW i \in 1..Len(j)
                 PROVE  Coded(EntryBytes(j, put)[i], EntryBytes(k, put)[i],
                              EntryMeans(j, mean)[i], EntryMeans(k, mean)[i])
        OBVIOUS
    <1>1. i \in 1..Len(k) /\ j[i][1] \in Bytes /\ j[i][2] \in V /\ k[i][1] \in Bytes /\ k[i][2] \in V
        OBVIOUS
    <1>2. Coded(put_bytes(j[i][1]), put_bytes(k[i][1]), j[i][1], k[i][1])
        BY <1>1, BytesCoded
    <1>3. Coded(put[j[i][2]], put[k[i][2]], mean[j[i][2]], mean[k[i][2]])
        BY <1>1 DEF Codes
    <1>4. IsBytes(put[j[i][2]]) /\ IsBytes(put[k[i][2]])
        BY <1>3, CodedBytes
    <1>5. Coded(put_bytes(j[i][1]) \o put[j[i][2]], put_bytes(k[i][1]) \o put[k[i][2]],
                <<j[i][1], mean[j[i][2]]>>, <<k[i][1], mean[k[i][2]]>>)
        BY <1>2, <1>3, <1>4, CodedJoined
    <1> QED
        BY <1>1, <1>5, Zenon DEF EntryBytes, EntryMeans

\* The entries of a map in the order of their keys say what the map says.
LEMMA MapMeans ==
    ASSUME NEW V, NEW mean, NEW map \in Map(V)
    PROVE  /\ Len(map) \in Nat /\ Len(map) \in Fits
           /\ SortedKeys(map) \in Seq(Bytes \X V) /\ Len(SortedKeys(map)) = Len(map)
           /\ Ordered(EntryMeans(SortedKeys(map), mean), Len(map))
           /\ MeaningOfMap(map, mean) = {EntryMeans(SortedKeys(map), mean)[i] : i \in 1..Len(map)}
    <1> DEFINE keys == SortedKeys(map)
               n == Len(map)
    <1>1. /\ keys \in Seq(Bytes \X V) /\ Len(keys) = n /\ Entries(keys) = Entries(map)
          /\ \A i, j \in 1..n : i < j => BytesBefore(keys[i][1], keys[j][1])
        BY SortedKeysAre
    <1>2. n \in Nat /\ n \in Fits /\ DOMAIN map = 1..n
        BY DEF Map
    <1> HIDE DEF keys, n
    <1>3. \A i \in 1..n : keys[i] \in Bytes \X V /\ keys[i][1] \in Seq(Byte)
        <2>1. \A i \in 1..n : keys[i] \in Bytes \X V
            BY <1>1
        <2> QED
            BY <2>1 DEF Bytes
    <1>4. \A i \in 1..n : EntryMeans(keys, mean)[i] = <<keys[i][1], mean[keys[i][2]]>>
        BY <1>1 DEF EntryMeans
    <1>5. Ordered(EntryMeans(keys, mean), n)
        BY <1>1, <1>3, <1>4 DEF Ordered
    <1>6. MeaningOfMap(map, mean) = {EntryMeans(keys, mean)[i] : i \in 1..n}
        <2> DEFINE Told(e) == <<e[1], mean[e[2]]>>
        <2>1. MeaningOfMap(map, mean) = {Told(e) : e \in Entries(map)}
            BY <1>2 DEF MeaningOfMap, Entries, n
        <2>2. {EntryMeans(keys, mean)[i] : i \in 1..n} = {Told(e) : e \in Entries(keys)}
            <3>1. Entries(keys) = {keys[i] : i \in 1..n}
                BY <1>1 DEF Entries
            <3>2. \A i \in 1..n : EntryMeans(keys, mean)[i] = Told(keys[i])
                BY <1>4
            <3> HIDE DEF Told
            <3> QED
                BY <3>1, <3>2
        <2> QED
            BY <1>1, <2>1, <2>2
    <1> QED
        BY <1>1, <1>2, <1>5, <1>6 DEF keys, n

\* A map: the number of its entries, then one after the other.
MapBytes(map, put) == Word(Len(map)) \o FlattenSeq(EntryBytes(SortedKeys(map), put))

\* The bytes of a map are a code of the set of its entries.
LEMMA MapCoded ==
    ASSUME NEW V, NEW put, NEW mean, Codes(V, put, mean), NEW a \in Map(V), NEW b \in Map(V)
    PROVE  Coded(MapBytes(a, put), MapBytes(b, put), MeaningOfMap(a, mean), MeaningOfMap(b, mean))
    <1> DEFINE j == SortedKeys(a)
               k == SortedKeys(b)
               m == Len(a)
               n == Len(b)
               A == EntryBytes(j, put)
               B == EntryBytes(k, put)
               M == EntryMeans(j, mean)
               W == EntryMeans(k, mean)
    <1>1. /\ m \in Nat /\ m \in Fits /\ j \in Seq(Bytes \X V) /\ Len(j) = m
          /\ Ordered(M, m) /\ MeaningOfMap(a, mean) = {M[i] : i \in 1..m}
        BY MapMeans
    <1>2. /\ n \in Nat /\ n \in Fits /\ k \in Seq(Bytes \X V) /\ Len(k) = n
          /\ Ordered(W, n) /\ MeaningOfMap(b, mean) = {W[i] : i \in 1..n}
        BY MapMeans
    <1>3. A \in [1..m -> Seq(Byte)] /\ B \in [1..n -> Seq(Byte)]
        BY <1>1, <1>2, EntriesAre
    <1>4. m = n => \A i \in 1..m : Coded(A[i], B[i], M[i], W[i])
        BY <1>1, <1>2, EntryCoded
    <1> HIDE DEF j, k, m, n, A, B, M, W
    <1>5. IsBytes(FlattenSeq(A)) /\ IsBytes(FlattenSeq(B))
        BY <1>1, <1>2, <1>3, ListBytes
    <1>6. m = n => /\ Apart(FlattenSeq(A), FlattenSeq(B))
                   /\ FlattenSeq(A) = FlattenSeq(B) <=> \A i \in 1..n : M[i] = W[i]
        <2> SUFFICES ASSUME m = n PROVE ListTold(n, A, B, M, W)
            BY DEF ListTold
        <2>1. AllCoded(n, A, B, M, W)
            BY <1>3, <1>4 DEF AllCoded
        <2> QED
            BY <1>2, <2>1, ListCoded
    <1>7. MeaningOfMap(a, mean) = MeaningOfMap(b, mean) <=> m = n /\ \A i \in 1..n : M[i] = W[i]
        <2>1. MeaningOfMap(a, mean) = MeaningOfMap(b, mean) => m = n /\ \A i \in 1..n : M[i] = W[i]
            <3> SUFFICES ASSUME MeaningOfMap(a, mean) = MeaningOfMap(b, mean)
                         PROVE  m = n /\ \A i \in 1..n : M[i] = W[i]
                OBVIOUS
            <3>1. SameEntries(M, m, W, n)
                BY <1>1, <1>2, Zenon DEF SameEntries
            <3>2. SameList(M, m, W, n)
                BY <1>1, <1>2, <3>1, OrderedOnce
            <3> QED
                BY <3>2 DEF SameList
        <2>2. m = n /\ (\A i \in 1..n : M[i] = W[i]) => MeaningOfMap(a, mean) = MeaningOfMap(b, mean)
            BY <1>1, <1>2
        <2> QED
            BY <2>1, <2>2
    <1>8. Coded(Word(m), Word(n), m, n)
        BY <1>1, <1>2, WordCoded
    <1>9. Joined(Word(m), Word(n), FlattenSeq(A), FlattenSeq(B))
        BY <1>5, <1>6, <1>8, JoinedApart DEF Coded
    <1>10. MapBytes(a, put) = Word(m) \o FlattenSeq(A) /\ MapBytes(b, put) = Word(n) \o FlattenSeq(B)
        BY DEF MapBytes, m, n, A, B, j, k
    <1> QED
        BY <1>6, <1>7, <1>8, <1>9, <1>10, Zenon DEF Coded, Joined

Types == {"null", "bool", "i64", "u64", "f64", "str", "array", "object"}
Numbers == {"i64", "u64", "f64"}
Number(v) == IF v.type = "f64" /\ v.is = -1 THEN 0 ELSE v.is

IsNode(V, v) == v \in Scalar \cup Nested(V)
IsKind(V, v) ==
    /\ v.type \in Types
    /\ v.type = "null" => v.is = 0
    /\ v.type = "bool" => v.is \in {0, 1}
    /\ v.type \in {"i64", "u64"} => v.is \in Fits
    /\ v.type = "f64" => v.is \in Fits \/ v.is = -1
    /\ v.type = "str" => v.is \in Bytes
    /\ v.type = "array" => v.is \in Seq(V) /\ Len(v.is) \in Fits
    /\ v.type = "object" => v.is \in Map(V)

\* What a value is, by its type.
LEMMA Kinds ==
    \A V, v : IsNode(V, v) => IsKind(V, v)
    <1> SUFFICES ASSUME NEW V, NEW v, IsNode(V, v) PROVE IsKind(V, v)
        OBVIOUS
    <1> QED
        BY DEF IsNode, IsKind, Scalar, Nested, Types

\* Every type has a tag of its own.
LEMMA TagsApart ==
    \A s, t \in Types : /\ TAG[s] \in Byte /\ TAG[t] \in Byte
                        /\ TAG[s] = TAG[t] <=> s = t
    BY DEF TAG, Types, Byte

\* A tag is a code of the type.
LEMMA TagCoded == \A s, t : s \in Types /\ t \in Types => Coded(<<TAG[s]>>, <<TAG[t]>>, s, t)
    <1> SUFFICES ASSUME NEW s \in Types, NEW t \in Types
                 PROVE  Coded(<<TAG[s]>>, <<TAG[t]>>, s, t)
        OBVIOUS
    <1>1. TAG[s] \in Byte /\ TAG[t] \in Byte /\ (TAG[s] = TAG[t] <=> s = t)
        BY TagsApart
    <1> DEFINE x == TAG[s]
               y == TAG[t]
    <1>2. x \in Byte /\ y \in Byte /\ (x = y <=> s = t)
        BY <1>1
    <1> HIDE DEF x, y
    <1>3. /\ <<x>> \in Seq(Byte) /\ <<y>> \in Seq(Byte) /\ Len(<<x>>) = Len(<<y>>)
          /\ <<x>> = <<y>> <=> x = y
        BY <1>2
    <1>4. Apart(<<x>>, <<y>>)
        BY <1>3, SameLengthApart
    <1> QED
        BY <1>2, <1>3, <1>4 DEF Coded, x, y

\* Zero is a number of any width.
LEMMA ZeroFits == 0 \in Fits
    <1> DEFINE G == {k \in Nat : k <= WORD => limit[k] >= 1}
    <1>1. 0 \in G
        BY LimitOf
    <1>2. ASSUME NEW k \in G PROVE k + 1 \in G
        <2>1. SUFFICES ASSUME k + 1 <= WORD PROVE limit[k + 1] >= 1
            OBVIOUS
        <2>2. k + 1 \in 0..WORD /\ (k + 1) - 1 = k /\ k + 1 # 0 /\ k \in 0..WORD
            BY <2>1, ContentAssumption
        <2>3. limit[k + 1] = 256 * limit[k] /\ limit[k] \in Nat
            BY <2>2, LimitOf, LimitIsNat
        <2> QED
            BY <2>2, <2>3
    <1>3. G = Nat
        <2>1. G \in SUBSET Nat
            OBVIOUS
        <2> HIDE DEF G
        <2> QED
            BY <1>1, <1>2, <2>1, UpFromZero
    <1> QED
        BY <1>3, ContentAssumption, LimitIsNat DEF Fits

\* A value after its tag.
Rest(v, put) ==
    CASE v.type = "null" -> <<>>
      [] v.type = "bool" -> <<v.is>>
      [] v.type \in Numbers -> Word(Number(v))
      [] v.type = "str" -> put_bytes(v.is)
      [] v.type = "array" -> Word(Len(v.is)) \o FlattenSeq([i \in DOMAIN v.is |-> put[v.is[i]]])
      [] v.type = "object" -> MapBytes(v.is, put)
RestIs(v, put) ==
    /\ v.type = "null" => Rest(v, put) = <<>>
    /\ v.type = "bool" => Rest(v, put) = <<v.is>>
    /\ v.type \in Numbers => Rest(v, put) = Word(Number(v))
    /\ v.type = "str" => Rest(v, put) = put_bytes(v.is)
    /\ v.type = "array" => Rest(v, put) = Word(Len(v.is)) \o FlattenSeq([i \in DOMAIN v.is |-> put[v.is[i]]])
    /\ v.type = "object" => Rest(v, put) = MapBytes(v.is, put)

\* What follows the tag, by the type.
LEMMA RestOf ==
    \A v, put : RestIs(v, put)
    BY Zenon DEF Rest, RestIs, Numbers

SaidIs(v, mean) ==
    /\ v.type \in {"null", "bool", "str"} => Said(v, mean) = v.is
    /\ v.type \in Numbers => Said(v, mean) = Number(v)
    /\ v.type = "array" => Said(v, mean) = [i \in DOMAIN v.is |-> mean[v.is[i]]]
    /\ v.type = "object" => Said(v, mean) = MeaningOfMap(v.is, mean)

\* What a value says, by its type.
LEMMA SaidOf ==
    \A V, v, mean : IsNode(V, v) => SaidIs(v, mean)
    <1> SUFFICES ASSUME NEW V, NEW v, NEW mean, IsNode(V, v) PROVE SaidIs(v, mean)
        OBVIOUS
    <1> USE DEF SaidIs
    <1> DEFINE zero == [type |-> "f64", is |-> -1]
    <1>1. v = zero => v.type = "f64" /\ v.is = -1
        OBVIOUS
    <1>2. CASE v.type \in {"null", "bool", "str"}
        <2>1. v # zero /\ v.type \notin {"array", "object"} /\ v.type # "f64" /\ v.type \notin Numbers
            BY <1>1, <1>2 DEF Numbers
        <2> QED
            BY <1>2, <2>1, Zenon DEF Said
    <1>3. CASE v.type \in Numbers /\ ~(v.type = "f64" /\ v.is = -1)
        <2>1. v # zero /\ v.type \notin {"array", "object"} /\ v.type \notin {"null", "bool", "str"}
            BY <1>1, <1>3 DEF Numbers
        <2>2. Said(v, mean) = v.is
            BY <1>3, <2>1, Zenon DEF Said
        <2>3. Number(v) = v.is
            BY <1>3 DEF Number
        <2> QED
            BY <2>1, <2>2, <2>3
    <1>4. CASE v.type = "f64" /\ v.is = -1
        <2>1. v.type \notin {"array", "object"} /\ v.type \notin {"null", "bool", "str"}
            BY <1>4
        <2>2. v = zero
            <3>1. \E r : r = v /\ r = [type |-> r.type, is |-> r.is]
                BY DEF IsNode, Scalar, Nested
            <3> QED
                BY <1>4, <3>1
        <2>3. Said(v, mean) = 0
            BY <1>4, <2>1, <2>2, Zenon DEF Said
        <2>4. Number(v) = 0
            BY <1>4 DEF Number
        <2> QED
            BY <2>1, <2>3, <2>4
    <1>5. CASE v.type \in {"array", "object"}
        <2>1. v.type \notin {"null", "bool", "str"} /\ v.type \notin Numbers /\ v.type # "f64"
            BY <1>5 DEF Numbers
        <2> QED
            BY <1>5, <2>1, Zenon DEF Said
    <1>6. v.type \in Types
        BY Kinds DEF IsKind
    <1> QED
        BY <1>2, <1>3, <1>4, <1>5, <1>6 DEF Types, Numbers

PutIs(v, put) ==
    /\ v.type = "null" => put_node(v, put) = <<TAG.null>>
    /\ v.type = "bool" => put_node(v, put) = <<TAG.bool, v.is>>
    /\ v.type \in Numbers => put_node(v, put) = put_number(v)
    /\ v.type = "str" => put_node(v, put) = <<TAG.str>> \o put_bytes(v.is)
    /\ v.type = "array" => put_node(v, put) =
                <<TAG.array>> \o Word(Len(v.is)) \o FlattenSeq([i \in DOMAIN v.is |-> put[v.is[i]]])
    /\ v.type = "object" => put_node(v, put) = put_map(v.is, put)

\* put_node, by the type.
LEMMA PutOf ==
    \A v, put : PutIs(v, put)
    BY Zenon DEF put_node, PutIs, Numbers

\* Short sequences, joined.
LEMMA JoinEmpty == ASSUME NEW x \in Byte PROVE <<x>> \o <<>> = <<x>>
    OBVIOUS
LEMMA JoinOne == ASSUME NEW x \in Byte, NEW y \in Byte PROVE <<x>> \o <<y>> = <<x, y>>
    <1> DEFINE t == <<x>>
               u == <<y>>
               p == <<x, y>>
    <1>1. /\ t \in Seq(Byte) /\ Len(t) = 1 /\ t[1] = x
          /\ u \in Seq(Byte) /\ Len(u) = 1 /\ u[1] = y
        OBVIOUS
    <1>2. p \in Seq(Byte) /\ Len(p) = 2 /\ p[1] = x /\ p[2] = y
        OBVIOUS
    <1> HIDE DEF t, u, p
    <1>3. /\ t \o u \in Seq(Byte) /\ Len(t \o u) = 2
          /\ (t \o u)[1] = x /\ (t \o u)[2] = y
        <2>1. /\ t \o u \in Seq(Byte) /\ Len(t \o u) = Len(t) + Len(u)
              /\ \A i \in 1..(Len(t) + Len(u)) : (t \o u)[i] = IF i <= Len(t) THEN t[i] ELSE u[i - Len(t)]
            BY <1>1, ConcatProperties
        <2> QED
            BY <1>1, <2>1
    <1> DEFINE z == t \o u
    <1>4. z \in Seq(Byte) /\ Len(z) = 2 /\ z[1] = x /\ z[2] = y
        BY <1>3
    <1> HIDE DEF z
    <1>5. z = p
        <2>1. \A i \in 1..Len(z) : z[i] = p[i]
            BY <1>2, <1>4
        <2> QED
            BY <1>2, <1>4, <2>1, SeqEqual
    <1> QED
        BY <1>5 DEF z, t, u, p

\* A tag may be split off.
LEMMA JoinTag ==
    \A x, f, a : x \in Byte /\ IsBytes(f) /\ IsBytes(a) =>
        /\ (<<x>> \o f) \o a = <<x>> \o (f \o a)
        /\ IsBytes(<<x>> \o f) /\ IsBytes(f \o a)
    <1> SUFFICES ASSUME NEW x \in Byte, NEW f, NEW a, IsBytes(f), IsBytes(a)
                 PROVE  /\ (<<x>> \o f) \o a = <<x>> \o (f \o a)
                        /\ IsBytes(<<x>> \o f) /\ IsBytes(f \o a)
        OBVIOUS
    <1> DEFINE t == <<x>>
    <1>1. t \in Seq(Byte) /\ f \in Seq(Byte) /\ a \in Seq(Byte)
        BY DEF IsBytes
    <1> HIDE DEF t
    <1>2. (t \o f) \o a = t \o (f \o a) /\ f \o a \in Seq(Byte) /\ t \o f \in Seq(Byte)
        BY <1>1, Regroup
    <1> QED
        BY <1>2 DEF t, IsBytes

\* The tag of an object, then the map.
LEMMA MapPut ==
    ASSUME NEW V, NEW put, NEW mean, Codes(V, put, mean), NEW map \in Map(V)
    PROVE  put_map(map, put) = <<TAG["object"]>> \o MapBytes(map, put) /\ IsBytes(MapBytes(map, put))
    <1> DEFINE keys == SortedKeys(map)
               n == Len(map)
               flat == FlattenSeq(EntryBytes(keys, put))
    <1>1. n \in Nat /\ n \in Fits /\ keys \in Seq(Bytes \X V) /\ Len(keys) = n /\ DOMAIN map = 1..n
        <2>1. keys \in Seq(Bytes \X V) /\ Len(keys) = n
            BY SortedKeysAre
        <2>2. n \in Nat /\ n \in Fits /\ DOMAIN map = 1..n
            BY DEF Map
        <2> QED
            BY <2>1, <2>2
    <1>2. EntryBytes(keys, put) \in [1..n -> Seq(Byte)]
        BY <1>1, EntriesAre
    <1>3. put_map(map, put) = (<<TAG["object"]>> \o Word(n)) \o flat
        BY <1>1, Zenon DEF put_map, EntryBytes
    <1> HIDE DEF keys, n
    <1>4. IsBytes(flat)
        <2> DEFINE A == EntryBytes(keys, put)
        <2>1. A \in [1..n -> Seq(Byte)]
            BY <1>2
        <2> HIDE DEF A
        <2>2. IsBytes(FlattenSeq(A))
            BY <1>1, <2>1, ListBytes
        <2> QED
            BY <2>2 DEF A
    <1>5. MapBytes(map, put) = Word(n) \o flat
        BY DEF MapBytes, keys, n
    <1> HIDE DEF flat
    <1>6. IsBytes(Word(n))
        BY <1>1, WordCoded, CodedBytes
    <1>7. TAG["object"] \in Byte
        BY TagsApart DEF Types
    <1> QED
        BY <1>3, <1>4, <1>5, <1>6, <1>7, JoinTag

\* What is put for an array.
ArrayBytes(a, put) == Word(Len(a)) \o FlattenSeq([i \in DOMAIN a |-> put[a[i]]])

\* The bytes of an array are a code of the list of what its values mean.
LEMMA ArrayCoded ==
    ASSUME NEW V, NEW put, NEW mean, Codes(V, put, mean),
           NEW a \in Seq(V), NEW b \in Seq(V), Len(a) \in Fits, Len(b) \in Fits
    PROVE  Coded(ArrayBytes(a, put), ArrayBytes(b, put),
                 [i \in DOMAIN a |-> mean[a[i]]], [i \in DOMAIN b |-> mean[b[i]]])
    <1> DEFINE m == Len(a)
               n == Len(b)
               A == [i \in DOMAIN a |-> put[a[i]]]
               B == [i \in DOMAIN b |-> put[b[i]]]
               M == [i \in DOMAIN a |-> mean[a[i]]]
               W == [i \in DOMAIN b |-> mean[b[i]]]
    <1>1. /\ m \in Nat /\ n \in Nat /\ m \in Fits /\ n \in Fits
          /\ DOMAIN a = 1..m /\ DOMAIN b = 1..n
        OBVIOUS
    <1>2. /\ \A i \in 1..m : a[i] \in V
          /\ \A i \in 1..n : b[i] \in V
        BY <1>1
    <1>3. /\ \A i \in 1..m : A[i] = put[a[i]] /\ M[i] = mean[a[i]]
          /\ \A i \in 1..n : B[i] = put[b[i]] /\ W[i] = mean[b[i]]
        BY <1>1
    <1>4. /\ \A i \in 1..m : put[a[i]] \in Seq(Byte)
          /\ \A i \in 1..n : put[b[i]] \in Seq(Byte)
        BY <1>2, CodedBytes DEF Codes, IsBytes
    <1>5. A \in [1..m -> Seq(Byte)] /\ B \in [1..n -> Seq(Byte)]
        BY <1>1, <1>4
    <1>6. M = [i \in 1..m |-> M[i]] /\ W = [i \in 1..n |-> W[i]]
        BY <1>1
    <1> HIDE DEF m, n, A, B, M, W
    <1>7. IsBytes(FlattenSeq(A)) /\ IsBytes(FlattenSeq(B))
        BY <1>1, <1>5, ListBytes
    <1>8. m = n => ListTold(n, A, B, M, W)
        <2> SUFFICES ASSUME m = n PROVE ListTold(n, A, B, M, W)
            OBVIOUS
        <2>1. \A i \in 1..n : Coded(put[a[i]], put[b[i]], mean[a[i]], mean[b[i]])
            BY <1>2 DEF Codes
        <2>2. \A i \in 1..n : Coded(A[i], B[i], M[i], W[i])
            BY <1>3, <2>1
        <2>3. AllCoded(n, A, B, M, W)
            BY <1>5, <2>2 DEF AllCoded
        <2> QED
            BY <1>1, <2>3, ListCoded
    <1>9. M = W <=> m = n /\ \A i \in 1..n : M[i] = W[i]
        <2>1. m = n /\ (\A i \in 1..n : M[i] = W[i]) => M = W
            BY <1>6
        <2>2. M = W => m = n
            <3> SUFFICES ASSUME M = W PROVE m = n
                OBVIOUS
            <3>1. DOMAIN M = 1..m /\ DOMAIN W = 1..n
                BY <1>6
            <3>2. 1..m = 1..n
                BY <3>1
            <3> QED
                BY <1>1, <3>2
        <2> QED
            BY <2>1, <2>2
    <1>10. Coded(Word(m), Word(n), m, n)
        BY <1>1, WordCoded
    <1>11. Joined(Word(m), Word(n), FlattenSeq(A), FlattenSeq(B))
        BY <1>7, <1>8, <1>10, JoinedApart DEF Coded, ListTold
    <1>12. ArrayBytes(a, put) = Word(m) \o FlattenSeq(A) /\ ArrayBytes(b, put) = Word(n) \o FlattenSeq(B)
        BY DEF ArrayBytes, m, n, A, B
    <1>13. Coded(ArrayBytes(a, put), ArrayBytes(b, put), M, W)
        BY <1>8, <1>9, <1>10, <1>11, <1>12, Zenon DEF Coded, Joined, ListTold
    <1> QED
        BY <1>13 DEF M, W

\* A number with the sign of its zero dropped fits a word.
LEMMA NumberFits ==
    ASSUME NEW V, NEW v, IsNode(V, v), v.type \in Numbers
    PROVE  Number(v) \in Fits
    BY Kinds, ZeroFits DEF IsKind, Numbers, Number

\* The byte of a bool is a code of it.
LEMMA FlagCoded == \A x, y : x \in {0, 1} /\ y \in {0, 1} => Coded(<<x>>, <<y>>, x, y)
    <1> SUFFICES ASSUME NEW x \in {0, 1}, NEW y \in {0, 1} PROVE Coded(<<x>>, <<y>>, x, y)
        OBVIOUS
    <1>1. x \in Byte /\ y \in Byte
        BY DEF Byte
    <1>2. /\ <<x>> \in Seq(Byte) /\ <<y>> \in Seq(Byte) /\ Len(<<x>>) = Len(<<y>>)
          /\ <<x>> = <<y>> <=> x = y
        BY <1>1
    <1> QED
        BY <1>2, SameLengthApart DEF Coded

\* Two values of one type are told apart by what follows the tag.
LEMMA RestCoded ==
    ASSUME NEW V, NEW put, NEW mean, Codes(V, put, mean),
           NEW v, NEW w, IsNode(V, v), IsNode(V, w), v.type = w.type
    PROVE  Coded(Rest(v, put), Rest(w, put), Said(v, mean), Said(w, mean))
    <1>0. /\ RestIs(v, put) /\ RestIs(w, put) /\ SaidIs(v, mean) /\ SaidIs(w, mean)
          /\ IsKind(V, v) /\ IsKind(V, w)
        BY Kinds, RestOf, SaidOf
    <1>1. CASE v.type = "null"
        <2>1. Rest(v, put) = <<>> /\ Rest(w, put) = <<>> /\ Said(v, mean) = Said(w, mean)
            BY <1>0, <1>1 DEF RestIs, SaidIs, IsKind
        <2>2. Apart(<<>>, <<>>)
            <3>1. <<>> \in Seq(Byte)
                OBVIOUS
            <3> QED
                BY <3>1, SameLengthApart
        <2> QED
            BY <2>1, <2>2 DEF Coded
    <1>2. CASE v.type = "bool"
        <2>1. /\ Rest(v, put) = <<v.is>> /\ Rest(w, put) = <<w.is>>
              /\ Said(v, mean) = v.is /\ Said(w, mean) = w.is
              /\ v.is \in {0, 1} /\ w.is \in {0, 1}
            BY <1>0, <1>2 DEF RestIs, SaidIs, IsKind
        <2> QED
            BY <2>1, FlagCoded
    <1>3. CASE v.type \in Numbers
        <2>1. /\ Rest(v, put) = Word(Number(v)) /\ Rest(w, put) = Word(Number(w))
              /\ Said(v, mean) = Number(v) /\ Said(w, mean) = Number(w)
            BY <1>0, <1>3 DEF RestIs, SaidIs, IsKind
        <2>2. Number(v) \in Fits /\ Number(w) \in Fits
            BY <1>3, NumberFits
        <2> QED
            BY <2>1, <2>2, WordCoded
    <1>4. CASE v.type = "str"
        <2>1. /\ Rest(v, put) = put_bytes(v.is) /\ Rest(w, put) = put_bytes(w.is)
              /\ Said(v, mean) = v.is /\ Said(w, mean) = w.is
              /\ v.is \in Bytes /\ w.is \in Bytes
            BY <1>0, <1>4 DEF RestIs, SaidIs, IsKind
        <2> QED
            BY <2>1, BytesCoded
    <1>5. CASE v.type = "array"
        <2>1. /\ Rest(v, put) = ArrayBytes(v.is, put) /\ Rest(w, put) = ArrayBytes(w.is, put)
              /\ Said(v, mean) = [i \in DOMAIN v.is |-> mean[v.is[i]]]
              /\ Said(w, mean) = [i \in DOMAIN w.is |-> mean[w.is[i]]]
            BY <1>0, <1>5 DEF RestIs, SaidIs, ArrayBytes
        <2>2. v.is \in Seq(V) /\ Len(v.is) \in Fits /\ w.is \in Seq(V) /\ Len(w.is) \in Fits
            BY <1>0, <1>5 DEF IsKind
        <2>3. Coded(ArrayBytes(v.is, put), ArrayBytes(w.is, put),
                    [i \in DOMAIN v.is |-> mean[v.is[i]]], [i \in DOMAIN w.is |-> mean[w.is[i]]])
            BY <2>2, ArrayCoded
        <2> QED
            BY <2>1, <2>3, Zenon
    <1>6. CASE v.type = "object"
        <2>1. /\ Rest(v, put) = MapBytes(v.is, put) /\ Rest(w, put) = MapBytes(w.is, put)
              /\ Said(v, mean) = MeaningOfMap(v.is, mean) /\ Said(w, mean) = MeaningOfMap(w.is, mean)
              /\ v.is \in Map(V) /\ w.is \in Map(V)
            BY <1>0, <1>6 DEF RestIs, SaidIs, IsKind
        <2> QED
            BY <2>1, MapCoded
    <1>7. v.type \in Types
        BY <1>0 DEF IsKind
    <1> QED
        BY <1>1, <1>2, <1>3, <1>4, <1>5, <1>6, <1>7 DEF Types, Numbers

\* A value is its tag and what follows.
LEMMA NodeOf ==
    ASSUME NEW V, NEW put, NEW mean, Codes(V, put, mean), NEW v, IsNode(V, v)
    PROVE  put_node(v, put) = <<TAG[v.type]>> \o Rest(v, put) /\ IsBytes(Rest(v, put))
    <1>0. RestIs(v, put) /\ PutIs(v, put) /\ IsKind(V, v)
        BY Kinds, RestOf, PutOf
    <1>1. IsBytes(Rest(v, put))
        BY RestCoded, CodedBytes
    <1>2. v.type \in Types /\ TAG[v.type] \in Byte
        BY <1>0, TagsApart DEF IsKind
    <1>3. CASE v.type = "null"
        <2>1. put_node(v, put) = <<TAG[v.type]>> /\ Rest(v, put) = <<>>
            BY <1>0, <1>3 DEF PutIs, RestIs
        <2> QED
            BY <1>1, <1>2, <2>1, JoinEmpty
    <1>4. CASE v.type = "bool"
        <2>1. put_node(v, put) = <<TAG[v.type], v.is>> /\ Rest(v, put) = <<v.is>>
            BY <1>0, <1>4 DEF PutIs, RestIs
        <2>2. v.is \in Byte
            BY <1>0, <1>4 DEF IsKind, Byte
        <2> QED
            BY <1>1, <1>2, <2>1, <2>2, JoinOne
    <1>5. CASE v.type \in Numbers
        <2>1. put_node(v, put) = put_number(v) /\ Rest(v, put) = Word(Number(v))
            BY <1>0, <1>5 DEF PutIs, RestIs
        <2>2. put_number(v) = <<TAG[v.type]>> \o Word(Number(v))
            BY DEF put_number, Number
        <2> QED
            BY <1>1, <2>1, <2>2
    <1>6. CASE v.type = "str"
        BY <1>0, <1>1, <1>6 DEF PutIs, RestIs
    <1>7. CASE v.type = "array"
        <2> DEFINE flat == FlattenSeq([i \in DOMAIN v.is |-> put[v.is[i]]])
        <2>1. put_node(v, put) = (<<TAG[v.type]>> \o Word(Len(v.is))) \o flat
            BY <1>0, <1>7 DEF PutIs
        <2>2. Rest(v, put) = Word(Len(v.is)) \o flat
            BY <1>0, <1>7 DEF RestIs
        <2>3. IsBytes(Word(Len(v.is)))
            BY <1>0, <1>7, WordCoded, CodedBytes DEF IsKind
        <2>4. IsBytes(flat)
            <3>1. v.is \in Seq(V)
                BY <1>0, <1>7 DEF IsKind
            <3>2. \A i \in 1..Len(v.is) : put[v.is[i]] \in Seq(Byte)
                BY <3>1, CodedBytes DEF Codes, IsBytes
            <3>3. DOMAIN v.is = 1..Len(v.is) /\ Len(v.is) \in Nat
                BY <3>1
            <3> DEFINE A == [i \in DOMAIN v.is |-> put[v.is[i]]]
            <3>4. A \in [1..Len(v.is) -> Seq(Byte)]
                BY <3>2, <3>3
            <3> HIDE DEF A
            <3>5. IsBytes(FlattenSeq(A))
                BY <3>3, <3>4, ListBytes
            <3> QED
                BY <3>5 DEF A
        <2> HIDE DEF flat
        <2> QED
            BY <1>1, <1>2, <2>1, <2>2, <2>3, <2>4, JoinTag
    <1>8. CASE v.type = "object"
        <2>1. put_node(v, put) = put_map(v.is, put) /\ Rest(v, put) = MapBytes(v.is, put) /\ v.is \in Map(V)
            BY <1>0, <1>8 DEF PutIs, RestIs, IsKind
        <2>2. put_map(v.is, put) = <<TAG[v.type]>> \o MapBytes(v.is, put)
            BY <1>8, <2>1, MapPut
        <2> QED
            BY <1>1, <2>1, <2>2
    <1> QED
        BY <1>2, <1>3, <1>4, <1>5, <1>6, <1>7, <1>8 DEF Types, Numbers

\* If nested values are put as codes, so is the value they are nested in.
LEMMA NodeCoded ==
    ASSUME NEW V, NEW put, NEW mean, Codes(V, put, mean),
           NEW v, NEW w, IsNode(V, v), IsNode(V, w)
    PROVE  Coded(put_node(v, put), put_node(w, put), MeaningOfNode(v, mean), MeaningOfNode(w, mean))
    <1>1. /\ put_node(v, put) = <<TAG[v.type]>> \o Rest(v, put) /\ IsBytes(Rest(v, put))
          /\ put_node(w, put) = <<TAG[w.type]>> \o Rest(w, put) /\ IsBytes(Rest(w, put))
        BY NodeOf
    <1>2. Coded(<<TAG[v.type]>>, <<TAG[w.type]>>, v.type, w.type)
        BY Kinds, TagCoded DEF IsKind
    <1>3. v.type = w.type => Coded(Rest(v, put), Rest(w, put), Said(v, mean), Said(w, mean))
        BY RestCoded
    <1>4. Coded(<<TAG[v.type]>> \o Rest(v, put), <<TAG[w.type]>> \o Rest(w, put),
                <<v.type, Said(v, mean)>>, <<w.type, Said(w, mean)>>)
        BY <1>1, <1>2, <1>3, CodedJoined
    <1> QED
        BY <1>1, <1>4, Zenon DEF MeaningOfNode

\* At the lowest depth nothing is nested.
LEMMA NothingCoded == Codes({}, <<>>, <<>>)
    BY DEF Codes

\* Values that nest n deep at most.
Deep(n) == Codes(Value[n], put_value[n], Meaning[n])

\* The recursive functions at one depth.
LEMMA DepthOf ==
    ASSUME NEW n \in 0..Depth
    PROVE  /\ Value[n] = IF n = 0 THEN Scalar ELSE Scalar \cup Nested(Value[n - 1])
           /\ \A v \in Value[n] :
                /\ put_value[n][v] = put_node(v, IF n = 0 THEN <<>> ELSE put_value[n - 1])
                /\ Meaning[n][v] = MeaningOfNode(v, IF n = 0 THEN <<>> ELSE Meaning[n - 1])
    <1>1. Value[n] = IF n = 0 THEN Scalar ELSE Scalar \cup Nested(Value[n - 1])
        BY ValueIs, Zenon
    <1>2. put_value[n] = [v \in Value[n] |-> put_node(v, IF n = 0 THEN <<>> ELSE put_value[n - 1])]
        BY put_valueIs, Zenon
    <1>3. Meaning[n] = [v \in Value[n] |-> MeaningOfNode(v, IF n = 0 THEN <<>> ELSE Meaning[n - 1])]
        BY MeaningIs, Zenon
    <1> QED
        BY <1>1, <1>2, <1>3, Zenon

\* Values of every depth are put as codes.
LEMMA DeepCoded == \A n \in 0..Depth : Deep(n)
    <1> DEFINE G == {n \in Nat : n <= Depth => Deep(n)}
    <1>1. 0 \in G
        <2>1. 0 \in 0..Depth
            BY ContentAssumption
        <2>2. /\ Value[0] = Scalar
              /\ \A v \in Value[0] : /\ put_value[0][v] = put_node(v, <<>>)
                                     /\ Meaning[0][v] = MeaningOfNode(v, <<>>)
            BY <2>1, DepthOf
        <2>3. ASSUME NEW v \in Value[0], NEW w \in Value[0]
              PROVE  Coded(put_node(v, <<>>), put_node(w, <<>>), MeaningOfNode(v, <<>>), MeaningOfNode(w, <<>>))
            <3>1. IsNode({}, v) /\ IsNode({}, w)
                BY <2>2, <2>3, Zenon DEF IsNode
            <3> QED
                BY <3>1, NothingCoded, NodeCoded
        <2>4. Deep(0)
            BY <2>2, <2>3, Zenon DEF Deep, Codes
        <2> HIDE DEF Deep
        <2> QED
            BY <2>4
    <1>2. ASSUME NEW n \in G PROVE n + 1 \in G
        <2>1. SUFFICES ASSUME n + 1 <= Depth PROVE Deep(n + 1)
            OBVIOUS
        <2> DEFINE k == n + 1
        <2>2. k \in 0..Depth /\ k - 1 = n /\ k # 0 /\ Deep(n)
            BY <2>1, ContentAssumption
        <2> HIDE DEF k
        <2>3. /\ Value[k] = Scalar \cup Nested(Value[n])
              /\ \A v \in Value[k] : /\ put_value[k][v] = put_node(v, put_value[n])
                                     /\ Meaning[k][v] = MeaningOfNode(v, Meaning[n])
            BY <2>2, DepthOf
        <2>4. ASSUME NEW v \in Value[k], NEW w \in Value[k]
              PROVE  Coded(put_node(v, put_value[n]), put_node(w, put_value[n]),
                           MeaningOfNode(v, Meaning[n]), MeaningOfNode(w, Meaning[n]))
            <3>1. IsNode(Value[n], v) /\ IsNode(Value[n], w)
                BY <2>3, <2>4, Zenon DEF IsNode
            <3>2. Codes(Value[n], put_value[n], Meaning[n])
                BY <2>2 DEF Deep
            <3> QED
                BY <3>1, <3>2, NodeCoded
        <2>5. Deep(k)
            BY <2>3, <2>4, Zenon DEF Deep, Codes
        <2> QED
            BY <2>5 DEF k
    <1>3. G = Nat
        <2>1. G \in SUBSET Nat
            OBVIOUS
        <2> HIDE DEF G
        <2> QED
            BY <1>1, <1>2, <2>1, UpFromZero
    <1> QED
        BY <1>3, ContentAssumption

\* The values of a measurement are put as codes.
LEMMA ValuesCoded == Codes(Value[Depth], put_value[Depth], Meaning[Depth])
    BY DeepCoded, ContentAssumption DEF Deep

-----------------------------------------------------------------------------
(* Measurements and series.                                                *)
LEMMA TaggedCoded ==
    ASSUME NEW V, NEW put, NEW mean, Codes(V, put, mean), NEW a \in Map(V), NEW b \in Map(V)
    PROVE  Coded(put_map(a, put), put_map(b, put), MeaningOfMap(a, mean), MeaningOfMap(b, mean))
    <1>1. /\ put_map(a, put) = <<TAG["object"]>> \o MapBytes(a, put) /\ IsBytes(MapBytes(a, put))
          /\ put_map(b, put) = <<TAG["object"]>> \o MapBytes(b, put) /\ IsBytes(MapBytes(b, put))
        BY MapPut
    <1>2. Coded(MapBytes(a, put), MapBytes(b, put), MeaningOfMap(a, mean), MeaningOfMap(b, mean))
        BY MapCoded
    <1>3. Coded(<<TAG["object"]>>, <<TAG["object"]>>, "object", "object")
        BY TagCoded DEF Types
    <1>4. Joined(<<TAG["object"]>>, <<TAG["object"]>>, MapBytes(a, put), MapBytes(b, put))
        BY <1>1, <1>2, <1>3, JoinedApart DEF Coded
    <1> QED
        BY <1>1, <1>2, <1>4, Zenon DEF Coded, Joined

\* Whether there is a body, and what it is.
BodyContent(body) == IF body = <<>> THEN <<>> ELSE <<Meaning[Depth][body[1]]>>
Bodies == {<<>>} \cup [{1} -> Value[Depth]]

\* So is a body, absent or present.
LEMMA BodyCoded ==
    ASSUME NEW a \in Bodies, NEW b \in Bodies
    PROVE  Coded(put_body(a), put_body(b), BodyContent(a), BodyContent(b))
    <1> DEFINE Told(x) == IF x = <<>> THEN 0 ELSE 1
               TagOf(x) == IF x = <<>> THEN TAG_BODY_ABSENT ELSE TAG_BODY_PRESENT
               RestOfBody(x) == IF x = <<>> THEN <<>> ELSE put_value[Depth][x[1]]
    <1>1. \A x \in Bodies : x # <<>> => x[1] \in Value[Depth]
        BY DEF Bodies
    <1>2. ASSUME NEW x \in Bodies
          PROVE  put_body(x) = <<TagOf(x)>> \o RestOfBody(x) /\ IsBytes(RestOfBody(x))
        <2>1. CASE x = <<>>
            <3>1. put_body(x) = <<TAG_BODY_ABSENT>> /\ RestOfBody(x) = <<>>
                BY <2>1 DEF put_body
            <3>2. TAG_BODY_ABSENT \in Byte /\ IsBytes(<<>>)
                BY DEF TAG_BODY_ABSENT, Byte, IsBytes
            <3> QED
                BY <2>1, <3>1, <3>2, JoinEmpty
        <2>2. CASE x # <<>>
            <3>1. IsBytes(put_value[Depth][x[1]])
                BY <1>1, <2>2, ValuesCoded, CodedBytes DEF Codes
            <3> QED
                BY <2>2, <3>1 DEF put_body
        <2> QED
            BY <2>1, <2>2
    <1>3. Coded(<<TagOf(a)>>, <<TagOf(b)>>, Told(a), Told(b))
        <2> DEFINE x == TagOf(a)
                   y == TagOf(b)
        <2>1. x \in Byte /\ y \in Byte /\ (x = y <=> Told(a) = Told(b))
            BY DEF TAG_BODY_ABSENT, TAG_BODY_PRESENT, Byte
        <2> HIDE DEF x, y, Told
        <2>2. /\ <<x>> \in Seq(Byte) /\ <<y>> \in Seq(Byte) /\ Len(<<x>>) = Len(<<y>>)
              /\ <<x>> = <<y>> <=> x = y
            BY <2>1
        <2>3. Apart(<<x>>, <<y>>)
            BY <2>2, SameLengthApart
        <2> QED
            BY <2>1, <2>2, <2>3 DEF Coded, x, y
    <1>4. Told(a) = Told(b) => Coded(RestOfBody(a), RestOfBody(b), BodyContent(a), BodyContent(b))
        <2>1. CASE a = <<>> /\ b = <<>>
            <3>1. Apart(<<>>, <<>>)
                <4>1. <<>> \in Seq(Byte)
                    OBVIOUS
                <4> QED
                    BY <4>1, SameLengthApart
            <3> QED
                BY <2>1, <3>1 DEF Coded
        <2>2. CASE a # <<>> /\ b # <<>>
            <3>1. Coded(put_value[Depth][a[1]], put_value[Depth][b[1]],
                        Meaning[Depth][a[1]], Meaning[Depth][b[1]])
                BY <1>1, <2>2, ValuesCoded DEF Codes
            <3> DEFINE m == Meaning[Depth][a[1]]
                       n == Meaning[Depth][b[1]]
            <3>2. BodyContent(a) = <<m>> /\ BodyContent(b) = <<n>>
                BY <2>2 DEF BodyContent
            <3>3. <<m>> = <<n>> <=> m = n
                OBVIOUS
            <3>4. Coded(RestOfBody(a), RestOfBody(b), m, n)
                BY <2>2, <3>1
            <3> QED
                BY <3>2, <3>3, <3>4 DEF Coded
        <2> QED
            BY <2>1, <2>2
    <1>5. Told(a) # Told(b) => BodyContent(a) # BodyContent(b)
        BY DEF BodyContent
    <1>6. /\ put_body(a) = <<TagOf(a)>> \o RestOfBody(a) /\ IsBytes(RestOfBody(a))
          /\ put_body(b) = <<TagOf(b)>> \o RestOfBody(b) /\ IsBytes(RestOfBody(b))
        BY <1>2
    <1> HIDE DEF Told, TagOf, RestOfBody
    <1>7. Joined(<<TagOf(a)>>, <<TagOf(b)>>, RestOfBody(a), RestOfBody(b))
        BY <1>3, <1>4, <1>6, JoinedApart DEF Coded
    <1>8. BodyContent(a) = BodyContent(b) <=>
            Told(a) = Told(b) /\ RestOfBody(a) = RestOfBody(b)
        BY <1>4, <1>5 DEF Coded
    <1> QED
        BY <1>3, <1>6, <1>7, <1>8, Zenon DEF Coded, Joined

\* The parts of a measurement.
LEMMA PartsOf ==
    ASSUME NEW m \in Measurement
    PROVE  /\ m.time \in Fits /\ m.kind \in Bytes /\ m.body \in Bodies
           /\ m.attributes \in Map(Value[Depth])
    BY DEF Measurement, Bodies

\* What comes first in an id is the same for all.
LEMMA DomainCoded ==
    /\ Coded(DOMAIN_MEASUREMENT, DOMAIN_MEASUREMENT, 0, 0)
    /\ Coded(DOMAIN_SERIES, DOMAIN_SERIES, 0, 0)
    <1>1. DOMAIN_MEASUREMENT \in Seq(Byte) /\ DOMAIN_SERIES \in Seq(Byte)
        BY DEF DOMAIN_MEASUREMENT, DOMAIN_SERIES, Byte
    <1> QED
        BY <1>1, SameLengthApart DEF Coded

\* Two measurements: each part is told from the other's.
LEMMA PartsCoded ==
    ASSUME NEW p \in Measurement, NEW q \in Measurement
    PROVE  /\ Coded(Word(p.time), Word(q.time), p.time, q.time)
           /\ Coded(put_bytes(p.kind), put_bytes(q.kind), p.kind, q.kind)
           /\ Coded(put_body(p.body), put_body(q.body), BodyContent(p.body), BodyContent(q.body))
           /\ Coded(put_map(p.attributes, put_value[Depth]), put_map(q.attributes, put_value[Depth]),
                    MeaningOfMap(p.attributes, Meaning[Depth]), MeaningOfMap(q.attributes, Meaning[Depth]))
    <1>1. /\ p.time \in Fits /\ p.kind \in Bytes /\ p.body \in Bodies
          /\ p.attributes \in Map(Value[Depth])
        BY PartsOf
    <1>2. /\ q.time \in Fits /\ q.kind \in Bytes /\ q.body \in Bodies
          /\ q.attributes \in Map(Value[Depth])
        BY PartsOf
    <1>3. Coded(Word(p.time), Word(q.time), p.time, q.time)
        BY <1>1, <1>2, WordCoded
    <1>4. Coded(put_bytes(p.kind), put_bytes(q.kind), p.kind, q.kind)
        BY <1>1, <1>2, BytesCoded
    <1>5. Coded(put_body(p.body), put_body(q.body), BodyContent(p.body), BodyContent(q.body))
        BY <1>1, <1>2, BodyCoded
    <1>6. Coded(put_map(p.attributes, put_value[Depth]), put_map(q.attributes, put_value[Depth]),
                MeaningOfMap(p.attributes, Meaning[Depth]), MeaningOfMap(q.attributes, Meaning[Depth]))
        BY <1>1, <1>2, ValuesCoded, TaggedCoded
    <1> QED
        BY <1>3, <1>4, <1>5, <1>6

\* Whatever was sent.
LEMMA SeriesIdTells ==
    ASSUME NEW p \in Measurement, NEW q \in Measurement
    PROVE  series_id(p) = series_id(q) <=> SeriesContent(p) = SeriesContent(q)
    <1> DEFINE kp == put_bytes(p.kind)
               kq == put_bytes(q.kind)
               ap == put_map(p.attributes, put_value[Depth])
               aq == put_map(q.attributes, put_value[Depth])
               mp == MeaningOfMap(p.attributes, Meaning[Depth])
               mq == MeaningOfMap(q.attributes, Meaning[Depth])
               D == DOMAIN_SERIES
               k == p.kind
               l == q.kind
    <1>1. Coded(kp, kq, k, l) /\ Coded(ap, aq, mp, mq)
        BY PartsCoded
    <1>2. Coded(D, D, 0, 0)
        BY DomainCoded
    <1>3. series_id(p) = (D \o kp) \o ap /\ series_id(q) = (D \o kq) \o aq
        BY Zenon DEF series_id
    <1>4. SeriesContent(p) = <<k, mp>> /\ SeriesContent(q) = <<l, mq>>
        BY Zenon DEF SeriesContent
    <1> HIDE DEF kp, kq, ap, aq, mp, mq, D, k, l
    <1>5. IsBytes(kp) /\ IsBytes(kq) /\ IsBytes(ap) /\ IsBytes(aq)
        BY <1>1, CodedBytes
    <1>6. Coded(D \o kp, D \o kq, <<0, k>>, <<0, l>>)
        BY <1>1, <1>2, <1>5, CodedJoined
    <1>7. Coded((D \o kp) \o ap, (D \o kq) \o aq, <<<<0, k>>, mp>>, <<<<0, l>>, mq>>)
        BY <1>1, <1>5, <1>6, CodedJoined
    <1>8. <<<<0, k>>, mp>> = <<<<0, l>>, mq>> <=> <<k, mp>> = <<l, mq>>
        OBVIOUS
    <1> QED
        BY <1>3, <1>4, <1>7, <1>8, Zenon DEF Coded

\* The id of a measurement tells its content.
LEMMA ContentIdTells ==
    ASSUME NEW p \in Measurement, NEW q \in Measurement
    PROVE  content_id(p) = content_id(q) <=> MeasurementContent(p) = MeasurementContent(q)
    <1> DEFINE tp == Word(p.time)
               tq == Word(q.time)
               kp == put_bytes(p.kind)
               kq == put_bytes(q.kind)
               bp == put_body(p.body)
               bq == put_body(q.body)
               ap == put_map(p.attributes, put_value[Depth])
               aq == put_map(q.attributes, put_value[Depth])
               t == p.time
               u == q.time
               k == p.kind
               l == q.kind
               x == BodyContent(p.body)
               y == BodyContent(q.body)
               mp == MeaningOfMap(p.attributes, Meaning[Depth])
               mq == MeaningOfMap(q.attributes, Meaning[Depth])
               D == DOMAIN_MEASUREMENT
    <1>1. Coded(tp, tq, t, u) /\ Coded(kp, kq, k, l) /\ Coded(bp, bq, x, y) /\ Coded(ap, aq, mp, mq)
        BY PartsCoded
    <1>2. Coded(D, D, 0, 0)
        BY DomainCoded
    <1>3. /\ content_id(p) = (((D \o tp) \o kp) \o bp) \o ap
          /\ content_id(q) = (((D \o tq) \o kq) \o bq) \o aq
        BY Zenon DEF content_id
    <1>4. MeasurementContent(p) = <<t, <<k, mp>>, x>> /\ MeasurementContent(q) = <<u, <<l, mq>>, y>>
        BY Zenon DEF MeasurementContent, SeriesContent, BodyContent
    <1> HIDE DEF tp, tq, kp, kq, bp, bq, ap, aq, t, u, k, l, x, y, mp, mq, D
    <1>5. /\ IsBytes(tp) /\ IsBytes(tq) /\ IsBytes(kp) /\ IsBytes(kq)
          /\ IsBytes(bp) /\ IsBytes(bq) /\ IsBytes(ap) /\ IsBytes(aq)
        BY <1>1, CodedBytes
    <1>6. Coded(D \o tp, D \o tq, <<0, t>>, <<0, u>>)
        BY <1>1, <1>2, <1>5, CodedJoined
    <1>7. Coded((D \o tp) \o kp, (D \o tq) \o kq, <<<<0, t>>, k>>, <<<<0, u>>, l>>)
        BY <1>1, <1>5, <1>6, CodedJoined
    <1>8. Coded(((D \o tp) \o kp) \o bp, ((D \o tq) \o kq) \o bq,
                <<<<<<0, t>>, k>>, x>>, <<<<<<0, u>>, l>>, y>>)
        BY <1>1, <1>5, <1>7, CodedJoined
    <1>9. Coded((((D \o tp) \o kp) \o bp) \o ap, (((D \o tq) \o kq) \o bq) \o aq,
                <<<<<<<<0, t>>, k>>, x>>, mp>>, <<<<<<<<0, u>>, l>>, y>>, mq>>)
        BY <1>1, <1>5, <1>8, CodedJoined
    <1>10. <<<<<<<<0, t>>, k>>, x>>, mp>> = <<<<<<<<0, u>>, l>>, y>>, mq>>
             <=> <<t, <<k, mp>>, x>> = <<u, <<l, mq>>, y>>
        OBVIOUS
    <1> QED
        BY <1>3, <1>4, <1>9, <1>10, Zenon DEF Coded

\* The ids of what was sent tell it apart as its contents do.
LEMMA IdsAreFaithful == Faithful
    <1>1. Sent \subseteq Measurement
        BY ContentAssumption
    <1>2. \A m, n \in Sent : content_id(m) = content_id(n) <=> MeasurementContent(m) = MeasurementContent(n)
        BY <1>1, ContentIdTells
    <1>3. \A m, n \in Sent : series_id(m) = series_id(n) <=> SeriesContent(m) = SeriesContent(n)
        BY <1>1, SeriesIdTells
    <1>4. OneToOne({<<content_id(m), MeasurementContent(m)>> : m \in Sent})
        BY <1>2 DEF OneToOne
    <1>5. OneToOne({<<series_id(m), SeriesContent(m)>> : m \in Sent})
        BY <1>3 DEF OneToOne
    <1> QED
        BY <1>4, <1>5 DEF Faithful

\* Two measurements have one id, and one series, exactly when the device said the same in
\* both, in whatever order its keys came.
THEOREM StoreIdsFollowContent == Spec => []IdsFollowContent
    <1>1. IdsFollowContent
        BY IdsAreFaithful DEF IdsFollowContent
    <1> QED
        BY <1>1, PTL
=============================================================================
