----------------------------- MODULE StoreWriter -----------------------------
(***************************************************************************)
(* How the receiver stores measurements: the handlers of POST /v1/logs     *)
(* (api/ingest.rs, otlp/convert.rs), the one writer task with its queue    *)
(* and its transactions (store/write.rs, store/series.rs), and the         *)
(* shutdown that drains it (main.rs). Clients repeat batches at will; a    *)
(* process may be killed, and the machine may lose power.                  *)
(*                                                                         *)
(* A record is what a device sent: equal records have equal content ids    *)
(* (content_id.rs), whatever the time they arrive.                         *)
(***************************************************************************)
EXTENDS ContentId, FiniteSets

CONSTANTS
    Handlers, NoHandler,    \* requests in flight at once
    Batches, NoBatch,   \* what clients send
    Records,            \* what batches are made of
    Content,            \* per batch: its records in order
    Refused,            \* records without an event name or a timestamp
    SeriesOf,           \* per record: its type and attributes
    EventTime,          \* per record: the device's stamp
    Times,              \* readings of the server's clock, in any order
    QueueCapacity,      \* the writer's channel holds 64
    WritesMayFail,      \* whether a statement or a commit may fail
    MaxRequests,        \* bound: requests in a behaviour
    MaxStarts,          \* bound: starts of the receiver
    MaxPowerLosses      \* bound: power losses of the machine

ASSUME BatchesAssumption ==
    /\ NoHandler \notin Handlers /\ NoBatch \notin Batches /\ IsFiniteSet(Records)
    /\ Content \in [Batches -> Seq(Records)] /\ Refused \subseteq Records
    /\ DOMAIN SeriesOf = Records /\ EventTime \in [Records -> Int] /\ Times \subseteq Int
ASSUME StoreConfigAssumption ==
    /\ QueueCapacity \in Nat \ {0} /\ WritesMayFail \in BOOLEAN
    /\ MaxRequests \in Nat /\ MaxStarts \in Nat /\ MaxPowerLosses \in Nat

VARIABLES
    up,                 \* "down", "serving", "stopping" or "draining"
    handler,            \* per handler: where it is, its batch, its processed_time
    queue,              \* WriteRequests in the channel
    wpc, request, at,   \* the writer: where it is, with what, at which record
    added, deltas,      \* its open transaction: rows inserted, series folded
    result,             \* what it will reply
    rows, series,       \* the tables, as last committed
    wal,                \* what was committed since the last checkpoint, in order
    requests, starts, losses,   \* counters of bounds
    acked,              \* history: batches answered 200 before any power loss
    failed              \* history: batches whose write failed or was lost

tables == <<rows, series>>
writer == <<wpc, request, at, added, deltas, result>>
counters == <<requests, starts, losses>>
history == <<acked, failed>>
vars == <<up, handler, queue, writer, tables, wal, counters, history>>

Empty == [x \in {} |-> 0]
Committed == [rows |-> rows, series |-> series]
Free == [pc |-> "idle", batch |-> NoBatch, ptime |-> 0]
NoRequest == [batch |-> NoBatch, ptime |-> 0, reply |-> NoHandler]

-----------------------------------------------------------------------------
(* Pure parts.                                                             *)

\* to_measurements: what is not accepted is counted and left out. A measurement
\* is the place its record has in the batch, which keeps their order.
Measurements(b) == {i \in DOMAIN Content[b] : Content[b][i] \notin Refused}
RecordsOf(b) == {Content[b][i] : i \in Measurements(b)}

\* Delta::single, Delta::merge
Single(r, ptime) ==
    [added |-> 1, emin |-> EventTime[r], emax |-> EventTime[r],
                  pmin |-> ptime, pmax |-> ptime]
Lesser(a, b) == IF a <= b THEN a ELSE b
Greater(a, b) == IF a <= b THEN b ELSE a
Merge(a, b) ==
    [added |-> a.added + b.added,
     emin |-> Lesser(a.emin, b.emin), emax |-> Greater(a.emax, b.emax),
     pmin |-> Lesser(a.pmin, b.pmin), pmax |-> Greater(a.pmax, b.pmax)]

\* A map with more contributions: the table with the batch's (`upsert`), the
\* batch's with one record's (`accumulate`).
Upsert(table, more) ==
    [x \in DOMAIN table \cup DOMAIN more |->
        IF x \notin DOMAIN more THEN table[x]
        ELSE IF x \in DOMAIN table THEN Merge(table[x], more[x]) ELSE more[x]]

\* The rows with those the transaction wrote.
Inserted(table, more) ==
    [r \in DOMAIN table \cup DOMAIN more |->
        IF r \in DOMAIN more THEN more[r] ELSE table[r]]

-----------------------------------------------------------------------------
IdleWriter ==
    /\ wpc' = "idle" /\ request' = NoRequest /\ at' = 0
    /\ added' = Empty /\ deltas' = Empty /\ result' = "none"

Init ==
    /\ up = "down" /\ handler = [h \in Handlers |-> Free] /\ queue = <<>>
    /\ wpc = "idle" /\ request = NoRequest /\ at = 0
    /\ added = Empty /\ deltas = Empty /\ result = "none"
    /\ rows = Empty /\ series = Empty
    /\ wal = <<Committed>>
    /\ requests = 0 /\ starts = 0 /\ losses = 0
    /\ acked = {} /\ failed = {}

Start ==
    /\ up = "down" /\ starts < MaxStarts
    /\ up' = "serving" /\ starts' = starts + 1
    /\ UNCHANGED <<handler, queue, writer, tables, wal, requests, losses, history>>

\* Everything only memory held is gone; the log of the database is not.
Gone ==
    /\ up' = "down" /\ handler' = [h \in Handlers |-> Free] /\ queue' = <<>>
    /\ IdleWriter
    /\ failed' = failed \cup ({q.batch : q \in ToSet(queue) \cup {request}} \ {NoBatch})

Crash ==
    /\ up # "down"
    /\ Gone
    /\ UNCHANGED <<tables, wal, counters, acked>>

\* synchronous = NORMAL: what was committed since the checkpoint may go, the
\* later before the earlier.
PowerLoss ==
    /\ losses < MaxPowerLosses
    /\ losses' = losses + 1
    /\ Gone
    /\ \E n \in 1..Len(wal) :
        /\ wal' = SubSeq(wal, 1, n)
        /\ rows' = wal[n].rows /\ series' = wal[n].series
    /\ acked' = {}
    /\ UNCHANGED <<requests, starts>>

\* SQLite moves the log into the database now and then.
Checkpoint ==
    /\ up # "down" /\ Len(wal) > 1
    /\ wal' = <<Committed>>
    /\ UNCHANGED <<up, handler, queue, writer, tables, counters, history>>

-----------------------------------------------------------------------------
(* The handlers.                                                           *)

\* processed_time is read first, and the body awaited after.
Begin(h, b) ==
    /\ up = "serving" /\ handler[h].pc = "idle" /\ requests < MaxRequests
    /\ requests' = requests + 1
    /\ \E t \in Times :
        handler' = [handler EXCEPT ![h] = [pc |-> "receiving", batch |-> b, ptime |-> t]]
    /\ UNCHANGED <<up, queue, writer, tables, wal, starts, losses, history>>

\* The body is there and decodes: one with nothing to store is answered at once.
\* (A body that is refused frees the handler as `Disconnect` does.)
Decode(h) ==
    /\ handler[h].pc = "receiving"
    /\ \/ /\ Measurements(handler[h].batch) = {}
          /\ acked' = acked \cup {handler[h].batch}
          /\ handler' = [handler EXCEPT ![h] = Free]
       \/ /\ Measurements(handler[h].batch) # {}
          /\ handler' = [handler EXCEPT ![h].pc = "sending"]
          /\ UNCHANGED acked
    /\ UNCHANGED <<up, queue, writer, tables, wal, counters, failed>>

HasRoom == Len(queue) < QueueCapacity

\* Writer::write, up to its await of the reply
Enqueue(h) ==
    /\ handler[h].pc = "sending" /\ HasRoom
    /\ queue' = Append(queue, [batch |-> handler[h].batch, ptime |-> handler[h].ptime,
                               reply |-> h])
    /\ handler' = [handler EXCEPT ![h].pc = "waiting"]
    /\ UNCHANGED <<up, writer, tables, wal, counters, history>>

\* The client goes away: its future is dropped, and the reply's receiver with it.
Disconnect(h) ==
    /\ handler[h].pc # "idle"
    /\ handler' = [handler EXCEPT ![h] = Free]
    /\ queue' = [i \in DOMAIN queue |->
                    IF queue[i].reply = h THEN [queue[i] EXCEPT !.reply = NoHandler]
                    ELSE queue[i]]
    /\ request' = IF request.reply = h THEN [request EXCEPT !.reply = NoHandler] ELSE request
    /\ UNCHANGED <<up, wpc, at, added, deltas, result, tables, wal, counters, history>>

-----------------------------------------------------------------------------
(* The writer: insert_batch, a record a step.                              *)

Take ==
    /\ wpc = "idle" /\ queue # <<>>
    /\ request' = Head(queue) /\ queue' = Tail(queue)
    /\ wpc' = "inserting" /\ at' = 0
    /\ UNCHANGED <<up, handler, added, deltas, result, tables, wal, counters, history>>

Left == {i \in Measurements(request.batch) : i > at}
Stored == DOMAIN rows \cup DOMAIN added

Count(r) ==
    deltas' = Upsert(deltas, [s \in {SeriesOf[r]} |-> Single(r, request.ptime)])
Store(r) == added' = Inserted(added, [x \in {r} |-> request.ptime])

\* Mutation of Insert: folded into the series before the insert says it is new.
CountAndInsert(r) ==
    /\ Count(r)
    /\ IF r \in Stored THEN UNCHANGED added ELSE Store(r)
\* INSERT OR IGNORE, and `accumulate` only if a row was stored.
Insert(r) ==
    \/ r \in Stored /\ UNCHANGED <<added, deltas>>
    \/ r \notin Stored /\ Store(r) /\ Count(r)

InsertNext ==
    /\ wpc = "inserting"
    /\ \E i \in Left :
        /\ \A j \in Left : i <= j
        /\ Insert(Content[request.batch][i])
        /\ at' = i
    /\ UNCHANGED <<up, handler, queue, wpc, request, result, tables, wal, counters, history>>

Commit ==
    /\ wpc = "inserting" /\ Left = {}
    /\ rows' = Inserted(rows, added)
    /\ series' = Upsert(series, deltas)
    /\ wal' = Append(wal, Committed')
    /\ wpc' = "reply" /\ result' = "ok" /\ added' = Empty /\ deltas' = Empty
    /\ UNCHANGED <<up, handler, queue, request, at, counters, history>>

\* Mutation of Fails: what was inserted so far is committed.
FailsHalfWay ==
    /\ rows' = Inserted(rows, added)
    /\ series' = Upsert(series, deltas)
    /\ wal' = Append(wal, Committed')
\* The transaction is dropped, which rolls it back.
RollsBack == UNCHANGED <<tables, wal>>

Fails ==
    /\ WritesMayFail /\ wpc = "inserting"
    /\ RollsBack
    /\ wpc' = "reply" /\ result' = "error" /\ added' = Empty /\ deltas' = Empty
    /\ failed' = failed \cup {request.batch}
    /\ UNCHANGED <<up, handler, queue, request, at, counters, acked>>

\* Mutation of AnswerOf: the batch was taken, that is enough.
AnswerTaken(outcome) == 200
AnswerOf(outcome) == IF outcome = "ok" THEN 200 ELSE 503

\* The reply, if anyone still waits for it, and the answer of the handler.
Reply ==
    /\ wpc = "reply"
    /\ handler' = [h \in Handlers |-> IF h = request.reply THEN Free ELSE handler[h]]
    /\ acked' = IF request.reply # NoHandler /\ AnswerOf(result) = 200
                THEN acked \cup {request.batch} ELSE acked
    /\ IdleWriter
    /\ UNCHANGED <<up, queue, tables, wal, counters, failed>>

-----------------------------------------------------------------------------
(* Shutdown.                                                               *)

Terminate ==
    /\ up = "serving"
    /\ up' = "stopping"
    /\ UNCHANGED <<handler, queue, writer, tables, wal, counters, history>>

\* serve() has returned: no request is in flight. The last Writer is dropped.
\* Mutation of LastWriterDropped: main waits for the task before it drops its own.
WriterKept == FALSE
LastWriterDropped == \A h \in Handlers : handler[h].pc = "idle"

DropWriter ==
    /\ up = "stopping" /\ LastWriterDropped
    /\ up' = "draining"
    /\ UNCHANGED <<handler, queue, writer, tables, wal, counters, history>>

\* Mutation of Drained: main does not wait for the writer.
NotAwaited == TRUE
Drained == wpc = "idle" /\ queue = <<>>

\* The channel is closed and empty: the writer checkpoints, if it can, and ends.
Exit ==
    /\ up = "draining" /\ Drained
    /\ up' = "down"
    /\ wal' \in {wal, <<Committed>>}
    /\ queue' = <<>> /\ IdleWriter
    /\ UNCHANGED <<handler, tables, counters, history>>

-----------------------------------------------------------------------------
WriterRuns == Take \/ InsertNext \/ Commit \/ Reply

Next ==
    \/ Start \/ Crash \/ PowerLoss \/ Checkpoint
    \/ \E h \in Handlers :
        \/ \E b \in Batches : Begin(h, b)
        \/ Decode(h) \/ Enqueue(h) \/ Disconnect(h)
    \/ Take \/ InsertNext \/ Commit \/ Fails \/ Reply
    \/ Terminate \/ DropWriter \/ Exit

Spec == Init /\ [][Next]_vars

\* The writer is a thread of its own; permits of the channel are handed out in
\* the order they were asked for; main runs to its end once told to stop.
Fairness ==
    /\ WF_vars(WriterRuns)
    /\ \A h \in Handlers : SF_vars(Enqueue(h))
    /\ WF_vars(DropWriter) /\ WF_vars(Exit)

FairSpec == Spec /\ Fairness

-----------------------------------------------------------------------------
(* What the store promises.                                                *)

Delta == [added : Nat, emin : Int, emax : Int, pmin : Int, pmax : Int]
Working == [pc : {"receiving", "sending", "waiting"}, batch : Batches, ptime : Times]
Request == [batch : Batches, ptime : Times, reply : Handlers \cup {NoHandler}]
IsTable(table) == DOMAIN table \subseteq Records /\ table \in [DOMAIN table -> Times]
IsCounts(counts) == counts \in [DOMAIN counts -> Delta]
IsCommit(c) ==
    c = [rows |-> c.rows, series |-> c.series] /\ IsTable(c.rows) /\ IsCounts(c.series)

HandlersOK ==
    /\ up \in {"down", "serving", "stopping", "draining"}
    /\ handler \in [Handlers -> Working \cup {Free}]
QueueOK == queue \in Seq(Request) /\ Len(queue) <= QueueCapacity
WriterOK ==
    /\ wpc \in {"idle", "inserting", "reply"} /\ at \in Nat
    /\ request \in (IF wpc = "idle" THEN {NoRequest} ELSE Request) /\ result \in {"none", "ok", "error"}
    /\ IsTable(added) /\ IsCounts(deltas)
TablesOK ==
    /\ IsTable(rows) /\ IsCounts(series)
    /\ wal \in Seq(ToSet(wal)) /\ wal # <<>> /\ Last(wal) = Committed
    /\ \A c \in ToSet(wal) : IsCommit(c)
HistoryOK ==
    /\ requests \in 0..MaxRequests /\ starts \in 0..MaxStarts
    /\ losses \in 0..MaxPowerLosses
    /\ acked \subseteq Batches /\ failed \subseteq Batches

\* Every variable has its type, the channel never holds more than its capacity,
\* and what is committed is what the log ends with.
TypeOK == HandlersOK /\ QueueOK /\ WriterOK /\ TablesOK /\ HistoryOK

\* "a measurement can never be stored uncounted or counted unstored" (write.rs):
\* for every series with rows, and for no other, the count and the extents are
\* those of its rows, over repeats, failures, kills and power losses.
Members(table, s) == {r \in DOMAIN table : SeriesOf[r] = s}
IsLeast(x, set) == x \in set /\ \A y \in set : x <= y
IsGreatest(x, set) == x \in set /\ \A y \in set : y <= x
Summarises(delta, table, members) ==
    LET events == {EventTime[r] : r \in members}
        arrivals == {table[r] : r \in members}
    IN  /\ delta.added = Cardinality(members)
        /\ IsLeast(delta.emin, events) /\ IsGreatest(delta.emax, events)
        /\ IsLeast(delta.pmin, arrivals) /\ IsGreatest(delta.pmax, arrivals)
Exact(table, counts) ==
    /\ DOMAIN counts = {SeriesOf[r] : r \in DOMAIN table}
    /\ \A s \in DOMAIN counts : Summarises(counts[s], table, Members(table, s))
SeriesExact == Exact(rows, series)

\* A 200 is only answered for what is committed, and a killed process keeps it:
\* "the HTTP response reflects what actually happened" (write.rs).
AcknowledgedIsStored ==
    \A b \in acked : RecordsOf(b) \subseteq DOMAIN rows

\* The tables hold batches whole: no failure, kill or power loss leaves a part.
Whole(table) ==
    \A r \in DOMAIN table : \E b \in Batches :
        r \in RecordsOf(b) /\ RecordsOf(b) \subseteq DOMAIN table
BatchesWhole == Whole(rows)

\* "first arrival wins" (write.rs, tests): a row is never written again.
FirstArrivalKept ==
    [][\A r \in DOMAIN rows \cap DOMAIN rows' : rows'[r] = rows[r]]_vars

\* What reached the writer is stored, though the client may be gone and the
\* process stopping: unless its write fails or the process is killed.
QueuedIsStored ==
    \A b \in Batches :
        (\E i \in DOMAIN queue : queue[i].batch = b) ~>
            b \in failed \/ RecordsOf(b) \subseteq DOMAIN rows

\* A receiver told to stop does, once the requests whose bodies were under way
\* are in or gone: no wait for a reply and no handle of the writer keeps it.
StopEnds ==
    up = "stopping" /\ (\A h \in Handlers : handler[h].pc # "receiving") ~> up = "down"

\* Rows and series are found again by their ids: two records have one id, or one series,
\* exactly when the device said the same of them, in whatever order. Otherwise INSERT OR
\* IGNORE would drop a record the store has not, or keep a repeated one twice.
IdsFollowContent == DOMAIN rows # {} => Faithful
=============================================================================
