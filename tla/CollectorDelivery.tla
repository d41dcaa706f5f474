-------------------------- MODULE CollectorDelivery --------------------------
(***************************************************************************)
(* The delivery path of mp-collector: FlushTask in runtime.rs, with the    *)
(* Buffer, the Spool and the outbox it owns, the inbox the HTTP handlers   *)
(* fill, the clock verdict it reads, and the ends a process can come to    *)
(* (graceful stop, abandoned drain, crash, power loss) and restart from.   *)
(*                                                                         *)
(* A batch is its arrival number. What the properties tell apart about its *)
(* content is the correction baked into it when it leaves for the outbox.  *)
(***************************************************************************)
EXTENDS Integers, SequencesExt

CONSTANTS
    InboxCapacity,      \* depth of the mpsc channel Handle::accept feeds
    BufferMaxRecords,   \* config.buffer_max_records: cap of buffer AND outbox
    BufferMaxBytes,     \* config.buffer_max_bytes
    Records, Bytes,     \* per batch: tally.total() and the encoded size
    Boots,              \* boot ids, ordered as their directory names sort
    Faults,             \* the I/O faults that may happen
    MaxBatches,         \* bound: batches accepted in one behaviour
    MaxStarts,          \* bound: starts of the collector process
    MaxSteps,           \* bound: steps of the realtime clock
    MaxHealth,          \* bound: health events queued
    MaxLostAnswers      \* bound: deliveries whose answer never comes back

Batch == 1..MaxBatches

\* "write", "list", "read", "unlink", "retire": the file operation of that
\* name in spool.rs can fail. "torn": a power cut can leave a file unreadable.
FaultKinds == {"write", "list", "read", "unlink", "retire", "torn"}

ASSUME CapacitiesAssumption ==
    /\ InboxCapacity \in Nat \ {0}
    /\ BufferMaxRecords \in Nat \ {0}
    /\ BufferMaxBytes \in Nat
ASSUME BoundsAssumption ==
    /\ MaxBatches \in Nat /\ MaxStarts \in Nat /\ MaxSteps \in Nat
    /\ MaxHealth \in Nat /\ MaxLostAnswers \in Nat
ASSUME SizesAssumption ==
    /\ Records \in [Batch -> Nat]
    /\ Bytes \in [Batch -> Nat]
ASSUME BootsAssumption == Boots \subseteq Nat \ {0} /\ Boots # {}
ASSUME FaultsAssumption == Faults \subseteq FaultKinds

\* A correction is the offset it projects with: which boot observed it, after
\* how many steps. NoCorrection is apply_correction with `correction: None`:
\* the records keep their own stamps and are marked mp.clock.uncertain.
NoCorrection == [boot |-> 0, step |-> 0]
Correction == [boot : Boots, step : 0..MaxSteps]
Mark == Correction \cup {NoCorrection}

Health == 0                                \* a self-metric, not a batch
Entry == [batch : Batch \cup {Health}, mark : Mark]
File == [boot : Boots, seq : Nat, batch : Batch, intact : BOOLEAN]

VARIABLES
    disk,       \* files under <state_dir>/spool, all boots
    boot,       \* the running machine's boot id
    unused,     \* boot ids not yet drawn
    steps,      \* how often the clock stepped this boot
    http,       \* "serving" until a signal closes the socket
    clock,      \* what the watch channel shows of ClockState, and its sender
    inbox,      \* the mpsc channel between accept and the flush task
    buffer, spilling, nextSeq, spoolDirty, holding,    \* InFlight
    outbox, retry,                                     \* InFlight, delivery
    pc, final, frozen, todo, attempt,                  \* where cycle() is
    starts, health, lostAnswers,                       \* counters of bounds
    bornIn, received, shed                             \* history

machine == <<disk, boot, unused, steps>>
front == <<http, inbox, bornIn>>
flow == <<buffer, spilling, nextSeq, spoolDirty, holding, outbox, retry>>
control == <<pc, final, frozen, todo, attempt>>
counters == <<starts, health, lostAnswers>>
history == <<received, shed>>
vars == <<machine, front, clock, flow, control, counters, history>>

Accepted == 1..Len(bornIn)
Received == {received[i].batch : i \in DOMAIN received}
OwnFiles(files) == {f \in files : f.boot = boot}

-----------------------------------------------------------------------------
(* The process: start, stop, crash.                                        *)

FreshClock == [running |-> TRUE, ever |-> FALSE]

\* Mutation of EmptyHanded: a new process takes its spool to be empty.
EmptyHandedClean ==
    /\ inbox' = <<>> /\ buffer' = <<>> /\ spilling' = <<>> /\ outbox' = <<>>
    /\ spoolDirty' = FALSE /\ holding' = "none" /\ retry' = "none"
    /\ final' = FALSE /\ todo' = {} /\ attempt' = TRUE /\ frozen' = NoCorrection
    /\ clock' = FreshClock
\* What a process holds in memory before it has done anything, and once gone.
EmptyHanded ==
    /\ inbox' = <<>> /\ buffer' = <<>> /\ spilling' = <<>> /\ outbox' = <<>>
    /\ spoolDirty' = TRUE /\ holding' = "none" /\ retry' = "none"
    /\ final' = FALSE /\ todo' = {} /\ attempt' = TRUE /\ frozen' = NoCorrection
    /\ clock' = FreshClock

Init ==
    /\ disk = {} /\ boot \in Boots /\ unused = Boots \ {boot} /\ steps = 0
    /\ http = "closed" /\ inbox = <<>> /\ bornIn = <<>>
    /\ clock = FreshClock
    /\ buffer = <<>> /\ spilling = <<>> /\ nextSeq = 0 /\ spoolDirty = TRUE
    /\ holding = "none" /\ outbox = <<>> /\ retry = "none"
    /\ pc = "down" /\ final = FALSE /\ frozen = NoCorrection
    /\ todo = {} /\ attempt = TRUE
    /\ starts = 0 /\ health = 0 /\ lostAnswers = 0
    /\ received = <<>> /\ shed = {}

\* Mutation of ResumesAfter: every process starts its sequence at zero.
ResumesAtZero(n, files) == n = 0

\* Spool::open: n is the first free number after what this boot left on disk.
ResumesAfter(n, files) == n \in Nat /\ \A f \in files : f.seq < n

\* build() and the head of FlushTask::run. Whether the clock was ever good is
\* not persisted: every process starts out not knowing.
Start ==
    /\ pc = "down" /\ starts < MaxStarts
    /\ EmptyHanded
    /\ \E n \in {0} \cup {f.seq + 1 : f \in OwnFiles(disk)} :
        ResumesAfter(n, OwnFiles(disk)) /\ nextSeq' = n
    /\ http' = "serving"
    /\ pc' = "select"
    /\ starts' = starts + 1
    /\ UNCHANGED <<machine, bornIn, health, lostAnswers, history>>

\* Spool::open fails: the flush task returns at once, unnoticed until main
\* awaits it, and every batch is refused.
StartWithoutSpool ==
    /\ pc = "down" /\ starts < MaxStarts /\ "list" \in Faults
    /\ EmptyHanded
    /\ http' = "serving"
    /\ pc' = "done"
    /\ starts' = starts + 1
    /\ UNCHANGED <<machine, nextSeq, bornIn, health, lostAnswers, history>>

\* The process is gone and with it everything it held in memory.
Gone ==
    /\ pc # "down"
    /\ EmptyHanded
    /\ http' = "closed"
    /\ nextSeq' = 0
    /\ pc' = "down"
    /\ UNCHANGED <<bornIn, counters, history>>

Crash == Gone /\ UNCHANGED machine

\* SIGTERM: axum finishes the requests in flight and drops the senders.
Shutdown ==
    /\ pc # "down" /\ http = "serving"
    /\ http' = "closed"
    /\ UNCHANGED <<machine, inbox, bornIn, clock, flow, control, counters, history>>

\* main then aborts the clock task, which drops the sender of the watch.
AbortClock ==
    /\ pc # "down" /\ http = "closed" /\ clock.running
    /\ clock' = [clock EXCEPT !.running = FALSE]
    /\ UNCHANGED <<machine, front, flow, control, counters, history>>

\* ...and waits for the flush task, ten seconds at most.
MainExits ==
    /\ pc = "done" /\ ~clock.running
    /\ Gone /\ UNCHANGED machine
MainGivesUp ==
    /\ pc # "done" /\ http = "closed" /\ ~clock.running
    /\ Gone /\ UNCHANGED machine

\* The machine loses power or reboots: a new boot id, and files the file
\* system had not written back may be unreadable.
PowerLoss ==
    /\ \E b \in unused :
        /\ boot' = b
        /\ unused' = unused \ {b}
    /\ \E torn \in SUBSET disk :
        /\ torn # {} => "torn" \in Faults
        /\ disk' = (disk \ torn) \cup {[f EXCEPT !.intact = FALSE] : f \in torn}
    /\ steps' = 0
    /\ IF pc = "down"
       THEN UNCHANGED <<front, clock, flow, control, counters, history>>
       ELSE Gone

-----------------------------------------------------------------------------
(* The HTTP handlers and the clock task, as the flush task sees them.      *)

\* Mutation of HasRoom: the channel takes one more than its depth.
HasRoomForOneMore == Len(inbox) <= InboxCapacity
HasRoom == Len(inbox) < InboxCapacity

\* Handle::accept: try_send. A full inbox is refused with a 503, and so is
\* everything once the flush task has returned: neither changes the state.
Accept ==
    /\ pc \notin {"down", "done"} /\ http = "serving"
    /\ HasRoom
    /\ Len(bornIn) < MaxBatches
    /\ inbox' = Append(inbox, Len(bornIn) + 1)
    /\ bornIn' = Append(bornIn, boot)
    /\ UNCHANGED <<machine, http, clock, flow, control, counters, history>>

\* ClockTask::on_poll with `released`: ever_synchronized is sticky. A poll sets
\* sync_source only together with it, so that alone decides below (ClockTask
\* models the polls).
Release ==
    /\ pc # "down" /\ clock.running /\ ~clock.ever
    /\ clock' = [clock EXCEPT !.ever = TRUE]
    /\ UNCHANGED <<machine, front, flow, control, counters, history>>

\* ClockTask::on_step: the active offset is another one from here on.
ClockStep ==
    /\ pc # "down" /\ clock.running /\ steps < MaxSteps
    /\ steps' = steps + 1
    /\ UNCHANGED <<disk, boot, unused, front, clock, flow, control, counters, history>>

\* buffer_timeout since the hold began; the backoff since the last failure.
HoldExpires ==
    /\ holding = "waiting"
    /\ holding' = "overdue"
    /\ UNCHANGED <<machine, front, clock, buffer, spilling, nextSeq, spoolDirty,
                   outbox, retry, control, counters, history>>
RetryFallsDue ==
    /\ retry = "waiting"
    /\ retry' = "due"
    /\ UNCHANGED <<machine, front, clock, buffer, spilling, nextSeq, spoolDirty,
                   holding, outbox, control, counters, history>>

-----------------------------------------------------------------------------
(* FlushTask::run, the select! loop.                                       *)

Total(weight, queue) == FoldSeq(LAMBDA b, sum : weight[b] + sum, 0, queue)
OverCapacity(queue) ==
    \/ Total(Records, queue) > BufferMaxRecords
    \/ Total(Bytes, queue) > BufferMaxBytes
DropFirst(queue, n) == SubSeq(queue, n + 1, Len(queue))

\* Buffer::push: the n oldest go until the rest fits, the last one stays.
Push(queue, n) ==
    /\ \A k \in 0..n-1 : OverCapacity(DropFirst(queue, k))
    /\ n < Len(queue) - 1 => ~OverCapacity(DropFirst(queue, n))
    /\ buffer' = DropFirst(queue, n)
    /\ spilling' = SubSeq(queue, 1, n)

DirtyAfter(spilled) == spoolDirty \/ spilled # <<>>

Receive ==
    /\ pc = "select" /\ inbox # <<>>
    /\ inbox' = Tail(inbox)
    /\ LET queue == Append(buffer, Head(inbox)) IN
        \E n \in 0..Len(queue) - 1 : Push(queue, n)
    /\ holding' = IF holding = "none" THEN "waiting" ELSE holding
    /\ spoolDirty' = DirtyAfter(spilling')
    /\ pc' = "cycle"
    /\ UNCHANGED <<machine, http, bornIn, clock, nextSeq, outbox, retry, final,
                   frozen, todo, attempt, counters, history>>

\* Spool::write for one evicted batch. A failure is logged and the batch gone.
Spill ==
    /\ pc = "cycle" /\ spilling # <<>>
    /\ spilling' = Tail(spilling)
    /\ \/ /\ disk' = {f \in disk : f.boot # boot \/ f.seq # nextSeq}
                     \cup {[boot |-> boot, seq |-> nextSeq,
                            batch |-> Head(spilling), intact |-> TRUE]}
          /\ nextSeq' = nextSeq + 1
       \/ /\ "write" \in Faults
          /\ UNCHANGED <<disk, nextSeq>>
    /\ UNCHANGED <<boot, unused, steps, front, clock, buffer, spoolDirty, holding,
                   outbox, retry, control, counters, history>>

\* The grace tick, and a change on the watch: nothing but a reason to cycle.
Wake ==
    /\ pc = "select"
    /\ pc' = "cycle"
    /\ UNCHANGED <<machine, front, clock, flow, final, frozen, todo, attempt,
                   counters, history>>

\* emit_health: straight to the outbox, once the clock has been good.
EmitHealth ==
    /\ pc = "select" /\ clock.ever /\ health < MaxHealth
    /\ outbox' = Append(outbox, [batch |-> Health, mark |-> NoCorrection])
    /\ health' = health + 1
    /\ pc' = "cycle"
    /\ UNCHANGED <<machine, front, clock, buffer, spilling, nextSeq, spoolDirty,
                   holding, retry, final, frozen, todo, attempt, starts,
                   lostAnswers, history>>

\* The loop breaks when the inbox is closed and empty, or when the watch has
\* lost its sender; whichever arm select! polls first. One cycle remains.
Break ==
    /\ pc = "select"
    /\ \/ http = "closed" /\ inbox = <<>>
       \/ ~clock.running
    /\ retry' = "none"
    /\ final' = TRUE
    /\ pc' = "cycle"
    /\ UNCHANGED <<machine, front, clock, buffer, spilling, nextSeq, spoolDirty,
                   holding, outbox, frozen, todo, attempt, counters, history>>

-----------------------------------------------------------------------------
(* FlushTask::cycle.                                                       *)

\* decide() on one snapshot of the clock; buffer_timeout is not zero.
Decision ==
    IF clock.ever THEN "Flush"
    ELSE IF holding = "overdue" THEN "FlushUncertain"
    ELSE "Hold"

\* Mutation of BackoffOver: only a delivery that never failed is attempted.
NeverFailed == retry = "none"
BackoffOver == retry # "waiting"

Decide ==
    /\ pc = "cycle" /\ spilling = <<>>
    /\ attempt' = BackoffOver
    /\ IF Decision # "Hold" /\ (buffer # <<>> \/ spoolDirty)
       THEN /\ pc' = "read"
            /\ frozen' = IF Decision = "Flush" THEN [boot |-> boot, step |-> steps]
                         ELSE NoCorrection
            /\ holding' = "none"
       ELSE /\ pc' = "deliver"
            /\ UNCHANGED <<frozen, holding>>
    /\ UNCHANGED <<machine, front, clock, buffer, spilling, nextSeq, spoolDirty,
                   outbox, retry, final, todo, counters, history>>

\* Spool::read_all: a file that cannot be read or decoded is removed and
\* skipped; a directory that cannot be listed fails the whole read.
ReadSpool ==
    /\ pc = "read"
    /\ pc' = "correct"
    /\ \/ \E bad \in SUBSET disk, stuck \in SUBSET disk :
            /\ {f \in disk : ~f.intact} \subseteq bad
            /\ (\E f \in bad : f.intact) => "read" \in Faults
            /\ stuck \subseteq bad /\ (stuck # {} => "unlink" \in Faults)
            /\ todo' = disk \ bad
            /\ disk' = (disk \ bad) \cup stuck
       \/ /\ "list" \in Faults
          /\ UNCHANGED <<todo, disk>>
    /\ UNCHANGED <<boot, unused, steps, front, clock, flow, final, frozen, attempt,
                   counters, history>>

\* Mutation of Before: a directory listed as read_dir happens to return it.
BeforeReversed(f, g) == f.seq > g.seq

\* The order of read_all: this boot's files first, directories by name, files
\* by sequence number.
Before(f, g) ==
    IF f.boot = g.boot THEN f.seq < g.seq
    ELSE f.boot = boot \/ (g.boot # boot /\ f.boot < g.boot)

\* Mutation of MarkFor: a previous boot's batch is projected like the others.
MarkForAnyBoot(f) == frozen
\* What another boot resolved has no offset in this one to be projected with.
MarkFor(f) == IF f.boot = boot THEN frozen ELSE NoCorrection

\* One spooled batch is corrected, queued, and its file removed.
ShipSpooled ==
    /\ pc = "correct"
    /\ \E f \in todo :
        /\ \A g \in todo \ {f} : Before(f, g)
        /\ outbox' = Append(outbox, [batch |-> f.batch, mark |-> MarkFor(f)])
        /\ todo' = todo \ {f}
        /\ \/ disk' = disk \ {f}
           \/ "unlink" \in Faults /\ UNCHANGED disk
    /\ UNCHANGED <<boot, unused, steps, front, clock, buffer, spilling, nextSeq,
                   spoolDirty, holding, retry, pc, final, frozen, attempt,
                   counters, history>>

Corrected(queue) == [i \in 1..Len(queue) |-> [batch |-> queue[i], mark |-> frozen]]

\* saturating_sub, against a bound counted in batches here.
Excess(n) == IF n > BufferMaxRecords THEN n - BufferMaxRecords ELSE 0

\* Mutation of Keep: the newest entries are shed.
KeepOldest(all, n) == SubSeq(all, 1, Len(all) - n)
Keep(all, n) == DropFirst(all, n)

\* The rest of correct_into_outbox: drain the buffer, retire the directories of
\* other boots, forget the spool, shed what exceeds the bound from the front.
ShipBuffer ==
    /\ pc = "correct" /\ todo = {}
    /\ LET all == outbox \o Corrected(buffer)
           excess == Excess(Len(all))
       IN  /\ outbox' = Keep(all, excess)
           /\ shed' = shed \cup ({all[i].batch : i \in 1..excess} \ {Health})
    /\ buffer' = <<>>
    /\ \E kept \in SUBSET (disk \ OwnFiles(disk)) :
        /\ kept # {} => Faults \cap {"list", "retire"} # {}
        /\ disk' = OwnFiles(disk) \cup kept
    /\ spoolDirty' = FALSE
    /\ frozen' = NoCorrection
    /\ pc' = "deliver"
    /\ UNCHANGED <<boot, unused, steps, front, clock, spilling, nextSeq, holding,
                   retry, final, todo, attempt, counters, received>>

\* deliver() returns: still backing off, or nothing left to send.
EndCycle ==
    /\ pc' = IF final THEN "done" ELSE "select"
    /\ attempt' = TRUE
Rest ==
    /\ pc = "deliver" /\ (~attempt \/ outbox = <<>>)
    /\ EndCycle
    /\ UNCHANGED <<machine, front, clock, flow, final, frozen, todo, counters, history>>

Sending == pc = "deliver" /\ attempt /\ outbox # <<>>
\* Mutation of Arrives: each attempt projects with the offset of the moment.
ArrivesReprojected ==
    received' = IF Head(outbox).batch = Health THEN received
                ELSE Append(received, [batch |-> Head(outbox).batch,
                                       mark |-> [boot |-> boot, step |-> steps]])
Arrives ==
    received' = IF Head(outbox).batch = Health THEN received
                ELSE Append(received, Head(outbox))

SendSucceeds ==
    /\ Sending
    /\ Arrives
    /\ outbox' = Tail(outbox)
    /\ retry' = "none"
    /\ UNCHANGED <<machine, front, clock, buffer, spilling, nextSeq, spoolDirty,
                   holding, control, counters, shed>>

\* Mutation of SendFails: a failed batch is taken off the queue.
SendFailsAndDrops ==
    /\ Sending
    /\ retry' = "waiting"
    /\ outbox' = Tail(outbox)
    /\ EndCycle
    /\ UNCHANGED <<machine, front, clock, buffer, spilling, nextSeq, spoolDirty,
                   holding, final, frozen, todo, counters, history>>

\* Mutation of SendFails: deliver() keeps trying instead of returning.
SendFailsAndRetries ==
    /\ Sending
    /\ retry' = "waiting"
    /\ UNCHANGED <<machine, front, clock, buffer, spilling, nextSeq, spoolDirty,
                   holding, outbox, control, counters, history>>

\* Refused, unreachable or timed out: the batch stays at the front.
SendFails ==
    /\ Sending
    /\ retry' = "waiting"
    /\ EndCycle
    /\ UNCHANGED <<machine, front, clock, buffer, spilling, nextSeq, spoolDirty,
                   holding, outbox, final, frozen, todo, counters, history>>

\* The receiver took the batch and its answer did not make it back in time.
AnswerIsLost ==
    /\ Sending /\ lostAnswers < MaxLostAnswers
    /\ Arrives
    /\ lostAnswers' = lostAnswers + 1
    /\ retry' = "waiting"
    /\ EndCycle
    /\ UNCHANGED <<machine, front, clock, buffer, spilling, nextSeq, spoolDirty,
                   holding, outbox, final, frozen, todo, starts, health, shed>>

-----------------------------------------------------------------------------
Next ==
    \/ Start \/ StartWithoutSpool \/ Crash \/ Shutdown \/ AbortClock
    \/ MainExits \/ MainGivesUp \/ PowerLoss
    \/ Accept \/ Release \/ ClockStep \/ HoldExpires \/ RetryFallsDue
    \/ Receive \/ Spill \/ Wake \/ EmitHealth \/ Break
    \/ Decide \/ ReadSpool \/ ShipSpooled \/ ShipBuffer
    \/ Rest \/ SendSucceeds \/ SendFails \/ AnswerIsLost

Spec == Init /\ [][Next]_vars

\* select! polls its ready arms in random order, so none starves; a cycle runs
\* to its end; the timeout and the backoff pass with time. Nothing is assumed of
\* the applications, of the clock becoming good, or of the receiver.
FlushRuns ==
    /\ SF_vars(Receive) /\ SF_vars(Wake) /\ SF_vars(Break)
    /\ WF_vars(Spill) /\ WF_vars(Decide)
    /\ WF_vars(ReadSpool) /\ WF_vars(ShipSpooled) /\ WF_vars(ShipBuffer)
    /\ WF_vars(Rest \/ SendSucceeds \/ SendFails \/ AnswerIsLost)
    /\ WF_vars(HoldExpires) /\ WF_vars(RetryFallsDue)

\* Once the server has stopped, main goes through its last lines.
MainStops == WF_vars(AbortClock) /\ WF_vars(MainExits \/ MainGivesUp)

\* The receiver is not down for good: of the attempts made again and again,
\* one succeeds.
ReceiverRecovers == SF_vars(SendSucceeds)

FairSpec == Spec /\ FlushRuns /\ MainStops

-----------------------------------------------------------------------------
(* What the delivery path promises.                                        *)

MachineOK ==
    /\ disk \subseteq File
    /\ boot \in Boots /\ unused \subseteq Boots /\ steps \in 0..MaxSteps
FrontOK ==
    /\ http \in {"serving", "closed"}
    /\ clock \in [running : BOOLEAN, ever : BOOLEAN]
    /\ inbox \in Seq(Batch) /\ Len(inbox) <= InboxCapacity
    /\ bornIn \in Seq(Boots) /\ Len(bornIn) <= MaxBatches
FlowOK ==
    /\ buffer \in Seq(Batch) /\ spilling \in Seq(Batch)
    /\ nextSeq \in Nat /\ spoolDirty \in BOOLEAN
    /\ holding \in {"none", "waiting", "overdue"}
    /\ outbox \in Seq(Entry) /\ retry \in {"none", "waiting", "due"}
ControlOK ==
    /\ pc \in {"down", "select", "cycle", "read", "correct", "deliver", "done"}
    /\ final \in BOOLEAN /\ attempt \in BOOLEAN
    /\ frozen \in Mark /\ todo \subseteq File
HistoryOK ==
    /\ starts \in 0..MaxStarts /\ health \in 0..MaxHealth
    /\ lostAnswers \in 0..MaxLostAnswers
    /\ received \in Seq([batch : Batch, mark : Mark])
    /\ shed \subseteq Batch

\* Every variable has its type, and the inbox never exceeds the depth of the
\* channel build() makes (runtime.rs).
TypeOK == MachineOK /\ FrontOK /\ FlowOK /\ ControlOK /\ HistoryOK

Queued(q) == {q[i].batch : i \in DOMAIN q} \ {Health}
InHand == ToSet(inbox) \cup ToSet(buffer) \cup ToSet(spilling) \cup Queued(outbox)
          \cup {f.batch : f \in {g \in disk : g.intact}}

StatusOf(b) ==
    IF b \notin Accepted THEN "unseen"
    ELSE IF b \in Received THEN "received"
    ELSE IF b \in InHand THEN "held"
    ELSE "dropped"
Contract == INSTANCE DeliveryContract WITH
    status <- [b \in Batch |-> StatusOf(b)],
    counted <- shed,
    running <- pc # "down"

\* The delivery path keeps the contract: every step of buffer, spool, outbox
\* and shutdown is a step of DeliveryContract or invisible to it.
KeepsContract == Contract!Spec

\* While the process runs, a batch it answered 200 for leaves its hands only to
\* the receiver or by being shed and counted: across eviction, spilling, the
\* spool's sequence after a restart, correction and retries (runtime.rs).
NoSilentLoss ==
    [][pc' # "down" =>
         InHand \ InHand' \subseteq Received' \cup shed']_vars

\* The receiver sees the batches of one boot in the order they arrived, though
\* they wait in four places and survive restarts in one (runtime.rs: "shipping
\* them first preserves order"). A lost answer repeats one, and nothing else.
DeliveredInArrivalOrder ==
    \A i, j \in DOMAIN received :
        i < j /\ bornIn[received[i].batch] = bornIn[received[j].batch]
            => received[i].batch <= received[j].batch

\* Two deliveries of one batch are identical, whatever the clock did between
\* them, so the receiver's content hash recognises the second (runtime.rs).
FrozenCorrection ==
    \A i, j \in DOMAIN received :
        received[i].batch = received[j].batch => received[i].mark = received[j].mark

\* No batch is ever projected with an offset of another boot than the one whose
\* boottime it carries (design 8.4), wherever it waited in between.
OwnOffset(e) == e.mark # NoCorrection => e.mark.boot = bornIn[e.batch]
OwnOffsetOnly ==
    \A e \in ToSet(received) \cup {x \in ToSet(outbox) : x.batch # Health} :
        OwnOffset(e)

\* What is shed is older than every batch of its boot that is kept.
ShedsOldest ==
    [][\A b \in shed' \ shed, k \in Queued(outbox') :
         bornIn[b] = bornIn[k] => b < k]_vars

\* If the receiver recovers, a batch that this process answered 200 for is delivered or
\* shed in the end, unless its process ends first: whatever the clock does, since the hold
\* has a timeout. Once the clock is good, so is what an earlier process left on disk, of
\* this boot or another: it is not stranded by a flag that says that nothing is there
\* (runtime.rs, spool_dirty), over spills, restarts, reboots and torn files.
EventuallyShipped ==
    ReceiverRecovers => \A b \in Batch :
        b \in ToSet(inbox) \/ (b \in InHand /\ clock.ever) ~>
            (b \in Received \/ b \in shed \/ pc = "down")

\* A receiver that never answers does not stop the inbox from being emptied:
\* the 503 of a full inbox passes (the reason for the backoff, retry.rs).
InboxEmpties ==
    Len(inbox) = InboxCapacity ~> Len(inbox) < InboxCapacity

(* What the comments of the code say beyond that, and TLC finds broken.     *)

\* "Its run loop ends when the inbox closes" (main.rs): the flush task returns
\* with nothing left of what the handlers answered 200 for.
InboxDrainedAtStop == pc = "done" => inbox = <<>>

=============================================================================
