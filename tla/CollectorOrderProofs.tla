------------------------- MODULE CollectorOrderProofs -------------------------
(***************************************************************************)
(* Order in CollectorDelivery, for every capacity, set of boots and bound: *)
(* as long as the spool can be listed and its files deleted, batches of    *)
(* one boot arrive in order, the oldest are shed first, and a batch that   *)
(* goes out twice is the same both times.                                  *)
(***************************************************************************)
EXTENDS CollectorDeliveryProofs

-----------------------------------------------------------------------------
(* Order. The invariant lines up the five places: of one boot's batches,   *)
(* whatever is further on is older. A file that stays behind when it could *)
(* not be deleted, or a spool that is passed over because its directory    *)
(* could not be listed, would break the line.                              *)

SpoolInLine == Faults \cap {"list", "unlink"} = {}

QueuesInOrder ==
    /\ Ascending(bornIn, inbox) /\ Ascending(bornIn, buffer) /\ Ascending(bornIn, spilling)
    /\ EntriesAscending(bornIn, outbox)
FilesInOrder ==
    \A f, g \in disk : f.boot = g.boot =>
        /\ f.seq < g.seq => f.batch < g.batch
        /\ f.seq = g.seq => f = g
StagesInOrder ==
    /\ Ahead(bornIn, Queued(outbox), Filed \cup Memory)
    /\ Ahead(bornIn, Filed, Memory)
    /\ Ahead(bornIn, ToSet(spilling), ToSet(buffer) \cup ToSet(inbox))
    /\ Ahead(bornIn, ToSet(buffer), ToSet(inbox))
\* Nothing that still waits is older than what the receiver has.
ReceivedFirst ==
    \A i \in 1..Len(received), b \in Waiting :
        bornIn[received[i].batch] = bornIn[b] => received[i].batch <= b
AllToDo == pc = "correct" => disk = todo
Phases == NumberIsFree /\ EvictedFirst /\ AllToDo /\ NothingWhenDown
InOrder == QueuesInOrder /\ FilesInOrder /\ StagesInOrder /\ ReceivedFirst
           /\ DeliveredInArrivalOrder /\ Phases

LEMMA NothingAscends ==
    ASSUME NEW born
    PROVE  /\ Ascending(born, <<>>) /\ EntriesAscending(born, <<>>)
           /\ \A S : Ahead(born, {}, S) /\ Ahead(born, S, {})
    BY NothingQueued DEF Ascending, EntriesAscending, Ahead

\* Of nothing, everything is in order.
LEMMA EmptyInOrder ==
    ASSUME inbox' = <<>>, buffer' = <<>>, spilling' = <<>>, outbox' = <<>>
    PROVE  QueuesInOrder' /\ StagesInOrder' /\ Waiting' = Filed'
    <1>1. Memory' = {} /\ Queued(outbox') = {}
        BY NothingQueued DEF Memory
    <1> QED BY <1>1, NothingAscends, NothingQueued
            DEF QueuesInOrder, StagesInOrder, Waiting

LEMMA InitInOrder == Init => InOrder
    <1> SUFFICES ASSUME Init PROVE InOrder
        OBVIOUS
    <1>1. Memory = {} /\ Filed = {} /\ Queued(outbox) = {} /\ Waiting = {}
        BY NothingQueued DEF Init, Memory, Filed, Waiting
    <1>4. QueuesInOrder /\ StagesInOrder
        BY <1>1, NothingAscends, NothingQueued DEF Init, QueuesInOrder, StagesInOrder
    <1>2. FilesInOrder /\ Phases
        BY DEF Init, FilesInOrder, Phases, NumberIsFree, EvictedFirst, AllToDo,
           NothingWhenDown
    <1>3. ReceivedFirst /\ DeliveredInArrivalOrder
        BY <1>1 DEF Init, ReceivedFirst, DeliveredInArrivalOrder
    <1> QED BY <1>2, <1>3, <1>4 DEF InOrder

\* What a step that receives and delivers nothing does to the line: what is not in
\* the outbox shrinks, and what joins the outbox comes from there.
Moves ==
    /\ UNCHANGED <<bornIn, received>> /\ Filed' \cup Memory' \subseteq Filed \cup Memory
    /\ \A e \in ToSet(outbox') :
         e \in ToSet(outbox) \/ e.batch = Health \/ e.batch \in Filed \cup Memory

\* A step that brings nothing new and delivers nothing.
LEMMA NothingReceived ==
    ASSUME InOrder, UNCHANGED <<bornIn, received>>, Waiting' \subseteq Waiting
    PROVE  ReceivedFirst' /\ DeliveredInArrivalOrder'
    BY DEF InOrder, ReceivedFirst, DeliveredInArrivalOrder

LEMMA ProcessInOrder ==
    ASSUME SpoolInLine, TypeOK, Provenance, InOrder,
           \/ Start \/ StartWithoutSpool \/ Crash \/ MainExits \/ MainGivesUp
           \/ PowerLoss
    PROVE  InOrder' /\ Moves
    <1>1. ~StartWithoutSpool
        BY DEF StartWithoutSpool, SpoolInLine
    <1>2. /\ inbox' = <<>> /\ buffer' = <<>> /\ spilling' = <<>> /\ outbox' = <<>>
          /\ UNCHANGED <<bornIn, received>>
        <2>1. CASE pc = "down" /\ PowerLoss
            BY <2>1 DEF PowerLoss, front, flow, history, Provenance, DownEmpty, InOrder,
               Phases, NothingWhenDown
        <2>2. CASE ~(pc = "down" /\ PowerLoss)
            BY <1>1, <2>2 DEF Start, Crash, MainExits, MainGivesUp, PowerLoss, Gone,
               EmptyHanded, history
        <2> QED BY <2>1, <2>2
    <1>3. QueuesInOrder' /\ StagesInOrder' /\ Waiting' = Filed'
        BY <1>2, EmptyInOrder
    <1>4. Filed' = Filed /\ FilesInOrder'
        <2>1. CASE disk' = disk
            BY <2>1 DEF Filed, FilesInOrder, InOrder
        <2>2. CASE PowerLoss
            <3>1. PICK torn \in SUBSET disk :
                    disk' = (disk \ torn) \cup {[f EXCEPT !.intact = FALSE] : f \in torn}
                BY <2>2 DEF PowerLoss
            <3>2. \A f \in disk : f \in File
                BY DEF TypeOK, MachineOK
            <3>3. \A f \in torn : LET g == [f EXCEPT !.intact = FALSE]
                                  IN  g.boot = f.boot /\ g.seq = f.seq /\ g.batch = f.batch
                BY <3>2 DEF File
            <3>4. \A g \in disk' : \E f \in disk :
                    /\ g.boot = f.boot /\ g.seq = f.seq /\ g.batch = f.batch
                    /\ f \notin torn => g = f
                    /\ f \in torn => g = [f EXCEPT !.intact = FALSE]
                BY <3>1, <3>3
            <3>5. FilesInOrder'
                <4> SUFFICES ASSUME NEW g \in disk', NEW h \in disk', g.boot = h.boot
                             PROVE  /\ g.seq < h.seq => g.batch < h.batch
                                    /\ g.seq = h.seq => g = h
                    BY DEF FilesInOrder
                <4>1. PICK f \in disk :
                        /\ g.boot = f.boot /\ g.seq = f.seq /\ g.batch = f.batch
                        /\ f \notin torn => g = f
                        /\ f \in torn => g = [f EXCEPT !.intact = FALSE]
                    BY <3>4
                <4>2. PICK k \in disk :
                        /\ h.boot = k.boot /\ h.seq = k.seq /\ h.batch = k.batch
                        /\ k \notin torn => h = k
                        /\ k \in torn => h = [k EXCEPT !.intact = FALSE]
                    BY <3>4
                <4>3. /\ f.seq < k.seq => f.batch < k.batch
                      /\ f.seq = k.seq => f = k
                    BY <4>1, <4>2 DEF InOrder, FilesInOrder
                <4> QED BY <4>1, <4>2, <4>3
            <3>6. Filed' \subseteq Filed
                BY <3>4 DEF Filed
            <3>7. ASSUME NEW f \in disk PROVE f.batch \in Filed'
                <4>1. CASE f \in torn
                    <5>1. [f EXCEPT !.intact = FALSE] \in disk'
                        BY <3>1, <4>1
                    <5>2. [f EXCEPT !.intact = FALSE].batch = f.batch
                        BY <3>3, <4>1
                    <5> QED BY <5>1, <5>2 DEF Filed
                <4>2. CASE f \notin torn
                    BY <3>1, <4>2 DEF Filed
                <4> QED BY <4>1, <4>2
            <3>8. Filed' = Filed
                BY <3>6, <3>7 DEF Filed
            <3> QED BY <3>5, <3>8
        <2>3. disk' = disk \/ PowerLoss
            BY <1>1 DEF Start, Crash, MainExits, MainGivesUp, machine
        <2> QED BY <2>1, <2>2, <2>3
    <1>5. Waiting' \subseteq Waiting
        BY <1>3, <1>4 DEF Waiting
    <1>6. Phases'
        <2>1. CASE Start
            <3>1. pc' = "select" /\ UNCHANGED <<disk, boot>>
                  /\ \A f \in OwnFiles(disk) : f.seq < nextSeq'
                BY <2>1 DEF Start, ResumesAfter, machine
            <3> QED BY <1>2, <3>1
                    DEF Phases, NumberIsFree, EvictedFirst, AllToDo, NothingWhenDown,
                        OwnFiles
        <2>2. CASE ~Start
            <3>1. pc' = "down"
                BY <1>1, <2>2 DEF Crash, MainExits, MainGivesUp, PowerLoss, Gone, control
            <3> QED BY <1>2, <3>1
                    DEF Phases, NumberIsFree, EvictedFirst, AllToDo, NothingWhenDown
        <2> QED BY <2>1, <2>2
    <1>7. Moves
        BY <1>2, <1>4, NothingQueued DEF Moves, Memory
    <1> QED BY <1>2, <1>3, <1>4, <1>5, <1>6, <1>7, NothingReceived DEF InOrder

LEMMA IdleInOrder ==
    ASSUME InOrder,
           \/ Shutdown \/ AbortClock \/ Release \/ ClockStep \/ HoldExpires
           \/ RetryFallsDue \/ Wake \/ Break \/ Decide \/ Rest \/ SendFails
           \/ UNCHANGED vars
    PROVE  InOrder' /\ Moves
    <1>1. UNCHANGED <<inbox, buffer, spilling, outbox, disk, todo, nextSeq, boot, bornIn,
                      received>>
        BY DEF Shutdown, AbortClock, Release, ClockStep, HoldExpires, RetryFallsDue,
           Wake, Break, Decide, Rest, SendFails, vars, machine, front, flow, control,
           history
    <1>2. /\ pc' # "cycle" => pc # "cycle" \/ spilling = <<>>
          /\ pc' = "correct" => pc = "correct"
          /\ pc' = "down" <=> pc = "down"
        BY DEF Shutdown, AbortClock, Release, ClockStep, HoldExpires, RetryFallsDue,
           Wake, Break, Decide, Rest, SendFails, Sending, EndCycle, vars, control
    <1>3. Phases'
        BY <1>1, <1>2
        DEF InOrder, Phases, NumberIsFree, EvictedFirst, AllToDo, NothingWhenDown, OwnFiles
    <1>4. QueuesInOrder' /\ FilesInOrder' /\ StagesInOrder' /\ Waiting' = Waiting
        BY <1>1 DEF InOrder, QueuesInOrder, FilesInOrder, StagesInOrder, Waiting, Filed,
           Memory
    <1>5. Moves
        BY <1>1 DEF Moves, Filed, Memory
    <1> QED BY <1>1, <1>3, <1>4, <1>5, NothingReceived DEF InOrder

\* The newest batch has the highest number, and joins at the end of the line.
LEMMA AcceptInOrder ==
    ASSUME TypeOK, Provenance, InOrder, Accept
    PROVE  InOrder'
    <1> DEFINE new == Len(bornIn) + 1
    <1>1. /\ UNCHANGED <<buffer, spilling, outbox, disk, todo, nextSeq, boot, pc, received>>
          /\ inbox' = Append(inbox, new) /\ bornIn' = Append(bornIn, boot)
        BY DEF Accept, machine, flow, control, history
    <1>2. /\ Len(bornIn) \in Nat /\ new \in Nat
          /\ \A b \in Accepted : bornIn'[b] = bornIn[b] /\ b < new
        BY <1>1, AppendProperties, LenProperties
        DEF TypeOK, FrontOK, MachineOK, Accepted
    <1>3. Waiting \subseteq Accepted /\ Accepted \subseteq Nat \ {0}
        BY AllAccepted
    <1>4. Memory \subseteq Waiting /\ Filed \subseteq Waiting /\ Queued(outbox) \subseteq Waiting
        BY DEF Waiting
    <1> HIDE DEF new
    <1>5. \A b, c \in Accepted : Earlier(bornIn', b, c) <=> Earlier(bornIn, b, c)
        BY <1>2 DEF Earlier
    <1>6. \A b \in Accepted : Earlier(bornIn', b, new)
        BY <1>2 DEF Earlier
    <1>7. ASSUME NEW S, NEW T, S \subseteq Accepted, T \subseteq Accepted,
                 Ahead(bornIn, S, T)
          PROVE  Ahead(bornIn', S, T) /\ Ahead(bornIn', S, T \cup {new})
        BY <1>5, <1>6, <1>7 DEF Ahead
    <1>8. ASSUME NEW q \in Seq(Accepted), Ascending(bornIn, q)
          PROVE  Ascending(bornIn', q)
        BY <1>5, <1>8, Members DEF Ascending
    <1>9. /\ inbox \in Seq(Accepted) /\ buffer \in Seq(Accepted)
          /\ spilling \in Seq(Accepted)
        <2>1. Mine \subseteq Accepted
            BY AllAccepted
        <2> QED BY <2>1, SeqMonotonic DEF Provenance, QueuesMine
    <1>10. inbox \in Seq(Nat) /\ ToSet(inbox) \subseteq Accepted
        BY <1>3, <1>9, SeqMonotonic, Members
    <1>11. ToSet(inbox') = ToSet(inbox) \cup {new}
        BY <1>1, <1>2, <1>10, Appended
    <1>12. EntriesAscending(bornIn', outbox)
        <2> SUFFICES ASSUME NEW i \in 1..Len(outbox), NEW j \in 1..Len(outbox), i < j
                     PROVE  Earlier(bornIn', outbox[i].batch, outbox[j].batch)
            BY DEF EntriesAscending
        <2>1. DOMAIN outbox = 1..Len(outbox)
            BY LenProperties DEF TypeOK, FlowOK
        <2>2. /\ outbox[i].batch # Health => outbox[i].batch \in Accepted
              /\ outbox[j].batch # Health => outbox[j].batch \in Accepted
            BY <1>3, <1>4, <2>1 DEF Queued
        <2>3. Earlier(bornIn, outbox[i].batch, outbox[j].batch)
            BY DEF InOrder, QueuesInOrder, EntriesAscending
        <2> QED BY <1>5, <2>2, <2>3 DEF Earlier
    <1>13. QueuesInOrder'
        <2>1. Ascending(bornIn', inbox) /\ Ahead(bornIn', ToSet(inbox), {new})
            BY <1>6, <1>8, <1>9, <1>10 DEF InOrder, QueuesInOrder, Ahead
        <2>2. Ascending(bornIn', inbox')
            BY <1>1, <1>2, <1>10, <2>1, AscendingAppended
        <2> QED BY <1>1, <1>8, <1>9, <1>12, <2>2 DEF InOrder, QueuesInOrder
    <1>14. Memory' = Memory \cup {new} /\ Filed' = Filed /\ Waiting' = Waiting \cup {new}
        BY <1>1, <1>11 DEF Memory, Filed, Waiting
    <1>15. StagesInOrder'
        <2>1. /\ Ahead(bornIn', Queued(outbox), (Filed \cup Memory) \cup {new})
              /\ Ahead(bornIn', Filed, Memory \cup {new})
            BY <1>3, <1>4, <1>7 DEF InOrder, StagesInOrder
        <2>2. /\ Ahead(bornIn', ToSet(spilling), (ToSet(buffer) \cup ToSet(inbox)) \cup {new})
              /\ Ahead(bornIn', ToSet(buffer), ToSet(inbox) \cup {new})
            <3>1. /\ ToSet(spilling) \subseteq Accepted /\ ToSet(buffer) \subseteq Accepted
                  /\ ToSet(inbox) \subseteq Accepted
                BY <1>3, <1>4 DEF Memory
            <3> QED BY <1>7, <3>1 DEF InOrder, StagesInOrder
        <2>3. (Filed \cup Memory) \cup {new} = Filed' \cup Memory'
              /\ (ToSet(buffer) \cup ToSet(inbox)) \cup {new} = ToSet(buffer) \cup ToSet(inbox')
            BY <1>11, <1>14
        <2> QED BY <1>1, <1>11, <1>14, <2>1, <2>2, <2>3 DEF StagesInOrder
    <1>16. ReceivedFirst' /\ DeliveredInArrivalOrder'
        <2>1. \A i \in 1..Len(received) :
                received[i].batch \in Accepted /\ received[i].batch \in Nat
            BY <1>3, AllAccepted
        <2>2. DOMAIN received = 1..Len(received)
            BY AllAccepted
        <2>3. DeliveredInArrivalOrder'
            <3> SUFFICES ASSUME NEW i \in 1..Len(received), NEW j \in 1..Len(received), i < j,
                                bornIn'[received[i].batch] = bornIn'[received[j].batch]
                         PROVE  received[i].batch <= received[j].batch
                BY <1>1, <2>2 DEF DeliveredInArrivalOrder
            <3>1. bornIn[received[i].batch] = bornIn[received[j].batch]
                BY <1>2, <2>1
            <3> QED BY <2>2, <3>1 DEF InOrder, DeliveredInArrivalOrder
        <2>4. ReceivedFirst'
            <3> SUFFICES ASSUME NEW i \in 1..Len(received), NEW b \in Waiting \cup {new},
                                bornIn'[received[i].batch] = bornIn'[b]
                         PROVE  received[i].batch <= b
                BY <1>1, <1>14 DEF ReceivedFirst
            <3>1. CASE b = new
                BY <1>2, <2>1, <3>1
            <3>2. CASE b \in Waiting
                BY <1>2, <1>3, <2>1, <3>2 DEF InOrder, ReceivedFirst
            <3> QED BY <3>1, <3>2
        <2> QED BY <2>3, <2>4
    <1>17. FilesInOrder' /\ Phases'
        BY <1>1 DEF InOrder, FilesInOrder, Phases, NumberIsFree, EvictedFirst, AllToDo,
           NothingWhenDown, OwnFiles
    <1> QED BY <1>13, <1>15, <1>16, <1>17 DEF InOrder

LEMMA ReceiveInOrder ==
    ASSUME TypeOK, Provenance, InOrder, Receive
    PROVE  InOrder' /\ Moves
    <1> DEFINE h == Head(inbox)
               queue == Append(buffer, h)
    <1>1. /\ UNCHANGED <<outbox, disk, todo, nextSeq, boot, bornIn, received>>
          /\ pc = "select" /\ pc' = "cycle" /\ spilling = <<>>
          /\ inbox # <<>> /\ inbox' = Tail(inbox)
        BY DEF Receive, machine, history, InOrder, Phases, EvictedFirst
    <1>2. PICK n \in 0..Len(queue) - 1 : Push(queue, n)
        BY DEF Receive
    <1>3. inbox \in Seq(Batch) /\ buffer \in Seq(Batch)
        BY DEF TypeOK, FrontOK, FlowOK
    <1>4. /\ h \in Batch /\ ToSet(inbox) = {h} \cup ToSet(inbox')
          /\ Ascending(bornIn, inbox') /\ Ahead(bornIn, {h}, ToSet(inbox'))
        <2>1. Ascending(bornIn, inbox)
            BY DEF InOrder, QueuesInOrder
        <2>2. h \in Batch
            BY <1>1, <1>3, HeadTailProperties
        <2> QED BY <1>1, <1>3, <2>1, <2>2, WithoutHead, AscendingTail
    <1> HIDE DEF h
    <1>5. /\ queue \in Seq(Batch) /\ ToSet(queue) = ToSet(buffer) \cup {h}
          /\ Ascending(bornIn, queue)
        <2>1. Ascending(bornIn, buffer) /\ Ahead(bornIn, ToSet(buffer), {h})
            BY <1>4 DEF InOrder, QueuesInOrder, StagesInOrder, Ahead
        <2> QED BY <1>3, <1>4, <2>1, Appended, AscendingAppended
    <1>6. n \in 0..Len(queue)
        BY <1>2, <1>5, LenProperties
    <1> HIDE DEF queue
    <1>7. spilling' = SubSeq(queue, 1, n) /\ buffer' = DropFirst(queue, n)
        BY <1>2 DEF Push
    <1>8. /\ ToSet(spilling') \cup ToSet(buffer') = ToSet(buffer) \cup {h}
          /\ Ascending(bornIn, spilling') /\ Ascending(bornIn, buffer')
          /\ Ahead(bornIn, ToSet(spilling'), ToSet(buffer'))
        BY <1>5, <1>6, <1>7, Cut, AscendingCut
    <1>9. QueuesInOrder'
        BY <1>1, <1>4, <1>8 DEF QueuesInOrder, InOrder
    <1>10. Memory' = Memory /\ Filed' = Filed /\ Waiting' = Waiting
        BY <1>1, <1>4, <1>8, NothingQueued DEF Memory, Filed, Waiting
    <1>11. \A b \in ToSet(buffer) \cup {h}, c \in ToSet(inbox') : Earlier(bornIn, b, c)
        BY <1>4 DEF InOrder, StagesInOrder, Ahead
    <1>12. StagesInOrder'
        BY <1>1, <1>8, <1>10, <1>11 DEF InOrder, StagesInOrder, Ahead
    <1>13. FilesInOrder' /\ Phases'
        BY <1>1 DEF InOrder, FilesInOrder, Phases, NumberIsFree, EvictedFirst, AllToDo,
           NothingWhenDown, OwnFiles
    <1>14. Moves
        BY <1>1, <1>10 DEF Moves
    <1> QED BY <1>1, <1>9, <1>10, <1>12, <1>13, <1>14, NothingReceived DEF InOrder

\* A file's number follows those of its boot, as its batch does.
LEMMA SpillInOrder ==
    ASSUME TypeOK, Provenance, InOrder, Spill
    PROVE  InOrder' /\ Moves
    <1> DEFINE h == Head(spilling)
               file == [boot |-> boot, seq |-> nextSeq, batch |-> h, intact |-> TRUE]
    <1>1. /\ UNCHANGED <<inbox, buffer, outbox, boot, todo, pc, bornIn, received>>
          /\ pc = "cycle" /\ spilling # <<>> /\ spilling' = Tail(spilling)
          /\ \/ /\ disk' = {f \in disk : f.boot # boot \/ f.seq # nextSeq} \cup {file}
                /\ nextSeq' = nextSeq + 1
             \/ UNCHANGED <<disk, nextSeq>>
        BY DEF Spill, front, control, history
    <1>2. /\ nextSeq \in Nat /\ disk \subseteq File /\ spilling \in Seq(Batch)
          /\ \A f \in disk : f.seq \in Nat
        BY DEF TypeOK, FlowOK, MachineOK, File
    <1>3. /\ ToSet(spilling) = {h} \cup ToSet(spilling')
          /\ Ascending(bornIn, spilling') /\ Ahead(bornIn, {h}, ToSet(spilling'))
        <2>1. Ascending(bornIn, spilling)
            BY DEF InOrder, QueuesInOrder
        <2> QED BY <1>1, <1>2, <2>1, WithoutHead, AscendingTail
    <1>4. file.boot = boot /\ file.seq = nextSeq /\ file.batch = h
        OBVIOUS
    <1> HIDE DEF file, h
    <1>5. disk' \subseteq disk \cup {file}
        BY <1>1
    <1>6. h \in Memory /\ h \in Accepted /\ bornIn[h] = boot /\ h # Health
        <2>1. h \in Memory
            BY <1>3 DEF Memory
        <2> QED BY <2>1, AllAccepted DEF Mine, Health
    <1>7. Filed' \subseteq Filed \cup {h}
        BY <1>4, <1>5 DEF Filed
    <1>8. Memory = Memory' \cup {h} /\ Waiting' \subseteq Waiting
        <2>1. Memory = Memory' \cup {h}
            BY <1>1, <1>3 DEF Memory
        <2> QED BY <1>1, <1>7, <2>1 DEF Waiting
    <1>9. \A f \in disk : f.boot = boot => f.seq < nextSeq /\ f.batch < h
        <2> SUFFICES ASSUME NEW f \in disk, f.boot = boot
                     PROVE  f.seq < nextSeq /\ f.batch < h
            OBVIOUS
        <2>1. f.seq < nextSeq
            BY <1>1 DEF InOrder, Phases, NumberIsFree, OwnFiles
        <2>2. f.batch \in Accepted /\ bornIn[f.batch] = boot /\ f.batch # Health
            BY AllAccepted DEF Health
        <2>3. f.batch \in Filed
            BY DEF Filed
        <2>4. Earlier(bornIn, f.batch, h)
            BY <1>6, <2>3 DEF InOrder, StagesInOrder, Ahead
        <2> QED BY <1>6, <2>1, <2>2, <2>4 DEF Earlier
    <1>10. FilesInOrder'
        <2> SUFFICES ASSUME NEW f \in disk', NEW g \in disk', f.boot = g.boot
                     PROVE  /\ f.seq < g.seq => f.batch < g.batch
                            /\ f.seq = g.seq => f = g
            BY DEF FilesInOrder
        <2>1. CASE f \in disk /\ g \in disk
            BY <2>1 DEF InOrder, FilesInOrder
        <2>2. CASE f = file /\ g = file
            BY <1>2, <1>4, <2>2
        <2>3. CASE f \in disk /\ g = file
            <3>1. f.seq < nextSeq /\ f.batch < h /\ g.seq = nextSeq /\ g.batch = h
                BY <1>4, <1>9, <2>3
            <3> QED BY <1>2, <2>3, <3>1
        <2>4. CASE f = file /\ g \in disk
            <3>1. g.seq < nextSeq /\ f.seq = nextSeq
                BY <1>4, <1>9, <2>4
            <3> QED BY <1>2, <2>4, <3>1
        <2> QED BY <1>5, <2>1, <2>2, <2>3, <2>4
    <1>11. QueuesInOrder'
        BY <1>1, <1>3 DEF InOrder, QueuesInOrder
    <1>12. StagesInOrder'
        <2>1. \A c \in Memory' : Earlier(bornIn, h, c)
            BY <1>1, <1>3 DEF InOrder, StagesInOrder, Ahead, Memory
        <2>2. Ahead(bornIn, Filed', Memory')
            BY <1>7, <1>8, <2>1 DEF InOrder, StagesInOrder, Ahead
        <2>3. Ahead(bornIn, Queued(outbox), Filed' \cup Memory')
            BY <1>7, <1>8 DEF InOrder, StagesInOrder, Ahead
        <2>4. Ahead(bornIn, ToSet(spilling'), ToSet(buffer) \cup ToSet(inbox))
            BY <1>3 DEF InOrder, StagesInOrder, Ahead
        <2> QED BY <1>1, <2>2, <2>3, <2>4 DEF InOrder, StagesInOrder
    <1>13. Phases'
        <2>1. NumberIsFree'
            <3> SUFFICES ASSUME NEW f \in disk', f.boot = boot
                         PROVE  f.seq < nextSeq'
                BY <1>1 DEF NumberIsFree, OwnFiles
            <3>1. CASE UNCHANGED <<disk, nextSeq>>
                BY <1>9, <3>1
            <3>2. CASE nextSeq' = nextSeq + 1
                <4>1. CASE f = file
                    BY <1>2, <1>4, <3>2, <4>1
                <4>2. CASE f \in disk
                    <5>1. f.seq < nextSeq /\ f.seq \in Nat
                        BY <1>2, <1>9, <4>2
                    <5> QED BY <1>2, <3>2, <5>1
                <4> QED BY <1>5, <4>1, <4>2
            <3> QED BY <1>1, <3>1, <3>2
        <2> QED BY <1>1, <2>1
                DEF InOrder, Phases, EvictedFirst, AllToDo, NothingWhenDown
    <1>14. Moves
        BY <1>1, <1>7, <1>8 DEF Moves
    <1> QED BY <1>1, <1>8, <1>10, <1>11, <1>12, <1>13, <1>14, NothingReceived DEF InOrder

\* A health event has no place in the line.
LEMMA HealthInOrder ==
    ASSUME TypeOK, InOrder, EmitHealth
    PROVE  InOrder' /\ Moves
    <1> DEFINE e == [batch |-> Health, mark |-> NoCorrection]
    <1>1. /\ UNCHANGED <<inbox, buffer, spilling, disk, todo, nextSeq, boot, bornIn,
                         received>>
          /\ pc = "select" /\ pc' = "cycle"
          /\ outbox' = Append(outbox, e)
        BY DEF EmitHealth, machine, front, history
    <1>2. e \in Entry /\ e.batch = Health /\ outbox \in Seq(Entry)
        BY NoCorrectionIsMark DEF Entry, TypeOK, FlowOK
    <1> HIDE DEF e
    <1>3. Ahead(bornIn, Queued(outbox), {e.batch}) /\ EntriesAscending(bornIn, outbox)
        BY <1>2 DEF Ahead, Earlier, InOrder, QueuesInOrder
    <1>4. /\ Queued(Append(outbox, e)) = Queued(outbox) \cup ({e.batch} \ {Health})
          /\ EntriesAscending(bornIn, Append(outbox, e))
        <2>1. e \in Entry /\ outbox \in Seq(Entry)
            BY <1>2
        <2> QED BY <1>3, <2>1, EntryAppended
    <1>5. Queued(outbox') = Queued(outbox) /\ EntriesAscending(bornIn, outbox')
        BY <1>1, <1>2, <1>4
    <1>6. Memory' = Memory /\ Filed' = Filed /\ Waiting' = Waiting
        BY <1>1, <1>5 DEF Memory, Filed, Waiting
    <1>7. QueuesInOrder' /\ StagesInOrder' /\ FilesInOrder'
        BY <1>1, <1>5, <1>6 DEF InOrder, QueuesInOrder, StagesInOrder, FilesInOrder
    <1>8. Phases'
        BY <1>1 DEF InOrder, Phases, NumberIsFree, EvictedFirst, AllToDo, NothingWhenDown,
           OwnFiles
    <1>9. Moves
        <2>1. e \in Entry /\ outbox \in Seq(Entry)
            BY <1>2
        <2>2. ToSet(Append(outbox, e)) = ToSet(outbox) \cup {e}
            BY <2>1, Appended
        <2> QED BY <1>1, <1>2, <1>6, <2>2 DEF Moves
    <1> QED BY <1>1, <1>6, <1>7, <1>8, <1>9, NothingReceived DEF InOrder

\* What is read of the spool is all there is of it, and goes out by number.
LEMMA SpoolShipsInOrder ==
    ASSUME SpoolInLine, TypeOK, Provenance, InOrder, ReadSpool \/ ShipSpooled
    PROVE  InOrder' /\ Moves
    <1>1. CASE ReadSpool
        <2>1. /\ UNCHANGED <<inbox, buffer, spilling, outbox, nextSeq, boot, bornIn,
                             received>>
              /\ pc = "read" /\ pc' = "correct"
            BY <1>1 DEF ReadSpool, front, flow, history
        <2>2. disk' \subseteq disk /\ disk' = todo'
            BY <1>1 DEF ReadSpool, SpoolInLine
        <2>3. Memory' = Memory /\ Filed' \subseteq Filed /\ Waiting' \subseteq Waiting
            BY <2>1, <2>2 DEF Memory, Filed, Waiting
        <2>4. QueuesInOrder' /\ FilesInOrder'
            BY <2>1, <2>2 DEF InOrder, QueuesInOrder, FilesInOrder
        <2>5. StagesInOrder'
            BY <2>1, <2>3 DEF InOrder, StagesInOrder, Ahead
        <2>6. Phases'
            BY <2>1, <2>2 DEF InOrder, Phases, NumberIsFree, EvictedFirst, AllToDo,
               NothingWhenDown, OwnFiles
        <2>7. Moves
            BY <2>1, <2>3 DEF Moves
        <2> QED BY <2>1, <2>3, <2>4, <2>5, <2>6, <2>7, NothingReceived DEF InOrder
    <1>2. CASE ShipSpooled
        <2>1. /\ UNCHANGED <<inbox, buffer, spilling, nextSeq, boot, pc, bornIn, received>>
              /\ pc = "correct" /\ disk = todo
            BY <1>2 DEF ShipSpooled, front, history, InOrder, Phases, AllToDo
        <2>2. PICK f \in todo :
                /\ \A g \in todo \ {f} : Before(f, g)
                /\ outbox' = Append(outbox, [batch |-> f.batch, mark |-> MarkFor(f)])
                /\ todo' = todo \ {f}
                /\ disk' = disk \ {f}
            BY <1>2 DEF ShipSpooled, SpoolInLine
        <2> DEFINE e == [batch |-> f.batch, mark |-> MarkFor(f)]
        <2>3. e \in Entry /\ e.batch = f.batch /\ outbox \in Seq(Entry)
            BY <2>2, NoCorrectionIsMark
            DEF TypeOK, FlowOK, ControlOK, File, Entry, MarkFor
        <2>4. f.batch \in Filed /\ f.batch # Health
            BY <2>1, AllAccepted DEF Filed, Health
        <2> HIDE DEF e
        <2>5. /\ Queued(outbox') = Queued(outbox) \cup {f.batch}
              /\ EntriesAscending(bornIn, outbox')
            <3>1. e \in Entry /\ outbox \in Seq(Entry)
                BY <2>3
            <3>2. Ahead(bornIn, Queued(outbox), {e.batch}) /\ EntriesAscending(bornIn, outbox)
                BY <2>3, <2>4 DEF InOrder, QueuesInOrder, StagesInOrder, Ahead
            <3>3. /\ Queued(Append(outbox, e)) = Queued(outbox) \cup ({e.batch} \ {Health})
                  /\ EntriesAscending(bornIn, Append(outbox, e))
                BY <3>1, <3>2, EntryAppended
            <3>4. outbox' = Append(outbox, e)
                BY <2>2 DEF e
            <3> QED BY <2>3, <2>4, <3>3, <3>4
        <2>6. Memory' = Memory /\ Filed' \subseteq Filed /\ Waiting' \subseteq Waiting
            BY <2>1, <2>2, <2>4, <2>5 DEF Memory, Filed, Waiting
        <2>7. \A c \in Filed' : Earlier(bornIn, f.batch, c)
            <3> SUFFICES ASSUME NEW g \in disk \ {f}, bornIn[f.batch] = bornIn[g.batch]
                         PROVE  f.batch < g.batch
                BY <2>2 DEF Filed, Earlier
            <3>1. f.boot = g.boot
                BY <2>1, AllAccepted
            <3>2. f.seq < g.seq
                BY <2>1, <2>2, <3>1 DEF Before
            <3> QED BY <2>1, <3>1, <3>2 DEF InOrder, FilesInOrder
        <2>8. QueuesInOrder' /\ FilesInOrder'
            BY <2>1, <2>2, <2>5 DEF InOrder, QueuesInOrder, FilesInOrder
        <2>9. StagesInOrder'
            <3>1. Ahead(bornIn, Queued(outbox'), Filed' \cup Memory)
                BY <2>4, <2>5, <2>6, <2>7 DEF InOrder, StagesInOrder, Ahead
            <3>2. Ahead(bornIn, Filed', Memory)
                BY <2>6 DEF InOrder, StagesInOrder, Ahead
            <3> QED BY <2>1, <2>6, <3>1, <3>2 DEF InOrder, StagesInOrder
        <2>10. Phases'
            BY <2>1, <2>2 DEF InOrder, Phases, NumberIsFree, EvictedFirst, AllToDo,
               NothingWhenDown, OwnFiles
        <2>11. Moves
            <3>1. e \in Entry /\ outbox \in Seq(Entry)
                BY <2>3
            <3>2. ToSet(Append(outbox, e)) = ToSet(outbox) \cup {e}
                BY <3>1, Appended
            <3>3. outbox' = Append(outbox, e)
                BY <2>2 DEF e
            <3> QED BY <2>1, <2>3, <2>4, <2>6, <3>2, <3>3 DEF Moves
        <2> QED BY <2>1, <2>6, <2>8, <2>9, <2>10, <2>11, NothingReceived DEF InOrder
    <1> QED BY <1>1, <1>2

ShedInOrder ==
    \A b \in shed' \ shed, k \in Queued(outbox') : bornIn[b] = bornIn[k] => b < k

\* With the spool shipped, the buffer is what follows the outbox; what is shed
\* is the head of the whole line.
LEMMA BufferShipsInOrder ==
    ASSUME TypeOK, Provenance, InOrder, ShipBuffer
    PROVE  InOrder' /\ ShedInOrder /\ Moves
    <1> DEFINE all == outbox \o Corrected(buffer)
               n == Excess(Len(all))
               gone == {all[i].batch : i \in 1..n}
    <1>1. /\ UNCHANGED <<inbox, spilling, nextSeq, boot, todo, bornIn, received>>
          /\ pc = "correct" /\ pc' = "deliver" /\ spilling = <<>>
          /\ outbox' = DropFirst(all, n) /\ buffer' = <<>>
          /\ shed' = shed \cup (gone \ {Health})
          /\ disk = {} /\ disk' = {}
        BY DEF ShipBuffer, Keep, front, InOrder, Phases, EvictedFirst, AllToDo, OwnFiles
    <1>2. /\ all \in Seq(Entry) /\ Len(all) \in Nat
          /\ Queued(all) = Queued(outbox) \cup ToSet(buffer)
          /\ EntriesAscending(bornIn, all)
        <2>1. /\ EntriesAscending(bornIn, outbox) /\ Ascending(bornIn, buffer)
              /\ Ahead(bornIn, Queued(outbox), ToSet(buffer))
            BY DEF InOrder, QueuesInOrder, StagesInOrder, Ahead, Memory
        <2> QED BY <2>1, BufferJoins
    <1>3. n \in 0..Len(all)
        BY <1>2, CapacitiesAssumption DEF Excess
    <1> HIDE DEF all, n
    <1>4. /\ Queued(all) = Queued(outbox') \cup (gone \ {Health})
          /\ EntriesAscending(bornIn, outbox') /\ Ahead(bornIn, gone, Queued(outbox'))
        <2>1. /\ Queued(all) = Queued(DropFirst(all, n)) \cup (gone \ {Health})
              /\ EntriesAscending(bornIn, DropFirst(all, n))
              /\ Ahead(bornIn, gone, Queued(DropFirst(all, n)))
            BY <1>2, <1>3, EntriesCut
        <2> QED BY <1>1, <2>1
    <1> HIDE DEF gone
    <1>5. /\ Filed' = {} /\ Memory' = ToSet(inbox) /\ ToSet(inbox) \subseteq Memory
          /\ ToSet(spilling') = {} /\ ToSet(buffer') = {} /\ ToSet(buffer) \subseteq Memory
        BY <1>1, NothingQueued DEF Filed, Memory
    <1>6. Waiting' \subseteq Waiting
        BY <1>2, <1>4, <1>5 DEF Waiting
    <1>7. QueuesInOrder' /\ FilesInOrder'
        BY <1>1, <1>4, NothingAscends DEF InOrder, QueuesInOrder, FilesInOrder
    <1>8. StagesInOrder'
        <2>1. Ahead(bornIn, Queued(outbox'), ToSet(inbox))
            BY <1>2, <1>4, <1>5 DEF InOrder, StagesInOrder, Ahead
        <2> QED BY <1>1, <1>5, <2>1 DEF StagesInOrder, Ahead
    <1>9. Phases'
        BY <1>1 DEF Phases, NumberIsFree, EvictedFirst, AllToDo, NothingWhenDown, OwnFiles
    <1>10. ShedInOrder
        <2> SUFFICES ASSUME NEW b \in gone \ {Health}, NEW k \in Queued(outbox'),
                            bornIn[b] = bornIn[k]
                     PROVE  b < k
            BY <1>1 DEF ShedInOrder
        <2>1. k # Health /\ Earlier(bornIn, b, k)
            BY <1>4 DEF Ahead, Queued
        <2> QED BY <2>1 DEF Earlier
    <1>11. Moves
        <2>1. ToSet(all) = ToSet(outbox) \cup ToSet(Corrected(buffer))
            BY CorrectedBatches, Joined DEF all, TypeOK, FlowOK
        <2>2. \A e \in ToSet(Corrected(buffer)) : e.batch \in ToSet(buffer)
            BY CorrectedBatches, Members DEF TypeOK, FlowOK
        <2>3. ToSet(outbox') \subseteq ToSet(all)
            BY <1>1, <1>2, <1>3, Cut
        <2> QED BY <1>1, <1>5, <2>1, <2>2, <2>3 DEF Moves
    <1> QED BY <1>1, <1>6, <1>7, <1>8, <1>9, <1>10, <1>11, NothingReceived DEF InOrder

\* The head of the outbox is the oldest of its boot that waits anywhere; a lost
\* answer leaves it there, and it comes again before any other.
LEMMA SendInOrder ==
    ASSUME TypeOK, Provenance, InOrder, SendSucceeds \/ AnswerIsLost
    PROVE  InOrder'
    <1> DEFINE h == Head(outbox)
               b0 == h.batch
    <1>1. /\ UNCHANGED <<inbox, buffer, spilling, disk, todo, nextSeq, boot, bornIn>>
          /\ outbox # <<>> /\ pc = "deliver" /\ pc' \in {"deliver", "select", "done"}
          /\ outbox' \in {outbox, Tail(outbox)}
          /\ received' = IF b0 = Health THEN received ELSE Append(received, h)
        BY DEF SendSucceeds, AnswerIsLost, Sending, Arrives, EndCycle, machine, front,
           control
    <1>2. outbox \in Seq(Entry) /\ received \in Seq([batch : Batch, mark : Mark])
        BY DEF TypeOK, FlowOK, HistoryOK
    <1>3. h \in Entry
        BY <1>1, <1>2, HeadTailProperties
    <1>4. b0 # Health => h \in [batch : Batch, mark : Mark]
        BY <1>3 DEF Entry
    <1>5. /\ Queued(outbox) = Queued(Tail(outbox)) \cup ({b0} \ {Health})
          /\ EntriesAscending(bornIn, Tail(outbox))
          /\ Ahead(bornIn, {b0}, Queued(Tail(outbox)))
        BY <1>1, <1>2, EntriesTail DEF InOrder, QueuesInOrder
    <1> HIDE DEF h
    <1>6. Queued(outbox') \subseteq Queued(outbox) /\ EntriesAscending(bornIn, outbox')
        BY <1>1, <1>5 DEF InOrder, QueuesInOrder
    <1>7. Memory' = Memory /\ Filed' = Filed /\ Waiting' \subseteq Waiting
        BY <1>1, <1>6 DEF Memory, Filed, Waiting
    <1>8. QueuesInOrder' /\ FilesInOrder'
        BY <1>1, <1>6 DEF InOrder, QueuesInOrder, FilesInOrder
    <1>9. StagesInOrder'
        <2>1. Ahead(bornIn, Queued(outbox'), Filed \cup Memory)
            BY <1>6 DEF InOrder, StagesInOrder, Ahead
        <2> QED BY <1>1, <1>7, <2>1 DEF InOrder, StagesInOrder
    <1>10. Phases'
        BY <1>1 DEF InOrder, Phases, NumberIsFree, EvictedFirst, AllToDo, NothingWhenDown,
           OwnFiles
    <1>11. CASE b0 = Health
        BY <1>1, <1>7, <1>8, <1>9, <1>10, <1>11, NothingReceived DEF InOrder
    <1>12. CASE b0 # Health
        <2> DEFINE m == Len(received)
        <2>1. /\ m \in Nat /\ Len(received') = m + 1 /\ DOMAIN received' = 1..m + 1
              /\ \A i \in 1..m : received'[i] = received[i]
              /\ received'[m + 1] = h
            <3>1. received' = Append(received, h) /\ h \in [batch : Batch, mark : Mark]
                BY <1>1, <1>4, <1>12
            <3> QED BY <1>2, <3>1, Appended, LenProperties
        <2>2. \A i \in 1..m + 1 : i = m + 1 \/ i \in 1..m
            BY <2>1
        <2>3. /\ b0 \in Queued(outbox) /\ b0 \in Waiting /\ b0 \in Nat
              /\ DOMAIN received = 1..m /\ Waiting \subseteq Nat
              /\ \A i \in 1..m : received[i].batch \in Nat
            <3>1. b0 \in Queued(outbox) /\ b0 \in Waiting
                BY <1>5, <1>12 DEF Waiting
            <3> QED BY <3>1, AllAccepted
        <2> HIDE DEF m, b0
        <2>4. \A c \in Waiting' : bornIn[b0] = bornIn[c] => b0 <= c
            <3> SUFFICES ASSUME NEW c \in Waiting', bornIn[b0] = bornIn[c], c # b0
                         PROVE  b0 <= c
                BY <2>3
            <3>1. c # Health /\ c \in Nat /\ c \in Waiting
                <4>1. c \in Waiting
                    BY <1>7
                <4> QED BY <4>1, AllAccepted DEF Health
            <3>2. Earlier(bornIn, b0, c)
                BY <1>5, <2>3, <3>1 DEF InOrder, StagesInOrder, Ahead, Waiting
            <3> QED BY <1>12, <2>3, <3>1, <3>2 DEF Earlier
        <2>5. ReceivedFirst'
            <3> SUFFICES ASSUME NEW i \in 1..m + 1, NEW c \in Waiting',
                                bornIn[received'[i].batch] = bornIn[c]
                         PROVE  received'[i].batch <= c
                BY <1>1, <2>1 DEF ReceivedFirst
            <3>1. CASE i = m + 1
                BY <2>1, <2>4, <3>1 DEF b0
            <3>2. CASE i \in 1..m
                BY <1>7, <2>1, <3>2 DEF InOrder, ReceivedFirst, m
            <3> QED BY <2>2, <3>1, <3>2
        <2>6. DeliveredInArrivalOrder'
            <3> SUFFICES ASSUME NEW i \in 1..m + 1, NEW j \in 1..m + 1, i < j,
                                bornIn[received'[i].batch] = bornIn[received'[j].batch]
                         PROVE  received'[i].batch <= received'[j].batch
                BY <1>1, <2>1 DEF DeliveredInArrivalOrder
            <3>1. i \in 1..m
                BY <2>1
            <3>2. CASE j = m + 1
                BY <2>1, <2>3, <3>1, <3>2 DEF InOrder, ReceivedFirst, m, b0
            <3>3. CASE j \in 1..m
                BY <2>1, <2>3, <3>1, <3>3 DEF InOrder, DeliveredInArrivalOrder
            <3> QED BY <2>2, <3>2, <3>3
        <2> QED BY <1>8, <1>9, <1>10, <2>5, <2>6 DEF InOrder
    <1> QED BY <1>11, <1>12

LEMMA NextInOrder ==
    ASSUME SpoolInLine, TypeOK, Provenance, InOrder, [Next]_vars
    PROVE  InOrder'
    BY ProcessInOrder, IdleInOrder, AcceptInOrder, ReceiveInOrder, SpillInOrder,
       HealthInOrder, SpoolShipsInOrder, BufferShipsInOrder, SendInOrder
    DEF Next

LEMMA InOrderHolds ==
    ASSUME SpoolInLine
    PROVE  Spec => []InOrder
    <1>1. TypeOK /\ Provenance /\ InOrder /\ [Next]_vars => InOrder'
        BY NextInOrder
    <1> QED BY InitInOrder, <1>1, TypeCorrect, ProvenanceHolds, PTL DEF Spec

\* As long as the spool can be listed and its files deleted: the receiver sees
\* the batches of one boot in the order they arrived, whichever of them waited in
\* the spool, across restarts, lost answers, and writes and reads that fail
\* (runtime.rs: "shipping them first preserves order").
THEOREM ArrivalOrderKept ==
    ASSUME SpoolInLine
    PROVE  Spec => []DeliveredInArrivalOrder
    <1>1. InOrder => DeliveredInArrivalOrder
        BY DEF InOrder
    <1> QED BY <1>1, InOrderHolds, PTL

\* Under the same condition, what the outbox sheds is older than every batch of
\* its boot that it keeps (correct_into_outbox in runtime.rs).
THEOREM OldestAreShed ==
    ASSUME SpoolInLine
    PROVE  Spec => ShedsOldest
    <1>1. TypeOK /\ Provenance /\ InOrder /\ [Next]_vars => [ShedInOrder]_vars
        <2> SUFFICES ASSUME TypeOK, Provenance, InOrder, Next PROVE ShedInOrder
            OBVIOUS
        <2>1. CASE ShipBuffer
            BY <2>1, BufferShipsInOrder
        <2>2. CASE ~ShipBuffer
            <3>1. shed' = shed
                BY <2>2 DEF Next, Start, StartWithoutSpool, Crash, Shutdown, AbortClock,
                   MainExits, MainGivesUp, PowerLoss, Gone, Accept, Release, ClockStep,
                   HoldExpires, RetryFallsDue, Receive, Spill, Wake, EmitHealth, Break,
                   Decide, ReadSpool, ShipSpooled, Rest, SendSucceeds, SendFails,
                   AnswerIsLost, history
            <3> QED BY <3>1 DEF ShedInOrder
        <2> QED BY <2>1, <2>2
    <1>2. Spec => [][ShedInOrder]_vars
        BY <1>1, InOrderHolds, TypeCorrect, ProvenanceHolds, PTL DEF Spec
    <1> QED BY <1>2 DEF ShedsOldest, ShedInOrder

-----------------------------------------------------------------------------
(* The correction of a batch is made once. A batch is in the line once, so *)
(* the entry that went out and the entry that goes out again are one.      *)

CorrectedOnce ==
    /\ FrozenCorrection
    /\ \A i \in 1..Len(received) :
         /\ received[i].batch \notin Filed \cup Memory
         /\ \A e \in ToSet(outbox) :
              received[i].batch = e.batch => received[i].mark = e.mark

LEMMA InitCorrectedOnce == Init => CorrectedOnce
    BY NothingQueued DEF Init, CorrectedOnce, FrozenCorrection

LEMMA MovesCorrectedOnce ==
    ASSUME TypeOK, Provenance, CorrectedOnce, Moves
    PROVE  CorrectedOnce'
    <1>1. \A i \in 1..Len(received) : received[i].batch # Health
        BY AllAccepted DEF Health
    <1>2. FrozenCorrection'
        BY DEF Moves, CorrectedOnce, FrozenCorrection
    <1> QED BY <1>1, <1>2 DEF Moves, CorrectedOnce

LEMMA AcceptCorrectedOnce ==
    ASSUME TypeOK, Provenance, CorrectedOnce, Accept
    PROVE  CorrectedOnce'
    <1>1. /\ UNCHANGED <<buffer, spilling, outbox, disk, received>>
          /\ inbox' = Append(inbox, Len(bornIn) + 1)
        BY DEF Accept, machine, flow, history
    <1>2. Len(bornIn) + 1 \in Nat /\ inbox \in Seq(Nat)
        <2>1. Len(bornIn) \in Nat /\ Batch \subseteq Nat /\ inbox \in Seq(Batch)
            BY BoundsAssumption, LenProperties DEF TypeOK, FrontOK, Batch
        <2>2. inbox \in Seq(Nat)
            BY <2>1, SeqMonotonic
        <2> QED BY <2>1, <2>2
    <1>3. ToSet(inbox') = ToSet(inbox) \cup {Len(bornIn) + 1}
        BY <1>1, <1>2, Appended
    <1>4. Filed' \cup Memory' = Filed \cup Memory \cup {Len(bornIn) + 1}
        BY <1>1, <1>3 DEF Filed, Memory
    <1>5. \A i \in 1..Len(received) : received[i].batch # Len(bornIn) + 1
        BY AllAccepted DEF Accepted
    <1>6. FrozenCorrection'
        BY <1>1 DEF CorrectedOnce, FrozenCorrection
    <1> QED BY <1>1, <1>4, <1>5, <1>6 DEF CorrectedOnce

LEMMA SendCorrectedOnce ==
    ASSUME TypeOK, Provenance, InOrder, CorrectedOnce, SendSucceeds \/ AnswerIsLost
    PROVE  CorrectedOnce'
    <1> DEFINE h == Head(outbox)
               m == Len(received)
    <1>1. /\ UNCHANGED <<inbox, buffer, spilling, disk>> /\ outbox # <<>>
          /\ outbox' \in {outbox, Tail(outbox)}
          /\ received' = IF h.batch = Health THEN received ELSE Append(received, h)
        BY DEF SendSucceeds, AnswerIsLost, Sending, Arrives, machine, front
    <1>2. outbox \in Seq(Entry) /\ received \in Seq([batch : Batch, mark : Mark])
        BY DEF TypeOK, FlowOK, HistoryOK
    <1>3. /\ h \in Entry /\ h \in ToSet(outbox) /\ ToSet(Tail(outbox)) \subseteq ToSet(outbox)
          /\ h = outbox[1] /\ 1 \in 1..Len(outbox)
        <2>1. h \in Entry
            BY <1>1, <1>2, HeadTailProperties
        <2> QED BY <1>1, <1>2, <2>1, WithoutHead
    <1> HIDE DEF h
    <1>4. ToSet(outbox') \subseteq ToSet(outbox) /\ Filed' = Filed /\ Memory' = Memory
        BY <1>1, <1>3 DEF Filed, Memory
    <1>5. CASE h.batch = Health
        BY <1>1, <1>4, <1>5 DEF CorrectedOnce, FrozenCorrection
    <1>6. CASE h.batch # Health
        <2>1. /\ m \in Nat /\ DOMAIN received = 1..m /\ DOMAIN received' = 1..m + 1
              /\ Len(received') = m + 1
              /\ \A i \in 1..m : received'[i] = received[i]
              /\ received'[m + 1] = h
              /\ \A i \in 1..m + 1 : i = m + 1 \/ i \in 1..m
            <3>1. h \in [batch : Batch, mark : Mark]
                BY <1>3, <1>6 DEF Entry
            <3>2. received' = Append(received, h)
                BY <1>1, <1>6
            <3> QED BY <1>2, <3>1, <3>2, Appended, LenProperties
        <2> HIDE DEF m
        <2>2. \A e \in ToSet(outbox) : e.batch = h.batch => e = h
            <3> SUFFICES ASSUME NEW e \in ToSet(outbox), e.batch = h.batch, e # h
                         PROVE  FALSE
                OBVIOUS
            <3>1. PICK j \in 1..Len(outbox) : e = outbox[j]
                BY <1>2, Members
            <3>2. 1 < j
                BY <1>3, <3>1
            <3>3. Earlier(bornIn, h.batch, e.batch)
                BY <1>3, <3>1, <3>2 DEF InOrder, QueuesInOrder, EntriesAscending
            <3>4. h.batch \in Nat
                BY <1>3, BoundsAssumption DEF Entry, Batch, Health
            <3> QED BY <1>6, <3>3, <3>4 DEF Earlier
        <2>3. h.batch \notin Filed \cup Memory
            <3>1. h.batch \in Queued(outbox) /\ h.batch \in Nat
                <4>1. 1 \in DOMAIN outbox
                    BY <1>2, <1>3, LenProperties
                <4>2. h.batch \in Queued(outbox)
                    BY <1>3, <1>6, <4>1 DEF Queued
                <4> QED BY <4>2, AllAccepted DEF Waiting
            <3>2. h.batch \in Filed \cup Memory => Earlier(bornIn, h.batch, h.batch)
                BY <3>1 DEF InOrder, StagesInOrder, Ahead
            <3> QED BY <1>6, <3>1, <3>2 DEF Earlier
        <2>4. \A i \in 1..m : received[i].batch = h.batch => received[i].mark = h.mark
            BY <1>3 DEF CorrectedOnce, m
        <2>5. FrozenCorrection'
            <3> SUFFICES ASSUME NEW i \in 1..m + 1, NEW j \in 1..m + 1,
                                received'[i].batch = received'[j].batch
                         PROVE  received'[i].mark = received'[j].mark
                BY <2>1 DEF FrozenCorrection
            <3>1. CASE i \in 1..m /\ j \in 1..m
                BY <2>1, <3>1 DEF CorrectedOnce, FrozenCorrection
            <3>2. CASE ~(i \in 1..m /\ j \in 1..m)
                BY <2>1, <2>4, <3>2
            <3> QED BY <3>1, <3>2
        <2>6. ASSUME NEW i \in 1..m + 1
              PROVE  /\ received'[i].batch \notin Filed \cup Memory
                     /\ \A e \in ToSet(outbox) :
                          received'[i].batch = e.batch => received'[i].mark = e.mark
            <3>1. CASE i = m + 1
                BY <2>1, <2>2, <2>3, <3>1
            <3>2. CASE i \in 1..m
                BY <2>1, <3>2 DEF CorrectedOnce, m
            <3> QED BY <2>1, <3>1, <3>2
        <2> QED BY <1>4, <2>1, <2>5, <2>6 DEF CorrectedOnce
    <1> QED BY <1>5, <1>6

LEMMA NextCorrectedOnce ==
    ASSUME SpoolInLine, TypeOK, Provenance, InOrder, CorrectedOnce, [Next]_vars
    PROVE  CorrectedOnce'
    <1>1. Moves \/ Accept \/ SendSucceeds \/ AnswerIsLost
        BY ProcessInOrder, IdleInOrder, ReceiveInOrder, SpillInOrder, HealthInOrder,
           SpoolShipsInOrder, BufferShipsInOrder
        DEF Next
    <1> QED BY <1>1, MovesCorrectedOnce, AcceptCorrectedOnce, SendCorrectedOnce

\* As long as the spool can be listed and its files deleted: however often the
\* answer to a delivery is lost, and whatever the clock does meanwhile, the
\* receiver gets the same bytes again, which its content hash needs (runtime.rs).
THEOREM RepeatsAreIdentical ==
    ASSUME SpoolInLine
    PROVE  Spec => []FrozenCorrection
    <1>1. TypeOK /\ Provenance /\ InOrder /\ CorrectedOnce /\ [Next]_vars => CorrectedOnce'
        BY NextCorrectedOnce
    <1>2. CorrectedOnce => FrozenCorrection
        BY DEF CorrectedOnce
    <1> QED BY InitCorrectedOnce, <1>1, <1>2, InOrderHolds, TypeCorrect, ProvenanceHolds,
               PTL DEF Spec

===============================================================================
