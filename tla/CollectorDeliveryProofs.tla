----------------------- MODULE CollectorDeliveryProofs -----------------------
(***************************************************************************)
(* Theorems about CollectorDelivery for every capacity, every set of boots *)
(* and I/O faults, and every bound; the last two of them, that it loses    *)
(* nothing and implements DeliveryContract, as long as the spool can be    *)
(* listed, read and written, whatever else fails.                          *)
(***************************************************************************)
EXTENDS CollectorDelivery, SequenceTheorems, TLAPS

\* Taking the oldest of a queue leaves a queue of the same things.
LEMMA TailOfSeq ==
    ASSUME NEW S, NEW q \in Seq(S), q # <<>>
    PROVE  /\ Head(q) \in S /\ Tail(q) \in Seq(S)
           /\ Len(q) \in Nat /\ Len(Tail(q)) <= Len(q)
    BY HeadTailProperties, LenProperties

\* Any stretch of a queue is a queue of the same things.
LEMMA StretchOfSeq ==
    ASSUME NEW S, NEW q \in Seq(S), NEW m \in Int, NEW n \in Int,
           1 <= m, n <= Len(q)
    PROVE  SubSeq(q, m, n) \in Seq(S)
    <1>1. \A i \in m..n : i \in 1..Len(q)
        BY LenProperties
    <1>2. \A i \in m..n : q[i] \in S
        BY <1>1, ElementOfSeq
    <1> QED BY <1>2, SubSeqProperties

\* The buffer, corrected, is a sequence of outbox entries.
LEMMA CorrectedIsSeq ==
    ASSUME NEW q \in Seq(Batch), frozen \in Mark
    PROVE  /\ Corrected(q) \in Seq(Entry)
           /\ Len(Corrected(q)) = Len(q)
           /\ \A i \in 1..Len(q) :
                Corrected(q)[i] = [batch |-> q[i], mark |-> frozen]
    <1>1. Len(q) \in Nat /\ \A i \in 1..Len(q) : q[i] \in Batch
        BY LenProperties, ElementOfSeq
    <1>2. Corrected(q) \in [1..Len(q) -> Entry]
        BY <1>1 DEF Corrected, Entry
    <1>3. Corrected(q) \in Seq(Entry)
        BY <1>1, <1>2, SeqDef
    <1> QED BY <1>1, <1>2, <1>3, LenProperties DEF Corrected

-----------------------------------------------------------------------------
(* Type correctness.                                                       *)

LEMMA NoCorrectionIsMark == NoCorrection \in Mark
    BY DEF Mark

LEMMA EmptySeqs ==
    /\ <<>> \in Seq(Batch) /\ <<>> \in Seq(Boots) /\ <<>> \in Seq(Entry)
    /\ <<>> \in Seq([batch : Batch, mark : Mark])
    /\ Len(<<>>) = 0
    BY EmptySeq

LEMMA InitTypeOK == Init => TypeOK
    <1>1. Init => MachineOK
        BY BoundsAssumption DEF Init, MachineOK
    <1>2. Init => FrontOK
        BY CapacitiesAssumption, BoundsAssumption, EmptySeqs
        DEF Init, FrontOK, FreshClock
    <1>3. Init => FlowOK
        BY EmptySeqs DEF Init, FlowOK
    <1>4. Init => ControlOK
        BY NoCorrectionIsMark DEF Init, ControlOK
    <1>5. Init => HistoryOK
        BY BoundsAssumption, EmptySeqs DEF Init, HistoryOK
    <1> QED BY <1>1, <1>2, <1>3, <1>4, <1>5 DEF TypeOK

\* What a step leaves alone keeps its type.
LEMMA Untouched ==
    /\ UNCHANGED machine /\ MachineOK => MachineOK'
    /\ UNCHANGED <<front, clock>> /\ FrontOK => FrontOK'
    /\ UNCHANGED flow /\ FlowOK => FlowOK'
    /\ UNCHANGED control /\ ControlOK => ControlOK'
    /\ UNCHANGED <<counters, history>> /\ HistoryOK => HistoryOK'
    BY DEF MachineOK, FrontOK, FlowOK, ControlOK, HistoryOK, machine, front, flow,
       control, counters, history

\* Coming up and going down empty-handed.
LEMMA EmptyHandedTypeOK ==
    ASSUME TypeOK, EmptyHanded, nextSeq' \in Nat, UNCHANGED bornIn,
           http' \in {"serving", "closed"}, pc' \in {"down", "select", "done"}
    PROVE  FrontOK' /\ FlowOK' /\ ControlOK'
    <1>1. FrontOK'
        BY CapacitiesAssumption, EmptySeqs
        DEF TypeOK, FrontOK, EmptyHanded, FreshClock
    <1>2. FlowOK'
        BY EmptySeqs DEF FlowOK, EmptyHanded
    <1>3. ControlOK'
        BY NoCorrectionIsMark DEF ControlOK, EmptyHanded
    <1> QED BY <1>1, <1>2, <1>3

\* Starting, stopping, crashing and losing power keep every type.
LEMMA ProcessTypeOK ==
    ASSUME TypeOK,
           \/ Start \/ StartWithoutSpool \/ Crash \/ MainExits \/ MainGivesUp
           \/ PowerLoss
    PROVE  TypeOK'
    <1> USE DEF TypeOK
    <1>1. CASE Start
        <2>1. nextSeq' \in Nat
            BY <1>1 DEF Start, ResumesAfter
        <2>2. FrontOK' /\ FlowOK' /\ ControlOK'
            BY <1>1, <2>1, EmptyHandedTypeOK DEF Start
        <2>3. HistoryOK'
            BY <1>1, BoundsAssumption DEF Start, HistoryOK, history
        <2>4. MachineOK'
            BY <1>1, Untouched DEF Start
        <2> QED BY <2>2, <2>3, <2>4
    <1>2. CASE StartWithoutSpool
        <2>1. nextSeq' \in Nat
            BY <1>2 DEF StartWithoutSpool, FlowOK
        <2>2. FrontOK' /\ FlowOK' /\ ControlOK'
            BY <1>2, <2>1, EmptyHandedTypeOK DEF StartWithoutSpool
        <2>3. HistoryOK'
            BY <1>2, BoundsAssumption DEF StartWithoutSpool, HistoryOK, history
        <2>4. MachineOK'
            BY <1>2, Untouched DEF StartWithoutSpool
        <2> QED BY <2>2, <2>3, <2>4
    <1>3. ASSUME Gone, MachineOK'
          PROVE  TypeOK'
        <2>1. FrontOK' /\ FlowOK' /\ ControlOK'
            BY <1>3, EmptyHandedTypeOK DEF Gone
        <2>2. HistoryOK'
            BY <1>3, Untouched DEF Gone
        <2> QED BY <1>3, <2>1, <2>2
    <1>4. CASE Crash \/ MainExits \/ MainGivesUp
        BY <1>3, <1>4, Untouched DEF Crash, MainExits, MainGivesUp
    <1>5. CASE PowerLoss
        <2>1. PICK torn \in SUBSET disk :
                disk' = (disk \ torn) \cup {[f EXCEPT !.intact = FALSE] : f \in torn}
            BY <1>5 DEF PowerLoss
        <2>2. \A f \in torn : [f EXCEPT !.intact = FALSE] \in File
            BY DEF MachineOK, File
        <2>3. MachineOK'
            BY <1>5, <2>1, <2>2, BoundsAssumption DEF MachineOK, PowerLoss
        <2>4. CASE pc = "down"
            BY <1>5, <2>3, <2>4, Untouched DEF PowerLoss
        <2>5. CASE pc # "down"
            BY <1>5, <2>3, <2>5, <1>3 DEF PowerLoss
        <2> QED BY <2>4, <2>5
    <1> QED BY <1>1, <1>2, <1>4, <1>5

\* The handlers, the clock and the passing of time keep every type.
LEMMA SurroundingsTypeOK ==
    ASSUME TypeOK,
           \/ Shutdown \/ AbortClock \/ Accept \/ Release \/ ClockStep
           \/ HoldExpires \/ RetryFallsDue
    PROVE  TypeOK'
    <1> USE DEF TypeOK
    <1>1. CASE Shutdown
        BY <1>1, Untouched DEF Shutdown, FrontOK
    <1>2. CASE AbortClock
        BY <1>2, Untouched DEF AbortClock, FrontOK, front
    <1>3. CASE Accept
        <2>1. /\ Len(bornIn) + 1 \in Batch
              /\ Len(inbox) \in Nat /\ Len(bornIn) \in Nat
            BY <1>3, BoundsAssumption, LenProperties DEF Accept, FrontOK, Batch
        <2>2. /\ inbox' \in Seq(Batch) /\ Len(inbox') = Len(inbox) + 1
              /\ bornIn' \in Seq(Boots) /\ Len(bornIn') = Len(bornIn) + 1
            BY <1>3, <2>1, AppendProperties DEF Accept, FrontOK, MachineOK
        <2>3. FrontOK'
            BY <1>3, <2>1, <2>2, CapacitiesAssumption, BoundsAssumption
            DEF Accept, FrontOK, HasRoom
        <2> QED BY <1>3, <2>3, Untouched DEF Accept
    <1>4. CASE Release
        BY <1>4, Untouched DEF Release, FrontOK, front
    <1>5. CASE ClockStep
        BY <1>5, Untouched, BoundsAssumption DEF ClockStep, MachineOK
    <1>6. CASE HoldExpires
        BY <1>6, Untouched DEF HoldExpires, FlowOK
    <1>7. CASE RetryFallsDue
        BY <1>7, Untouched DEF RetryFallsDue, FlowOK
    <1> QED BY <1>1, <1>2, <1>3, <1>4, <1>5, <1>6, <1>7

\* Taking a batch into the buffer and evicting the oldest from it.
LEMMA PushTypeOK ==
    ASSUME NEW q \in Seq(Batch), NEW n \in 0..Len(q) - 1, Push(q, n)
    PROVE  buffer' \in Seq(Batch) /\ spilling' \in Seq(Batch)
    <1>1. n \in Int /\ Len(q) \in Nat /\ n + 1 \in Int
        BY LenProperties
    <1> QED BY <1>1, StretchOfSeq DEF Push, DropFirst

\* The arms of select! keep every type.
LEMMA LoopTypeOK ==
    ASSUME TypeOK, Receive \/ Spill \/ Wake \/ EmitHealth \/ Break
    PROVE  TypeOK'
    <1> USE DEF TypeOK
    <1>1. CASE Receive
        <2>1. Head(inbox) \in Batch /\ Tail(inbox) \in Seq(Batch)
              /\ Len(inbox) \in Nat /\ Len(Tail(inbox)) = Len(inbox) - 1
            BY <1>1, HeadTailProperties, LenProperties DEF Receive, FrontOK
        <2>2. FrontOK'
            BY <1>1, <2>1, CapacitiesAssumption DEF Receive, FrontOK
        <2>3. Append(buffer, Head(inbox)) \in Seq(Batch)
            BY <2>1, AppendProperties DEF FlowOK
        <2>4. buffer' \in Seq(Batch) /\ spilling' \in Seq(Batch)
            BY <1>1, <2>3, PushTypeOK DEF Receive
        <2>5. FlowOK'
            BY <1>1, <2>4 DEF Receive, FlowOK, DirtyAfter
        <2>6. ControlOK'
            BY <1>1 DEF Receive, ControlOK
        <2> QED BY <1>1, <2>2, <2>5, <2>6, Untouched DEF Receive
    <1>2. CASE Spill
        <2>1. Head(spilling) \in Batch /\ Tail(spilling) \in Seq(Batch)
            BY <1>2, HeadTailProperties DEF Spill, FlowOK
        <2> DEFINE file == [boot |-> boot, seq |-> nextSeq,
                            batch |-> Head(spilling), intact |-> TRUE]
        <2>2. file \in File
            BY <2>1 DEF MachineOK, FlowOK, File
        <2> HIDE DEF file
        <2>3. disk' \subseteq disk \cup {file}
            BY <1>2 DEF Spill, file
        <2>4. MachineOK'
            BY <1>2, <2>2, <2>3 DEF Spill, MachineOK
        <2>5. FlowOK'
            BY <1>2, <2>1 DEF Spill, FlowOK
        <2> QED BY <1>2, <2>4, <2>5, Untouched DEF Spill
    <1>3. CASE Wake
        BY <1>3, Untouched DEF Wake, ControlOK
    <1>4. CASE EmitHealth
        <2>1. [batch |-> Health, mark |-> NoCorrection] \in Entry
            BY NoCorrectionIsMark DEF Entry
        <2>2. FlowOK'
            BY <1>4, <2>1, AppendProperties DEF EmitHealth, FlowOK
        <2>3. ControlOK'
            BY <1>4 DEF EmitHealth, ControlOK
        <2>4. HistoryOK'
            BY <1>4, BoundsAssumption DEF EmitHealth, HistoryOK, history
        <2> QED BY <1>4, <2>2, <2>3, <2>4, Untouched DEF EmitHealth
    <1>5. CASE Break
        <2>1. FlowOK'
            BY <1>5 DEF Break, FlowOK
        <2>2. ControlOK'
            BY <1>5 DEF Break, ControlOK
        <2> QED BY <1>5, <2>1, <2>2, Untouched DEF Break
    <1> QED BY <1>1, <1>2, <1>3, <1>4, <1>5

\* Correcting what is in hand keeps every type.
LEMMA CorrectTypeOK ==
    ASSUME TypeOK, Decide \/ ReadSpool \/ ShipSpooled \/ ShipBuffer
    PROVE  TypeOK'
    <1> USE DEF TypeOK
    <1>1. CASE Decide
        <2>1. [boot |-> boot, step |-> steps] \in Mark
            BY DEF MachineOK, Mark, Correction
        <2>2. ControlOK'
            BY <1>1, <2>1, NoCorrectionIsMark DEF Decide, ControlOK, BackoffOver
        <2>3. FlowOK'
            BY <1>1 DEF Decide, FlowOK
        <2> QED BY <1>1, <2>2, <2>3, Untouched DEF Decide
    <1>2. CASE ReadSpool
        <2>1. MachineOK' /\ todo' \subseteq File
            BY <1>2 DEF ReadSpool, MachineOK, ControlOK
        <2>2. ControlOK'
            BY <1>2, <2>1 DEF ReadSpool, ControlOK
        <2> QED BY <1>2, <2>1, <2>2, Untouched DEF ReadSpool
    <1>3. CASE ShipSpooled
        <2>1. PICK f \in todo :
                /\ outbox' = Append(outbox, [batch |-> f.batch, mark |-> MarkFor(f)])
                /\ todo' = todo \ {f}
                /\ disk' = disk \ {f} \/ disk' = disk
            BY <1>3 DEF ShipSpooled
        <2>2. [batch |-> f.batch, mark |-> MarkFor(f)] \in Entry
            BY <2>1, NoCorrectionIsMark DEF ControlOK, File, Entry, MarkFor
        <2>3. FlowOK'
            BY <1>3, <2>1, <2>2, AppendProperties DEF ShipSpooled, FlowOK
        <2>4. MachineOK' /\ ControlOK'
            BY <1>3, <2>1 DEF ShipSpooled, MachineOK, ControlOK
        <2> QED BY <1>3, <2>3, <2>4, Untouched DEF ShipSpooled
    <1>4. CASE ShipBuffer
        <2> DEFINE all == outbox \o Corrected(buffer)
                   n == Excess(Len(all))
        <2>1. all \in Seq(Entry) /\ Len(all) \in Nat
            BY CorrectedIsSeq, ConcatProperties, LenProperties DEF FlowOK, ControlOK
        <2>2. n \in 0..Len(all)
            BY <2>1, CapacitiesAssumption DEF Excess
        <2> HIDE DEF all, n
        <2>3. DropFirst(all, n) \in Seq(Entry)
            BY <2>1, <2>2, StretchOfSeq DEF DropFirst
        <2>4. \A i \in 1..n : all[i] \in Entry
            BY <2>1, <2>2, ElementOfSeq
        <2>5. outbox' = DropFirst(all, n)
              /\ shed' = shed \cup ({all[i].batch : i \in 1..n} \ {Health})
            BY <1>4 DEF ShipBuffer, all, n, Keep
        <2>6. FlowOK'
            BY <1>4, <2>3, <2>5, EmptySeqs DEF ShipBuffer, FlowOK
        <2>7. HistoryOK'
            BY <1>4, <2>4, <2>5 DEF ShipBuffer, HistoryOK, Entry, counters
        <2>8. MachineOK'
            BY <1>4 DEF ShipBuffer, MachineOK, OwnFiles
        <2>9. ControlOK'
            BY <1>4, NoCorrectionIsMark DEF ShipBuffer, ControlOK
        <2> QED BY <1>4, <2>6, <2>7, <2>8, <2>9, Untouched DEF ShipBuffer
    <1> QED BY <1>1, <1>2, <1>3, <1>4

\* What arrives at the receiver is a batch with its mark.
LEMMA ArrivesTypeOK ==
    ASSUME TypeOK, Sending, Arrives
    PROVE  /\ received' \in Seq([batch : Batch, mark : Mark])
           /\ Tail(outbox) \in Seq(Entry)
    <1>1. Head(outbox) \in Entry /\ Tail(outbox) \in Seq(Entry)
        BY HeadTailProperties DEF Sending, TypeOK, FlowOK
    <1>2. CASE Head(outbox).batch = Health
        BY <1>1, <1>2 DEF Arrives, TypeOK, HistoryOK
    <1>3. CASE Head(outbox).batch # Health
        <2>1. Head(outbox) \in [batch : Batch, mark : Mark]
            BY <1>1, <1>3 DEF Entry
        <2> QED BY <1>1, <1>3, <2>1, AppendProperties DEF Arrives, TypeOK, HistoryOK
    <1> QED BY <1>2, <1>3

\* Sending keeps every type.
LEMMA DeliverTypeOK ==
    ASSUME TypeOK, Rest \/ SendSucceeds \/ SendFails \/ AnswerIsLost
    PROVE  TypeOK'
    <1> USE DEF TypeOK
    <1>1. CASE Rest
        BY <1>1, Untouched DEF Rest, EndCycle, ControlOK
    <1>2. CASE SendSucceeds
        <2>1. HistoryOK'
            BY <1>2, ArrivesTypeOK DEF SendSucceeds, HistoryOK, counters
        <2>2. FlowOK'
            BY <1>2, ArrivesTypeOK DEF SendSucceeds, FlowOK
        <2> QED BY <1>2, <2>1, <2>2, Untouched DEF SendSucceeds
    <1>3. CASE SendFails
        <2>1. ControlOK'
            BY <1>3 DEF SendFails, EndCycle, ControlOK
        <2>2. FlowOK'
            BY <1>3 DEF SendFails, FlowOK
        <2> QED BY <1>3, <2>1, <2>2, Untouched DEF SendFails
    <1>4. CASE AnswerIsLost
        <2>1. HistoryOK'
            BY <1>4, ArrivesTypeOK, BoundsAssumption DEF AnswerIsLost, HistoryOK
        <2>2. FlowOK'
            BY <1>4 DEF AnswerIsLost, FlowOK
        <2>3. ControlOK'
            BY <1>4 DEF AnswerIsLost, EndCycle, ControlOK
        <2> QED BY <1>4, <2>1, <2>2, <2>3, Untouched DEF AnswerIsLost
    <1> QED BY <1>1, <1>2, <1>3, <1>4

LEMMA NextTypeOK == TypeOK /\ [Next]_vars => TypeOK'
    <1> SUFFICES ASSUME TypeOK, [Next]_vars PROVE TypeOK'
        OBVIOUS
    <1>1. CASE UNCHANGED vars
        BY <1>1, Untouched DEF vars, TypeOK
    <1>2. CASE Next
        BY <1>2, ProcessTypeOK, SurroundingsTypeOK, LoopTypeOK, CorrectTypeOK,
           DeliverTypeOK DEF Next
    <1> QED BY <1>1, <1>2

\* Type correctness, and with it the depth of the inbox, in every behaviour
\* and under every I/O fault.
THEOREM TypeCorrect == Spec => []TypeOK
    BY InitTypeOK, NextTypeOK, PTL DEF Spec

-----------------------------------------------------------------------------
(* Provenance: which boot a batch belongs to is never confused. The queues *)
(* in memory hold this boot's batches, a file those of its directory's     *)
(* boot, an entry carries no other boot's offset; and a process that is    *)
(* gone holds nothing the next boot could take for its own.                *)

Mine == {b \in Accepted : bornIn[b] = boot}
FiledRight == {f \in File : f.batch \in Accepted /\ bornIn[f.batch] = f.boot}
OwnEntry == {e \in [batch : Accepted, mark : Mark] : OwnOffset(e)}
HealthEntry == [batch : {Health}, mark : {NoCorrection}]

QueuesMine ==
    inbox \in Seq(Mine) /\ buffer \in Seq(Mine) /\ spilling \in Seq(Mine)
EntriesOwn ==
    outbox \in Seq(OwnEntry \cup HealthEntry) /\ received \in Seq(OwnEntry)
FilesOwn == disk \subseteq FiledRight /\ todo \subseteq disk
FrozenOwn == frozen # NoCorrection => frozen.boot = boot
DownEmpty ==
    /\ pc = "down" => /\ inbox = <<>> /\ buffer = <<>> /\ spilling = <<>>
                      /\ frozen = NoCorrection
    /\ pc # "correct" => todo = {}
Provenance == QueuesMine /\ EntriesOwn /\ FilesOwn /\ FrozenOwn /\ DownEmpty

LEMMA InitProvenance == Init => Provenance
    <1> SUFFICES ASSUME Init PROVE Provenance
        OBVIOUS
    <1>1. \A S : <<>> \in Seq(S)
        BY EmptySeq
    <1> QED BY <1>1
        DEF Init, Provenance, QueuesMine, EntriesOwn, FilesOwn, FrozenOwn, DownEmpty

\* Where a batch was born is a fact that later steps leave alone.
LEMMA BirthsStay ==
    ASSUME UNCHANGED <<bornIn, boot>>
    PROVE  Mine' = Mine /\ FiledRight' = FiledRight /\ OwnEntry' = OwnEntry
    BY DEF Mine, FiledRight, OwnEntry, Accepted, OwnOffset

\* What a step leaves alone keeps its part of Provenance.
LEMMA ProvenanceUntouched ==
    ASSUME Provenance, UNCHANGED <<bornIn, boot>>
    PROVE  /\ UNCHANGED <<inbox, buffer, spilling>> => QueuesMine'
           /\ UNCHANGED <<outbox, received>> => EntriesOwn'
           /\ UNCHANGED <<disk, todo>> => FilesOwn'
           /\ UNCHANGED frozen => FrozenOwn'
           /\ UNCHANGED <<pc, inbox, buffer, spilling, todo, frozen>> => DownEmpty'
           /\ pc' # "down" /\ (pc # "correct" \/ pc' = pc) /\ UNCHANGED todo
                => DownEmpty'
    BY BirthsStay
    DEF Provenance, QueuesMine, EntriesOwn, FilesOwn, FrozenOwn, DownEmpty

\* A process that is gone has taken its memory along, whichever boot follows.
LEMMA EmptyHandedProvenance ==
    ASSUME Provenance, EmptyHanded, UNCHANGED <<bornIn, received>>
    PROVE  QueuesMine' /\ EntriesOwn' /\ FrozenOwn' /\ DownEmpty' /\ todo' = {}
    <1>1. \A S : <<>> \in Seq(S)
        BY EmptySeq
    <1>2. OwnEntry' = OwnEntry
        BY DEF OwnEntry, Accepted, OwnOffset
    <1> QED BY <1>1, <1>2
        DEF Provenance, EmptyHanded, QueuesMine, EntriesOwn, FrozenOwn, DownEmpty

LEMMA ProcessProvenance ==
    ASSUME TypeOK, Provenance,
           \/ Start \/ StartWithoutSpool \/ Crash \/ MainExits \/ MainGivesUp
           \/ PowerLoss
    PROVE  Provenance'
    <1> USE DEF Provenance
    <1>1. CASE Start \/ StartWithoutSpool \/ Crash \/ MainExits \/ MainGivesUp
        <2>1. EmptyHanded /\ UNCHANGED <<bornIn, received, disk, boot>>
            BY <1>1 DEF Start, StartWithoutSpool, Crash, MainExits, MainGivesUp,
               Gone, machine, history
        <2>2. FilesOwn'
            BY <2>1, EmptyHandedProvenance, BirthsStay DEF FilesOwn
        <2> QED BY <2>1, <2>2, EmptyHandedProvenance
    <1>2. CASE PowerLoss
        <2>1. PICK torn \in SUBSET disk :
                disk' = (disk \ torn) \cup {[f EXCEPT !.intact = FALSE] : f \in torn}
            BY <1>2 DEF PowerLoss
        <2>2. UNCHANGED <<bornIn, received>>
            BY <1>2 DEF PowerLoss, Gone, front, history
        <2>3. FiledRight' = FiledRight
            BY <2>2 DEF FiledRight, Accepted
        <2>4. \A f \in torn : [f EXCEPT !.intact = FALSE] \in FiledRight
            BY DEF FilesOwn, FiledRight, File
        <2>5. disk' \subseteq FiledRight'
            BY <2>1, <2>3, <2>4 DEF FilesOwn
        <2>6. CASE pc = "down"
            <3>1. UNCHANGED <<front, flow, control, history>>
                BY <1>2, <2>6 DEF PowerLoss
            <3>2. /\ inbox' = <<>> /\ buffer' = <<>> /\ spilling' = <<>>
                  /\ todo' = {} /\ frozen' = NoCorrection
                BY <2>6, <3>1 DEF DownEmpty, front, flow, control
            <3>3. OwnEntry' = OwnEntry
                BY <2>2 DEF OwnEntry, Accepted, OwnOffset
            <3>4. \A S : <<>> \in Seq(S)
                BY EmptySeq
            <3>5. QueuesMine' /\ FrozenOwn' /\ DownEmpty'
                BY <3>2, <3>4 DEF QueuesMine, FrozenOwn, DownEmpty
            <3>6. EntriesOwn' /\ FilesOwn'
                BY <2>5, <3>1, <3>2, <3>3
                DEF EntriesOwn, FilesOwn, flow, history
            <3> QED BY <3>5, <3>6
        <2>7. CASE pc # "down"
            <3>1. EmptyHanded
                BY <1>2, <2>7 DEF PowerLoss, Gone
            <3>2. FilesOwn'
                BY <2>2, <2>5, <3>1, EmptyHandedProvenance DEF FilesOwn
            <3> QED BY <2>2, <3>1, <3>2, EmptyHandedProvenance
        <2> QED BY <2>6, <2>7
    <1> QED BY <1>1, <1>2

\* Accept is the one action that adds a birth.
LEMMA AcceptProvenance ==
    ASSUME TypeOK, Provenance, Accept
    PROVE  Provenance'
    <1>1. /\ Len(bornIn) \in Nat /\ Len(bornIn') = Len(bornIn) + 1
          /\ \A i \in 1..Len(bornIn) : bornIn'[i] = bornIn[i]
          /\ bornIn'[Len(bornIn) + 1] = boot /\ boot' = boot
        BY AppendProperties, LenProperties
        DEF Accept, TypeOK, FrontOK, MachineOK, machine
    <1>2. Accepted \subseteq Accepted' /\ Len(bornIn) + 1 \in Accepted'
        BY <1>1 DEF Accepted
    <1>3. Mine \subseteq Mine' /\ Len(bornIn) + 1 \in Mine'
        BY <1>1, <1>2 DEF Mine, Accepted
    <1>4. FiledRight \subseteq FiledRight'
        BY <1>1, <1>2 DEF FiledRight, Accepted
    <1>5. OwnEntry \subseteq OwnEntry'
        BY <1>1, <1>2 DEF OwnEntry, OwnOffset, Accepted
    <1>6. /\ UNCHANGED <<buffer, spilling, outbox, received, disk, todo, frozen, pc>>
          /\ inbox' = Append(inbox, Len(bornIn) + 1)
          /\ pc' # "down"
        BY DEF Accept, machine, flow, control, history
    <1>7. QueuesMine'
        <2>1. inbox \in Seq(Mine') /\ buffer \in Seq(Mine') /\ spilling \in Seq(Mine')
            BY <1>3, SeqMonotonic DEF Provenance, QueuesMine
        <2> QED BY <1>3, <1>6, <2>1, AppendProperties DEF QueuesMine
    <1>8. EntriesOwn'
        <2>1. /\ outbox \in Seq(OwnEntry' \cup HealthEntry)
              /\ received \in Seq(OwnEntry')
            BY <1>5, SeqMonotonic DEF Provenance, EntriesOwn
        <2> QED BY <1>6, <2>1 DEF EntriesOwn, HealthEntry
    <1>9. FilesOwn'
        BY <1>4, <1>6 DEF Provenance, FilesOwn
    <1>10. FrozenOwn' /\ DownEmpty'
        BY <1>1, <1>6 DEF Provenance, FrozenOwn, DownEmpty
    <1> QED BY <1>7, <1>8, <1>9, <1>10 DEF Provenance

LEMMA LoopProvenance ==
    ASSUME TypeOK, Provenance, Receive \/ Spill \/ EmitHealth
    PROVE  Provenance'
    <1> USE DEF Provenance
    <1>1. CASE Receive
        <2>1. UNCHANGED <<bornIn, boot, outbox, received, disk, todo, frozen>>
              /\ pc = "select" /\ pc' # "down"
            BY <1>1 DEF Receive, machine, history
        <2>2. Head(inbox) \in Mine /\ Tail(inbox) \in Seq(Mine)
            BY <1>1, HeadTailProperties DEF Receive, QueuesMine
        <2>3. Append(buffer, Head(inbox)) \in Seq(Mine)
            BY <2>2, AppendProperties DEF QueuesMine
        <2>4. PICK n \in 0..Len(Append(buffer, Head(inbox))) - 1 :
                Push(Append(buffer, Head(inbox)), n)
            BY <1>1 DEF Receive
        <2>5. /\ n \in Int /\ n + 1 \in Int
              /\ n <= Len(Append(buffer, Head(inbox)))
              /\ Len(Append(buffer, Head(inbox))) \in Int
            BY <2>3, <2>4, LenProperties
        <2>6. buffer' \in Seq(Mine) /\ spilling' \in Seq(Mine)
            BY <2>3, <2>4, <2>5, StretchOfSeq DEF Push, DropFirst
        <2>7. QueuesMine'
            BY <1>1, <2>1, <2>2, <2>6, BirthsStay DEF QueuesMine, Receive
        <2> QED BY <2>1, <2>7, ProvenanceUntouched
    <1>2. CASE Spill
        <2>1. UNCHANGED <<bornIn, boot, inbox, buffer, outbox, received, todo, frozen,
                          pc>>
              /\ pc' # "down" /\ spilling' = Tail(spilling)
            BY <1>2 DEF Spill, front, control, history
        <2>2. Head(spilling) \in Mine /\ Tail(spilling) \in Seq(Mine)
            BY <1>2, HeadTailProperties DEF Spill, QueuesMine
        <2>3. QueuesMine'
            BY <2>1, <2>2, BirthsStay DEF QueuesMine
        <2>4. disk' \subseteq FiledRight'
            <3> DEFINE file == [boot |-> boot, seq |-> nextSeq,
                                batch |-> Head(spilling), intact |-> TRUE]
            <3>1. Head(spilling) \in Batch
                BY <1>2, HeadTailProperties DEF Spill, TypeOK, FlowOK
            <3>2. file \in FiledRight
                BY <2>2, <3>1 DEF FiledRight, File, Mine, TypeOK, MachineOK, FlowOK
            <3> HIDE DEF file
            <3>3. disk' \subseteq disk \cup {file}
                BY <1>2 DEF Spill, file
            <3> QED BY <2>1, <3>2, <3>3, BirthsStay DEF FilesOwn
        <2>5. todo' \subseteq disk'
            BY <1>2, <2>1 DEF Spill, DownEmpty
        <2> QED BY <2>1, <2>3, <2>4, <2>5, ProvenanceUntouched DEF FilesOwn
    <1>3. CASE EmitHealth
        <2>1. UNCHANGED <<bornIn, boot, inbox, buffer, spilling, received, disk, todo,
                          frozen>>
              /\ pc = "select" /\ pc' # "down"
              /\ outbox' = Append(outbox, [batch |-> Health, mark |-> NoCorrection])
            BY <1>3 DEF EmitHealth, machine, front, history
        <2>2. [batch |-> Health, mark |-> NoCorrection] \in OwnEntry \cup HealthEntry
            BY DEF HealthEntry
        <2>3. EntriesOwn'
            BY <2>1, <2>2, AppendProperties, BirthsStay DEF EntriesOwn, HealthEntry
        <2> QED BY <2>1, <2>3, ProvenanceUntouched
    <1> QED BY <1>1, <1>2, <1>3

LEMMA CorrectProvenance ==
    ASSUME TypeOK, Provenance, Decide \/ ReadSpool \/ ShipSpooled \/ ShipBuffer
    PROVE  Provenance'
    <1> USE DEF Provenance
    <1>1. CASE Decide
        <2>1. UNCHANGED <<bornIn, boot, inbox, buffer, spilling, outbox, received, disk,
                          todo>>
              /\ pc = "cycle" /\ pc' # "down"
            BY <1>1 DEF Decide, machine, front, history
        <2>2. FrozenOwn'
            BY <1>1, <2>1 DEF Decide, FrozenOwn
        <2> QED BY <2>1, <2>2, ProvenanceUntouched
    <1>2. CASE ReadSpool
        <2>1. UNCHANGED <<bornIn, boot, inbox, buffer, spilling, outbox, received,
                          frozen>>
              /\ pc = "read" /\ pc' = "correct"
            BY <1>2 DEF ReadSpool, front, flow, history
        <2>2. todo' \subseteq disk' /\ disk' \subseteq disk
            BY <1>2, <2>1 DEF ReadSpool, FilesOwn
        <2>3. FilesOwn'
            BY <2>1, <2>2, BirthsStay DEF FilesOwn
        <2> QED BY <2>1, <2>3, ProvenanceUntouched DEF DownEmpty
    <1>3. CASE ShipSpooled
        <2>1. UNCHANGED <<bornIn, boot, inbox, buffer, spilling, received, frozen, pc>>
              /\ pc = "correct"
            BY <1>3 DEF ShipSpooled, front, history
        <2>2. PICK f \in todo :
                /\ outbox' = Append(outbox, [batch |-> f.batch, mark |-> MarkFor(f)])
                /\ todo' = todo \ {f}
                /\ disk' = disk \ {f} \/ disk' = disk
            BY <1>3 DEF ShipSpooled
        <2>3. f \in FiledRight
            BY DEF FilesOwn
        <2>4. [batch |-> f.batch, mark |-> MarkFor(f)] \in OwnEntry
            BY <2>3, NoCorrectionIsMark
            DEF FiledRight, OwnEntry, OwnOffset, MarkFor, FrozenOwn, TypeOK, ControlOK
        <2>5. EntriesOwn'
            BY <2>1, <2>2, <2>4, AppendProperties, BirthsStay
            DEF EntriesOwn, HealthEntry
        <2>6. FilesOwn'
            BY <2>1, <2>2, BirthsStay DEF FilesOwn
        <2>7. DownEmpty'
            BY <2>1 DEF DownEmpty
        <2> QED BY <2>1, <2>5, <2>6, <2>7, ProvenanceUntouched
    <1>4. CASE ShipBuffer
        <2> DEFINE Entries == OwnEntry \cup HealthEntry
                   all == outbox \o Corrected(buffer)
                   n == Excess(Len(all))
        <2>1. UNCHANGED <<bornIn, boot, inbox, spilling, received, todo>>
              /\ pc' = "deliver" /\ todo = {} /\ buffer' = <<>>
              /\ frozen' = NoCorrection
            BY <1>4 DEF ShipBuffer, front
        <2>2. Corrected(buffer) \in Seq(OwnEntry)
            <3>1. Len(buffer) \in Nat /\ \A i \in 1..Len(buffer) : buffer[i] \in Mine
                BY LenProperties, ElementOfSeq DEF QueuesMine
            <3>2. \A b \in Mine : [batch |-> b, mark |-> frozen] \in OwnEntry
                BY DEF Mine, OwnEntry, OwnOffset, FrozenOwn, TypeOK, ControlOK
            <3>3. Corrected(buffer) \in [1..Len(buffer) -> OwnEntry]
                BY <3>1, <3>2 DEF Corrected
            <3> QED BY <3>1, <3>3, SeqDef
        <2>3. Corrected(buffer) \in Seq(Entries) /\ outbox \in Seq(Entries)
            BY <2>2, SeqMonotonic DEF EntriesOwn
        <2> HIDE DEF Entries
        <2>4. all \in Seq(Entries) /\ Len(all) \in Nat
            BY <2>3, ConcatProperties, LenProperties
        <2>5. n \in 0..Len(all)
            BY <2>4, CapacitiesAssumption DEF Excess
        <2> HIDE DEF all, n
        <2>6. DropFirst(all, n) \in Seq(Entries)
            BY <2>4, <2>5, StretchOfSeq DEF DropFirst
        <2>7. outbox' = DropFirst(all, n)
            BY <1>4 DEF ShipBuffer, Keep, all, n
        <2>8. EntriesOwn'
            BY <2>1, <2>6, <2>7, BirthsStay DEF EntriesOwn, Entries, HealthEntry
        <2>9. QueuesMine'
            <3>1. <<>> \in Seq(Mine)
                BY EmptySeq
            <3> QED BY <2>1, <3>1, BirthsStay DEF QueuesMine
        <2>10. FilesOwn'
            <3>1. disk' \subseteq disk
                BY <1>4 DEF ShipBuffer, OwnFiles
            <3> QED BY <2>1, <3>1, BirthsStay DEF FilesOwn
        <2>11. FrozenOwn' /\ DownEmpty'
            BY <2>1 DEF FrozenOwn, DownEmpty
        <2> QED BY <2>8, <2>9, <2>10, <2>11
    <1> QED BY <1>1, <1>2, <1>3, <1>4

LEMMA DeliverProvenance ==
    ASSUME TypeOK, Provenance, SendSucceeds \/ SendFails \/ AnswerIsLost
    PROVE  Provenance'
    <1> USE DEF Provenance
    <1>1. UNCHANGED <<bornIn, boot, inbox, buffer, spilling, disk, todo, frozen>>
          /\ outbox # <<>> /\ pc = "deliver" /\ pc' \in {"deliver", "select", "done"}
        BY DEF SendSucceeds, SendFails, AnswerIsLost, Sending, EndCycle, machine,
           front, control
    <1>2. outbox' \in {outbox, Tail(outbox)} /\ (Arrives \/ received' = received)
        BY DEF SendSucceeds, SendFails, AnswerIsLost, history
    <1>3. /\ Head(outbox) \in OwnEntry \cup HealthEntry
          /\ Tail(outbox) \in Seq(OwnEntry \cup HealthEntry)
        BY <1>1, HeadTailProperties DEF EntriesOwn
    <1>4. Arrives => received' \in Seq(OwnEntry)
        <2>1. Head(outbox).batch # Health => Head(outbox) \in OwnEntry
            BY <1>3 DEF HealthEntry
        <2> QED BY <2>1, AppendProperties DEF Arrives, EntriesOwn
    <1>5. EntriesOwn'
        BY <1>1, <1>2, <1>3, <1>4, BirthsStay DEF EntriesOwn, HealthEntry
    <1> QED BY <1>1, <1>5, ProvenanceUntouched

\* The remaining actions touch nothing that Provenance speaks of.
LEMMA OtherProvenance ==
    ASSUME TypeOK, Provenance,
           \/ Shutdown \/ AbortClock \/ Release \/ ClockStep \/ HoldExpires
           \/ RetryFallsDue \/ Wake \/ Break \/ Rest \/ UNCHANGED vars
    PROVE  Provenance'
    <1>1. UNCHANGED <<bornIn, boot, inbox, buffer, spilling, outbox, received, disk,
                      todo, frozen>>
        BY DEF Shutdown, AbortClock, Release, ClockStep, HoldExpires, RetryFallsDue,
           Wake, Break, Rest, vars, machine, front, flow, control, history
    <1>2. \/ UNCHANGED pc
          \/ pc' # "down" /\ pc # "correct"
        BY DEF Shutdown, AbortClock, Release, ClockStep, HoldExpires, RetryFallsDue,
           Wake, Break, Rest, EndCycle, vars, control
    <1> QED BY <1>1, <1>2, ProvenanceUntouched DEF Provenance

LEMMA NextProvenance == TypeOK /\ Provenance /\ [Next]_vars => Provenance'
    BY ProcessProvenance, AcceptProvenance, LoopProvenance, CorrectProvenance,
       DeliverProvenance, OtherProvenance DEF Next

LEMMA ProvenanceHolds == Spec => []Provenance
    BY InitProvenance, NextProvenance, TypeCorrect, PTL DEF Spec

\* Under every I/O fault, crash and reboot: no batch is projected with the
\* offset of a boot other than the one it arrived in (design 8.4).
THEOREM NoForeignOffset == Spec => []OwnOffsetOnly
    <1>1. Provenance => OwnOffsetOnly
        <2> SUFFICES ASSUME Provenance,
                            NEW e \in ToSet(received)
                                      \cup {x \in ToSet(outbox) : x.batch # Health}
                     PROVE  OwnOffset(e)
            BY DEF OwnOffsetOnly
        <2>1. CASE e \in ToSet(received)
            BY <2>1, ElementOfSeq, LenProperties
            DEF ToSet, Provenance, EntriesOwn, OwnEntry
        <2>2. CASE e \in ToSet(outbox) /\ e.batch # Health
            <3>1. e \in OwnEntry \cup HealthEntry
                BY <2>2, ElementOfSeq, LenProperties DEF ToSet, Provenance, EntriesOwn
            <3> QED BY <2>2, <3>1 DEF HealthEntry, OwnEntry
        <2> QED BY <2>1, <2>2
    <1> QED BY <1>1, ProvenanceHolds, PTL

-----------------------------------------------------------------------------
(* Nothing is lost: where every batch is, and what each action moves.      *)

\* Of two batches of one boot, b came first. A health event has no boot.
Earlier(born, b, c) ==
    b # Health /\ c # Health /\ born[b] = born[c] => b < c
Ahead(born, S, T) == \A b \in S, c \in T : Earlier(born, b, c)
Ascending(born, q) ==
    \A i, j \in 1..Len(q) : i < j => Earlier(born, q[i], q[j])
EntriesAscending(born, q) ==
    \A i, j \in 1..Len(q) : i < j => Earlier(born, q[i].batch, q[j].batch)

-----------------------------------------------------------------------------
(* Queues and what is in them.                                             *)

LEMMA Members ==
    ASSUME NEW S, NEW q \in Seq(S)
    PROVE  /\ Len(q) \in Nat /\ ToSet(q) \subseteq S
           /\ \A i \in 1..Len(q) : q[i] \in S /\ q[i] \in ToSet(q)
           /\ \A x \in ToSet(q) : \E i \in 1..Len(q) : x = q[i]
    BY LenProperties, ElementOfSeq DEF ToSet

LEMMA Appended ==
    ASSUME NEW S, NEW q \in Seq(S), NEW x \in S
    PROVE  /\ Len(Append(q, x)) = Len(q) + 1 /\ Append(q, x) \in Seq(S)
           /\ \A i \in 1..Len(q) : Append(q, x)[i] = q[i]
           /\ Append(q, x)[Len(q) + 1] = x
           /\ ToSet(Append(q, x)) = ToSet(q) \cup {x}
    <1>1. /\ Len(Append(q, x)) = Len(q) + 1 /\ Append(q, x) \in Seq(S)
          /\ \A i \in 1..Len(q) : Append(q, x)[i] = q[i]
          /\ Append(q, x)[Len(q) + 1] = x /\ Len(q) \in Nat
        BY AppendProperties, LenProperties
    <1>2. ToSet(Append(q, x)) \subseteq ToSet(q) \cup {x}
        <2> SUFFICES ASSUME NEW y \in ToSet(Append(q, x)) PROVE y \in ToSet(q) \cup {x}
            OBVIOUS
        <2>1. PICK i \in 1..Len(q) + 1 : y = Append(q, x)[i]
            BY <1>1, Members
        <2>2. CASE i = Len(q) + 1
            BY <1>1, <2>1, <2>2
        <2>3. CASE i # Len(q) + 1
            <3>1. i \in 1..Len(q) /\ y = q[i]
                BY <1>1, <2>1, <2>3
            <3> QED BY <3>1, Members
        <2> QED BY <2>2, <2>3
    <1>3. ToSet(q) \cup {x} \subseteq ToSet(Append(q, x))
        <2>1. x \in ToSet(Append(q, x))
            <3>1. /\ Append(q, x) \in Seq(S) /\ Len(q) + 1 \in 1..Len(Append(q, x))
                  /\ Append(q, x)[Len(q) + 1] = x
                BY <1>1
            <3>2. Append(q, x)[Len(q) + 1] \in ToSet(Append(q, x))
                BY <3>1, Members
            <3> QED BY <3>1, <3>2
        <2>2. ASSUME NEW y \in ToSet(q) PROVE y \in ToSet(Append(q, x))
            <3>1. PICK i \in 1..Len(q) : y = q[i]
                BY Members
            <3>2. i \in 1..Len(Append(q, x)) /\ y = Append(q, x)[i]
                BY <1>1, <3>1
            <3> QED BY <1>1, <3>2, Members
        <2> QED BY <2>1, <2>2
    <1> QED BY <1>1, <1>2, <1>3

LEMMA WithoutHead ==
    ASSUME NEW S, NEW q \in Seq(S), q # <<>>
    PROVE  /\ Len(Tail(q)) = Len(q) - 1 /\ Len(q) \in Nat \ {0} /\ Tail(q) \in Seq(S)
           /\ \A i \in 1..Len(q) - 1 : Tail(q)[i] = q[i + 1]
           /\ Head(q) = q[1] /\ Head(q) \in ToSet(q)
           /\ ToSet(Tail(q)) \subseteq ToSet(q)
           /\ ToSet(q) = {Head(q)} \cup ToSet(Tail(q))
    <1>1. /\ Len(Tail(q)) = Len(q) - 1 /\ Len(q) \in Nat \ {0} /\ Tail(q) \in Seq(S)
          /\ \A i \in 1..Len(q) - 1 : Tail(q)[i] = q[i + 1]
          /\ Head(q) = q[1]
        BY HeadTailProperties, LenProperties, EmptySeq
    <1>2. Head(q) \in ToSet(q)
        BY <1>1, Members
    <1>3. ToSet(Tail(q)) \subseteq ToSet(q)
        <2> SUFFICES ASSUME NEW y \in ToSet(Tail(q)) PROVE y \in ToSet(q)
            OBVIOUS
        <2>0. Tail(q) \in Seq(S)
            BY <1>1
        <2>1. PICK i \in 1..Len(Tail(q)) : y = Tail(q)[i]
            BY <2>0, Members
        <2>2. i + 1 \in 1..Len(q) /\ y = q[i + 1]
            BY <1>1, <2>1
        <2> QED BY <2>2, Members
    <1>4. ToSet(q) \subseteq {Head(q)} \cup ToSet(Tail(q))
        <2> SUFFICES ASSUME NEW y \in ToSet(q), y # Head(q) PROVE y \in ToSet(Tail(q))
            OBVIOUS
        <2>1. PICK i \in 1..Len(q) : y = q[i]
            BY Members
        <2>2. i - 1 \in 1..Len(Tail(q)) /\ y = Tail(q)[i - 1]
            BY <1>1, <2>1
        <2> QED BY <1>1, <2>2, Members
    <1> QED BY <1>1, <1>2, <1>3, <1>4

\* A queue is what is dropped from its front and what is left.
LEMMA Cut ==
    ASSUME NEW S, NEW q \in Seq(S), NEW n \in 0..Len(q)
    PROVE  /\ Len(q) \in Nat
           /\ SubSeq(q, 1, n) \in Seq(S) /\ DropFirst(q, n) \in Seq(S)
           /\ Len(SubSeq(q, 1, n)) = n /\ Len(DropFirst(q, n)) = Len(q) - n
           /\ \A i \in 1..n : SubSeq(q, 1, n)[i] = q[i]
           /\ \A i \in 1..Len(q) - n : DropFirst(q, n)[i] = q[n + i]
           /\ ToSet(q) = ToSet(SubSeq(q, 1, n)) \cup ToSet(DropFirst(q, n))
    <1>1. Len(q) \in Nat /\ \A i \in 1..Len(q) : q[i] \in S
        BY LenProperties, ElementOfSeq
    <1>2. /\ SubSeq(q, 1, n) \in Seq(S) /\ Len(SubSeq(q, 1, n)) = n
          /\ \A i \in 1..n : SubSeq(q, 1, n)[i] = q[i]
        <2>1. \A i \in 1..n : q[i] \in S
            BY <1>1
        <2>2. /\ SubSeq(q, 1, n) \in Seq(S)
              /\ Len(SubSeq(q, 1, n)) = IF 1 <= n THEN n - 1 + 1 ELSE 0
              /\ \A i \in 1..n - 1 + 1 : SubSeq(q, 1, n)[i] = q[1 + i - 1]
            BY <2>1, SubSeqProperties
        <2> QED BY <1>1, <2>2
    <1>3. /\ DropFirst(q, n) \in Seq(S) /\ Len(DropFirst(q, n)) = Len(q) - n
          /\ \A i \in 1..Len(q) - n : DropFirst(q, n)[i] = q[n + i]
        <2>1. n + 1 \in Int /\ Len(q) \in Int /\ \A i \in n + 1..Len(q) : q[i] \in S
            BY <1>1
        <2>2. /\ SubSeq(q, n + 1, Len(q)) \in Seq(S)
              /\ Len(SubSeq(q, n + 1, Len(q)))
                   = IF n + 1 <= Len(q) THEN Len(q) - (n + 1) + 1 ELSE 0
              /\ \A i \in 1..Len(q) - (n + 1) + 1 :
                   SubSeq(q, n + 1, Len(q))[i] = q[(n + 1) + i - 1]
            BY <2>1, SubSeqProperties
        <2> QED BY <1>1, <2>2 DEF DropFirst
    <1>4. ToSet(SubSeq(q, 1, n)) \cup ToSet(DropFirst(q, n)) \subseteq ToSet(q)
        <2>1. ASSUME NEW y \in ToSet(SubSeq(q, 1, n)) PROVE y \in ToSet(q)
            <3>1. PICK i \in 1..n : y = SubSeq(q, 1, n)[i]
                BY <1>2, Members
            <3> QED BY <1>1, <1>2, <3>1, Members
        <2>2. ASSUME NEW y \in ToSet(DropFirst(q, n)) PROVE y \in ToSet(q)
            <3>1. PICK i \in 1..Len(q) - n : y = DropFirst(q, n)[i]
                BY <1>3, Members
            <3>2. n + i \in 1..Len(q) /\ y = q[n + i]
                BY <1>1, <1>3, <3>1
            <3> QED BY <3>2, Members
        <2> QED BY <2>1, <2>2
    <1>5. ToSet(q) \subseteq ToSet(SubSeq(q, 1, n)) \cup ToSet(DropFirst(q, n))
        <2> SUFFICES ASSUME NEW y \in ToSet(q)
                     PROVE  y \in ToSet(SubSeq(q, 1, n)) \cup ToSet(DropFirst(q, n))
            OBVIOUS
        <2>1. PICK i \in 1..Len(q) : y = q[i]
            BY Members
        <2>2. CASE i <= n
            <3>1. i \in 1..Len(SubSeq(q, 1, n)) /\ y = SubSeq(q, 1, n)[i]
                BY <1>2, <2>1, <2>2
            <3> QED BY <1>2, <3>1, Members
        <2>3. CASE i > n
            <3>1. i - n \in 1..Len(DropFirst(q, n)) /\ y = DropFirst(q, n)[i - n]
                BY <1>1, <1>3, <2>1, <2>3
            <3> QED BY <1>3, <3>1, Members
        <2> QED BY <1>1, <2>1, <2>2, <2>3
    <1> QED BY <1>1, <1>2, <1>3, <1>4, <1>5

LEMMA Joined ==
    ASSUME NEW S, NEW p \in Seq(S), NEW r \in Seq(S)
    PROVE  /\ p \o r \in Seq(S) /\ Len(p \o r) = Len(p) + Len(r)
           /\ \A i \in 1..Len(p) : (p \o r)[i] = p[i]
           /\ \A i \in 1..Len(r) : (p \o r)[Len(p) + i] = r[i]
           /\ ToSet(p \o r) = ToSet(p) \cup ToSet(r)
    <1>1. Len(p) \in Nat /\ Len(r) \in Nat
        BY LenProperties
    <1>2. /\ p \o r \in Seq(S) /\ Len(p \o r) = Len(p) + Len(r)
          /\ \A i \in 1..Len(p) + Len(r) :
               (p \o r)[i] = IF i <= Len(p) THEN p[i] ELSE r[i - Len(p)]
        BY ConcatProperties
    <1>3. ASSUME NEW i \in 1..Len(r) PROVE (p \o r)[Len(p) + i] = r[i]
        <2>1. /\ Len(p) + i \in 1..Len(p) + Len(r) /\ ~(Len(p) + i <= Len(p))
              /\ (Len(p) + i) - Len(p) = i
            BY <1>1
        <2> QED BY <1>2, <2>1
    <1>4. ToSet(p \o r) \subseteq ToSet(p) \cup ToSet(r)
        <2> SUFFICES ASSUME NEW y \in ToSet(p \o r) PROVE y \in ToSet(p) \cup ToSet(r)
            OBVIOUS
        <2>1. PICK i \in 1..Len(p) + Len(r) : y = (p \o r)[i]
            BY <1>2, Members
        <2>2. CASE i <= Len(p)
            <3>1. i \in 1..Len(p) /\ y = p[i]
                BY <1>1, <1>2, <2>1, <2>2
            <3> QED BY <3>1, Members
        <2>3. CASE ~(i <= Len(p))
            <3>1. i - Len(p) \in 1..Len(r) /\ y = r[i - Len(p)]
                BY <1>1, <1>2, <2>1, <2>3
            <3> QED BY <3>1, Members
        <2> QED BY <2>2, <2>3
    <1>5. ToSet(p) \cup ToSet(r) \subseteq ToSet(p \o r)
        <2>1. ASSUME NEW y \in ToSet(p) PROVE y \in ToSet(p \o r)
            <3>1. PICK i \in 1..Len(p) : y = p[i]
                BY Members
            <3>2. i \in 1..Len(p \o r) /\ y = (p \o r)[i]
                BY <1>1, <1>2, <3>1
            <3> QED BY <1>2, <3>2, Members
        <2>2. ASSUME NEW y \in ToSet(r) PROVE y \in ToSet(p \o r)
            <3>1. PICK i \in 1..Len(r) : y = r[i]
                BY Members
            <3>2. Len(p) + i \in 1..Len(p \o r) /\ y = (p \o r)[Len(p) + i]
                BY <1>1, <1>2, <1>3, <3>1
            <3> QED BY <1>2, <3>2, Members
        <2> QED BY <2>1, <2>2
    <1>6. \A i \in 1..Len(p) : (p \o r)[i] = p[i]
        BY <1>1, <1>2
    <1> QED BY <1>1, <1>2, <1>3, <1>4, <1>5, <1>6

LEMMA NothingQueued ==
    ToSet(<<>>) = {} /\ Queued(<<>>) = {} /\ Len(<<>>) = 0
    BY DEF ToSet, Queued

-----------------------------------------------------------------------------
(* What queues do to the order.                                            *)

LEMMA AscendingAppended ==
    ASSUME NEW born, NEW S, NEW q \in Seq(S), NEW x \in S,
           Ascending(born, q), Ahead(born, ToSet(q), {x})
    PROVE  Ascending(born, Append(q, x))
    <1> SUFFICES ASSUME NEW i \in 1..Len(q) + 1, NEW j \in 1..Len(q) + 1, i < j
                 PROVE  Earlier(born, Append(q, x)[i], Append(q, x)[j])
        BY Appended DEF Ascending
    <1>1. i \in 1..Len(q) /\ Append(q, x)[i] = q[i] /\ q[i] \in ToSet(q)
        BY Appended, Members
    <1>2. CASE j = Len(q) + 1
        BY <1>1, <1>2, Appended DEF Ahead
    <1>3. CASE j # Len(q) + 1
        <2>1. j \in 1..Len(q) /\ Append(q, x)[j] = q[j]
            BY <1>3, Appended, Members
        <2> QED BY <1>1, <2>1 DEF Ascending
    <1> QED BY <1>2, <1>3

LEMMA AscendingTail ==
    ASSUME NEW born, NEW S, NEW q \in Seq(S), q # <<>>, Ascending(born, q)
    PROVE  Ascending(born, Tail(q)) /\ Ahead(born, {Head(q)}, ToSet(Tail(q)))
    <1>1. /\ Len(Tail(q)) = Len(q) - 1 /\ Len(q) \in Nat \ {0} /\ Tail(q) \in Seq(S)
          /\ \A i \in 1..Len(q) - 1 : Tail(q)[i] = q[i + 1]
          /\ Head(q) = q[1]
        BY WithoutHead
    <1>2. Ascending(born, Tail(q))
        <2> SUFFICES ASSUME NEW i \in 1..Len(q) - 1, NEW j \in 1..Len(q) - 1, i < j
                     PROVE  Earlier(born, Tail(q)[i], Tail(q)[j])
            BY <1>1 DEF Ascending
        <2>1. i + 1 \in 1..Len(q) /\ j + 1 \in 1..Len(q) /\ i + 1 < j + 1
            BY <1>1
        <2> QED BY <1>1, <2>1 DEF Ascending
    <1>3. ASSUME NEW c \in ToSet(Tail(q)) PROVE Earlier(born, Head(q), c)
        <2>0. Tail(q) \in Seq(S)
            BY <1>1
        <2>1. PICK i \in 1..Len(q) - 1 : c = Tail(q)[i]
            <3>1. \E i \in 1..Len(Tail(q)) : c = Tail(q)[i]
                BY <2>0, Members
            <3> QED BY <1>1, <3>1
        <2>2. 1 \in 1..Len(q) /\ i + 1 \in 1..Len(q) /\ 1 < i + 1 /\ c = q[i + 1]
            BY <1>1, <2>1
        <2> QED BY <1>1, <2>2 DEF Ascending
    <1> QED BY <1>2, <1>3 DEF Ahead

LEMMA AscendingCut ==
    ASSUME NEW born, NEW S, NEW q \in Seq(S), NEW n \in 0..Len(q), Ascending(born, q)
    PROVE  /\ Ascending(born, SubSeq(q, 1, n)) /\ Ascending(born, DropFirst(q, n))
           /\ Ahead(born, ToSet(SubSeq(q, 1, n)), ToSet(DropFirst(q, n)))
    <1> DEFINE front_ == SubSeq(q, 1, n)
               rest == DropFirst(q, n)
    <1>1. /\ Len(q) \in Nat /\ front_ \in Seq(S) /\ rest \in Seq(S)
          /\ Len(front_) = n /\ Len(rest) = Len(q) - n
          /\ \A i \in 1..n : front_[i] = q[i] /\ i \in 1..Len(q)
          /\ \A i \in 1..Len(q) - n : rest[i] = q[n + i] /\ n + i \in 1..Len(q)
        BY Cut
    <1> HIDE DEF front_, rest
    <1>2. Ascending(born, front_)
        BY <1>1 DEF Ascending
    <1>3. Ascending(born, rest)
        <2> SUFFICES ASSUME NEW i \in 1..Len(q) - n, NEW j \in 1..Len(q) - n, i < j
                     PROVE  Earlier(born, rest[i], rest[j])
            BY <1>1 DEF Ascending
        <2>1. n + i < n + j
            BY <1>1
        <2> QED BY <1>1, <2>1 DEF Ascending
    <1>4. ASSUME NEW b \in ToSet(front_), NEW c \in ToSet(rest)
          PROVE  Earlier(born, b, c)
        <2>1. PICK i \in 1..n : b = front_[i]
            BY <1>1, Members
        <2>2. PICK j \in 1..Len(q) - n : c = rest[j]
            BY <1>1, Members
        <2>3. i < n + j
            BY <1>1
        <2> QED BY <1>1, <2>1, <2>2, <2>3 DEF Ascending
    <1> QED BY <1>2, <1>3, <1>4 DEF Ahead, front_, rest

LEMMA EntryAppended ==
    ASSUME NEW S, NEW q \in Seq(S), NEW e \in S
    PROVE  /\ Queued(Append(q, e)) = Queued(q) \cup ({e.batch} \ {Health})
           /\ \A born : EntriesAscending(born, q) /\ Ahead(born, Queued(q), {e.batch})
                         => EntriesAscending(born, Append(q, e))
    <1> DEFINE r == Append(q, e)
    <1>1. /\ Len(q) \in Nat /\ Len(r) = Len(q) + 1 /\ r \in Seq(S)
          /\ \A i \in 1..Len(q) : r[i] = q[i] /\ i \in 1..Len(q) + 1
          /\ r[Len(q) + 1] = e /\ Len(q) + 1 \in 1..Len(q) + 1
          /\ \A i \in 1..Len(q) + 1 : i = Len(q) + 1 \/ i \in 1..Len(q)
          /\ DOMAIN r = 1..Len(q) + 1 /\ DOMAIN q = 1..Len(q)
        BY Appended, LenProperties
    <1> HIDE DEF r
    <1>2. Queued(r) = Queued(q) \cup ({e.batch} \ {Health})
        <2>1. ASSUME NEW b \in Queued(r) PROVE b \in Queued(q) \cup ({e.batch} \ {Health})
            BY <1>1 DEF Queued
        <2>2. ASSUME NEW b \in Queued(q) PROVE b \in Queued(r)
            BY <1>1 DEF Queued
        <2>3. ASSUME NEW b \in {e.batch} \ {Health} PROVE b \in Queued(r)
            BY <1>1 DEF Queued
        <2> QED BY <2>1, <2>2, <2>3
    <1>3. ASSUME NEW born, EntriesAscending(born, q), Ahead(born, Queued(q), {e.batch})
          PROVE  EntriesAscending(born, r)
        <2> SUFFICES ASSUME NEW i \in 1..Len(q) + 1, NEW j \in 1..Len(q) + 1, i < j
                     PROVE  Earlier(born, r[i].batch, r[j].batch)
            BY <1>1 DEF EntriesAscending
        <2>1. i \in 1..Len(q) /\ r[i] = q[i]
            BY <1>1
        <2>2. CASE j = Len(q) + 1
            <3>1. r[j].batch = e.batch
                BY <1>1, <2>2
            <3>2. r[i].batch # Health => r[i].batch \in Queued(q)
                BY <1>1, <2>1 DEF Queued
            <3>3. r[i].batch # Health => Earlier(born, r[i].batch, e.batch)
                BY <1>3, <3>2 DEF Ahead
            <3> QED BY <3>1, <3>3 DEF Earlier
        <2>3. CASE j # Len(q) + 1
            <3>1. j \in 1..Len(q) /\ r[j] = q[j]
                BY <1>1, <2>3
            <3> QED BY <1>3, <2>1, <3>1 DEF EntriesAscending
        <2> QED BY <2>2, <2>3
    <1> QED BY <1>2, <1>3 DEF r

\* A queue of entries is what is dropped from its front and what is left.
LEMMA EntriesCut ==
    ASSUME NEW S, NEW q \in Seq(S), NEW n \in 0..Len(q)
    PROVE  LET gone == {q[i].batch : i \in 1..n}
               kept == DropFirst(q, n)
           IN  /\ Queued(q) = Queued(kept) \cup (gone \ {Health})
               /\ \A born : EntriesAscending(born, q)
                    => EntriesAscending(born, kept) /\ Ahead(born, gone, Queued(kept))
    <1> DEFINE gone == {q[i].batch : i \in 1..n}
               kept == DropFirst(q, n)
    <1>1. /\ Len(q) \in Nat /\ n \in Nat /\ kept \in Seq(S) /\ Len(kept) = Len(q) - n
          /\ \A i \in 1..n : i \in 1..Len(q)
          /\ \A i \in 1..Len(q) - n : kept[i] = q[n + i] /\ n + i \in 1..Len(q)
        BY Cut
    <1>2. DOMAIN q = 1..Len(q) /\ DOMAIN kept = 1..Len(q) - n
        BY <1>1, LenProperties
    <1> HIDE DEF kept
    <1>3. \A i \in 1..Len(q) : i \in 1..n \/ (i - n \in 1..Len(q) - n /\ kept[i - n] = q[i])
        <2> SUFFICES ASSUME NEW i \in 1..Len(q), i \notin 1..n
                     PROVE  i - n \in 1..Len(q) - n /\ kept[i - n] = q[i]
            OBVIOUS
        <2>1. i - n \in 1..Len(q) - n /\ n + (i - n) = i
            BY <1>1
        <2> QED BY <1>1, <2>1
    <1>4. Queued(q) \subseteq Queued(kept) \cup (gone \ {Health})
        BY <1>2, <1>3 DEF Queued
    <1>5. Queued(kept) \cup (gone \ {Health}) \subseteq Queued(q)
        BY <1>1, <1>2 DEF Queued
    <1>6. ASSUME NEW born, EntriesAscending(born, q)
          PROVE  EntriesAscending(born, kept) /\ Ahead(born, gone, Queued(kept))
        <2>1. EntriesAscending(born, kept)
            <3> SUFFICES ASSUME NEW i \in 1..Len(q) - n, NEW j \in 1..Len(q) - n, i < j
                         PROVE  Earlier(born, kept[i].batch, kept[j].batch)
                BY <1>1 DEF EntriesAscending
            <3>1. n + i < n + j
                BY <1>1
            <3> QED BY <1>1, <1>6, <3>1 DEF EntriesAscending
        <2>2. ASSUME NEW b \in gone, NEW c \in Queued(kept)
              PROVE  Earlier(born, b, c)
            <3>1. PICK i \in 1..n : b = q[i].batch
                OBVIOUS
            <3>2. PICK j \in 1..Len(q) - n : c = kept[j].batch
                BY <1>2 DEF Queued
            <3>3. i < n + j
                BY <1>1
            <3> QED BY <1>1, <1>6, <3>1, <3>2, <3>3 DEF EntriesAscending
        <2> QED BY <2>1, <2>2 DEF Ahead
    <1> QED BY <1>4, <1>5, <1>6 DEF kept

LEMMA EntriesTail ==
    ASSUME NEW S, NEW q \in Seq(S), q # <<>>
    PROVE  /\ Queued(q) = Queued(Tail(q)) \cup ({Head(q).batch} \ {Health})
           /\ \A born : EntriesAscending(born, q)
                => /\ EntriesAscending(born, Tail(q))
                   /\ Ahead(born, {Head(q).batch}, Queued(Tail(q)))
    <1>1. 1 \in 0..Len(q)
        BY WithoutHead
    <1>2. Tail(q) = DropFirst(q, 1) /\ Head(q) = q[1]
        <2>1. /\ Tail(q) \in Seq(S) /\ DropFirst(q, 1) \in Seq(S)
              /\ Len(Tail(q)) = Len(q) - 1 /\ Len(DropFirst(q, 1)) = Len(q) - 1
              /\ \A i \in 1..Len(q) - 1 : Tail(q)[i] = q[i + 1]
              /\ \A i \in 1..Len(q) - 1 : DropFirst(q, 1)[i] = q[1 + i]
              /\ Head(q) = q[1]
            BY <1>1, WithoutHead, Cut
        <2>2. \A i \in 1..Len(Tail(q)) : Tail(q)[i] = DropFirst(q, 1)[i]
            <3> SUFFICES ASSUME NEW i \in 1..Len(q) - 1
                         PROVE  Tail(q)[i] = DropFirst(q, 1)[i]
                BY <2>1
            <3>1. i + 1 = 1 + i
                OBVIOUS
            <3> QED BY <2>1, <3>1
        <2> QED BY <2>1, <2>2, SeqEqual
    <1>3. {q[i].batch : i \in 1..1} = {Head(q).batch}
        BY <1>2
    <1>4. /\ Queued(q) = Queued(DropFirst(q, 1)) \cup ({q[i].batch : i \in 1..1} \ {Health})
          /\ \A born : EntriesAscending(born, q)
               => /\ EntriesAscending(born, DropFirst(q, 1))
                  /\ Ahead(born, {q[i].batch : i \in 1..1}, Queued(DropFirst(q, 1)))
        BY <1>1, EntriesCut
    <1> QED BY <1>2, <1>3, <1>4

LEMMA CorrectedBatches ==
    ASSUME TypeOK
    PROVE  /\ Corrected(buffer) \in Seq(Entry) /\ Len(Corrected(buffer)) = Len(buffer)
           /\ \A i \in 1..Len(buffer) : Corrected(buffer)[i].batch = buffer[i]
    <1>1. frozen \in Mark /\ buffer \in Seq(Batch)
        BY DEF TypeOK, ControlOK, FlowOK
    <1>2. /\ Corrected(buffer) \in Seq(Entry) /\ Len(Corrected(buffer)) = Len(buffer)
          /\ \A i \in 1..Len(buffer) :
               Corrected(buffer)[i] = [batch |-> buffer[i], mark |-> frozen]
        BY <1>1, CorrectedIsSeq
    <1>3. ASSUME NEW i \in 1..Len(buffer) PROVE Corrected(buffer)[i].batch = buffer[i]
        <2>1. Corrected(buffer)[i] = [batch |-> buffer[i], mark |-> frozen]
            BY <1>2
        <2> QED BY <2>1
    <1> QED BY <1>2, <1>3

\* Correcting the buffer into the outbox appends it, in its order.
LEMMA BufferJoins ==
    ASSUME TypeOK
    PROVE  LET all == outbox \o Corrected(buffer)
           IN  /\ all \in Seq(Entry) /\ Len(all) \in Nat
               /\ Queued(all) = Queued(outbox) \cup ToSet(buffer)
               /\ \A born :
                    /\ EntriesAscending(born, outbox) /\ Ascending(born, buffer)
                    /\ Ahead(born, Queued(outbox), ToSet(buffer))
                    => EntriesAscending(born, all)
    <1> DEFINE all == outbox \o Corrected(buffer)
               m == Len(outbox)
               k == Len(buffer)
    <1>1. /\ m \in Nat /\ k \in Nat /\ buffer \in Seq(Batch) /\ outbox \in Seq(Entry)
          /\ \A i \in 1..k : buffer[i] \in Batch /\ buffer[i] \in ToSet(buffer)
          /\ DOMAIN outbox = 1..m /\ DOMAIN buffer = 1..k
        BY Members, LenProperties DEF TypeOK, FlowOK
    <1>2. /\ Corrected(buffer) \in Seq(Entry) /\ Len(Corrected(buffer)) = k
          /\ \A i \in 1..k : Corrected(buffer)[i].batch = buffer[i]
        BY <1>1, CorrectedBatches
    <1>3. /\ all \in Seq(Entry) /\ Len(all) = m + k
          /\ \A i \in 1..m : all[i] = outbox[i]
          /\ \A i \in 1..k : all[m + i] = Corrected(buffer)[i]
        <2>1. outbox \in Seq(Entry) /\ Corrected(buffer) \in Seq(Entry)
            BY <1>1, <1>2
        <2>2. /\ outbox \o Corrected(buffer) \in Seq(Entry)
              /\ Len(outbox \o Corrected(buffer)) = Len(outbox) + Len(Corrected(buffer))
              /\ \A i \in 1..Len(outbox) : (outbox \o Corrected(buffer))[i] = outbox[i]
              /\ \A i \in 1..Len(Corrected(buffer)) :
                   (outbox \o Corrected(buffer))[Len(outbox) + i] = Corrected(buffer)[i]
            BY <2>1, Joined
        <2> QED BY <1>2, <2>2
    <1>4. DOMAIN all = 1..m + k
        BY <1>1, <1>3, LenProperties
    <1> HIDE DEF all, m, k
    <1>5. \A i \in 1..m : i \in 1..m + k /\ all[i] = outbox[i]
        BY <1>1, <1>3
    <1>6. \A i \in 1..k : m + i \in 1..m + k /\ all[m + i].batch = buffer[i]
        BY <1>1, <1>2, <1>3
    <1>7. \A i \in 1..m + k : i \in 1..m \/ (i - m \in 1..k /\ all[i].batch = buffer[i - m])
        <2> SUFFICES ASSUME NEW i \in 1..m + k, i \notin 1..m
                     PROVE  i - m \in 1..k /\ all[i].batch = buffer[i - m]
            OBVIOUS
        <2>1. i - m \in 1..k /\ m + (i - m) = i
            BY <1>1
        <2> QED BY <1>6, <2>1
    <1>8. Health \notin Batch
        BY DEF Health, Batch
    <1>9. Queued(all) \subseteq Queued(outbox) \cup ToSet(buffer)
        BY <1>1, <1>4, <1>5, <1>7 DEF Queued
    <1>10. Queued(outbox) \subseteq Queued(all)
        BY <1>1, <1>4, <1>5 DEF Queued
    <1>11. ToSet(buffer) \subseteq Queued(all)
        <2> SUFFICES ASSUME NEW b \in ToSet(buffer) PROVE b \in Queued(all)
            OBVIOUS
        <2>1. PICK i \in 1..k : b = buffer[i]
            BY <1>1, Members DEF k
        <2>2. m + i \in DOMAIN all /\ all[m + i].batch = b /\ b # Health
            BY <1>1, <1>4, <1>6, <1>8, <2>1
        <2> QED BY <2>2 DEF Queued
    <1>12. ASSUME NEW born, EntriesAscending(born, outbox), Ascending(born, buffer),
                  Ahead(born, Queued(outbox), ToSet(buffer)),
                  NEW i \in 1..m + k, NEW j \in 1..m + k, i < j
           PROVE  Earlier(born, all[i].batch, all[j].batch)
        <2>1. CASE i \in 1..m /\ j \in 1..m
            BY <1>5, <1>12, <2>1 DEF EntriesAscending, m
        <2>2. CASE i \in 1..m /\ j \notin 1..m
            <3>1. j - m \in 1..k /\ all[j].batch = buffer[j - m]
                BY <1>7, <2>2
            <3>2. all[j].batch \in ToSet(buffer)
                BY <1>1, <3>1
            <3>3. all[i].batch # Health => all[i].batch \in Queued(outbox)
                BY <1>1, <1>5, <2>2 DEF Queued
            <3>4. all[i].batch # Health => Earlier(born, all[i].batch, all[j].batch)
                BY <1>12, <3>2, <3>3 DEF Ahead
            <3> QED BY <3>4 DEF Earlier
        <2>3. CASE i \notin 1..m
            <3>1. i - m \in 1..k /\ all[i].batch = buffer[i - m]
                BY <1>7, <2>3
            <3>2. j \notin 1..m
                BY <1>1, <1>12, <2>3
            <3>3. j - m \in 1..k /\ all[j].batch = buffer[j - m]
                BY <1>7, <3>2
            <3>4. i - m < j - m
                BY <1>1, <1>12
            <3> QED BY <1>12, <3>1, <3>3, <3>4 DEF Ascending, k
        <2> QED BY <2>1, <2>2, <2>3
    <1>13. ASSUME NEW born, EntriesAscending(born, outbox), Ascending(born, buffer),
                  Ahead(born, Queued(outbox), ToSet(buffer))
           PROVE  EntriesAscending(born, all)
        BY <1>3, <1>12, <1>13 DEF EntriesAscending
    <1> QED BY <1>1, <1>3, <1>9, <1>10, <1>11, <1>13 DEF all

-----------------------------------------------------------------------------
(* Accounting. What keeps every batch in some place is that a new file     *)
(* takes no other file's number, that evicted batches are written before   *)
(* anything else happens, and that a cycle forgets the spool only after it *)
(* has queued all of it.                                                   *)

\* A directory that cannot be listed and a file that cannot be read or written
\* lose what they hold: the code logs it and goes on.
SpoolKeeps == Faults \cap {"list", "read", "write"} = {}

NumberIsFree == pc # "down" => \A f \in OwnFiles(disk) : f.seq < nextSeq
EvictedFirst == pc # "cycle" => spilling = <<>>
SpoolQueued ==
    pc = "correct" => \A f \in disk : f.intact => f \in todo \/ f.batch \in Queued(outbox)
NothingWhenDown == pc = "down" => outbox = <<>>
TodoReadable == \A f \in todo : f.intact
Placed == NumberIsFree /\ EvictedFirst /\ SpoolQueued /\ NothingWhenDown /\ TodoReadable

OnFile == {f.batch : f \in {g \in disk : g.intact}}

LEMMA InitPlaced == Init => Placed
    BY DEF Init, Placed, NumberIsFree, EvictedFirst, SpoolQueued, NothingWhenDown,
       TodoReadable

LEMMA HandIsPlaces ==
    InHand = ToSet(inbox) \cup ToSet(buffer) \cup ToSet(spilling) \cup Queued(outbox)
             \cup OnFile
    BY DEF InHand, OnFile

\* What is in hand after a step that touches no queue and no file.
LEMMA SameInHand ==
    ASSUME UNCHANGED <<inbox, buffer, spilling, outbox, disk>>
    PROVE  InHand' = InHand
    BY DEF InHand

\* Starting finds the spool and nothing else; going down leaves no more than it.
LEMMA ProcessPlaced ==
    ASSUME SpoolKeeps, TypeOK, Provenance, Placed,
           \/ Start \/ StartWithoutSpool \/ Crash \/ MainExits \/ MainGivesUp
           \/ PowerLoss
    PROVE  /\ Placed' /\ ~StartWithoutSpool
           /\ Start => InHand' = InHand
           /\ ~Start => pc' = "down" /\ InHand' \subseteq InHand
    <1>1. ~StartWithoutSpool
        BY DEF StartWithoutSpool, SpoolKeeps
    <1>2. /\ inbox' = <<>> /\ buffer' = <<>> /\ spilling' = <<>> /\ outbox' = <<>>
          /\ todo' = {}
        <2>1. CASE pc = "down" /\ PowerLoss
            BY <2>1 DEF PowerLoss, front, flow, control, Provenance, DownEmpty, Placed,
               NothingWhenDown
        <2>2. CASE ~(pc = "down" /\ PowerLoss)
            BY <1>1, <2>2 DEF Start, Crash, MainExits, MainGivesUp, PowerLoss, Gone,
               EmptyHanded
        <2> QED BY <2>1, <2>2
    <1>3. InHand' = OnFile'
        BY <1>2, NothingQueued DEF InHand, OnFile
    <1>4. CASE Start
        <2>1. /\ pc = "down" /\ pc' = "select" /\ UNCHANGED <<disk, boot>>
              /\ inbox = <<>> /\ buffer = <<>> /\ spilling = <<>> /\ outbox = <<>>
            BY <1>4 DEF Start, machine, Provenance, DownEmpty, Placed, NothingWhenDown
        <2>2. \A f \in OwnFiles(disk) : f.seq < nextSeq'
            BY <1>4 DEF Start, ResumesAfter
        <2>3. Placed'
            BY <1>2, <2>1, <2>2
            DEF Placed, NumberIsFree, EvictedFirst, SpoolQueued, NothingWhenDown,
                TodoReadable, OwnFiles
        <2>4. InHand = OnFile
            BY <2>1, HandIsPlaces, NothingQueued
        <2>5. OnFile' = OnFile
            BY <2>1 DEF OnFile
        <2> QED BY <1>1, <1>3, <1>4, <2>3, <2>4, <2>5
    <1>5. CASE ~Start
        <2>1. pc' = "down"
            BY <1>1, <1>5 DEF Crash, MainExits, MainGivesUp, PowerLoss, Gone, control
        <2>2. Placed'
            BY <1>2, <2>1
            DEF Placed, NumberIsFree, EvictedFirst, SpoolQueued, NothingWhenDown,
                TodoReadable
        <2>3. OnFile' \subseteq OnFile
            <3>1. CASE UNCHANGED disk
                BY <3>1 DEF OnFile
            <3>2. CASE PowerLoss
                <4>1. PICK torn \in SUBSET disk :
                        disk' = (disk \ torn) \cup {[f EXCEPT !.intact = FALSE] : f \in torn}
                    BY <3>2 DEF PowerLoss
                <4>2. \A f \in torn : ~[f EXCEPT !.intact = FALSE].intact
                    BY DEF TypeOK, MachineOK, File
                <4>3. \A g \in disk' : g.intact => g \in disk
                    BY <4>1, <4>2
                <4> QED BY <4>3 DEF OnFile
            <3>3. UNCHANGED disk \/ PowerLoss
                BY <1>1, <1>5 DEF Crash, MainExits, MainGivesUp, machine
            <3> QED BY <3>1, <3>2, <3>3
        <2>4. OnFile \subseteq InHand
            BY HandIsPlaces
        <2> QED BY <1>1, <1>3, <1>5, <2>1, <2>2, <2>3, <2>4
    <1> QED BY <1>4, <1>5

\* Steps that move no batch.
LEMMA IdlePlaced ==
    ASSUME Placed,
           \/ Shutdown \/ AbortClock \/ Release \/ ClockStep \/ HoldExpires
           \/ RetryFallsDue \/ Wake \/ Break \/ Decide \/ Rest \/ SendFails
           \/ UNCHANGED vars
    PROVE  Placed' /\ InHand' = InHand
    <1>1. UNCHANGED <<inbox, buffer, spilling, outbox, disk, todo, nextSeq, boot>>
        BY DEF Shutdown, AbortClock, Release, ClockStep, HoldExpires, RetryFallsDue,
           Wake, Break, Decide, Rest, SendFails, vars, machine, front, flow, control
    <1>2. /\ pc' # "cycle" => pc # "cycle" \/ spilling = <<>>
          /\ pc' = "correct" => pc = "correct"
          /\ pc' = "down" <=> pc = "down"
        BY DEF Shutdown, AbortClock, Release, ClockStep, HoldExpires, RetryFallsDue,
           Wake, Break, Decide, Rest, SendFails, Sending, EndCycle, vars, control
    <1>3. Placed'
        BY <1>1, <1>2
        DEF Placed, NumberIsFree, EvictedFirst, SpoolQueued, NothingWhenDown,
            TodoReadable, OwnFiles, Queued
    <1> QED BY <1>1, <1>3, SameInHand

LEMMA ArrivalPlaced ==
    ASSUME TypeOK, Provenance, Placed, Accept \/ Receive \/ EmitHealth
    PROVE  /\ Placed'
           /\ Accept => InHand' = InHand \cup {Len(bornIn) + 1}
           /\ ~Accept => InHand' = InHand
    <1>1. CASE Accept
        <2>1. /\ UNCHANGED <<buffer, spilling, outbox, disk, todo, nextSeq, boot, pc>>
              /\ inbox' = Append(inbox, Len(bornIn) + 1)
            BY <1>1 DEF Accept, machine, flow, control
        <2>2. Placed'
            BY <2>1
            DEF Placed, NumberIsFree, EvictedFirst, SpoolQueued, NothingWhenDown,
                TodoReadable, OwnFiles, Queued
        <2>3. Len(bornIn) + 1 \in Nat
            BY LenProperties DEF TypeOK, FrontOK
        <2>4. inbox \in Seq(Nat)
            <3>1. Batch \subseteq Nat /\ inbox \in Seq(Batch)
                BY BoundsAssumption DEF TypeOK, FrontOK, Batch
            <3> QED BY <3>1, SeqMonotonic
        <2>5. ToSet(inbox') = ToSet(inbox) \cup {Len(bornIn) + 1}
            BY <2>1, <2>3, <2>4, Appended
        <2>6. InHand' = InHand \cup {Len(bornIn) + 1}
            BY <2>1, <2>5 DEF InHand
        <2> QED BY <1>1, <2>2, <2>6
    <1>2. CASE Receive
        <2> DEFINE queue == Append(buffer, Head(inbox))
        <2>1. /\ UNCHANGED <<outbox, disk, todo, nextSeq, boot>>
              /\ pc = "select" /\ pc' = "cycle" /\ spilling = <<>>
              /\ inbox # <<>> /\ inbox' = Tail(inbox)
            BY <1>2 DEF Receive, machine, Placed, EvictedFirst
        <2>2. PICK n \in 0..Len(queue) - 1 : Push(queue, n)
            BY <1>2 DEF Receive
        <2>3. /\ Head(inbox) \in Batch /\ ToSet(inbox) = {Head(inbox)} \cup ToSet(Tail(inbox))
            BY <2>1, WithoutHead, HeadTailProperties DEF TypeOK, FrontOK
        <2>4. queue \in Seq(Batch) /\ ToSet(queue) = ToSet(buffer) \cup {Head(inbox)}
            BY <2>3, Appended DEF TypeOK, FlowOK
        <2>5. n \in 0..Len(queue)
            BY <2>2, <2>4, LenProperties
        <2>6. ToSet(queue) = ToSet(spilling') \cup ToSet(buffer')
            <3> HIDE DEF queue
            <3>1. ToSet(queue) = ToSet(SubSeq(queue, 1, n)) \cup ToSet(DropFirst(queue, n))
                BY <2>4, <2>5, Cut
            <3> QED BY <2>2, <3>1 DEF Push
        <2>7. Placed'
            BY <2>1
            DEF Placed, NumberIsFree, EvictedFirst, SpoolQueued, NothingWhenDown,
                TodoReadable, OwnFiles
        <2>8. InHand' = InHand
            BY <2>1, <2>3, <2>4, <2>6, NothingQueued DEF InHand, Queued
        <2>9. ~Accept
            BY <2>1 DEF Accept, control
        <2> QED BY <2>7, <2>8, <2>9
    <1>3. CASE EmitHealth
        <2>1. /\ UNCHANGED <<inbox, buffer, spilling, disk, todo, nextSeq, boot>>
              /\ pc = "select" /\ pc' = "cycle"
              /\ outbox' = Append(outbox, [batch |-> Health, mark |-> NoCorrection])
            BY <1>3 DEF EmitHealth, machine, front
        <2>2. Placed'
            BY <2>1
            DEF Placed, NumberIsFree, EvictedFirst, SpoolQueued, NothingWhenDown,
                TodoReadable, OwnFiles
        <2> DEFINE e == [batch |-> Health, mark |-> NoCorrection]
        <2>3. e \in Entry /\ outbox \in Seq(Entry)
            BY NoCorrectionIsMark DEF Entry, TypeOK, FlowOK
        <2>4. Queued(outbox') = Queued(outbox)
            <3> HIDE DEF e
            <3>1. Queued(Append(outbox, e)) = Queued(outbox) \cup ({e.batch} \ {Health})
                BY <2>3, EntryAppended
            <3> QED BY <2>1, <3>1 DEF e
        <2>5. InHand' = InHand
            BY <2>1, <2>4 DEF InHand
        <2>6. ~Accept
            BY <2>1 DEF Accept, control
        <2> QED BY <2>2, <2>5, <2>6
    <1> QED BY <1>1, <1>2, <1>3

\* An evicted batch gets a file of its own.
LEMMA SpillPlaced ==
    ASSUME SpoolKeeps, TypeOK, Placed, Spill
    PROVE  Placed' /\ InHand' = InHand
    <1> DEFINE file == [boot |-> boot, seq |-> nextSeq, batch |-> Head(spilling),
                        intact |-> TRUE]
    <1>1. /\ UNCHANGED <<inbox, buffer, outbox, boot, todo, pc>>
          /\ pc = "cycle" /\ spilling # <<>> /\ spilling' = Tail(spilling)
          /\ nextSeq' = nextSeq + 1
          /\ disk' = {f \in disk : f.boot # boot \/ f.seq # nextSeq} \cup {file}
        BY DEF Spill, SpoolKeeps, front, control
    <1>2. nextSeq \in Nat /\ disk \subseteq File
        BY DEF TypeOK, FlowOK, MachineOK
    <1>3. disk' = disk \cup {file}
        <2>1. \A f \in disk : f.boot = boot => f.seq < nextSeq
            BY <1>1 DEF Placed, NumberIsFree, OwnFiles
        <2>2. \A f \in disk : f.boot = boot => f.seq # nextSeq
            BY <1>2, <2>1 DEF File
        <2> QED BY <1>1, <2>2
    <1>4. file.boot = boot /\ file.seq = nextSeq /\ file.batch = Head(spilling) /\ file.intact
        OBVIOUS
    <1> HIDE DEF file
    <1>5. \A f \in OwnFiles(disk') : f.seq < nextSeq + 1
        <2> SUFFICES ASSUME NEW f \in disk \cup {file}, f.boot = boot
                     PROVE  f.seq < nextSeq + 1
            BY <1>3 DEF OwnFiles
        <2>1. CASE f = file
            BY <1>2, <1>4, <2>1
        <2>2. CASE f \in disk
            <3>1. f.seq < nextSeq /\ f.seq \in Nat
                BY <1>1, <1>2, <2>2 DEF Placed, NumberIsFree, OwnFiles, File
            <3> QED BY <1>2, <3>1
        <2> QED BY <2>1, <2>2
    <1>6. Placed'
        BY <1>1, <1>5
        DEF Placed, NumberIsFree, EvictedFirst, SpoolQueued, NothingWhenDown,
                TodoReadable, OwnFiles
    <1>7. ToSet(spilling) = {Head(spilling)} \cup ToSet(spilling')
        BY <1>1, WithoutHead DEF TypeOK, FlowOK
    <1>8. OnFile' = OnFile \cup {Head(spilling)}
        BY <1>3, <1>4 DEF OnFile
    <1>9. InHand' = InHand
        <2>1. InHand' = ToSet(inbox) \cup ToSet(buffer) \cup ToSet(spilling') \cup Queued(outbox)
                        \cup OnFile'
            BY <1>1 DEF InHand, OnFile, Queued
        <2> QED BY <1>7, <1>8, <2>1, HandIsPlaces
    <1> QED BY <1>6, <1>9

\* Every readable file is read, queued before it is removed, and only then is
\* the spool forgotten; what is shed of the queue is counted.
LEMMA CorrectPlaced ==
    ASSUME SpoolKeeps, TypeOK, Provenance, Placed, ReadSpool \/ ShipSpooled \/ ShipBuffer
    PROVE  /\ Placed' /\ InHand' \subseteq InHand
           /\ ShipBuffer => InHand \ InHand' \subseteq shed'
           /\ ~ShipBuffer => InHand' = InHand
    <1>1. CASE ReadSpool
        <2>1. /\ UNCHANGED <<inbox, buffer, spilling, outbox, nextSeq, boot>>
              /\ pc = "read" /\ pc' = "correct" /\ spilling = <<>>
            BY <1>1 DEF ReadSpool, front, flow, Placed, EvictedFirst
        <2>2. /\ todo' \subseteq disk' /\ disk' \subseteq disk
              /\ \A f \in disk : f.intact <=> f \in todo'
            BY <1>1 DEF ReadSpool, SpoolKeeps
        <2>3. \A f \in disk' : f.intact => f \in todo'
            BY <2>2
        <2>4. Placed'
            BY <2>1, <2>2, <2>3
            DEF Placed, NumberIsFree, EvictedFirst, SpoolQueued, NothingWhenDown,
                TodoReadable, OwnFiles
        <2>5. OnFile' = OnFile
            BY <2>2 DEF OnFile
        <2>6. InHand' = InHand
            <3>1. InHand' = ToSet(inbox) \cup ToSet(buffer) \cup ToSet(spilling)
                            \cup Queued(outbox) \cup OnFile'
                BY <2>1 DEF InHand, OnFile, Queued
            <3> QED BY <2>5, <3>1, HandIsPlaces
        <2>7. ~ShipBuffer
            BY <2>1 DEF ShipBuffer
        <2> QED BY <2>4, <2>6, <2>7
    <1>2. CASE ShipSpooled
        <2>1. UNCHANGED <<inbox, buffer, spilling, nextSeq, boot, pc>> /\ pc = "correct"
            BY <1>2 DEF ShipSpooled, front
        <2>2. PICK f \in todo :
                /\ outbox' = Append(outbox, [batch |-> f.batch, mark |-> MarkFor(f)])
                /\ todo' = todo \ {f}
                /\ disk' = disk \ {f} \/ disk' = disk
            BY <1>2 DEF ShipSpooled
        <2> DEFINE e == [batch |-> f.batch, mark |-> MarkFor(f)]
        <2>3. e \in Entry /\ e.batch = f.batch /\ f.batch # Health /\ outbox \in Seq(Entry)
            BY <2>2, NoCorrectionIsMark, BoundsAssumption
            DEF TypeOK, FlowOK, ControlOK, File, Entry, MarkFor, Batch, Health
        <2> HIDE DEF e
        <2>4. Queued(outbox') = Queued(outbox) \cup {f.batch}
            <3>0. e \in Entry /\ outbox \in Seq(Entry)
                BY <2>3
            <3>1. Queued(Append(outbox, e)) = Queued(outbox) \cup ({e.batch} \ {Health})
                BY <3>0, EntryAppended
            <3>2. outbox' = Append(outbox, e)
                BY <2>2 DEF e
            <3> QED BY <2>3, <3>1, <3>2
        <2>5. Placed'
            <3>1. \A g \in disk' : g \in disk /\ (g.intact => g \in todo' \/ g.batch \in Queued(outbox'))
                BY <2>1, <2>2, <2>4 DEF Placed, SpoolQueued
            <3> QED BY <2>1, <2>2, <3>1
                DEF Placed, NumberIsFree, EvictedFirst, SpoolQueued, NothingWhenDown,
                    TodoReadable, OwnFiles
        <2>6. OnFile \cup {f.batch} = OnFile' \cup {f.batch} /\ f.batch \in OnFile
            <3>1. f \in disk /\ f.intact
                BY DEF Provenance, FilesOwn, Placed, TodoReadable
            <3> QED BY <2>2, <3>1 DEF OnFile
        <2>7. InHand' = InHand
            <3>1. InHand' = ToSet(inbox) \cup ToSet(buffer) \cup ToSet(spilling)
                            \cup Queued(outbox') \cup OnFile'
                BY <2>1 DEF InHand, OnFile, Queued
            <3> QED BY <2>4, <2>6, <3>1, HandIsPlaces
        <2>8. ~ShipBuffer
            BY <2>1 DEF ShipBuffer
        <2> QED BY <2>5, <2>7, <2>8
    <1>3. CASE ShipBuffer
        <2> DEFINE all == outbox \o Corrected(buffer)
                   n == Excess(Len(all))
                   gone == {all[i].batch : i \in 1..n}
        <2>1. /\ UNCHANGED <<inbox, spilling, nextSeq, boot, todo>>
              /\ pc = "correct" /\ pc' = "deliver" /\ todo = {} /\ spilling = <<>>
              /\ outbox' = DropFirst(all, n) /\ buffer' = <<>>
              /\ shed' = shed \cup (gone \ {Health})
              /\ OwnFiles(disk) \subseteq disk' /\ disk' \subseteq disk
            BY <1>3 DEF ShipBuffer, Keep, front, Placed, EvictedFirst, OwnFiles
        <2>2. /\ all \in Seq(Entry) /\ Len(all) \in Nat
              /\ Queued(all) = Queued(outbox) \cup ToSet(buffer)
            BY BufferJoins
        <2>3. n \in 0..Len(all)
            BY <2>2, CapacitiesAssumption DEF Excess
        <2> HIDE DEF all, n
        <2>4. Queued(all) = Queued(outbox') \cup (gone \ {Health})
            BY <2>1, <2>2, <2>3, EntriesCut
        <2>5. OnFile \subseteq Queued(outbox)
            BY <2>1 DEF OnFile, Placed, SpoolQueued
        <2>6. Placed'
            BY <2>1
            DEF Placed, NumberIsFree, EvictedFirst, SpoolQueued, NothingWhenDown,
                TodoReadable, OwnFiles
        <2>7. InHand = ToSet(inbox) \cup Queued(all)
            BY <2>1, <2>2, <2>5, HandIsPlaces, NothingQueued
        <2>8. InHand' = ToSet(inbox) \cup Queued(outbox') \cup OnFile'
            BY <2>1, NothingQueued DEF InHand, OnFile, Queued
        <2>9. OnFile' \subseteq InHand
            BY <2>1, HandIsPlaces DEF OnFile
        <2> QED BY <1>3, <2>1, <2>4, <2>6, <2>7, <2>8, <2>9
    <1> QED BY <1>1, <1>2, <1>3

\* A batch leaves the outbox when it has arrived.
LEMMA SendPlaced ==
    ASSUME TypeOK, Placed, SendSucceeds \/ AnswerIsLost
    PROVE  /\ Placed' /\ InHand' \subseteq InHand
           /\ InHand \ InHand' \subseteq {Head(outbox).batch} \ {Health}
           /\ InHand \ InHand' \subseteq Received'
    <1>1. /\ UNCHANGED <<inbox, buffer, spilling, disk, todo, nextSeq, boot, shed>>
          /\ outbox # <<>> /\ pc = "deliver" /\ pc' \in {"deliver", "select", "done"}
          /\ outbox' = outbox \/ (outbox' = Tail(outbox) /\ Arrives)
        BY DEF SendSucceeds, AnswerIsLost, Sending, EndCycle, machine, front, control
    <1>2. Placed'
        BY <1>1
        DEF Placed, NumberIsFree, EvictedFirst, SpoolQueued, NothingWhenDown,
                TodoReadable, OwnFiles
    <1>3. outbox \in Seq(Entry) /\ received \in Seq([batch : Batch, mark : Mark])
        BY DEF TypeOK, FlowOK, HistoryOK
    <1>4. CASE outbox' = outbox
        BY <1>1, <1>2, <1>4, SameInHand
    <1>5. CASE outbox' = Tail(outbox) /\ Arrives
        <2>1. Queued(outbox) = Queued(outbox') \cup ({Head(outbox).batch} \ {Health})
            BY <1>1, <1>3, <1>5, EntriesTail
        <2>2. Head(outbox).batch # Health => Head(outbox).batch \in Received'
            <3> SUFFICES ASSUME Head(outbox).batch # Health
                         PROVE  Head(outbox).batch \in Received'
                OBVIOUS
            <3>0. Head(outbox) \in Entry
                BY <1>1, <1>3, HeadTailProperties
            <3>1. Head(outbox) \in [batch : Batch, mark : Mark]
                BY <3>0 DEF Entry
            <3>2. received' = Append(received, Head(outbox))
                BY <1>5 DEF Arrives
            <3>3. /\ Len(received) + 1 \in 1..Len(received')
                  /\ received'[Len(received) + 1] = Head(outbox)
                  /\ DOMAIN received' = 1..Len(received')
                BY <1>3, <3>1, <3>2, Appended, LenProperties
            <3> QED BY <3>3 DEF Received
        <2>3. InHand' = ToSet(inbox) \cup ToSet(buffer) \cup ToSet(spilling)
                        \cup Queued(outbox') \cup OnFile
            BY <1>1 DEF InHand, OnFile, Queued
        <2> QED BY <1>2, <2>1, <2>2, <2>3, HandIsPlaces
    <1> QED BY <1>1, <1>4, <1>5

NothingLost == pc' # "down" => InHand \ InHand' \subseteq Received' \cup shed'

LEMMA NextPlaced ==
    ASSUME SpoolKeeps, TypeOK, Provenance, Placed, [Next]_vars
    PROVE  Placed' /\ NothingLost
    BY ProcessPlaced, IdlePlaced, ArrivalPlaced, SpillPlaced, CorrectPlaced, SendPlaced
    DEF Next, NothingLost

LEMMA PlacedHolds ==
    ASSUME SpoolKeeps
    PROVE  Spec => []Placed
    <1>1. TypeOK /\ Provenance /\ Placed /\ [Next]_vars => Placed'
        BY NextPlaced
    <1> QED BY InitPlaced, <1>1, TypeCorrect, ProvenanceHolds, PTL DEF Spec

\* As long as the spool can be listed, read and written: in no step of a process
\* that runs does a batch it answered 200 for vanish, through eviction, spool,
\* restart, correction, overflow and retry; torn files and files that cannot be
\* deleted included (runtime.rs).
THEOREM NothingLostInTransit ==
    ASSUME SpoolKeeps
    PROVE  Spec => NoSilentLoss
    <1>1. TypeOK /\ Provenance /\ Placed /\ [Next]_vars => [NothingLost]_vars
        BY NextPlaced
    <1>2. Spec => [][NothingLost]_vars
        BY <1>1, PlacedHolds, TypeCorrect, ProvenanceHolds, PTL DEF Spec
    <1> QED BY <1>2 DEF NoSilentLoss, NothingLost

-----------------------------------------------------------------------------
(* The contract. A step of the delivery path is a step of DeliveryContract *)
(* for the one batch it hands over or takes, or for those it drops.        *)

Filed == {f.batch : f \in disk}
Memory == ToSet(spilling) \cup ToSet(buffer) \cup ToSet(inbox)
Waiting == Queued(outbox) \cup Filed \cup Memory

\* What is somewhere in the path was accepted; what is in memory, by the process
\* of this boot.
LEMMA AllAccepted ==
    ASSUME TypeOK, Provenance
    PROVE  /\ Waiting \subseteq Accepted /\ Memory \subseteq Mine /\ Mine \subseteq Accepted
           /\ \A f \in disk : /\ f.batch \in Accepted /\ bornIn[f.batch] = f.boot
                              /\ f.seq \in Nat /\ f.boot \in Nat
           /\ \A i \in 1..Len(received) : received[i].batch \in Accepted
           /\ Len(received) \in Nat /\ DOMAIN received = 1..Len(received)
           /\ Accepted \subseteq Nat \ {0} /\ Len(bornIn) \in Nat
    <1>1. Accepted \subseteq Nat \ {0} /\ Len(bornIn) \in Nat
        BY LenProperties DEF TypeOK, FrontOK, Accepted
    <1>2. Memory \subseteq Mine
        BY Members DEF Provenance, QueuesMine, Memory
    <1>3. Queued(outbox) \subseteq Accepted
        <2> SUFFICES ASSUME NEW b \in Queued(outbox) PROVE b \in Accepted
            OBVIOUS
        <2>1. DOMAIN outbox = 1..Len(outbox)
            BY LenProperties DEF Provenance, EntriesOwn
        <2>2. PICK i \in 1..Len(outbox) : b = outbox[i].batch /\ b # Health
            BY <2>1 DEF Queued
        <2>3. outbox[i] \in OwnEntry \cup HealthEntry
            BY <2>2, ElementOfSeq DEF Provenance, EntriesOwn
        <2> QED BY <2>2, <2>3 DEF OwnEntry, HealthEntry
    <1>4. \A f \in disk : /\ f.batch \in Accepted /\ bornIn[f.batch] = f.boot
                          /\ f.seq \in Nat /\ f.boot \in Nat
        BY BootsAssumption DEF Provenance, FilesOwn, FiledRight, File
    <1>5. /\ Len(received) \in Nat /\ DOMAIN received = 1..Len(received)
          /\ \A i \in 1..Len(received) : received[i].batch \in Accepted
        BY LenProperties, ElementOfSeq DEF Provenance, EntriesOwn, OwnEntry
    <1>6. Mine \subseteq Accepted
        BY DEF Mine
    <1> QED BY <1>1, <1>2, <1>3, <1>4, <1>5, <1>6 DEF Waiting, Filed

\* Where everything in hand or received came from.
LEMMA HandAccepted ==
    ASSUME TypeOK, Provenance
    PROVE  InHand \subseteq Accepted /\ Received \subseteq Accepted
           /\ Accepted \subseteq Batch /\ shed \subseteq Batch
    <1>1. InHand \subseteq Waiting
        BY DEF InHand, Waiting, Memory, Filed
    <1>2. Received \subseteq Accepted
        BY AllAccepted DEF Received
    <1>3. Accepted \subseteq Batch /\ shed \subseteq Batch
        BY LenProperties, BoundsAssumption DEF TypeOK, FrontOK, HistoryOK, Accepted, Batch
    <1> QED BY <1>1, <1>2, <1>3, AllAccepted

\* What is received is never taken back, and grows at its end alone.
LEMMA ReceivedGrows ==
    ASSUME TypeOK, [Next]_vars
    PROVE  /\ UNCHANGED received => Received' = Received
           /\ ~(SendSucceeds \/ AnswerIsLost) => UNCHANGED received
           /\ SendSucceeds \/ AnswerIsLost =>
                Received' = Received \cup ({Head(outbox).batch} \ {Health})
    <1>1. UNCHANGED received => Received' = Received
        BY DEF Received
    <1>2. ~(SendSucceeds \/ AnswerIsLost) => UNCHANGED received
        BY DEF Next, Start, StartWithoutSpool, Crash, Shutdown, AbortClock, MainExits,
           MainGivesUp, PowerLoss, Gone, Accept, Release, ClockStep, HoldExpires,
           RetryFallsDue, Receive, Spill, Wake, EmitHealth, Break, Decide, ReadSpool,
           ShipSpooled, ShipBuffer, Rest, SendFails, vars, history
    <1>3. ASSUME SendSucceeds \/ AnswerIsLost
          PROVE  Received' = Received \cup ({Head(outbox).batch} \ {Health})
        <2> DEFINE h == Head(outbox)
                   m == Len(received)
        <2>1. /\ outbox # <<>>
              /\ received' = IF h.batch = Health THEN received ELSE Append(received, h)
            BY <1>3 DEF SendSucceeds, AnswerIsLost, Sending, Arrives
        <2>2. outbox \in Seq(Entry) /\ received \in Seq([batch : Batch, mark : Mark])
            BY DEF TypeOK, FlowOK, HistoryOK
        <2>3. h \in Entry
            BY <2>1, <2>2, HeadTailProperties
        <2> HIDE DEF h
        <2>4. CASE h.batch = Health
            BY <2>1, <2>4, <1>1 DEF h
        <2>5. CASE h.batch # Health
            <3>1. h \in [batch : Batch, mark : Mark]
                BY <2>3, <2>5 DEF Entry
            <3>2. /\ m \in Nat /\ DOMAIN received = 1..m /\ DOMAIN received' = 1..m + 1
                  /\ \A i \in 1..m : received'[i] = received[i] /\ i \in 1..m + 1
                  /\ received'[m + 1] = h /\ m + 1 \in 1..m + 1
                  /\ \A i \in 1..m + 1 : i = m + 1 \/ i \in 1..m
                BY <2>1, <2>2, <2>5, <3>1, Appended, LenProperties
            <3> HIDE DEF m
            <3>3. Received' \subseteq Received \cup {h.batch}
                BY <3>2 DEF Received
            <3>4. Received \cup {h.batch} \subseteq Received'
                BY <3>2 DEF Received
            <3> QED BY <2>5, <3>3, <3>4 DEF h
        <2> QED BY <2>4, <2>5
    <1> QED BY <1>1, <1>2, <1>3

Standing == [b \in Batch |-> StatusOf(b)]
Held == InHand \ Received

LEMMA StandingIs ==
    /\ Standing \in [Batch -> Contract!Status]
    /\ \A b \in Batch : Standing[b] = StatusOf(b)
    BY DEF Standing, StatusOf, Contract!Status

\* Where nothing is accepted and nothing received, a batch keeps its standing
\* or drops out.
LEMMA OnlyDropsIfLeaving ==
    ASSUME NEW S, UNCHANGED bornIn, Received' = Received, InHand' \subseteq InHand,
           InHand \ InHand' \subseteq S
    PROVE  /\ Standing' \in [Batch -> Contract!Status]
           /\ \A b \in Batch :
                \/ Standing'[b] = Standing[b]
                \/ Standing[b] = "held" /\ Standing'[b] = "dropped" /\ b \in S
    BY DEF Standing, StatusOf, Accepted, Contract!Status

LEMMA SameStanding ==
    ASSUME UNCHANGED bornIn, Received' = Received, InHand' = InHand
    PROVE  Standing' = Standing
    BY DEF Standing, StatusOf, Accepted

ContractVars == <<Standing, shed, pc # "down">>

LEMMA InitContract == Init => Contract!Init
    <1> SUFFICES ASSUME Init PROVE Contract!Init
        OBVIOUS
    <1>1. Accepted = {}
        BY DEF Init, Accepted
    <1>2. \A b \in Batch : StatusOf(b) = "unseen"
        BY <1>1 DEF StatusOf
    <1> QED BY <1>2 DEF Init, Contract!Init

LEMMA NextContract ==
    ASSUME SpoolKeeps, TypeOK, Provenance, Placed, [Next]_vars
    PROVE  Contract!Next \/ UNCHANGED ContractVars
    <1> USE DEF ContractVars
    <1>1. CASE Accept
        <2> DEFINE new == Len(bornIn) + 1
        <2>1. /\ UNCHANGED <<shed, pc, received>> /\ pc # "down"
              /\ bornIn' = Append(bornIn, boot) /\ Len(bornIn) < MaxBatches
            BY <1>1 DEF Accept, control, history
        <2>2. Len(bornIn) \in Nat /\ Len(bornIn') = Len(bornIn) + 1
            BY <2>1, AppendProperties, LenProperties DEF TypeOK, FrontOK, MachineOK
        <2>3. new \in Batch /\ new \notin Accepted /\ Accepted' = Accepted \cup {new}
            BY <2>1, <2>2, BoundsAssumption DEF Batch, Accepted
        <2>4. Received' = Received /\ new \notin Received
            BY <2>1, <2>3, HandAccepted DEF Received
        <2>5. InHand' = InHand \cup {new}
            BY <1>1, ArrivalPlaced
        <2> HIDE DEF new
        <2>6. /\ Standing[new] = "unseen" /\ Standing'[new] = "held"
              /\ \A b \in Batch : b # new => Standing'[b] = Standing[b]
            BY <2>3, <2>4, <2>5 DEF Standing, StatusOf
        <2>7. Standing' = [Standing EXCEPT ![new] = "held"]
            BY <2>3, <2>6 DEF Standing
        <2>8. Contract!Take(new)
            BY <2>1, <2>6, <2>7 DEF Contract!Take, Standing
        <2> QED BY <2>3, <2>8 DEF Contract!Next
    <1>2. CASE Start
        <2>1. UNCHANGED <<bornIn, received, shed>> /\ pc = "down" /\ pc' = "select"
            BY <1>2 DEF Start, history
        <2>2. Standing' = Standing
            BY <1>2, <2>1, ProcessPlaced, SameStanding DEF Received
        <2>3. Contract!Begin
            BY <2>1, <2>2 DEF Contract!Begin, Standing
        <2> QED BY <2>3 DEF Contract!Next
    <1>3. CASE Crash \/ MainExits \/ MainGivesUp \/ PowerLoss
        <2>1. UNCHANGED <<bornIn, received, shed>> /\ ~Start
            BY <1>3 DEF Crash, MainExits, MainGivesUp, PowerLoss, Gone, Start, front,
               history, control
        <2>2. pc' = "down" /\ InHand' \subseteq InHand
            BY <1>3, <2>1, ProcessPlaced
        <2>3. InHand \ InHand' \subseteq Batch /\ Received' = Received
            BY <2>1, HandAccepted DEF Received
        <2>4. Contract!OnlyDrops(Batch)
            BY <2>1, <2>2, <2>3, OnlyDropsIfLeaving DEF Contract!OnlyDrops, Standing
        <2>5. Contract!Perish
            BY <2>1, <2>2, <2>4 DEF Contract!Perish
        <2> QED BY <2>5 DEF Contract!Next
    <1>4. CASE ShipBuffer
        <2>1. /\ UNCHANGED <<bornIn, received>> /\ shed \subseteq shed'
              /\ pc # "down" /\ pc' # "down"
            BY <1>4 DEF ShipBuffer, front
        <2>2. InHand' \subseteq InHand /\ InHand \ InHand' \subseteq shed'
            BY <1>4, CorrectPlaced
        <2>3. shed' \subseteq Batch
            BY <1>4, CorrectTypeOK DEF TypeOK, HistoryOK
        <2>4. Contract!OnlyDrops(shed')
            BY <2>1, <2>2, OnlyDropsIfLeaving DEF Received, Contract!OnlyDrops, Standing
        <2>5. Contract!Shed
            BY <2>1, <2>3, <2>4 DEF Contract!Shed
        <2> QED BY <2>5 DEF Contract!Next
    <1>5. CASE SendSucceeds \/ AnswerIsLost
        <2> DEFINE b0 == Head(outbox).batch
        <2>1. /\ UNCHANGED <<bornIn, shed>> /\ pc # "down" /\ pc' # "down"
              /\ outbox # <<>>
            BY <1>5 DEF SendSucceeds, AnswerIsLost, Sending, EndCycle, front, control
        <2>2. /\ InHand' \subseteq InHand /\ InHand \ InHand' \subseteq {b0} \ {Health}
              /\ Received' = Received \cup ({b0} \ {Health})
            BY <1>5, SendPlaced, ReceivedGrows
        <2>3. b0 # Health => b0 \in InHand
            <3>1. Queued(outbox) = Queued(Tail(outbox)) \cup ({b0} \ {Health})
                BY <2>1, EntriesTail DEF TypeOK, FlowOK
            <3> QED BY <3>1, HandIsPlaces
        <2>4. b0 # Health => b0 \in Accepted /\ b0 \in Batch
            BY <2>3, HandAccepted
        <2> HIDE DEF b0
        <2>5. CASE b0 = Health \/ b0 \in Received
            <3>1. Received' = Received /\ InHand \ InHand' \subseteq Received
                BY <2>2, <2>5
            <3>2. Standing' = Standing
                BY <2>1, <2>2, <3>1 DEF Standing, StatusOf, Accepted
            <3> QED BY <2>1, <3>2
        <2>6. CASE b0 # Health /\ b0 \notin Received
            <3>1. Standing[b0] = "held" /\ Standing'[b0] = "received"
                BY <2>1, <2>2, <2>3, <2>4, <2>6 DEF Standing, StatusOf, Accepted
            <3>2. \A b \in Batch : b # b0 => Standing'[b] = Standing[b]
                BY <2>1, <2>2, <2>6 DEF Standing, StatusOf, Accepted
            <3>3. Standing' = [Standing EXCEPT ![b0] = "received"]
                BY <2>4, <2>6, <3>1, <3>2 DEF Standing
            <3>4. Contract!HandOver(b0)
                BY <2>1, <3>1, <3>3 DEF Contract!HandOver, Standing
            <3> QED BY <2>4, <2>6, <3>4 DEF Contract!Next
        <2> QED BY <2>5, <2>6
    <1>6. CASE \/ Receive \/ EmitHealth \/ Spill \/ ReadSpool \/ ShipSpooled
               \/ Shutdown \/ AbortClock \/ Release \/ ClockStep \/ HoldExpires
               \/ RetryFallsDue \/ Wake \/ Break \/ Decide \/ Rest \/ SendFails
               \/ UNCHANGED vars
        <2>1. /\ UNCHANGED <<bornIn, received, shed>> /\ (pc' = "down" <=> pc = "down")
              /\ Receive \/ EmitHealth => ~Accept
              /\ ReadSpool \/ ShipSpooled => ~ShipBuffer
            BY <1>6 DEF Receive, EmitHealth, Spill, ReadSpool, ShipSpooled, Shutdown,
               AbortClock, Release, ClockStep, HoldExpires, RetryFallsDue, Wake, Break,
               Decide, Rest, SendFails, Sending, EndCycle, Accept, ShipBuffer, vars,
               machine, front, flow, control, history
        <2>2. InHand' = InHand
            BY <1>6, <2>1, IdlePlaced, ArrivalPlaced, SpillPlaced, CorrectPlaced
        <2>3. Standing' = Standing
            BY <2>1, <2>2, SameStanding DEF Received
        <2> QED BY <2>1, <2>3
    <1> QED BY <1>1, <1>2, <1>3, <1>4, <1>5, <1>6, ProcessPlaced DEF Next

\* As long as the spool can be listed, read and written: mp-collector implements
\* the contract. A batch it took is handed over once in the application's eyes,
\* shed and counted, or lost with its process; none comes back after it was
\* dropped (design 4.6, runtime.rs).
THEOREM ContractKept ==
    ASSUME SpoolKeeps
    PROVE  Spec => KeepsContract
    <1>1. TypeOK /\ Provenance /\ Placed /\ [Next]_vars
            => [Contract!Next]_<<[b \in Batch |-> StatusOf(b)], shed, pc # "down">>
        BY NextContract DEF ContractVars, Standing
    <1> QED BY InitContract, <1>1, PlacedHolds, TypeCorrect, ProvenanceHolds, PTL
            DEF Spec, KeepsContract, Contract!Spec

================================================================================
