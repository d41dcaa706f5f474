----------------------------- MODULE Correction -----------------------------
(***************************************************************************)
(* What happens to the times of one log record on its way (correct.rs):    *)
(* the receipt pass finds the boottime of its stamp and lets it ride along,*)
(* the flush pass projects that with the offset of its own moment, and the *)
(* receiver keeps one time of what arrives (otlp/convert.rs). Pure         *)
(* functions; a time of 0 is none. Times fit their 64 bits here.           *)
(***************************************************************************)
EXTENDS OffsetTable

\* The hint of a record that has none: no boottime is negative.
NoHint == -1

\* What `resolve` or a hint concludes, and what the two other ways out carry.
Conclusion(label, boottime) == [label |-> label, boottime |-> boottime, spread |-> 0]

\* time_unix_nano, else observed_time_unix_nano
Stamp(record) == IF record.time # 0 THEN record.time ELSE record.observed

\* Mutation of Decide: the receiver's chain the other way round.
DecideByObserved(record, knownTable, receipt) ==
    CASE record.authoritative -> Conclusion("authoritative", 0)
      [] ~record.authoritative /\ record.hint # NoHint -> Conclusion("exact", record.hint)
      [] OTHER ->
            Resolve(knownTable, [stamped |-> record.observed,
                                 senderStarted |-> receipt.senderStarted,
                                 received |-> receipt.received])

\* `decide`
Decide(record, knownTable, receipt) ==
    LET stamped == Stamp(record) IN
    CASE record.authoritative -> Conclusion("authoritative", 0)
      [] ~record.authoritative /\ record.hint # NoHint -> Conclusion("exact", record.hint)
      [] ~record.authoritative /\ record.hint = NoHint /\ stamped = 0 ->
            Conclusion("passthrough", 0)
      [] OTHER ->
            Resolve(knownTable, [stamped |-> stamped,
                                 senderStarted |-> receipt.senderStarted,
                                 received |-> receipt.received])

\* `resolve_record`: the stamps stay, the conclusion rides along, the hints go.
ResolveRecord(record, knownTable, receipt) ==
    [time |-> record.time, observed |-> record.observed,
     conclusion |-> Decide(record, knownTable, receipt), received |-> receipt.received]

Correctable(conclusion) == conclusion.label \in {"exact", "ambiguous"}

\* `project`
Project(boottime, by) == IF boottime + by < 0 THEN 0 ELSE boottime + by

\* `correct_record`, with the set of the one offset there is to project with, or
\* none; marks say by exception what is not ordinary about the record.
CorrectRecord(carried, offsets, uncertain) ==
    LET applied == Correctable(carried.conclusion) /\ offsets # {}
        Wall(boottime) == Project(boottime, CHOOSE o \in offsets : TRUE)
        event == Wall(carried.conclusion.boottime)
        exceptional == ~applied \/ uncertain \/ carried.conclusion.label = "ambiguous"
    IN  [time |-> IF applied /\ carried.time # 0 THEN event ELSE carried.time,
         observed |-> CASE applied /\ carried.time # 0 -> Wall(carried.received)
                        [] applied /\ carried.time = 0 -> event
                        [] OTHER -> carried.observed,
         resolution |-> IF exceptional THEN carried.conclusion.label ELSE "none",
         spread |-> carried.conclusion.spread,
         uncertain |-> uncertain]

\* `event_time` of the receiver
EventTime(record) == Stamp(record)
=============================================================================
