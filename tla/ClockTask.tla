------------------------------ MODULE ClockTask ------------------------------
(***************************************************************************)
(* ClockTask of mp-collector (runtime.rs): the step watch, the poll with   *)
(* its hysteresis (sync.rs), the epoch table and its snapshot on disk      *)
(* (state.rs), and the start of a process that takes its first table from  *)
(* the snapshot, the journal or one reading. The machine's clock steps at  *)
(* any moment, also between two lines of this code and while no process    *)
(* runs, and the machine may be suspended, which CLOCK_BOOTTIME counts and  *)
(* CLOCK_MONOTONIC, journald's clock, does not.                            *)
(***************************************************************************)
EXTENDS Correction

CONSTANTS
    Offsets,            \* values `realtime - boottime` takes
    Consecutive,        \* config.clock_consecutive
    SettledPollTicks,   \* every how many ticks a settled task polls
    JournalBackfill,    \* config.journal_backfill
    Faults,             \* subset of FaultKinds that may happen
    MaxBoottime,        \* bound: boottime
    MaxSlept,           \* bound: time suspended in a boot
    MaxSteps,           \* bound: steps and suspends in a behaviour
    MaxBoots,           \* bound: boots of the machine
    MaxStarts           \* bound: starts of the collector

\* "sample": clock_gettime or adjtimex fails. "watch": the timerfd does.
\* "save": the snapshot cannot be written. "load": it cannot be read or parsed.
FaultKinds == {"sample", "watch", "save", "load"}

ASSUME OffsetsAssumption == Offsets \subseteq Int /\ Offsets # {}
ASSUME ClockConfigAssumption ==
    Consecutive \in Nat \ {0} /\ SettledPollTicks \in Nat \ {0}
ASSUME ClockBoundsAssumption ==
    /\ MaxBoottime \in Nat \ {0} /\ MaxSlept \in Nat /\ MaxSteps \in Nat
    /\ MaxBoots \in Nat \ {0} /\ MaxStarts \in Nat
ASSUME ClockFaultsAssumption == Faults \subseteq FaultKinds /\ JournalBackfill \in BOOLEAN

VARIABLES
    now, offset, boot,  \* the machine: boottime, realtime - boottime, boot id
    truth, slept,       \* history: the offset, the time suspended, at every boottime
    fd,                 \* the timerfd: "closed", "armed", "cancelled"
    pc,                 \* where ClockTask::run is
    live,               \* the first reading, a local of initial_table
    table,              \* ClockState.table
    source, ever,       \* ClockState.sync_source.is_some(), ever_synchronized
    streak, ticks,      \* locals of run(), ticks modulo SettledPollTicks
    saved,              \* the snapshot on disk
    starts, steps,      \* counters of bounds
    unwatched,          \* history: of a step, or a sleep, no timer or reading told
    unread,             \* history: the snapshot on disk is one that could not be read
    imported            \* history: the sums of sleep the imports of this boot went by

machine == <<now, offset, boot, truth, slept>>
verdict == <<source, ever, streak, ticks>>
counters == <<starts, steps>>
vars == <<machine, fd, pc, live, table, verdict, saved, counters, unwatched, unread, imported>>

NoSnapshot == [boot |-> 0, epochs |-> <<>>]
NoReading == [start |-> 0, offset |-> 0]
Live == [start |-> now, offset |-> offset]

\* What a process does not have before it starts and after it is gone.
Blank ==
    /\ fd' = "closed" /\ live' = NoReading /\ table' = <<>>
    /\ source' = FALSE /\ ever' = FALSE /\ streak' = 0 /\ ticks' = 0

Init ==
    /\ now = 1 /\ offset \in Offsets /\ boot = 1
    /\ truth = [t \in 0..now |-> offset] /\ slept = [t \in 0..now |-> 0]
    /\ fd = "closed" /\ pc = "down" /\ live = NoReading /\ table = <<>>
    /\ source = FALSE /\ ever = FALSE /\ streak = 0 /\ ticks = 0
    /\ saved = NoSnapshot /\ starts = 0 /\ steps = 0
    /\ unwatched = FALSE /\ unread = FALSE /\ imported = {0}

-----------------------------------------------------------------------------
(* The machine.                                                            *)

Extended(history, v) == [t \in 0..now + 1 |-> IF t <= now THEN history[t] ELSE v]

\* Something steps CLOCK_REALTIME, and the kernel cancels the timer.
ClockSteps ==
    /\ steps < MaxSteps /\ now < MaxBoottime
    /\ steps' = steps + 1
    /\ now' = now + 1
    /\ offset' \in Offsets \ {offset}
    /\ truth' = Extended(truth, offset') /\ slept' = Extended(slept, slept[now])
    /\ fd' = IF fd = "armed" THEN "cancelled" ELSE fd
    /\ unwatched' = (unwatched \/ fd = "closed")
    /\ UNCHANGED <<boot, pc, live, table, verdict, saved, starts, unread, imported>>

TimePasses ==
    /\ now < MaxBoottime
    /\ now' = now + 1
    /\ truth' = Extended(truth, offset) /\ slept' = Extended(slept, slept[now])
    /\ UNCHANGED <<offset, boot, fd, pc, live, table, verdict, saved,
                   counters, unwatched, unread, imported>>

\* A suspend and its resume, which cancels the timer though no offset moved. What a
\* resume does to CLOCK_REALTIME besides is a step after it.
Sleeps ==
    /\ steps < MaxSteps /\ now < MaxBoottime /\ slept[now] < MaxSlept
    /\ steps' = steps + 1
    /\ now' = now + 1
    /\ truth' = Extended(truth, offset) /\ slept' = Extended(slept, slept[now] + 1)
    /\ fd' = IF fd = "armed" THEN "cancelled" ELSE fd
    /\ unwatched' = (unwatched \/ pc = "loading")
    /\ UNCHANGED <<offset, boot, pc, live, table, verdict, saved, starts, unread, imported>>

Reboot ==
    /\ boot < MaxBoots
    /\ boot' = boot + 1 /\ now' = 1 /\ offset' \in Offsets
    /\ truth' = [t \in 0..now' |-> offset'] /\ slept' = [t \in 0..now' |-> 0]
    /\ Blank /\ pc' = "down"
    /\ unwatched' = FALSE /\ unread' = FALSE /\ imported' = {0}
    /\ UNCHANGED <<saved, counters>>

-----------------------------------------------------------------------------
(* The process: build(), and its end.                                      *)

\* Mutation of Resumable: a snapshot is a snapshot.
AnySnapshot == saved # NoSnapshot
\* Mutation of Resumable: the boot ids are compared the wrong way round.
OtherBoot == saved # NoSnapshot /\ saved.boot # boot
\* state::load, keyed by the boot id.
Resumable == saved.boot = boot

\* CLOCK_MONOTONIC at a boottime.
Monotonic(t) == t - slept[t]

\* When journald may have stamped an entry in this boot, no two of them with one
\* stamp, and what it stamped.
Moments ==
    {at \in UNION {[1..n -> 1..now] : n \in 1..now} :
        \A i, j \in DOMAIN at : i < j => at[i] < at[j] /\ Monotonic(at[i]) < Monotonic(at[j])}
Entries(at) ==
    [i \in DOMAIN at |-> [monotonic |-> Monotonic(at[i]), realtime |-> at[i] + truth[at[i]]]]

\* initial_table, its first line: the reading that every table gets.
FirstReading ==
    /\ pc = "down" /\ starts < MaxStarts
    /\ starts' = starts + 1
    /\ live' = Live
    /\ unwatched' = FALSE
    /\ pc' = "loading"
    /\ UNCHANGED <<machine, fd, table, verdict, saved, steps, unread, imported>>

\* The rest of it: the snapshot, else the journal, else the one reading, taken to hold
\* since boot. The snapshot and the journal may be unreadable, the journal empty.
InitialTable ==
    /\ pc = "loading"
    /\ \/ /\ Resumable
          /\ \E t \in FromEpochs(saved.epochs) : table' = With(t, live)
          /\ unread' = FALSE /\ UNCHANGED imported
       \/ /\ ~Resumable \/ "load" \in Faults
          /\ unread' = Resumable
          /\ \/ /\ JournalBackfill /\ imported' = imported \cup {slept[now]}
                /\ \E at \in Moments :
                      \E list \in JournalEpochs(Imported(Entries(at), slept[now])) :
                          \E t \in FromEpochs(list) : table' = With(t, live)
             \/ table' = <<[start |-> 0, offset |-> live.offset]>> /\ UNCHANGED imported
    /\ live' = NoReading
    /\ pc' = "arming"
    /\ UNCHANGED <<machine, fd, verdict, saved, counters, unwatched>>

\* StepWatch::new, only after the table has its first reading.
Arm ==
    /\ pc = "arming"
    /\ fd' = "armed"
    /\ pc' = "idle"
    /\ UNCHANGED <<machine, live, table, verdict, saved, counters, unwatched, unread, imported>>

Crash ==
    /\ pc # "down"
    /\ Blank /\ pc' = "down"
    /\ UNCHANGED <<machine, saved, counters, unwatched, unread, imported>>

-----------------------------------------------------------------------------
(* ClockTask::run.                                                         *)

\* Mutation of Notice: the step is left to the poll.
NoticeAndPoll ==
    /\ pc = "idle" /\ fd = "cancelled"
    /\ fd' = "armed"
    /\ pc' = "poll"
    /\ UNCHANGED <<machine, live, table, verdict, saved, counters, unwatched, unread, imported>>

\* StepWatch::stepped: re-armed before anyone is told.
Notice ==
    /\ pc = "idle" /\ fd = "cancelled"
    /\ fd' = "armed"
    /\ pc' = "step"
    /\ UNCHANGED <<machine, live, table, verdict, saved, counters, unwatched, unread, imported>>

\* Reading or re-arming the timer fails: the watch is dropped for good.
WatchFails ==
    /\ pc = "idle" /\ fd # "closed" /\ "watch" \in Faults
    /\ fd' = "closed"
    /\ unwatched' = TRUE
    /\ pc' = "poll"
    /\ UNCHANGED <<machine, live, table, verdict, saved, counters, unread, imported>>

Extend(t) ==
    /\ table' = With(t, Live)
    /\ unwatched' = FALSE

\* on_step, up to its call of persist
OnStep ==
    /\ pc = "step"
    /\ Extend(table)
    /\ pc' = "save step"
    /\ UNCHANGED <<machine, fd, live, verdict, saved, counters, unread, imported>>
OnStepFails ==
    /\ pc = "step" /\ "sample" \in Faults
    /\ unwatched' = TRUE
    /\ pc' = "poll"
    /\ UNCHANGED <<machine, fd, live, table, verdict, saved, counters, unread, imported>>

\* persist: a rename, so the old snapshot or the new one. A poll follows a step.
Persist ==
    /\ pc \in {"save step", "save poll"}
    /\ \/ saved' = [boot |-> boot, epochs |-> table] /\ unread' = FALSE
       \/ "save" \in Faults /\ UNCHANGED <<saved, unread>>
    /\ pc' = IF pc = "save step" THEN "poll" ELSE "idle"
    /\ UNCHANGED <<machine, fd, live, table, verdict, counters, unwatched, imported>>

Settled == ever /\ fd # "closed"
\* Mutation of PollDue: once settled, the poll stops.
PollUntilSettled(tick) == ~Settled
PollDue(tick) == ~Settled \/ tick = 0

Tick ==
    /\ pc = "idle"
    /\ ticks' = (ticks + 1) % SettledPollTicks
    /\ pc' = IF PollDue(ticks') THEN "poll" ELSE "idle"
    /\ UNCHANGED <<machine, fd, live, table, source, ever, streak, saved, counters, unwatched,
                   unread, imported>>

\* sync::decide on a reading: maxerror below the threshold, the status flag.
Readings == [lowError : BOOLEAN, unsync : BOOLEAN]
Good(reading) == reading.lowError \/ ~reading.unsync

\* saturating_add; what lies beyond Consecutive is not told apart.
NextStreak(good) ==
    IF ~good THEN 0 ELSE IF streak < Consecutive THEN streak + 1 ELSE streak

\* Mutation of SourceOf: a good reading counts before the streak is long enough.
SourceAtOnce(good, run) == good
SourceOf(good, run) == run >= Consecutive /\ good

\* on_poll: sync::evaluate, then the check of the offset.
Poll ==
    /\ pc = "poll"
    /\ \E reading \in Readings :
        LET good == Good(reading) IN
        /\ streak' = NextStreak(good)
        /\ source' = SourceOf(good, streak')
        /\ ever' = (ever \/ streak' >= Consecutive)
    /\ IF DisagreesWith(table, offset)
       THEN Extend(table) /\ pc' = "save poll"
       ELSE UNCHANGED <<table, unwatched>> /\ pc' = "idle"
    /\ UNCHANGED <<machine, fd, live, ticks, saved, counters, unread, imported>>

\* A reading that fails counts as a bad one, and changes nothing else.
PollFails ==
    /\ pc = "poll" /\ "sample" \in Faults
    /\ streak' = 0
    /\ pc' = "idle"
    /\ UNCHANGED <<machine, fd, live, table, source, ever, ticks, saved, counters, unwatched,
                   unread, imported>>

-----------------------------------------------------------------------------
Next ==
    \/ ClockSteps \/ TimePasses \/ Sleeps \/ Reboot
    \/ FirstReading \/ InitialTable \/ Arm \/ Crash
    \/ Notice \/ WatchFails \/ OnStep \/ OnStepFails \/ Persist
    \/ Tick \/ Poll \/ PollFails

Spec == Init /\ [][Next]_vars

\* select! picks among its ready arms at random, the interval keeps ticking, and
\* what an arm began it ends. Of the readings made again and again one succeeds.
Fairness ==
    /\ WF_vars(Arm) /\ SF_vars(Notice) /\ SF_vars(Tick)
    /\ WF_vars(OnStep \/ OnStepFails) /\ WF_vars(Persist)
    /\ WF_vars(Poll \/ PollFails) /\ SF_vars(Poll)

FairSpec == Spec /\ Fairness

-----------------------------------------------------------------------------
(* What the clock task promises.                                           *)

Snapshot == [boot : 0..MaxBoots, epochs : Seq(Epoch)]
MachineOK ==
    /\ now \in 1..MaxBoottime /\ offset \in Offsets /\ boot \in 1..MaxBoots
    /\ truth \in [0..now -> Offsets] /\ slept \in [0..now -> 0..MaxSlept]
TaskOK ==
    /\ fd \in {"closed", "armed", "cancelled"}
    /\ pc \in {"down", "loading", "arming", "idle", "step", "poll", "save step", "save poll"}
    /\ live \in Epoch /\ table \in Seq(Epoch)
VerdictOK ==
    /\ source \in BOOLEAN /\ ever \in BOOLEAN
    /\ streak \in 0..Consecutive /\ ticks \in 0..SettledPollTicks - 1
KeptOK ==
    /\ saved \in Snapshot /\ starts \in 0..MaxStarts /\ steps \in 0..MaxSteps
    /\ unwatched \in BOOLEAN /\ unread \in BOOLEAN /\ imported \in SUBSET (0..MaxSlept)
TypeOK == MachineOK /\ TaskOK /\ VerdictOK /\ KeptOK

WellFormed(t) ==
    /\ \A i, j \in 1..Len(t) : i < j => t[i].start < t[j].start
    /\ \A i \in 1..Len(t) - 1 : t[i].offset # t[i + 1].offset

\* The table is never empty, sorted, and without a boundary that is none: what
\* every lookup relies on (epoch.rs), through steps, polls, journal and restart.
TableWellFormed ==
    /\ pc \notin {"down", "loading"} => table # <<>>
    /\ WellFormed(table) /\ WellFormed(saved.epochs)

\* Every epoch in the table is one this boot's clock was in at some moment, and is
\* dated no later than it: nothing comes from another boot (state.rs). An epoch that was
\* imported from the journal may be off, in its offset and its date, by what the machine
\* slept between that moment and the import, which knows only the sum of all sleep
\* (collector-clock-correction-design.md:169 accepts it), and by nothing else.
Misdated(t) == {0} \cup {sum - slept[t] : sum \in {s \in imported : s >= slept[t]}}
Witnessed(e) ==
    \E t \in 0..now : \E late \in Misdated(t) :
        truth[t] = e.offset + late /\ e.start <= t + late
TableWitnessed == \A i \in 1..Len(table) : Witnessed(table[i])

\* What the disk holds of this boot's offset history only grows, over crashes and
\* failed writes: a restarted process extends what it finds (state.rs). The one that
\* could not read it starts over, which state.rs:43 accepts, and its first save with it.
SavedHistoryKept ==
    [][saved.boot = boot /\ boot' = boot /\ ~unread =>
         ToSet(saved.epochs) \subseteq ToSet(saved'.epochs)]_vars

\* The epochs a table needs to have when r is the moment of receipt.
NeededAt(r) == 1 + Cardinality({t \in 1..r : truth[t] # truth[t - 1]})

\* The table knows every step, and dates it within the tolerance.
Complete ==
    /\ Len(table) = NeededAt(now)
    /\ \A t \in 0..now : t = 0 \/ truth[t] # truth[t - 1] =>
        LET epoch == table[NeededAt(t)] IN
        /\ epoch.offset = truth[t]
        /\ Distance(epoch.start, t) <= Tolerance

\* What an application may send of an event at boottime t, received at r: its time
\* and when it was observed, either in one, or no stamp but the boottime itself.
SentOf(t, r) ==
    LET Sent(time, observed, hint) ==
            [time |-> time, observed |-> observed, hint |-> hint, authoritative |-> FALSE]
        stamp == t + truth[t]
    IN  {Sent(stamp, r + truth[r], NoHint), Sent(0, stamp, NoHint), Sent(0, 0, t)}

\* What the receiver keeps of an event at boottime t is the wall time of t by the
\* clock as it is now, give or take the spread it is marked with and the
\* tolerance, whenever between t and now it was received, however the clock moved
\* since, and whether it is stamped in one field or the other: it is never passed
\* through, nor unmarked and wrong. Where there is no offset, as after a reboot, or
\* the sender vouches for it, it is kept as sent (epoch.rs, resolve; correct.rs).
\* A time of 0 is none: events are at least the tolerance later than the boot.
CorrectedHonestly ==
    pc = "idle" /\ Complete => \A r \in 1..now : \A n \in NeededAt(r)..Len(table) :
        \A t \in 1..r : \A s \in {0, t} : \A sent \in SentOf(t, r) :
            t >= Tolerance =>
            LET Carried(record) ==
                    ResolveRecord(record, SubSeq(table, 1, n),
                                  [senderStarted |-> s, received |-> r])
                Kept(carried) == CorrectRecord(carried, {Active(table).offset}, FALSE)
                resolved == Carried(sent)
                kept == Kept(resolved)
                asItCame == CorrectRecord(resolved, {}, TRUE)
                vouched == Kept(Carried([sent EXCEPT !.authoritative = TRUE]))
            IN  /\ kept.resolution # "passthrough"
                /\ Distance(EventTime(kept), t + Active(table).offset)
                       <= kept.spread + Tolerance
                /\ {EventTime(asItCame), EventTime(vouched)} = {EventTime(sent)}
                /\ "none" \notin {asItCame.resolution, vouched.resolution}

\* Where a timer was armed and the readings answered, the table is on the clock
\* again before the task waits for the next event, however small the step was:
\* none slips through between the notice, the re-arming and the reading.
StepsKnown ==
    pc \in {"idle", "poll"} /\ fd = "armed" /\ ~unwatched =>
        Active(table).offset = offset

\* Whatever was missed, by the watch or by a reading, the poll catches: the table
\* does not stay off the clock by more than the threshold (runtime.rs, on_poll).
TableCatchesUp ==
    pc = "idle" /\ DisagreesWith(table, offset) ~>
        pc \in {"down", "loading"} \/ ~DisagreesWith(table, offset)

=============================================================================
