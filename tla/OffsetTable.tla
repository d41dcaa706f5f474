----------------------------- MODULE OffsetTable -----------------------------
(***************************************************************************)
(* The epoch table of mp-collector (epoch.rs) and what journald's entries  *)
(* say of it (journal.rs): pure functions, no clock. An epoch is a stretch *)
(* of boottime over which `realtime - boottime` held one value; it ends    *)
(* where the next one begins. Its `source` is a label for the metrics and  *)
(* left out.                                                               *)
(***************************************************************************)
EXTENDS Integers, SequencesExt

CONSTANTS
    Tolerance,          \* config.tolerance_nanos: slack at epoch boundaries
    ResyncThreshold,    \* config.resync_threshold_nanos
    JournalThreshold    \* config.journal_step_threshold_nanos

ASSUME ThresholdsAssumption ==
    Tolerance \in Nat /\ ResyncThreshold \in Nat /\ JournalThreshold \in Nat

Epoch == [start : Nat, offset : Int]

Distance(a, b) == IF a < b THEN b - a ELSE a - b

-----------------------------------------------------------------------------
(* Building the table.                                                     *)

\* k picks, in order, the first element of every run of 1..n: what lies before
\* the next pick is the same as this one. That is Vec::dedup_by, and the fold
\* of journal::epochs, each with its own notion of the same, a set of pairs.
PicksRuns(k, n, same) ==
    /\ n > 0 => Len(k) > 0 /\ k[1] = 1
    /\ \A i, j \in 1..Len(k) : i < j => k[i] < k[j]
    /\ \A i \in 1..Len(k) - 1 : <<k[i], k[i + 1]>> \notin same
    /\ \A i \in 1..Len(k), j \in 1..n :
        k[i] < j /\ (i < Len(k) => j < k[i + 1]) => <<k[i], j>> \in same

Picks(n) == UNION {[1..m -> 1..n] : m \in 0..n}
Pairs(n) == (1..n) \X (1..n)

\* A boundary learned twice, or no boundary at all.
SameBoundary(list) ==
    {p \in Pairs(Len(list)) : \/ list[p[2]].start = list[p[1]].start
                              \/ list[p[2]].offset = list[p[1]].offset}

\* `from_epochs`, of a list in the order of its starts, as both callers have it:
\* the set of the one table it makes.
FromEpochs(list) ==
    {[i \in DOMAIN k |-> list[k[i]]] :
        k \in {p \in Picks(Len(list)) : PicksRuns(p, Len(list), SameBoundary(list))}}

\* Mutation of Imported: journald's stamps are taken for boottime.
ImportedAsStamped(entries, suspended) ==
    [i \in DOMAIN entries |->
        [at |-> entries[i].monotonic, offset |-> entries[i].realtime - entries[i].monotonic]]
\* Into the table's frame: `boottime - monotonic` as it is at the import, for every
\* entry, those from before a suspend too.
Imported(entries, suspended) ==
    [i \in DOMAIN entries |->
        LET boottime == entries[i].monotonic + suspended
        IN  [at |-> boottime, offset |-> entries[i].realtime - boottime]]

NearOffset(samples) ==
    {p \in Pairs(Len(samples)) :
        Distance(samples[p[1]].offset, samples[p[2]].offset) <= JournalThreshold}

\* `journal::epochs`, of samples in their order: the first one's offset, since boot,
\* then every move by more than the threshold, dated to the last sample before it.
JournalEpochs(samples) ==
    {[i \in DOMAIN k |-> [start |-> IF i = 1 THEN 0 ELSE samples[k[i] - 1].at,
                          offset |-> samples[k[i]].offset]] :
        k \in {p \in Picks(Len(samples)) :
            PicksRuns(p, Len(samples), NearOffset(samples))}}

\* `current`
Active(table) == Last(table)

\* Mutation of With: every boundary that comes later counts.
WithAnyLater(table, epoch) ==
    IF epoch.start <= Active(table).start THEN table ELSE Append(table, epoch)

\* `with`: history extends forward, and only by a boundary.
With(table, epoch) ==
    IF epoch.start <= Active(table).start \/ epoch.offset = Active(table).offset
    THEN table
    ELSE Append(table, epoch)

DisagreesWith(table, offset) == Distance(offset, Active(table).offset) > ResyncThreshold

-----------------------------------------------------------------------------
(* Resolving a stamp: which boottime a wall-clock reading denotes.         *)

\* Mutation of WithinEpoch: no slack before the boundary.
WithinEpochStrictly(table, i, event) ==
    /\ event >= table[i].start
    /\ i < Len(table) => event < table[i + 1].start + Tolerance
WithinEpoch(table, i, event) ==
    /\ event >= table[i].start - Tolerance
    /\ i < Len(table) => event < table[i + 1].start + Tolerance

\* The sender cannot have read a clock before it started, nor after receipt.
WithinWindow(query, event) ==
    /\ event >= query.senderStarted - Tolerance
    /\ event <= query.received + Tolerance

\* The boottime a stamp denotes if the clock was in this epoch.
EventIn(table, i, query) == query.stamped - table[i].offset

\* The epochs whose event is a candidate: every one that explains the stamp, in
\* their order, but none whose event is next to one already taken.
Candidates(table, query) ==
    LET Event(i) == EventIn(table, i, query) IN
    CHOOSE kept \in SUBSET DOMAIN table : \A i \in DOMAIN table :
        i \in kept <=>
            /\ WithinEpoch(table, i, Event(i))
            /\ WithinWindow(query, Event(i))
            /\ \A k \in kept : k < i => Distance(Event(k), Event(i)) >= Tolerance

\* The one whose event is nearest to receipt, the first of two at the same distance.
Nearest(kept, table, query) ==
    CHOOSE i \in kept : \A k \in kept :
        LET d(x) == Distance(query.received, EventIn(table, x, query)) IN
        d(i) < d(k) \/ (d(i) = d(k) /\ i <= k)

\* `resolve`
Resolve(table, query) ==
    LET kept == Candidates(table, query)
        events == {EventIn(table, i, query) : i \in kept}
        label == CASE kept = {} -> "passthrough"
                   [] Cardinality(kept) = 1 -> "exact"
                   [] OTHER -> "ambiguous"
    IN  IF kept = {} THEN [label |-> label, boottime |-> 0, spread |-> 0]
        ELSE [label |-> label,
              boottime |-> EventIn(table, Nearest(kept, table, query), query),
              spread |-> Max(events) - Min(events)]
=============================================================================
