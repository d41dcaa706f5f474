--------------------------- MODULE ClockTaskProofs ---------------------------
(***************************************************************************)
(* Theorems about ClockTask for every set of offsets, every threshold,     *)
(* every set of faults and every bound.                                    *)
(***************************************************************************)
EXTENDS ClockTask, SequenceTheorems, FiniteSetTheorems, WellFoundedInduction, TLAPS

-----------------------------------------------------------------------------
(* Lemmas about the table, as pure data.                                   *)

\* A list of epochs in the order of their starts.
Ascending(list) == \A i, j \in 1..Len(list) : i < j => list[i].start < list[j].start

\* A choice of elements is a sequence of their places.
LEMMA PicksOf ==
    ASSUME NEW n \in Nat, NEW k \in Picks(n)
    PROVE  \E m \in Nat : k \in [1..m -> 1..n] /\ Len(k) = m /\ DOMAIN k = 1..m
    <1>1. PICK m \in 0..n : k \in [1..m -> 1..n]
        BY DEF Picks
    <1>2. m \in Nat
        BY <1>1
    <1>3. k \in Seq(1..n)
        BY <1>1, <1>2, SeqDef
    <1>4. DOMAIN k = 1..m /\ DOMAIN k = 1..Len(k) /\ Len(k) \in Nat
        BY <1>1, <1>3, LenProperties
    <1>5. Len(k) = m
        BY <1>2, <1>4
    <1> QED BY <1>1, <1>2, <1>4, <1>5

\* What `from_epochs` makes of a list in order is a well-formed table, and made
\* of that list.
LEMMA FromEpochsOf ==
    ASSUME NEW list \in Seq(Epoch), list # <<>>, Ascending(list),
           NEW t \in FromEpochs(list)
    PROVE  /\ t \in Seq(Epoch) /\ t # <<>> /\ WellFormed(t)
           /\ \A i \in 1..Len(t) : \E j \in 1..Len(list) : t[i] = list[j]
    <1> DEFINE n == Len(list)
               same == SameBoundary(list)
    <1>1. n \in Nat /\ n > 0 /\ \A i \in 1..n : list[i] \in Epoch
        BY LenProperties, ElementOfSeq, EmptySeq
    <1>2. PICK k \in Picks(n) :
              /\ PicksRuns(k, n, same)
              /\ t = [i \in DOMAIN k |-> list[k[i]]]
        BY DEF FromEpochs
    <1>3. PICK m \in Nat : k \in [1..m -> 1..n] /\ Len(k) = m /\ DOMAIN k = 1..m
        BY <1>1, PicksOf
    <1>4. Len(k) = m /\ DOMAIN k = 1..m
        BY <1>3
    <1>5. t \in [1..m -> Epoch]
        BY <1>1, <1>2, <1>3, <1>4
    <1>6. t \in Seq(Epoch) /\ Len(t) = m
        BY <1>5, SeqDef, LenProperties
    <1>7. m > 0 /\ t # <<>>
        <2>1. Len(k) > 0
            BY <1>1, <1>2 DEF PicksRuns
        <2> QED BY <1>4, <1>6, <2>1, EmptySeq
    <1>8. \A i \in 1..m : t[i] = list[k[i]] /\ k[i] \in 1..n
        BY <1>2, <1>3, <1>4
    <1>9. \A i, j \in 1..m : i < j => t[i].start < t[j].start
        BY <1>2, <1>4, <1>8 DEF PicksRuns, Ascending
    <1>10. \A i \in 1..m - 1 : t[i].offset # t[i + 1].offset
        <2> TAKE i \in 1..m - 1
        <2>1. i \in 1..m /\ i + 1 \in 1..m
            BY <1>3
        <2>2. <<k[i], k[i + 1]>> \notin same
            BY <1>2, <1>4 DEF PicksRuns
        <2>3. list[k[i]].offset # list[k[i + 1]].offset
            BY <1>8, <2>1, <2>2 DEF SameBoundary, Pairs
        <2> QED BY <1>8, <2>1, <2>3
    <1> QED BY <1>6, <1>7, <1>8, <1>9, <1>10 DEF WellFormed

\* The boundary in force is the last of the table.
LEMMA ActiveIsLast ==
    ASSUME NEW t \in Seq(Epoch), t # <<>>
    PROVE  Len(t) \in Nat \ {0} /\ Active(t) = t[Len(t)] /\ Active(t) \in Epoch
    <1>1. Len(t) \in Nat /\ Len(t) # 0
        BY LenProperties, EmptySeq
    <1>2. t[Len(t)] \in Epoch
        BY <1>1, ElementOfSeq
    <1> QED BY <1>1, <1>2 DEF Active, Last

\* `with` keeps a table well-formed and everything in it.
LEMMA WithOf ==
    ASSUME NEW t \in Seq(Epoch), t # <<>>, WellFormed(t), NEW e \in Epoch
    PROVE  /\ With(t, e) \in Seq(Epoch) /\ With(t, e) # <<>> /\ WellFormed(With(t, e))
           /\ \A i \in 1..Len(With(t, e)) :
                With(t, e)[i] = e \/ \E j \in 1..Len(t) : With(t, e)[i] = t[j]
           /\ \A j \in 1..Len(t) : \E i \in 1..Len(With(t, e)) : With(t, e)[i] = t[j]
    <1>1. Len(t) \in Nat \ {0} /\ Active(t) = t[Len(t)]
        BY ActiveIsLast
    <1>2. CASE With(t, e) = t
        BY <1>1, <1>2
    <1>3. CASE With(t, e) # t
        <2>1. /\ With(t, e) = Append(t, e)
              /\ e.start > t[Len(t)].start /\ e.offset # t[Len(t)].offset
            <3>1. t[Len(t)].start \in Nat /\ e.start \in Nat
                <4>1. t[Len(t)] \in Epoch
                    BY <1>1, ElementOfSeq
                <4> QED BY <4>1 DEF Epoch
            <3> QED BY <1>1, <1>3, <3>1 DEF With
        <2> DEFINE w == Append(t, e)
        <2>2. /\ w \in Seq(Epoch) /\ w # <<>> /\ Len(w) = Len(t) + 1
              /\ \A i \in 1..Len(t) : w[i] = t[i]
              /\ w[Len(t) + 1] = e
            BY AppendProperties
        <2> HIDE DEF w
        <2>3. \A i \in 1..Len(w) : i = Len(t) + 1 \/ i \in 1..Len(t)
            BY <1>1, <2>2
        <2>4. \A i \in 1..Len(t) : t[i] \in Epoch
            BY ElementOfSeq
        <2>5. \A i \in 1..Len(t) : t[i].start < e.start
            <3>1. \A i \in 1..Len(t) : t[i].start \in Nat
                BY <2>4 DEF Epoch
            <3>2. e.start \in Nat
                BY DEF Epoch
            <3>3. \A i \in 1..Len(t) : i = Len(t) \/ t[i].start < t[Len(t)].start
                BY <1>1 DEF WellFormed
            <3> QED BY <1>1, <2>1, <3>1, <3>2, <3>3
        <2>6. \A i, j \in 1..Len(w) : i < j => w[i].start < w[j].start
            BY <1>1, <2>2, <2>3, <2>5 DEF WellFormed
        <2>7. \A i \in 1..Len(w) - 1 : w[i].offset # w[i + 1].offset
            <3> TAKE i \in 1..Len(w) - 1
            <3>1. CASE i = Len(t)
                BY <1>1, <2>1, <2>2, <3>1
            <3>2. CASE i # Len(t)
                <4>1. i \in 1..Len(t) - 1 /\ i \in 1..Len(t) /\ i + 1 \in 1..Len(t)
                    BY <1>1, <2>2, <3>2
                <4> QED BY <2>2, <4>1 DEF WellFormed
            <3> QED BY <3>1, <3>2
        <2>8. WellFormed(w)
            BY <2>6, <2>7 DEF WellFormed
        <2>9. With(t, e) = w
            BY <2>1 DEF w
        <2>10. \A j \in 1..Len(t) : j \in 1..Len(w)
            BY <1>1, <2>2
        <2> QED BY <2>2, <2>3, <2>8, <2>9, <2>10
    <1> QED BY <1>2, <1>3

-----------------------------------------------------------------------------
(* The inductive invariant.                                                *)

\* An epoch is witnessed, said of the machine's history that is given.
ShownBy(e, n, tr, sl, im) ==
    \E t \in 0..n :
        \/ tr[t] = e.offset /\ e.start <= t
        \/ \E sum \in im : /\ sum >= sl[t] /\ tr[t] = e.offset + (sum - sl[t])
                           /\ e.start <= t + (sum - sl[t])

\* It is not dated past now either, and one that is dated to now is in force.
SoundIn(e, n, o, tr, sl, im) ==
    ShownBy(e, n, tr, sl, im) /\ e.start <= n /\ (e.start = n => e.offset = o)
Sound(t) == \A i \in 1..Len(t) : SoundIn(t[i], now, offset, truth, slept, imported)

\* The history holds what the machine's clock is at.
TruthOK == truth[now] = offset

\* The machine sleeps no longer than time passes.
SleptOK ==
    \A t, u \in 0..now : t <= u => slept[t] <= slept[u] /\ slept[u] - slept[t] <= u - t

\* The first reading was one, and what the disk has of this boot is older.
LiveOK ==
    pc = "loading" =>
        /\ live.start \in 1..now /\ truth[live.start] = live.offset
        /\ saved.boot = boot => \A i \in 1..Len(saved.epochs) :
            /\ saved.epochs[i].start <= live.start
            /\ saved.epochs[i].start = live.start => saved.epochs[i].offset = live.offset

\* A running process has a table, in order and true to this boot.
HasTable == pc \notin {"down", "loading"}
TableOK ==
    /\ HasTable => table # <<>>
    /\ WellFormed(table)
    /\ Sound(table)

\* A snapshot of this boot is one, in order and true to it; none is of a later.
SavedOK ==
    /\ saved.boot <= boot
    /\ WellFormed(saved.epochs)
    /\ saved.boot = boot => saved.epochs # <<>> /\ Sound(saved.epochs)

IInv == TypeOK /\ TruthOK /\ SleptOK /\ LiveOK /\ TableOK /\ SavedOK

\* A sound epoch is a witnessed one.
LEMMA SoundIsWitnessed ==
    ASSUME TypeOK, NEW e \in Epoch, SoundIn(e, now, offset, truth, slept, imported)
    PROVE  Witnessed(e)
    <1>1. PICK t \in 0..now :
            \/ truth[t] = e.offset /\ e.start <= t
            \/ \E sum \in imported : /\ sum >= slept[t] /\ truth[t] = e.offset + (sum - slept[t])
                                     /\ e.start <= t + (sum - slept[t])
        BY DEF SoundIn, ShownBy
    <1>2. CASE truth[t] = e.offset /\ e.start <= t
        <2>1. 0 \in Misdated(t)
            BY DEF Misdated
        <2>2. t \in Int /\ e.offset \in Int
            BY ClockBoundsAssumption DEF TypeOK, MachineOK, Epoch
        <2>3. truth[t] = e.offset + 0 /\ e.start <= t + 0
            BY <1>2, <2>2
        <2> QED BY <2>1, <2>3 DEF Witnessed
    <1>3. CASE \E sum \in imported : /\ sum >= slept[t] /\ truth[t] = e.offset + (sum - slept[t])
                                     /\ e.start <= t + (sum - slept[t])
        <2>1. PICK sum \in imported : /\ sum >= slept[t] /\ truth[t] = e.offset + (sum - slept[t])
                                      /\ e.start <= t + (sum - slept[t])
            BY <1>3
        <2>2. sum - slept[t] \in Misdated(t)
            BY <2>1 DEF Misdated
        <2> QED BY <2>1, <2>2 DEF Witnessed
    <1> QED BY <1>1, <1>2, <1>3

\* What is sound stays so while the boot lasts, whatever its clock does next.
LEMMA SoundLater ==
    ASSUME NEW e \in Epoch, NEW n \in Nat, NEW o, NEW tr, NEW sl, NEW im, SoundIn(e, n, o, tr, sl, im),
           NEW o2, NEW tr2, NEW sl2, \A t \in 0..n : tr2[t] = tr[t] /\ sl2[t] = sl[t]
    PROVE  SoundIn(e, n + 1, o2, tr2, sl2, im)
    <1>1. e.start \in Nat /\ e.start <= n
        BY DEF Epoch, SoundIn
    <1>2. ~(e.start = n + 1) /\ e.start <= n + 1
        BY <1>1
    <1>3. \A t \in 0..n : t \in 0..n + 1
        OBVIOUS
    <1>4. ShownBy(e, n + 1, tr2, sl2, im)
        BY <1>3 DEF SoundIn, ShownBy
    <1> QED BY <1>2, <1>4 DEF SoundIn

\* Another import takes nothing away.
LEMMA SoundWider ==
    ASSUME NEW e, NEW n, NEW o, NEW tr, NEW sl, NEW im, NEW im2,
           im \subseteq im2, SoundIn(e, n, o, tr, sl, im)
    PROVE  SoundIn(e, n, o, tr, sl, im2)
    BY DEF SoundIn, ShownBy

-----------------------------------------------------------------------------
(* What a start and a step do to the table.                                *)

\* A reading is an epoch.
LEMMA LiveIsEpoch ==
    ASSUME TypeOK
    PROVE  /\ now \in Nat /\ now > 0 /\ offset \in Int
           /\ truth \in [0..now -> Offsets] /\ slept \in [0..now -> 0..MaxSlept]
           /\ Live \in Epoch /\ Live.start = now /\ Live.offset = offset
    <1>1. now \in Nat /\ now > 0
        BY ClockBoundsAssumption DEF TypeOK, MachineOK
    <1>2. offset \in Int /\ truth \in [0..now -> Offsets] /\ slept \in [0..now -> 0..MaxSlept]
        BY OffsetsAssumption DEF TypeOK, MachineOK
    <1> QED BY <1>1, <1>2 DEF Live, Epoch

LEMMA HistoryOf ==
    ASSUME TypeOK, NEW t \in 0..now
    PROVE  slept[t] \in 0..MaxSlept /\ slept[t] \in Int /\ truth[t] \in Offsets /\ truth[t] \in Int
    <1>1. slept[t] \in 0..MaxSlept /\ truth[t] \in Offsets
        BY LiveIsEpoch
    <1>2. slept[t] \in Int
        BY <1>1, ClockBoundsAssumption
    <1>3. truth[t] \in Int
        BY <1>1, OffsetsAssumption
    <1> QED BY <1>1, <1>2, <1>3

\* A reading is witnessed by the moment it is made.
LEMMA LiveIsSound ==
    ASSUME TypeOK, TruthOK, NEW im
    PROVE  SoundIn(Live, now, offset, truth, slept, im)
    <1>1. now \in 0..now /\ truth[now] = Live.offset /\ Live.start <= now
        BY LiveIsEpoch DEF TruthOK
    <1> QED BY <1>1, LiveIsEpoch DEF SoundIn, ShownBy

\* An epoch that journald's entry of boottime a gives, imported now.
FromEntry(e) ==
    \E a \in 1..now : /\ e.offset = truth[a] - (slept[now] - slept[a])
                      /\ e.start < a + (slept[now] - slept[a])

\* It is sound, once the import is known.
LEMMA FromEntryIsSound ==
    ASSUME TypeOK, TruthOK, SleptOK, NEW e \in Epoch, FromEntry(e), NEW im, slept[now] \in im
    PROVE  SoundIn(e, now, offset, truth, slept, im)
    <1>1. PICK a \in 1..now : /\ e.offset = truth[a] - (slept[now] - slept[a])
                              /\ e.start < a + (slept[now] - slept[a])
        BY DEF FromEntry
    <1>2. a \in 0..now /\ now \in 0..now /\ a <= now /\ a \in Int /\ now \in Int
        BY LiveIsEpoch
    <1>3. slept[a] \in Int /\ slept[now] \in Int /\ truth[a] \in Int
        BY <1>2, HistoryOf
    <1>4. slept[a] <= slept[now] /\ slept[now] - slept[a] <= now - a
        BY <1>2 DEF SleptOK
    <1>5. e.start \in Int /\ e.start < now
        BY <1>1, <1>2, <1>3, <1>4 DEF Epoch
    <1>6. /\ slept[now] >= slept[a] /\ truth[a] = e.offset + (slept[now] - slept[a])
          /\ e.start <= a + (slept[now] - slept[a])
        BY <1>1, <1>2, <1>3, <1>4, <1>5
    <1>7. ShownBy(e, now, truth, slept, im)
        BY <1>2, <1>6 DEF ShownBy
    <1> QED BY <1>2, <1>5, <1>7 DEF SoundIn

\* journald gives a list in order, of such epochs.
LEMMA JournalEpochsOf ==
    ASSUME TypeOK, SleptOK, NEW at \in Moments,
           NEW list \in JournalEpochs(Imported(Entries(at), slept[now]))
    PROVE  /\ list \in Seq(Epoch) /\ list # <<>> /\ Ascending(list)
           /\ \A i \in 1..Len(list) : FromEntry(list[i])
    <1> DEFINE entries == Entries(at)
               samples == Imported(entries, slept[now])
               near == NearOffset(samples)
               Dated(t) == t + (slept[now] - slept[t])
    <1>1. now \in Nat /\ now > 0 /\ truth \in [0..now -> Offsets] /\ slept \in [0..now -> 0..MaxSlept]
        BY LiveIsEpoch
    <1>2. PICK n \in 1..now : at \in [1..n -> 1..now]
        BY DEF Moments
    <1>3. n \in Nat /\ n > 0
        BY <1>1, <1>2
    <1>4. \A i \in 1..n : at[i] \in 1..now /\ at[i] \in 0..now /\ at[i] \in Int
                          /\ truth[at[i]] \in Int /\ slept[at[i]] \in Int /\ slept[now] \in Int
        <2> TAKE i \in 1..n
        <2>1. at[i] \in 1..now /\ at[i] \in 0..now /\ at[i] \in Int /\ now \in 0..now
            BY <1>1, <1>2
        <2> QED BY <2>1, HistoryOf
    <1>5. \A i \in 1..n : Dated(at[i]) \in Nat /\ Dated(at[i]) > 0
        <2> TAKE i \in 1..n
        <2>1. at[i] \in 0..now /\ now \in 0..now /\ at[i] <= now
            BY <1>1, <1>4
        <2>2. slept[at[i]] <= slept[now]
            BY <2>1 DEF SleptOK
        <2> QED BY <1>4, <2>2
    <1>6. \A i, j \in 1..n : i < j => Dated(at[i]) < Dated(at[j])
        <2> SUFFICES ASSUME NEW i \in 1..n, NEW j \in 1..n, i < j PROVE Dated(at[i]) < Dated(at[j])
            OBVIOUS
        <2>1. Monotonic(at[i]) < Monotonic(at[j])
            BY <1>2 DEF Moments
        <2> QED BY <1>4, <2>1 DEF Monotonic
    <1>7. /\ DOMAIN samples = 1..n
          /\ \A i \in 1..n : /\ samples[i].at = Monotonic(at[i]) + slept[now]
                             /\ samples[i].offset = (at[i] + truth[at[i]]) - (Monotonic(at[i]) + slept[now])
        BY <1>2 DEF Entries, Imported
    <1>8. \A i \in 1..n : /\ samples[i].at = Dated(at[i])
                          /\ samples[i].offset = truth[at[i]] - (slept[now] - slept[at[i]])
        BY <1>4, <1>7 DEF Monotonic
    <1>9. Len(samples) = n
        <2>1. \A i \in 1..n : entries[i].monotonic \in Int /\ entries[i].realtime \in Int
            BY <1>2, <1>4 DEF Entries, Monotonic
        <2>2. DOMAIN entries = 1..n
            BY <1>2 DEF Entries
        <2>3. samples = [i \in 1..n |-> samples[i]]
            BY <1>7, <2>2 DEF Imported
        <2>4. samples \in Seq({samples[i] : i \in 1..n})
            <3> HIDE DEF samples
            <3> QED BY <1>3, <2>3, SeqDef
        <2>5. DOMAIN samples = 1..Len(samples) /\ Len(samples) \in Nat
            <3> HIDE DEF samples
            <3> QED BY <2>4, LenProperties
        <2> QED BY <1>3, <1>7, <2>5
    <1> HIDE DEF samples
    <1>10. PICK k \in Picks(n) :
            /\ PicksRuns(k, n, near)
            /\ list = [i \in DOMAIN k |->
                    [start |-> IF i = 1 THEN 0 ELSE samples[k[i] - 1].at,
                     offset |-> samples[k[i]].offset]]
        BY <1>9 DEF JournalEpochs, samples
    <1>11. PICK m \in Nat : k \in [1..m -> 1..n] /\ Len(k) = m /\ DOMAIN k = 1..m
        BY <1>3, PicksOf
    <1>12. m > 0 /\ k[1] = 1
        BY <1>3, <1>10, <1>11 DEF PicksRuns
    <1>13. \A i \in 1..m : i # 1 => k[i] - 1 \in 1..n
        <2>1. \A i \in 1..m : i # 1 => k[1] < k[i] /\ k[i] \in 1..n
            BY <1>10, <1>11, <1>12 DEF PicksRuns
        <2> QED BY <1>3, <1>12, <2>1
    <1>14. \A i \in 1..m : /\ k[i] \in 1..n
                           /\ list[i].offset = truth[at[k[i]]] - (slept[now] - slept[at[k[i]]])
        BY <1>8, <1>10, <1>11
    <1>15. /\ list[1].start = 0
           /\ \A i \in 1..m : i # 1 => list[i].start = Dated(at[k[i] - 1])
        <2>1. list[1].start = 0
            BY <1>10, <1>11, <1>12
        <2>2. \A i \in 1..m : i # 1 => list[i].start = samples[k[i] - 1].at
            BY <1>10, <1>11
        <2> QED BY <1>8, <1>13, <2>1, <2>2
    <1>16. list \in [1..m -> Epoch]
        <2>1. \A i \in 1..m : samples[k[i]].offset \in Int
            BY <1>4, <1>8, <1>11
        <2>2. \A i \in 1..m : i # 1 => samples[k[i] - 1].at \in Nat
            BY <1>5, <1>8, <1>13
        <2> QED BY <1>10, <1>11, <2>1, <2>2 DEF Epoch
    <1>17. list \in Seq(Epoch) /\ Len(list) = m /\ list # <<>>
        <2>1. list \in Seq(Epoch)
            BY <1>11, <1>16, SeqDef
        <2>2. DOMAIN list = 1..Len(list) /\ Len(list) \in Nat
            BY <2>1, LenProperties
        <2>3. Len(list) = m
            BY <1>11, <1>16, <2>2
        <2> QED BY <1>12, <2>1, <2>3, EmptySeq
    <1> HIDE DEF Dated
    <1>18. Ascending(list)
        <2>1. SUFFICES ASSUME NEW i \in 1..m, NEW j \in 1..m, i < j
                       PROVE  list[i].start < list[j].start
            BY <1>17 DEF Ascending
        <2>2. k[i] < k[j] /\ k[i] \in 1..n /\ k[j] \in 1..n /\ j # 1
            BY <1>10, <1>11, <2>1 DEF PicksRuns
        <2>3. list[j].start = Dated(at[k[j] - 1]) /\ k[j] - 1 \in 1..n
            BY <1>13, <1>15, <2>2
        <2>4. CASE i = 1
            BY <1>5, <1>15, <2>3, <2>4
        <2>5. CASE i # 1
            <3>1. list[i].start = Dated(at[k[i] - 1]) /\ k[i] - 1 \in 1..n
                BY <1>13, <1>15, <2>5
            <3>2. k[i] - 1 < k[j] - 1
                BY <1>3, <2>2
            <3> QED BY <1>6, <2>3, <3>1, <3>2
        <2> QED BY <2>4, <2>5
    <1>19. \A i \in 1..m : FromEntry(list[i])
        <2> TAKE i \in 1..m
        <2>1. k[i] \in 1..n /\ at[k[i]] \in 1..now
            BY <1>4, <1>11
        <2>2. list[i].start < Dated(at[k[i]])
            <3>1. CASE i = 1
                BY <1>5, <1>15, <2>1, <3>1
            <3>2. CASE i # 1
                <4>1. list[i].start = Dated(at[k[i] - 1]) /\ k[i] - 1 \in 1..n
                    BY <1>13, <1>15, <3>2
                <4>2. k[i] - 1 < k[i]
                    BY <1>3, <2>1
                <4> QED BY <1>6, <2>1, <4>1, <4>2
            <3> QED BY <3>1, <3>2
        <2> QED BY <1>14, <2>1, <2>2 DEF FromEntry, Dated
    <1> QED BY <1>17, <1>18, <1>19

\* A table that is one stays one when a reading is put to it. It is on that reading
\* afterwards, unless it was already dated past it.
LEMMA WithReading ==
    ASSUME NEW t \in Seq(Epoch), t # <<>>, WellFormed(t), NEW e \in Epoch,
           NEW n, NEW o, NEW tr, NEW sl, NEW im,
           \A i \in 1..Len(t) : SoundIn(t[i], n, o, tr, sl, im), SoundIn(e, n, o, tr, sl, im)
    PROVE  /\ With(t, e) \in Seq(Epoch) /\ With(t, e) # <<>>
           /\ WellFormed(With(t, e))
           /\ \A i \in 1..Len(With(t, e)) : SoundIn(With(t, e)[i], n, o, tr, sl, im)
           /\ \/ Active(With(t, e)).offset = e.offset
              \/ With(t, e) = t /\ e.start <= Active(t).start
           /\ ToSet(t) \subseteq ToSet(With(t, e))
    <1> DEFINE w == With(t, e)
    <1>2. /\ w \in Seq(Epoch) /\ w # <<>> /\ WellFormed(w)
          /\ \A i \in 1..Len(w) : w[i] = e \/ \E j \in 1..Len(t) : w[i] = t[j]
          /\ \A j \in 1..Len(t) : \E i \in 1..Len(w) : w[i] = t[j]
        BY WithOf
    <1>3. \A i \in 1..Len(w) : SoundIn(w[i], n, o, tr, sl, im)
        <2> HIDE DEF w
        <2> QED BY <1>2
    <1>4. ToSet(t) \subseteq ToSet(w)
        <2>1. DOMAIN t = 1..Len(t) /\ DOMAIN w = 1..Len(w)
            BY <1>2, LenProperties
        <2>2. \A j \in DOMAIN t : \E i \in DOMAIN w : w[i] = t[j]
            BY <1>2, <2>1
        <2> HIDE DEF w
        <2> QED BY <2>2 DEF ToSet
    <1>5. \/ Active(w).offset = e.offset
          \/ w = t /\ e.start <= Active(t).start
        <2>1. CASE e.start <= Active(t).start
            BY <2>1 DEF With
        <2>2. CASE e.offset = Active(t).offset
            BY <2>2 DEF With
        <2>3. CASE ~(e.start <= Active(t).start \/ e.offset = Active(t).offset)
            <3>1. w = Append(t, e)
                BY <2>3 DEF With
            <3>2. Len(w) = Len(t) + 1 /\ w[Len(t) + 1] = e
                BY <3>1, AppendProperties
            <3>3. Active(w) = w[Len(w)]
                BY <1>2, ActiveIsLast
            <3> QED BY <3>2, <3>3
        <2> QED BY <2>1, <2>2, <2>3
    <1> QED BY <1>2, <1>3, <1>4, <1>5

\* A live reading puts the table on the clock.
LEMMA ExtendedOf ==
    ASSUME TypeOK, TruthOK,
           NEW t \in Seq(Epoch), t # <<>>, WellFormed(t), Sound(t)
    PROVE  /\ With(t, Live) \in Seq(Epoch) /\ With(t, Live) # <<>>
           /\ WellFormed(With(t, Live)) /\ Sound(With(t, Live))
           /\ Active(With(t, Live)).offset = offset
           /\ ToSet(t) \subseteq ToSet(With(t, Live))
    <1> DEFINE w == With(t, Live)
    <1>1. Live \in Epoch /\ SoundIn(Live, now, offset, truth, slept, imported)
        BY LiveIsEpoch, LiveIsSound
    <1>2. /\ w \in Seq(Epoch) /\ w # <<>> /\ WellFormed(w)
          /\ \A i \in 1..Len(w) : SoundIn(w[i], now, offset, truth, slept, imported)
          /\ Active(w).offset = Live.offset \/ (w = t /\ Live.start <= Active(t).start)
          /\ ToSet(t) \subseteq ToSet(w)
        BY <1>1, WithReading DEF Sound
    <1> HIDE DEF w
    <1>3. CASE w = t /\ Live.start <= Active(t).start
        <2>1. Len(t) \in Nat \ {0} /\ Active(t) = t[Len(t)] /\ Active(t) \in Epoch
            BY ActiveIsLast
        <2>2. Active(t).start <= now /\ (Active(t).start = now => Active(t).offset = offset)
            BY <2>1 DEF Sound, SoundIn
        <2>3. Active(t).start = now
            BY <1>3, <2>1, <2>2, LiveIsEpoch DEF Epoch
        <2> QED BY <1>2, <1>3, <2>2, <2>3 DEF Sound, w
    <1> QED BY <1>2, <1>3, LiveIsEpoch DEF Sound, w

\* The first reading, as long as it is the latest, is sound too.
LEMMA FirstIsSound ==
    ASSUME IInv, pc = "loading", NEW im
    PROVE  /\ live \in Epoch /\ SoundIn(live, now, offset, truth, slept, im)
           /\ live.start \in 1..now /\ truth[live.start] = live.offset
    <1>1. live \in Epoch /\ live.start \in 1..now /\ truth[live.start] = live.offset
        BY DEF IInv, TypeOK, TaskOK, LiveOK
    <1>2. live.start \in 0..now /\ live.start <= now /\ live.start <= live.start
        BY <1>1, LiveIsEpoch DEF IInv
    <1>3. live.start = now => live.offset = offset
        BY <1>1 DEF IInv, TruthOK
    <1> QED BY <1>1, <1>2, <1>3 DEF SoundIn, ShownBy

\* What a process starts with: a table, in order, true to the boot, and with all the
\* snapshot of this boot has. It is on the first reading, or on an entry that is later.
LEMMA StartTable ==
    ASSUME IInv, InitialTable
    PROVE  /\ table' \in Seq(Epoch) /\ table' # <<>> /\ WellFormed(table')
           /\ \A i \in 1..Len(table') : SoundIn(table'[i], now, offset, truth, slept, imported')
           /\ \/ Active(table').offset = live.offset
              \/ FromEntry(Active(table')) /\ live.start <= Active(table').start
           /\ imported \subseteq imported' /\ imported' \subseteq imported \cup {slept[now]}
    <1>1. TypeOK /\ TruthOK /\ SleptOK /\ SavedOK /\ LiveOK /\ pc = "loading"
        BY DEF IInv, InitialTable
    <1>2. /\ live \in Epoch /\ SoundIn(live, now, offset, truth, slept, imported')
          /\ live.start \in 1..now /\ truth[live.start] = live.offset
        BY <1>1, FirstIsSound
    <1>3. live.start \in Nat /\ live.offset \in Int
        BY <1>2 DEF Epoch
    <1>4. CASE Resumable /\ (\E t \in FromEpochs(saved.epochs) : table' = With(t, live)) /\ UNCHANGED imported
        <2>1. saved.epochs \in Seq(Epoch)
            BY <1>1 DEF TypeOK, KeptOK, Snapshot
        <2>2. /\ saved.epochs # <<>> /\ WellFormed(saved.epochs)
              /\ \A i \in 1..Len(saved.epochs) :
                    SoundIn(saved.epochs[i], now, offset, truth, slept, imported')
              /\ \A i \in 1..Len(saved.epochs) :
                    /\ saved.epochs[i].start <= live.start
                    /\ saved.epochs[i].start = live.start => saved.epochs[i].offset = live.offset
            BY <1>1, <1>4 DEF SavedOK, LiveOK, Resumable, Sound
        <2>3. Ascending(saved.epochs)
            BY <2>2 DEF WellFormed, Ascending
        <2>4. PICK t \in FromEpochs(saved.epochs) : table' = With(t, live)
            BY <1>4
        <2>5. /\ t \in Seq(Epoch) /\ t # <<>> /\ WellFormed(t)
              /\ \A i \in 1..Len(t) : \E j \in 1..Len(saved.epochs) : t[i] = saved.epochs[j]
            BY <2>1, <2>2, <2>3, <2>4, FromEpochsOf
        <2>6. \A i \in 1..Len(t) : SoundIn(t[i], now, offset, truth, slept, imported')
            BY <2>2, <2>5
        <2>7. /\ With(t, live) \in Seq(Epoch) /\ With(t, live) # <<>> /\ WellFormed(With(t, live))
              /\ \A i \in 1..Len(With(t, live)) :
                    SoundIn(With(t, live)[i], now, offset, truth, slept, imported')
              /\ \/ Active(With(t, live)).offset = live.offset
                 \/ With(t, live) = t /\ live.start <= Active(t).start
            BY <1>2, <2>5, <2>6, WithReading
        <2>8. CASE With(t, live) = t /\ live.start <= Active(t).start
            <3>1. Len(t) \in 1..Len(t) /\ Active(t) = t[Len(t)] /\ Active(t) \in Epoch
                BY <2>5, ActiveIsLast
            <3>2. PICK j \in 1..Len(saved.epochs) : Active(t) = saved.epochs[j]
                BY <2>5, <3>1
            <3>3. Active(t).start \in Nat
                BY <3>1 DEF Epoch
            <3>4. Active(t).start = live.start
                BY <1>3, <2>2, <2>8, <3>2, <3>3
            <3>5. Active(t).offset = live.offset
                BY <2>2, <3>2, <3>4
            <3> QED BY <1>4, <2>4, <2>7, <2>8, <3>5
        <2> QED BY <1>4, <2>4, <2>7, <2>8
    <1>5. CASE /\ imported' = imported \cup {slept[now]}
               /\ \E at \in Moments :
                    \E list \in JournalEpochs(Imported(Entries(at), slept[now])) :
                        \E t \in FromEpochs(list) : table' = With(t, live)
        <2>1. PICK at \in Moments :
                \E list \in JournalEpochs(Imported(Entries(at), slept[now])) :
                    \E t \in FromEpochs(list) : table' = With(t, live)
            BY <1>5
        <2>2. PICK list \in JournalEpochs(Imported(Entries(at), slept[now])) :
                    \E t \in FromEpochs(list) : table' = With(t, live)
            BY <2>1
        <2>3. PICK t \in FromEpochs(list) : table' = With(t, live)
            BY <2>2
        <2>4. /\ list \in Seq(Epoch) /\ list # <<>> /\ Ascending(list)
              /\ \A i \in 1..Len(list) : FromEntry(list[i])
            BY <1>1, JournalEpochsOf
        <2>5. /\ t \in Seq(Epoch) /\ t # <<>> /\ WellFormed(t)
              /\ \A i \in 1..Len(t) : \E j \in 1..Len(list) : t[i] = list[j]
            BY <2>4, FromEpochsOf
        <2>6. \A i \in 1..Len(t) : FromEntry(t[i]) /\ t[i] \in Epoch
            BY <2>4, <2>5, ElementOfSeq
        <2>7. \A i \in 1..Len(t) : SoundIn(t[i], now, offset, truth, slept, imported')
            <3>1. slept[now] \in imported'
                BY <1>5
            <3> QED BY <1>1, <2>6, <3>1, FromEntryIsSound
        <2>8. /\ With(t, live) \in Seq(Epoch) /\ With(t, live) # <<>> /\ WellFormed(With(t, live))
              /\ \A i \in 1..Len(With(t, live)) :
                    SoundIn(With(t, live)[i], now, offset, truth, slept, imported')
              /\ \/ Active(With(t, live)).offset = live.offset
                 \/ With(t, live) = t /\ live.start <= Active(t).start
            BY <1>2, <2>5, <2>7, WithReading
        <2>9. FromEntry(Active(t))
            <3>1. Len(t) \in 1..Len(t) /\ Active(t) = t[Len(t)]
                BY <2>5, ActiveIsLast
            <3> QED BY <2>6, <3>1
        <2> QED BY <1>5, <2>3, <2>8, <2>9
    <1>6. CASE table' = <<[start |-> 0, offset |-> live.offset]>> /\ UNCHANGED imported
        <2> DEFINE e == [start |-> 0, offset |-> live.offset]
        <2>1. e \in Epoch /\ e.offset = live.offset /\ e.start = 0
            BY <1>3 DEF Epoch
        <2> HIDE DEF e
        <2>2. <<e>> \in Seq(Epoch) /\ <<e>> # <<>> /\ Len(<<e>>) = 1 /\ <<e>>[1] = e
            BY <2>1
        <2>3. live.start \in 0..now /\ e.start <= live.start /\ e.start <= now /\ ~(e.start = now)
            BY <1>1, <1>2, <2>1, LiveIsEpoch
        <2>4. SoundIn(e, now, offset, truth, slept, imported')
            BY <1>2, <2>1, <2>3 DEF SoundIn, ShownBy
        <2>5. WellFormed(<<e>>)
            BY <2>2 DEF WellFormed
        <2>6. table' = <<e>>
            BY <1>6 DEF e
        <2>7. Active(<<e>>) = e
            <3>1. Active(<<e>>) = <<e>>[Len(<<e>>)]
                BY <2>2, ActiveIsLast
            <3> QED BY <2>2, <3>1
        <2>8. \A i \in 1..Len(<<e>>) : <<e>>[i] = e
            BY <2>2
        <2> QED BY <1>6, <2>1, <2>2, <2>4, <2>5, <2>6, <2>7, <2>8
    <1> QED BY <1>4, <1>5, <1>6 DEF InitialTable

\* What a reading makes of the table of a running process.
LEMMA ExtendTable ==
    ASSUME IInv, HasTable, Extend(table)
    PROVE  /\ table' \in Seq(Epoch) /\ table' # <<>> /\ WellFormed(table')
           /\ \A i \in 1..Len(table') : SoundIn(table'[i], now, offset, truth, slept, imported)
           /\ Active(table').offset = offset
           /\ ToSet(table) \subseteq ToSet(table')
    <1>1. /\ TypeOK /\ TruthOK
          /\ table \in Seq(Epoch) /\ table # <<>> /\ WellFormed(table) /\ Sound(table)
        BY DEF IInv, TypeOK, TaskOK, TableOK
    <1>2. table' = With(table, Live)
        BY DEF Extend
    <1> QED BY <1>1, <1>2, ExtendedOf DEF Sound

\* Time goes on: a history grows and stays what it was.
LEMMA ExtendedHistory ==
    ASSUME NEW n \in Nat, NEW R, NEW h \in [0..n -> R], NEW v \in R, NEW longer,
           longer = [t \in 0..n + 1 |-> IF t <= n THEN h[t] ELSE v]
    PROVE  /\ longer \in [0..n + 1 -> R] /\ longer[n + 1] = v
           /\ \A t \in 0..n : longer[t] = h[t]
    <1>1. \A t \in 0..n + 1 : t <= n => t \in 0..n
        OBVIOUS
    <1>2. \A t \in 0..n : t \in 0..n + 1 /\ t <= n
        OBVIOUS
    <1>3. n + 1 \in 0..n + 1 /\ ~(n + 1 <= n)
        OBVIOUS
    <1> QED BY <1>1, <1>2, <1>3

\* A unit of time: it passes, asleep or not, and the clock may be stepped in it.
Unit(o, d) ==
    /\ now < MaxBoottime /\ now' = now + 1 /\ boot' = boot
    /\ d \in {0, 1} /\ slept[now] + d <= MaxSlept
    /\ o \in Offsets /\ offset' = o
    /\ truth' = Extended(truth, o) /\ slept' = Extended(slept, slept[now] + d)
    /\ UNCHANGED <<saved, table, imported, live>>

LEMMA UnitOf ==
    ASSUME IInv, NEW o, NEW d, Unit(o, d)
    PROVE  /\ MachineOK' /\ TruthOK' /\ SleptOK'
           /\ \A t \in 0..now : truth'[t] = truth[t] /\ slept'[t] = slept[t]
           /\ slept'[now'] = slept[now] + d
    <1>1. TypeOK /\ MachineOK /\ SleptOK
        BY DEF IInv, TypeOK
    <1>2. now \in Nat /\ now > 0 /\ truth \in [0..now -> Offsets] /\ slept \in [0..now -> 0..MaxSlept]
        BY <1>1, LiveIsEpoch
    <1>3. slept[now] \in 0..MaxSlept /\ slept[now] + d \in 0..MaxSlept
        BY <1>2, ClockBoundsAssumption DEF Unit
    <1>4. /\ truth' \in [0..now + 1 -> Offsets] /\ truth'[now + 1] = o
          /\ \A t \in 0..now : truth'[t] = truth[t]
        <2>1. o \in Offsets /\ truth' = [t \in 0..now + 1 |-> IF t <= now THEN truth[t] ELSE o]
            BY DEF Unit, Extended
        <2> QED BY <1>2, <2>1, ExtendedHistory
    <1>5. /\ slept' \in [0..now + 1 -> 0..MaxSlept] /\ slept'[now + 1] = slept[now] + d
          /\ \A t \in 0..now : slept'[t] = slept[t]
        <2>1. slept' = [t \in 0..now + 1 |-> IF t <= now THEN slept[t] ELSE slept[now] + d]
            BY DEF Unit, Extended
        <2> QED BY <1>2, <1>3, <2>1, ExtendedHistory
    <1>6. now' = now + 1 /\ now' \in 1..MaxBoottime
        BY <1>2, ClockBoundsAssumption DEF Unit
    <1>7. MachineOK'
        BY <1>1, <1>4, <1>5, <1>6 DEF MachineOK, Unit
    <1>8. TruthOK'
        BY <1>4, <1>6 DEF TruthOK, Unit
    <1>9. SleptOK'
        <2> SUFFICES ASSUME NEW t \in 0..now + 1, NEW u \in 0..now + 1, t <= u
                     PROVE  slept'[t] <= slept'[u] /\ slept'[u] - slept'[t] <= u - t
            BY <1>6 DEF SleptOK
        <2>1. \A s \in 0..now : slept[s] \in Int
            BY <1>2, ClockBoundsAssumption
        <2>2. CASE u <= now
            <3>1. t \in 0..now /\ u \in 0..now
                BY <1>2, <2>2
            <3> QED BY <1>1, <1>5, <3>1 DEF SleptOK
        <2>3. CASE u = now + 1 /\ t = now + 1
            BY <1>3, <1>5, <2>3
        <2>4. CASE u = now + 1 /\ t <= now
            <3>1. t \in 0..now /\ now \in 0..now /\ t <= now
                BY <1>2, <2>4
            <3>2. slept[t] <= slept[now] /\ slept[now] - slept[t] <= now - t
                BY <1>1, <3>1 DEF SleptOK
            <3>3. slept'[t] = slept[t] /\ slept'[u] = slept[now] + d /\ d \in {0, 1}
                BY <1>5, <2>4, <3>1 DEF Unit
            <3> QED BY <1>2, <2>1, <2>4, <3>1, <3>2, <3>3
        <2> QED BY <1>2, <2>2, <2>3, <2>4
    <1> QED BY <1>4, <1>5, <1>6, <1>7, <1>8, <1>9

\* Any of the three is one.
LEMMA Units ==
    ASSUME IInv, ClockSteps \/ TimePasses \/ Sleeps
    PROVE  \E o, d : Unit(o, d) /\ (o = offset \/ ClockSteps) /\ (d = 0 \/ Sleeps)
    <1>1. offset \in Offsets /\ slept[now] \in 0..MaxSlept /\ MaxSlept \in Nat
        BY LiveIsEpoch, ClockBoundsAssumption DEF IInv, TypeOK, MachineOK
    <1>2. slept[now] + 0 = slept[now] /\ slept[now] + 0 <= MaxSlept
        BY <1>1
    <1>3. CASE ClockSteps
        BY <1>1, <1>2, <1>3 DEF ClockSteps, Unit
    <1>4. CASE TimePasses
        BY <1>1, <1>2, <1>4 DEF TimePasses, Unit
    <1>5. CASE Sleeps
        <2>1. slept[now] + 1 <= MaxSlept
            BY <1>1, <1>5 DEF Sleeps
        <2> QED BY <1>1, <1>5, <2>1 DEF Sleeps, Unit
    <1> QED BY <1>3, <1>4, <1>5

-----------------------------------------------------------------------------
(* Type correctness, and the table.                                        *)

LEMMA InitIInv == Init => IInv
    <1> SUFFICES ASSUME Init PROVE IInv
        OBVIOUS
    <1>1. MachineOK /\ TruthOK
        BY ClockBoundsAssumption DEF Init, MachineOK, TruthOK
    <1>2. TaskOK
        BY EmptySeq DEF Init, TaskOK, NoReading, Epoch
    <1>3. VerdictOK
        BY ClockConfigAssumption DEF Init, VerdictOK
    <1>4. NoSnapshot.epochs = <<>> /\ NoSnapshot.boot = 0 /\ NoSnapshot \in Snapshot
        BY ClockBoundsAssumption, EmptySeq DEF NoSnapshot, Snapshot
    <1>5. KeptOK
        <2>1. saved \in Snapshot /\ unwatched \in BOOLEAN /\ unread \in BOOLEAN
            BY <1>4 DEF Init
        <2>2. starts \in 0..MaxStarts /\ steps \in 0..MaxSteps /\ imported \in SUBSET (0..MaxSlept)
            BY ClockBoundsAssumption DEF Init
        <2> QED BY <2>1, <2>2 DEF KeptOK
    <1>6. WellFormed(<<>>) /\ Len(<<>>) = 0
        BY EmptySeq DEF WellFormed
    <1>7. TableOK
        BY <1>6 DEF Init, TableOK, Sound, HasTable
    <1>8. SavedOK
        BY <1>4, <1>6 DEF Init, SavedOK
    <1>9. SleptOK /\ LiveOK
        BY DEF Init, SleptOK, LiveOK
    <1> QED BY <1>1, <1>2, <1>3, <1>5, <1>7, <1>8, <1>9 DEF IInv, TypeOK

\* Only the clock, time, a suspend and a reboot move the machine, and none leaves its types.
LEMMA MachineStep ==
    ASSUME IInv, [Next]_vars
    PROVE  MachineOK' /\ TruthOK' /\ SleptOK'
    <1>1. MachineOK /\ TruthOK /\ SleptOK
        BY DEF IInv, TypeOK
    <1>2. ASSUME UNCHANGED machine
          PROVE  MachineOK' /\ TruthOK' /\ SleptOK'
        BY <1>1, <1>2 DEF machine, MachineOK, TruthOK, SleptOK
    <1>3. CASE ClockSteps \/ TimePasses \/ Sleeps
        BY <1>3, Units, UnitOf
    <1>4. CASE Reboot
        <2>1. boot' \in 1..MaxBoots /\ now' = 1 /\ offset' \in Offsets
            BY <1>1, <1>4, ClockBoundsAssumption DEF Reboot, MachineOK
        <2>2. 1 \in 1..MaxBoottime /\ 0 \in 0..MaxSlept
            BY ClockBoundsAssumption
        <2>3. /\ truth' \in [0..now' -> Offsets] /\ truth'[now'] = offset'
              /\ slept' \in [0..now' -> 0..MaxSlept]
            BY <1>4, <2>1, <2>2 DEF Reboot
        <2>4. SleptOK'
            BY <1>4, <2>1 DEF Reboot, SleptOK
        <2> QED BY <2>1, <2>2, <2>3, <2>4 DEF MachineOK, TruthOK
    <1>5. CASE FirstReading \/ InitialTable \/ Arm \/ Crash \/ Notice \/ WatchFails \/ OnStep \/ OnStepFails
        BY <1>2, <1>5
        DEF FirstReading, InitialTable, Arm, Crash, Notice, WatchFails, OnStep, OnStepFails
    <1>6. CASE Persist \/ Tick \/ Poll \/ PollFails
        BY <1>2, <1>6 DEF Persist, Tick, Poll, PollFails
    <1>7. CASE UNCHANGED vars
        BY <1>2, <1>7 DEF vars
    <1> QED BY <1>3, <1>4, <1>5, <1>6, <1>7 DEF Next

\* The table is the empty one of no process, what it was, or what a start or a
\* reading makes of it.
TableStep ==
    \/ table' = <<>> /\ ~HasTable'
    \/ /\ UNCHANGED table /\ (HasTable' => HasTable)
       /\ \/ UNCHANGED <<machine, imported>>
          \/ \E o, d : Unit(o, d)
    \/ /\ UNCHANGED machine /\ imported \subseteq imported'
       /\ table' \in Seq(Epoch) /\ table' # <<>> /\ WellFormed(table')
       /\ \A i \in 1..Len(table') : SoundIn(table'[i], now, offset, truth, slept, imported')

LEMMA TableSteps ==
    ASSUME IInv, [Next]_vars
    PROVE  TableStep
    <1>1. CASE ClockSteps \/ TimePasses \/ Sleeps
        <2>1. UNCHANGED <<table, pc>>
            BY <1>1 DEF ClockSteps, TimePasses, Sleeps
        <2> QED BY <1>1, <2>1, Units DEF TableStep, HasTable
    <1>2. CASE Reboot \/ Crash
        BY <1>2 DEF Reboot, Crash, Blank, TableStep, HasTable
    <1>3. CASE FirstReading
        BY <1>3 DEF FirstReading, TableStep, HasTable
    <1>4. CASE InitialTable
        <2>1. UNCHANGED machine
            BY <1>4 DEF InitialTable
        <2> QED BY <1>4, <2>1, StartTable DEF TableStep
    <1>5. CASE Arm \/ Notice \/ WatchFails \/ OnStepFails
        BY <1>5 DEF Arm, Notice, WatchFails, OnStepFails, TableStep, HasTable
    <1>6. CASE OnStep
        <2>1. UNCHANGED <<machine, imported>> /\ Extend(table) /\ HasTable
            BY <1>6 DEF OnStep, HasTable
        <2> QED BY <2>1, ExtendTable DEF TableStep
    <1>7. CASE Persist \/ Tick \/ PollFails
        BY <1>7 DEF Persist, Tick, PollFails, TableStep, HasTable
    <1>8. CASE Poll
        <2>1. UNCHANGED <<machine, imported>> /\ HasTable
            BY <1>8 DEF Poll, HasTable
        <2>2. CASE Extend(table)
            BY <2>1, <2>2, ExtendTable DEF TableStep
        <2>3. CASE UNCHANGED table
            BY <2>1, <2>3 DEF TableStep
        <2> QED BY <1>8, <2>2, <2>3 DEF Poll
    <1>9. CASE UNCHANGED vars
        BY <1>9 DEF vars, TableStep, HasTable
    <1> QED BY <1>1, <1>2, <1>3, <1>4, <1>5, <1>6, <1>7, <1>8, <1>9 DEF Next

\* A sequence of epochs that is sound stays so, in a boot.
LEMMA SoundStays ==
    ASSUME IInv, NEW t \in Seq(Epoch), Sound(t), NEW o, NEW d, Unit(o, d)
    PROVE  \A i \in 1..Len(t) : SoundIn(t[i], now', offset', truth', slept', imported')
    <1>1. \A s \in 0..now : truth'[s] = truth[s] /\ slept'[s] = slept[s]
        BY UnitOf
    <1>2. now \in Nat /\ now' = now + 1 /\ imported' = imported
        BY LiveIsEpoch DEF IInv, Unit
    <1> TAKE i \in 1..Len(t)
    <1>3. t[i] \in Epoch /\ SoundIn(t[i], now, offset, truth, slept, imported)
        BY ElementOfSeq DEF Sound
    <1> QED BY <1>1, <1>2, <1>3, SoundLater

\* So it keeps its type, its order and its truth.
LEMMA TableOKStep ==
    ASSUME IInv, [Next]_vars
    PROVE  TableOK' /\ table' \in Seq(Epoch)
    <1>1. /\ TypeOK /\ table \in Seq(Epoch)
          /\ HasTable => table # <<>>
          /\ WellFormed(table) /\ Sound(table)
        BY DEF IInv, TypeOK, TaskOK, TableOK
    <1>2. TableStep
        BY TableSteps
    <1>3. CASE table' = <<>> /\ ~HasTable'
        <2>1. WellFormed(<<>>) /\ Len(<<>>) = 0 /\ <<>> \in Seq(Epoch)
            BY EmptySeq DEF WellFormed
        <2> QED BY <1>3, <2>1 DEF TableOK, Sound, WellFormed
    <1>4. ASSUME UNCHANGED table, HasTable' => HasTable, NEW o, NEW d, Unit(o, d)
          PROVE  TableOK' /\ table' \in Seq(Epoch)
        <2>1. \A i \in 1..Len(table) : SoundIn(table[i], now', offset', truth', slept', imported')
            BY <1>1, <1>4, SoundStays
        <2> QED BY <1>1, <1>4, <2>1 DEF TableOK, Sound, WellFormed
    <1>5. CASE UNCHANGED table /\ (HasTable' => HasTable) /\ UNCHANGED <<machine, imported>>
        BY <1>1, <1>5 DEF TableOK, Sound, WellFormed, machine
    <1>6. ASSUME UNCHANGED machine, table' \in Seq(Epoch), table' # <<>>,
                 WellFormed(table'),
                 \A i \in 1..Len(table') : SoundIn(table'[i], now, offset, truth, slept, imported')
          PROVE  TableOK' /\ table' \in Seq(Epoch)
        BY <1>6 DEF TableOK, WellFormed, Sound, machine
    <1> QED BY <1>2, <1>3, <1>4, <1>5, <1>6 DEF TableStep

\* The first reading stays one until the table has it.
LEMMA LiveOKStep ==
    ASSUME IInv, [Next]_vars
    PROVE  LiveOK'
    <1>1. TypeOK /\ TruthOK /\ LiveOK /\ SavedOK
        BY DEF IInv
    <1>2. CASE ClockSteps \/ TimePasses \/ Sleeps
        <2>1. PICK o, d : Unit(o, d)
            BY <1>2, Units
        <2>2. \A t \in 0..now : truth'[t] = truth[t]
            BY <2>1, UnitOf
        <2>3. now \in Nat /\ now' = now + 1 /\ UNCHANGED <<live, saved, boot>>
            BY <1>1, <2>1, LiveIsEpoch DEF Unit
        <2>4. pc' = pc
            BY <1>2 DEF ClockSteps, TimePasses, Sleeps
        <2>5. pc = "loading" => live.start \in 0..now /\ live.start \in 1..now'
            BY <1>1, <2>3 DEF LiveOK
        <2> QED BY <1>1, <2>2, <2>3, <2>4, <2>5 DEF LiveOK
    <1>3. CASE FirstReading
        <2>1. live'.start = now /\ live'.offset = offset /\ now \in 1..now /\ truth[now] = offset
            BY <1>1, <1>3, LiveIsEpoch DEF FirstReading, TruthOK
        <2>2. UNCHANGED <<now, offset, boot, truth, saved>>
            BY <1>3 DEF FirstReading, machine
        <2>3. saved.boot = boot => \A i \in 1..Len(saved.epochs) :
                /\ saved.epochs[i].start <= now
                /\ saved.epochs[i].start = now => saved.epochs[i].offset = offset
            BY <1>1 DEF SavedOK, Sound, SoundIn
        <2> QED BY <2>1, <2>2, <2>3 DEF LiveOK
    <1>4. CASE Reboot \/ InitialTable \/ Arm \/ Crash \/ Notice \/ WatchFails \/ OnStep \/ OnStepFails
        BY <1>4 DEF Reboot, InitialTable, Arm, Crash, Notice, WatchFails, OnStep, OnStepFails, LiveOK
    <1>5. CASE Persist \/ Tick \/ Poll \/ PollFails
        BY <1>5 DEF Persist, Tick, Poll, PollFails, LiveOK
    <1>6. CASE UNCHANGED vars
        BY <1>1, <1>6 DEF vars, machine, LiveOK
    <1> QED BY <1>2, <1>3, <1>4, <1>5, <1>6 DEF Next

\* The task is somewhere in its loop, its timer and its verdict have their types.
LEMMA TaskStep ==
    ASSUME IInv, [Next]_vars
    PROVE  TaskOK' /\ VerdictOK'
    <1>1. TaskOK /\ VerdictOK /\ table' \in Seq(Epoch)
        BY TableOKStep DEF IInv, TypeOK
    <1>2. Consecutive \in Nat \ {0} /\ SettledPollTicks \in Nat \ {0}
        BY ClockConfigAssumption
    <1>3. ASSUME Blank, pc' = "down"
          PROVE  TaskOK' /\ VerdictOK'
        <2>3. NoReading \in Epoch
            BY DEF NoReading, Epoch
        <2>1. 0 \in 0..Consecutive /\ 0 \in 0..SettledPollTicks - 1
            BY <1>2
        <2>2. VerdictOK'
            BY <1>3, <2>1 DEF Blank, VerdictOK
        <2> QED BY <1>1, <1>3, <2>2, <2>3 DEF Blank, TaskOK
    <1>4. CASE ClockSteps
        BY <1>1, <1>4 DEF ClockSteps, TaskOK, VerdictOK, verdict
    <1>5. CASE TimePasses \/ Sleeps
        BY <1>1, <1>5 DEF TimePasses, Sleeps, TaskOK, VerdictOK, verdict
    <1>6. CASE Reboot \/ Crash
        BY <1>3, <1>6 DEF Reboot, Crash
    <1>7. CASE FirstReading
        <2>1. Live \in Epoch
            BY LiveIsEpoch DEF IInv
        <2> QED BY <1>1, <1>7, <2>1 DEF FirstReading, TaskOK, VerdictOK, verdict
    <1>18. CASE InitialTable
        <2>1. NoReading \in Epoch
            BY DEF NoReading, Epoch
        <2> QED BY <1>1, <1>18, <2>1 DEF InitialTable, TaskOK, VerdictOK, verdict
    <1>8. CASE Arm
        BY <1>1, <1>8 DEF Arm, TaskOK, VerdictOK, verdict
    <1>9. CASE Notice
        BY <1>1, <1>9 DEF Notice, TaskOK, VerdictOK, verdict
    <1>10. CASE WatchFails
        BY <1>1, <1>10 DEF WatchFails, TaskOK, VerdictOK, verdict
    <1>11. CASE OnStep
        BY <1>1, <1>11 DEF OnStep, TaskOK, VerdictOK, verdict
    <1>12. CASE OnStepFails
        BY <1>1, <1>12 DEF OnStepFails, TaskOK, VerdictOK, verdict
    <1>13. CASE Persist
        BY <1>1, <1>13 DEF Persist, TaskOK, VerdictOK, verdict
    <1>14. CASE Tick
        <2>1. ticks' \in 0..SettledPollTicks - 1
            BY <1>1, <1>2, <1>14 DEF Tick, VerdictOK
        <2> QED BY <1>1, <1>14, <2>1 DEF Tick, TaskOK, VerdictOK
    <1>15. CASE Poll
        <2>1. PICK reading \in Readings :
                LET good == Good(reading) IN
                /\ streak' = NextStreak(good)
                /\ source' = SourceOf(good, streak')
                /\ ever' = (ever \/ streak' >= Consecutive)
            BY <1>15 DEF Poll
        <2>2. streak' \in 0..Consecutive
            BY <1>1, <1>2, <2>1 DEF VerdictOK, NextStreak
        <2>3. source' \in BOOLEAN
            BY <2>1, Zenon DEF SourceOf, Good, Readings
        <2>4. ever' \in BOOLEAN
            BY <1>1, <2>1, Zenon DEF VerdictOK
        <2>5. fd' = fd /\ live' = live /\ ticks' = ticks /\ pc' \in {"idle", "save poll"}
            BY <1>15 DEF Poll
        <2> QED BY <1>1, <2>2, <2>3, <2>4, <2>5 DEF TaskOK, VerdictOK
    <1>16. CASE PollFails
        BY <1>1, <1>2, <1>16 DEF PollFails, TaskOK, VerdictOK
    <1>17. CASE UNCHANGED vars
        BY <1>1, <1>17 DEF vars, TaskOK, VerdictOK, verdict
    <1> QED BY <1>4, <1>5, <1>6, <1>7, <1>8, <1>9, <1>10, <1>11, <1>12, <1>13,
               <1>14, <1>15, <1>16, <1>17, <1>18 DEF Next

\* The disk holds a snapshot, and the histories and counters have their types.
LEMMA KeptStep ==
    ASSUME IInv, [Next]_vars
    PROVE  KeptOK'
    <1>1. /\ MachineOK /\ TaskOK /\ KeptOK
          /\ table \in Seq(Epoch) /\ table' \in Seq(Epoch)
        BY TableOKStep DEF IInv, TypeOK, TaskOK
    <1>3. MaxSteps \in Nat /\ MaxStarts \in Nat /\ MaxBoots \in Nat /\ MaxSlept \in Nat
        BY ClockBoundsAssumption
    <1>4. CASE ClockSteps
        BY <1>1, <1>3, <1>4 DEF ClockSteps, KeptOK
    <1>2. CASE Sleeps
        BY <1>1, <1>2, <1>3 DEF Sleeps, KeptOK
    <1>5. CASE TimePasses
        BY <1>1, <1>5 DEF TimePasses, KeptOK, counters
    <1>6. CASE Reboot
        <2>1. {0} \in SUBSET (0..MaxSlept)
            BY <1>3
        <2> QED BY <1>1, <1>6, <2>1 DEF Reboot, KeptOK, counters
    <1>7. CASE FirstReading
        <2>1. starts' \in 0..MaxStarts
            BY <1>1, <1>3, <1>7 DEF FirstReading, KeptOK
        <2> QED BY <1>1, <1>7, <2>1 DEF FirstReading, KeptOK
    <1>15. CASE InitialTable
        <2>1. imported' \in SUBSET (0..MaxSlept)
            <3>1. slept[now] \in 0..MaxSlept
                BY LiveIsEpoch DEF IInv
            <3> QED BY <1>1, <1>15, <3>1, StartTable DEF KeptOK
        <2>2. unread' \in BOOLEAN
            BY <1>15 DEF InitialTable, Resumable
        <2> QED BY <1>1, <1>15, <2>1, <2>2 DEF InitialTable, KeptOK, counters
    <1>8. CASE Arm \/ Crash \/ Notice \/ Tick \/ PollFails
        BY <1>1, <1>8 DEF Arm, Crash, Notice, Tick, PollFails, KeptOK, counters
    <1>9. CASE WatchFails \/ OnStepFails
        BY <1>1, <1>9 DEF WatchFails, OnStepFails, KeptOK, counters
    <1>10. ASSUME Extend(table), UNCHANGED <<saved, counters, unread, imported>>
           PROVE  KeptOK'
        BY <1>1, <1>10 DEF Extend, KeptOK, counters
    <1>11. CASE OnStep
        BY <1>10, <1>11 DEF OnStep
    <1>12. CASE Persist
        <2>1. [boot |-> boot, epochs |-> table] \in Snapshot
            BY <1>1, <1>3 DEF MachineOK, Snapshot
        <2>2. saved' \in Snapshot
            BY <1>1, <1>12, <2>1 DEF Persist, KeptOK
        <2> QED BY <1>1, <1>12, <2>2 DEF Persist, KeptOK, counters
    <1>13. CASE Poll
        BY <1>1, <1>10, <1>13 DEF Poll, KeptOK, counters
    <1>14. CASE UNCHANGED vars
        BY <1>1, <1>14 DEF vars, KeptOK, counters
    <1> QED BY <1>2, <1>4, <1>5, <1>6, <1>7, <1>8, <1>9, <1>11, <1>12, <1>13, <1>14, <1>15 DEF Next

\* The snapshot on disk is in order and, if of this boot, true to it.
LEMMA SavedOKStep ==
    ASSUME IInv, [Next]_vars
    PROVE  SavedOK'
    <1>1. TypeOK /\ MachineOK /\ SavedOK /\ TableOK
        BY DEF IInv, TypeOK
    <1>2. boot \in Nat
        BY <1>1, ClockBoundsAssumption DEF MachineOK
    <1>3. saved.boot \in Nat /\ saved.epochs \in Seq(Epoch)
        BY <1>1, ClockBoundsAssumption DEF TypeOK, KeptOK, Snapshot
    <1>4. ASSUME UNCHANGED <<saved, machine, imported>>
          PROVE  SavedOK'
        BY <1>1, <1>4 DEF SavedOK, WellFormed, Sound, machine
    <1>5. CASE ClockSteps \/ TimePasses \/ Sleeps
        <2>1. PICK o, d : Unit(o, d)
            BY <1>5, Units
        <2>2. UNCHANGED <<saved, boot>>
            BY <2>1 DEF Unit
        <2>3. saved.boot = boot => \A i \in 1..Len(saved.epochs) :
                SoundIn(saved.epochs[i], now', offset', truth', slept', imported')
            BY <1>1, <1>3, <2>1, SoundStays DEF SavedOK
        <2> QED BY <1>1, <2>2, <2>3 DEF SavedOK, WellFormed, Sound
    <1>6. CASE Reboot
        BY <1>1, <1>2, <1>3, <1>6 DEF Reboot, SavedOK, WellFormed
    <1>7. CASE InitialTable
        <2>1. UNCHANGED <<saved, machine>> /\ imported \subseteq imported'
            BY <1>7, StartTable DEF InitialTable
        <2>2. saved.boot = boot => \A i \in 1..Len(saved.epochs) :
                SoundIn(saved.epochs[i], now, offset, truth, slept, imported')
            BY <1>1, <2>1, SoundWider DEF SavedOK, Sound
        <2> QED BY <1>1, <2>1, <2>2 DEF SavedOK, WellFormed, Sound, machine
    <1>8. CASE FirstReading \/ Arm \/ Crash \/ Notice \/ WatchFails \/ OnStep \/ OnStepFails
        BY <1>4, <1>8
        DEF FirstReading, Arm, Crash, Notice, WatchFails, OnStep, OnStepFails
    <1>9. CASE Tick \/ Poll \/ PollFails
        BY <1>4, <1>9 DEF Tick, Poll, PollFails
    <1>10. CASE Persist
        <2>1. CASE UNCHANGED saved
            BY <1>4, <1>10, <2>1 DEF Persist
        <2>2. CASE saved' = [boot |-> boot, epochs |-> table]
            <3>1. saved'.boot = boot /\ saved'.epochs = table
                BY <2>2
            <3>2. table # <<>> /\ WellFormed(table) /\ Sound(table)
                  /\ UNCHANGED <<machine, imported>>
                BY <1>1, <1>10 DEF Persist, TableOK, HasTable
            <3>3. WellFormed(saved.epochs)'
                BY <3>1, <3>2 DEF WellFormed
            <3>4. Sound(saved.epochs)'
                BY <3>1, <3>2 DEF Sound, machine
            <3> QED BY <1>2, <3>1, <3>2, <3>3, <3>4 DEF SavedOK, machine
        <2> QED BY <1>10, <2>1, <2>2 DEF Persist
    <1>11. CASE UNCHANGED vars
        BY <1>4, <1>11 DEF vars
    <1> QED BY <1>5, <1>6, <1>7, <1>8, <1>9, <1>10, <1>11 DEF Next

LEMMA StepIInv == IInv /\ [Next]_vars => IInv'
    BY MachineStep, TableOKStep, TaskStep, KeptStep, LiveOKStep, SavedOKStep DEF IInv, TypeOK

LEMMA IInvHolds == Spec => []IInv
    BY InitIInv, StepIInv, PTL DEF Spec

\* Every reachable state has its type, for every set of offsets, every
\* threshold and every bound.
THEOREM ClockTypeCorrect == Spec => []TypeOK
    <1>1. IInv => TypeOK
        BY DEF IInv
    <1> QED BY <1>1, IInvHolds, PTL

\* A running process always has a table, in the order of its starts and without
\* a boundary that is none; so is what it leaves on disk.
THEOREM TablesAreWellFormed == Spec => []TableWellFormed
    <1>1. IInv => TableWellFormed
        BY DEF IInv, TableOK, SavedOK, TableWellFormed, HasTable
    <1> QED BY <1>1, IInvHolds, PTL

\* No epoch of the table is invented or of another boot: the clock was in it, at or after
\* the boottime it is dated to, give or take, for an epoch from the journal, what the
\* machine slept between that moment and the import.
THEOREM TablesAreWitnessed == Spec => []TableWitnessed
    <1>1. IInv => TableWitnessed
        <2> SUFFICES ASSUME IInv, NEW i \in 1..Len(table) PROVE Witnessed(table[i])
            BY DEF TableWitnessed
        <2>1. table[i] \in Epoch
            BY ElementOfSeq DEF IInv, TypeOK, TaskOK
        <2>2. TypeOK /\ SoundIn(table[i], now, offset, truth, slept, imported)
            BY DEF IInv, TableOK, Sound
        <2> QED BY <2>1, <2>2, SoundIsWitnessed
    <1> QED BY <1>1, IInvHolds, PTL

-----------------------------------------------------------------------------
(* No step passes an armed watch.                                          *)

\* Where no notice is under way and none was missed, the table is on the clock.
\* Stronger than StepsKnown: it speaks of every line between two waits, and of a
\* process without a timer, since a step then counts as missed.
OnClock ==
    pc \notin {"down", "loading", "step"} /\ fd # "cancelled" /\ ~unwatched =>
        Active(table).offset = offset

\* Nor has anything moved since the reading that the table is to get.
FirstHolds ==
    pc = "loading" /\ ~unwatched =>
        \A t \in live.start..now : truth[t] = offset /\ slept[t] = slept[now]

WatchOK == pc \in {"down", "loading", "arming"} => fd = "closed"

WatchInv == OnClock /\ FirstHolds /\ WatchOK

\* So the first table is on the clock: an entry that the reading is too early for was
\* stamped after it.
LEMMA StartsOnClock ==
    ASSUME IInv, FirstHolds, InitialTable, ~unwatched
    PROVE  Active(table').offset = offset
    <1>1. TypeOK /\ SleptOK /\ pc = "loading"
        BY DEF IInv, InitialTable
    <1>2. /\ now \in Nat /\ truth \in [0..now -> Offsets] /\ slept \in [0..now -> 0..MaxSlept]
          /\ live.start \in 1..now /\ truth[live.start] = live.offset
        BY <1>1, LiveIsEpoch, FirstIsSound
    <1>3. \A t \in live.start..now : truth[t] = offset /\ slept[t] = slept[now]
        BY <1>1 DEF FirstHolds
    <1>4. live.start \in live.start..now
        BY <1>2
    <1>5. CASE Active(table').offset = live.offset
        BY <1>2, <1>3, <1>4, <1>5
    <1>6. CASE FromEntry(Active(table')) /\ live.start <= Active(table').start
        <2>1. PICK a \in 1..now : /\ Active(table').offset = truth[a] - (slept[now] - slept[a])
                                  /\ Active(table').start < a + (slept[now] - slept[a])
            BY <1>6 DEF FromEntry
        <2>2. Active(table') \in Epoch
            BY StartTable, ActiveIsLast
        <2>3. slept[a] \in Int /\ slept[now] \in Int /\ truth[a] \in Int
            <3>1. a \in 0..now /\ now \in 0..now
                BY <1>2
            <3> QED BY <1>1, <3>1, HistoryOf
        <2>4. live.start < a + (slept[now] - slept[a])
            BY <1>2, <1>6, <2>1, <2>2, <2>3 DEF Epoch
        <2>5. ~(a < live.start)
            <3>1. SUFFICES ASSUME a < live.start PROVE FALSE
                OBVIOUS
            <3>2. slept[live.start] - slept[a] <= live.start - a
                <4>1. a \in 0..now /\ live.start \in 0..now /\ a <= live.start
                    BY <1>2, <3>1
                <4> QED BY <1>1, <4>1 DEF SleptOK
            <3>3. slept[live.start] = slept[now]
                BY <1>3, <1>4
            <3> QED BY <1>2, <2>3, <2>4, <3>2, <3>3
        <2>6. a \in live.start..now
            BY <1>2, <2>5
        <2>7. truth[a] = offset /\ slept[a] = slept[now]
            BY <1>3, <2>6
        <2> QED BY <2>1, <2>3, <2>7
    <1> QED BY <1>5, <1>6, StartTable

LEMMA StepWatchInv ==
    ASSUME IInv, WatchInv, [Next]_vars
    PROVE  WatchInv'
    <1>1. CASE ClockSteps
        <2>1. fd \in {"closed", "armed", "cancelled"}
            BY DEF IInv, TypeOK, TaskOK
        <2> QED BY <1>1, <2>1 DEF ClockSteps, WatchInv, OnClock, FirstHolds, WatchOK
    <1>2. CASE TimePasses \/ Sleeps
        <2>1. PICK o, d : Unit(o, d) /\ (o = offset \/ ClockSteps) /\ (d = 0 \/ Sleeps)
            BY <1>2, Units
        <2>2. offset' = offset /\ UNCHANGED <<pc, table, live>>
            BY <1>2 DEF TimePasses, Sleeps
        <2>3. OnClock' /\ WatchOK'
            BY <1>2, <2>2 DEF TimePasses, Sleeps, WatchInv, OnClock, WatchOK
        <2>4. FirstHolds'
            <3> SUFFICES ASSUME pc' = "loading", ~unwatched', NEW t \in live'.start..now'
                         PROVE  truth'[t] = offset' /\ slept'[t] = slept'[now']
                BY DEF FirstHolds
            <3>1. pc = "loading" /\ ~unwatched /\ ~Sleeps
                <4>1. pc = "loading"
                    BY <2>2
                <4>2. ~Sleeps
                    BY <4>1 DEF Sleeps
                <4> QED BY <1>2, <4>1, <4>2 DEF TimePasses
            <3>2. slept'[now'] = slept[now] + 0 /\ slept[now] \in Int
                BY <1>2, <2>1, <3>1, UnitOf, LiveIsEpoch, ClockBoundsAssumption DEF IInv
            <3>3. TimePasses /\ now' = now + 1 /\ now \in Nat /\ live' = live /\ live.start \in 1..now
                BY <1>2, <3>1, LiveIsEpoch DEF TimePasses, IInv, LiveOK
            <3>4. CASE t \in live.start..now
                <4>1. t \in 0..now
                    BY <3>3, <3>4
                <4>2. truth[t] = offset /\ slept[t] = slept[now]
                    BY <3>1, <3>4 DEF WatchInv, FirstHolds
                <4> QED BY <2>1, <2>2, <3>2, <4>1, <4>2, UnitOf
            <3>5. CASE t = now'
                <4>1. truth'[now'] = offset'
                    BY <2>1, UnitOf DEF TruthOK
                <4> QED BY <3>5, <4>1
            <3> QED BY <3>3, <3>4, <3>5
        <2> QED BY <2>3, <2>4 DEF WatchInv
    <1>3. CASE Reboot \/ Crash
        BY <1>3 DEF Reboot, Crash, Blank, WatchInv, OnClock, FirstHolds, WatchOK
    <1>4. CASE FirstReading
        <2>1. UNCHANGED <<now, offset, truth, slept>> /\ live'.start = now
            BY <1>4, LiveIsEpoch DEF FirstReading, machine, IInv
        <2>2. truth[now] = offset /\ \A t \in now..now : t = now
            BY LiveIsEpoch DEF IInv, TruthOK
        <2>3. FirstHolds'
            BY <2>1, <2>2 DEF FirstHolds
        <2> QED BY <1>4, <2>3 DEF FirstReading, WatchInv, OnClock, WatchOK
    <1>12. CASE InitialTable
        <2>1. FirstHolds' /\ WatchOK'
            BY <1>12 DEF InitialTable, WatchInv, FirstHolds, WatchOK
        <2>2. OnClock'
            BY <1>12, StartsOnClock DEF InitialTable, WatchInv, OnClock, machine
        <2> QED BY <2>1, <2>2 DEF WatchInv
    <1>5. CASE Arm
        BY <1>5 DEF Arm, WatchInv, OnClock, FirstHolds, WatchOK, machine
    <1>6. CASE Notice \/ WatchFails \/ OnStepFails
        BY <1>6 DEF Notice, WatchFails, OnStepFails, WatchInv, OnClock, FirstHolds, WatchOK
    <1>7. ASSUME Extend(table), HasTable, UNCHANGED machine,
                 pc' \in {"save step", "save poll"}
          PROVE  WatchInv'
        BY <1>7, ExtendTable DEF WatchInv, OnClock, FirstHolds, WatchOK, machine
    <1>8. CASE OnStep
        BY <1>7, <1>8 DEF OnStep, HasTable
    <1>9. CASE Persist \/ Tick \/ PollFails
        BY <1>9 DEF Persist, Tick, PollFails, WatchInv, OnClock, FirstHolds, WatchOK, machine
    <1>10. CASE Poll
        BY <1>7, <1>10 DEF Poll, WatchInv, OnClock, FirstHolds, WatchOK, machine, HasTable
    <1>11. CASE UNCHANGED vars
        BY <1>11 DEF vars, WatchInv, OnClock, FirstHolds, WatchOK, machine
    <1> QED BY <1>1, <1>2, <1>3, <1>4, <1>5, <1>6, <1>8, <1>9, <1>10, <1>11, <1>12 DEF Next

\* Where a timer was armed and the readings answered, the table is on the clock
\* whenever the task waits, whatever stepped between its lines.
THEOREM StepsAreKnown == Spec => []StepsKnown
    <1>1. Init => WatchInv
        BY DEF Init, WatchInv, OnClock, FirstHolds, WatchOK
    <1>2. IInv /\ WatchInv /\ [Next]_vars => WatchInv'
        BY StepWatchInv
    <1>3. WatchInv => StepsKnown
        BY DEF WatchInv, OnClock, StepsKnown
    <1> QED BY <1>1, <1>2, <1>3, IInvHolds, PTL DEF Spec

-----------------------------------------------------------------------------
(* The disk forgets nothing of this boot.                                  *)

\* A set of numbers that has an element has a least one.
LEMMA LeastOf ==
    ASSUME NEW T \in SUBSET Nat, T # {}
    PROVE  \E x \in T : \A y \in T : x <= y
    <1> DEFINE R == OpToRel(<, Nat)
    <1>1. IsWellFoundedOn(R, Nat)
        BY NatLessThanWellFounded
    <1> HIDE DEF R
    <1>2. PICK x \in T : \A y \in T : ~ (<<y, x>> \in R)
        BY <1>1, WFMin
    <1>3. \A y \in T : ~ (y < x)
        BY <1>2 DEF R, OpToRel
    <1> QED BY <1>3

\* `from_epochs` of a table drops nothing of it.
LEMMA FromWellFormed ==
    ASSUME NEW list \in Seq(Epoch), list # <<>>, WellFormed(list),
           NEW t \in FromEpochs(list)
    PROVE  ToSet(list) \subseteq ToSet(t)
    <1> DEFINE n == Len(list)
               same == SameBoundary(list)
    <1>1. n \in Nat /\ n > 0 /\ \A i \in 1..n : list[i] \in Epoch
        BY LenProperties, ElementOfSeq, EmptySeq
    <1>2. PICK k \in Picks(n) :
              /\ PicksRuns(k, n, same)
              /\ t = [i \in DOMAIN k |-> list[k[i]]]
        BY DEF FromEpochs
    <1>3. PICK m \in Nat : k \in [1..m -> 1..n] /\ Len(k) = m /\ DOMAIN k = 1..m
        BY <1>1, PicksOf
    <1>4. m > 0 /\ k[1] = 1
        BY <1>1, <1>2, <1>3 DEF PicksRuns
    <1>5. \A j \in 1..n : \E i \in 1..m : k[i] = j
        <2> TAKE j \in 1..n
        <2> DEFINE T == {d \in Nat : \E i \in 1..m : k[i] <= j /\ d = j - k[i]}
        <2>1. j - 1 \in T
            BY <1>1, <1>4
        <2>2. PICK d \in T : \A other \in T : d <= other
            <3>1. T \in SUBSET Nat /\ T # {}
                BY <2>1
            <3> HIDE DEF T
            <3> QED BY <3>1, LeastOf
        <2>3. PICK i \in 1..m : k[i] <= j /\ d = j - k[i]
            BY <2>2
        <2>4. k[i] \in 1..n
            BY <1>3, <2>3
        <2>5. i < m => j < k[i + 1]
            <3>1. SUFFICES ASSUME i < m, ~(j < k[i + 1]) PROVE FALSE
                OBVIOUS
            <3>2. i + 1 \in 1..m /\ i < i + 1
                BY <1>3, <2>3, <3>1
            <3>3. k[i] < k[i + 1] /\ k[i + 1] \in 1..n
                BY <1>2, <1>3, <2>3, <3>2 DEF PicksRuns
            <3>4. j - k[i + 1] \in Nat /\ k[i + 1] <= j
                BY <1>1, <3>1, <3>3
            <3>5. j - k[i + 1] \in T
                BY <3>2, <3>4
            <3>6. j - k[i + 1] < d
                BY <1>1, <2>3, <2>4, <3>3
            <3>7. d <= j - k[i + 1]
                BY <2>2, <3>5
            <3> QED BY <1>1, <2>3, <2>4, <3>3, <3>6, <3>7
        <2>6. ASSUME k[i] # j PROVE FALSE
            <3>1. k[i] + 1 \in 1..n /\ k[i] \in 1..n - 1 /\ k[i] < k[i] + 1 /\ k[i] + 1 <= j
                BY <1>1, <2>3, <2>4, <2>6
            <3>2. i < Len(k) => k[i] + 1 < k[i + 1]
                <4>1. i < m => k[i + 1] \in 1..n
                    BY <1>3, <2>3
                <4> QED BY <1>1, <1>3, <2>4, <2>5, <3>1, <4>1
            <3>3. <<k[i], k[i] + 1>> \in same
                BY <1>2, <1>3, <2>3, <3>1, <3>2 DEF PicksRuns
            <3>4. \/ list[k[i] + 1].start = list[k[i]].start
                  \/ list[k[i] + 1].offset = list[k[i]].offset
                BY <3>3 DEF SameBoundary
            <3>5. list[k[i]].offset # list[k[i] + 1].offset
                BY <3>1 DEF WellFormed
            <3>6. list[k[i]].start < list[k[i] + 1].start
                BY <2>4, <3>1 DEF WellFormed
            <3>7. list[k[i]].start \in Nat
                BY <1>1, <2>4 DEF Epoch
            <3> QED BY <3>4, <3>5, <3>6, <3>7
        <2> QED BY <2>3, <2>6
    <1>6. DOMAIN list = 1..n /\ DOMAIN t = 1..m
        BY <1>2, <1>3, LenProperties
    <1>7. \A j \in DOMAIN list : \E i \in DOMAIN t : t[i] = list[j]
        <2> TAKE j \in DOMAIN list
        <2>1. PICK i \in 1..m : k[i] = j
            BY <1>5, <1>6
        <2>2. t[i] = list[k[i]]
            BY <1>2, <1>3
        <2> QED BY <1>6, <2>1, <2>2
    <1> QED BY <1>7 DEF ToSet

\* The snapshot of this boot is part of the table of the running process, unless it
\* could not be read.
SavedWithin ==
    HasTable /\ saved.boot = boot /\ ~unread => ToSet(saved.epochs) \subseteq ToSet(table)

\* A process that finds a snapshot of this boot, and can read it, has all of it.
LEMMA StartKeepsSaved ==
    ASSUME IInv, InitialTable, saved.boot = boot, ~unread'
    PROVE  ToSet(saved.epochs) \subseteq ToSet(table')
    <1>1. /\ TypeOK /\ TruthOK /\ saved.epochs \in Seq(Epoch)
          /\ saved.epochs # <<>> /\ WellFormed(saved.epochs) /\ Sound(saved.epochs)
        BY DEF IInv, TypeOK, KeptOK, Snapshot, SavedOK
    <1>2. Ascending(saved.epochs)
        BY <1>1 DEF WellFormed, Ascending
    <1>3. PICK t \in FromEpochs(saved.epochs) : table' = With(t, live)
        BY DEF InitialTable, Resumable
    <1>4. /\ t \in Seq(Epoch) /\ t # <<>> /\ WellFormed(t)
          /\ \A i \in 1..Len(t) : \E j \in 1..Len(saved.epochs) : t[i] = saved.epochs[j]
        BY <1>1, <1>2, <1>3, FromEpochsOf
    <1>5. \A i \in 1..Len(t) : SoundIn(t[i], now, offset, truth, slept, imported)
        BY <1>1, <1>4 DEF Sound
    <1>6. ToSet(saved.epochs) \subseteq ToSet(t)
        BY <1>1, <1>3, FromWellFormed
    <1>7. live \in Epoch /\ SoundIn(live, now, offset, truth, slept, imported)
        BY FirstIsSound DEF InitialTable
    <1>8. ToSet(t) \subseteq ToSet(With(t, live))
        BY <1>4, <1>5, <1>7, WithReading
    <1> QED BY <1>3, <1>6, <1>8

LEMMA SavedWithinStep ==
    ASSUME IInv, SavedWithin, [Next]_vars
    PROVE  SavedWithin'
    <1>1. ASSUME UNCHANGED <<boot, saved, table, unread>>, HasTable' => HasTable
          PROVE  SavedWithin'
        BY <1>1 DEF SavedWithin
    <1>2. CASE ClockSteps \/ TimePasses \/ Sleeps
        BY <1>1, <1>2 DEF ClockSteps, TimePasses, Sleeps, HasTable
    <1>3. CASE Reboot \/ Crash \/ FirstReading
        BY <1>3 DEF Reboot, Crash, FirstReading, SavedWithin, HasTable
    <1>4. CASE InitialTable
        BY <1>4, StartKeepsSaved DEF InitialTable, SavedWithin, machine
    <1>5. CASE Arm \/ Notice \/ WatchFails \/ OnStepFails \/ Tick \/ PollFails
        BY <1>1, <1>5 DEF Arm, Notice, WatchFails, OnStepFails, Tick, PollFails, machine, HasTable
    <1>6. ASSUME HasTable, Extend(table), UNCHANGED <<saved, unread, machine>>
          PROVE  SavedWithin'
        BY <1>6, ExtendTable DEF SavedWithin, machine
    <1>7. CASE OnStep
        BY <1>6, <1>7 DEF OnStep, HasTable
    <1>8. CASE Persist
        <2>1. HasTable /\ UNCHANGED <<boot, table>>
            BY <1>8 DEF Persist, machine, HasTable
        <2>2. CASE UNCHANGED <<saved, unread>>
            BY <1>1, <2>1, <2>2
        <2>3. CASE saved' = [boot |-> boot, epochs |-> table]
            <3>1. saved'.epochs = table'
                BY <2>1, <2>3
            <3> QED BY <3>1 DEF SavedWithin
        <2> QED BY <1>8, <2>2, <2>3 DEF Persist
    <1>9. CASE Poll
        <2>1. HasTable /\ UNCHANGED <<saved, unread, machine>>
            BY <1>9 DEF Poll, HasTable
        <2>2. CASE Extend(table)
            BY <1>6, <2>1, <2>2
        <2>3. CASE UNCHANGED table
            BY <1>1, <2>1, <2>3 DEF machine
        <2> QED BY <1>9, <2>2, <2>3 DEF Poll
    <1>10. CASE UNCHANGED vars
        BY <1>1, <1>10 DEF vars, machine, HasTable
    <1> QED BY <1>2, <1>3, <1>4, <1>5, <1>7, <1>8, <1>9, <1>10 DEF Next

\* While a boot lasts, what the disk holds of its offset history only grows, whichever
\* writes fail and whenever the process ends, as long as each start can read it; after
\* one that cannot, it grows again from that process's first save.
THEOREM DiskNeverForgets == Spec => SavedHistoryKept
    <1>1. Init => SavedWithin
        BY DEF Init, SavedWithin, HasTable
    <1>2. IInv /\ SavedWithin /\ [Next]_vars => SavedWithin'
        BY SavedWithinStep
    <1>3. SavedWithin /\ [Next]_vars =>
            [saved.boot = boot /\ boot' = boot /\ ~unread =>
                ToSet(saved.epochs) \subseteq ToSet(saved'.epochs)]_vars
        <2> SUFFICES ASSUME SavedWithin, [Next]_vars, saved.boot = boot, ~unread
                     PROVE  ToSet(saved.epochs) \subseteq ToSet(saved'.epochs)
            OBVIOUS
        <2>1. CASE UNCHANGED saved
            BY <2>1
        <2>2. CASE Persist
            <3>1. HasTable
                BY <2>2 DEF Persist, HasTable
            <3>2. CASE saved' = [boot |-> boot, epochs |-> table]
                <4>1. saved'.epochs = table
                    BY <3>2
                <4> QED BY <3>1, <4>1 DEF SavedWithin
            <3> QED BY <2>1, <2>2, <3>2 DEF Persist
        <2>3. Persist \/ UNCHANGED saved
            BY DEF Next, vars, ClockSteps, TimePasses, Sleeps, Reboot, FirstReading, InitialTable,
                   Arm, Crash, Notice, WatchFails, OnStep, OnStepFails, Tick, Poll, PollFails
        <2> QED BY <2>1, <2>2, <2>3
    <1> QED BY <1>1, <1>2, <1>3, IInvHolds, PTL DEF Spec, SavedHistoryKept

-----------------------------------------------------------------------------
(* What `resolve` finds.                                                   *)

\* A set of numbers with a lower bound has a least one.
LEMMA LeastOfInts ==
    ASSUME NEW S, S # {}, \A x \in S : x \in Int,
           NEW low \in Int, \A x \in S : low <= x
    PROVE  \E x \in S : \A y \in S : x <= y
    <1> DEFINE T == {x - low : x \in S}
    <1>1. T \in SUBSET Nat /\ T # {}
        OBVIOUS
    <1>2. PICK d \in T : \A e \in T : d <= e
        <2> HIDE DEF T
        <2> QED BY <1>1, LeastOf
    <1>3. PICK x \in S : d = x - low
        OBVIOUS
    <1>4. \A y \in S : x <= y
        <2> TAKE y \in S
        <2>1. y - low \in T
            OBVIOUS
        <2>2. d <= y - low
            BY <1>2, <2>1
        <2>3. x \in Int /\ y \in Int
            OBVIOUS
        <2> QED BY <1>3, <2>2, <2>3
    <1> QED BY <1>4

\* And one with an upper bound a greatest.
LEMMA GreatestOfInts ==
    ASSUME NEW S, S # {}, \A x \in S : x \in Int,
           NEW high \in Int, \A x \in S : x <= high
    PROVE  \E x \in S : \A y \in S : x >= y
    <1> DEFINE T == {high - x : x \in S}
    <1>1. T \in SUBSET Nat /\ T # {}
        OBVIOUS
    <1>2. PICK d \in T : \A e \in T : d <= e
        <2> HIDE DEF T
        <2> QED BY <1>1, LeastOf
    <1>3. PICK x \in S : d = high - x
        OBVIOUS
    <1>4. \A y \in S : x >= y
        <2> TAKE y \in S
        <2>1. high - y \in T
            OBVIOUS
        <2>2. d <= high - y
            BY <1>2, <2>1
        <2>3. x \in Int /\ y \in Int
            OBVIOUS
        <2> QED BY <1>3, <2>2, <2>3
    <1> QED BY <1>4

\* Who is taken in order, but not next to one already taken, is a set there is:
\* the loop over the epochs ends with one.
Taken(kept, n, explains, near) ==
    /\ kept \subseteq 1..n
    /\ \A i \in 1..n : i \in kept <=>
        i \in explains /\ \A k \in kept : k < i => <<k, i>> \notin near

LEMMA SomeAreTaken ==
    ASSUME NEW n \in Nat, NEW explains, NEW near
    PROVE  \E kept : Taken(kept, n, explains, near)
    <1> DEFINE Bad == {m \in Nat : ~ \E kept : Taken(kept, m, explains, near)}
    <1> SUFFICES ASSUME n \in Bad PROVE FALSE
        OBVIOUS
    <1>1. PICK m \in Bad : \A k \in Bad : m <= k
        BY LeastOf
    <1>2. CASE m = 0
        <2>1. Taken({}, 0, explains, near)
            BY DEF Taken
        <2> QED BY <1>2, <2>1
    <1>3. CASE m # 0
        <2>1. m - 1 \in Nat /\ m - 1 \notin Bad
            BY <1>1, <1>3
        <2>2. PICK kept : Taken(kept, m - 1, explains, near)
            BY <2>1
        <2>3. kept \subseteq 1..m - 1 /\ m \notin kept
            BY <2>2, <2>1 DEF Taken
        <2> DEFINE Free == \A k \in kept : <<k, m>> \notin near
        <2>4. CASE m \in explains /\ Free
            <3> DEFINE new == kept \cup {m}
            <3>1. new \subseteq 1..m
                BY <2>3, <2>1
            <3>2. \A i \in 1..m - 1 : i \in new <=> i \in kept
                BY <2>1
            <3>3. \A i \in 1..m - 1 :
                    (\A k \in new : k < i => <<k, i>> \notin near)
                        <=> (\A k \in kept : k < i => <<k, i>> \notin near)
                BY <2>1
            <3>4. \A i \in 1..m - 1 : i \in new <=>
                    i \in explains /\ \A k \in new : k < i => <<k, i>> \notin near
                <4> HIDE DEF new
                <4> QED BY <2>2, <3>2, <3>3 DEF Taken
            <3>5. m \in new /\ \A k \in new : k < m => <<k, m>> \notin near
                BY <2>4, <2>1
            <3>6. \A i \in 1..m : i = m \/ i \in 1..m - 1
                BY <2>1
            <3> HIDE DEF new
            <3>7. Taken(new, m, explains, near)
                BY <3>1, <3>4, <3>5, <3>6, <2>4 DEF Taken
            <3> QED BY <3>7
        <2>5. CASE ~ (m \in explains /\ Free)
            <3>1. kept \subseteq 1..m
                BY <2>3, <2>1
            <3>2. \A k \in kept : k < m
                BY <2>3, <2>1
            <3>3. \A i \in 1..m : i = m \/ i \in 1..m - 1
                BY <2>1
            <3>4. ~ (m \in explains /\ \A k \in kept : k < m => <<k, m>> \notin near)
                BY <2>5, <3>2
            <3>5. Taken(kept, m, explains, near)
                BY <3>1, <3>3, <3>4, <2>2, <2>3 DEF Taken
            <3> QED BY <3>5
        <2> QED BY <2>4, <2>5
    <1> QED BY <1>2, <1>3

\* What `resolve` is asked.
Query == [stamped : Int, senderStarted : Int, received : Int]

\* The candidates are what the loop over the epochs takes.
LEMMA CandidatesOf ==
    ASSUME NEW t \in Seq(Epoch), NEW q \in Query
    PROVE  LET kept == Candidates(t, q)
               Event(i) == EventIn(t, i, q)
           IN  /\ kept \subseteq 1..Len(t)
               /\ \A i \in 1..Len(t) : i \in kept <=>
                    /\ WithinEpoch(t, i, Event(i))
                    /\ WithinWindow(q, Event(i))
                    /\ \A k \in kept : k < i => Distance(Event(k), Event(i)) >= Tolerance
    <1> DEFINE n == Len(t)
               Event(i) == EventIn(t, i, q)
               explains == {i \in 1..n : WithinEpoch(t, i, Event(i)) /\ WithinWindow(q, Event(i))}
               near == {p \in (1..n) \X (1..n) : ~ (Distance(Event(p[1]), Event(p[2])) >= Tolerance)}
               IsRight(kept) ==
                    \A i \in DOMAIN t : i \in kept <=>
                        /\ WithinEpoch(t, i, Event(i))
                        /\ WithinWindow(q, Event(i))
                        /\ \A k \in kept : k < i => Distance(Event(k), Event(i)) >= Tolerance
    <1>1. n \in Nat /\ DOMAIN t = 1..n
        BY LenProperties
    <1>2. PICK kept : Taken(kept, n, explains, near)
        BY <1>1, SomeAreTaken
    <1>3. kept \subseteq 1..n
        BY <1>2 DEF Taken
    <1>4. \A i \in 1..n : i \in kept <=>
            i \in explains /\ \A k \in kept : k < i => <<k, i>> \notin near
        BY <1>2 DEF Taken
    <1>5. \A i \in 1..n, k \in 1..n :
            <<k, i>> \notin near <=> Distance(Event(k), Event(i)) >= Tolerance
        OBVIOUS
    <1>6. \A i \in 1..n : i \in explains <=> WithinEpoch(t, i, Event(i)) /\ WithinWindow(q, Event(i))
        OBVIOUS
    <1> HIDE DEF explains, near, n
    <1>7. IsRight(kept)
        <2> SUFFICES ASSUME NEW i \in 1..n
                     PROVE  i \in kept <=>
                        /\ WithinEpoch(t, i, Event(i))
                        /\ WithinWindow(q, Event(i))
                        /\ \A k \in kept : k < i => Distance(Event(k), Event(i)) >= Tolerance
            BY <1>1
        <2> HIDE DEF Event
        <2>1. (\A k \in kept : k < i => <<k, i>> \notin near)
                <=> \A k \in kept : k < i => Distance(Event(k), Event(i)) >= Tolerance
            BY <1>3, <1>5
        <2> QED BY <1>4, <1>6, <2>1
    <1>8. Candidates(t, q) = CHOOSE c \in SUBSET DOMAIN t : IsRight(c)
        BY DEF Candidates
    <1>9. \E c \in SUBSET DOMAIN t : IsRight(c)
        BY <1>1, <1>3, <1>7
    <1> DEFINE all == SUBSET DOMAIN t
    <1>10. Candidates(t, q) \in all /\ IsRight(Candidates(t, q))
        <2> HIDE DEF IsRight, all
        <2>1. \E c \in all : IsRight(c)
            BY <1>9 DEF all
        <2>2. Candidates(t, q) = CHOOSE c \in all : IsRight(c)
            BY <1>8 DEF all
        <2> QED BY <2>1, <2>2
    <1> QED BY <1>1, <1>10 DEF n

\* The nearest of some candidates is one of them, and none is nearer.
LEMMA NearestOf ==
    ASSUME NEW t \in Seq(Epoch), NEW q \in Query,
           NEW kept \in SUBSET (1..Len(t)), kept # {}
    PROVE  /\ Nearest(kept, t, q) \in kept
           /\ \A k \in kept : Distance(q.received, EventIn(t, Nearest(kept, t, q), q))
                                  <= Distance(q.received, EventIn(t, k, q))
    <1> DEFINE d(i) == Distance(q.received, EventIn(t, i, q))
               IsNearest(i) == \A k \in kept : d(i) < d(k) \/ (d(i) = d(k) /\ i <= k)
               apart == {d(i) : i \in kept}
    <1>1. \A i \in kept : d(i) \in Nat /\ i \in Int
        <2> TAKE i \in kept
        <2>1. i \in 1..Len(t) /\ Len(t) \in Nat
            BY LenProperties
        <2>2. t[i] \in Epoch
            BY <2>1, ElementOfSeq
        <2>3. t[i].offset \in Int /\ q.received \in Int /\ q.stamped \in Int
            BY <2>2 DEF Epoch, Query
        <2> QED BY <2>1, <2>3 DEF Distance, EventIn
    <1> HIDE DEF d
    <1>2. apart \in SUBSET Nat /\ apart # {}
        BY <1>1
    <1>3. PICK least \in apart : \A e \in apart : least <= e
        BY <1>2, LeastOf
    <1> DEFINE best == {i \in kept : d(i) = least}
    <1>4. best \in SUBSET Nat /\ best # {}
        <2>1. \A i \in kept : i \in Nat
            BY LenProperties
        <2> QED BY <1>3, <2>1
    <1>5. PICK i \in best : \A k \in best : i <= k
        <2> HIDE DEF best
        <2> QED BY <1>4, LeastOf
    <1>6. i \in kept /\ IsNearest(i)
        <2> SUFFICES ASSUME NEW k \in kept
                     PROVE  d(i) < d(k) \/ (d(i) = d(k) /\ i <= k)
            BY <1>5
        <2>1. d(i) = least /\ least <= d(k) /\ d(k) \in Nat /\ least \in Nat
            BY <1>1, <1>2, <1>3, <1>5
        <2>2. d(k) = least => i <= k
            BY <1>5
        <2> QED BY <2>1, <2>2
    <1>7. Nearest(kept, t, q) = CHOOSE j \in kept : IsNearest(j)
        BY DEF Nearest, d
    <1>8. Nearest(kept, t, q) \in kept /\ IsNearest(Nearest(kept, t, q))
        <2> HIDE DEF IsNearest
        <2> QED BY <1>6, <1>7
    <1>9. \A k \in kept : d(Nearest(kept, t, q)) <= d(k)
        BY <1>1, <1>8
    <1> QED BY <1>8, <1>9 DEF d

\* A stamp that some epoch explains is resolved, to a boottime no further from the
\* receipt than one that is next to it, and no further from that than the spread.
LEMMA ResolveOf ==
    ASSUME NEW t \in Seq(Epoch), NEW q \in Query, NEW i \in 1..Len(t),
           WithinEpoch(t, i, EventIn(t, i, q)), WithinWindow(q, EventIn(t, i, q))
    PROVE  LET found == Resolve(t, q)
               event == EventIn(t, i, q)
           IN  /\ found.label \in {"exact", "ambiguous"}
               /\ found.boottime \in Int /\ found.spread \in Nat
               /\ \E c \in Int :
                    /\ c = event \/ Distance(c, event) < Tolerance
                    /\ Distance(q.received, found.boottime) <= Distance(q.received, c)
                    /\ Distance(found.boottime, c) <= found.spread
    <1> DEFINE kept == Candidates(t, q)
               Event(k) == EventIn(t, k, q)
               events == {Event(k) : k \in kept}
               best == Nearest(kept, t, q)
    <1>1. /\ kept \subseteq 1..Len(t)
          /\ \A k \in 1..Len(t) : k \in kept <=>
                /\ WithinEpoch(t, k, Event(k))
                /\ WithinWindow(q, Event(k))
                /\ \A j \in kept : j < k => Distance(Event(j), Event(k)) >= Tolerance
        BY CandidatesOf
    <1>2. \A k \in 1..Len(t) : Event(k) \in Int
        <2> TAKE k \in 1..Len(t)
        <2>1. t[k] \in Epoch
            BY ElementOfSeq
        <2> QED BY <2>1 DEF Epoch, Query, EventIn
    <1> HIDE DEF kept, Event
    <1>3. PICK c \in events : c = Event(i) \/ Distance(c, Event(i)) < Tolerance
        <2>1. CASE i \in kept
            BY <2>1
        <2>2. CASE i \notin kept
            <3>1. PICK j \in kept : ~ (Distance(Event(j), Event(i)) >= Tolerance)
                BY <1>1, <2>2 DEF Event
            <3>2. Event(j) \in Int /\ Event(i) \in Int /\ Tolerance \in Int
                BY <1>1, <1>2, ThresholdsAssumption
            <3>3. Distance(Event(j), Event(i)) < Tolerance
                BY <3>1, <3>2 DEF Distance
            <3> QED BY <3>1, <3>3
        <2> QED BY <2>1, <2>2
    <1>4. kept # {} /\ \A x \in events : x \in Int
        BY <1>1, <1>2, <1>3
    <1>5. best \in kept /\ \A k \in kept :
            Distance(q.received, Event(best)) <= Distance(q.received, Event(k))
        BY <1>1, <1>4, NearestOf DEF Event
    <1> HIDE DEF best
    <1>6. \A x \in events : q.senderStarted - Tolerance <= x /\ x <= q.received + Tolerance
        <2> SUFFICES ASSUME NEW k \in kept
                     PROVE  /\ q.senderStarted - Tolerance <= Event(k)
                            /\ Event(k) <= q.received + Tolerance
            OBVIOUS
        <2>1. WithinWindow(q, Event(k)) /\ Event(k) \in Int
            BY <1>1, <1>2
        <2>2. q.senderStarted \in Int /\ q.received \in Int /\ Tolerance \in Int
            BY ThresholdsAssumption DEF Query
        <2> QED BY <2>1, <2>2 DEF WithinWindow
    <1>7. q.senderStarted - Tolerance \in Int /\ q.received + Tolerance \in Int
        BY ThresholdsAssumption DEF Query
    <1>8. c \in events
        OBVIOUS
    <1>9. Event(best) \in events
        BY <1>5
    <1> HIDE DEF events
    <1>10. \E x \in events : \A y \in events : x <= y
        BY <1>4, <1>6, <1>7, <1>8, LeastOfInts
    <1>11. \E x \in events : \A y \in events : x >= y
        BY <1>4, <1>6, <1>7, <1>8, GreatestOfInts
    <1>12. /\ Min(events) \in events /\ \A y \in events : Min(events) <= y
           /\ Max(events) \in events /\ \A y \in events : Max(events) >= y
        BY <1>10, <1>11 DEF Min, Max
    <1>13. Resolve(t, q) = [label |-> CASE kept = {} -> "passthrough"
                                      [] Cardinality(kept) = 1 -> "exact"
                                      [] OTHER -> "ambiguous",
                            boottime |-> Event(best),
                            spread |-> Max(events) - Min(events)]
        BY <1>4 DEF Resolve, kept, Event, events, best
    <1>14. /\ Resolve(t, q).label \in {"exact", "ambiguous"}
           /\ Resolve(t, q).boottime = Event(best)
           /\ Resolve(t, q).spread = Max(events) - Min(events)
        BY <1>4, <1>13
    <1>15. Distance(Event(best), c) <= Max(events) - Min(events)
        BY <1>4, <1>8, <1>9, <1>12 DEF Distance
    <1>16. Max(events) - Min(events) \in Nat
        BY <1>4, <1>8, <1>12
    <1>17. Distance(q.received, Event(best)) <= Distance(q.received, c)
        BY <1>5 DEF events
    <1> QED BY <1>3, <1>4, <1>8, <1>9, <1>14, <1>15, <1>16, <1>17 DEF Event

-----------------------------------------------------------------------------
(* What a table that knows every step says of a moment.                    *)

\* One more moment is one more epoch exactly if the clock was stepped there.
LEMMA NeededOf ==
    /\ NeededAt(0) = 1
    /\ \A t \in Nat : NeededAt(t) \in Nat /\ NeededAt(t) >= 1
    /\ \A t \in Nat : NeededAt(t + 1) =
            IF truth[t + 1] # truth[t] THEN NeededAt(t) + 1 ELSE NeededAt(t)
    /\ \A s, t \in Nat : s <= t => NeededAt(s) <= NeededAt(t)
    <1> DEFINE Stepped(t) == {u \in 1..t : truth[u] # truth[u - 1]}
    <1>1. \A t \in Nat : IsFiniteSet(Stepped(t)) /\ Cardinality(Stepped(t)) \in Nat
        <2> TAKE t \in Nat
        <2>1. IsFiniteSet(1..t) /\ Stepped(t) \in SUBSET (1..t)
            BY FS_Interval
        <2>2. IsFiniteSet(Stepped(t))
            <3> HIDE DEF Stepped
            <3> QED BY <2>1, FS_Subset
        <2> QED BY <2>2, FS_CardinalityType
    <1>2. \A t \in Nat : NeededAt(t) = 1 + Cardinality(Stepped(t))
        BY DEF NeededAt
    <1>3. Stepped(0) = {}
        OBVIOUS
    <1>4. \A t \in Nat : Stepped(t + 1) =
            IF truth[t + 1] # truth[t] THEN Stepped(t) \cup {t + 1} ELSE Stepped(t)
        <2> TAKE t \in Nat
        <2>1. \A u : u \in 1..t + 1 <=> u \in 1..t \/ u = t + 1
            OBVIOUS
        <2>2. (t + 1) - 1 = t
            OBVIOUS
        <2>3. \A u : u \in Stepped(t + 1) <=>
                u \in Stepped(t) \/ (u = t + 1 /\ truth[t + 1] # truth[t])
            BY <2>1, <2>2
        <2> HIDE DEF Stepped
        <2>4. CASE truth[t + 1] # truth[t]
            <3>1. \A u : u \in Stepped(t + 1) <=> u \in Stepped(t) \cup {t + 1}
                BY <2>3, <2>4
            <3> QED BY <2>4, <3>1
        <2>5. CASE truth[t + 1] = truth[t]
            <3>1. \A u : u \in Stepped(t + 1) <=> u \in Stepped(t)
                BY <2>3, <2>5
            <3>2. Stepped(t + 1) = Stepped(t)
                BY <3>1
            <3> QED BY <2>5, <3>2
        <2> QED BY <2>4, <2>5
    <1>5. \A t \in Nat : t + 1 \notin Stepped(t)
        OBVIOUS
    <1>6. \A s, t \in Nat : s <= t => Stepped(s) \in SUBSET Stepped(t)
        OBVIOUS
    <1> HIDE DEF Stepped
    <1>7. \A t \in Nat : NeededAt(t + 1) =
            IF truth[t + 1] # truth[t] THEN NeededAt(t) + 1 ELSE NeededAt(t)
        <2> TAKE t \in Nat
        <2>1. Cardinality(Stepped(t) \cup {t + 1}) = Cardinality(Stepped(t)) + 1
            BY <1>1, <1>5, FS_AddElement
        <2>2. t + 1 \in Nat
            OBVIOUS
        <2>3. /\ NeededAt(t) = 1 + Cardinality(Stepped(t))
              /\ NeededAt(t + 1) = 1 + Cardinality(Stepped(t + 1))
            BY <1>2, <2>2
        <2>4. Cardinality(Stepped(t)) \in Nat
            BY <1>1
        <2>5. CASE truth[t + 1] # truth[t]
            <3>1. Stepped(t + 1) = Stepped(t) \cup {t + 1}
                BY <1>4, <2>5
            <3>2. Cardinality(Stepped(t + 1)) = Cardinality(Stepped(t)) + 1
                BY <2>1, <3>1
            <3>3. NeededAt(t + 1) = NeededAt(t) + 1
                BY <2>3, <2>4, <3>2
            <3> QED BY <2>5, <3>3
        <2>6. CASE truth[t + 1] = truth[t]
            <3>1. Stepped(t + 1) = Stepped(t)
                BY <1>4, <2>6
            <3> QED BY <2>3, <2>4, <2>6, <3>1
        <2> QED BY <2>5, <2>6
    <1>8. \A s, t \in Nat : s <= t => NeededAt(s) <= NeededAt(t)
        <2> SUFFICES ASSUME NEW s \in Nat, NEW t \in Nat, s <= t
                     PROVE  NeededAt(s) <= NeededAt(t)
            OBVIOUS
        <2>1. Cardinality(Stepped(s)) <= Cardinality(Stepped(t))
            BY <1>1, <1>6, FS_Subset
        <2> QED BY <1>1, <1>2, <2>1
    <1>9. NeededAt(0) = 1
        BY <1>2, <1>3, FS_EmptySet
    <1>10. \A t \in Nat : NeededAt(t) \in Nat /\ NeededAt(t) >= 1
        BY <1>1, <1>2
    <1> QED BY <1>7, <1>8, <1>9, <1>10

\* At every moment the table's epoch of it has the offset of that moment, began no
\* later than the tolerance after it, and the next one is not far enough before it.
LEMMA CompleteSays ==
    ASSUME TypeOK, Complete, NEW t \in 0..now
    PROVE  LET k == NeededAt(t) IN
           /\ k \in 1..Len(table)
           /\ table[k].offset = truth[t]
           /\ table[k].start <= t + Tolerance
           /\ k < Len(table) => t < table[k + 1].start + Tolerance
    <1>1. now \in Nat /\ table \in Seq(Epoch) /\ Tolerance \in Nat
        <2>1. now \in Nat
            BY ClockBoundsAssumption DEF TypeOK, MachineOK
        <2> QED BY <2>1, ThresholdsAssumption DEF TypeOK, TaskOK
    <1>2. Len(table) = NeededAt(now)
        BY DEF Complete
    <1>3. \A u \in 0..now : NeededAt(u) \in 1..Len(table)
        <2> SUFFICES ASSUME NEW u \in 0..now PROVE NeededAt(u) \in 1..Len(table)
            OBVIOUS
        <2>1. u \in Nat /\ u <= now
            BY <1>1
        <2>2. NeededAt(u) \in Nat /\ NeededAt(u) >= 1 /\ NeededAt(now) \in Nat
              /\ NeededAt(u) <= NeededAt(now)
            BY <1>1, <2>1, NeededOf
        <2> QED BY <1>2, <2>2
    <1>4. \A k \in 1..Len(table) : table[k].start \in Nat
        <2> TAKE k \in 1..Len(table)
        <2>1. table[k] \in Epoch
            BY <1>1, ElementOfSeq
        <2> QED BY <2>1 DEF Epoch
    <1>5. \A u \in 0..now : u = 0 \/ truth[u] # truth[u - 1] =>
            /\ table[NeededAt(u)].offset = truth[u]
            /\ table[NeededAt(u)].start <= u + Tolerance
            /\ u <= table[NeededAt(u)].start + Tolerance
        <2> SUFFICES ASSUME NEW u \in 0..now, u = 0 \/ truth[u] # truth[u - 1]
                     PROVE  /\ table[NeededAt(u)].offset = truth[u]
                            /\ table[NeededAt(u)].start <= u + Tolerance
                            /\ u <= table[NeededAt(u)].start + Tolerance
            OBVIOUS
        <2> DEFINE e == table[NeededAt(u)]
        <2>1. e.offset = truth[u] /\ Distance(e.start, u) <= Tolerance
            BY DEF Complete
        <2>2. e.start \in Nat /\ u \in Nat
            BY <1>1, <1>3, <1>4
        <2> HIDE DEF e
        <2>3. e.start <= u + Tolerance /\ u <= e.start + Tolerance
            BY <1>1, <2>1, <2>2 DEF Distance
        <2> QED BY <2>1, <2>3 DEF e
    <1> DEFINE Says(u) == /\ table[NeededAt(u)].offset = truth[u]
                          /\ table[NeededAt(u)].start <= u + Tolerance
               Bad == {u \in 0..now : ~ Says(u)}
    <1>6. Bad = {}
        <2> SUFFICES ASSUME Bad # {} PROVE FALSE
            OBVIOUS
        <2>1. Bad \in SUBSET Nat
            BY <1>1
        <2> HIDE DEF Bad
        <2>2. PICK u \in Bad : \A w \in Bad : u <= w
            BY <2>1, LeastOf
        <2> USE DEF Bad
        <2>3. u \in 0..now /\ ~ Says(u)
            BY <2>2
        <2>4. u # 0 /\ truth[u] = truth[u - 1]
            BY <1>5, <2>3
        <2>5. u - 1 \in 0..now /\ u - 1 \in Nat /\ (u - 1) + 1 = u
            BY <1>1, <2>3, <2>4
        <2>6. Says(u - 1)
            BY <2>2, <2>5
        <2>7. NeededAt(u) = NeededAt(u - 1)
            BY <2>4, <2>5, NeededOf
        <2>8. table[NeededAt(u)].start \in Nat
            BY <1>3, <1>4, <2>3
        <2>9. table[NeededAt(u)].start <= u + Tolerance
            BY <1>1, <2>5, <2>6, <2>7, <2>8
        <2> QED BY <2>3, <2>4, <2>6, <2>7, <2>9
    <1> DEFINE k == NeededAt(t)
    <1>7. k \in 1..Len(table) /\ Says(t)
        BY <1>3, <1>6
    <1>8. ASSUME k < Len(table) PROVE t < table[k + 1].start + Tolerance
        <2> DEFINE Later == {u \in 0..now : NeededAt(u) >= k + 1}
        <2>1. Later \in SUBSET Nat /\ now \in Later
            BY <1>1, <1>2, <1>7, <1>8
        <2>2. PICK u \in Later : \A w \in Later : u <= w
            <3> HIDE DEF Later
            <3> QED BY <2>1, LeastOf
        <2>3. u \in 0..now /\ NeededAt(u) >= k + 1 /\ k \in Nat /\ k >= 1 /\ t \in Nat
            BY <1>1, <1>7
        <2>4. u # 0
            <3>1. NeededAt(0) = 1
                BY NeededOf
            <3> HIDE DEF k
            <3> QED BY <2>3, <3>1
        <2>5. u - 1 \in 0..now /\ u - 1 \in Nat /\ (u - 1) + 1 = u /\ u \in Nat
            BY <1>1, <2>3, <2>4
        <2>6. ~ (NeededAt(u - 1) >= k + 1)
            BY <2>2, <2>5
        <2>7. /\ NeededAt(u - 1) \in Nat
              /\ NeededAt(u) = IF truth[u] # truth[u - 1] THEN NeededAt(u - 1) + 1
                               ELSE NeededAt(u - 1)
            BY <2>5, NeededOf
        <2>8. NeededAt(u) = k + 1 /\ truth[u] # truth[u - 1]
            <3> HIDE DEF k
            <3> QED BY <2>3, <2>6, <2>7
        <2>9. t < u
            <3>1. SUFFICES ASSUME ~ (t < u) PROVE FALSE
                OBVIOUS
            <3>2. u <= t
                BY <2>3, <2>5, <3>1
            <3>3. NeededAt(u) <= NeededAt(t)
                BY <2>3, <2>5, <3>2, NeededOf
            <3>4. NeededAt(u) <= k
                BY <3>3
            <3> HIDE DEF k
            <3> QED BY <2>3, <2>8, <3>4
        <2>10. u <= table[k + 1].start + Tolerance
            BY <1>5, <2>3, <2>8
        <2>11. k + 1 \in 1..Len(table)
            BY <1>7, <1>8
        <2>12. table[k + 1].start \in Nat
            BY <1>4, <2>11
        <2> HIDE DEF k
        <2> QED BY <1>1, <2>3, <2>5, <2>9, <2>10, <2>12
    <1> QED BY <1>7, <1>8

\* What such a table makes of a stamp of then, when it has the epochs there were
\* at the receipt: a moment after the boot, and no further off than it says.
LEMMA StampIsResolved ==
    ASSUME TypeOK, Complete, \A o \in Offsets : o >= 0,
           NEW r \in 1..now, NEW n \in NeededAt(r)..Len(table),
           NEW t \in 1..r, t >= Tolerance, NEW s \in {0, t}
    PROVE  LET found == Resolve(SubSeq(table, 1, n),
                                [stamped |-> t + truth[t], senderStarted |-> s, received |-> r])
           IN  /\ found.label \in {"exact", "ambiguous"}
               /\ found.boottime \in Nat /\ found.boottime >= 1
               /\ found.spread \in Nat
               /\ Distance(found.boottime, t) <= found.spread + Tolerance
    <1> DEFINE prefix == SubSeq(table, 1, n)
               q == [stamped |-> t + truth[t], senderStarted |-> s, received |-> r]
               k == NeededAt(t)
               found == Resolve(prefix, q)
    <1>1. now \in Nat /\ table \in Seq(Epoch)
        <2>1. now \in Nat
            BY ClockBoundsAssumption DEF TypeOK, MachineOK
        <2> QED BY <2>1 DEF TypeOK, TaskOK
    <1>2. Tolerance \in Nat /\ r \in Nat /\ t \in Nat /\ s \in Nat /\ s <= t /\ t <= r /\ t >= 1
        BY <1>1, ThresholdsAssumption
    <1>3. t \in 0..now
        BY <1>1, <1>2
    <1>4. truth[t] \in Int
        BY <1>3, OffsetsAssumption DEF TypeOK, MachineOK
    <1>5. /\ NeededAt(r) \in Nat /\ NeededAt(r) >= 1 /\ k \in Nat /\ k >= 1
          /\ k <= NeededAt(r)
        BY <1>2, NeededOf
    <1>6. Len(table) \in Nat /\ n \in Nat /\ n <= Len(table) /\ k <= n
        BY <1>1, <1>5, LenProperties
    <1>7. /\ prefix \in Seq(Epoch) /\ Len(prefix) = n
          /\ \A i \in 1..n : prefix[i] = table[i]
        <2>1. /\ SubSeq(table, 1, n) \in Seq(Epoch)
              /\ Len(SubSeq(table, 1, n)) = IF 1 <= n THEN n - 1 + 1 ELSE 0
              /\ \A i \in 1..n - 1 + 1 : SubSeq(table, 1, n)[i] = table[1 + i - 1]
            BY <1>1, <1>5, <1>6, SubSeqProperties
        <2>2. 1 <= n /\ n - 1 + 1 = n
            BY <1>5, <1>6
        <2>3. \A i \in 1..n : 1 + i - 1 = i
            BY <1>6
        <2> QED BY <2>1, <2>2, <2>3
    <1>8. q \in Query /\ q.senderStarted = s /\ q.received = r /\ q.stamped = t + truth[t]
        BY <1>2, <1>4 DEF Query
    <1>9. /\ k \in 1..Len(table) /\ table[k].offset = truth[t]
          /\ table[k].start <= t + Tolerance
          /\ k < Len(table) => t < table[k + 1].start + Tolerance
        BY <1>3, CompleteSays
    <1>10. k \in 1..n /\ table[k].start \in Nat
        <2>1. table[k] \in Epoch
            BY <1>1, <1>9, ElementOfSeq
        <2> QED BY <1>5, <1>6, <2>1 DEF Epoch
    <1>11. prefix[k] = table[k]
        BY <1>7, <1>10
    <1> HIDE DEF prefix, q, k
    <1>12. EventIn(prefix, k, q) = t
        BY <1>2, <1>4, <1>8, <1>9, <1>11 DEF EventIn
    <1>13. WithinEpoch(prefix, k, t)
        <2>1. t >= prefix[k].start - Tolerance
            BY <1>2, <1>9, <1>10, <1>11
        <2>2. ASSUME k < Len(prefix) PROVE t < prefix[k + 1].start + Tolerance
            <3>1. k < n /\ k + 1 \in 1..n /\ k < Len(table)
                BY <1>5, <1>6, <1>7, <2>2
            <3>2. prefix[k + 1] = table[k + 1]
                BY <1>7, <3>1
            <3> QED BY <1>9, <3>1, <3>2
        <2> QED BY <2>1, <2>2 DEF WithinEpoch
    <1>14. WithinWindow(q, t)
        BY <1>2, <1>8 DEF WithinWindow
    <1>15. /\ found.label \in {"exact", "ambiguous"}
           /\ found.boottime \in Int /\ found.spread \in Nat
           /\ \E c \in Int :
                /\ c = t \/ Distance(c, t) < Tolerance
                /\ Distance(r, found.boottime) <= Distance(r, c)
                /\ Distance(found.boottime, c) <= found.spread
        <2>1. k \in 1..Len(prefix)
            BY <1>7, <1>10
        <2> QED BY <1>7, <1>8, <1>12, <1>13, <1>14, <2>1, ResolveOf
    <1> HIDE DEF found
    <1>16. PICK c \in Int : /\ c = t \/ Distance(c, t) < Tolerance
                            /\ Distance(r, found.boottime) <= Distance(r, c)
                            /\ Distance(found.boottime, c) <= found.spread
        BY <1>15
    <1> DEFINE b == found.boottime
    <1> HIDE DEF b
    <1>17. b \in Int
        BY <1>15 DEF b
    <1>18. Distance(r, b) <= Distance(r, c) /\ Distance(b, c) <= found.spread
        BY <1>16 DEF b
    <1>19. c = t \/ Distance(c, t) < Tolerance
        BY <1>16
    <1>20. Distance(b, t) <= found.spread + Tolerance
        BY <1>2, <1>15, <1>17, <1>18, <1>19 DEF Distance
    <1>21. b >= 1
        <2>1. c >= 1
            BY <1>2, <1>19 DEF Distance
        <2>2. CASE c <= r
            <3>1. b >= c
                BY <1>2, <1>17, <1>18, <2>2 DEF Distance
            <3> QED BY <1>17, <2>1, <3>1
        <2>3. CASE c > r
            <3>1. c # t
                BY <1>2, <2>3
            <3>2. c - t < Tolerance
                BY <1>2, <1>19, <2>3, <3>1 DEF Distance
            <3>3. r - b <= c - r
                BY <1>2, <1>17, <1>18, <2>3 DEF Distance
            <3> QED BY <1>2, <1>17, <3>2, <3>3
        <2> QED BY <1>2, <2>2, <2>3
    <1> QED BY <1>15, <1>17, <1>20, <1>21 DEF found, b, prefix, q

-----------------------------------------------------------------------------
(* The receiver keeps the honest time.                                     *)

\* By its wall clock the machine never booted before 1970: no time of it is then
\* the 0 that means none.
ClockNotBeforeBoot == \A o \in Offsets : o >= 0

\* What the receipt pass makes of a record, with the first n epochs.
Resolved(sent, n, s, r) ==
    ResolveRecord(sent, SubSeq(table, 1, n), [senderStarted |-> s, received |-> r])

\* Whatever of the three kinds of record an application sends, the flush pass puts
\* an event time on it that is no further off than it says.
LEMMA KeptHonestly ==
    ASSUME TypeOK, Complete, ClockNotBeforeBoot,
           NEW r \in 1..now, NEW n \in NeededAt(r)..Len(table),
           NEW t \in 1..r, t >= Tolerance, NEW s \in {0, t}, NEW sent \in SentOf(t, r)
    PROVE  LET kept == CorrectRecord(Resolved(sent, n, s, r), {Active(table).offset}, FALSE)
           IN  /\ kept.resolution # "passthrough"
               /\ Distance(EventTime(kept), t + Active(table).offset)
                      <= kept.spread + Tolerance
    <1> DEFINE o == Active(table).offset
               stamp == t + truth[t]
               receipt == [senderStarted |-> s, received |-> r]
               prefix == SubSeq(table, 1, n)
               found == Resolve(prefix, [stamped |-> stamp, senderStarted |-> s, received |-> r])
               carried == Resolved(sent, n, s, r)
               kept == CorrectRecord(carried, {o}, FALSE)
    <1>1. now \in Nat /\ table \in Seq(Epoch)
        <2>1. now \in Nat
            BY ClockBoundsAssumption DEF TypeOK, MachineOK
        <2> QED BY <2>1 DEF TypeOK, TaskOK
    <1>2. Tolerance \in Nat /\ r \in Nat /\ t \in Nat /\ t >= 1
        BY <1>1, ThresholdsAssumption
    <1>3. \A u \in 0..now : truth[u] \in Int /\ truth[u] >= 0
        BY OffsetsAssumption DEF TypeOK, MachineOK, ClockNotBeforeBoot
    <1>4. o \in Int /\ o >= 0
        <2>1. now \in 0..now
            BY <1>1
        <2>2. /\ NeededAt(now) \in 1..Len(table)
              /\ table[NeededAt(now)].offset = truth[now]
            BY <2>1, CompleteSays
        <2>3. Len(table) = NeededAt(now)
            BY DEF Complete
        <2>4. o = truth[now]
            BY <2>2, <2>3 DEF Active, Last
        <2> QED BY <1>3, <2>1, <2>4
    <1>5. stamp \in Int /\ stamp >= 1
        <2>1. t \in 0..now
            BY <1>1, <1>2
        <2>2. truth[t] \in Int /\ truth[t] >= 0
            BY <1>3, <2>1
        <2> QED BY <1>2, <2>2
    <1>6. /\ found.label \in {"exact", "ambiguous"}
          /\ found.boottime \in Nat /\ found.boottime >= 1
          /\ found.spread \in Nat
          /\ Distance(found.boottime, t) <= found.spread + Tolerance
        BY StampIsResolved DEF ClockNotBeforeBoot
    <1> HIDE DEF o, stamp, found
    <1>7. /\ carried.time = sent.time /\ carried.observed = sent.observed
          /\ carried.received = r
          /\ carried.conclusion = Decide(sent, prefix, receipt)
        BY DEF Resolved, ResolveRecord
    <1>8. (CHOOSE x \in {o} : TRUE) = o
        OBVIOUS
    <1> DEFINE concluded == carried.conclusion
               event == Project(concluded.boottime, o)
    <1>9. ASSUME Correctable(concluded)
          PROVE  /\ kept.time = IF carried.time # 0 THEN event ELSE carried.time
                 /\ carried.time = 0 => kept.observed = event
                 /\ kept.resolution = IF concluded.label = "ambiguous"
                                      THEN concluded.label ELSE "none"
                 /\ kept.spread = concluded.spread
        <2> HIDE DEF carried
        <2>1. {o} # {}
            OBVIOUS
        <2> QED BY <1>8, <1>9, <2>1 DEF CorrectRecord
    <1> HIDE DEF carried, kept
    <1>10. ASSUME concluded.label \in {"exact", "ambiguous"},
                  concluded.boottime \in Nat, concluded.boottime >= 1,
                  concluded.spread \in Nat,
                  Distance(concluded.boottime, t) <= concluded.spread + Tolerance
           PROVE  /\ kept.resolution # "passthrough"
                  /\ Distance(EventTime(kept), t + o) <= kept.spread + Tolerance
        <2>1. Correctable(concluded)
            BY <1>10 DEF Correctable
        <2>2. event = concluded.boottime + o /\ event \in Int /\ event >= 1
            BY <1>4, <1>10 DEF Project
        <2>3. EventTime(kept) = event
            <3>1. CASE carried.time # 0
                <4>1. kept.time = event /\ event # 0
                    BY <1>9, <2>1, <2>2, <3>1
                <4> QED BY <4>1 DEF EventTime, Stamp
            <3>2. CASE carried.time = 0
                <4>1. kept.time = 0 /\ kept.observed = event
                    BY <1>9, <2>1, <3>2
                <4> QED BY <4>1 DEF EventTime, Stamp
            <3> QED BY <3>1, <3>2
        <2>4. kept.resolution # "passthrough" /\ kept.spread = concluded.spread
            BY <1>9, <2>1
        <2> HIDE DEF event, concluded
        <2>5. Distance(concluded.boottime + o, t + o) = Distance(concluded.boottime, t)
            BY <1>2, <1>4, <1>10 DEF Distance
        <2> QED BY <1>10, <2>2, <2>3, <2>4, <2>5
    <1>11. CASE sent = [time |-> 0, observed |-> 0, hint |-> t, authoritative |-> FALSE]
        <2>1. ~ sent.authoritative /\ sent.hint = t /\ t # NoHint
            BY <1>2, <1>11 DEF NoHint
        <2>2. concluded = Conclusion("exact", t)
            BY <1>7, <2>1 DEF Decide
        <2>3. concluded.label = "exact" /\ concluded.boottime = t /\ concluded.spread = 0
            BY <2>2 DEF Conclusion
        <2>4. Distance(t, t) <= 0 + Tolerance
            BY <1>2 DEF Distance
        <2>5. Distance(concluded.boottime, t) <= concluded.spread + Tolerance
            BY <2>3, <2>4
        <2>6. concluded.label \in {"exact", "ambiguous"} /\ concluded.spread \in Nat
            BY <2>3
        <2>7. concluded.boottime \in Nat /\ concluded.boottime >= 1
            BY <1>2, <2>3
        <2>8. /\ kept.resolution # "passthrough"
              /\ Distance(EventTime(kept), t + o) <= kept.spread + Tolerance
            BY <1>10, <2>5, <2>6, <2>7
        <2> QED BY <2>8 DEF o, kept, carried
    <1>12. ASSUME sent.authoritative = FALSE, sent.hint = NoHint, Stamp(sent) = stamp
           PROVE  /\ kept.resolution # "passthrough"
                  /\ Distance(EventTime(kept), t + o) <= kept.spread + Tolerance
        <2>1. Stamp(sent) # 0
            BY <1>5, <1>12
        <2>2. concluded = found
            BY <1>7, <1>12, <2>1 DEF Decide, found
        <2> QED BY <1>6, <1>10, <2>2
    <1>13. CASE sent = [time |-> stamp, observed |-> r + truth[r], hint |-> NoHint,
                        authoritative |-> FALSE]
        <2>1. sent.authoritative = FALSE /\ sent.hint = NoHint /\ sent.time = stamp /\ stamp # 0
            BY <1>5, <1>13
        <2>2. Stamp(sent) = stamp
            BY <2>1 DEF Stamp
        <2> QED BY <1>12, <2>1, <2>2 DEF o, kept, carried
    <1>14. CASE sent = [time |-> 0, observed |-> stamp, hint |-> NoHint,
                        authoritative |-> FALSE]
        <2>1. sent.authoritative = FALSE /\ sent.hint = NoHint
              /\ sent.time = 0 /\ sent.observed = stamp
            BY <1>14
        <2>2. Stamp(sent) = stamp
            BY <2>1 DEF Stamp
        <2> QED BY <1>12, <2>1, <2>2 DEF o, kept, carried
    <1> QED BY <1>11, <1>13, <1>14 DEF SentOf, stamp

\* Where there is no offset to correct it with, or the sender vouches for it, a
\* record is kept as it was sent, and marked with why.
LEMMA LeftAsSent ==
    ASSUME NEW t, NEW r, NEW sent \in SentOf(t, r), NEW n, NEW s
    PROVE  LET vouching == [sent EXCEPT !.authoritative = TRUE]
               asItCame == CorrectRecord(Resolved(sent, n, s, r), {}, TRUE)
               vouched == CorrectRecord(Resolved(vouching, n, s, r),
                                        {Active(table).offset}, FALSE)
           IN  /\ EventTime(asItCame) = EventTime(sent)
               /\ EventTime(vouched) = EventTime(sent)
               /\ asItCame.resolution = Resolved(sent, n, s, r).conclusion.label
               /\ vouched.resolution = "authoritative"
    <1> DEFINE vouching == [sent EXCEPT !.authoritative = TRUE]
               a == Resolved(sent, n, s, r)
               v == Resolved(vouching, n, s, r)
               asItCame == CorrectRecord(a, {}, TRUE)
               vouched == CorrectRecord(v, {Active(table).offset}, FALSE)
    <1>1. /\ vouching.time = sent.time /\ vouching.observed = sent.observed
          /\ vouching.authoritative
        BY DEF SentOf
    <1>2. /\ a.time = sent.time /\ a.observed = sent.observed
          /\ v.time = sent.time /\ v.observed = sent.observed
        BY <1>1 DEF Resolved, ResolveRecord
    <1>3. v.conclusion = Conclusion("authoritative", 0)
        BY <1>1 DEF Resolved, ResolveRecord, Decide
    <1>4. ~ Correctable(v.conclusion) /\ v.conclusion.label = "authoritative"
        BY <1>3 DEF Correctable, Conclusion
    <1> HIDE DEF a, v
    <1>5. /\ asItCame.time = a.time /\ asItCame.observed = a.observed
          /\ asItCame.resolution = a.conclusion.label
        BY DEF CorrectRecord
    <1>6. /\ vouched.time = v.time /\ vouched.observed = v.observed
          /\ vouched.resolution = v.conclusion.label
        BY <1>4 DEF CorrectRecord
    <1> HIDE DEF asItCame, vouched
    <1>7. EventTime(asItCame) = EventTime(sent) /\ EventTime(vouched) = EventTime(sent)
        BY <1>2, <1>5, <1>6 DEF EventTime, Stamp
    <1> QED BY <1>4, <1>5, <1>6, <1>7 DEF a, v, asItCame, vouched

\* No conclusion says that the record is ordinary.
LEMMA LabelsOf ==
    ASSUME NEW record, NEW known, NEW receipt
    PROVE  Decide(record, known, receipt).label \in
                {"authoritative", "exact", "ambiguous", "passthrough"}
    <1>1. \A q : Resolve(known, q).label \in {"exact", "ambiguous", "passthrough"}
        BY DEF Resolve
    <1> HIDE DEF Resolve
    <1>2. \A l, b : Conclusion(l, b).label = l
        BY DEF Conclusion
    <1> QED BY <1>1, <1>2 DEF Decide

\* Neither time depends on how the table came to be, only on that it knows every
\* step: no more than types is needed of the state.
LEMMA HonestOf ==
    ASSUME ClockNotBeforeBoot, TypeOK
    PROVE  CorrectedHonestly
    <1> SUFFICES ASSUME Complete, NEW r \in 1..now, NEW n \in NeededAt(r)..Len(table),
                        NEW t \in 1..r, NEW s \in {0, t}, NEW sent \in SentOf(t, r),
                        t >= Tolerance
        PROVE LET Carried(record) ==
                    ResolveRecord(record, SubSeq(table, 1, n),
                                  [senderStarted |-> s, received |-> r])
                  Kept(carried) == CorrectRecord(carried, {Active(table).offset}, FALSE)
                  resolved == Carried(sent)
                  kept == Kept(resolved)
                  asItCame == CorrectRecord(resolved, {}, TRUE)
                  vouched == Kept(Carried([sent EXCEPT !.authoritative = TRUE]))
              IN  /\ kept.resolution # "passthrough"
                  /\ Distance(EventTime(kept), t + Active(table).offset)
                         <= kept.spread + Tolerance
                  /\ {EventTime(asItCame), EventTime(vouched)} = {EventTime(sent)}
                  /\ "none" \notin {asItCame.resolution, vouched.resolution}
        BY DEF CorrectedHonestly
    <1> DEFINE kept == CorrectRecord(Resolved(sent, n, s, r), {Active(table).offset}, FALSE)
               asItCame == CorrectRecord(Resolved(sent, n, s, r), {}, TRUE)
               vouched == CorrectRecord(Resolved([sent EXCEPT !.authoritative = TRUE], n, s, r),
                                        {Active(table).offset}, FALSE)
    <1>1. /\ kept.resolution # "passthrough"
          /\ Distance(EventTime(kept), t + Active(table).offset) <= kept.spread + Tolerance
        BY KeptHonestly
    <1>2. /\ EventTime(asItCame) = EventTime(sent)
          /\ EventTime(vouched) = EventTime(sent)
          /\ asItCame.resolution = Resolved(sent, n, s, r).conclusion.label
          /\ vouched.resolution = "authoritative"
        BY LeftAsSent
    <1>3. asItCame.resolution # "none"
        <2>1. Resolved(sent, n, s, r).conclusion =
                Decide(sent, SubSeq(table, 1, n), [senderStarted |-> s, received |-> r])
            BY DEF Resolved, ResolveRecord
        <2>2. Resolved(sent, n, s, r).conclusion.label \in
                {"authoritative", "exact", "ambiguous", "passthrough"}
            BY <2>1, LabelsOf
        <2> HIDE DEF asItCame
        <2>3. asItCame.resolution \in {"authoritative", "exact", "ambiguous", "passthrough"}
            BY <1>2, <2>2
        <2> QED BY <2>3
    <1> HIDE DEF kept, asItCame, vouched
    <1>4. /\ {EventTime(asItCame), EventTime(vouched)} = {EventTime(sent)}
          /\ "none" \notin {asItCame.resolution, vouched.resolution}
        BY <1>2, <1>3
    <1> QED BY <1>1, <1>4 DEF kept, asItCame, vouched, Resolved

\* Of every event, however it is stamped and whenever between then and now it is
\* received, and however the clock is stepped in between, the receiver keeps a
\* time that is right within the spread it is marked with and the tolerance, or
\* the one it was sent with and a mark of why: for every table that knows every
\* step, every tolerance and every size of the steps.
THEOREM CorrectionsAreHonest ==
    ASSUME ClockNotBeforeBoot
    PROVE  Spec => []CorrectedHonestly
    <1>1. TypeOK => CorrectedHonestly
        BY HonestOf
    <1> QED BY <1>1, ClockTypeCorrect, PTL

=============================================================================
