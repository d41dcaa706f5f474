---------------------------- MODULE BootGate ----------------------------
(***************************************************************************)
(* The clock gate that the service manager runs before each start of the   *)
(* service (src/clock.rs, wait-for-clock): a budget counted in polls, and  *)
(* a run of good readings that one bad reading ends.                       *)
(***************************************************************************)
EXTENDS Integers, Sequences

CONSTANTS
  Errors,           \* the clock errors that the kernel may report
  Threshold,        \* threshold_micros
  MaxPolls,         \* max_polls
  Consecutive       \* consecutive

ASSUME GateAssumption ==
  Errors \subseteq Int /\ Threshold \in Int /\ MaxPolls \in Nat /\ Consecutive \in Nat

is_good(error) == error < Threshold
\* Mutation of next_streak: good readings are counted whether or not they are contiguous.
next_streak_total(streak, good) == IF good THEN streak + 1 ELSE streak
next_streak(streak, good) == IF good THEN streak + 1 ELSE 0
outcome(streak, poll) ==
  IF streak >= Consecutive THEN "Ready" ELSE IF poll + 1 >= MaxPolls THEN "GiveUp" ELSE "KeepWaiting"

\* The gate as it starts, with the readings that it has taken; with no polls it gives up.
Waiting == [at |-> "gate", streak |-> 0, taken |-> <<>>]
MayPoll(gate) == gate.at = "gate" /\ Len(gate.taken) < MaxPolls
\* One turn of wait_until_synchronized's loop.
AfterPoll(gate, error) ==
  LET streak == next_streak(gate.streak, is_good(error))
      what   == outcome(streak, Len(gate.taken))
  IN [at     |-> CASE what = "Ready" -> "admitted" [] what = "GiveUp" -> "refused" [] OTHER -> "gate",
      streak |-> streak,
      taken  |-> Append(gate.taken, error)]

\* An admitted start took its Consecutive last readings in a row, all of them good.
OnGoodReadings(gate) ==
  /\ Len(gate.taken) \in Consecutive..MaxPolls
  /\ \A i \in Len(gate.taken) - Consecutive + 1 .. Len(gate.taken) : is_good(gate.taken[i])

=============================================================================
