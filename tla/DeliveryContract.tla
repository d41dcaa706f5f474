-------------------------- MODULE DeliveryContract --------------------------
(***************************************************************************)
(* What mp-collector promises an application about a batch it answered 200 *)
(* for, with no word on how: design 4.6 and SPEC 6.6 as the code keeps     *)
(* them. A batch is taken, then handed to the receiver, or shed and        *)
(* counted, or lost with the process that held it. Nothing that was        *)
(* dropped is ever handed over later, and nothing is dropped uncounted by  *)
(* a process that keeps running.                                           *)
(***************************************************************************)
EXTENDS Naturals

CONSTANT Batch

VARIABLES
    status,     \* per batch: where it stands, for the application that sent it
    counted,    \* the batches that went into the shed_batches counter
    running     \* whether a collector process is there to hold anything

Status == {"unseen", "held", "received", "dropped"}

\* Nothing changes but that some of the held batches that may go are dropped.
OnlyDrops(mayGo) ==
    /\ status' \in [Batch -> Status]
    /\ \A b \in Batch :
        \/ status'[b] = status[b]
        \/ status[b] = "held" /\ status'[b] = "dropped" /\ b \in mayGo

Init ==
    /\ status = [b \in Batch |-> "unseen"]
    /\ counted = {}
    /\ running = FALSE

Begin ==
    /\ ~running
    /\ running' = TRUE
    /\ UNCHANGED <<status, counted>>

Take(b) ==
    /\ running /\ status[b] = "unseen"
    /\ status' = [status EXCEPT ![b] = "held"]
    /\ UNCHANGED <<counted, running>>

HandOver(b) ==
    /\ running /\ status[b] = "held"
    /\ status' = [status EXCEPT ![b] = "received"]
    /\ UNCHANGED <<counted, running>>

\* Only what goes into the counter may go.
Shed ==
    /\ running
    /\ counted \subseteq counted' /\ counted' \subseteq Batch
    /\ OnlyDrops(counted')
    /\ UNCHANGED running

\* The process or the machine under it ends. What was in memory is lost, what
\* was on disk may be kept.
Perish ==
    /\ running' = FALSE
    /\ OnlyDrops(Batch)
    /\ UNCHANGED counted

Next ==
    \/ Begin
    \/ \E b \in Batch : Take(b) \/ HandOver(b)
    \/ Shed
    \/ Perish

Spec == Init /\ [][Next]_<<status, counted, running>>
=============================================================================
