----------------------------- MODULE OneTimeUse -----------------------------
(***************************************************************************)
(* What is promised of something handed out to be used once: a sign-in     *)
(* token (store/login_tokens.rs), the challenge of a passkey prompt        *)
(* (web/passkey.rs). It is issued, lives, and ends used or void; nothing   *)
(* that has ended comes back or is used again.                             *)
(***************************************************************************)
EXTENDS Naturals

CONSTANT Ids
VARIABLES
    state,  \* per id: "unissued", "live" or "ended"
    uses    \* per id: how often it was used

vars == <<state, uses>>

Init ==
    /\ state = [i \in Ids |-> "unissued"]
    /\ uses = [i \in Ids |-> 0]

Issue(i) == state[i] = "unissued" /\ state'[i] = "live" /\ uses'[i] = uses[i]
Use(i) == state[i] = "live" /\ state'[i] = "ended" /\ uses'[i] = uses[i] + 1
Void(i) == state[i] = "live" /\ state'[i] = "ended" /\ uses'[i] = uses[i]
Keep(i) == state'[i] = state[i] /\ uses'[i] = uses[i]

\* One step of a system may end several, and issue another.
Next ==
    /\ state' \in [Ids -> {"unissued", "live", "ended"}]
    /\ uses' \in [Ids -> Nat]
    /\ \A i \in Ids : Issue(i) \/ Use(i) \/ Void(i) \/ Keep(i)

Spec == Init /\ [][Next]_vars
=============================================================================
