---------------------------- MODULE RepairLedger ----------------------------
(***************************************************************************)
(* What the repair queue promises about each repair job, whoever works on  *)
(* it and whatever crashes: it is tried at most MaxTries times, it is      *)
(* settled as complete only after a try and as exhausted only after the    *)
(* last one, and a settled job never changes again.                        *)
(***************************************************************************)
EXTENDS Naturals

CONSTANTS Jobs, MaxTries

VARIABLES
    state,      \* "none", "open", "complete" or "exhausted", for each job
    tries       \* how often it was claimed

Init ==
    /\ state = [j \in Jobs |-> "none"]
    /\ tries = [j \in Jobs |-> 0]

Enqueued(j) == state[j] = "none" /\ state'[j] = "open" /\ tries'[j] = 0

Tried(j) ==
    /\ state[j] = "open" /\ tries[j] < MaxTries
    /\ state'[j] = "open" /\ tries'[j] = tries[j] + 1

Completed(j) ==
    /\ state[j] = "open" /\ tries[j] > 0
    /\ state'[j] = "complete" /\ tries'[j] = tries[j]

Exhausted(j) ==
    /\ state[j] = "open" /\ tries[j] = MaxTries
    /\ state'[j] = "exhausted" /\ tries'[j] = tries[j]

Kept(j) == state'[j] = state[j] /\ tries'[j] = tries[j]

\* A claim settles several jobs in one transaction.
Next ==
    \A j \in Jobs :
        Enqueued(j) \/ Tried(j) \/ Completed(j) \/ Exhausted(j) \/ Kept(j)

Spec == Init /\ [][Next]_<<state, tries>>
=============================================================================
