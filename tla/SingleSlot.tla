------------------------------- MODULE SingleSlot -------------------------------
(***************************************************************************)
(* What the FlashLoop HTTP service promises its callers, without threads,  *)
(* polling or cancellation: one generation slot.  A completion request is  *)
(* refused because it is invalid, refused because the slot is taken, or    *)
(* admitted to the free slot; an admitted attempt finishes exactly once    *)
(* with one outcome, and the slot is free again in the same step.          *)
(***************************************************************************)
CONSTANTS
    Requests,   \* the completion requests that may arrive
    Outcomes    \* how an admitted attempt can finish

VARIABLES
    slot,       \* the requests that occupy the slot
    status      \* what has become of every request

vars == <<slot, status>>

TypeOK ==
    /\ slot \subseteq Requests
    /\ status \in [Requests -> {"new", "invalid", "busy", "admitted"} \cup Outcomes]

Init ==
    /\ slot = {}
    /\ status = [r \in Requests |-> "new"]

Invalid(r) ==
    /\ status[r] = "new"
    /\ status' = [status EXCEPT ![r] = "invalid"]
    /\ UNCHANGED slot

\* Only an occupied slot justifies "503 Model is busy".
Refuse(r) ==
    /\ status[r] = "new"
    /\ slot # {}
    /\ status' = [status EXCEPT ![r] = "busy"]
    /\ UNCHANGED slot

Admit(r) ==
    /\ status[r] = "new"
    /\ slot = {}
    /\ slot' = {r}
    /\ status' = [status EXCEPT ![r] = "admitted"]

Finish(r) ==
    /\ r \in slot
    /\ slot' = slot \ {r}
    /\ \E o \in Outcomes : status' = [status EXCEPT ![r] = o]

Next == \E r \in Requests : Invalid(r) \/ Refuse(r) \/ Admit(r) \/ Finish(r)

Spec ==
    /\ Init /\ [][Next]_vars
    /\ \A r \in Requests : WF_vars(Finish(r))
=============================================================================
