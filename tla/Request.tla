------------------------------ MODULE Request ------------------------------
(***************************************************************************)
(* What the tasks that ask a peer something rely on: whoever asks gets the *)
(* answer to its own request, once, or gives up if there is a timer.       *)
(***************************************************************************)
CONSTANT Requests   \* the requests that may be made

VARIABLES
    patient,    \* TRUE if nobody who asks gives up
    outcome     \* outcome[r]: "none", "asked", "given up" or the request answered

vars == <<patient, outcome>>

Init ==
    /\ patient \in BOOLEAN
    /\ outcome = [r \in Requests |-> "none"]

Becomes(r, from, to) ==
    /\ outcome[r] = from
    /\ outcome' = [outcome EXCEPT ![r] = to]
    /\ UNCHANGED patient

Ask(r) == Becomes(r, "none", "asked")
Answer(r) == Becomes(r, "asked", r)
GiveUp(r) == ~ patient /\ Becomes(r, "asked", "given up")

Next == \E r \in Requests : Ask(r) \/ Answer(r) \/ GiveUp(r)

Spec == Init /\ [][Next]_vars

(* Nobody waits for ever.                                                  *)
FairSpec == Spec /\ \A r \in Requests : WF_vars(Answer(r) \/ GiveUp(r))
=============================================================================
