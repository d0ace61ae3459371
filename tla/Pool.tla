-------------------------------- MODULE Pool --------------------------------
(***************************************************************************)
(* What the rest of a node relies on the pool for: at most one connection  *)
(* per peer, which stays until it is disconnected; and a connection that   *)
(* was disconnected is never used again, nor any connection by two.        *)
(***************************************************************************)
CONSTANTS
    Nodes,      \* the nodes
    Ends,       \* the ends of connections
    NoEnd       \* not an end

VARIABLES
    pool,       \* pool[n][p]: the end with which n talks to p, or NoEnd
    spent       \* the ends that were disconnected

vars == <<pool, spent>>

Init ==
    /\ pool = [n \in Nodes |-> [p \in Nodes |-> NoEnd]]
    /\ spent = {}

Used(e) == \E n, p \in Nodes : pool[n][p] = e

Open(n, p, e) ==
    /\ n # p
    /\ pool[n][p] = NoEnd
    /\ ~ Used(e) /\ e \notin spent
    /\ pool' = [pool EXCEPT ![n][p] = e]
    /\ UNCHANGED spent

Close(n, p) ==
    /\ pool[n][p] # NoEnd
    /\ pool' = [pool EXCEPT ![n][p] = NoEnd]
    /\ spent' = spent \cup {pool[n][p]}

Next == \E n, p \in Nodes : Close(n, p) \/ \E e \in Ends : Open(n, p, e)

Spec == Init /\ [][Next]_vars
=============================================================================
