---------------------------- MODULE MCHandshake ----------------------------
(* Handshake and ConnectionPool, instantiated for TLC.                     *)
EXTENDS Handshake, TLC

CONSTANTS s1, s2, none

(* Streams are interchangeable.                                            *)
StreamSymmetry == Permutations({s1, s2})

(* All nodes run the same build.                                           *)
SameVersion == [n \in Nodes |-> 1]

(* Bound: a lookup, which may drop its handshake in silence and leave a    *)
(* half-open connection behind, is the only one to dial.                   *)
LookupsAlone ==
    \A e, f \in Ends : task[e] = "lookup" /\ task[f] # "none" => e = f \/ e = Other(f)

LookupsAloneSpec == Init /\ [][Next /\ LookupsAlone']_vars /\ Fairness
=============================================================================
