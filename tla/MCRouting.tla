----------------------------- MODULE MCRouting -----------------------------
(* Three bucket levels, of which two share a byte.  Our own digits are 3,  *)
(* 1 and 2.                                                                *)
EXTENDS Routing, PeerBytes

MCSelves == {[l \in Level |-> IF l = 0 THEN 3 ELSE l]}
MCOthers == {p \in PeerIDs : p[Levels - 1] \in {0, 2}}

(* For every peer, wherever in a byte the pair of bits is by which it      *)
(* differs from us, the arms of bucket() return the id that PeerId gives   *)
(* it; none goes on with the next match or reaches unreachable!().         *)
ArmsAgree ==
    \A p \in known, k \in Pair :
        LET b == Bucket(self, p)
        IN  ArmsTaken[Distance(self, p)[b[1]], k] = {{b[2]}}

(* Whichever of the arms of generate_in_bucket() made the target, and      *)
(* wherever in a byte the mask of discover_peers_in_bucket() ends, a peer  *)
(* is selected if and only if it is in PeerId.                             *)
RequestsAgree ==
    \A p \in known, l \in Level, i \in Id, k \in Pair :
        Selected[self[l], p[l], k, i] = {Matches(p, GenerateInBucket(self, l, i), {l})}
=============================================================================
