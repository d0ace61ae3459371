----------------------------- MODULE PeerBytes -----------------------------
(***************************************************************************)
(* The arms of bucket() and generate_in_bucket() (src/src/peers.rs) and of *)
(* the mask of discover_peers_in_bucket() (discovery.rs), with the bytes   *)
(* the code writes out, for one byte of a PeerID.  PeerId has one          *)
(* expression for all arms; MCRouting compares the arms with it.           *)
(***************************************************************************)
EXTENDS Integers
LOCAL INSTANCE Bitwise

Byte == 0 .. 255
Pair == 0 .. 3          \* bucket_level % 4: the pair of bits, from the highest
Id == 0 .. 2            \* bucket_id

(* The masks of the four matches of bucket(), and their arms.              *)
PairMask == [k \in Pair |-> CASE k = 0 -> 192 [] k = 1 -> 48 [] k = 2 -> 12 [] k = 3 -> 3]

\* Mutant: two arms of the last match are swapped.
ArmsSwapped ==
    [k \in Pair |-> CASE k = 0 -> <<64, 128, 192>> [] k = 1 -> <<16, 32, 48>>
                      [] k = 2 -> <<4, 8, 12>>     [] k = 3 -> <<2, 1, 3>>]

Arms ==
    [k \in Pair |-> CASE k = 0 -> <<64, 128, 192>> [] k = 1 -> <<16, 32, 48>>
                      [] k = 2 -> <<4, 8, 12>>     [] k = 3 -> <<1, 2, 3>>]

(* Match k of bucket(), at distance d, returns <<level % 4, id>>.          *)
Returns(d, k, i) ==
    /\ d & PairMask[k] = Arms[k][i + 1]
    /\ \A j \in Pair : j < k => d & PairMask[j] = 0

-----------------------------------------------------------------------------
\* Mutant: an arm flips one bit too few.
FlipsOneBit ==
    [k \in Pair |-> CASE k = 0 -> <<64, 128, 192>> [] k = 1 -> <<16, 32, 48>>
                      [] k = 2 -> <<4, 8, 8>>      [] k = 3 -> <<1, 2, 3>>]

(* What the arms of generate_in_bucket() flip.                             *)
Flips ==
    [k \in Pair |-> CASE k = 0 -> <<64, 128, 192>> [] k = 1 -> <<16, 32, 48>>
                      [] k = 2 -> <<4, 8, 12>>     [] k = 3 -> <<1, 2, 3>>]

(* The last byte of the mask of a request.                                 *)
LastMask == [k \in Pair |-> CASE k = 0 -> 192 [] k = 1 -> 240 [] k = 2 -> 252 [] k = 3 -> 255]

GeneratedByte(b, k, i) == b ^^ Flips[k][i + 1]
MatchesByte(b, target, mask) == b & mask = target & mask
-----------------------------------------------------------------------------
(* A pair of bits at place k of a byte, with the bits below it.  Those     *)
(* above are equal in both IDs, or the pair would not be looked at.        *)
Below(k) == 0 .. 4 ^ (3 - k) - 1
Placed(pair, k, below) == pair * 4 ^ (3 - k) + below

(* What bucket() returns for two bytes whose distance has `pair` at k and  *)
(* anything below: sets with one member, if the arms are right.            *)
ArmsTaken ==
    [pair \in Pair, k \in Pair |->
        {{i \in Id : Returns(Placed(pair, k, b), k, i)} : b \in Below(k)}]

(* Whether a peer with `theirs` at k is selected by the request of an ID   *)
(* with `mine` there for id i of that level, whatever is below in both.    *)
Selected ==
    [mine \in Pair, theirs \in Pair, k \in Pair, i \in Id |->
        {MatchesByte(Placed(theirs, k, b), GeneratedByte(Placed(mine, k, a), k, i), LastMask[k])
            : a \in Below(k), b \in Below(k)}]
=============================================================================
