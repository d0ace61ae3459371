------------------------------ MODULE PeerId ------------------------------
(***************************************************************************)
(* PeerIDs, their distance and the buckets they fall into                  *)
(* (src/src/peers.rs, and the mask of src/src/node/discovery.rs).          *)
(*                                                                         *)
(* The code looks at an ID two bits at a time: a bucket level is the place *)
(* of a pair of bits.  An ID is therefore a sequence of base-4 digits here *)
(* (Levels of them, 128 in the code) and a byte is PerByte consecutive     *)
(* digits (4 in the code).  Bytes compare like the digits they are made of.*)
(***************************************************************************)
EXTENDS Integers

CONSTANTS Levels, PerByte

ASSUME PeerIdAssumption == Levels \in Nat /\ PerByte \in Nat \ {0}

Level == 0 .. Levels - 1
Digit == 0 .. 3
PeerIDs == [Level -> Digit]

(* ^ on two digits.                                                        *)
Xor(a, b) == 2 * (((a \div 2) + (b \div 2)) % 2) + ((a + b) % 2)

(* distance()                                                              *)
Distance(p, q) == [l \in Level |-> Xor(p[l], q[l])]

(* d is less than e: the arrays are compared from their first byte on.     *)
Less(d, e) == \E l \in Level : d[l] < e[l] /\ \A k \in Level : k < l => d[k] = e[k]

(* matches(): mask is the set of the digits it covers.                     *)
Matches(p, q, mask) == \A l \in mask : p[l] = q[l]
-----------------------------------------------------------------------------
Buckets == Level \X (0 .. 2)
NoBucket == <<>>

(* The bucket level of q seen from p: their first differing digit.         *)
DiffersFirst(p, q, l) == p[l] # q[l] /\ \A k \in Level : k < l => p[k] = q[k]

\* Mutant: the id is the digit of one peer, not the distance of the two.
BucketByDigit(p, q) ==
    IF \E l \in Level : DiffersFirst(p, q, l)
    THEN LET l == CHOOSE k \in Level : DiffersFirst(p, q, k) IN <<l, p[l] - 1>>
    ELSE NoBucket

(* bucket()                                                                *)
Bucket(p, q) ==
    IF \E l \in Level : DiffersFirst(p, q, l)
    THEN LET l == CHOOSE k \in Level : DiffersFirst(p, q, k)
         IN  <<l, Xor(p[l], q[l]) - 1>>
    ELSE NoBucket

\* Mutant: the id is xored without the offset of one.
GenerateOffByOne(p, l, i) == [p EXCEPT ![l] = Xor(@, i)]

(* generate_in_bucket()                                                    *)
GenerateInBucket(p, l, i) == [p EXCEPT ![l] = Xor(@, i + 1)]

\* Mutant: the last byte of the mask is always full.
MaskWholeByte(l) == {k \in Level : k \div PerByte <= l \div PerByte}

(* The mask discover_peers_in_bucket() sends for bucket level l: full      *)
(* bytes, then a byte cut after the digit of level l.                      *)
DiscoveryMask(l) ==
    {k \in Level : \/ k \div PerByte < l \div PerByte
                   \/ /\ k \div PerByte = l \div PerByte
                      /\ k % PerByte <= l % PerByte}
=============================================================================
