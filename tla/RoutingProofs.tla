--------------------------- MODULE RoutingProofs ---------------------------
(***************************************************************************)
(* The properties of Routing, for IDs of any length and every set of       *)
(* peers.  They follow from one characterisation of bucket(): BucketIs.    *)
(***************************************************************************)
EXTENDS Routing, WellFoundedInduction, TLAPS

(* ^ on pairs of bits has the algebra that generate_in_bucket() needs.     *)
LEMMA XorAlgebra ==
    ASSUME NEW a \in Digit, NEW b \in Digit
    PROVE  /\ Xor(a, b) \in Digit
           /\ Xor(a, b) = 0 <=> a = b
           /\ Xor(a, b) = Xor(b, a)
           /\ Xor(a, Xor(a, b)) = b
  <1>1. a \in {0, 1, 2, 3} /\ b \in {0, 1, 2, 3}
    BY DEF Digit
  <1> QED  BY <1>1 DEF Xor, Digit

(* Two IDs that differ have a first differing digit ...                    *)
LEMMA FirstDifference ==
    ASSUME NEW p \in PeerIDs, NEW q \in PeerIDs, p # q
    PROVE  \E l \in Level : DiffersFirst(p, q, l)
  <1> DEFINE D == {l \in Level : p[l] # q[l]}
  <1>1. D # {}
    BY DEF PeerIDs
  <1>2. D \subseteq Nat
    BY PeerIdAssumption DEF Level
  <1>3. PICK l \in D : \A k \in D : ~ (<<k, l>> \in OpToRel(<, Nat))
    BY <1>1, <1>2, NatLessThanWellFounded, WFMin
  <1>4. \A k \in D : ~ (k < l)
    BY <1>2, <1>3 DEF OpToRel
  <1> QED  BY <1>4 DEF DiffersFirst

(* ... and only one, so bucket() returns its place and the two bits.       *)
LEMMA BucketIs ==
    ASSUME NEW p \in PeerIDs, NEW q \in PeerIDs, NEW l \in Level, DiffersFirst(p, q, l)
    PROVE  Bucket(p, q) = <<l, Xor(p[l], q[l]) - 1>>
  <1>1. \A k \in Level : DiffersFirst(p, q, k) => k = l
    BY PeerIdAssumption DEF DiffersFirst, Level
  <1>2. (CHOOSE k \in Level : DiffersFirst(p, q, k)) = l
    BY <1>1
  <1> QED  BY <1>2 DEF Bucket

(* The mask covers the digits up to that of the bucket level: whole bytes  *)
(* and the rest of one are cut at the right place.                         *)
LEMMA MaskIsPrefix ==
    ASSUME NEW l \in Level
    PROVE  DiscoveryMask(l) = {k \in Level : k <= l}
  <1>1. ASSUME NEW k \in Level
        PROVE  (\/ k \div PerByte < l \div PerByte
                \/ /\ k \div PerByte = l \div PerByte
                   /\ k % PerByte <= l % PerByte) <=> k <= l
    <2> DEFINE kd == k \div PerByte
               ld == l \div PerByte
               km == k % PerByte
               lm == l % PerByte
    <2>1. k \in Nat /\ l \in Nat /\ PerByte \in Nat /\ PerByte > 0
      BY PeerIdAssumption DEF Level
    <2>2. kd \in Nat /\ ld \in Nat /\ km \in 0 .. PerByte - 1 /\ lm \in 0 .. PerByte - 1
      BY <2>1
    <2>3. k = PerByte * kd + km /\ l = PerByte * ld + lm
      BY <2>1
    <2> HIDE DEF kd, ld, km, lm
    <2>4. CASE kd < ld
      <3>1. PerByte * (kd + 1) <= PerByte * ld
        BY <2>1, <2>2, <2>4
      <3>2. PerByte * (kd + 1) = PerByte * kd + PerByte
        BY <2>1, <2>2
      <3>3. PerByte * kd \in Nat /\ PerByte * ld \in Nat
        BY <2>1, <2>2
      <3>4. k <= l
        BY <2>1, <2>2, <2>3, <3>1, <3>2, <3>3
      <3> QED  BY <2>4, <3>4 DEF kd, ld
    <2>5. CASE ld < kd
      <3>1. PerByte * (ld + 1) <= PerByte * kd
        BY <2>1, <2>2, <2>5
      <3>2. PerByte * (ld + 1) = PerByte * ld + PerByte
        BY <2>1, <2>2
      <3>3. PerByte * kd \in Nat /\ PerByte * ld \in Nat
        BY <2>1, <2>2
      <3>4. ~ (k <= l)
        BY <2>1, <2>2, <2>3, <3>1, <3>2, <3>3
      <3>5. ~ (kd < ld) /\ kd # ld
        BY <2>2, <2>5
      <3> QED  BY <3>4, <3>5 DEF kd, ld
    <2>6. CASE kd = ld
      <3>1. PerByte * kd = PerByte * ld /\ PerByte * kd \in Nat
        BY <2>1, <2>2, <2>6
      <3>2. km <= lm <=> k <= l
        BY <2>1, <2>2, <2>3, <3>1
      <3>3. ~ (kd < ld)
        BY <2>2, <2>6
      <3> QED  BY <2>6, <3>2, <3>3 DEF kd, ld, km, lm
    <2> QED  BY <2>2, <2>4, <2>5, <2>6
  <1> QED  BY <1>1 DEF DiscoveryMask

(* The target digit by digit: ours, except at the bucket level.            *)
LEMMA TargetIs ==
    ASSUME NEW p \in PeerIDs, NEW b \in Buckets
    PROVE  LET t == GenerateInBucket(p, b[1], b[2])
           IN  /\ t \in PeerIDs
               /\ t[b[1]] = Xor(p[b[1]], b[2] + 1)
               /\ t[b[1]] # p[b[1]]
               /\ \A k \in Level : k # b[1] => t[k] = p[k]
  <1> DEFINE l == b[1]
             i == b[2] + 1
  <1>1. l \in Level /\ i \in Digit \ {0} /\ p[l] \in Digit
    BY DEF Buckets, Digit, PeerIDs
  <1>2. Xor(p[l], i) \in Digit /\ Xor(p[l], Xor(p[l], i)) = i /\ Xor(p[l], p[l]) = 0
    BY <1>1, XorAlgebra
  <1>3. Xor(p[l], i) # p[l]
    BY <1>1, <1>2
  <1> HIDE DEF i
  <1>4. GenerateInBucket(p, b[1], b[2]) = [p EXCEPT ![l] = Xor(@, i)]
    BY DEF GenerateInBucket, i
  <1>5. /\ [p EXCEPT ![l] = Xor(@, i)] \in PeerIDs
        /\ [p EXCEPT ![l] = Xor(@, i)][l] = Xor(p[l], i)
        /\ \A k \in Level : k # l => [p EXCEPT ![l] = Xor(@, i)][k] = p[k]
    BY <1>1, <1>2 DEF PeerIDs
  <1> QED  BY <1>3, <1>4, <1>5 DEF i

(* The heart of discovery: an ID matches the target of bucket b under its  *)
(* mask exactly if it lies in bucket b.                                    *)
LEMMA MatchIsBucket ==
    ASSUME NEW p \in PeerIDs, NEW q \in PeerIDs, NEW b \in Buckets
    PROVE  Matches(p, GenerateInBucket(q, b[1], b[2]), DiscoveryMask(b[1]))
               <=> Bucket(p, q) = b
  <1> DEFINE t == GenerateInBucket(q, b[1], b[2])
             l == b[1]
  <1>1. l \in Level /\ b[2] \in 0 .. 2 /\ b = <<l, b[2]>>
    BY DEF Buckets
  <1>2. t[l] = Xor(q[l], b[2] + 1) /\ t[l] # q[l] /\ \A k \in Level : k # l => t[k] = q[k]
    BY TargetIs
  <1> HIDE DEF t
  <1>3. p[l] \in Digit /\ q[l] \in Digit /\ b[2] + 1 \in Digit
    BY <1>1 DEF PeerIDs, Digit
  <1>4. Matches(p, t, DiscoveryMask(l)) <=> \A k \in Level : k <= l => p[k] = t[k]
    BY <1>1, MaskIsPrefix DEF Matches
  <1>5. ASSUME \A k \in Level : k <= l => p[k] = t[k]
        PROVE  Bucket(p, q) = b
    <2>1. p[l] = t[l]
      BY <1>1, <1>5, PeerIdAssumption DEF Level
    <2>2. \A k \in Level : k < l => p[k] = q[k]
      BY <1>1, <1>2, <1>5, PeerIdAssumption DEF Level
    <2>3. DiffersFirst(p, q, l)
      BY <1>2, <2>1, <2>2 DEF DiffersFirst
    <2>4. Bucket(p, q) = <<l, Xor(p[l], q[l]) - 1>>
      BY <1>1, <2>3, BucketIs
    <2>5. Xor(p[l], q[l]) = Xor(q[l], p[l])
      BY <1>3, XorAlgebra
    <2>6. Xor(q[l], Xor(q[l], b[2] + 1)) = b[2] + 1
      BY <1>3, XorAlgebra
    <2>7. Xor(p[l], q[l]) - 1 = b[2]
      BY <1>1, <1>2, <2>1, <2>5, <2>6
    <2> QED  BY <1>1, <2>4, <2>7
  <1>6. ASSUME Bucket(p, q) = b
        PROVE  \A k \in Level : k <= l => p[k] = t[k]
    <2>1. b # NoBucket
      BY <1>1, SMTT(30) DEF NoBucket
    <2>2. PICK m \in Level : DiffersFirst(p, q, m)
      BY <1>6, <2>1 DEF Bucket
    <2>3. Bucket(p, q) = <<m, Xor(p[m], q[m]) - 1>>
      BY <2>2, BucketIs
    <2>4. m = l /\ Xor(p[l], q[l]) - 1 = b[2]
      BY <1>1, <1>6, <2>3
    <2>5. Xor(p[l], q[l]) \in Digit /\ Xor(p[l], q[l]) = Xor(q[l], p[l])
             /\ Xor(q[l], Xor(q[l], p[l])) = p[l]
      BY <1>3, XorAlgebra
    <2>6. Xor(q[l], p[l]) = b[2] + 1
      BY <1>1, <2>4, <2>5 DEF Digit
    <2>7. p[l] = t[l]
      BY <1>2, <2>5, <2>6
    <2>8. \A k \in Level : k < l => p[k] = q[k]
      BY <2>2, <2>4 DEF DiffersFirst
    <2> QED  BY <1>1, <1>2, <2>7, <2>8, PeerIdAssumption DEF Level
  <1> QED  BY <1>4, <1>5, <1>6 DEF t

(* Two different IDs are in a bucket of one another, and it is the same.   *)
LEMMA BucketSymmetric ==
    ASSUME NEW p \in PeerIDs, NEW q \in PeerIDs, p # q
    PROVE  Bucket(p, q) = Bucket(q, p) /\ Bucket(p, q) \in Buckets
  <1>1. PICK l \in Level : DiffersFirst(p, q, l)
    BY FirstDifference
  <1>2. DiffersFirst(q, p, l) /\ p[l] # q[l]
    BY <1>1 DEF DiffersFirst
  <1>3. p[l] \in Digit /\ q[l] \in Digit
    BY DEF PeerIDs
  <1>4. Xor(p[l], q[l]) = Xor(q[l], p[l]) /\ Xor(p[l], q[l]) \in Digit \ {0}
    BY <1>2, <1>3, XorAlgebra
  <1>5. Xor(p[l], q[l]) - 1 \in 0 .. 2
    BY <1>4 DEF Digit
  <1> QED  BY <1>1, <1>2, <1>4, <1>5, BucketIs DEF Buckets

(* The digits of the distance between two IDs.                             *)
LEMMA DistanceDigits ==
    ASSUME NEW p \in PeerIDs, NEW q \in PeerIDs, NEW l \in Level
    PROVE  /\ Distance(p, q)[l] = Xor(p[l], q[l])
           /\ Distance(p, q)[l] \in Digit
           /\ Distance(p, q)[l] = 0 <=> p[l] = q[l]
  <1>1. p[l] \in Digit /\ q[l] \in Digit
    BY DEF PeerIDs
  <1> QED  BY <1>1, XorAlgebra DEF Distance
-----------------------------------------------------------------------------
(* TypeOK is inductive: in particular we are never among our own peers,    *)
(* which the bucket of every peer depends on.                              *)
THEOREM TypeCorrect == Spec => []TypeOK
  <1>1. Init => TypeOK
    BY RoutingAssumption DEF Init, TypeOK
  <1>2. TypeOK /\ [Next]_vars => TypeOK'
    <2> SUFFICES ASSUME TypeOK, [Next]_vars PROVE TypeOK'
      OBVIOUS
    <2> USE RoutingAssumption DEF TypeOK
    <2>1. ASSUME NEW p \in Others, Connected(p) PROVE TypeOK'
      BY <2>1 DEF Connected, SetKnown
    <2>2. ASSUME NEW p \in Others, Disconnected(p) PROVE TypeOK'
      BY <2>2 DEF Disconnected, SetKnown
    <2>3. ASSUME NEW p \in known, NEW b \in Buckets, OnDiscoverPeers(p, b) PROVE TypeOK'
      <3>1. asked' \in [peer : PeerIDs, bucket : Buckets]
        BY <2>3 DEF OnDiscoverPeers, Request
      <3>2. answer' \subseteq known
        BY <2>3 DEF OnDiscoverPeers, Limited
      <3> QED  BY <2>3, <3>1, <3>2 DEF OnDiscoverPeers
    <2>4. CASE UNCHANGED vars
      BY <2>4 DEF vars
    <2> QED  BY <2>1, <2>2, <2>3, <2>4 DEF Next
  <1> QED  BY <1>1, <1>2, PTL DEF Spec

(* Whatever peers a node has, the request that discover_peers_in_bucket()  *)
(* makes for a bucket is matched by the peers in it and by no others.      *)
THEOREM MaskIsExact == Spec => []MaskSelectsBucket
  <1>1. TypeOK => MaskSelectsBucket
    BY MatchIsBucket DEF TypeOK, MaskSelectsBucket
  <1> QED  BY <1>1, TypeCorrect, PTL

(* What the comment on generate_in_bucket() says of it holds for every ID, *)
(* level and bucket id; and bucket() is symmetric.                         *)
THEOREM GenerationIsRight == Spec => []GeneratedInBucket
  <1>1. TypeOK => GeneratedInBucket
    <2> SUFFICES ASSUME TypeOK PROVE GeneratedInBucket
      OBVIOUS
    <2>1. ASSUME NEW b \in Buckets
          PROVE  Bucket(self, GenerateInBucket(self, b[1], b[2])) = b
      <3> DEFINE t == GenerateInBucket(self, b[1], b[2])
      <3>1. self \in PeerIDs
        BY DEF TypeOK
      <3>2. t \in PeerIDs /\ t # self
        BY <3>1, TargetIs
      <3>3. Matches(t, GenerateInBucket(self, b[1], b[2]), DiscoveryMask(b[1]))
        BY DEF Matches
      <3>4. Bucket(t, self) = b
        BY <3>1, <3>2, <3>3, MatchIsBucket
      <3> QED  BY <3>1, <3>2, <3>4, BucketSymmetric
    <2>2. ASSUME NEW p \in known
          PROVE  Bucket(p, self) = Bucket(self, p) /\ Bucket(p, self) \in Buckets
      BY <2>2, BucketSymmetric DEF TypeOK
    <2> QED  BY <2>1, <2>2 DEF GeneratedInBucket
  <1> QED  BY <1>1, TypeCorrect, PTL

(* Sorting peers by bucket sorts them by XOR distance, for IDs of any      *)
(* length: deeper buckets, and smaller ids on one level, are closer.       *)
THEOREM BucketsAreOrdered == Spec => []BucketsOrderDistance
  <1>1. TypeOK => BucketsOrderDistance
    <2> SUFFICES ASSUME TypeOK, NEW p \in known, NEW q \in known,
                        \/ Bucket(p, self)[1] < Bucket(q, self)[1]
                        \/ /\ Bucket(p, self)[1] = Bucket(q, self)[1]
                           /\ Bucket(q, self)[2] < Bucket(p, self)[2]
                 PROVE  Less(Distance(q, self), Distance(p, self))
      BY DEF BucketsOrderDistance
    <2>1. p \in PeerIDs /\ q \in PeerIDs /\ self \in PeerIDs /\ p # self /\ q # self
      BY DEF TypeOK
    <2>2. PICK l \in Level : DiffersFirst(p, self, l)
      BY <2>1, FirstDifference
    <2>3. PICK m \in Level : DiffersFirst(q, self, m)
      BY <2>1, FirstDifference
    <2>4. /\ Bucket(p, self) = <<l, Xor(p[l], self[l]) - 1>>
          /\ Bucket(q, self) = <<m, Xor(q[m], self[m]) - 1>>
      BY <2>1, <2>2, <2>3, BucketIs
    <2>5. \A k \in Level : k < l => Distance(p, self)[k] = 0
      BY <2>1, <2>2, DistanceDigits DEF DiffersFirst
    <2>6. \A k \in Level : k < m => Distance(q, self)[k] = 0
      BY <2>1, <2>3, DistanceDigits DEF DiffersFirst
    <2>7. CASE l < m
      <3>1. Distance(q, self)[l] = 0
        BY <2>6, <2>7
      <3>2. Distance(p, self)[l] \in Digit /\ Distance(p, self)[l] # 0
        BY <2>1, <2>2, DistanceDigits DEF DiffersFirst
      <3>3. \A k \in Level : k < l => k < m
        BY <2>7, PeerIdAssumption DEF Level
      <3> QED  BY <2>5, <2>6, <3>1, <3>2, <3>3 DEF Less, Digit
    <2>8. CASE l = m /\ Xor(q[m], self[m]) - 1 < Xor(p[l], self[l]) - 1
      <3>1. /\ Distance(p, self)[l] = Xor(p[l], self[l]) /\ Distance(p, self)[l] \in Digit
            /\ Distance(q, self)[l] = Xor(q[l], self[l]) /\ Distance(q, self)[l] \in Digit
        BY <2>1, DistanceDigits
      <3>2. Distance(q, self)[l] < Distance(p, self)[l]
        BY <2>8, <3>1 DEF Digit
      <3> QED  BY <2>5, <2>6, <2>8, <3>2 DEF Less
    <2> QED  BY <2>4, <2>7, <2>8
  <1> QED  BY <1>1, TypeCorrect, PTL

(* The distances that two peers have to us are never equal, and compare    *)
(* one way or the other.                                                   *)
THEOREM DistancesCompare == Spec => []DistanceIsTotal
  <1>1. TypeOK => DistanceIsTotal
    <2> SUFFICES ASSUME TypeOK, NEW p \in known, NEW q \in known, p # q
                 PROVE  \/ Less(Distance(p, self), Distance(q, self))
                        \/ Less(Distance(q, self), Distance(p, self))
      BY DEF DistanceIsTotal
    <2>1. p \in PeerIDs /\ q \in PeerIDs /\ self \in PeerIDs
      BY DEF TypeOK
    <2>2. PICK l \in Level : DiffersFirst(p, q, l)
      BY <2>1, FirstDifference
    <2>3. /\ Distance(p, self)[l] = Xor(p[l], self[l]) /\ Distance(p, self)[l] \in Digit
          /\ Distance(q, self)[l] = Xor(q[l], self[l]) /\ Distance(q, self)[l] \in Digit
      BY <2>1, DistanceDigits
    <2>4. \A k \in Level : k < l => Distance(p, self)[k] = Distance(q, self)[k]
      BY <2>1, <2>2, DistanceDigits DEF DiffersFirst
    <2>5. Distance(p, self)[l] # Distance(q, self)[l]
      <3>1. p[l] \in Digit /\ q[l] \in Digit /\ self[l] \in Digit /\ p[l] # q[l]
        BY <2>1, <2>2 DEF PeerIDs, DiffersFirst
      <3>2. /\ Xor(self[l], p[l]) = Xor(p[l], self[l]) /\ Xor(self[l], Xor(self[l], p[l])) = p[l]
            /\ Xor(self[l], q[l]) = Xor(q[l], self[l]) /\ Xor(self[l], Xor(self[l], q[l])) = q[l]
        BY <3>1, XorAlgebra
      <3> QED  BY <2>3, <3>1, <3>2
    <2>6. \/ Distance(p, self)[l] < Distance(q, self)[l]
          \/ Distance(q, self)[l] < Distance(p, self)[l]
      BY <2>3, <2>5 DEF Digit
    <2> QED  BY <2>4, <2>6 DEF Less
  <1> QED  BY <1>1, TypeCorrect, PTL

(* An answer to DiscoverPeers always fits the bucket asked for: neither    *)
(* the requester nor a peer of another bucket is ever returned.            *)
THEOREM AnswersAreRight == Spec => []AnswersFit
  <1>1. Init => AnswersFit
    BY DEF Init, AnswersFit
  <1>2. TypeOK /\ AnswersFit /\ [Next]_vars => AnswersFit'
    <2> SUFFICES ASSUME TypeOK, AnswersFit, [Next]_vars PROVE AnswersFit'
      OBVIOUS
    <2>1. ASSUME NEW S, SetKnown(S) PROVE AnswersFit'
      BY <2>1 DEF SetKnown, AnswersFit
    <2>2. ASSUME NEW p \in known, NEW b \in Buckets, OnDiscoverPeers(p, b) PROVE AnswersFit'
      <3>1. asked' = [peer |-> p, bucket |-> b]
        BY <2>2 DEF OnDiscoverPeers, Request
      <3>2. ASSUME NEW q \in answer' PROVE q # p /\ Bucket(q, p) = b
        <4>1. q \in known /\ Matches(q, GenerateInBucket(p, b[1], b[2]), DiscoveryMask(b[1]))
          BY <2>2, <3>2 DEF OnDiscoverPeers, Limited
        <4>2. q \in PeerIDs /\ p \in PeerIDs
          BY <4>1 DEF TypeOK
        <4>3. Bucket(q, p) = b
          BY <4>1, <4>2, MatchIsBucket
        <4>4. b # NoBucket
          BY DEF Buckets, NoBucket
        <4>5. Bucket(p, p) = NoBucket
          BY DEF Bucket, DiffersFirst
        <4> QED  BY <4>3, <4>4, <4>5
      <3>3. Cardinality(answer') <= MaxReturned
        BY <2>2, RoutingAssumption DEF OnDiscoverPeers, Limited
      <3> QED  BY <3>1, <3>2, <3>3 DEF AnswersFit
    <2>3. CASE UNCHANGED vars
      BY <2>3 DEF vars, AnswersFit
    <2> QED  BY <2>1, <2>2, <2>3 DEF Next, Connected, Disconnected
  <1> QED  BY <1>1, <1>2, TypeCorrect, PTL DEF Spec
=============================================================================
