------------------------------ MODULE Routing ------------------------------
(***************************************************************************)
(* The buckets a node sorts its peers into, and its answers to the peers   *)
(* that ask it to fill theirs (src/src/node/connections.rs).               *)
(*                                                                         *)
(* The pool is the set known of the PeerIDs it holds; module Handshake     *)
(* shows how peers enter and leave it, and that we are never among them.   *)
(***************************************************************************)
EXTENDS PeerId, FiniteSets

CONSTANTS
    Selves,         \* the PeerIDs our node may have
    Others,         \* the PeerIDs that may connect to it (all of them, or a bound)
    MaxKnown,       \* bound: connections at a time
    MaxReturned     \* MAX_DISCOVERY_PEERS_RETURNED

ASSUME RoutingAssumption ==
    /\ Selves \subseteq PeerIDs
    /\ Others \subseteq PeerIDs
    /\ MaxKnown \in Nat
    /\ MaxReturned \in Nat

VARIABLES
    self,       \* our PeerID
    known,      \* the keys of the pool
    asked,      \* the last DiscoverPeers request: who asked, for which bucket of its own
    answer      \* the peers returned for it

vars == <<self, known, asked, answer>>

NoRequest == <<>>
Request(peer, b) == [peer |-> peer, bucket |-> b]

Init ==
    /\ self \in Selves
    /\ known = {}
    /\ asked = NoRequest
    /\ answer = {}
-----------------------------------------------------------------------------
(* Whenever the pool changes the last request is forgotten: it is only     *)
(* there to state what is returned.                                        *)
SetKnown(S) ==
    /\ known' = S
    /\ asked' = NoRequest
    /\ answer' = {}
    /\ UNCHANGED self

Connected(p) ==
    /\ p \notin known \cup {self}
    /\ Cardinality(known) < MaxKnown
    /\ SetKnown(known \cup {p})

Disconnected(p) ==
    /\ p \in known
    /\ SetKnown(known \ {p})

\* Mutant: one peer too many is returned.
LimitedLate(S) ==
    {T \in SUBSET S : \/ T = S /\ Cardinality(S) <= MaxReturned
                      \/ Cardinality(S) > MaxReturned /\ Cardinality(T) = MaxReturned + 1}

(* The peers that match are shuffled, and taken out one by one if there    *)
(* are too many: any subset of the right size may be returned.  The limit  *)
(* in the request is MAX_DISCOVERY_PEERS_RETURNED too.                     *)
Limited(S) ==
    {T \in SUBSET S : \/ T = S /\ Cardinality(S) <= MaxReturned
                      \/ Cardinality(S) > MaxReturned /\ Cardinality(T) = MaxReturned}

(* peer runs discover_peers_in_bucket() for bucket b of its own, with the  *)
(* target and the mask made there, and asks us.                            *)
OnDiscoverPeers(peer, b) ==
    LET target == GenerateInBucket(peer, b[1], b[2])
    IN  /\ peer \in known
        /\ asked' = Request(peer, b)
        /\ answer' \in Limited({p \in known : Matches(p, target, DiscoveryMask(b[1]))})
        /\ UNCHANGED <<self, known>>

Next ==
    \/ \E p \in Others : Connected(p) \/ Disconnected(p)
    \/ \E p \in known, b \in Buckets : OnDiscoverPeers(p, b)

Spec == Init /\ [][Next]_vars
-----------------------------------------------------------------------------
TypeOK ==
    /\ self \in PeerIDs
    /\ known \subseteq PeerIDs \ {self}
    /\ answer \subseteq PeerIDs
    /\ asked \in {NoRequest} \cup [peer : PeerIDs, bucket : Buckets]

(* The target and the mask that discover_peers_in_bucket() sends select    *)
(* exactly the bucket it wants to fill, for every bucket and every peer.   *)
MaskSelectsBucket ==
    \A p \in known, b \in Buckets :
        Matches(p, GenerateInBucket(self, b[1], b[2]), DiscoveryMask(b[1]))
            <=> Bucket(p, self) = b

(* "Generates `target` such as `self.bucket(target) = Some((bucket_level,  *)
(* bucket_id))`" (peers.rs:82), and a node and its peer agree on the       *)
(* bucket they are in for one another.                                     *)
GeneratedInBucket ==
    /\ \A b \in Buckets : Bucket(self, GenerateInBucket(self, b[1], b[2])) = b
    /\ \A p \in known : Bucket(p, self) = Bucket(self, p) /\ Bucket(p, self) \in Buckets

(* Buckets order peers by distance: a peer in a deeper bucket, or in one   *)
(* with a smaller id on the same level, is strictly closer to us.          *)
BucketsOrderDistance ==
    \A p, q \in known :
        LET b == Bucket(p, self)
            c == Bucket(q, self)
        IN  b[1] < c[1] \/ (b[1] = c[1] /\ c[2] < b[2])
                => Less(Distance(q, self), Distance(p, self))

(* No two peers are equally far from any third ID, and one of them is      *)
(* closer: sort_by_key(distance) leaves nothing to chance.                 *)
DistanceIsTotal ==
    \A p, q \in known : p # q =>
        \/ Less(Distance(p, self), Distance(q, self))
        \/ Less(Distance(q, self), Distance(p, self))

(* Whoever asks gets peers of the bucket it asked for and never itself,    *)
(* although nothing excludes the requester (TODO #23 of connections.rs);   *)
(* nor more peers than it takes (on_packet() drops longer answers).        *)
AnswersFit ==
    asked # NoRequest =>
        /\ \A p \in answer : p # asked.peer /\ Bucket(p, asked.peer) = asked.bucket
        /\ Cardinality(answer) <= MaxReturned
=============================================================================
