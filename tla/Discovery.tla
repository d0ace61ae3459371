----------------------------- MODULE Discovery -----------------------------
(***************************************************************************)
(* refresh_buckets() of src/src/node/connections.rs and the tasks it       *)
(* spawns, discover_peers_in_bucket() of discovery.rs.  A refresh looks at *)
(* one bucket after the other, and the pool changes meanwhile; a task asks *)
(* the peers we are connected to for peers of its bucket and dials those,  *)
(* until the bucket is full or nobody is left to ask.                      *)
(*                                                                         *)
(* That a request selects exactly the peers of a bucket is shown by        *)
(* Routing.  `candidates` is shuffled by the peer that sends it: a set     *)
(* here, like `providers`, whose order is that of a map.                   *)
(***************************************************************************)
EXTENDS Integers, FiniteSets, FiniteSetsExt

CONSTANTS
    Peers,          \* the other nodes
    BucketOf,       \* BucketOf[p]: the bucket of peer p; PerLevel * level + id
    PerLevel,       \* how many buckets a level has, 3
    LastBucket,     \* the last bucket, 3 * 127 + 2
    Size,           \* KADEMLIA_BUCKET_SIZE
    MaxReturned,    \* MAX_DISCOVERY_PEERS_RETURNED
    Wrap,           \* 2^64, at which a usize wraps around
    Unreachable,    \* peers whose address nobody listens at
    Failing,        \* peers with whom a handshake may fail
    Refreshes,      \* the calls of refresh_buckets()
    Moving,         \* peers that connect to us and quit by themselves
    MaxMoves        \* bound: they do so that many times

Buckets == 0 .. LastBucket
Level(b) == b \div PerLevel

ASSUME DiscoveryAssumption ==
    /\ IsFiniteSet(Peers) /\ BucketOf \in [Peers -> Buckets]
    /\ LastBucket \in Nat /\ PerLevel \in Nat \ {0}
    /\ {Size, MaxReturned} \subseteq Nat \ {0}
    /\ Wrap \in Nat /\ Wrap > Size + Cardinality(Peers) /\ Wrap > 2 * Cardinality(Peers)
    /\ {Unreachable, Failing, Moving} \subseteq SUBSET Peers
    /\ MaxMoves \in Nat

Tasks == Refreshes \X Buckets       \* the tasks that may be spawned

VARIABLES
    knows,          \* knows[p]: the pool of peer p, without us
    pool,           \* our own pool
    before,         \* history: the pool at the beginning
    moves,          \* history: how often a peer has connected or quit by itself
    strangers,      \* history, strangers[t]: how many peers others have connected to the bucket
                    \* of task t since it, or its refresh, looked at the bucket
    pos,            \* pos[k]: the bucket that refresh k looks at next; -1 before, LastBucket + 1 after
    at,             \* at[t]: where task t is
    providers, candidates, old, missing,    \* of each task; `old_candidates`, `missing_peers`
    other,          \* other[t]: the peer that t dials or asks, as a set; {} if none
    wire            \* the tasks whose request or its answer is on a connection

locals == <<providers, candidates, old, missing, other>>
vars == <<knows, pool, before, moves, strangers, pos, at, providers, candidates, old, missing, other, wire>>

Init ==
    /\ \E edges \in SUBSET kSubset(2, Peers) :
         knows = [p \in Peers |-> {q \in Peers \ {p} : {p, q} \in edges}]
    /\ pool \in SUBSET Peers
    /\ before = pool
    /\ moves = 0
    /\ strangers = [t \in Tasks |-> 0]
    /\ pos = [k \in Refreshes |-> -1]
    /\ at = [t \in Tasks |-> "none"]
    /\ providers = [t \in Tasks |-> {}]
    /\ candidates = [t \in Tasks |-> {}]
    /\ old = [t \in Tasks |-> {}]
    /\ missing = [t \in Tasks |-> 0]
    /\ other = [t \in Tasks |-> {}]
    /\ wire = {}

Goto(t, there) == at' = [at EXCEPT ![t] = there]
Resume(t, there) == Goto(t, there) /\ other' = [other EXCEPT ![t] = {}]
Put(var, t, value) == [var EXCEPT ![t] = value]

Ended(t) == at[t] \in {"done", "failed", "panicked"}

(* The peers in S connect to us, and not through a task in T.              *)
Met(S, T) ==
    strangers' = [t \in Tasks |->
        IF t \notin T /\ at[t] # "none" /\ ~ Ended(t) /\ (\E c \in S : BucketOf[c] = t[2])
        THEN strangers[t] + 1 ELSE strangers[t]]
-----------------------------------------------------------------------------
PeersOnBucket(b) == {p \in pool : BucketOf[p] = b}

\* Mutant: only the level itself.
PeersOnLevel(b) == {p \in pool : Level(BucketOf[p]) = Level(b)}

PeersOnBucketAndUnder(b) == {p \in pool : Level(BucketOf[p]) <= Level(b)}

Refresh(k) ==
    /\ pos[k] = -1
    /\ pos' = [pos EXCEPT ![k] = 0]
    /\ UNCHANGED <<knows, pool, before, moves, strangers, at, locals, wire>>

\* Mutant: the scan ends before the task is spawned.
LookAtBreaksFirst(k) ==
    /\ pos[k] \in Buckets
    /\ LET b == pos[k]
           n == Cardinality(PeersOnBucket(b))
       IN /\ at' = IF 0 < n /\ n < Size THEN [at EXCEPT ![<<k, b>>] = "start"] ELSE at
          /\ pos' = [pos EXCEPT ![k] = IF n = 0 THEN LastBucket + 1 ELSE b + 1]
    /\ UNCHANGED <<knows, pool, before, moves, strangers, locals, wire>>

\* Mutant: a bucket that is full is missing peers.
LookAtFull(k) ==
    /\ pos[k] \in Buckets
    /\ LET b == pos[k]
           n == Cardinality(PeersOnBucket(b))
       IN /\ at' = IF n <= Size THEN [at EXCEPT ![<<k, b>>] = "start"] ELSE at
          /\ pos' = [pos EXCEPT ![k] = IF n = 0 THEN LastBucket + 1 ELSE b + 1]
    /\ UNCHANGED <<knows, pool, before, moves, strangers, locals, wire>>

(* One bucket of the loop: a task is spawned if the bucket is missing      *)
(* peers, and the loop ends at the first bucket that is empty.             *)
LookAt(k) ==
    /\ pos[k] \in Buckets
    /\ LET b == pos[k]
           n == Cardinality(PeersOnBucket(b))
       IN /\ at' = IF n < Size THEN [at EXCEPT ![<<k, b>>] = "start"] ELSE at
          /\ pos' = [pos EXCEPT ![k] = IF n = 0 THEN LastBucket + 1 ELSE b + 1]
    /\ UNCHANGED <<knows, pool, before, moves, strangers, locals, wire>>
-----------------------------------------------------------------------------
(* discover_peers_in_bucket(); t[2] is the bucket.                         *)
FindProviders(t) ==
    /\ at[t] = "start"
    /\ providers' = Put(providers, t, PeersOnBucketAndUnder(t[2]))
    /\ Goto(t, "count")
    /\ UNCHANGED <<knows, pool, before, moves, strangers, pos, candidates, old, missing, other, wire>>

(* The subtraction panics or wraps around, depending on the build.         *)
CountMissing(t) ==
    /\ at[t] = "count"
    /\ LET n == Cardinality(PeersOnBucket(t[2])) IN
         \/ /\ n <= Size /\ missing' = Put(missing, t, Size - n) /\ Goto(t, "loop")
            /\ strangers' = Put(strangers, t, 0)
         \/ /\ n > Size /\ missing' = Put(missing, t, Wrap + Size - n) /\ Goto(t, "loop")
            /\ UNCHANGED strangers
         \/ /\ n > Size /\ Goto(t, "panicked")
            /\ UNCHANGED <<missing, strangers>>
    /\ UNCHANGED <<knows, pool, before, moves, pos, providers, candidates, old, other, wire>>

(* The next candidate.  Those tried before and those that are connected    *)
(* are skipped; those that do not belong in the bucket are not.            *)
TryCandidate(t, c) ==
    /\ at[t] = "loop" /\ missing[t] > 0
    /\ c \in candidates[t]
    /\ candidates' = Put(candidates, t, candidates[t] \ {c})
    /\ old' = Put(old, t, old[t] \cup {c})
    /\ \/ c \in old[t] \cup pool /\ UNCHANGED <<at, other>>
       \/ c \notin old[t] \cup pool /\ Goto(t, "dial") /\ other' = Put(other, t, {c})
    /\ UNCHANGED <<knows, pool, before, moves, strangers, pos, providers, missing, wire>>

\* Mutant: the peers still missing are not counted.
DialedUncounted(t) ==
    /\ at[t] = "dial"
    /\ other[t] \cap (Unreachable \cup pool) = {}
    /\ pool' = pool \cup other[t]
    /\ Met(other[t], {t})
    /\ Resume(t, "loop")
    /\ UNCHANGED <<knows, before, moves, pos, providers, candidates, old, missing, wire>>

Dialed(t) ==
    /\ at[t] = "dial"
    /\ other[t] \cap (Unreachable \cup pool) = {}
    /\ pool' = pool \cup other[t]
    /\ missing' = Put(missing, t, missing[t] - 1)
    /\ Met(other[t], {t})
    /\ Resume(t, "loop")
    /\ UNCHANGED <<knows, before, moves, pos, providers, candidates, old, wire>>

\* Mutant: a candidate that cannot be reached is tried again.
NobodyListensRetried(t) ==
    /\ at[t] = "dial"
    /\ other[t] \subseteq Unreachable
    /\ Goto(t, "dial")
    /\ UNCHANGED <<knows, pool, before, moves, strangers, pos, locals, wire>>

NobodyListens(t) ==
    /\ at[t] = "dial"
    /\ other[t] \subseteq Unreachable
    /\ Resume(t, "loop")
    /\ UNCHANGED <<knows, pool, before, moves, strangers, pos, providers, candidates, old, missing, wire>>

(* A handshake that fails, also because the peer is connected by now, ends *)
(* the task.                                                               *)
HandshakeFails(t) ==
    /\ at[t] = "dial"
    /\ other[t] \cap Unreachable = {}
    /\ other[t] \subseteq Failing \cup pool
    /\ Resume(t, "failed")
    /\ UNCHANGED <<knows, pool, before, moves, strangers, pos, providers, candidates, old, missing, wire>>

(* The next provider, when there are no candidates: send_packet() sends    *)
(* nothing if it is not connected any more.                                *)
AskProvider(t, p) ==
    /\ at[t] = "loop" /\ missing[t] > 0
    /\ candidates[t] = {}
    /\ p \in providers[t]
    /\ providers' = Put(providers, t, providers[t] \ {p})
    /\ other' = Put(other, t, {p})
    /\ wire' = IF p \in pool THEN wire \cup {t} ELSE wire
    /\ Goto(t, "wait")
    /\ UNCHANGED <<knows, pool, before, moves, strangers, pos, candidates, old, missing>>

(* The answer: peers of the provider that match, no more than the limit.   *)
Answered(t) ==
    /\ at[t] = "wait" /\ t \in wire
    /\ wire' = wire \ {t}
    /\ LET matching == {q \in UNION {knows[p] : p \in other[t]} : BucketOf[q] = t[2]} IN
         \E peers \in kSubset(Min({MaxReturned, Cardinality(matching)}), matching) :
             candidates' = Put(candidates, t, peers)
    /\ Resume(t, "loop")
    /\ UNCHANGED <<knows, pool, before, moves, strangers, pos, providers, old, missing>>

Done(t) ==
    /\ at[t] = "loop"
    /\ missing[t] = 0 \/ candidates[t] \cup providers[t] = {}
    /\ Goto(t, "done")
    /\ UNCHANGED <<knows, pool, before, moves, strangers, pos, locals, wire>>
-----------------------------------------------------------------------------
PeerJoins(p) ==
    /\ p \in Moving /\ moves < MaxMoves /\ moves' = moves + 1
    /\ p \notin pool
    /\ pool' = pool \cup {p}
    /\ Met({p}, {})
    /\ UNCHANGED <<knows, before, pos, at, locals, wire>>

(* The connection is closed, and what is on it is never read.              *)
PeerQuits(p) ==
    /\ p \in Moving /\ moves < MaxMoves /\ moves' = moves + 1
    /\ p \in pool
    /\ pool' = pool \ {p}
    /\ wire' = {t \in wire : p \notin other[t]}
    /\ UNCHANGED <<knows, before, strangers, pos, at, locals>>
-----------------------------------------------------------------------------
Task(t) ==
    \/ FindProviders(t) \/ CountMissing(t) \/ Dialed(t) \/ NobodyListens(t) \/ HandshakeFails(t)
    \/ Answered(t) \/ Done(t)
    \/ \E p \in Peers : TryCandidate(t, p) \/ AskProvider(t, p)

Next ==
    \/ \E k \in Refreshes : Refresh(k) \/ LookAt(k)
    \/ \E t \in Tasks : Task(t)
    \/ \E p \in Peers : PeerJoins(p) \/ PeerQuits(p)

Spec == Init /\ [][Next]_vars

(* Tasks that can go on are polled, handshakes end (HandshakesEnd), and    *)
(* peers answer as long as they are connected.  Tasks have no loop without *)
(* progress, so that it is enough not to stop while one can go on.         *)
FairSpec == Spec /\ WF_vars(\E t \in Tasks : Task(t))
-----------------------------------------------------------------------------
TypeOK ==
    /\ knows \in [Peers -> SUBSET Peers]
    /\ pool \subseteq Peers /\ before \subseteq Peers /\ moves \in 0 .. MaxMoves
    /\ strangers \in [Tasks -> Nat]
    /\ pos \in [Refreshes -> -1 .. LastBucket + 1]
    /\ at \in [Tasks -> {"none", "start", "count", "loop", "dial", "wait", "done", "failed", "panicked"}]
    /\ {providers, candidates, old, other} \subseteq [Tasks -> SUBSET Peers]
    /\ missing \in [Tasks -> 0 .. Wrap]
    /\ wire \subseteq Tasks

(* KADEMLIA_BUCKET_SIZE - peers.len() overflows only if two peers or more  *)
(* have connected to the bucket between the look of the refresh, which     *)
(* leaves the room for one, and that of the task: by themselves, or by the *)
(* tasks of other refreshes that overlap with this one.                    *)
SubtractionFits ==
    \A t \in Tasks : at[t] = "panicked" \/ missing[t] > Size => strangers[t] >= 2

(* A task counts once and dials later: it fills its bucket beyond the size *)
(* by no more peers than others connected to it since the task counted.    *)
NotOverfilled ==
    \A t \in Tasks : at[t] \in {"loop", "dial", "wait"} /\ missing[t] <= Size =>
        Cardinality(PeersOnBucket(t[2])) + missing[t] <= Size + strangers[t]

(* A task that ends without having filled its bucket has connected to all  *)
(* peers of it that the peers it could ask know of (as long as answers are *)
(* not cut short and no peer quits).                                       *)
NothingOverlooked ==
    moves = 0 => \A t \in Tasks : at[t] = "done" /\ missing[t] > 0 =>
        \A p \in before, q \in Peers \ Unreachable :
            Level(BucketOf[p]) <= Level(t[2]) /\ q \in knows[p] /\ BucketOf[q] = t[2] => q \in pool

(* Every bucket down to the first that is empty gets a task if it is       *)
(* missing peers.                                                          *)
RefreshCovers ==
    moves = 0 => \A k \in Refreshes, b \in Buckets :
        /\ pos[k] = LastBucket + 1
        /\ Cardinality(PeersOnBucket(b)) < Size
        /\ \A c \in 0 .. b - 1 : \E p \in before : BucketOf[p] = c
        => at[<<k, b>>] # "none"

(* A task waits for ever only for the answer of a provider whose           *)
(* connection is gone (there is no timer), whatever peers join and quit.   *)
Stranded(t) == at[t] = "wait" /\ t \notin wire

EndsUnlessStranded == \A t \in Tasks : at[t] = "start" ~> Ended(t) \/ Stranded(t)
=============================================================================
