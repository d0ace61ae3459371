-------------------------- MODULE DiscoveryProofs --------------------------
(***************************************************************************)
(* Theorems about Discovery, for any number of peers, buckets and calls of *)
(* refresh_buckets().                                                      *)
(*                                                                         *)
(* The inductive invariant has one part for each thing a refresh relies    *)
(* on: that a bucket has at most one task of its own, which dials peers of *)
(* that bucket only (Spawned, InBucket); that the bucket has room for the  *)
(* peers the task is missing, but for those that others connect to         *)
(* (RoomWhenCounting, NotOverfilled, and Wrapped for a task whose count    *)
(* has overflowed); and that a peer that was offered is a candidate,       *)
(* connected or unreachable (TriedKept, Offered).                          *)
(***************************************************************************)
EXTENDS Discovery, FiniteSetTheorems, TLAPS

(* A task is alive once it was spawned, until it fails.                    *)
Fresh == {"none", "start", "count"}
Under == {"loop", "dial", "wait", "done"}

(* What t dials or asks is one peer, which it does as long as peers are    *)
(* missing and somebody is left to dial or to ask.                         *)
OneOther ==
    \A t \in Tasks :
        /\ at[t] \in {"dial", "wait"} =>
              missing[t] > 0 /\ \E c \in Peers : other[t] = {c}
        /\ at[t] = "wait" => candidates[t] = {}
        /\ at[t] \in Fresh => candidates[t] = {} /\ old[t] = {} /\ missing[t] = 0
        /\ at[t] = "done" => missing[t] = 0 \/ candidates[t] \cup providers[t] = {}

(* The peer that t dials, as a set.                                        *)
Dialing(t) == IF at[t] = "dial" THEN other[t] ELSE {}

InBucket ==
    \A t \in Tasks : \A c \in candidates[t] \cup Dialing(t) : BucketOf[c] = t[2]

(* The tasks of the buckets that a refresh has not come to are not there.  *)
Spawned ==
    \A k \in Refreshes, b \in Buckets : b >= pos[k] => at[<<k, b>>] = "none"

(* The claim of RefreshCovers, of the buckets looked at so far.            *)
LookedAt ==
    moves = 0 => \A k \in Refreshes, b \in Buckets :
        /\ b < pos[k]
        /\ Cardinality(PeersOnBucket(b)) < Size
        /\ \A c \in 0 .. b - 1 : \E p \in before : BucketOf[p] = c
        => at[<<k, b>>] # "none"

BeforeKept == moves = 0 => before \subseteq pool

(* Only peers that others connect to take the room a task was spawned for. *)
RoomWhenCounting ==
    \A t \in Tasks :
        at[t] \in {"start", "count"} => Cardinality(PeersOnBucket(t[2])) < Size + strangers[t]

(* A task dials a peer once.                                               *)
DialingTried == \A t \in Tasks : Dialing(t) \subseteq old[t]

(* `missing_peers` that has wrapped around counts down, but there are not  *)
(* enough peers to dial for it to look like a count that has not.          *)
Running == {"loop", "dial", "wait"}
Tried(t) == old[t] \ Dialing(t)

Wrapped ==
    \A t \in Tasks : at[t] \in Running /\ missing[t] > Size =>
        missing[t] + Cardinality(Tried(t)) > Size + Cardinality(Peers)

(* A candidate that was tried is connected, unless nobody listens.         *)
TriedKept ==
    moves = 0 => \A t \in Tasks :
        at[t] \in Under => old[t] \subseteq Unreachable \cup pool \cup Dialing(t)

(* What provider p has of bucket b that can be reached.                    *)
Offer(p, b) == {q \in knows[p] \ Unreachable : BucketOf[q] = b}

(* The peers that t asks or has asked were connected at the beginning, and *)
(* those already asked have offered what they have.                        *)
Offered ==
    moves = 0 => \A t \in Tasks, p \in before :
        at[t] \in Under \cup {"count"} /\ Level(BucketOf[p]) <= Level(t[2]) =>
            \/ p \in providers[t]
            \/ at[t] = "wait" /\ other[t] = {p}
            \/ Offer(p, t[2]) \subseteq pool \cup candidates[t] \cup Dialing(t)

(* No answer is cut short.                                                 *)
AnswersWhole ==
    \A b \in Buckets : Cardinality({p \in Peers : BucketOf[p] = b}) <= MaxReturned

IndInv ==
    /\ TypeOK
    /\ OneOther
    /\ InBucket
    /\ Spawned
    /\ LookedAt
    /\ BeforeKept
    /\ RoomWhenCounting
    /\ DialingTried
    /\ Wrapped
    /\ SubtractionFits
    /\ NotOverfilled
    /\ TriedKept
    /\ AnswersWhole => Offered
-----------------------------------------------------------------------------
States == {"none", "start", "count", "loop", "dial", "wait", "done", "failed", "panicked"}

LEMMA Typed ==
    ASSUME TypeOK
    PROVE  /\ knows \in [Peers -> SUBSET Peers]
           /\ pool \subseteq Peers /\ before \subseteq Peers
           /\ moves \in Nat /\ MaxMoves \in Nat
           /\ pos \in [Refreshes -> -1 .. LastBucket + 1]
           /\ at \in [Tasks -> States]
           /\ providers \in [Tasks -> SUBSET Peers]
           /\ candidates \in [Tasks -> SUBSET Peers]
           /\ old \in [Tasks -> SUBSET Peers]
           /\ other \in [Tasks -> SUBSET Peers]
           /\ missing \in [Tasks -> 0 .. Wrap]
           /\ \A t \in Tasks : missing[t] \in Nat
           /\ strangers \in [Tasks -> Nat]
           /\ Wrap \in Nat /\ Size \in Nat \ {0} /\ LastBucket \in Nat
<1> USE DiscoveryAssumption DEF TypeOK
<1>1. missing \in [Tasks -> 0 .. Wrap] /\ Wrap \in Nat
  OBVIOUS
<1>2. \A t \in Tasks : missing[t] \in Nat
  BY <1>1
<1>3. /\ providers \in [Tasks -> SUBSET Peers] /\ candidates \in [Tasks -> SUBSET Peers]
      /\ old \in [Tasks -> SUBSET Peers] /\ other \in [Tasks -> SUBSET Peers]
  OBVIOUS
<1>4. moves \in Nat
  OBVIOUS
<1>5. at \in [Tasks -> States]
  BY DEF States
<1> QED
  BY <1>1, <1>2, <1>3, <1>4, <1>5

LEMMA TypedBack ==
    /\ knows' \in [Peers -> SUBSET Peers]
    /\ pool' \subseteq Peers /\ before' \subseteq Peers /\ moves' \in 0 .. MaxMoves
    /\ strangers' \in [Tasks -> Nat]
    /\ pos' \in [Refreshes -> -1 .. LastBucket + 1]
    /\ at' \in [Tasks -> States]
    /\ providers' \in [Tasks -> SUBSET Peers]
    /\ candidates' \in [Tasks -> SUBSET Peers]
    /\ old' \in [Tasks -> SUBSET Peers]
    /\ other' \in [Tasks -> SUBSET Peers]
    /\ missing' \in [Tasks -> 0 .. Wrap]
    /\ wire' \subseteq Tasks
    => TypeOK'
  BY DEF TypeOK, States

(* Of the peers in S those in bucket b; PeersOnBucket(b) is Within(pool, b). *)
Within(S, b) == {p \in S : BucketOf[p] = b}

LEMMA BucketFinite ==
    ASSUME NEW S \in SUBSET Peers, NEW b
    PROVE  /\ IsFiniteSet(Within(S, b)) /\ Cardinality(Within(S, b)) \in Nat
           /\ Cardinality(Within(S, b)) <= Cardinality(Peers) /\ Cardinality(Peers) \in Nat
<1>1. Within(S, b) \in SUBSET Peers
  BY DEF Within
<1>2. IsFiniteSet(Peers)
  BY DiscoveryAssumption
<1> QED
  BY <1>1, <1>2, FS_Subset, FS_CardinalityType

LEMMA BucketGrows ==
    ASSUME NEW S \in SUBSET Peers, NEW T \in SUBSET S, NEW b
    PROVE  /\ Within(T, b) \subseteq Within(S, b)
           /\ Cardinality(Within(T, b)) <= Cardinality(Within(S, b))
<1>1. Within(T, b) \in SUBSET Within(S, b)
  BY DEF Within
<1> QED
  BY <1>1, BucketFinite, FS_Subset

(* A peer more.                                                            *)
LEMMA BucketJoined ==
    ASSUME NEW S \in SUBSET Peers, NEW c \in Peers \ S, NEW b
    PROVE  /\ BucketOf[c] # b => Within(S \cup {c}, b) = Within(S, b)
           /\ BucketOf[c] = b => Cardinality(Within(S \cup {c}, b)) = Cardinality(Within(S, b)) + 1
<1>1. BucketOf[c] # b => Within(S \cup {c}, b) = Within(S, b)
  BY DEF Within
<1>2. ASSUME BucketOf[c] = b
      PROVE  Cardinality(Within(S \cup {c}, b)) = Cardinality(Within(S, b)) + 1
  <2>1. Within(S \cup {c}, b) = Within(S, b) \cup {c} /\ c \notin Within(S, b)
    BY <1>2 DEF Within
  <2>2. IsFiniteSet(Within(S, b))
    BY BucketFinite
  <2> QED
    BY <2>1, <2>2, FS_AddElement
<1> QED
  BY <1>1, <1>2

LEMMA OnBucket ==
    /\ \A b : PeersOnBucket(b) = Within(pool, b)
    /\ \A b : PeersOnBucket(b)' = Within(pool', b)
  BY DEF PeersOnBucket, Within
-----------------------------------------------------------------------------
(* A task changes its own variables only.                                  *)
LEMMA OwnOnly ==
    ASSUME TypeOK, NEW t \in Tasks, Task(t), NEW u \in Tasks, u # t
    PROVE  /\ at'[u] = at[u] /\ providers'[u] = providers[u]
           /\ candidates'[u] = candidates[u] /\ old'[u] = old[u]
           /\ missing'[u] = missing[u] /\ other'[u] = other[u]
<1> USE Typed DEF Goto, Resume, Put, locals
<1>1. CASE FindProviders(t) \/ CountMissing(t) \/ Dialed(t) \/ NobodyListens(t)
  BY <1>1 DEF FindProviders, CountMissing, Dialed, NobodyListens
<1>2. CASE HandshakeFails(t) \/ Answered(t) \/ Done(t)
  BY <1>2 DEF HandshakeFails, Answered, Done
<1>3. CASE \E p \in Peers : TryCandidate(t, p) \/ AskProvider(t, p)
  BY <1>3 DEF TryCandidate, AskProvider
<1> QED
  BY <1>1, <1>2, <1>3 DEF Task

(* ... and the pool, when it has dialed a peer.                            *)
LEMMA OnlyDialed ==
    ASSUME NEW t \in Tasks, Task(t)
    PROVE  /\ UNCHANGED <<knows, before, moves, pos>>
           /\ pool \subseteq pool'
           /\ ~ Dialed(t) => pool' = pool
<1>1. CASE FindProviders(t) \/ CountMissing(t) \/ Dialed(t) \/ NobodyListens(t)
  BY <1>1 DEF FindProviders, CountMissing, Dialed, NobodyListens
<1>2. CASE HandshakeFails(t) \/ Answered(t) \/ Done(t)
  BY <1>2 DEF HandshakeFails, Answered, Done
<1>3. CASE \E p \in Peers : TryCandidate(t, p) \/ AskProvider(t, p)
  BY <1>3 DEF TryCandidate, AskProvider
<1> QED
  BY <1>1, <1>2, <1>3 DEF Task

(* The peer that is dialed: one that is not connected yet, of the bucket.  *)
LEMMA DialedOne ==
    ASSUME TypeOK, OneOther, InBucket, NEW t \in Tasks, Dialed(t)
    PROVE  \E c \in Peers \ pool :
              /\ other[t] = {c} /\ c \notin Unreachable /\ BucketOf[c] = t[2]
              /\ pool' = pool \cup {c} /\ missing[t] > 0
              /\ at[t] = "dial" /\ at'[t] = "loop" /\ missing'[t] = missing[t] - 1
<1> USE Typed
<1>1. at[t] = "dial" /\ other[t] \cap (Unreachable \cup pool) = {} /\ pool' = pool \cup other[t]
      /\ missing' = [missing EXCEPT ![t] = missing[t] - 1] /\ at' = [at EXCEPT ![t] = "loop"]
  BY DEF Dialed, Put, Resume, Goto
<1>2. PICK c \in Peers : other[t] = {c} /\ missing[t] > 0
  BY <1>1 DEF OneOther
<1>3. BucketOf[c] = t[2]
  BY <1>1, <1>2 DEF InBucket, Dialing
<1> QED
  BY <1>1, <1>2, <1>3

(* A refresh looks at one bucket.                                          *)
LEMMA LooksAt ==
    ASSUME TypeOK, Spawned, NEW k \in Refreshes, LookAt(k),
           NEW b, b = pos[k]
    PROVE  /\ b \in Buckets /\ <<k, b>> \in Tasks /\ at[<<k, b>>] = "none"
           /\ \A u \in Tasks : u # <<k, b>> => at'[u] = at[u]
           /\ at'[<<k, b>>] \in {"none", "start"}
           /\ at'[<<k, b>>] = "start" <=> Cardinality(PeersOnBucket(b)) < Size
           /\ \A j \in Refreshes : j # k => pos'[j] = pos[j]
           /\ \/ Cardinality(PeersOnBucket(b)) = 0 /\ pos'[k] = LastBucket + 1
              \/ Cardinality(PeersOnBucket(b)) # 0 /\ pos'[k] = b + 1
           /\ UNCHANGED <<knows, pool, before, moves, strangers, locals, wire>>
<1> DEFINE n == Cardinality(PeersOnBucket(b))
<1>1. /\ b \in Buckets
      /\ at' = IF n < Size THEN [at EXCEPT ![<<k, b>>] = "start"] ELSE at
      /\ pos' = [pos EXCEPT ![k] = IF n = 0 THEN LastBucket + 1 ELSE b + 1]
      /\ UNCHANGED <<knows, pool, before, moves, strangers, locals, wire>>
  BY DEF LookAt
<1> HIDE DEF n
<1>2. <<k, b>> \in Tasks
  BY <1>1 DEF Tasks
<1>3. at[<<k, b>>] = "none"
  <2>1. b >= pos[k]
    BY <1>1, Typed DEF Buckets
  <2> QED
    BY <1>1, <2>1 DEF Spawned
<1>4. \A u \in Tasks : u # <<k, b>> => at'[u] = at[u]
  BY <1>1, Typed
<1>5. n < Size => at'[<<k, b>>] = "start"
  BY <1>1, <1>2, Typed
<1>6. ~ (n < Size) => at'[<<k, b>>] = "none"
  BY <1>1, <1>3
<1>7. \A j \in Refreshes : j # k => pos'[j] = pos[j]
  BY <1>1, Typed
<1>8. \/ n = 0 /\ pos'[k] = LastBucket + 1
      \/ n # 0 /\ pos'[k] = b + 1
  BY <1>1, Typed
<1> QED
  BY <1>1, <1>2, <1>3, <1>4, <1>5, <1>6, <1>7, <1>8 DEF n

(* Peers that come and go by themselves leave the tasks where they are.    *)
LEMMA Moves ==
    ASSUME TypeOK, NEW p \in Peers, PeerJoins(p) \/ PeerQuits(p)
    PROVE  /\ UNCHANGED <<knows, before, pos, at, locals>>
           /\ moves' = moves + 1 /\ moves' # 0 /\ moves' > moves /\ moves' \in 0 .. MaxMoves
           /\ pool' \subseteq Peers
           /\ \/ p \in Peers \ pool /\ pool' = pool \cup {p}
              \/ pool' \subseteq pool
  BY Typed DEF PeerJoins, PeerQuits, TypeOK

(* Nobody's move is ever taken back.                                       *)
LEMMA NoMoves ==
    ASSUME TypeOK, Spawned, [Next]_vars, moves' = 0
    PROVE  moves = 0 /\ pool \subseteq pool' /\ before' = before /\ knows' = knows
<1>1. ASSUME NEW k \in Refreshes, Refresh(k)
      PROVE  moves = 0 /\ pool \subseteq pool' /\ before' = before /\ knows' = knows
  BY <1>1 DEF Refresh
<1>2. ASSUME NEW k \in Refreshes, LookAt(k)
      PROVE  moves = 0 /\ pool \subseteq pool' /\ before' = before /\ knows' = knows
  BY <1>2 DEF LookAt
<1>3. ASSUME NEW t \in Tasks, Task(t)
      PROVE  moves = 0 /\ pool \subseteq pool' /\ before' = before /\ knows' = knows
  BY <1>3, OnlyDialed
<1>4. ASSUME NEW p \in Peers, PeerJoins(p) \/ PeerQuits(p)
      PROVE  moves = 0 /\ pool \subseteq pool' /\ before' = before /\ knows' = knows
  BY <1>4, Moves
<1>5. CASE UNCHANGED vars
  BY <1>5 DEF vars
<1> QED
  BY <1>1, <1>2, <1>3, <1>4, <1>5 DEF Next
-----------------------------------------------------------------------------
LEMMA MetTyped ==
    ASSUME TypeOK, NEW S, NEW T, Met(S, T)
    PROVE  strangers' \in [Tasks -> Nat]
<1>1. \A t \in Tasks : strangers[t] \in Nat /\ strangers[t] + 1 \in Nat
  BY Typed
<1> QED
  BY <1>1 DEF Met

LEMMA TypeTask ==
    ASSUME TypeOK, OneOther, NEW t \in Tasks, Task(t)
    PROVE  TypeOK'
<1> USE Typed DEF Goto, Resume, Put, locals, States
<1>0. wire \subseteq Tasks /\ moves \in 0 .. MaxMoves
  BY DEF TypeOK
<1>1. CASE FindProviders(t)
  <2>1. PeersOnBucketAndUnder(t[2]) \in SUBSET Peers
    BY DEF PeersOnBucketAndUnder
  <2>2. providers' \in [Tasks -> SUBSET Peers] /\ at' \in [Tasks -> States]
    BY <1>1, <2>1 DEF FindProviders
  <2> QED
    BY <1>0, <1>1, <2>2, TypedBack DEF FindProviders
<1>2. CASE CountMissing(t)
  <2> DEFINE n == Cardinality(PeersOnBucket(t[2]))
  <2>1. n \in Nat /\ n <= Cardinality(Peers) /\ Cardinality(Peers) \in Nat
    BY BucketFinite, OnBucket
  <2>2. Wrap > Size + Cardinality(Peers)
    BY DiscoveryAssumption
  <2>3. /\ n <= Size => Size - n \in 0 .. Wrap
        /\ n > Size => Wrap + Size - n \in 0 .. Wrap
    BY <2>1, <2>2
  <2>4. /\ \/ n <= Size /\ missing' = [missing EXCEPT ![t] = Size - n]
           \/ n > Size /\ missing' = [missing EXCEPT ![t] = Wrap + Size - n]
           \/ missing' = missing
        /\ strangers' = strangers \/ strangers' = [strangers EXCEPT ![t] = 0]
        /\ at' = [at EXCEPT ![t] = "loop"] \/ at' = [at EXCEPT ![t] = "panicked"]
        /\ UNCHANGED <<knows, pool, before, moves, pos, providers, candidates, old, other, wire>>
    BY <1>2 DEF CountMissing
  <2> HIDE DEF n
  <2>5. missing' \in [Tasks -> 0 .. Wrap]
    BY <2>3, <2>4
  <2>6. at' \in [Tasks -> States] /\ strangers' \in [Tasks -> Nat]
    BY <2>4
  <2> QED
    BY <1>0, <2>4, <2>5, <2>6, TypedBack
<1>3. CASE Dialed(t)
  <2>1. /\ at' = [at EXCEPT ![t] = "loop"] /\ other' = [other EXCEPT ![t] = {}]
        /\ missing' = [missing EXCEPT ![t] = missing[t] - 1] /\ pool' = pool \cup other[t]
        /\ UNCHANGED <<knows, before, moves, pos, providers, candidates, old, wire>>
        /\ missing[t] > 0
    BY <1>3 DEF Dialed, OneOther
  <2>2. missing[t] - 1 \in 0 .. Wrap
    BY <2>1
  <2>3. missing' \in [Tasks -> 0 .. Wrap] /\ at' \in [Tasks -> States]
    BY <2>1, <2>2
  <2>4. other' \in [Tasks -> SUBSET Peers] /\ pool' \subseteq Peers
    BY <2>1
  <2>5. strangers' \in [Tasks -> Nat]
    BY <1>3, MetTyped DEF Dialed
  <2> QED
    BY <1>0, <2>1, <2>3, <2>4, <2>5, TypedBack
<1>4. CASE NobodyListens(t) \/ HandshakeFails(t)
  <2>1. other' \in [Tasks -> SUBSET Peers] /\ at' \in [Tasks -> States]
    BY <1>4 DEF NobodyListens, HandshakeFails
  <2> QED
    BY <1>0, <1>4, <2>1, TypedBack DEF NobodyListens, HandshakeFails
<1>5. CASE Answered(t)
  <2> DEFINE matching == {q \in UNION {knows[p] : p \in other[t]} : BucketOf[q] = t[2]}
  <2>1. matching \in SUBSET Peers
    OBVIOUS
  <2>2. PICK peers \in kSubset(Min({MaxReturned, Cardinality(matching)}), matching) :
            candidates' = [candidates EXCEPT ![t] = peers]
    BY <1>5 DEF Answered
  <2>3. peers \in SUBSET Peers
    BY <2>1, <2>2 DEF kSubset
  <2>4. candidates' \in [Tasks -> SUBSET Peers]
    BY <2>2, <2>3
  <2>5. other' \in [Tasks -> SUBSET Peers] /\ at' \in [Tasks -> States] /\ wire' \subseteq Tasks
    BY <1>0, <1>5 DEF Answered
  <2>6. UNCHANGED <<knows, pool, before, moves, strangers, pos, providers, old, missing>>
    BY <1>5 DEF Answered
  <2> QED
    BY <1>0, <2>4, <2>5, <2>6, TypedBack
<1>6. CASE Done(t)
  <2>1. at' \in [Tasks -> States]
    BY <1>6 DEF Done
  <2> QED
    BY <1>0, <1>6, <2>1, TypedBack DEF Done
<1>7. ASSUME NEW c \in Peers, TryCandidate(t, c)
      PROVE  TypeOK'
  <2>1. /\ candidates' \in [Tasks -> SUBSET Peers] /\ old' \in [Tasks -> SUBSET Peers]
        /\ other' \in [Tasks -> SUBSET Peers] /\ at' \in [Tasks -> States]
    BY <1>7 DEF TryCandidate
  <2> QED
    BY <1>0, <1>7, <2>1, TypedBack DEF TryCandidate
<1>8. ASSUME NEW p \in Peers, AskProvider(t, p)
      PROVE  TypeOK'
  <2>1. /\ providers' \in [Tasks -> SUBSET Peers] /\ other' \in [Tasks -> SUBSET Peers]
        /\ at' \in [Tasks -> States] /\ wire' \subseteq Tasks
    BY <1>0, <1>8 DEF AskProvider
  <2> QED
    BY <1>0, <1>8, <2>1, TypedBack DEF AskProvider
<1> QED
  BY <1>1, <1>2, <1>3, <1>4, <1>5, <1>6, <1>7, <1>8 DEF Task

LEMMA TypeStep ==
    ASSUME TypeOK, OneOther, Spawned, [Next]_vars
    PROVE  TypeOK'
<1>0. wire \subseteq Tasks /\ moves \in 0 .. MaxMoves
  BY DEF TypeOK
<1>1. ASSUME NEW k \in Refreshes, Refresh(k)
      PROVE  TypeOK'
  <2>1. pos' \in [Refreshes -> -1 .. LastBucket + 1]
    BY <1>1, Typed DEF Refresh
  <2> QED
    BY <1>0, <1>1, <2>1, Typed, TypedBack DEF Refresh, locals
<1>2. ASSUME NEW k \in Refreshes, LookAt(k)
      PROVE  TypeOK'
  <2> DEFINE n == Cardinality(PeersOnBucket(pos[k]))
  <2>1. /\ pos[k] \in Buckets
        /\ at' = IF n < Size THEN [at EXCEPT ![<<k, pos[k]>>] = "start"] ELSE at
        /\ pos' = [pos EXCEPT ![k] = IF n = 0 THEN LastBucket + 1 ELSE pos[k] + 1]
        /\ UNCHANGED <<knows, pool, before, moves, strangers, locals, wire>>
    BY <1>2 DEF LookAt
  <2> HIDE DEF n
  <2>2. at' \in [Tasks -> States]
    BY <2>1, Typed DEF States
  <2>3. pos[k] + 1 \in -1 .. LastBucket + 1 /\ LastBucket + 1 \in -1 .. LastBucket + 1
    BY <2>1, Typed DEF Buckets
  <2>4. pos' \in [Refreshes -> -1 .. LastBucket + 1]
    BY <2>1, <2>3, Typed
  <2> QED
    BY <1>0, <2>1, <2>2, <2>4, Typed, TypedBack DEF locals
<1>3. ASSUME NEW t \in Tasks, Task(t)
      PROVE  TypeOK'
  BY <1>3, TypeTask
<1>4. ASSUME NEW p \in Peers, PeerJoins(p) \/ PeerQuits(p)
      PROVE  TypeOK'
  <2>1. wire' \subseteq Tasks
    BY <1>0, <1>4 DEF PeerJoins, PeerQuits
  <2>2. strangers' \in [Tasks -> Nat]
    BY <1>4, MetTyped, Typed DEF PeerJoins, PeerQuits
  <2> QED
    BY <1>4, <2>1, <2>2, Moves, Typed, TypedBack DEF locals
<1>5. CASE UNCHANGED vars
  BY <1>5 DEF vars, locals, TypeOK
<1> QED
  BY <1>1, <1>2, <1>3, <1>4, <1>5 DEF Next
-----------------------------------------------------------------------------
(* Where nothing happens to the tasks nothing happens to what is said of   *)
(* them alone.                                                             *)
LEMMA OneOtherStep ==
    ASSUME TypeOK, OneOther, Spawned, [Next]_vars
    PROVE  OneOther'
<1> USE Typed DEF OneOther, Fresh
<1>1. ASSUME UNCHANGED <<at, locals>>
      PROVE  OneOther'
  BY <1>1 DEF locals
<1>2. ASSUME NEW k \in Refreshes, LookAt(k)
      PROVE  OneOther'
  <2>1. PICK b : b = pos[k]
    OBVIOUS
  <2>2. /\ <<k, b>> \in Tasks /\ at[<<k, b>>] = "none" /\ at'[<<k, b>>] \in {"none", "start"}
        /\ \A u \in Tasks : u # <<k, b>> => at'[u] = at[u]
        /\ UNCHANGED locals
    BY <1>2, <2>1, LooksAt
  <2>3. ASSUME NEW u \in Tasks
        PROVE  at'[u] = at[u] \/ (at[u] = "none" /\ at'[u] = "start")
    BY <2>2
  <2> QED
    BY <2>2, <2>3 DEF locals
<1>3. ASSUME NEW t \in Tasks, Task(t)
      PROVE  OneOther'
  <2>1. /\ at'[t] \in {"dial", "wait"} =>
              missing'[t] > 0 /\ \E c \in Peers : other'[t] = {c}
        /\ at'[t] = "wait" => candidates'[t] = {}
        /\ at'[t] \in Fresh => candidates'[t] = {} /\ old'[t] = {} /\ missing'[t] = 0
        /\ at'[t] = "done" => missing'[t] = 0 \/ candidates'[t] \cup providers'[t] = {}
    <3> USE DEF Goto, Resume, Put
    <3>1. CASE FindProviders(t) \/ CountMissing(t)
      BY <3>1 DEF FindProviders, CountMissing
    <3>2. CASE Dialed(t) \/ NobodyListens(t) \/ HandshakeFails(t) \/ Answered(t)
      <4>1. at'[t] \in {"loop", "failed"}
        BY <3>2 DEF Dialed, NobodyListens, HandshakeFails, Answered
      <4> QED
        BY <4>1
    <3>5. CASE Done(t)
      BY <3>5 DEF Done, locals
    <3>3. ASSUME NEW c \in Peers, TryCandidate(t, c)
          PROVE  /\ at'[t] \in {"loop", "dial"}
                 /\ at'[t] = "dial" => missing'[t] > 0 /\ other'[t] = {c}
      BY <3>3 DEF TryCandidate
    <3>4. ASSUME NEW p \in Peers, AskProvider(t, p)
          PROVE  at'[t] = "wait" /\ missing'[t] > 0 /\ other'[t] = {p} /\ candidates'[t] = {}
      BY <3>4 DEF AskProvider
    <3> QED
      BY <1>3, <3>1, <3>2, <3>3, <3>4, <3>5 DEF Task
  <2>2. \A u \in Tasks : u # t =>
           /\ at'[u] = at[u] /\ candidates'[u] = candidates[u] /\ old'[u] = old[u]
           /\ missing'[u] = missing[u] /\ other'[u] = other[u] /\ providers'[u] = providers[u]
    BY <1>3, OwnOnly
  <2> QED
    BY <2>1, <2>2
<1>4. ASSUME NEW k \in Refreshes, Refresh(k)
      PROVE  OneOther'
  BY <1>1, <1>4 DEF Refresh
<1>5. ASSUME NEW p \in Peers, PeerJoins(p) \/ PeerQuits(p)
      PROVE  OneOther'
  BY <1>1, <1>5, Moves
<1>6. CASE UNCHANGED vars
  BY <1>1, <1>6 DEF vars
<1> QED
  BY <1>2, <1>3, <1>4, <1>5, <1>6 DEF Next

LEMMA InBucketStep ==
    ASSUME TypeOK, OneOther, Spawned, InBucket, [Next]_vars
    PROVE  InBucket'
<1> USE Typed
<1>1. ASSUME UNCHANGED <<at, locals>>
      PROVE  InBucket'
  BY <1>1 DEF locals, InBucket, Dialing
<1>2. ASSUME NEW k \in Refreshes, LookAt(k)
      PROVE  InBucket'
  <2>1. PICK b : b = pos[k]
    OBVIOUS
  <2>2. /\ at'[<<k, b>>] \in {"none", "start"}
        /\ \A u \in Tasks : u # <<k, b>> => at'[u] = at[u]
        /\ UNCHANGED locals
    BY <1>2, <2>1, LooksAt
  <2>3. \A u \in Tasks : Dialing(u)' \subseteq Dialing(u) /\ candidates'[u] = candidates[u]
    BY <2>2 DEF Dialing, locals
  <2> QED
    BY <2>3 DEF InBucket
<1>3. ASSUME NEW t \in Tasks, Task(t)
      PROVE  InBucket'
  <2>1. candidates'[t] \cup Dialing(t)' \subseteq
           candidates[t] \cup Dialing(t) \cup {q \in Peers : BucketOf[q] = t[2]}
    <3> USE DEF Goto, Resume, Put, Dialing
    <3>1. CASE FindProviders(t) \/ CountMissing(t) \/ Done(t)
      <4>1. at'[t] # "dial" /\ candidates' = candidates
        BY <3>1 DEF FindProviders, CountMissing, Done, locals
      <4> QED
        BY <4>1
    <3>2. CASE Dialed(t) \/ NobodyListens(t) \/ HandshakeFails(t)
      BY <3>2 DEF Dialed, NobodyListens, HandshakeFails
    <3>3. CASE Answered(t)
      <4> DEFINE matching == {q \in UNION {knows[p] : p \in other[t]} : BucketOf[q] = t[2]}
      <4>1. PICK peers \in kSubset(Min({MaxReturned, Cardinality(matching)}), matching) :
                candidates' = [candidates EXCEPT ![t] = peers]
        BY <3>3 DEF Answered
      <4>2. peers \subseteq matching
        BY <4>1 DEF kSubset
      <4>3. matching \subseteq {q \in Peers : BucketOf[q] = t[2]}
        OBVIOUS
      <4>4. candidates'[t] \subseteq {q \in Peers : BucketOf[q] = t[2]}
        BY <4>1, <4>2, <4>3
      <4>5. at'[t] = "loop"
        BY <3>3 DEF Answered
      <4> QED
        BY <4>4, <4>5
    <3>4. ASSUME NEW c \in Peers, TryCandidate(t, c)
          PROVE  candidates'[t] \cup Dialing(t)' \subseteq candidates[t]
      BY <3>4 DEF TryCandidate
    <3>5. ASSUME NEW p \in Peers, AskProvider(t, p)
          PROVE  candidates'[t] \cup Dialing(t)' \subseteq candidates[t]
      BY <3>5 DEF AskProvider
    <3> QED
      BY <1>3, <3>1, <3>2, <3>3, <3>4, <3>5 DEF Task
  <2>2. \A c \in candidates'[t] \cup Dialing(t)' : BucketOf[c] = t[2]
    BY <2>1 DEF InBucket
  <2>3. \A u \in Tasks : u # t =>
           candidates'[u] = candidates[u] /\ Dialing(u)' = Dialing(u)
    BY <1>3, OwnOnly DEF Dialing
  <2> QED
    BY <2>2, <2>3 DEF InBucket
<1>4. ASSUME NEW k \in Refreshes, Refresh(k)
      PROVE  InBucket'
  BY <1>1, <1>4 DEF Refresh
<1>5. ASSUME NEW p \in Peers, PeerJoins(p) \/ PeerQuits(p)
      PROVE  InBucket'
  BY <1>1, <1>5, Moves
<1>6. CASE UNCHANGED vars
  <2>1. UNCHANGED <<at, locals>>
    BY <1>6 DEF vars, locals
  <2> QED
    BY <1>1, <2>1
<1> QED
  BY <1>2, <1>3, <1>4, <1>5, <1>6 DEF Next

LEMMA SpawnedStep ==
    ASSUME TypeOK, Spawned, [Next]_vars
    PROVE  Spawned'
<1> USE Typed
<1>1. ASSUME NEW k \in Refreshes, Refresh(k)
      PROVE  Spawned'
  BY <1>1 DEF Refresh, Spawned, Buckets
<1>2. ASSUME NEW k \in Refreshes, LookAt(k)
      PROVE  Spawned'
  <2>1. PICK b : b = pos[k]
    OBVIOUS
  <2>2. /\ b \in Buckets
        /\ \A u \in Tasks : u # <<k, b>> => at'[u] = at[u]
        /\ \A j \in Refreshes : j # k => pos'[j] = pos[j]
        /\ pos'[k] = LastBucket + 1 \/ pos'[k] = b + 1
    BY <1>2, <2>1, LooksAt
  <2>3. SUFFICES ASSUME NEW j \in Refreshes, NEW c \in Buckets, c >= pos'[j]
                 PROVE  at'[<<j, c>>] = "none"
    BY DEF Spawned
  <2>4. c >= pos[j] /\ <<j, c>> # <<k, b>> /\ <<j, c>> \in Tasks
    BY <2>1, <2>2, <2>3 DEF Buckets, Tasks
  <2> QED
    BY <2>2, <2>4 DEF Spawned
<1>3. ASSUME NEW t \in Tasks, Task(t)
      PROVE  Spawned'
  <2>1. at[t] # "none"
    BY <1>3 DEF Task, FindProviders, CountMissing, Dialed, NobodyListens, HandshakeFails,
                Answered, Done, TryCandidate, AskProvider
  <2>2. \A u \in Tasks : u # t => at'[u] = at[u]
    BY <1>3, OwnOnly
  <2>3. pos' = pos
    BY <1>3, OnlyDialed
  <2>4. SUFFICES ASSUME NEW j \in Refreshes, NEW c \in Buckets, c >= pos'[j]
                 PROVE  at'[<<j, c>>] = "none"
    BY DEF Spawned
  <2>5. at[<<j, c>>] = "none" /\ <<j, c>> \in Tasks
    BY <2>3, <2>4 DEF Spawned, Tasks
  <2> QED
    BY <2>1, <2>2, <2>5
<1>4. ASSUME NEW p \in Peers, PeerJoins(p) \/ PeerQuits(p)
      PROVE  Spawned'
  BY <1>4, Moves DEF Spawned
<1>5. CASE UNCHANGED vars
  BY <1>5 DEF vars, Spawned
<1> QED
  BY <1>1, <1>2, <1>3, <1>4, <1>5 DEF Next

LEMMA BeforeKeptStep ==
    ASSUME TypeOK, Spawned, BeforeKept, [Next]_vars
    PROVE  BeforeKept'
  BY NoMoves DEF BeforeKept

(* A task that was spawned has been.                                       *)
LEMMA StaysSpawned ==
    ASSUME TypeOK, Spawned, [Next]_vars, NEW u \in Tasks, at[u] # "none"
    PROVE  at'[u] # "none"
<1>1. ASSUME NEW k \in Refreshes, LookAt(k)
      PROVE  at'[u] # "none"
  <2>1. PICK b : b = pos[k]
    OBVIOUS
  <2> QED
    BY <1>1, <2>1, LooksAt
<1>2. ASSUME NEW t \in Tasks, Task(t)
      PROVE  at'[u] # "none"
  <2>1. CASE u # t
    BY <1>2, <2>1, OwnOnly
  <2>2. CASE u = t
    BY <1>2, <2>2, Typed DEF Task, FindProviders, CountMissing, Dialed, NobodyListens,
                HandshakeFails, Answered, Done, TryCandidate, AskProvider, Goto, Resume
  <2> QED
    BY <2>1, <2>2
<1>3. CASE UNCHANGED at
  BY <1>3
<1> QED
  BY <1>1, <1>2, <1>3, Moves DEF Next, Refresh, vars

LEMMA LookedAtStep ==
    ASSUME TypeOK, Spawned, BeforeKept, LookedAt, [Next]_vars
    PROVE  LookedAt'
<1> USE Typed
<1> SUFFICES ASSUME moves' = 0, NEW j \in Refreshes, NEW c \in Buckets, c < pos'[j],
                    Cardinality(PeersOnBucket(c))' < Size,
                    \A d \in 0 .. c - 1 : \E p \in before' : BucketOf[p] = d
             PROVE  at'[<<j, c>>] # "none"
  BY DEF LookedAt
<1>1. moves = 0 /\ pool \subseteq pool' /\ before' = before /\ before \subseteq pool
  BY NoMoves DEF BeforeKept
<1>2. Cardinality(PeersOnBucket(c)) < Size
  <2>1. pool' \in SUBSET Peers
    <3>1. ASSUME NEW t \in Tasks, Task(t)
          PROVE  pool' \subseteq Peers
      BY <3>1, OnlyDialed DEF Dialed
    <3>2. ASSUME NEW k \in Refreshes, Refresh(k) \/ LookAt(k)
          PROVE  pool' = pool
      BY <3>2 DEF Refresh, LookAt
    <3> QED
      BY <3>1, <3>2, Moves DEF Next, vars
  <2>2. Cardinality(Within(pool, c)) <= Cardinality(Within(pool', c))
    BY <1>1, <2>1, BucketGrows
  <2>3. Cardinality(Within(pool', c)) < Size
    BY OnBucket
  <2>4. Cardinality(Within(pool, c)) \in Nat /\ Cardinality(Within(pool', c)) \in Nat
    BY <2>1, BucketFinite
  <2> QED
    BY <2>2, <2>3, <2>4, OnBucket
<1>3. CASE c < pos[j]
  <2>1. at[<<j, c>>] # "none" /\ <<j, c>> \in Tasks
    BY <1>1, <1>2, <1>3 DEF LookedAt, Tasks
  <2> QED
    BY <2>1, StaysSpawned
<1>4. CASE ~ (c < pos[j])
  <2>1. pos'[j] # pos[j]
    BY <1>4
  <2>2. ~ Refresh(j)
    BY <2>1 DEF Refresh, Buckets
  <2>3. LookAt(j)
    <3>1. ASSUME NEW k \in Refreshes, Refresh(k) \/ LookAt(k), k # j
          PROVE  pos'[j] = pos[j]
      BY <3>1 DEF Refresh, LookAt
    <3> QED
      BY <2>1, <2>2, <3>1, OnlyDialed, Moves DEF Next, vars
  <2>4. PICK b : b = pos[j]
    OBVIOUS
  <2>5. /\ b \in Buckets
        /\ at'[<<j, b>>] = "start" <=> Cardinality(PeersOnBucket(b)) < Size
        /\ \/ Cardinality(PeersOnBucket(b)) = 0 /\ pos'[j] = LastBucket + 1
           \/ Cardinality(PeersOnBucket(b)) # 0 /\ pos'[j] = b + 1
    BY <2>3, <2>4, LooksAt
  <2>6. CASE c = b
    BY <1>2, <2>5, <2>6
  <2>7. CASE c # b
    <3>1. c > b /\ b \in 0 .. c - 1
      BY <1>4, <2>4, <2>5, <2>7 DEF Buckets
    <3>2. Cardinality(Within(pool, b)) = 0
      BY <2>5, <3>1, OnBucket DEF Buckets
    <3>3. Within(pool, b) = {}
      BY <3>2, BucketFinite, FS_EmptySet
    <3>4. PICK p \in before : BucketOf[p] = b
      BY <1>1, <3>1
    <3> QED
      BY <1>1, <3>3, <3>4 DEF Within
  <2> QED
    BY <2>6, <2>7
<1> QED
  BY <1>3, <1>4
-----------------------------------------------------------------------------
(* A peer that connects takes room in one bucket, and whoever has not      *)
(* connected to it itself has met a stranger there.                        *)
LEMMA MetOne ==
    ASSUME TypeOK, NEW c \in Peers \ pool, pool' = pool \cup {c}, NEW T, Met({c}, T),
           NEW u \in Tasks, u \notin T, at[u] # "none", ~ Ended(u)
    PROVE  /\ strangers'[u] >= strangers[u]
           /\ Cardinality(PeersOnBucket(u[2])') + strangers[u]
                 <= Cardinality(PeersOnBucket(u[2])) + strangers'[u]
<1>1. /\ pool \in SUBSET Peers /\ strangers[u] \in Nat
      /\ Cardinality(Within(pool, u[2])) \in Nat
  BY Typed, BucketFinite
<1>2. CASE BucketOf[c] = u[2]
  <2>1. strangers'[u] = strangers[u] + 1
    BY <1>2 DEF Met
  <2>2. Cardinality(Within(pool', u[2])) = Cardinality(Within(pool, u[2])) + 1
    BY <1>1, <1>2, BucketJoined
  <2> QED
    BY <1>1, <2>1, <2>2, OnBucket
<1>3. CASE BucketOf[c] # u[2]
  <2>1. strangers'[u] = strangers[u]
    BY <1>3 DEF Met
  <2>2. Within(pool', u[2]) = Within(pool, u[2])
    BY <1>1, <1>3, BucketJoined
  <2>3. /\ PeersOnBucket(u[2])' = PeersOnBucket(u[2])
        /\ Cardinality(PeersOnBucket(u[2])) \in Nat
    BY <1>1, <2>2, OnBucket
  <2> QED
    BY <1>1, <2>1, <2>3
<1> QED
  BY <1>2, <1>3

(* Where others step, a task loses no more room than it meets strangers.   *)
LEMMA RoomLost ==
    ASSUME TypeOK, OneOther, InBucket, Spawned, [Next]_vars,
           NEW u \in Tasks, ~ Task(u), at[u] # "none", ~ Ended(u)
    PROVE  /\ at'[u] = at[u] /\ missing'[u] = missing[u]
           /\ strangers'[u] >= strangers[u]
           /\ Cardinality(PeersOnBucket(u[2])') + strangers[u]
                 <= Cardinality(PeersOnBucket(u[2])) + strangers'[u]
<1> DEFINE n == Cardinality(PeersOnBucket(u[2]))
           nn == Cardinality(PeersOnBucket(u[2])')
           Goal == /\ at'[u] = at[u] /\ missing'[u] = missing[u]
                   /\ strangers'[u] >= strangers[u]
                   /\ nn + strangers[u] <= n + strangers'[u]
<1>1. pool \in SUBSET Peers /\ strangers[u] \in Nat /\ n \in Nat
  BY Typed, BucketFinite, OnBucket
<1>2. ASSUME at'[u] = at[u], missing'[u] = missing[u], strangers'[u] = strangers[u], pool' = pool
      PROVE  Goal
  BY <1>1, <1>2 DEF PeersOnBucket
<1>3. ASSUME NEW k \in Refreshes, LookAt(k)
      PROVE  Goal
  <2>1. PICK b : b = pos[k]
    OBVIOUS
  <2>2. /\ at[<<k, b>>] = "none"
        /\ \A v \in Tasks : v # <<k, b>> => at'[v] = at[v]
        /\ UNCHANGED <<pool, strangers, locals>>
    BY <1>3, <2>1, LooksAt
  <2> QED
    BY <1>2, <2>2 DEF locals
<1>4. ASSUME NEW t \in Tasks, Task(t)
      PROVE  Goal
  <2>1. u # t
    BY <1>4
  <2>2. at'[u] = at[u] /\ missing'[u] = missing[u]
    BY <1>4, <2>1, OwnOnly
  <2>3. CASE Dialed(t)
    <3>1. PICK c \in Peers \ pool : other[t] = {c} /\ pool' = pool \cup {c}
      BY <2>3, DialedOne
    <3>2. Met({c}, {t})
      BY <2>3, <3>1 DEF Dialed
    <3> QED
      BY <2>1, <2>2, <3>1, <3>2, MetOne
  <2>4. CASE ~ Dialed(t)
    <3>1. pool' = pool
      BY <1>4, <2>4, OnlyDialed
    <3>2. strangers'[u] = strangers[u]
      BY <1>4, <2>1, <2>4, Typed
         DEF Task, FindProviders, CountMissing, NobodyListens, HandshakeFails, Answered, Done,
             TryCandidate, AskProvider, Put
    <3> QED
      BY <1>2, <2>2, <3>1, <3>2
  <2> QED
    BY <2>3, <2>4
<1>5. ASSUME NEW p \in Peers, PeerJoins(p)
      PROVE  Goal
  <2>1. p \in Peers \ pool /\ pool' = pool \cup {p} /\ Met({p}, {})
        /\ at' = at /\ missing' = missing
    BY <1>5 DEF PeerJoins, locals
  <2> QED
    BY <2>1, MetOne
<1>6. ASSUME NEW p \in Peers, PeerQuits(p)
      PROVE  Goal
  <2>1. pool' \in SUBSET pool /\ strangers' = strangers /\ at' = at /\ missing' = missing
    BY <1>6 DEF PeerQuits, locals
  <2>2. nn <= n /\ nn \in Nat
    BY <1>1, <2>1, BucketGrows, BucketFinite, OnBucket
  <2> QED
    BY <1>1, <2>1, <2>2
<1>7. ASSUME NEW k \in Refreshes, Refresh(k)
      PROVE  Goal
  BY <1>2, <1>7 DEF Refresh, locals
<1>8. ASSUME UNCHANGED vars
      PROVE  Goal
  BY <1>2, <1>8 DEF vars
<1>9. Goal
  <2> HIDE DEF Goal
  <2> QED
    BY <1>3, <1>4, <1>5, <1>6, <1>7, <1>8 DEF Next
<1> QED
  BY <1>9

(* Only its refresh spawns a task, and what has ended stays where it is.   *)
LEMMA Spawning ==
    ASSUME TypeOK, OneOther, InBucket, Spawned, [Next]_vars,
           NEW u \in Tasks, ~ Task(u), at[u] = "none" \/ Ended(u)
    PROVE  /\ missing'[u] = missing[u] /\ strangers'[u] = strangers[u]
           /\ \/ at'[u] = at[u]
              \/ /\ at'[u] = "start" /\ Cardinality(PeersOnBucket(u[2])) < Size
                 /\ pool' = pool
<1>1. ASSUME NEW k \in Refreshes, LookAt(k), at'[u] # at[u]
      PROVE  /\ at'[u] = "start" /\ Cardinality(PeersOnBucket(u[2])) < Size
             /\ pool' = pool
  <2>1. PICK b : b = pos[k]
    OBVIOUS
  <2>2. /\ \A v \in Tasks : v # <<k, b>> => at'[v] = at[v]
        /\ at[<<k, b>>] = "none" /\ at'[<<k, b>>] \in {"none", "start"}
        /\ at'[<<k, b>>] = "start" <=> Cardinality(PeersOnBucket(b)) < Size
        /\ pool' = pool
    BY <1>1, <2>1, LooksAt
  <2>3. u = <<k, b>>
    BY <1>1, <2>2
  <2> QED
    BY <1>1, <2>2, <2>3
<1>2. ASSUME NEW t \in Tasks, Task(t)
      PROVE  at'[u] = at[u] /\ missing'[u] = missing[u] /\ strangers'[u] = strangers[u]
  <2>1. u # t
    BY <1>2
  <2>2. strangers'[u] = strangers[u]
    BY <1>2, <2>1, Typed
       DEF Task, FindProviders, CountMissing, Dialed, Met, NobodyListens, HandshakeFails,
           Answered, Done, TryCandidate, AskProvider, Put
  <2> QED
    BY <1>2, <2>1, <2>2, OwnOnly
<1>3. ASSUME NEW p \in Peers, PeerJoins(p) \/ PeerQuits(p)
      PROVE  at'[u] = at[u] /\ missing'[u] = missing[u] /\ strangers'[u] = strangers[u]
  BY <1>3 DEF PeerJoins, PeerQuits, Met, locals
<1>4. ASSUME NEW k \in Refreshes, Refresh(k) \/ LookAt(k)
      PROVE  missing'[u] = missing[u] /\ strangers'[u] = strangers[u] /\ (Refresh(k) => at' = at)
  BY <1>4 DEF Refresh, LookAt, locals
<1>5. CASE UNCHANGED vars
  BY <1>5 DEF vars
<1> QED
  BY <1>1, <1>2, <1>3, <1>4, <1>5 DEF Next

LEMMA RoomWhenCountingStep ==
    ASSUME TypeOK, OneOther, InBucket, Spawned, RoomWhenCounting, [Next]_vars
    PROVE  RoomWhenCounting'
<1> SUFFICES ASSUME NEW u \in Tasks, at'[u] \in {"start", "count"}
             PROVE  Cardinality(PeersOnBucket(u[2])') < Size + strangers'[u]
  BY DEF RoomWhenCounting
<1> DEFINE n == Cardinality(PeersOnBucket(u[2]))
           nn == Cardinality(PeersOnBucket(u[2])')
<1>1. /\ n \in Nat /\ strangers[u] \in Nat /\ Size \in Nat
      /\ strangers' \in [Tasks -> Nat] /\ pool' \in SUBSET Peers
      /\ at[u] \in {"start", "count"} => n < Size + strangers[u]
  BY Typed, BucketFinite, OnBucket, TypeStep DEF RoomWhenCounting, TypeOK
<1>2. nn \in Nat /\ strangers'[u] \in Nat
  BY <1>1, BucketFinite, OnBucket
<1>3. CASE Task(u)
  <2>1. FindProviders(u)
    BY <1>3, Typed DEF Task, FindProviders, CountMissing, Dialed, NobodyListens,
              HandshakeFails, Answered, Done, TryCandidate, AskProvider, Goto, Resume
  <2>2. at[u] = "start" /\ pool' = pool /\ strangers' = strangers
    BY <2>1 DEF FindProviders
  <2> QED
    BY <1>1, <2>2 DEF PeersOnBucket
<1>4. CASE ~ Task(u) /\ (at[u] = "none" \/ Ended(u))
  <2>1. n < Size /\ pool' = pool
    BY <1>4, Spawning DEF Ended
  <2> QED
    BY <1>1, <1>2, <2>1 DEF PeersOnBucket
<1>5. CASE ~ Task(u) /\ at[u] # "none" /\ ~ Ended(u)
  <2>1. at'[u] = at[u] /\ nn + strangers[u] <= n + strangers'[u]
    BY <1>5, RoomLost
  <2> QED
    BY <1>1, <1>2, <2>1
<1> QED
  BY <1>3, <1>4, <1>5

(* What a task does with its count.                                        *)
LEMMA OwnCount ==
    ASSUME TypeOK, OneOther, RoomWhenCounting, NEW t \in Tasks, Task(t)
    PROVE  \/ /\ at[t] = "count" /\ at'[t] = "loop" /\ pool' = pool
              /\ Cardinality(PeersOnBucket(t[2])) <= Size /\ strangers'[t] = 0
              /\ missing'[t] = Size - Cardinality(PeersOnBucket(t[2]))
              /\ old' = old
           \/ /\ at[t] = "count" /\ at'[t] \in {"loop", "panicked"} /\ pool' = pool
              /\ Cardinality(PeersOnBucket(t[2])) > Size
              /\ strangers'[t] = strangers[t] /\ strangers[t] >= 2
              /\ at'[t] = "loop" => missing'[t] = Wrap + Size - Cardinality(PeersOnBucket(t[2]))
              /\ old' = old
           \/ /\ Dialed(t) /\ at[t] = "dial" /\ at'[t] = "loop"
              /\ missing'[t] = missing[t] - 1 /\ strangers'[t] = strangers[t]
              /\ old' = old
           \/ /\ at[t] = "start" /\ at'[t] = "count" /\ missing' = missing
              /\ strangers' = strangers
           \/ /\ at[t] \in Running /\ at'[t] \in Running \cup {"failed", "done"}
              /\ pool' = pool /\ missing' = missing /\ strangers' = strangers
              /\ ~ Dialed(t)
<1> USE Typed
<1>1. CASE CountMissing(t)
  <2> DEFINE n == Cardinality(PeersOnBucket(t[2]))
  <2>1. /\ \/ /\ n <= Size /\ missing' = [missing EXCEPT ![t] = Size - n]
              /\ at' = [at EXCEPT ![t] = "loop"] /\ strangers' = [strangers EXCEPT ![t] = 0]
           \/ /\ n > Size /\ missing' = [missing EXCEPT ![t] = Wrap + Size - n]
              /\ at' = [at EXCEPT ![t] = "loop"] /\ strangers' = strangers
           \/ /\ n > Size /\ at' = [at EXCEPT ![t] = "panicked"] /\ strangers' = strangers
        /\ at[t] = "count" /\ old' = old /\ pool' = pool
    BY <1>1, Zenon DEF CountMissing, Put, Goto
  <2>2. n < Size + strangers[t]
    BY <2>1 DEF RoomWhenCounting
  <2>3. n \in Nat /\ Size \in Nat /\ strangers[t] \in Nat
    BY BucketFinite, OnBucket
  <2> HIDE DEF n
  <2>4. n > Size => strangers[t] >= 2
    BY <2>2, <2>3
  <2>5. CASE n <= Size /\ missing' = [missing EXCEPT ![t] = Size - n]
              /\ at' = [at EXCEPT ![t] = "loop"] /\ strangers' = [strangers EXCEPT ![t] = 0]
    <3>1. at'[t] = "loop" /\ missing'[t] = Size - n /\ strangers'[t] = 0
      BY <2>5
    <3> QED
      BY <2>1, <2>5, <3>1 DEF n
  <2>6. CASE n > Size /\ missing' = [missing EXCEPT ![t] = Wrap + Size - n]
              /\ at' = [at EXCEPT ![t] = "loop"] /\ strangers' = strangers
    <3>1. at'[t] = "loop" /\ missing'[t] = Wrap + Size - n /\ strangers'[t] = strangers[t]
      BY <2>6
    <3> QED
      BY <2>1, <2>4, <2>6, <3>1 DEF n
  <2>7. CASE n > Size /\ at' = [at EXCEPT ![t] = "panicked"] /\ strangers' = strangers
    <3>1. at'[t] = "panicked" /\ strangers'[t] = strangers[t]
      BY <2>7
    <3> QED
      BY <2>1, <2>4, <2>7, <3>1 DEF n
  <2> QED
    BY <2>1, <2>5, <2>6, <2>7
<1>2. CASE Dialed(t)
  <2>1. at[t] = "dial" /\ at'[t] = "loop" /\ missing'[t] = missing[t] - 1 /\ old' = old
    BY <1>2 DEF Dialed, Put, Resume, Goto
  <2>2. strangers'[t] = strangers[t]
    BY <1>2 DEF Dialed, Met
  <2> QED
    BY <1>2, <2>1, <2>2
<1>3. CASE FindProviders(t)
  BY <1>3 DEF FindProviders, Goto
<1>4. ASSUME ~ CountMissing(t), ~ Dialed(t), ~ FindProviders(t)
      PROVE  /\ at[t] \in Running /\ at'[t] \in Running \cup {"failed", "done"}
             /\ pool' = pool /\ missing' = missing /\ strangers' = strangers
  BY <1>4 DEF Task, NobodyListens, HandshakeFails, Answered, Done, TryCandidate, AskProvider,
              Goto, Resume, locals, Running
<1> QED
  BY <1>1, <1>2, <1>3, <1>4

LEMMA SubtractionFitsStep ==
    ASSUME TypeOK, OneOther, InBucket, Spawned, RoomWhenCounting, SubtractionFits, [Next]_vars
    PROVE  SubtractionFits'
<1> USE Typed
<1> SUFFICES ASSUME NEW u \in Tasks, at'[u] = "panicked" \/ missing'[u] > Size
             PROVE  strangers'[u] >= 2
  BY DEF SubtractionFits
<1>1. /\ missing[u] \in Nat /\ strangers[u] \in Nat /\ Size \in Nat
      /\ at[u] = "panicked" \/ missing[u] > Size => strangers[u] >= 2
      /\ Cardinality(PeersOnBucket(u[2])) \in Nat
  BY BucketFinite, OnBucket DEF SubtractionFits
<1>0. strangers'[u] \in Nat
  BY TypeStep DEF TypeOK
<1>2. CASE Task(u)
  <2>1. CASE at[u] = "count" /\ at'[u] = "loop" /\ missing'[u] = Size - Cardinality(PeersOnBucket(u[2]))
             /\ Cardinality(PeersOnBucket(u[2])) <= Size
    BY <1>1, <2>1
  <2>2. CASE strangers'[u] = strangers[u] /\ strangers[u] >= 2
    BY <2>2
  <2>3. CASE at'[u] = "loop" /\ missing'[u] = missing[u] - 1 /\ strangers'[u] = strangers[u]
    BY <1>1, <2>3
  <2>4. CASE /\ at'[u] \in Running \cup {"failed", "done", "count"}
             /\ missing' = missing /\ strangers' = strangers
    BY <1>1, <2>4 DEF Running
  <2> QED
    BY <1>2, <2>1, <2>2, <2>3, <2>4, OwnCount
<1>3. CASE ~ Task(u) /\ (at[u] = "none" \/ Ended(u))
  BY <1>1, <1>3, Spawning
<1>4. CASE ~ Task(u) /\ at[u] # "none" /\ ~ Ended(u)
  <2>1. at'[u] = at[u] /\ missing'[u] = missing[u] /\ strangers'[u] >= strangers[u]
    BY <1>4, RoomLost
  <2> QED
    BY <1>0, <1>1, <2>1
<1> QED
  BY <1>2, <1>3, <1>4

(* Peers are dialed that were not dialed before: see TryCandidate.         *)
LEMMA DialingTriedStep ==
    ASSUME TypeOK, OneOther, Spawned, DialingTried, [Next]_vars
    PROVE  DialingTried'
<1> USE Typed
<1> SUFFICES ASSUME NEW u \in Tasks
             PROVE  Dialing(u)' \subseteq old'[u]
  BY DEF DialingTried
<1>1. Dialing(u) \subseteq old[u]
  BY DEF DialingTried
<1>2. ASSUME NEW k \in Refreshes, LookAt(k)
      PROVE  Dialing(u)' \subseteq old'[u]
  <2>1. PICK b : b = pos[k]
    OBVIOUS
  <2>2. /\ \A v \in Tasks : v # <<k, b>> => at'[v] = at[v]
        /\ at'[<<k, b>>] \in {"none", "start"}
        /\ UNCHANGED locals
    BY <1>2, <2>1, LooksAt
  <2>3. Dialing(u)' \subseteq Dialing(u)
    BY <2>2 DEF Dialing, locals
  <2> QED
    BY <1>1, <2>2, <2>3 DEF locals
<1>3. ASSUME NEW t \in Tasks, Task(t)
      PROVE  Dialing(u)' \subseteq old'[u]
  <2>1. CASE u # t
    <3>1. at'[u] = at[u] /\ old'[u] = old[u] /\ other'[u] = other[u]
      BY <1>3, <2>1, OwnOnly
    <3> QED
      BY <1>1, <3>1 DEF Dialing
  <2>2. CASE u = t
    <3>1. ASSUME NEW c \in Peers, TryCandidate(t, c)
          PROVE  Dialing(t)' \subseteq old'[t]
      BY <3>1 DEF TryCandidate, Goto, Put, Dialing
    <3>2. ASSUME \A c \in Peers : ~ TryCandidate(t, c)
          PROVE  Dialing(t)' = {}
      <4>1. at'[t] # "dial"
        BY <1>3, <3>2 DEF Task, FindProviders, CountMissing, Dialed, NobodyListens,
                HandshakeFails, Answered, Done, AskProvider, Goto, Resume
      <4> QED
        BY <4>1 DEF Dialing
    <3> QED
      BY <2>2, <3>1, <3>2
  <2> QED
    BY <2>1, <2>2
<1>4. CASE UNCHANGED <<at, old, other>>
  BY <1>1, <1>4 DEF Dialing
<1> QED
  BY <1>2, <1>3, <1>4, Moves DEF Next, Refresh, locals, vars

(* The peers a task has tried grow in number.                              *)
LEMMA TriedGrows ==
    ASSUME TypeOK, OneOther, DialingTried, NEW t \in Tasks, Task(t), at[t] \in Running
    PROVE  /\ IsFiniteSet(Peers) /\ Cardinality(Peers) \in Nat
           /\ Cardinality(Tried(t)) \in Nat /\ Cardinality(Tried(t)') \in Nat
           /\ Cardinality(Tried(t)) <= Cardinality(Tried(t)')
           /\ Dialed(t) => /\ Cardinality(Tried(t)') = Cardinality(Tried(t)) + 1
                           /\ Cardinality(Tried(t)') <= Cardinality(Peers)
<1> USE Typed
<1>1. Tried(t) \subseteq Tried(t)'
  <2> USE DEF Tried, Dialing, Goto, Resume, Put
  <2>1. CASE FindProviders(t) \/ CountMissing(t)
    BY <2>1 DEF FindProviders, CountMissing, Running
  <2>2. CASE Dialed(t) \/ NobodyListens(t) \/ HandshakeFails(t)
    BY <2>2 DEF Dialed, NobodyListens, HandshakeFails
  <2>3. CASE Answered(t) \/ Done(t)
    BY <2>3 DEF Answered, Done, locals
  <2>4. ASSUME NEW c \in Peers, TryCandidate(t, c)
        PROVE  Tried(t) \subseteq Tried(t)'
    <3>1. at[t] = "loop" /\ old'[t] = old[t] \cup {c}
      BY <2>4 DEF TryCandidate
    <3>2. (at'[t] = "loop") \/ (c \notin old[t] /\ other'[t] = {c})
      BY <2>4, <3>1 DEF TryCandidate
    <3> QED
      BY <3>1, <3>2
  <2>5. ASSUME NEW p \in Peers, AskProvider(t, p)
        PROVE  Tried(t) \subseteq Tried(t)'
    BY <2>5 DEF AskProvider
  <2> QED
    BY <2>1, <2>2, <2>3, <2>4, <2>5 DEF Task
<1>2. IsFiniteSet(Peers) /\ Cardinality(Peers) \in Nat
  BY DiscoveryAssumption, FS_CardinalityType
<1>3. Tried(t) \in SUBSET Peers /\ Tried(t)' \in SUBSET Peers
  BY TypeTask DEF Tried, TypeOK
<1>4. /\ IsFiniteSet(Tried(t)) /\ IsFiniteSet(Tried(t)')
      /\ Cardinality(Tried(t)) \in Nat /\ Cardinality(Tried(t)') \in Nat
      /\ Cardinality(Tried(t)') <= Cardinality(Peers)
  BY <1>2, <1>3, FS_Subset, FS_CardinalityType
<1>5. Cardinality(Tried(t)) <= Cardinality(Tried(t)')
  BY <1>1, <1>4, FS_Subset
<1>6. ASSUME Dialed(t)
      PROVE  Cardinality(Tried(t)') = Cardinality(Tried(t)) + 1
  <2>1. /\ at[t] = "dial" /\ at'[t] = "loop" /\ old' = old
    BY <1>6 DEF Dialed, Resume, Goto
  <2>2. PICK c \in Peers : other[t] = {c}
    BY <2>1 DEF OneOther
  <2>3. c \in old[t]
    BY <2>1, <2>2 DEF DialingTried, Dialing
  <2>4. Tried(t)' = Tried(t) \cup {c} /\ c \notin Tried(t)
    BY <2>1, <2>2, <2>3 DEF Tried, Dialing
  <2> QED
    BY <1>4, <2>4, FS_AddElement
<1> QED
  BY <1>2, <1>4, <1>5, <1>6

(* What was tried does not change where others step.                       *)
LEMMA TriedKeeps ==
    ASSUME TypeOK, OneOther, InBucket, Spawned, [Next]_vars,
           NEW u \in Tasks, ~ Task(u), at[u] # "none", ~ Ended(u)
    PROVE  Tried(u)' = Tried(u)
<1>1. ASSUME NEW t \in Tasks, Task(t)
      PROVE  old'[u] = old[u] /\ other'[u] = other[u]
  BY <1>1, OwnOnly
<1>2. at'[u] = at[u]
  BY RoomLost
<1>3. old'[u] = old[u] /\ other'[u] = other[u]
  BY <1>1 DEF Next, Refresh, LookAt, PeerJoins, PeerQuits, locals, vars
<1> QED
  BY <1>2, <1>3 DEF Tried, Dialing

LEMMA WrappedStep ==
    ASSUME TypeOK, OneOther, InBucket, Spawned, RoomWhenCounting, DialingTried, Wrapped, [Next]_vars
    PROVE  Wrapped'
<1> USE Typed
<1> SUFFICES ASSUME NEW u \in Tasks, at'[u] \in Running, missing'[u] > Size
             PROVE  missing'[u] + Cardinality(Tried(u)') > Size + Cardinality(Peers)
  BY DEF Wrapped
<1>1. /\ missing[u] \in Nat /\ Size \in Nat
      /\ at[u] \in Running /\ missing[u] > Size =>
            missing[u] + Cardinality(Tried(u)) > Size + Cardinality(Peers)
  BY DEF Wrapped
<1>2. CASE Task(u) /\ at[u] \in Running
  <2>1. /\ Cardinality(Peers) \in Nat
        /\ Cardinality(Tried(u)) \in Nat /\ Cardinality(Tried(u)') \in Nat
        /\ Cardinality(Tried(u)) <= Cardinality(Tried(u)')
        /\ Dialed(u) => Cardinality(Tried(u)') = Cardinality(Tried(u)) + 1
    BY <1>2, TriedGrows
  <2>2. \/ Dialed(u) /\ missing'[u] = missing[u] - 1
        \/ missing'[u] = missing[u]
    BY <1>2, OwnCount DEF Running
  <2> QED
    BY <1>1, <1>2, <2>1, <2>2
<1>3. CASE Task(u) /\ at[u] \notin Running
  <2> DEFINE n == Cardinality(PeersOnBucket(u[2]))
  <2>1. n \in Nat /\ n <= Cardinality(Peers) /\ Cardinality(Peers) \in Nat /\ IsFiniteSet(Peers)
    BY BucketFinite, OnBucket, DiscoveryAssumption
  <2>2. at[u] = "count" /\ (missing'[u] = Size - n \/ missing'[u] = Wrap + Size - n)
    BY <1>3, OwnCount DEF Running
  <2>3. Tried(u)' \in SUBSET Peers
    BY <1>3, TypeTask DEF Tried, TypeOK
  <2>4. Cardinality(Tried(u)') \in Nat
    BY <2>1, <2>3, FS_Subset, FS_CardinalityType
  <2>5. Wrap \in Nat /\ Wrap > 2 * Cardinality(Peers)
    BY DiscoveryAssumption
  <2> HIDE DEF n
  <2> QED
    BY <1>1, <2>1, <2>2, <2>4, <2>5
<1>4. CASE ~ Task(u) /\ (at[u] = "none" \/ Ended(u))
  BY <1>4, Spawning DEF Running, Ended
<1>5. CASE ~ Task(u) /\ at[u] # "none" /\ ~ Ended(u)
  BY <1>1, <1>5, RoomLost, TriedKeeps
<1> QED
  BY <1>2, <1>3, <1>4, <1>5

LEMMA NotOverfilledStep ==
    ASSUME TypeOK, OneOther, InBucket, Spawned, RoomWhenCounting, DialingTried, Wrapped,
           NotOverfilled, [Next]_vars
    PROVE  NotOverfilled'
<1> USE Typed
<1> SUFFICES ASSUME NEW u \in Tasks, at'[u] \in Running, missing'[u] <= Size
             PROVE  Cardinality(PeersOnBucket(u[2])') + missing'[u] <= Size + strangers'[u]
  BY DEF NotOverfilled, Running
<1> DEFINE n == Cardinality(PeersOnBucket(u[2]))
           nn == Cardinality(PeersOnBucket(u[2])')
<1>1. /\ missing[u] \in Nat /\ Size \in Nat /\ strangers[u] \in Nat /\ n \in Nat
      /\ at[u] \in Running /\ missing[u] <= Size => n + missing[u] <= Size + strangers[u]
  BY BucketFinite, OnBucket DEF NotOverfilled, Running
<1>2. TypeOK' /\ strangers'[u] \in Nat /\ nn \in Nat
  <2>1. TypeOK'
    BY TypeStep
  <2>2. pool' \in SUBSET Peers /\ strangers'[u] \in Nat
    BY <2>1 DEF TypeOK
  <2> QED
    BY <2>1, <2>2, BucketFinite, OnBucket
<1>3. CASE Task(u)
  <2>1. CASE /\ n <= Size /\ missing'[u] = Size - n /\ pool' = pool
    <3>1. nn = n
      BY <2>1 DEF PeersOnBucket
    <3> QED
      BY <1>1, <1>2, <2>1, <3>1
  <2>2. CASE /\ n > Size /\ at[u] = "count" /\ missing'[u] = Wrap + Size - n
    <3>1. n <= Cardinality(Peers) /\ Cardinality(Peers) \in Nat
      BY BucketFinite, OnBucket
    <3>2. Wrap \in Nat /\ Wrap > 2 * Cardinality(Peers)
      BY DiscoveryAssumption
    <3> QED
      BY <1>1, <2>2, <3>1, <3>2
  <2>3. CASE Dialed(u) /\ missing'[u] = missing[u] - 1 /\ strangers'[u] = strangers[u]
    <3>1. PICK c \in Peers \ pool :
              /\ BucketOf[c] = u[2] /\ pool' = pool \cup {c} /\ at[u] = "dial" /\ missing[u] > 0
      BY <2>3, DialedOne
    <3>2. nn = n + 1
      BY <3>1, BucketJoined, OnBucket
    <3>3. missing[u] <= Size
      <4>1. /\ Cardinality(Peers) \in Nat
            /\ Cardinality(Tried(u)) \in Nat
            /\ Cardinality(Tried(u)') = Cardinality(Tried(u)) + 1
            /\ Cardinality(Tried(u)') <= Cardinality(Peers)
        BY <1>3, <2>3, <3>1, TriedGrows DEF Running
      <4>2. missing[u] > Size => missing[u] + Cardinality(Tried(u)) > Size + Cardinality(Peers)
        BY <3>1 DEF Wrapped, Running
      <4> QED
        BY <1>1, <2>3, <4>1, <4>2
    <3> QED
      BY <1>1, <2>3, <3>1, <3>2, <3>3 DEF Running
  <2>4. CASE /\ at[u] \in Running
             /\ pool' = pool /\ missing' = missing /\ strangers' = strangers
    BY <1>1, <2>4 DEF PeersOnBucket
  <2> HIDE DEF n, nn
  <2>5. \/ n <= Size /\ missing'[u] = Size - n /\ pool' = pool
        \/ n > Size /\ at[u] = "count" /\ missing'[u] = Wrap + Size - n
        \/ Dialed(u) /\ missing'[u] = missing[u] - 1 /\ strangers'[u] = strangers[u]
        \/ /\ at[u] \in Running
           /\ pool' = pool /\ missing' = missing /\ strangers' = strangers
    BY <1>3, OwnCount DEF Running, n
  <2> QED
    BY <2>1, <2>2, <2>3, <2>4, <2>5
<1>4. CASE ~ Task(u) /\ (at[u] = "none" \/ Ended(u))
  BY <1>4, Spawning DEF Running, Ended
<1>5. CASE ~ Task(u) /\ at[u] # "none" /\ ~ Ended(u)
  <2>1. /\ at'[u] = at[u] /\ missing'[u] = missing[u]
        /\ nn + strangers[u] <= n + strangers'[u]
    BY <1>5, RoomLost
  <2> QED
    BY <1>1, <1>2, <2>1
<1> QED
  BY <1>3, <1>4, <1>5
-----------------------------------------------------------------------------
LEMMA TriedKeptStep ==
    ASSUME TypeOK, OneOther, Spawned, TriedKept, [Next]_vars
    PROVE  TriedKept'
<1> USE Typed
<1> SUFFICES ASSUME moves' = 0, NEW u \in Tasks, at'[u] \in Under
             PROVE  old'[u] \subseteq Unreachable \cup pool' \cup Dialing(u)'
  BY DEF TriedKept
<1>1. moves = 0 /\ pool \subseteq pool'
  BY NoMoves
<1>2. at[u] \in Under => old[u] \subseteq Unreachable \cup pool \cup Dialing(u)
  BY <1>1 DEF TriedKept
<1>3. ASSUME at'[u] = at[u], old'[u] = old[u], other'[u] = other[u]
      PROVE  old'[u] \subseteq Unreachable \cup pool' \cup Dialing(u)'
  BY <1>1, <1>2, <1>3 DEF Dialing
<1>4. ASSUME NEW k \in Refreshes, LookAt(k)
      PROVE  old'[u] \subseteq Unreachable \cup pool' \cup Dialing(u)'
  <2>1. PICK b : b = pos[k]
    OBVIOUS
  <2>2. /\ \A v \in Tasks : v # <<k, b>> => at'[v] = at[v]
        /\ at'[<<k, b>>] \in {"none", "start"}
        /\ UNCHANGED locals
    BY <1>4, <2>1, LooksAt
  <2>3. u # <<k, b>>
    BY <2>2 DEF Under
  <2> QED
    BY <1>3, <2>2, <2>3 DEF locals
<1>5. ASSUME NEW t \in Tasks, Task(t)
      PROVE  old'[u] \subseteq Unreachable \cup pool' \cup Dialing(u)'
  <2>1. CASE u # t
    BY <1>3, <1>5, <2>1, OwnOnly
  <2>2. CASE u = t
    <3> USE DEF Goto, Resume, Put, Dialing, Under
    <3>1. CASE FindProviders(t)
      BY <2>2, <3>1 DEF FindProviders
    <3>2. CASE CountMissing(t)
      <4>1. old'[t] = {}
        BY <3>2 DEF CountMissing, OneOther, Fresh
      <4> QED
        BY <2>2, <4>1
    <3>3. CASE Dialed(t)
      <4>1. at[t] = "dial" /\ old' = old /\ pool' = pool \cup other[t]
        BY <3>3 DEF Dialed
      <4> QED
        BY <1>2, <2>2, <4>1
    <3>4. CASE NobodyListens(t)
      <4>1. at[t] = "dial" /\ old' = old /\ pool' = pool /\ other[t] \subseteq Unreachable
        BY <3>4 DEF NobodyListens
      <4> QED
        BY <1>2, <2>2, <4>1
    <3>5. CASE HandshakeFails(t)
      BY <2>2, <3>5 DEF HandshakeFails
    <3>6. CASE Answered(t) \/ Done(t)
      <4>1. at[t] \in {"wait", "loop"} /\ old' = old
        BY <3>6 DEF Answered, Done, locals
      <4> QED
        BY <1>1, <1>2, <2>2, <4>1
    <3>7. ASSUME NEW c \in Peers, TryCandidate(t, c)
          PROVE  old'[u] \subseteq Unreachable \cup pool' \cup Dialing(u)'
      <4>1. at[t] = "loop" /\ old'[t] = old[t] \cup {c} /\ pool' = pool
        BY <3>7 DEF TryCandidate
      <4>2. old[t] \subseteq Unreachable \cup pool
        BY <1>2, <2>2, <4>1
      <4>3. \/ c \in old[t] \cup pool
            \/ at'[t] = "dial" /\ other'[t] = {c}
        BY <3>7 DEF TryCandidate
      <4> QED
        BY <2>2, <4>1, <4>2, <4>3
    <3>8. ASSUME NEW p \in Peers, AskProvider(t, p)
          PROVE  old'[u] \subseteq Unreachable \cup pool' \cup Dialing(u)'
      <4>1. at[t] = "loop" /\ old' = old
        BY <3>8 DEF AskProvider
      <4> QED
        BY <1>1, <1>2, <2>2, <4>1
    <3> QED
      BY <1>5, <3>1, <3>2, <3>3, <3>4, <3>5, <3>6, <3>7, <3>8 DEF Task
  <2> QED
    BY <2>1, <2>2
<1>6. ASSUME NEW k \in Refreshes, Refresh(k)
      PROVE  old'[u] \subseteq Unreachable \cup pool' \cup Dialing(u)'
  BY <1>3, <1>6 DEF Refresh, locals
<1>7. ASSUME NEW p \in Peers, PeerJoins(p) \/ PeerQuits(p)
      PROVE  old'[u] \subseteq Unreachable \cup pool' \cup Dialing(u)'
  BY <1>7, Moves
<1>8. CASE UNCHANGED vars
  BY <1>3, <1>8 DEF vars
<1> QED
  BY <1>4, <1>5, <1>6, <1>7, <1>8 DEF Next

LEMMA MinOfTwo ==
    ASSUME NEW m \in Nat, NEW n \in Nat, n <= m
    PROVE  Min({m, n}) = n
<1>1. n \in {m, n} /\ \A y \in {m, n} : n <= y
  OBVIOUS
<1>2. \A x \in {m, n} : (\A y \in {m, n} : x <= y) => x = n
  OBVIOUS
<1> QED
  BY <1>1, <1>2 DEF Min

(* An answer that is not cut short holds all that was offered.             *)
LEMMA AllAnswered ==
    ASSUME TypeOK, AnswersWhole, NEW t \in Tasks, Answered(t),
           NEW p \in Peers, other[t] = {p}
    PROVE  candidates'[t] = {q \in knows[p] : BucketOf[q] = t[2]}
<1> USE Typed
<1> DEFINE matching == {q \in UNION {knows[x] : x \in other[t]} : BucketOf[q] = t[2]}
<1>1. PICK peers \in kSubset(Min({MaxReturned, Cardinality(matching)}), matching) :
          candidates' = [candidates EXCEPT ![t] = peers]
  BY DEF Answered, Put
<1>2. matching = {q \in knows[p] : BucketOf[q] = t[2]}
  OBVIOUS
<1>3. matching \in SUBSET Within(Peers, t[2])
  BY <1>2 DEF Within
<1>4. /\ IsFiniteSet(matching) /\ Cardinality(matching) \in Nat
      /\ Cardinality(matching) <= Cardinality(Within(Peers, t[2]))
      /\ Cardinality(Within(Peers, t[2])) \in Nat
  <2>1. IsFiniteSet(Within(Peers, t[2])) /\ Cardinality(Within(Peers, t[2])) \in Nat
    BY BucketFinite
  <2> QED
    BY <1>3, <2>1, FS_Subset, FS_CardinalityType
<1>5. Cardinality(Within(Peers, t[2])) <= MaxReturned /\ MaxReturned \in Nat
  BY DiscoveryAssumption DEF AnswersWhole, Within, Tasks
<1>6. Min({MaxReturned, Cardinality(matching)}) = Cardinality(matching)
  BY <1>4, <1>5, MinOfTwo
<1>7. peers \in SUBSET matching /\ Cardinality(peers) = Cardinality(matching)
  BY <1>1, <1>6, Zenon DEF kSubset
<1>8. peers = matching
  BY <1>4, <1>7, FS_Subset
<1> QED
  BY <1>1, <1>2, <1>8

LEMMA OfferedStep ==
    ASSUME TypeOK, OneOther, Spawned, BeforeKept, TriedKept, AnswersWhole, Offered, [Next]_vars
    PROVE  Offered'
<1> USE Typed
<1> SUFFICES ASSUME moves' = 0, NEW u \in Tasks, NEW p \in before',
                    at'[u] \in Under \cup {"count"}, Level(BucketOf[p]) <= Level(u[2])
             PROVE  \/ p \in providers'[u]
                    \/ at'[u] = "wait" /\ other'[u] = {p}
                    \/ Offer(p, u[2])' \subseteq pool' \cup candidates'[u] \cup Dialing(u)'
  BY DEF Offered
<1> DEFINE O == Offer(p, u[2])
           Goal == \/ p \in providers'[u]
                   \/ at'[u] = "wait" /\ other'[u] = {p}
                   \/ O \subseteq pool' \cup candidates'[u] \cup Dialing(u)'
<1>1. /\ moves = 0 /\ pool \subseteq pool' /\ p \in before /\ p \in pool /\ p \in Peers
      /\ Offer(p, u[2])' = O
  BY NoMoves DEF BeforeKept, Offer
<1>2. at[u] \in Under \cup {"count"} =>
         \/ p \in providers[u]
         \/ at[u] = "wait" /\ other[u] = {p}
         \/ O \subseteq pool \cup candidates[u] \cup Dialing(u)
  BY <1>1 DEF Offered
<1>3. O \cap Unreachable = {} /\ O \subseteq {q \in knows[p] : BucketOf[q] = u[2]}
  BY DEF Offer
<1> HIDE DEF O
<1>4. ASSUME at'[u] = at[u], candidates'[u] = candidates[u], providers'[u] = providers[u],
             other'[u] = other[u]
      PROVE  Goal
  BY <1>1, <1>2, <1>4 DEF Dialing
<1>5. ASSUME NEW k \in Refreshes, LookAt(k)
      PROVE  Goal
  <2>1. PICK b : b = pos[k]
    OBVIOUS
  <2>2. /\ \A v \in Tasks : v # <<k, b>> => at'[v] = at[v]
        /\ at'[<<k, b>>] \in {"none", "start"}
        /\ UNCHANGED locals
    BY <1>5, <2>1, LooksAt
  <2>3. u # <<k, b>>
    BY <2>2 DEF Under
  <2> QED
    BY <1>4, <2>2, <2>3 DEF locals
<1>6. ASSUME NEW t \in Tasks, Task(t)
      PROVE  Goal
  <2>1. CASE u # t
    BY <1>4, <1>6, <2>1, OwnOnly
  <2>2. CASE u = t
    <3> USE DEF Goto, Resume, Put, Under
    <3>1. CASE FindProviders(t)
      <4>1. providers'[t] = PeersOnBucketAndUnder(t[2])
        BY <3>1 DEF FindProviders
      <4> QED
        BY <1>1, <2>2, <4>1 DEF PeersOnBucketAndUnder
    <3>2. CASE CountMissing(t) \/ Done(t)
      <4>1. /\ at[t] \in {"count", "loop"} /\ at'[t] # "dial"
            /\ candidates' = candidates /\ providers' = providers
        BY <3>2 DEF CountMissing, Done, locals
      <4> QED
        BY <1>1, <1>2, <2>2, <4>1 DEF Dialing
    <3>3. CASE Dialed(t)
      <4>1. /\ at[t] = "dial" /\ pool' = pool \cup other[t]
            /\ candidates' = candidates /\ providers' = providers
        BY <3>3 DEF Dialed
      <4> QED
        BY <1>1, <1>2, <2>2, <4>1 DEF Dialing
    <3>4. CASE NobodyListens(t)
      <4>1. /\ at[t] = "dial" /\ pool' = pool /\ other[t] \subseteq Unreachable
            /\ candidates' = candidates /\ providers' = providers
        BY <3>4 DEF NobodyListens
      <4> QED
        BY <1>2, <1>3, <2>2, <4>1 DEF Dialing
    <3>5. CASE HandshakeFails(t)
      BY <2>2, <3>5 DEF HandshakeFails
    <3>6. CASE Answered(t)
      <4>1. at[t] = "wait" /\ at'[t] = "loop" /\ providers' = providers
        BY <3>6 DEF Answered
      <4>2. CASE other[t] = {p}
        <5>1. candidates'[t] = {q \in knows[p] : BucketOf[q] = t[2]}
          BY <1>1, <3>6, <4>2, AllAnswered
        <5> QED
          BY <1>3, <2>2, <5>1
      <4>3. CASE other[t] # {p}
        <5>1. candidates[t] = {}
          BY <4>1 DEF OneOther
        <5> QED
          BY <1>1, <1>2, <2>2, <4>1, <4>3, <5>1 DEF Dialing
      <4> QED
        BY <4>2, <4>3
    <3>7. ASSUME NEW c \in Peers, TryCandidate(t, c)
          PROVE  Goal
      <4>1. /\ at[t] = "loop" /\ candidates'[t] = candidates[t] \ {c} /\ pool' = pool
            /\ providers' = providers
        BY <3>7 DEF TryCandidate
      <4>2. \/ c \in old[t] \cup pool
            \/ at'[t] = "dial" /\ other'[t] = {c}
        BY <3>7 DEF TryCandidate
      <4>3. old[t] \subseteq Unreachable \cup pool
        BY <1>1, <4>1 DEF TriedKept, Dialing
      <4>4. p \in providers[t] \/ O \subseteq pool \cup candidates[t]
        BY <1>2, <2>2, <4>1 DEF Dialing
      <4>5. c \in O => c \in pool \/ (at'[t] = "dial" /\ other'[t] = {c})
        BY <1>3, <4>2, <4>3
      <4> QED
        BY <2>2, <4>1, <4>4, <4>5 DEF Dialing
    <3>8. ASSUME NEW q \in Peers, AskProvider(t, q)
          PROVE  Goal
      <4>1. /\ at[t] = "loop" /\ at'[t] = "wait" /\ other'[t] = {q} /\ pool' = pool
            /\ candidates' = candidates /\ providers'[t] = providers[t] \ {q}
        BY <3>8 DEF AskProvider
      <4> QED
        BY <1>2, <2>2, <4>1 DEF Dialing
    <3> QED
      BY <1>6, <3>1, <3>2, <3>3, <3>4, <3>5, <3>6, <3>7, <3>8 DEF Task
  <2> QED
    BY <2>1, <2>2
<1>7. ASSUME NEW k \in Refreshes, Refresh(k)
      PROVE  Goal
  BY <1>4, <1>7 DEF Refresh, locals
<1>8. ASSUME NEW q \in Peers, PeerJoins(q) \/ PeerQuits(q)
      PROVE  FALSE
  BY <1>8, Moves
<1>9. ASSUME UNCHANGED vars
      PROVE  Goal
  BY <1>4, <1>9 DEF vars
<1>10. Goal
  <2> HIDE DEF Goal
  <2> QED
    BY <1>5, <1>6, <1>7, <1>8, <1>9 DEF Next
<1> QED
  BY <1>1, <1>10
-----------------------------------------------------------------------------
LEMMA IndInvInit == Init => IndInv
<1> SUFFICES ASSUME Init
             PROVE  IndInv
  OBVIOUS
<1> USE DiscoveryAssumption DEF Init
<1>1. knows \in [Peers -> SUBSET Peers]
  BY DEF kSubset
<1>2. TypeOK
  <2>1. /\ providers \in [Tasks -> SUBSET Peers] /\ candidates \in [Tasks -> SUBSET Peers]
        /\ old \in [Tasks -> SUBSET Peers] /\ other \in [Tasks -> SUBSET Peers]
    OBVIOUS
  <2>2. 0 \in 0 .. Wrap /\ 0 \in 0 .. MaxMoves /\ -1 \in -1 .. LastBucket + 1
    OBVIOUS
  <2>3. missing \in [Tasks -> 0 .. Wrap]
    BY <2>2
  <2>4. pos \in [Refreshes -> -1 .. LastBucket + 1]
    BY <2>2
  <2> QED
    BY <1>1, <2>1, <2>2, <2>3, <2>4 DEF TypeOK
<1>3. \A t \in Tasks : at[t] = "none" /\ candidates[t] = {} /\ old[t] = {} /\ missing[t] = 0
  OBVIOUS
<1>4. \A k \in Refreshes, b \in Buckets : <<k, b>> \in Tasks
  BY DEF Tasks
<1>5. OneOther
  BY <1>3 DEF OneOther
<1>6. InBucket
  BY <1>3 DEF InBucket, Dialing
<1>7. Spawned
  BY <1>3, <1>4 DEF Spawned
<1>8. LookedAt
  <2>1. \A k \in Refreshes, b \in Buckets : ~ (b < pos[k])
    BY DEF Buckets
  <2> QED
    BY <2>1 DEF LookedAt
<1>9. BeforeKept
  BY DEF BeforeKept
<1>10. RoomWhenCounting /\ TriedKept /\ Offered /\ DialingTried
  BY <1>3 DEF RoomWhenCounting, TriedKept, Offered, Under, DialingTried, Dialing
<1>11. SubtractionFits
  BY <1>3 DEF SubtractionFits
<1>12. NotOverfilled /\ Wrapped
  BY <1>3 DEF NotOverfilled, Wrapped, Running
<1> QED
  BY <1>2, <1>5, <1>6, <1>7, <1>8, <1>9, <1>10, <1>11, <1>12 DEF IndInv

LEMMA IndInvNext == IndInv /\ [Next]_vars => IndInv'
<1> SUFFICES ASSUME IndInv, [Next]_vars
             PROVE  IndInv'
  OBVIOUS
<1> USE DEF IndInv
<1>1. TypeOK' /\ OneOther' /\ Spawned'
  BY TypeStep, OneOtherStep, SpawnedStep
<1>2. InBucket' /\ BeforeKept' /\ LookedAt'
  BY InBucketStep, BeforeKeptStep, LookedAtStep
<1>3. RoomWhenCounting' /\ SubtractionFits' /\ NotOverfilled'
  BY RoomWhenCountingStep, SubtractionFitsStep, NotOverfilledStep
<1>6. DialingTried' /\ Wrapped'
  BY DialingTriedStep, WrappedStep
<1>4. TriedKept' /\ (AnswersWhole => Offered')
  BY TriedKeptStep, OfferedStep
<1>5. (AnswersWhole => Offered)'
  BY <1>4 DEF AnswersWhole
<1> QED
  BY <1>1, <1>2, <1>3, <1>4, <1>5, <1>6

THEOREM Invariance == Spec => []IndInv
<1> QED
  BY IndInvInit, IndInvNext, PTL DEF Spec

(* The types of the pool, of the refreshes and of their tasks; `missing`   *)
(* is never below 0, whatever the subtraction did.                         *)
THEOREM TypeCorrect == Spec => []TypeOK
<1>1. IndInv => TypeOK
  BY DEF IndInv
<1> QED
  BY <1>1, Invariance, PTL

(* Every bucket down to the first empty one gets a task if it is missing   *)
(* peers when the refresh is over (refresh_buckets).                       *)
THEOREM AllCovered == Spec => []RefreshCovers
<1>1. IndInv => RefreshCovers
  <2> SUFFICES ASSUME IndInv, moves = 0, NEW k \in Refreshes, NEW b \in Buckets,
                      pos[k] = LastBucket + 1,
                      Cardinality(PeersOnBucket(b)) < Size,
                      \A c \in 0 .. b - 1 : \E p \in before : BucketOf[p] = c
               PROVE  at[<<k, b>>] # "none"
    BY DEF RefreshCovers
  <2>1. b < pos[k]
    BY DiscoveryAssumption DEF Buckets
  <2> QED
    BY <2>1 DEF IndInv, LookedAt
<1> QED
  BY <1>1, Invariance, PTL

(* KADEMLIA_BUCKET_SIZE - peers.len() overflows in a task only if two      *)
(* peers or more have connected to its bucket, by themselves or through    *)
(* other refreshes, since the refresh that spawned it looked; for any      *)
(* number of refreshes that overlap and of peers that come and go.         *)
THEOREM UnderflowNeedsTwo == Spec => []SubtractionFits
<1>1. IndInv => SubtractionFits
  BY DEF IndInv
<1> QED
  BY <1>1, Invariance, PTL

(* A task fills its bucket beyond the size by no more peers than others    *)
(* have connected to it since the task counted, however many refreshes and *)
(* moves there are; without others it never does.                          *)
THEOREM NoneOverfilled == Spec => []NotOverfilled
<1>1. IndInv => NotOverfilled
  BY DEF IndInv
<1> QED
  BY <1>1, Invariance, PTL

(* discover_peers_in_bucket() connects to all peers of the bucket that the *)
(* peers it may ask know of and that can be reached, or fills the bucket,  *)
(* if no bucket has more peers than an answer may hold.                    *)
THEOREM NoneOverlooked ==
    ASSUME AnswersWhole
    PROVE  Spec => []NothingOverlooked
<1>1. IndInv => NothingOverlooked
  <2> SUFFICES ASSUME IndInv, moves = 0, NEW t \in Tasks, at[t] = "done", missing[t] > 0,
                      NEW p \in before, NEW q \in Peers \ Unreachable,
                      Level(BucketOf[p]) <= Level(t[2]), q \in knows[p], BucketOf[q] = t[2]
               PROVE  q \in pool
    BY DEF NothingOverlooked
  <2>1. candidates[t] = {} /\ providers[t] = {}
    BY DEF IndInv, OneOther
  <2>2. Offer(p, t[2]) \subseteq pool \cup candidates[t] \cup Dialing(t)
    BY <2>1 DEF IndInv, Offered, Under
  <2>3. q \in Offer(p, t[2])
    BY DEF Offer
  <2> QED
    BY <2>1, <2>2, <2>3 DEF Dialing
<1> QED
  BY <1>1, Invariance, PTL
=============================================================================
