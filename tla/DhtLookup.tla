----------------------------- MODULE DhtLookup -----------------------------
(***************************************************************************)
(* dht_lookup() of src/src/node/dht.rs: up to Alpha providers are asked at *)
(* a time, the closest to the key first; each answers with the value or    *)
(* with the peers it knows that are closest to the key, which become       *)
(* providers.  A provider that is not connected is dialled for the time of *)
(* the request.                                                            *)
(*                                                                         *)
(* A node is named by its distance to the key, which no two nodes share:   *)
(* 0 is the node whose ID is the key.  `providers` is a vector that is     *)
(* sorted whenever the code looks at it, and popped at its closest end: a  *)
(* set here.                                                               *)
(***************************************************************************)
EXTENDS Integers, FiniteSets, FiniteSetsExt

CONSTANTS
    Peers,          \* the other nodes
    Self,           \* our own node, whom the peers we are connected to know too
    Alpha,          \* KADEMLIA_ALPHA
    MaxReturned,    \* MAX_DHT_PEERS_RETURNED
    Broken,         \* peers that cannot be connected to
    Moving          \* peers that connect to us, quit and get the value by themselves

Nodes == Peers \cup {Self}

ASSUME LookupAssumption ==
    /\ Nodes \subseteq Nat /\ IsFiniteSet(Nodes)
    /\ Self \notin Peers
    /\ {Alpha, MaxReturned} \subseteq Nat \ {0}
    /\ Broken \subseteq Peers /\ Moving \subseteq Peers

VARIABLES
    knows,          \* knows[p]: the nodes in the pool of p, other than us
    holders,        \* the peers whose DhtStore has values for the key
    pool,           \* the peers in our own pool
    before,         \* history: the pool at the beginning
    moved,          \* history: the peers that have moved
    providers,      \* `providers`
    queried,        \* `already_queried`
    complete,       \* `should_complete`
    at,             \* at[p]: where dht_lookup_on_single_provider(p) is
    outcome,        \* outcome[p]: what it returns
    dialled,        \* the lookups that have dialled their provider
    opened,         \* history: the connections opened that way that are still up
    wire,           \* the peers on whose connection our request or its answer is
    result          \* what dht_lookup() returns

vars == <<knows, holders, pool, before, moved, providers, queried, complete, at, outcome, dialled, opened, wire, result>>
world == <<knows, holders, before, moved>>

Init ==
    /\ \E edges \in SUBSET kSubset(2, Peers) :
         knows = [p \in Peers |-> {q \in Peers \ {p} : {p, q} \in edges}]
    /\ holders \in SUBSET Peers
    /\ pool \in SUBSET Peers
    /\ before = pool
    /\ moved = {}
    /\ providers = pool
    /\ queried = {}
    /\ complete = FALSE
    /\ at = [p \in Nodes |-> "none"]
    /\ outcome = [p \in Nodes |-> "none"]
    /\ dialled = {}
    /\ opened = {}
    /\ wire = {}
    /\ result = "running"

Active == {p \in Nodes : at[p] \notin {"none", "over"}}

Goto(p, there) == at' = [at EXCEPT ![p] = there]
Returns(p, r) == outcome' = [outcome EXCEPT ![p] = r]
-----------------------------------------------------------------------------
(* The handler of FindDhtValue at the provider.  DhtStore::get() takes an  *)
(* empty list of values for none.                                          *)
DhtGet(p) == p \in holders

(* The peers it is connected to, closest to the key first.  The node that  *)
(* asks is one of them.                                                    *)
FindDhtValue(p) ==
    LET known == knows[p] \cup {Self}
    IN {q \in known : Cardinality({c \in known : c < q}) < MaxReturned}
-----------------------------------------------------------------------------
(* dht_lookup(): new lookups are started as long as there is room.         *)
HasRoom == Cardinality(Active) < Alpha /\ ~ complete /\ providers # {}

Start ==
    /\ result = "running" /\ HasRoom
    /\ LET p == Min(providers) IN
         /\ providers' = providers \ {p}
         /\ queried' = queried \cup {p}
         /\ complete' = (p = 0)
         /\ Goto(p, "begin")
    /\ UNCHANGED <<world, pool, outcome, dialled, opened, wire, result>>

\* Mutant: lookups that still run are not waited for.
NoProvidersEarly ==
    /\ result = "running" /\ ~ HasRoom /\ providers = {}
    /\ result' = "none"
    /\ UNCHANGED <<world, pool, providers, queried, complete, at, outcome, dialled, opened, wire>>

NoProviders ==
    /\ result = "running" /\ ~ HasRoom /\ Active = {}
    /\ result' = "none"
    /\ UNCHANGED <<world, pool, providers, queried, complete, at, outcome, dialled, opened, wire>>

(* select_all() gives one result that is ready.                            *)
Ready(p) ==
    /\ result = "running" /\ ~ HasRoom
    /\ at[p] = "ready"

\* Mutant: the function does not return.
FoundValuesGoesOn(p) ==
    /\ Ready(p)
    /\ outcome[p] = "found"
    /\ Goto(p, "over")
    /\ UNCHANGED <<world, pool, providers, queried, complete, outcome, dialled, opened, wire, result>>

(* The other lookups are dropped.                                          *)
FoundValues(p) ==
    /\ Ready(p)
    /\ outcome[p] = "found"
    /\ result' = "found"
    /\ at' = [q \in Nodes |-> IF q \in Active THEN "over" ELSE at[q]]
    /\ UNCHANGED <<world, pool, providers, queried, complete, outcome, dialled, opened, wire>>

\* Mutant: providers that were queried are kept.
NotFoundKeeps(p) ==
    /\ Ready(p)
    /\ outcome[p] = "not found"
    /\ providers' = providers \cup FindDhtValue(p)
    /\ Goto(p, "over")
    /\ UNCHANGED <<world, pool, queried, complete, outcome, dialled, opened, wire, result>>

(* extend, retain, sort, dedup and reverse.                                *)
NotFound(p) ==
    /\ Ready(p)
    /\ outcome[p] = "not found"
    /\ providers' = (providers \cup FindDhtValue(p)) \ queried
    /\ Goto(p, "over")
    /\ UNCHANGED <<world, pool, queried, complete, outcome, dialled, opened, wire, result>>

LookupFailed(p) ==
    /\ Ready(p)
    /\ outcome[p] = "failed"
    /\ Goto(p, "over")
    /\ UNCHANGED <<world, pool, providers, queried, complete, outcome, dialled, opened, wire, result>>
-----------------------------------------------------------------------------
(* dht_lookup_on_single_provider().                                        *)
Begin(p) ==
    /\ at[p] = "begin"
    /\ Goto(p, IF p \in pool THEN "ask" ELSE "dial")
    /\ UNCHANGED <<world, pool, providers, queried, complete, outcome, dialled, opened, wire, result>>

(* connect() and handshake(), which inserts the peer into the pool.        *)
Connect(p) ==
    /\ at[p] = "dial"
    /\ p \notin Broken \cup {Self} \cup pool
    /\ pool' = pool \cup {p}
    /\ dialled' = dialled \cup {p}
    /\ opened' = opened \cup {p}
    /\ Goto(p, "ask")
    /\ UNCHANGED <<world, providers, queried, complete, outcome, wire, result>>

(* FailedToConnect, or HandshakeError: SamePeer, AlreadyConnected.         *)
FailToConnect(p) ==
    /\ at[p] = "dial"
    /\ p \in Broken \cup {Self} \cup pool
    /\ Returns(p, "failed")
    /\ Goto(p, "ready")
    /\ UNCHANGED <<world, pool, providers, queried, complete, dialled, opened, wire, result>>

(* The listener is registered, and send_packet() sends nothing if the peer *)
(* is not connected any more.                                              *)
Ask(p) ==
    /\ at[p] = "ask"
    /\ wire' = wire \cup ({p} \cap pool)
    /\ Goto(p, "wait")
    /\ UNCHANGED <<world, pool, providers, queried, complete, outcome, dialled, opened, result>>

(* The provider's handler and ours; recv() returns.                        *)
Answered(p) ==
    /\ at[p] = "wait"
    /\ p \in wire
    /\ wire' = wire \ {p}
    /\ Returns(p, IF DhtGet(p) THEN "found" ELSE "not found")
    /\ Goto(p, IF p \in dialled THEN "close" ELSE "ready")
    /\ UNCHANGED <<world, pool, providers, queried, complete, dialled, opened, result>>

\* Mutant: the connection is kept.
CloseNot(p) ==
    /\ at[p] = "close"
    /\ Goto(p, "ready")
    /\ UNCHANGED <<world, pool, providers, queried, complete, outcome, dialled, opened, wire, result>>

(* disconnect(), of the connection that the peer has by now.               *)
Close(p) ==
    /\ at[p] = "close"
    /\ pool' = pool \ {p}
    /\ opened' = opened \ {p}
    /\ Goto(p, "ready")
    /\ UNCHANGED <<world, providers, queried, complete, outcome, dialled, wire, result>>
-----------------------------------------------------------------------------
(* Meanwhile, peers dial us, and peers' Quits arrive: the reader task ends *)
(* and what is on the connection is never read.                            *)
Moves(p) ==
    /\ p \in Moving /\ result = "running"
    /\ moved' = moved \cup {p}
    /\ UNCHANGED <<knows, before, providers, queried, complete, at, outcome, dialled, result>>

PeerJoins(p) ==
    /\ Moves(p)
    /\ p \notin pool
    /\ pool' = pool \cup {p}
    /\ UNCHANGED <<holders, opened, wire>>

PeerQuits(p) ==
    /\ Moves(p)
    /\ p \in pool
    /\ pool' = pool \ {p}
    /\ opened' = opened \ {p}
    /\ wire' = wire \ {p}
    /\ UNCHANGED holders

(* DhtStore::set(): the value is stored with a peer.                       *)
DhtSet(p) ==
    /\ Moves(p)
    /\ holders' = holders \cup {p}
    /\ UNCHANGED <<pool, opened, wire>>
-----------------------------------------------------------------------------
Main == Start \/ NoProviders \/ \E p \in Nodes : FoundValues(p) \/ NotFound(p) \/ LookupFailed(p)
Lookup(p) == Begin(p) \/ Connect(p) \/ FailToConnect(p) \/ Ask(p) \/ Answered(p) \/ Close(p)

Next ==
    \/ Main
    \/ \E p \in Nodes : Lookup(p)
    \/ \E p \in Peers : PeerJoins(p) \/ PeerQuits(p) \/ DhtSet(p)

Spec == Init /\ [][Next]_vars

(* select_all() polls every lookup that was woken, and peers answer what   *)
(* they are asked as long as they are connected.                           *)
FairSpec == Spec /\ WF_vars(Main) /\ \A p \in Nodes : WF_vars(Lookup(p))
-----------------------------------------------------------------------------
TypeOK ==
    /\ knows \in [Peers -> SUBSET Peers]
    /\ {holders, pool, before, moved, dialled, opened, wire} \subseteq SUBSET Peers
    /\ {providers, queried} \subseteq SUBSET Nodes
    /\ complete \in BOOLEAN
    /\ at \in [Nodes -> {"none", "begin", "dial", "ask", "wait", "close", "ready", "over"}]
    /\ outcome \in [Nodes -> {"none", "failed", "found", "not found"}]
    /\ result \in {"running", "found", "none"}
    /\ Cardinality(Active) <= Alpha

(* The peers that a chain of answers leads to.                             *)
Within[n \in Nat] ==
    IF n = 0 THEN before
    ELSE Within[n - 1] \cup
         UNION {FindDhtValue(p) : p \in {p \in Within[n - 1] \ {Self} : p \in before \/ p \notin Broken}}

Reachable == {p \in Within[Cardinality(Nodes)] \ {Self} : p \in before \/ p \notin Broken}

(* dht_lookup() returns None only if nobody it could have reached has the  *)
(* value, or if it asked the node that is the key and did not get it there *)
(* (as long as nobody moves meanwhile).                                    *)
NoneMeansAbsent ==
    result = "none" /\ moved = {} =>
        \/ Reachable \cap holders = {}
        \/ complete /\ 0 \notin Reachable \cap holders

(* It follows up everything that it was told before it gives up.           *)
AnswersExhausted ==
    result = "none" /\ ~ complete =>
        \A p \in Nodes : outcome[p] = "not found" => FindDhtValue(p) \subseteq queried

(* No provider is looked up twice, although several may name it.           *)
NeverAgain == [][\A p \in Nodes : at[p] # "none" /\ at'[p] = "begin" => at[p] = "begin"]_vars

(* "a short term connection that will only exchange one request and        *)
(* response" (dht.rs:101): a connection is gone when the lookup that opened*)
(* it is over, unless it was dropped because another one found the value.  *)
ShortTerm ==
    \A p \in opened : at[p] \in {"ask", "wait", "close"} \/ result = "found"

(* So a lookup that fails leaves the pool as it was, but for the peers     *)
(* that have moved by themselves.                                          *)
PoolRestored ==
    /\ ShortTerm
    /\ result = "none" => pool \ moved = before \ moved

(* dht_lookup() returns, unless a provider has quit that it waits for: it  *)
(* has no timer.                                                           *)
Stranded(p) == at[p] = "wait" /\ p \notin wire

EndsUnlessStranded == <>(result # "running" \/ \E p \in Nodes : Stranded(p))
=============================================================================
