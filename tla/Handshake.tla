----------------------------- MODULE Handshake -----------------------------
(***************************************************************************)
(* The handshake that turns a stream into a connection                     *)
(* (src/src/node/handshake.rs), run at both ends of every stream, with the *)
(* tasks that start one: the accept loop and bootstrap_peers through       *)
(* on_connection() (40 s timer), discovery and lookups by a direct call    *)
(* (no timer).                                                             *)
(*                                                                         *)
(* Every peer writes its packet of a round before it reads the other's, so *)
(* phase "version" means: ProtocolVersion written, waiting for theirs.     *)
(* Reading a packet, checking it and writing the next one is one step; the *)
(* check of the pool is the only access to shared state in it.             *)
(***************************************************************************)
EXTENDS ConnectionPool

CONSTANTS
    Version,        \* Version[n]: the PROTOCOL_VERSION n was built with
    Encryption,     \* FALSE for builds with the feature "no-encryption"
    DialTasks       \* the kinds of task that dial

ASSUME HandshakeAssumption ==
    /\ Encryption \in BOOLEAN
    /\ DialTasks \subseteq {"on_connection", "discovery", "lookup"}

vars == <<transportVars, poolVars, handshakeVars>>

(* The end is waiting for a packet of the handshake.                       *)
Waiting == {"version", "rsa", "aes", "ehlo"}
Handshaking(e) == phase[e] \in Waiting \cup {"insert"}

Init ==
    /\ TransportInit
    /\ PoolInit
-----------------------------------------------------------------------------
(* bootstrap_peers handles one stream at a time and expects nobody; the    *)
(* others expect the peer they were told of, unless already connected.     *)
MayDial(n, t, exp) ==
    IF t = "on_connection"
    THEN /\ exp = NoNode
         /\ \A s \in Streams :
              ~ (node[DialEnd(s)] = n /\ task[DialEnd(s)] = t /\ Handshaking(DialEnd(s)))
    ELSE exp \in Nodes /\ ~ Contains(n, exp)

(* A task of n dials the address of m, hoping to find exp there: a node    *)
(* that restarts has another PeerID, and its address may be its old one.   *)
Dial(s, n, m, exp, t) ==
    /\ phase[DialEnd(s)] = "unused"
    /\ MayDial(n, t, exp)
    /\ Connect(s, n, m, ProtocolVersion(Version[n]))
    /\ phase' = [phase EXCEPT ![DialEnd(s)] = "version", ![AcceptEnd(s)] = "queued"]
    /\ task' = [task EXCEPT ![DialEnd(s)] = t]
    /\ expect' = [expect EXCEPT ![DialEnd(s)] = exp]
    /\ UNCHANGED <<peer, result, pool, closing, quit, reported, part>>

(* The accept loop of n takes the next stream once the handshake of the    *)
(* previous one is over.                                                   *)
Accept(n) ==
    LET e == AcceptEnd(Head(backlog[n]))
    IN  /\ backlog[n] # <<>>
        /\ \A s \in Streams : ~ (node[AcceptEnd(s)] = n /\ Handshaking(AcceptEnd(s)))
        /\ backlog' = [backlog EXCEPT ![n] = Tail(@)]
        /\ chan' = Written(chan, e, ProtocolVersion(Version[n]))
        /\ phase' = SetPhase(e, "version")
        /\ task' = [task EXCEPT ![e] = "on_connection"]
        /\ UNCHANGED <<node, peer, result, pool, closing, quit, reported, expect, part>>
-----------------------------------------------------------------------------
(* The packet each phase waits for.                                        *)
Awaited == [version |-> "ProtocolVersion", rsa |-> "InitRsa",
            aes |-> "InitAes", ehlo |-> "Ehlo"]

\* Mutant: the expected PeerID is not compared with the one received.
KeyErrorUnexpected(e, key) ==
    IF key = node[e] THEN "SamePeer"
    ELSE IF Contains(node[e], key) THEN "AlreadyConnected"
    ELSE "none"

(* "Prevent invalid connections": what is wrong with key, in this order.   *)
KeyError(e, key) ==
    IF key = node[e] THEN "SamePeer"
    ELSE IF expect[e] \notin {NoNode, key} THEN "IdentityMismatch"
    ELSE IF Contains(node[e], key) THEN "AlreadyConnected"
    ELSE "none"

VersionError(e, v) == IF v = Version[node[e]] THEN "none" ELSE "UnsupportedVersion"

(* The nonce we drew is named by our own end; the two PeerIDs are compared *)
(* once more before the key is put together.                               *)
AesError(e, nonce) ==
    IF nonce # e THEN "InvalidNonceCopy"
    ELSE IF peer[e] = node[e] THEN "SamePeer" ELSE "none"

\* Mutant: a packet that does not decrypt counts as an unexpected one.
TypeErrorNoRsa(e, p) ==
    IF p.type = "Quit" /\ ~ (Encryption /\ phase[e] = "aes") THEN "PeerQuitted"
    ELSE "UnexpectedPacket"

(* A packet that is not the awaited one.  InitAes is decrypted before      *)
(* anything is known of it, so a Quit in its place fails to decrypt.       *)
TypeError(e, p) ==
    IF Encryption /\ phase[e] = "aes" THEN "RsaError"
    ELSE IF p.type = "Quit" THEN "PeerQuitted" ELSE "UnexpectedPacket"

(* The HandshakeError with which end e meets packet p, or "none".          *)
Verdict(e, p) ==
    IF p.type # Awaited[phase[e]] THEN TypeError(e, p)
    ELSE CASE phase[e] = "version" -> VersionError(e, p.version)
           [] phase[e] = "rsa" -> KeyError(e, p.key)
           [] phase[e] = "aes" -> AesError(e, p.nonce)
           [] phase[e] = "ehlo" -> "none"

(* End e reads the packet it awaits and finds nothing wrong with it; then  *)
(* it writes reply.                                                        *)
Proceed(e, from, to, reply) ==
    /\ phase[e] = from
    /\ chan[e] # <<>>
    /\ Verdict(e, Head(chan[e])) = "none"
    /\ chan' = Written(Consumed(chan, e), e, reply)
    /\ phase' = SetPhase(e, to)
    /\ UNCHANGED <<node, backlog, result, pool, closing, quit, reported, task, expect>>

ReceiveVersion(e) ==
    /\ Proceed(e, "version", "rsa", InitRsa(node[e], e))
    /\ UNCHANGED <<peer, part>>

\* Mutant: the connection is inserted without waiting for their Ehlo.
ReceiveAesNoEhlo(e) ==
    /\ Proceed(e, "aes", "insert", Ehlo(node[e]))
    /\ part' = [part EXCEPT ![e] = Head(chan[e]).part]
    /\ UNCHANGED peer

ReceiveRsa(e) ==
    /\ Proceed(e, "rsa", "aes", InitAes(e, Head(chan[e]).nonce))
    /\ peer' = [peer EXCEPT ![e] = Head(chan[e]).key]
    /\ UNCHANGED part

ReceiveAes(e) ==
    /\ Proceed(e, "aes", "ehlo", Ehlo(node[e]))
    /\ part' = [part EXCEPT ![e] = Head(chan[e]).part]
    /\ UNCHANGED peer

(* The last packet has no reply: insert() comes next.                      *)
ReceiveEhlo(e) ==
    /\ phase[e] = "ehlo"
    /\ chan[e] # <<>>
    /\ Verdict(e, Head(chan[e])) = "none"
    /\ chan' = Consumed(chan, e)
    /\ phase' = SetPhase(e, "insert")
    /\ UNCHANGED <<node, backlog, peer, result, pool, closing, quit, reported,
                   handshakeVars>>

\* Mutant: the handshake fails without a Quit packet.
FailSilently(e) ==
    /\ phase[e] \in Waiting
    /\ chan[e] # <<>>
    /\ Verdict(e, Head(chan[e])) # "none"
    /\ chan' = Consumed(chan, e)
    /\ phase' = SetPhase(e, "failed")
    /\ result' = [result EXCEPT ![e] = Verdict(e, Head(chan[e]))]
    /\ UNCHANGED <<node, backlog, peer, pool, closing, quit, reported, handshakeVars>>

(* An error ends the handshake with a Quit packet.                         *)
Fail(e) ==
    LET err == Verdict(e, Head(chan[e]))
    IN  /\ phase[e] \in Waiting
        /\ chan[e] # <<>>
        /\ err # "none"
        /\ chan' = Written(Consumed(chan, e), e, Quit(err))
        /\ phase' = SetPhase(e, "failed")
        /\ result' = [result EXCEPT ![e] = err]
        /\ UNCHANGED <<node, backlog, peer, pool, closing, quit, reported,
                       handshakeVars>>

(* The handshake's future is dropped and nothing is written: by the timer  *)
(* of on_connection(), or by a lookup whose result another provider gave.  *)
TimedOut(e) ==
    /\ task[e] = "on_connection"
    /\ \/ Delays
       \/ Gone(Other(e)) /\ chan[e] = <<>> /\ phase[e] # "insert"

Abandon(e) ==
    /\ Handshaking(e)
    /\ TimedOut(e) \/ task[e] = "lookup"
    /\ phase' = SetPhase(e, "dropped")
    /\ UNCHANGED <<transportVars, peer, result, pool, closing, quit, reported,
                   handshakeVars>>

\* Mutant: every node puts its own part first.
AesKeyOwnFirst(e) == <<e, part[e]>>

(* aes_key: the part of the lower PeerID comes first.                      *)
AesKey(e) == IF node[e] < peer[e] THEN <<e, part[e]>> ELSE <<part[e], e>>
-----------------------------------------------------------------------------
Handshakes ==
    \/ \E s \in Streams, n, m \in Nodes, exp \in Nodes \cup {NoNode}, t \in DialTasks :
         Dial(s, n, m, exp, t)
    \/ \E n \in Nodes : Accept(n)
    \/ \E e \in Ends : \/ ReceiveVersion(e) \/ ReceiveRsa(e)
                       \/ ReceiveAes(e) \/ ReceiveEhlo(e)
                       \/ Fail(e) \/ Abandon(e)

Next == Handshakes \/ PoolStep

Spec == Init /\ [][Next]_vars

(* The executor runs every task that can run; the ping loop comes round    *)
(* every 100 s.  Nothing forces anyone to dial, and an abort may come late.*)
Fairness ==
    /\ \A n \in Nodes : WF_vars(Accept(n))
    /\ \A e \in Ends :
         /\ WF_vars(ReceiveVersion(e)) /\ WF_vars(ReceiveRsa(e))
         /\ WF_vars(ReceiveAes(e)) /\ WF_vars(ReceiveEhlo(e))
         /\ WF_vars(Fail(e)) /\ WF_vars(Abandon(e) /\ task[e] = "on_connection")
         /\ WF_vars(Insert(e))
         /\ WF_vars(RefuseInsert(e))
         /\ WF_vars(ReadQuit(e))
    /\ \A c \in Pingers :
         /\ WF_vars(StartPing(c)) /\ WF_vars(SendPing(c))
         /\ WF_vars(Answered(c) \/ Expire(c))
    /\ \A c \in Tasks :
         WF_vars(Remove(c) \/ AlreadyDisconnected(c) \/ Notify(c))

FairSpec == Spec /\ Fairness
-----------------------------------------------------------------------------
Phases == {"unused", "queued", "insert", "open", "failed", "dropped", "closed"}
            \cup Waiting

Errors == {"UnsupportedVersion", "UnexpectedPacket", "InvalidNonceCopy",
           "AlreadyConnected", "SamePeer", "IdentityMismatch", "PeerQuitted",
           "RsaError"}

(* What node n can write on its end e of a stream.                         *)
Sendable(n, e) ==
    {ProtocolVersion(Version[n]), InitRsa(n, e), Ehlo(n)}
      \cup {InitAes(e, f) : f \in Ends}
      \cup {Quit(r) : r \in Errors \cup {"Quit", "InsertError::AlreadyConnected"}}

Packets == UNION {Sendable(n, e) : n \in Nodes, e \in Ends}

TypeOK ==
    /\ node \in [Ends -> Nodes \cup {NoNode}]
    /\ chan \in [Ends -> Seq(Packets)]
    /\ backlog \in [Nodes -> Seq(Streams)]
    /\ phase \in [Ends -> Phases]
    /\ peer \in [Ends -> Nodes \cup {NoNode}]
    /\ result \in [Ends -> Errors \cup {"none"}]
    /\ pool \in [Nodes -> [Nodes -> Ends \cup {NoEnd}]]
    /\ closing \in [Tasks -> [step : Steps, end : Ends \cup {NoEnd}]]
    /\ quit \in [Ends -> BOOLEAN]
    /\ reported \in [Ends -> BOOLEAN]
    /\ task \in [Ends -> DialTasks \cup {"none", "on_connection"}]
    /\ expect \in [Ends -> Nodes \cup {NoNode}]
    /\ part \in [Ends -> Ends \cup {NoEnd}]

(* Whoever is in the pool really is who the pool says: the other end of    *)
(* the stream is held by that peer, it is the peer that was expected, and  *)
(* a node never holds a connection to itself.  (connections.rs insert(),   *)
(* after the checks of handshake_raw.)                                     *)
PoolSound ==
    \A n, p \in Nodes :
        LET e == pool[n][p]
        IN  e # NoEnd => /\ node[e] = n
                         /\ node[Other(e)] = p
                         /\ p # n
                         /\ expect[e] \in {NoNode, p}

(* An end is in the pool exactly while its reader lives, whatever the      *)
(* order in which several tasks disconnect, and the peer is reconnected.   *)
(* (insert() spawns the reader, disconnect() aborts it.)                   *)
ReadersArePooled ==
    \A e \in Ends :
        phase[e] = "open" <=> \E n, p \in Nodes : pool[n][p] = e

(* Two ends that have each other's key part computed the same AES key      *)
(* (packets.rs: the peer with the lowest PeerID puts its part first).      *)
KeyAgreement ==
    \A e \in Ends :
        part[e] # NoEnd /\ part[Other(e)] # NoEnd => AesKey(e) = AesKey(Other(e))

(* Correct nodes never blame one another: no end ever ends its handshake   *)
(* with an error that report_fault() attributes to the peer.               *)
NoFalseBlame ==
    \A e \in Ends : result[e] \notin {"UnexpectedPacket", "InvalidNonceCopy"}

(* A node that considers the handshake done knows that its peer has        *)
(* accepted it as well: the other end has verified our key and nonce.      *)
CompletedByBoth ==
    \A e \in Ends : phase[e] \in {"insert", "open", "closed"} =>
        part[Other(e)] = e /\ peer[Other(e)] = node[e]

(* Two ends never wait for each other: while an end waits for a packet and *)
(* none is on its way, the other end has not been accepted yet, or has     *)
(* been dropped, or has a packet to read.  (Every error path of            *)
(* handshake() writes a Quit, and each packet is written before the one it *)
(* answers is awaited.)                                                    *)
NobodyWaitsInVain ==
    \A e \in Ends : phase[e] \in Waiting /\ chan[e] = <<>> =>
        \/ phase[Other(e)] \in {"queued", "dropped"}
        \/ phase[Other(e)] \in Waiting /\ chan[Other(e)] # <<>>

(* A connection is never silently replaced by another one: it must be      *)
(* disconnected first (the second check, in insert()).                     *)
NoTakeover ==
    [][\A n, p \in Nodes :
         pool[n][p] # NoEnd => pool'[n][p] \in {pool[n][p], NoEnd}]_vars

(* Whatever tasks connect and disconnect, and in whatever order, the pools *)
(* are what the abstract pool says; the ends that were disconnected are    *)
(* those whose reader was aborted.                                         *)
Connections == INSTANCE Pool WITH spent <- {e \in Ends : phase[e] = "closed"}

ImplementsPool == Connections!Spec

(* Every handshake ends, if packets are not delayed beyond the timers: no  *)
(* end waits for ever for an end that has given up.                        *)
HandshakesEnd ==
    \A e \in Ends : Handshaking(e) ~> ~ Handshaking(e)

(* A connection whose other end is gone is closed in the end, although the *)
(* stream itself does not tell (the ping loop of Node::new).               *)
HalfOpenReaped ==
    \A e \in Ends :
        phase[e] = "open" /\ Gone(Other(e)) /\ node[e] \in Pinging ~> phase[e] = "closed"
-----------------------------------------------------------------------------
(* "guarantees we never quit without sending a quit packet" (node.rs:373). *)
NeverQuitsSilently ==
    \A e \in Ends : phase[e] = "closed" => quit[e]

(* "Update buckets on disconnect" (node.rs:158): every disconnection is    *)
(* reported to on_disconnect, or is about to be.                           *)
DisconnectsAreReported ==
    \A e \in Ends : phase[e] = "closed" =>
        \/ reported[e]
        \/ \E c \in Tasks : closing[c] = Job("notify", e)

(* "packets from the same node will be handled serially" (node.rs:258).    *)
HandlesPacket(e) == closing[e].step \in {"remove", "notify"}

HandledSerially ==
    \A e, f \in Ends :
        e # f /\ HandlesPacket(e) /\ HandlesPacket(f) /\ node[e] = node[f]
            => peer[e] # peer[f]
=============================================================================
