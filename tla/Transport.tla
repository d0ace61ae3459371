----------------------------- MODULE Transport -----------------------------
(***************************************************************************)
(* The streams that connect nodes, and the packets written on them.       *)
(*                                                                         *)
(* connect() (src/src/lib.rs) makes a pair of TestStream ends, keeps one   *)
(* and sends the other one to the listener of the node it dials.  A stream *)
(* is reliable and ordered in each direction, and has no close: dropping   *)
(* one end is invisible to the other one, which may go on writing.         *)
(***************************************************************************)
EXTENDS Integers, Sequences, FiniteSets

CONSTANTS
    Nodes,      \* the nodes, named by their PeerID; a PeerID is totally ordered
    Streams,    \* the streams that can be opened in a behaviour (a bound)
    NoNode,     \* no PeerID (None)
    NoEnd       \* no stream end

ASSUME TransportAssumption ==
    /\ Nodes \subseteq Int
    /\ Nodes \cap Streams = {}
    /\ NoNode \notin Nodes
    /\ NoEnd \notin Streams \X {"dial", "accept"}

(* The two ends of a stream: the caller of connect(), and the listener.    *)
Ends == Streams \X {"dial", "accept"}

DialEnd(s) == <<s, "dial">>
AcceptEnd(s) == <<s, "accept">>
Other(e) == <<e[1], IF e[2] = "dial" THEN "accept" ELSE "dial">>

VARIABLES
    node,       \* node[e]: the node whose task holds end e
    chan,       \* chan[e]: packets written to e and not yet read there
    backlog     \* backlog[n]: streams sent to n's listener, not yet accepted

transportVars == <<node, chan, backlog>>
-----------------------------------------------------------------------------
(* Packets.  A random nonce or key part is named by the end that drew it;  *)
(* an RSA key is named by its PeerID, since the PeerID is its hash.        *)

ProtocolVersion(v) == [type |-> "ProtocolVersion", version |-> v]
InitRsa(key, nonce) == [type |-> "InitRsa", key |-> key, nonce |-> nonce]
InitAes(part, nonce) == [type |-> "InitAes", part |-> part, nonce |-> nonce]
Ehlo(addr) == [type |-> "Ehlo", addr |-> addr]
Quit(reason) == [type |-> "Quit", reason |-> reason]
-----------------------------------------------------------------------------
(* Channel contents after end e reads one packet, or writes packet p.      *)
Consumed(c, e) == [c EXCEPT ![e] = Tail(@)]
Written(c, e, p) == [c EXCEPT ![Other(e)] = Append(@, p)]

TransportInit ==
    /\ node = [e \in Ends |-> NoNode]
    /\ chan = [e \in Ends |-> <<>>]
    /\ backlog = [n \in Nodes |-> <<>>]

(* connect(addr of m), called by a task of n that then writes packet p.    *)
Connect(s, n, m, p) ==
    /\ node' = [node EXCEPT ![DialEnd(s)] = n, ![AcceptEnd(s)] = m]
    /\ backlog' = [backlog EXCEPT ![m] = Append(@, s)]
    /\ chan' = Written(chan, DialEnd(s), p)
=============================================================================
