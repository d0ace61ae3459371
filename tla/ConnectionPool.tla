-------------------------- MODULE ConnectionPool --------------------------
(***************************************************************************)
(* The pool of open connections of every node (src/src/node/connections.rs)*)
(* and the tasks that take connections out of it.                          *)
(*                                                                         *)
(* Every access to the pool is one critical section of its mutex, hence    *)
(* one step.  disconnect() takes that mutex twice, to write the Quit       *)
(* packet and to remove the entry, and then raises on_disconnect: three    *)
(* steps, with other tasks running in between.                             *)
(***************************************************************************)
EXTENDS Transport

CONSTANTS
    Delays,     \* TRUE if a packet may take longer than the 30s and 40s timers
    Pinging     \* the nodes whose ping loop runs (all of them, or a bound)

ASSUME PoolAssumption == Delays \in BOOLEAN /\ Pinging \subseteq Nodes

VARIABLES
    phase,      \* phase[e]: how far the task that holds end e has come
    peer,       \* peer[e]: their_peer_id, once InitRsa has been received
    result,     \* result[e]: the HandshakeError end e stopped with, or "none"
    pool,       \* pool[n][p]: the end n uses to talk to p, or NoEnd
    closing,    \* closing[c]: progress of task c in ping and disconnect()
    quit,       \* history: quit[e] iff e's node wrote Quit on e from the pool
    reported,   \* history: reported[e] iff on_disconnect was raised for e
    task,       \* task[e]: what runs the handshake of e
    expect,     \* expect[e]: expected_peer_id
    part        \* part[e]: their_aes_key_part, named by the end that drew it

poolVars == <<phase, peer, result, pool, closing, quit, reported>>
handshakeVars == <<task, expect, part>>     \* changed by Handshake only

(* A connection is closed by the task that reads its stream, by the ping   *)
(* task <<n, p>> of n for p, or by the lookup that dialled it.             *)
Readers == Ends
Pingers == Pinging \X Nodes
Lookups == Streams \X {"lookup"}
Tasks == Readers \cup Pingers \cup Lookups

(* The node that runs task c, and the peer that c disconnects.             *)
Owner(c) ==
    IF c \in Pingers THEN c[1]
    ELSE IF c \in Lookups THEN node[DialEnd(c[1])] ELSE node[c]
Target(c) ==
    IF c \in Pingers THEN c[2]
    ELSE IF c \in Lookups THEN peer[DialEnd(c[1])] ELSE peer[c]

Steps == {"idle", "ping", "waiting", "remove", "notify", "late", "done"}
Job(step, e) == [step |-> step, end |-> e]

(* "late": a reader that has been aborted while it was running goes on     *)
(* until it first has to wait.                                             *)
Finished(c) ==
    Job(IF c \in Pingers THEN "idle" ELSE IF c \in Lookups THEN "done" ELSE "late",
        NoEnd)

PoolInit ==
    /\ phase = [e \in Ends |-> "unused"]
    /\ peer = [e \in Ends |-> NoNode]
    /\ result = [e \in Ends |-> "none"]
    /\ pool = [n \in Nodes |-> [p \in Nodes |-> NoEnd]]
    /\ closing = [c \in Tasks |-> Job("idle", NoEnd)]
    /\ quit = [e \in Ends |-> FALSE]
    /\ reported = [e \in Ends |-> FALSE]
    /\ task = [e \in Ends |-> "none"]
    /\ expect = [e \in Ends |-> NoNode]
    /\ part = [e \in Ends |-> NoEnd]
-----------------------------------------------------------------------------
(* No task reads end e any more, nor ever will.                            *)
Gone(e) == phase[e] \in {"failed", "dropped", "closed"}

Contains(n, p) == pool[n][p] # NoEnd

SetPool(n, p, e) == [pool EXCEPT ![n][p] = e]
SetPhase(e, f) == [phase EXCEPT ![e] = f]
SetJob(c, j) == [closing EXCEPT ![c] = j]

\* Mutant: the check of handshake_raw is trusted and not made again.
InsertUnchecked(e) ==
    /\ phase[e] = "insert"
    /\ pool' = SetPool(node[e], peer[e], e)
    /\ phase' = SetPhase(e, "open")
    /\ UNCHANGED <<transportVars, peer, result, closing, quit, reported, handshakeVars>>

(* insert(): the check that handshake_raw made earlier is made again under *)
(* the lock, and a second connection to the same peer is refused.          *)
Insert(e) ==
    /\ phase[e] = "insert"
    /\ ~ Contains(node[e], peer[e])
    /\ pool' = SetPool(node[e], peer[e], e)
    /\ phase' = SetPhase(e, "open")
    /\ UNCHANGED <<transportVars, peer, result, closing, quit, reported, handshakeVars>>

RefuseInsert(e) ==
    /\ phase[e] = "insert"
    /\ Contains(node[e], peer[e])
    /\ chan' = Written(chan, e, Quit("InsertError::AlreadyConnected"))
    /\ phase' = SetPhase(e, "failed")
    /\ result' = [result EXCEPT ![e] = "AlreadyConnected"]
    /\ UNCHANGED <<node, backlog, peer, pool, closing, quit, reported, handshakeVars>>
-----------------------------------------------------------------------------
(* send_packet_unchecked(p, Quit) by a task of n, on channels c.           *)
QuitWritten(c, n, p) ==
    IF Contains(n, p) THEN Written(c, pool[n][p], Quit("Quit")) ELSE c

QuitRecorded(n, p) ==
    IF Contains(n, p) THEN [quit EXCEPT ![pool[n][p]] = TRUE] ELSE quit

(* The reader of e may take its next packet: it has not been aborted, or   *)
(* has not noticed yet.                                                    *)
MayRead(e) ==
    \/ phase[e] = "open" /\ closing[e].step = "idle"
    \/ phase[e] = "closed" /\ closing[e].step = "late"

(* The first half of disconnect(), by task c, on channels ch.              *)
StartDisconnect(c, ch) ==
    /\ chan' = QuitWritten(ch, Owner(c), Target(c))
    /\ quit' = QuitRecorded(Owner(c), Target(c))
    /\ closing' = SetJob(c, Job("remove", NoEnd))
    /\ UNCHANGED <<node, backlog, phase, peer, result, pool, reported, handshakeVars>>

(* on_packet(Quit): the reader disconnects the peer it reads from.         *)
ReadQuit(e) ==
    /\ MayRead(e)
    /\ chan[e] # <<>>
    /\ Head(chan[e]).type = "Quit"
    /\ StartDisconnect(e, Consumed(chan, e))

(* The ping loop takes a snapshot of the peers and starts a task for each. *)
StartPing(c) ==
    /\ closing[c].step = "idle"
    /\ Contains(Owner(c), Target(c))
    /\ closing' = SetJob(c, Job("ping", NoEnd))
    /\ UNCHANGED <<transportVars, phase, peer, result, pool, quit, reported, handshakeVars>>

(* send_packet(p, Ping): on the connection p has by then, if it has one.   *)
SendPing(c) ==
    /\ closing[c].step = "ping"
    /\ closing' = SetJob(c, Job("waiting", pool[Owner(c)][Target(c)]))
    /\ UNCHANGED <<transportVars, phase, peer, result, pool, quit, reported, handshakeVars>>

(* The Pong of a ping written on e can still be read by the pinging node.  *)
Answerable(e) == e # NoEnd /\ phase[e] = "open" /\ ~ Gone(Other(e))

(* A Pong came in time: set_ping() only stores a duration.                 *)
Answered(c) ==
    /\ closing[c].step = "waiting"
    /\ Answerable(closing[c].end)
    /\ phase[Other(closing[c].end)] = "open"
    /\ closing' = SetJob(c, Job("idle", NoEnd))
    /\ UNCHANGED <<transportVars, phase, peer, result, pool, quit, reported, handshakeVars>>

\* Mutant: a ping without an answer is only logged.
ExpireIgnored(c) ==
    /\ closing[c].step = "waiting"
    /\ Delays \/ ~ Answerable(closing[c].end)
    /\ closing' = SetJob(c, Job("idle", NoEnd))
    /\ UNCHANGED <<transportVars, phase, peer, result, pool, quit, reported, handshakeVars>>

(* No Pong within 30s: disconnect(p), whatever connection p now has.       *)
Expire(c) ==
    /\ closing[c].step = "waiting"
    /\ Delays \/ ~ Answerable(closing[c].end)
    /\ StartDisconnect(c, chan)

(* A lookup got its answer: it disconnects the peer it dialled.            *)
LookupAnswered(c) ==
    /\ task[DialEnd(c[1])] = "lookup"
    /\ closing[c].step = "idle"
    /\ phase[DialEnd(c[1])] \in {"open", "closed"}
    /\ phase[AcceptEnd(c[1])] \in {"open", "closed"}
    /\ StartDisconnect(c, chan)
-----------------------------------------------------------------------------
(* abort(): a reader that is between two packets may be running as well.    *)
Aborted(j) == IF j.step = "idle" THEN Job("late", NoEnd) ELSE j

\* Mutant: the entry is removed and its reader is not aborted.
RemoveOnly(c) ==
    LET e == pool[Owner(c)][Target(c)]
    IN  /\ closing[c].step = "remove"
        /\ Contains(Owner(c), Target(c))
        /\ pool' = SetPool(Owner(c), Target(c), NoEnd)
        /\ closing' = [closing EXCEPT ![c] = Job("notify", e)]
        /\ UNCHANGED <<transportVars, phase, peer, result, quit, reported, handshakeVars>>

(* The second half of disconnect(): the entry the pool holds NOW for the   *)
(* peer is removed and its reader aborted.                                 *)
Remove(c) ==
    LET n == Owner(c)
        p == Target(c)
        e == pool[n][p]
    IN  /\ closing[c].step = "remove"
        /\ Contains(n, p)
        /\ pool' = SetPool(n, p, NoEnd)
        /\ phase' = SetPhase(e, "closed")
        /\ closing' = [closing EXCEPT ![c] = Job("notify", e), ![e] = Aborted(@)]
        /\ UNCHANGED <<transportVars, peer, result, quit, reported, handshakeVars>>

AlreadyDisconnected(c) ==
    /\ closing[c].step = "remove"
    /\ ~ Contains(Owner(c), Target(c))
    /\ closing' = SetJob(c, Finished(c))
    /\ UNCHANGED <<transportVars, phase, peer, result, pool, quit, reported, handshakeVars>>

(* on_disconnect.event(n).                                                 *)
Notify(c) ==
    /\ closing[c].step = "notify"
    /\ reported' = [reported EXCEPT ![closing[c].end] = TRUE]
    /\ closing' = SetJob(c, Finished(c))
    /\ UNCHANGED <<transportVars, phase, peer, result, pool, quit, handshakeVars>>

(* Another task of the same node is raising on_disconnect, so that the     *)
(* lock of its listeners is taken.                                         *)
ListenersBusy(c) ==
    \E d \in Tasks \ {c} : closing[d].step = "notify" /\ Owner(d) = Owner(c)

(* abort() takes effect the first time the aborted reader has to wait: for *)
(* the pool's lock, for the listeners' lock, or for its next packet.       *)
Cancel(e) ==
    /\ phase[e] = "closed"
    /\ \/ closing[e].step \in {"remove", "late"}
       \/ closing[e].step = "notify" /\ ListenersBusy(e)
    /\ closing' = SetJob(e, Job("idle", NoEnd))
    /\ UNCHANGED <<transportVars, phase, peer, result, pool, quit, reported, handshakeVars>>

PoolStep ==
    \/ \E e \in Ends : Insert(e) \/ RefuseInsert(e) \/ ReadQuit(e) \/ Cancel(e)
    \/ \E c \in Pingers : StartPing(c) \/ SendPing(c) \/ Answered(c) \/ Expire(c)
    \/ \E c \in Lookups : LookupAnswered(c)
    \/ \E c \in Tasks : Remove(c) \/ AlreadyDisconnected(c) \/ Notify(c)
=============================================================================
