------------------------------- MODULE Frames -------------------------------
(***************************************************************************)
(* How packets share the stream of a connection (src/src/node/             *)
(* connections.rs): send_packet() takes the lock of the pool and writes    *)
(* the length of a packet and then the packet, in two writes of several    *)
(* polls each; the reader task reads a length and then as much.  A task    *)
(* that is dropped while it waits gives the lock back and leaves on the    *)
(* stream what it has written.                                             *)
(*                                                                         *)
(* A unit of the stream is as long as a length: a frame is a header and    *)
(* the units of the packet.  A write is what Stream makes of poll_write(): *)
(* an extension of the buffer, unless `wrote` says that it was done, and   *)
(* the wake-up of the reader.                                              *)
(***************************************************************************)
EXTENDS Integers, Sequences

CONSTANTS
    Calls,      \* the calls of send_packet() for this connection
    Droppable,  \* the calls made by tasks that may be dropped
    Sizes,      \* sizes of a packet, in units
    NoCall      \* not a call

ASSUME FramesAssumption ==
    /\ Droppable \subseteq Calls
    /\ Sizes \subseteq Nat \ {0}
    /\ NoCall \notin Calls

VARIABLES
    lock,       \* the call that holds the lock of the pool, or NoCall
    at,         \* at[c]: where call c is
    wrote,      \* `wrote` of the write half
    stream,     \* the units in the buffer of the stream
    frame,      \* how many frames were begun, and the size of the last packet
    need,       \* the length of the packet that is read, or 0 before it is known
    panicked,   \* TRUE if the reader has panicked
    packet,     \* what it has read of that
    handled     \* the packets handed to on_packet(), by number; 0 is garbage

vars == <<lock, at, wrote, stream, frame, need, panicked, packet, handled>>

Init ==
    /\ lock = NoCall
    /\ at = [c \in Calls |-> "new"]
    /\ wrote = FALSE
    /\ stream = <<>>
    /\ frame = [n |-> 0, size |-> 0]
    /\ need = 0
    /\ panicked = FALSE
    /\ packet = <<>>
    /\ handled = <<>>

Header(f) == << <<f.n, 0, f.size>> >>
Body(f) == [i \in 1 .. f.size |-> <<f.n, i, f.size>>]
IsHeader(unit) == unit[2] = 0

Goto(c, there) == at' = [at EXCEPT ![c] = there]
-----------------------------------------------------------------------------
(* send_packet_unchecked().  The packet is serialized before the lock is   *)
(* taken.  Packets are numbered when their first byte is written.          *)
Lock(c) ==
    /\ at[c] = "new"
    /\ lock = NoCall
    /\ lock' = c
    /\ Goto(c, "length")
    /\ \E size \in Sizes : frame' = [frame EXCEPT !.size = size]
    /\ UNCHANGED <<wrote, stream, need, panicked, packet, handled>>

(* The buffer is extended, unless `wrote` says that it has been.           *)
Extend(c, here, units) ==
    /\ at[c] = here
    /\ ~ wrote
    /\ wrote' = TRUE
    /\ stream' = stream \o units
    /\ UNCHANGED <<lock, at, need, panicked, packet, handled>>

\* Mutant: `wrote` is not reset.
WakeKeeps(c, here, next) ==
    /\ at[c] = here
    /\ wrote
    /\ Goto(c, next)
    /\ UNCHANGED <<wrote, stream, frame, need, panicked, packet, handled>>

(* The reader is woken and write_all() returns.                            *)
Wake(c, here, next) ==
    /\ at[c] = here
    /\ wrote
    /\ wrote' = FALSE
    /\ Goto(c, next)
    /\ UNCHANGED <<stream, frame, need, panicked, packet, handled>>

WriteLength(c) ==
    LET next == [frame EXCEPT !.n = @ + 1]
    IN  Extend(c, "length", Header(next)) /\ frame' = next

\* Mutant: the lock is given back between the two writes.
LengthWrittenUnlocks(c) == Wake(c, "length", "packet") /\ lock' = NoCall

LengthWritten(c) == Wake(c, "length", "packet") /\ UNCHANGED lock

WritePacket(c) == Extend(c, "packet", Body(frame)) /\ UNCHANGED frame
PacketWritten(c) == Wake(c, "packet", "sent") /\ lock' = NoCall

\* Mutant: the lock has to be given back by hand.
DropLocked(c) ==
    /\ c \in Droppable
    /\ at[c] \in {"new", "length", "packet"}
    /\ Goto(c, IF at[c] = "packet" \/ (lock = c /\ wrote) THEN "torn" ELSE "dropped")
    /\ UNCHANGED <<lock, wrote, stream, frame, need, panicked, packet, handled>>

(* The future of the call is dropped at one of its awaits, its guard of    *)
(* the lock with it (dht_lookup() when another of its lookups has found    *)
(* the value).  "torn" records that a part of the frame is on the stream.  *)
Drop(c) ==
    /\ c \in Droppable
    /\ at[c] \in {"new", "length", "packet"}
    /\ lock' = IF lock = c THEN NoCall ELSE lock
    /\ Goto(c, IF at[c] = "packet" \/ (lock = c /\ wrote) THEN "torn" ELSE "dropped")
    /\ UNCHANGED <<wrote, stream, frame, need, panicked, packet, handled>>
-----------------------------------------------------------------------------
(* The reader task.  A unit of a packet taken for a length is any number;  *)
(* a number too large is `unimplemented!`.                                 *)
Idle == need = 0 /\ ~ panicked

ReadLength ==
    /\ Idle
    /\ stream # <<>>
    /\ stream' = Tail(stream)
    /\ \/ IsHeader(Head(stream)) /\ need' = Head(stream)[3] /\ UNCHANGED panicked
       \/ ~ IsHeader(Head(stream)) /\ need' \in Sizes /\ UNCHANGED panicked
       \/ ~ IsHeader(Head(stream)) /\ panicked' = TRUE /\ UNCHANGED need
    /\ UNCHANGED <<lock, at, wrote, frame, packet, handled>>

ReadUnit ==
    /\ Len(packet) < need
    /\ stream # <<>>
    /\ stream' = Tail(stream)
    /\ packet' = Append(packet, Head(stream))
    /\ UNCHANGED <<lock, at, wrote, frame, need, panicked, handled>>

(* Only a whole packet parses; what does not is skipped.                   *)
Parsed ==
    IF packet = Body([n |-> packet[1][1], size |-> need]) THEN packet[1][1] ELSE 0

ReadPacket ==
    /\ need > 0
    /\ Len(packet) = need
    /\ handled' = Append(handled, Parsed)
    /\ need' = 0
    /\ packet' = <<>>
    /\ UNCHANGED <<lock, at, wrote, stream, frame, panicked>>
-----------------------------------------------------------------------------
Send(c) == Lock(c) \/ WriteLength(c) \/ LengthWritten(c) \/ WritePacket(c) \/ PacketWritten(c)
Read == ReadLength \/ ReadUnit \/ ReadPacket

Next == Read \/ \E c \in Calls : Send(c) \/ Drop(c)

Spec == Init /\ [][Next]_vars

(* Calls and the reader are tasks that the executor polls when they can    *)
(* go on; the lock of the pool is first come, first served, so that nobody *)
(* waits for it while others take turns.                                   *)
FairSpec == Spec /\ WF_vars(Read) /\ \A c \in Calls : WF_vars(Send(c))
-----------------------------------------------------------------------------
TypeOK ==
    /\ lock \in Calls \cup {NoCall}
    /\ at \in [Calls -> {"new", "length", "packet", "sent", "dropped", "torn"}]
    /\ wrote \in BOOLEAN
    /\ stream \in Seq(Nat \X Nat \X Sizes)
    /\ frame \in [n : Nat, size : Sizes \cup {0}]
    /\ need \in Sizes \cup {0}
    /\ panicked \in BOOLEAN
    /\ packet \in Seq(Nat \X Nat \X Sizes)
    /\ handled \in Seq(Nat)

(* However the polls of several senders interleave, the reader is always   *)
(* in step with them: what it takes for a length is one, and what it has   *)
(* read so far is the beginning of the packet it was the length of.  Only  *)
(* a call dropped in the middle of its frame can break that; one dropped   *)
(* while it waits for the lock, or before it has written, does not.        *)
Torn == \E c \in Calls : at[c] = "torn"

InStep ==
    \/ Torn
    \/ /\ need = 0 /\ stream # <<>> => IsHeader(Head(stream))
       /\ need > 0 => \E n \in 1 .. frame.n :
             packet = SubSeq(Body([n |-> n, size |-> need]), 1, Len(packet))
       /\ ~ panicked

(* A call that waits for the lock of the pool gets it and returns, even if *)
(* tasks are dropped while they hold it and the reader has panicked.       *)
SendsReturn == \A c \in Calls : <>(at[c] \in {"sent", "dropped", "torn"})

(* Packets arrive whole, once, in the order in which their senders got the *)
(* lock of the pool, and they do arrive: the connection is the channel     *)
(* that Transport takes it for, until a frame is torn.                     *)
Packets == INSTANCE Channel
             WITH up <- ~ Torn,
                  sent <- IF Torn THEN 0 ELSE frame.n,
                  queue <- IF Torn THEN <<>>
                           ELSE [i \in 1 .. frame.n - Len(handled) |-> Len(handled) + i],
                  received <- IF Torn THEN <<>> ELSE handled

ImplementsChannel == Packets!FairSpec
=============================================================================
