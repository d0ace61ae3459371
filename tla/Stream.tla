------------------------------- MODULE Stream -------------------------------
(***************************************************************************)
(* One direction of a TestStream (src/src/stream.rs): the write half of    *)
(* one end and the read half of the other one, polled by tasks on          *)
(* different threads, with a buffer and the reader's waker between them.   *)
(*                                                                         *)
(* Buffer and waker are behind one async mutex each.  A lock that is taken *)
(* leaves a future in the half that asked for it, which wakes its task     *)
(* when the lock is released and is polled again by the next poll.         *)
(* `woke` is left out: it is only ever TRUE inside one poll.               *)
(***************************************************************************)
EXTENDS Integers, Sequences

CONSTANT MaxWrites      \* bound: poll_write() is called for that many buffers

ASSUME StreamAssumption == MaxWrites \in Nat

Halves == {"reader", "writer"}
Locks == {"data", "waker"}
Tasks == {"handshake", "packets"}   \* the tasks that poll the read half in turn

VARIABLES
    data,       \* the bytes in the buffer; a buffer written is one "byte" here
    waker,      \* the task of the read half to wake, or "none"
    holder,     \* holder[l]: the half whose poll holds lock l, or "none"
    fut,        \* fut[h]: the locks for which half h has a pending future
    pc,         \* pc[h]: where the poll of half h is, "pending" or "idle"
    woken,      \* the halves whose task has been woken since it was polled
    reader,     \* the task that polls the read half
    wrote,      \* `wrote` of the write half
    buf,        \* number of the buffer passed to the last poll_write()
    acked,      \* history: buffers for which poll_write() returned Ok
    got,        \* history: what poll_read() returned
    cut         \* history: TRUE if a write was dropped after it had written

vars == <<data, waker, holder, fut, pc, woken, reader, wrote, buf, acked, got, cut>>

Init ==
    /\ data = <<>>
    /\ waker = "none"
    /\ holder = [l \in Locks |-> "none"]
    /\ fut = [h \in Halves |-> {}]
    /\ pc = [h \in Halves |-> "idle"]
    /\ woken = {}
    /\ reader = "handshake"
    /\ wrote = FALSE
    /\ buf = 0
    /\ acked = <<>>
    /\ got = <<>>
    /\ cut = FALSE
-----------------------------------------------------------------------------
At(h, here) == pc[h] = here
Goto(h, there) == pc' = [pc EXCEPT ![h] = there]

(* The lock future of half h is polled: ready if the lock is free,         *)
(* otherwise it is kept and will wake the task.                            *)
Locked(h, l) ==
    /\ holder[l] = "none"
    /\ holder' = [holder EXCEPT ![l] = h]
    /\ fut' = [fut EXCEPT ![h] = @ \ {l}]
    /\ UNCHANGED <<data, waker, woken, reader, wrote, buf, acked, got, cut>>

Contended(h, l) ==
    /\ holder[l] # "none"
    /\ fut' = [fut EXCEPT ![h] = @ \cup {l}]
    /\ UNCHANGED <<data, waker, holder, woken, reader, wrote, buf, acked, got, cut>>

(* The guard of lock l is dropped: the other half is woken if it waits.    *)
Release(l) == holder' = [holder EXCEPT ![l] = "none"]
Notified(h, l) == woken \cup {g \in Halves \ {h} : l \in fut[g]}

(* The executor polls a pending half whose task has been woken.            *)
Poll(h, first) ==
    /\ At(h, "pending")
    /\ h \in woken
    /\ woken' = woken \ {h}
    /\ Goto(h, first)
    /\ UNCHANGED <<data, waker, holder, fut, reader, wrote, buf, acked, got, cut>>
-----------------------------------------------------------------------------
(* poll_read(): first the waker, then the buffer.                          *)

(* Earlier wake-ups may be used up by the time the task reads again.       *)
ReadStart ==
    /\ At("reader", "idle")
    /\ woken' = woken \ {"reader"}
    /\ Goto("reader", "waker")
    /\ UNCHANGED <<data, waker, holder, fut, reader, wrote, buf, acked, got, cut>>

ReadPoll == Poll("reader", "waker")

ReadWaker ==
    /\ At("reader", "waker")
    /\ \/ Locked("reader", "waker") /\ Goto("reader", "wakerHeld")
       \/ Contended("reader", "waker") /\ Goto("reader", "data")

\* Mutant: a waker that is already there is left alone.
ReadSetWakerOnce ==
    /\ At("reader", "wakerHeld")
    /\ waker' = IF waker = "none" THEN reader ELSE waker
    /\ Release("waker")
    /\ woken' = Notified("reader", "waker")
    /\ Goto("reader", "data")
    /\ UNCHANGED <<data, fut, reader, wrote, buf, acked, got, cut>>

ReadSetWaker ==
    /\ At("reader", "wakerHeld")
    /\ waker' = reader
    /\ Release("waker")
    /\ woken' = Notified("reader", "waker")
    /\ Goto("reader", "data")
    /\ UNCHANGED <<data, fut, reader, wrote, buf, acked, got, cut>>

ReadData ==
    /\ At("reader", "data")
    /\ \/ Locked("reader", "data") /\ Goto("reader", "dataHeld")
       \/ Contended("reader", "data") /\ Goto("reader", "pending")

(* n is what the caller's buffer has room for.                             *)
ReadTake(n) ==
    /\ At("reader", "dataHeld")
    /\ n \in 1 .. Len(data)
    /\ got' = got \o SubSeq(data, 1, n)
    /\ data' = SubSeq(data, n + 1, Len(data))
    /\ Release("data")
    /\ woken' = Notified("reader", "data")
    /\ Goto("reader", "idle")
    /\ UNCHANGED <<waker, fut, reader, wrote, buf, acked, cut>>

ReadEmpty ==
    /\ At("reader", "dataHeld")
    /\ data = <<>>
    /\ Release("data")
    /\ woken' = Notified("reader", "data")
    /\ Goto("reader", "pending")
    /\ UNCHANGED <<data, waker, fut, reader, wrote, buf, acked, got, cut>>

(* The handshake is over: insert() moves the read half to a task of its own*)
HandOver ==
    /\ At("reader", "idle")
    /\ reader = "handshake"
    /\ reader' = "packets"
    /\ UNCHANGED <<data, waker, holder, fut, pc, woken, wrote, buf, acked, got, cut>>
-----------------------------------------------------------------------------
(* poll_write(): first the buffer, unless that was done by an earlier      *)
(* poll, then the waker.                                                   *)
FirstStep == IF wrote THEN "waker" ELSE "data"

WriteStart ==
    /\ At("writer", "idle")
    /\ buf < MaxWrites
    /\ buf' = buf + 1
    /\ woken' = woken \ {"writer"}
    /\ Goto("writer", FirstStep)
    /\ UNCHANGED <<data, waker, holder, fut, reader, wrote, acked, got, cut>>

WritePoll == Poll("writer", FirstStep)

\* Mutant: the future of a lock that is taken is not kept.
WriteDataForget ==
    /\ At("writer", "data")
    /\ \/ Locked("writer", "data") /\ Goto("writer", "dataHeld")
       \/ /\ holder["data"] # "none"
          /\ Goto("writer", "pending")
          /\ UNCHANGED <<data, waker, holder, fut, woken, reader, wrote, buf, acked, got, cut>>

WriteData ==
    /\ At("writer", "data")
    /\ \/ Locked("writer", "data") /\ Goto("writer", "dataHeld")
       \/ Contended("writer", "data") /\ Goto("writer", "pending")

\* Mutant: it is not noted that the bytes are written.
WriteExtendForget ==
    /\ At("writer", "dataHeld")
    /\ data' = Append(data, buf)
    /\ Release("data")
    /\ woken' = Notified("writer", "data")
    /\ Goto("writer", "waker")
    /\ UNCHANGED <<waker, fut, reader, wrote, buf, acked, got, cut>>

WriteExtend ==
    /\ At("writer", "dataHeld")
    /\ data' = Append(data, buf)
    /\ wrote' = TRUE
    /\ Release("data")
    /\ woken' = Notified("writer", "data")
    /\ Goto("writer", "waker")
    /\ UNCHANGED <<waker, fut, reader, buf, acked, got, cut>>

WriteWaker ==
    /\ At("writer", "waker")
    /\ \/ Locked("writer", "waker") /\ Goto("writer", "wakerHeld")
       \/ Contended("writer", "waker") /\ Goto("writer", "pending")

(* The registered task is woken, which is of no use to the read half if it *)
(* has moved on; then poll_write() returns Ok.                             *)
WriteWake ==
    /\ At("writer", "wakerHeld")
    /\ Release("waker")
    /\ woken' = Notified("writer", "waker") \cup {h \in {"reader"} : waker = reader}
    /\ wrote' = FALSE
    /\ acked' = Append(acked, buf)
    /\ Goto("writer", "idle")
    /\ UNCHANGED <<data, waker, fut, reader, buf, got, cut>>

(* The task drops the future of write_all(): the half keeps its fields.    *)
DropWrite ==
    /\ At("writer", "pending")
    /\ Goto("writer", "idle")
    /\ cut' = (cut \/ wrote)
    /\ UNCHANGED <<data, waker, holder, fut, woken, reader, wrote, buf, acked, got>>
-----------------------------------------------------------------------------
ReadStep ==
    \/ ReadStart \/ ReadPoll \/ ReadWaker \/ ReadSetWaker \/ ReadData \/ ReadEmpty
    \/ \E n \in 1 .. Len(data) : ReadTake(n)

WriteStep == WritePoll \/ WriteData \/ WriteExtend \/ WriteWaker \/ WriteWake

Next == ReadStep \/ WriteStep \/ HandOver \/ WriteStart \/ DropWrite

Spec == Init /\ [][Next]_vars

(* The executor polls every task that is woken, and polls are finite; the  *)
(* tasks of the read half go on reading until the connection is given up.  *)
FairSpec == Spec /\ WF_vars(ReadStep) /\ WF_vars(WriteStep)
-----------------------------------------------------------------------------
Places == {"idle", "pending", "data", "dataHeld", "waker", "wakerHeld"}

TypeOK ==
    /\ data \in Seq(Nat)
    /\ waker \in Tasks \cup {"none"}
    /\ holder \in [Locks -> Halves \cup {"none"}]
    /\ fut \in [Halves -> SUBSET Locks]
    /\ pc \in [Halves -> Places]
    /\ woken \in SUBSET Halves
    /\ reader \in Tasks
    /\ wrote \in BOOLEAN
    /\ buf \in 0 .. MaxWrites
    /\ acked \in Seq(Nat)
    /\ got \in Seq(Nat)
    /\ cut \in BOOLEAN

(* Nothing is lost, duplicated or reordered, whatever the two polls do     *)
(* between each other's steps and however often they are repeated: what    *)
(* was read and what is in the buffer are the writes that returned Ok,     *)
(* with the one in progress once `wrote` is set.  Writes may be dropped,   *)
(* unless they have written and wait to wake the reader: `wrote` is then   *)
(* left behind, and the next write returns Ok without having written.      *)
Lossless == cut \/ got \o data = IF wrote THEN Append(acked, buf) ELSE acked

(* Even then nothing is written twice or too early: what arrives is in the *)
(* order of the calls.                                                     *)
NeverRepeated ==
    \A i, j \in DOMAIN (got \o data) : i < j => (got \o data)[i] < (got \o data)[j]

(* poll_write() may be repeated after each Pending, and dropped for good,  *)
(* and still writes every buffer once, in the order of the calls.          *)
InOrder == Lossless /\ NeverRepeated

(* The read half never sleeps beside a non-empty buffer, unless the write  *)
(* half has yet to wake it or holds a lock that it waits for.              *)
NoLostWakeup ==
    At("reader", "pending") /\ "reader" \notin woken /\ data # <<>> =>
        \/ wrote
        \/ \E l \in fut["reader"] : holder[l] = "writer"

(* A write that has begun returns.                                         *)
WritesReturn == ~ At("writer", "idle") ~> At("writer", "idle")

(* A stream implements a channel: the n-th buffer passed to poll_write()   *)
(* arrives once, after those before it, or not at all if the write was     *)
(* dropped before it had written.  A write dropped later breaks the channel*)
(* What is in the buffer does arrive, although the task that reads changes *)
(* (poll_read() renews the waker each time).                               *)
Finished == IF At("writer", "idle") \/ wrote THEN buf ELSE buf - 1

Bytes == INSTANCE Channel
           WITH up <- ~ cut,
                sent <- IF cut THEN 0 ELSE Finished,
                queue <- IF cut THEN <<>> ELSE data,
                received <- IF cut THEN <<>> ELSE got

ImplementsChannel == Bytes!FairSpec
=============================================================================
