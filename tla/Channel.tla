------------------------------ MODULE Channel ------------------------------
(***************************************************************************)
(* What the code above a stream relies on: things sent arrive once and in  *)
(* the order in which they were sent.  The i-th thing sent is the number i.*)
(* A thing may be given up before it is sent, and the channel may break,   *)
(* after which nothing is said of it any more.  Stream implements it for   *)
(* buffers, Frames for packets; Transport assumes it.                      *)
(***************************************************************************)
EXTENDS Naturals, Sequences

VARIABLES
    up,         \* FALSE once the channel is broken
    sent,       \* how many things were sent or given up
    queue,      \* those on their way
    received    \* those that have arrived

vars == <<up, sent, queue, received>>

Init ==
    /\ up = TRUE
    /\ sent = 0
    /\ queue = <<>>
    /\ received = <<>>

Send ==
    /\ sent' = sent + 1
    /\ queue' = Append(queue, sent + 1)
    /\ UNCHANGED <<up, received>>

GiveUp ==
    /\ sent' = sent + 1
    /\ UNCHANGED <<up, queue, received>>

Receive(n) ==
    /\ n \in 1 .. Len(queue)
    /\ received' = received \o SubSeq(queue, 1, n)
    /\ queue' = SubSeq(queue, n + 1, Len(queue))
    /\ UNCHANGED <<up, sent>>

Break ==
    /\ up' = FALSE
    /\ sent' = 0
    /\ queue' = <<>>
    /\ received' = <<>>

Next ==
    /\ up
    /\ Send \/ GiveUp \/ Break \/ \E n \in 1 .. Len(queue) : Receive(n)

Spec == Init /\ [][Next]_vars

(* What is on its way arrives.                                             *)
FairSpec == Spec /\ WF_vars(up /\ \E n \in 1 .. Len(queue) : Receive(n))
=============================================================================
