------------------------------- MODULE Events -------------------------------
(***************************************************************************)
(* How a task gets the answer to its request (src/src/node/events.rs,      *)
(* counter.rs, and the tasks of node.rs, dht.rs and discovery.rs that use  *)
(* them).  The task numbers the request, registers a listener and sends    *)
(* the request (a query), or sends it first and has a timer (a ping).  Each*)
(* kind has its own numbers and listeners.  The reader task of each peer   *)
(* hands every answer to event(), which copies it to all listeners under   *)
(* their lock and forgets those that have been dropped; the task picks the *)
(* answer with its number and its peer.                                    *)
(***************************************************************************)
EXTENDS Integers, Sequences, SequencesExt

CONSTANTS
    Peers,          \* the peers that are asked
    Requests,       \* the requests, each by a task of its own
    Numbers,        \* how many numbers Counter has (2^32) before it starts again
    Silent,         \* peers that may leave a ping unanswered
    Old,            \* how many listeners of requests made before are still there
    NoPeer          \* not a peer

ASSUME EventsAssumption ==
    /\ Numbers \in Nat \ {0}
    /\ Silent \subseteq Peers
    /\ NoPeer \notin Peers
    /\ Old \in Nat
    /\ {"none", "old"} \cap Requests = {}

VARIABLES
    kind,           \* the kind of the requests: "query" or "ping"
    counter,        \* next number
    stage,          \* stage[r]: where the task of r is
    peer,           \* peer[r]: the peer that request r asks
    number,         \* number[r]: the number of request r
    asked,          \* asked[p]: requests on their way to peer p
    answers,        \* answers[p]: answers on their way from peer p
    listeners,      \* the listeners, each named after its request, or "old"
    lock,           \* the peer whose reader is in event(), or NoPeer
    index,          \* the index in `listeners` that event() is at
    chan,           \* chan[r]: all that was ever sent to the listener of r
    taken,          \* taken[r]: how much of it r has received
    result,         \* result[r]: the request whose answer r took for its own
    events,         \* history: the answers given to event()
    since           \* history: since[r]: how many of them came before listen()

vars == <<kind, counter, stage, peer, number, asked, answers, listeners, lock, index, chan,
          taken, result, events, since>>

Init ==
    /\ kind \in {"query", "ping"}
    /\ counter \in 0 .. Numbers - 1
    /\ stage = [r \in Requests |-> "new"]
    /\ peer = [r \in Requests |-> NoPeer]
    /\ number = [r \in Requests |-> 0]
    /\ asked = [p \in Peers |-> <<>>]
    /\ answers = [p \in Peers |-> <<>>]
    /\ listeners = [i \in 1 .. Old |-> "old"]
    /\ lock = NoPeer
    /\ index = 0
    /\ chan = [r \in Requests |-> <<>>]
    /\ taken = [r \in Requests |-> 0]
    /\ result = [r \in Requests |-> "none"]
    /\ events = <<>>
    /\ since = [r \in Requests |-> 0]

Goto(r, there) == stage' = [stage EXCEPT ![r] = there]
Dead(r) == r \notin {q \in Requests : stage[q] \notin {"done", "timed out"}}
-----------------------------------------------------------------------------
(* The task of a request.                                                  *)

\* Mutant: the request is sent first.
OrderSendFirst == <<"send", "listen">>

Order == IF kind = "query" THEN <<"listen", "send">> ELSE <<"send", "listen">>
After(here) == IF here = Order[1] THEN Order[2] ELSE "wait"

(* A task begins to ask peer p.  Counter::next(): fetch_add() wraps around.*)
Number(r, p) ==
    /\ stage[r] = "new"
    /\ peer' = [peer EXCEPT ![r] = p]
    /\ number' = [number EXCEPT ![r] = counter]
    /\ counter' = (counter + 1) % Numbers
    /\ Goto(r, Order[1])
    /\ UNCHANGED <<kind, asked, answers, listeners, lock, index, chan, taken, result, events, since>>

(* EventListeners::listen(), which waits for the lock.                     *)
Listen(r) ==
    /\ stage[r] = "listen"
    /\ lock = NoPeer
    /\ listeners' = Append(listeners, r)
    /\ since' = [since EXCEPT ![r] = Len(events)]
    /\ Goto(r, After("listen"))
    /\ UNCHANGED <<kind, counter, peer, number, asked, answers, lock, index, chan, taken, result, events>>

SendRequest(r) ==
    /\ stage[r] = "send"
    /\ asked' = [asked EXCEPT ![peer[r]] = Append(@, [number |-> number[r], of |-> r])]
    /\ Goto(r, After("send"))
    /\ UNCHANGED <<kind, counter, peer, number, answers, listeners, lock, index, chan, taken, result, events, since>>

\* Mutant: any answer of the right peer is taken.
MineByPeer(r, a) == a.from = peer[r]

(* Numbers are those of one node: peers may be asked the same one.         *)
Mine(r, a) == a.number = number[r] /\ a.from = peer[r]

(* recv(): answers to others are skipped.  The receiver is dropped with    *)
(* the answer.                                                             *)
Receive(r) ==
    /\ stage[r] = "wait"
    /\ taken[r] < Len(chan[r])
    /\ taken' = [taken EXCEPT ![r] = @ + 1]
    /\ LET a == chan[r][taken[r] + 1] IN
         \/ /\ Mine(r, a)
            /\ result' = [result EXCEPT ![r] = a.of]
            /\ Goto(r, "done")
         \/ ~ Mine(r, a) /\ UNCHANGED <<result, stage>>
    /\ UNCHANGED <<kind, counter, peer, number, asked, answers, listeners, lock, index, chan, events, since>>

(* The timer: timeout() looks at the receiver once more before it gives up.*)
TimeOut(r) ==
    /\ kind = "ping"
    /\ stage[r] = "wait"
    /\ taken[r] = Len(chan[r])
    /\ Goto(r, "timed out")
    /\ UNCHANGED <<kind, counter, peer, number, asked, answers, listeners, lock, index, chan, taken, result, events, since>>
-----------------------------------------------------------------------------
(* The peers answer in the order of the requests.                          *)
Reply(p) ==
    /\ asked[p] # <<>>
    /\ asked' = [asked EXCEPT ![p] = Tail(@)]
    /\ \/ answers' = [answers EXCEPT ![p] =
             Append(@, [number |-> Head(asked[p]).number, from |-> p, of |-> Head(asked[p]).of])]
       \/ kind = "ping" /\ p \in Silent /\ UNCHANGED answers
    /\ UNCHANGED <<kind, counter, stage, peer, number, listeners, lock, index, chan, taken, result, events, since>>
-----------------------------------------------------------------------------
(* EventListeners::event(), in the reader task of peer p.                  *)
Begin(p) ==
    /\ lock = NoPeer
    /\ answers[p] # <<>>
    /\ lock' = p
    /\ index' = Len(listeners)
    /\ events' = Append(events, Head(answers[p]))
    /\ UNCHANGED <<kind, counter, stage, peer, number, asked, answers, listeners, chan, taken, result, since>>

\* Mutant: it is the first listener that is removed.
ServeRemovesFirst(p) ==
    /\ lock = p
    /\ index > 0
    /\ LET r == listeners[index] IN
         \/ ~ Dead(r) /\ chan' = [chan EXCEPT ![r] = Append(@, Head(answers[p]))] /\ UNCHANGED listeners
         \/ Dead(r) /\ listeners' = RemoveAt(listeners, 1) /\ UNCHANGED chan
    /\ index' = index - 1
    /\ UNCHANGED <<kind, counter, stage, peer, number, asked, answers, lock, taken, result, events, since>>

\* Mutant: the loop goes on after the listener it has removed.
ServeSkips(p) ==
    /\ lock = p
    /\ index > 0
    /\ LET r == listeners[index] IN
         \/ /\ ~ Dead(r)
            /\ chan' = [chan EXCEPT ![r] = Append(@, Head(answers[p]))]
            /\ index' = index - 1
            /\ UNCHANGED listeners
         \/ /\ Dead(r)
            /\ listeners' = RemoveAt(listeners, index)
            /\ index' = IF index > 1 THEN index - 2 ELSE 0
            /\ UNCHANGED chan
    /\ UNCHANGED <<kind, counter, stage, peer, number, asked, answers, lock, taken, result, events, since>>

(* From the last listener to the second and then the first: a listener     *)
(* that is dropped is removed, which moves those after it, all of them     *)
(* already served.                                                         *)
Serve(p) ==
    /\ lock = p
    /\ index > 0
    /\ LET r == listeners[index] IN
         \/ ~ Dead(r) /\ chan' = [chan EXCEPT ![r] = Append(@, Head(answers[p]))] /\ UNCHANGED listeners
         \/ Dead(r) /\ listeners' = RemoveAt(listeners, index) /\ UNCHANGED chan
    /\ index' = index - 1
    /\ UNCHANGED <<kind, counter, stage, peer, number, asked, answers, lock, taken, result, events, since>>

End(p) ==
    /\ lock = p
    /\ index = 0
    /\ lock' = NoPeer
    /\ answers' = [answers EXCEPT ![p] = Tail(@)]
    /\ UNCHANGED <<kind, counter, stage, peer, number, asked, listeners, index, chan, taken, result, events, since>>
-----------------------------------------------------------------------------
Event(p) == Begin(p) \/ Serve(p) \/ End(p)
Task(r) == (\E p \in Peers : Number(r, p)) \/ Listen(r) \/ SendRequest(r) \/ Receive(r) \/ TimeOut(r)

Next ==
    \/ \E r \in Requests : Task(r)
    \/ \E p \in Peers : Reply(p) \/ Event(p)

Spec == Init /\ [][Next]_vars

(* The executor polls tasks that can go on, readers and peers included, as *)
(* long as the connections are up, and timers fire.  Each step brings some *)
(* task forward for good, so that it is enough not to stop while there is  *)
(* one that can go on: nobody can be overtaken for ever.                   *)
FairSpec == Spec /\ WF_vars(Next)
-----------------------------------------------------------------------------
Asked(r) == stage[r] \in IF kind = "query" THEN {"wait"} ELSE {"listen", "wait"}
Answers == [number : 0 .. Numbers - 1, from : Peers, of : Requests]

TypeOK ==
    /\ kind \in {"query", "ping"}
    /\ counter \in 0 .. Numbers - 1
    /\ stage \in [Requests -> {"new", "listen", "send", "wait", "done", "timed out"}]
    /\ peer \in [Requests -> Peers \cup {NoPeer}]
    /\ number \in [Requests -> 0 .. Numbers - 1]
    /\ asked \in [Peers -> Seq([number : 0 .. Numbers - 1, of : Requests])]
    /\ answers \in [Peers -> Seq(Answers)]
    /\ listeners \in Seq(Requests \cup {"old"})
    /\ lock \in Peers \cup {NoPeer}
    /\ index \in 0 .. Len(listeners)
    /\ chan \in [Requests -> Seq(Answers)]
    /\ taken \in [Requests -> Nat]
    /\ result \in [Requests -> Requests \cup {"none"}]
    /\ events \in Seq(Answers)
    /\ since \in [Requests -> Nat]

(* A listener gets every answer that event() was given since it was        *)
(* registered, once and in order, whatever listeners are dropped or added  *)
(* and removed meanwhile; the answer that is being served has reached      *)
(* exactly those after the index that event() is at.                       *)
EveryEvent ==
    \A i \in DOMAIN listeners :
        LET r == listeners[i]
            last == IF lock # NoPeer /\ i <= index THEN Len(events) - 1 ELSE Len(events)
        IN Dead(r) \/ chan[r] = SubSeq(events, since[r] + 1, last)

(* A task that waits is on the list of listeners, and once: event() only   *)
(* forgets those that have been dropped.                                   *)
WaitingIsListed ==
    \A r \in Requests : stage[r] = "wait" =>
        \E i \in DOMAIN listeners : listeners[i] = r /\ \A j \in DOMAIN listeners : listeners[j] = r => i = j

(* A query hears its answer: event() has not been given it before.         *)
ListensInTime ==
    kind = "query" => \A r \in Requests : Asked(r) => \A k \in 1 .. since[r] : events[k].of # r

(* Requests are answered as one would think: everybody gets the answer to  *)
(* their own request, and waits only while there is no answer and no       *)
(* timer.                                                                  *)
Outcome(r) ==
    IF result[r] # "none" THEN result[r]
    ELSE IF stage[r] = "timed out" THEN "given up"
    ELSE IF Asked(r) THEN "asked" ELSE "none"

Abstract == INSTANCE Request WITH patient <- kind = "query", outcome <- [r \in Requests |-> Outcome(r)]

ImplementsRequest == Abstract!FairSpec
=============================================================================
