---------------------------- MODULE EventsProofs ----------------------------
(***************************************************************************)
(* event() serves every listener exactly once, although listeners are      *)
(* added, dropped and removed meanwhile, for any number of peers, requests *)
(* and stale listeners, and however few numbers there are.  Who waits      *)
(* takes its own answer, if there is a number for each request.            *)
(***************************************************************************)
EXTENDS Events, SequenceTheorems, FiniteSetTheorems, TLAPS

Stages == {"new", "listen", "send", "wait", "done", "timed out"}
Questions == [number : 0 .. Numbers - 1, of : Requests]
Names == Requests \cup {"old"}

(* What a listener was sent, once event() has passed it.                   *)
ServedTo(i) == IF lock # NoPeer /\ i <= index THEN Len(events) - 1 ELSE Len(events)

(* A request that has a listener has it once, and one that is still to     *)
(* register has none.                                                      *)
Registered(r) == stage[r] = "wait" \/ (kind = "query" /\ stage[r] = "send")
Unregistered(r) == stage[r] \in {"new", "listen"} \/ (kind = "ping" /\ stage[r] = "send")

ListedOnce ==
    /\ \A r \in Requests : Registered(r) => \E i \in DOMAIN listeners : listeners[i] = r
    /\ \A i, j \in DOMAIN listeners : listeners[i] = listeners[j] /\ listeners[i] # "old" => i = j
    /\ \A r \in Requests : Unregistered(r) => \A i \in DOMAIN listeners : listeners[i] # r

(* The answer that is being served is the last one given to event(), and   *)
(* nobody has registered since.                                            *)
Serving ==
    /\ \A r \in Requests : since[r] <= Len(events)
    /\ lock # NoPeer =>
          /\ answers[lock] # <<>> /\ events # <<>>
          /\ Head(answers[lock]) = events[Len(events)]
          /\ \A r \in Requests : (\E i \in DOMAIN listeners : listeners[i] = r) => since[r] < Len(events)

(* Nothing is sent to a listener that does not exist yet.                  *)
NothingEarly == \A r \in Requests : Unregistered(r) => chan[r] = <<>>

(* A query is answered after it was sent, and so after it was registered.  *)
Sent(r) == stage[r] \in {"wait", "done", "timed out"}

AnswersFollow ==
    kind = "query" => \A r \in Requests :
        /\ \A p \in Peers : \A k \in DOMAIN asked[p] : asked[p][k].of = r => Sent(r)
        /\ \A p \in Peers : \A k \in DOMAIN answers[p] : answers[p][k].of = r => Sent(r)
        /\ \A k \in DOMAIN events : events[k].of = r => Sent(r)

Heard ==
    kind = "query" => \A r \in Requests : \A k \in 1 .. since[r] : events[k].of # r

(* EveryEvent, of the requests that are still there.                       *)
Caught ==
    \A r \in Requests : ~ Dead(r) => \A i \in DOMAIN listeners :
        listeners[i] = r => chan[r] = SubSeq(events, since[r] + 1, ServedTo(i))

Inv == TypeOK /\ ListedOnce /\ Serving /\ NothingEarly /\ Caught /\ AnswersFollow /\ Heard
-----------------------------------------------------------------------------
(* Removing one item of a sequence moves those after it.                   *)
LEMMA Removal ==
    ASSUME NEW S, NEW s \in Seq(S), NEW i \in 1 .. Len(s)
    PROVE  /\ RemoveAt(s, i) \in Seq(S)
           /\ Len(RemoveAt(s, i)) = Len(s) - 1
           /\ \A j \in 1 .. i - 1 : RemoveAt(s, i)[j] = s[j]
           /\ \A j \in i .. Len(s) - 1 : RemoveAt(s, i)[j] = s[j + 1]
  <1> DEFINE a == SubSeq(s, 1, i - 1)
             b == SubSeq(s, i + 1, Len(s))
             c == a \o b
  <1>1. a \in Seq(S) /\ Len(a) = i - 1 /\ \A j \in 1 .. i - 1 : a[j] = s[j]
    BY SubSeqProperties
  <1>2. b \in Seq(S) /\ Len(b) = Len(s) - i /\ \A j \in 1 .. Len(s) - i : b[j] = s[j + i]
    BY SubSeqProperties
  <1>3. /\ c \in Seq(S) /\ Len(c) = Len(a) + Len(b)
        /\ \A j \in 1 .. Len(a) + Len(b) : c[j] = IF j <= Len(a) THEN a[j] ELSE b[j - Len(a)]
    BY <1>1, <1>2, ConcatProperties
  <1>4. RemoveAt(s, i) = c
    BY DEF RemoveAt
  <1> HIDE DEF a, b, c
  <1>5. Len(s) \in Nat /\ i \in Nat
    OBVIOUS
  <1>6. Len(c) = Len(s) - 1
    BY <1>1, <1>2, <1>3, <1>5
  <1>7. ASSUME NEW j \in 1 .. i - 1  PROVE c[j] = s[j]
    <2>1. j \in 1 .. Len(a) + Len(b) /\ j <= Len(a)
      BY <1>1, <1>2, <1>5
    <2>2. c[j] = IF j <= Len(a) THEN a[j] ELSE b[j - Len(a)]
      BY <1>3, <2>1
    <2> QED  BY <1>1, <2>1, <2>2
  <1>8. ASSUME NEW j \in i .. Len(s) - 1  PROVE c[j] = s[j + 1]
    <2>1. c[j] = b[j - (i - 1)]
      <3>1. j \in 1 .. Len(a) + Len(b) /\ ~ (j <= Len(a))
        BY <1>1, <1>2, <1>5
      <3>2. c[j] = IF j <= Len(a) THEN a[j] ELSE b[j - Len(a)]
        BY <1>3, <3>1
      <3> QED  BY <1>1, <3>1, <3>2
    <2>2. j - (i - 1) \in 1 .. Len(s) - i /\ (j - (i - 1)) + i = j + 1
      BY <1>5
    <2> QED  BY <1>2, <2>1, <2>2
  <1> QED  BY <1>3, <1>4, <1>6, <1>7, <1>8

(* One more event leaves the earlier ones as they were.                    *)
LEMMA Earlier ==
    ASSUME NEW S, NEW s \in Seq(S), NEW e \in S, NEW n \in 0 .. Len(s)
    PROVE  SubSeq(Append(s, e), n + 1, Len(s)) = SubSeq(s, n + 1, Len(s))
  <1>1. Append(s, e) = s \o <<e>>
    BY AppendIsConcat
  <1>2. CASE n = Len(s)
    BY <1>2
  <1>3. CASE n < Len(s)
    BY <1>1, <1>3, SubSeqOfConcat1
  <1> QED  BY <1>2, <1>3

(* One more item is served.                                                *)
LEMMA Longer ==
    ASSUME NEW S, NEW s \in Seq(S), s # <<>>, NEW n \in 0 .. Len(s) - 1
    PROVE  SubSeq(s, n + 1, Len(s)) = Append(SubSeq(s, n + 1, Len(s) - 1), s[Len(s)])
  <1>1. Len(s) \in Nat /\ n + 1 \in 1 .. Len(s)
    OBVIOUS
  <1>2. SubSeq(s, n + 1, Len(s)) = SubSeq(s, n + 1, Len(s) - 1) \o <<s[Len(s)]>>
    <2>1. Len(s) \in n + 1 .. Len(s)
      BY <1>1
    <2> QED  BY <1>1, <2>1, SubSeqRecursiveSecond
  <1>3. SubSeq(s, n + 1, Len(s) - 1) \in Seq(S) /\ s[Len(s)] \in S
    <2>1. \A k \in n + 1 .. Len(s) - 1 : s[k] \in S
      OBVIOUS
    <2> QED  BY <1>1, <2>1, SubSeqProperties
  <1> QED  BY <1>2, <1>3, AppendIsConcat
-----------------------------------------------------------------------------
(* A query registers first, a ping is sent first.                          *)
LEMMA Orders ==
    /\ kind = "query" => Order[1] = "listen" /\ After("listen") = "send" /\ After("send") = "wait"
    /\ kind = "ping" => Order[1] = "send" /\ After("send") = "listen" /\ After("listen") = "wait"
  BY DEF Order, After

(* The types, by what belongs together.                                    *)
TaskTypes ==
    /\ kind \in {"query", "ping"}
    /\ stage \in [Requests -> Stages]
    /\ peer \in [Requests -> Peers \cup {NoPeer}]
    /\ taken \in [Requests -> Nat]
    /\ result \in [Requests -> Requests \cup {"none"}]
    /\ since \in [Requests -> Nat]
NumberTypes == counter \in 0 .. Numbers - 1 /\ number \in [Requests -> 0 .. Numbers - 1]
AskedTypes == asked \in [Peers -> Seq(Questions)]
AnswersTypes == answers \in [Peers -> Seq(Answers)]
ListTypes ==
    /\ listeners \in Seq(Names)
    /\ lock \in Peers \cup {NoPeer}
    /\ index \in 0 .. Len(listeners)
SentTypes == chan \in [Requests -> Seq(Answers)]
EventTypes == events \in Seq(Answers)

LEMMA Types ==
    TypeOK <=> /\ TaskTypes /\ NumberTypes /\ AskedTypes /\ AnswersTypes
               /\ ListTypes /\ SentTypes /\ EventTypes
  BY DEF TypeOK, TaskTypes, NumberTypes, AskedTypes, AnswersTypes, ListTypes, SentTypes,
         EventTypes, Stages, Questions, Names

(* Variables keep their types: event() only looks at listeners and at an   *)
(* answer that are there.                                                  *)
LEMMA Typed ==
    ASSUME TypeOK, Serving, [Next]_vars
    PROVE  TypeOK'
  <1> DEFINE Others == /\ UNCHANGED <<asked, answers, listeners, lock, index, chan, events>>
  <1>0. /\ TaskTypes /\ NumberTypes /\ AskedTypes /\ AnswersTypes
        /\ ListTypes /\ SentTypes /\ EventTypes
    BY Types
  <1> SUFFICES /\ TaskTypes' /\ NumberTypes' /\ AskedTypes' /\ AnswersTypes'
               /\ ListTypes' /\ SentTypes' /\ EventTypes'
    <2>1. TypeOK' <=> /\ TaskTypes' /\ NumberTypes' /\ AskedTypes' /\ AnswersTypes'
                      /\ ListTypes' /\ SentTypes' /\ EventTypes'
      BY Types, PTL
    <2> QED  BY <2>1
  <1> DEFINE Step == /\ TaskTypes' /\ NumberTypes' /\ AskedTypes' /\ AnswersTypes'
                     /\ ListTypes' /\ SentTypes' /\ EventTypes'
  <1>1. ASSUME NEW r \in Requests, NEW p \in Peers, Number(r, p)  PROVE Step
    <2>1. TaskTypes'
      <3>1. Order[1] \in Stages
        BY <1>0, Orders DEF Stages, TaskTypes
      <3> QED  BY <1>0, <1>1, <3>1 DEF Number, Goto, TaskTypes
    <2>2. NumberTypes'
      <3>1. (counter + 1) % Numbers \in 0 .. Numbers - 1
        BY <1>0, EventsAssumption DEF NumberTypes
      <3>2. counter' = (counter + 1) % Numbers /\ number' = [number EXCEPT ![r] = counter]
        BY <1>1 DEF Number
      <3> QED  BY <1>0, <3>1, <3>2 DEF NumberTypes
    <2>3. Others
      BY <1>1 DEF Number
    <2> QED  BY <1>0, <2>1, <2>2, <2>3 DEF AskedTypes, AnswersTypes, ListTypes, SentTypes, EventTypes
  <1>2. ASSUME NEW r \in Requests, Listen(r)  PROVE Step
    <2>1. TaskTypes'
      <3>1. After("listen") \in Stages
        BY <1>0, Orders DEF Stages, TaskTypes
      <3>2. Len(events) \in Nat
        BY <1>0 DEF EventTypes
      <3> QED  BY <1>0, <1>2, <3>1, <3>2 DEF Listen, Goto, TaskTypes
    <2>2. ListTypes'
      <3>1. listeners' \in Seq(Names) /\ Len(listeners') = Len(listeners) + 1 /\ Len(listeners) \in Nat
        BY <1>0, <1>2, AppendProperties DEF Listen, Names, ListTypes
      <3> QED  BY <1>0, <1>2, <3>1 DEF Listen, ListTypes
    <2>3. UNCHANGED <<counter, number, asked, answers, chan, events>>
      BY <1>2 DEF Listen
    <2> QED  BY <1>0, <2>1, <2>2, <2>3 DEF NumberTypes, AskedTypes, AnswersTypes, SentTypes, EventTypes
  <1>3. ASSUME NEW r \in Requests, SendRequest(r)  PROVE Step
    <2>1. TaskTypes'
      <3>1. After("send") \in Stages
        BY <1>0, Orders DEF Stages, TaskTypes
      <3> QED  BY <1>0, <1>3, <3>1 DEF SendRequest, Goto, TaskTypes
    <2>2. AskedTypes'
      <3> DEFINE q == [number |-> number[r], of |-> r]
      <3>1. q \in Questions
        BY <1>0 DEF Questions, NumberTypes
      <3>2. asked' = [asked EXCEPT ![peer[r]] = Append(@, q)]
        BY <1>3 DEF SendRequest
      <3> HIDE DEF q
      <3> QED  BY <1>0, <3>1, <3>2, AppendProperties DEF AskedTypes
    <2>3. UNCHANGED <<counter, number, answers, listeners, lock, index, chan, events>>
      BY <1>3 DEF SendRequest
    <2> QED  BY <1>0, <2>1, <2>2, <2>3 DEF NumberTypes, AnswersTypes, ListTypes, SentTypes, EventTypes
  <1>4. ASSUME NEW r \in Requests, Receive(r)  PROVE Step
    <2>1. chan[r][taken[r] + 1].of \in Requests
      <3>1. chan[r] \in Seq(Answers) /\ taken[r] + 1 \in 1 .. Len(chan[r])
        BY <1>0, <1>4 DEF Receive, TaskTypes, SentTypes
      <3>2. chan[r][taken[r] + 1] \in Answers
        BY <3>1
      <3> QED  BY <3>2 DEF Answers
    <2>2. TaskTypes'
      <3>1. taken' \in [Requests -> Nat]
        BY <1>0, <1>4 DEF Receive, TaskTypes
      <3>2. result' \in [Requests -> Requests \cup {"none"}]
        BY <1>0, <1>4, <2>1 DEF Receive, TaskTypes
      <3>3. stage' \in [Requests -> Stages]
        BY <1>0, <1>4 DEF Receive, Goto, TaskTypes, Stages
      <3>4. UNCHANGED <<kind, peer, since>>
        BY <1>4 DEF Receive
      <3> QED  BY <1>0, <3>1, <3>2, <3>3, <3>4 DEF TaskTypes
    <2>3. Others /\ UNCHANGED <<counter, number>>
      BY <1>4 DEF Receive
    <2> QED
      BY <1>0, <2>2, <2>3 DEF NumberTypes, AskedTypes, AnswersTypes, ListTypes, SentTypes, EventTypes
  <1>5. ASSUME NEW r \in Requests, TimeOut(r)  PROVE Step
    <2>1. TaskTypes' /\ Others /\ UNCHANGED <<counter, number>>
      BY <1>0, <1>5 DEF TimeOut, Goto, TaskTypes, Stages
    <2> QED
      BY <1>0, <2>1 DEF NumberTypes, AskedTypes, AnswersTypes, ListTypes, SentTypes, EventTypes
  <1>6. ASSUME NEW p \in Peers, Reply(p)  PROVE Step
    <2>1. asked[p] \in Seq(Questions) /\ asked[p] # <<>>
      BY <1>0, <1>6 DEF Reply, AskedTypes
    <2>2. Head(asked[p]) \in Questions /\ Tail(asked[p]) \in Seq(Questions)
      BY <2>1, HeadTailProperties
    <2>3. AskedTypes'
      <3>1. asked' = [asked EXCEPT ![p] = Tail(asked[p])]
        BY <1>6 DEF Reply
      <3> QED  BY <1>0, <2>2, <3>1 DEF AskedTypes
    <2>4. AnswersTypes'
      <3> DEFINE a == [number |-> Head(asked[p]).number, from |-> p, of |-> Head(asked[p]).of]
      <3>1. a \in Answers
        BY <2>2 DEF Answers, Questions
      <3>2. answers' = [answers EXCEPT ![p] = Append(@, a)] \/ UNCHANGED answers
        BY <1>6 DEF Reply
      <3> HIDE DEF a
      <3>3. answers[p] \in Seq(Answers)
        BY <1>0 DEF AnswersTypes
      <3>4. Append(answers[p], a) \in Seq(Answers)
        BY <3>1, <3>3, AppendProperties
      <3> QED  BY <1>0, <3>2, <3>4 DEF AnswersTypes
    <2>5. UNCHANGED <<kind, counter, stage, peer, number, listeners, lock, index, chan, taken,
                      result, events, since>>
      BY <1>6 DEF Reply
    <2> QED
      BY <1>0, <2>3, <2>4, <2>5 DEF TaskTypes, NumberTypes, ListTypes, SentTypes, EventTypes
  <1>7. ASSUME NEW p \in Peers, Begin(p)  PROVE Step
    <2>1. ListTypes'
      <3>1. Len(listeners) \in 0 .. Len(listeners)
        BY <1>0 DEF ListTypes
      <3> QED  BY <1>0, <1>7, <3>1 DEF Begin, ListTypes
    <2>2. EventTypes'
      <3>1. Head(answers[p]) \in Answers
        BY <1>0, <1>7, HeadTailProperties DEF Begin, AnswersTypes
      <3>2. events' = Append(events, Head(answers[p]))
        BY <1>7 DEF Begin
      <3> QED  BY <1>0, <3>1, <3>2, AppendProperties DEF EventTypes
    <2>3. UNCHANGED <<kind, counter, stage, peer, number, asked, answers, chan, taken, result, since>>
      BY <1>7 DEF Begin
    <2> QED
      BY <1>0, <2>1, <2>2, <2>3 DEF TaskTypes, NumberTypes, AskedTypes, AnswersTypes, SentTypes
  <1>8. ASSUME NEW p \in Peers, Serve(p)  PROVE Step
    <2>1. UNCHANGED <<kind, counter, stage, peer, number, asked, answers, lock, taken, result,
                      events, since>>
      BY <1>8 DEF Serve
    <2>2. lock = p /\ index \in 1 .. Len(listeners) /\ index' = index - 1
          /\ listeners \in Seq(Names) /\ Len(listeners) \in Nat
      BY <1>0, <1>8 DEF Serve, ListTypes
    <2>3. Head(answers[p]) \in Answers
      <3>1. answers[p] # <<>>
        BY <2>2, EventsAssumption DEF Serving
      <3> QED  BY <1>0, <3>1, HeadTailProperties DEF AnswersTypes
    <2>4. ListTypes' /\ SentTypes'
      <3>1. CASE /\ ~ Dead(listeners[index])
                 /\ chan' = [chan EXCEPT ![listeners[index]] = Append(@, Head(answers[p]))]
                 /\ UNCHANGED listeners
        <4>1. listeners[index] \in Requests
          BY <3>1 DEF Dead
        <4>2. SentTypes'
          BY <1>0, <2>3, <3>1, <4>1, AppendProperties DEF SentTypes
        <4> QED  BY <1>0, <2>1, <2>2, <3>1, <4>2 DEF ListTypes
      <3>2. CASE listeners' = RemoveAt(listeners, index) /\ UNCHANGED chan
        <4>1. listeners' \in Seq(Names) /\ Len(listeners') = Len(listeners) - 1
          BY <2>2, <3>2, Removal
        <4> QED  BY <1>0, <2>1, <2>2, <3>2, <4>1 DEF ListTypes, SentTypes
      <3> QED  BY <1>8, <3>1, <3>2 DEF Serve
    <2> QED
      BY <1>0, <2>1, <2>4 DEF TaskTypes, NumberTypes, AskedTypes, AnswersTypes, EventTypes
  <1>9. ASSUME NEW p \in Peers, End(p)  PROVE Step
    <2>1. lock = p /\ answers[p] # <<>>
      BY <1>9, EventsAssumption DEF End, Serving
    <2>2. AnswersTypes'
      BY <1>0, <1>9, <2>1, HeadTailProperties DEF End, AnswersTypes
    <2>3. ListTypes'
      BY <1>0, <1>9 DEF End, ListTypes
    <2>4. UNCHANGED <<kind, counter, stage, peer, number, asked, chan, taken, result, events, since>>
      BY <1>9 DEF End
    <2> QED
      BY <1>0, <2>2, <2>3, <2>4 DEF TaskTypes, NumberTypes, AskedTypes, SentTypes, EventTypes
  <1>10. CASE UNCHANGED vars
    BY <1>0, <1>10 DEF vars, TaskTypes, NumberTypes, AskedTypes, AnswersTypes, ListTypes,
       SentTypes, EventTypes
  <1> QED
    BY <1>1, <1>2, <1>3, <1>4, <1>5, <1>6, <1>7, <1>8, <1>9, <1>10 DEF Next, Task, Event
-----------------------------------------------------------------------------
(* Only Listen registers a request, and only its own; a listener is        *)
(* dropped for good.                                                       *)
LEMMA Registering ==
    ASSUME TypeOK, [Next]_vars, NEW q \in Requests
    PROVE  /\ Registered(q) /\ ~ Registered(q)' => Dead(q)'
           /\ Registered(q)' /\ ~ Registered(q) => Listen(q)
           /\ Unregistered(q)' => Unregistered(q)
           /\ Listen(q) => Unregistered(q) /\ Registered(q)'
           /\ Dead(q) => Dead(q)'
           /\ Sent(q) => Sent(q)'
  <1> DEFINE Steps ==
        /\ Registered(q) /\ ~ Registered(q)' => Dead(q)'
        /\ Registered(q)' /\ ~ Registered(q) => Listen(q)
        /\ Unregistered(q)' => Unregistered(q)
        /\ Listen(q) => Unregistered(q) /\ Registered(q)'
        /\ Dead(q) => Dead(q)'
        /\ Sent(q) => Sent(q)'
  <1>0. TaskTypes
    BY Types
  <1> USE DEF Registered, Unregistered, Dead, Sent
  <1>1. ASSUME NEW r \in Requests, NEW p \in Peers, Number(r, p)  PROVE Steps
    <2>1. stage[r] = "new" /\ stage' = [stage EXCEPT ![r] = Order[1]] /\ kind' = kind
      BY <1>1 DEF Number, Goto
    <2>2. Listen(q) => stage[q] = "listen" /\ stage'[q] # "listen"
      BY <1>0, Orders DEF Listen, Goto, TaskTypes
    <2>3. q # r => stage'[q] = stage[q]
      BY <1>0, <2>1 DEF TaskTypes
    <2>4. q = r => ~ Listen(q) /\ Unregistered(q) /\ Unregistered(q)'
      BY <1>0, <2>1, Orders DEF TaskTypes, Listen
    <2> QED  BY <1>0, <2>1, <2>2, <2>3, <2>4
  <1>2. ASSUME NEW r \in Requests, Listen(r)  PROVE Steps
    <2>1. stage[r] = "listen" /\ stage' = [stage EXCEPT ![r] = After("listen")] /\ kind' = kind
      BY <1>2 DEF Listen, Goto
    <2>2. CASE q = r
      BY <1>0, <1>2, <2>1, <2>2, Orders DEF TaskTypes
    <2>3. CASE q # r
      <3>1. stage'[q] = stage[q] /\ stage'[r] # stage[r] /\ (Listen(q) => stage'[q] # stage[q])
        <4>1. Listen(q) => stage[q] = "listen" /\ stage' = [stage EXCEPT ![q] = After("listen")]
          BY DEF Listen, Goto
        <4> QED  BY <1>0, <2>1, <2>3, <4>1, Orders DEF TaskTypes
      <3> QED  BY <2>1, <3>1
    <2> QED  BY <2>2, <2>3
  <1>3. ASSUME NEW r \in Requests, SendRequest(r)  PROVE Steps
    <2>1. stage[r] = "send" /\ stage' = [stage EXCEPT ![r] = After("send")] /\ kind' = kind
      BY <1>3 DEF SendRequest, Goto
    <2> QED  BY <1>0, <2>1, Orders DEF TaskTypes, Listen, Goto
  <1>4. ASSUME NEW r \in Requests, Receive(r)  PROVE Steps
    <2>1. stage[r] = "wait" /\ (stage' = [stage EXCEPT ![r] = "done"] \/ stage' = stage) /\ kind' = kind
          /\ UNCHANGED listeners
      BY <1>4 DEF Receive, Goto
    <2> QED  BY <1>0, <2>1, Orders DEF TaskTypes, Listen, Goto
  <1>5. ASSUME NEW r \in Requests, TimeOut(r)  PROVE Steps
    <2>1. stage[r] = "wait" /\ stage' = [stage EXCEPT ![r] = "timed out"] /\ kind' = kind
      BY <1>5 DEF TimeOut, Goto
    <2> QED  BY <1>0, <2>1, Orders DEF TaskTypes, Listen, Goto
  <1>6. ASSUME UNCHANGED <<kind, stage>>  PROVE Steps
    <2>1. ~ Listen(q)
      BY <1>0, <1>6, Orders DEF TaskTypes, Listen, Goto
    <2> QED  BY <1>6, <2>1
  <1>7. ASSUME NEW p \in Peers, Reply(p) \/ Event(p)  PROVE Steps
    BY <1>6, <1>7 DEF Reply, Event, Begin, Serve, End
  <1>8. CASE UNCHANGED vars
    BY <1>6, <1>8 DEF vars
  <1> QED  BY <1>1, <1>2, <1>3, <1>4, <1>5, <1>7, <1>8 DEF Next, Task

(* What a step does to the listeners.                                      *)
LEMMA ListenersChange ==
    ASSUME TypeOK, Serving, [Next]_vars
    PROVE  \/ UNCHANGED listeners
           \/ \E r \in Requests : Listen(r) /\ listeners' = Append(listeners, r) /\ lock = NoPeer
           \/ \E p \in Peers : /\ Serve(p) /\ index \in 1 .. Len(listeners) /\ Dead(listeners[index])
                               /\ listeners' = RemoveAt(listeners, index)
  <1>0. ListTypes
    BY Types
  <1>1. ASSUME NEW p \in Peers, Serve(p)
        PROVE  \/ UNCHANGED listeners
               \/ /\ Serve(p) /\ index \in 1 .. Len(listeners) /\ Dead(listeners[index])
                  /\ listeners' = RemoveAt(listeners, index)
    BY <1>0, <1>1 DEF Serve, ListTypes
  <1>2. ASSUME NEW r \in Requests, Listen(r)  PROVE listeners' = Append(listeners, r) /\ lock = NoPeer
    BY <1>2 DEF Listen
  <1>3. ASSUME NEW r \in Requests, Task(r), ~ Listen(r)  PROVE UNCHANGED listeners
    BY <1>3 DEF Task, Number, SendRequest, Receive, TimeOut
  <1>4. ASSUME NEW p \in Peers, Reply(p) \/ Begin(p) \/ End(p)  PROVE UNCHANGED listeners
    BY <1>4 DEF Reply, Begin, End
  <1>5. ASSUME UNCHANGED vars  PROVE UNCHANGED listeners
    BY <1>5 DEF vars
  <1> QED  BY <1>1, <1>2, <1>3, <1>4, <1>5 DEF Next, Event

(* Every item of the list after a removal was there before it, and all but *)
(* the one removed still are.                                              *)
LEMMA Kept ==
    ASSUME NEW S, NEW s \in Seq(S), NEW i \in 1 .. Len(s)
    PROVE  /\ \A j \in DOMAIN RemoveAt(s, i) :
                  \E k \in DOMAIN s : k # i /\ RemoveAt(s, i)[j] = s[k] /\ k = IF j < i THEN j ELSE j + 1
           /\ \A k \in DOMAIN s : k # i => \E j \in DOMAIN RemoveAt(s, i) : RemoveAt(s, i)[j] = s[k]
  <1> DEFINE t == RemoveAt(s, i)
  <1>1. /\ t \in Seq(S) /\ Len(t) = Len(s) - 1
        /\ \A j \in 1 .. i - 1 : t[j] = s[j]
        /\ \A j \in i .. Len(s) - 1 : t[j] = s[j + 1]
    BY Removal
  <1> HIDE DEF t
  <1>2. Len(s) \in Nat /\ DOMAIN s = 1 .. Len(s) /\ DOMAIN t = 1 .. Len(s) - 1
    BY <1>1
  <1>3. ASSUME NEW j \in DOMAIN t
        PROVE  \E k \in DOMAIN s : k # i /\ t[j] = s[k] /\ k = IF j < i THEN j ELSE j + 1
    <2>1. CASE j < i
      BY <1>1, <1>2, <2>1
    <2>2. CASE j >= i
      <3>1. j + 1 \in DOMAIN s /\ j + 1 # i /\ t[j] = s[j + 1]
        BY <1>1, <1>2, <2>2
      <3> QED  BY <1>2, <2>2, <3>1
    <2> QED  BY <1>2, <2>1, <2>2
  <1>4. ASSUME NEW k \in DOMAIN s, k # i  PROVE \E j \in DOMAIN t : t[j] = s[k]
    <2>1. CASE k < i
      BY <1>1, <1>2, <2>1
    <2>2. CASE k > i
      <3>1. k - 1 \in DOMAIN t /\ k - 1 \in i .. Len(s) - 1 /\ (k - 1) + 1 = k
        BY <1>2, <2>2
      <3>2. t[k - 1] = s[k]
        BY <1>1, <3>1
      <3> QED  BY <3>1, <3>2
    <2> QED  BY <1>2, <1>4, <2>1, <2>2
  <1> QED  BY <1>3, <1>4 DEF t

LEMMA Once ==
    ASSUME TypeOK, TypeOK', Serving, ListedOnce, [Next]_vars
    PROVE  ListedOnce'
  <1>0. listeners \in Seq(Names) /\ listeners' \in Seq(Names)
    <2>1. ListTypes /\ ListTypes'
      BY Types, PTL
    <2> QED  BY <2>1 DEF ListTypes
  <1>1. CASE UNCHANGED listeners
    <2>1. ASSUME NEW r \in Requests, Registered(r)'  PROVE \E i \in DOMAIN listeners' : listeners'[i] = r
      <3>1. ~ Listen(r)
        <4>1. Listen(r) => Len(listeners') = Len(listeners) + 1
          BY <1>0, AppendProperties DEF Listen, Names
        <4> QED  BY <1>0, <1>1, <4>1
      <3>2. Registered(r)
        BY <2>1, <3>1, Registering
      <3> QED  BY <1>1, <3>2 DEF ListedOnce
    <2>2. ASSUME NEW r1 \in Requests, Unregistered(r1)', NEW i \in DOMAIN listeners'
          PROVE  listeners'[i] # r1
      BY <1>1, <2>2, Registering DEF ListedOnce
    <2> QED  BY <1>1, <2>1, <2>2 DEF ListedOnce
  <1>2. ASSUME NEW r \in Requests, Listen(r), listeners' = Append(listeners, r)
        PROVE  ListedOnce'
    <2>1. /\ Len(listeners) \in Nat /\ DOMAIN listeners = 1 .. Len(listeners)
          /\ DOMAIN listeners' = 1 .. Len(listeners) + 1
          /\ \A i \in DOMAIN listeners : listeners'[i] = listeners[i]
          /\ listeners'[Len(listeners) + 1] = r
      <3>1. r \in Names
        BY DEF Names
      <3> QED  BY <1>0, <1>2, <3>1, AppendProperties
    <2>2. Unregistered(r) /\ Registered(r)' /\ ~ Unregistered(r)'
      <3>1. Unregistered(r) /\ Registered(r)'
        BY <1>2, Registering
      <3>2. TaskTypes'
        BY Types, PTL
      <3> QED  BY <3>1, <3>2 DEF Registered, Unregistered, TaskTypes
    <2>3. \A i \in DOMAIN listeners : listeners[i] # r
      BY <2>2 DEF ListedOnce
    <2>4. ASSUME NEW q \in Requests, Registered(q)'  PROVE \E i \in DOMAIN listeners' : listeners'[i] = q
      <3>1. CASE q = r
        BY <2>1, <3>1
      <3>2. CASE q # r
        <4>1. ~ Listen(q)
          <5>1. Listen(q) => listeners' = Append(listeners, q)
            BY DEF Listen
          <5>2. q \in Names
            BY DEF Names
          <5>3. Listen(q) => listeners'[Len(listeners) + 1] = q
            BY <1>0, <5>1, <5>2, AppendProperties
          <5> QED  BY <2>1, <3>2, <5>3
        <4>2. Registered(q)
          BY <2>4, <4>1, Registering
        <4> QED  BY <2>1, <4>2 DEF ListedOnce
      <3> QED  BY <3>1, <3>2
    <2>5. ASSUME NEW i \in DOMAIN listeners', NEW j \in DOMAIN listeners',
                 listeners'[i] = listeners'[j], listeners'[i] # "old"
          PROVE  i = j
      BY <2>1, <2>3, <2>5 DEF ListedOnce
    <2>6. ASSUME NEW r1 \in Requests, Unregistered(r1)', NEW i \in DOMAIN listeners'
          PROVE  listeners'[i] # r1
      <3>1. CASE i = Len(listeners) + 1
        BY <2>1, <2>2, <2>6, <3>1
      <3>2. CASE i \in DOMAIN listeners
        BY <2>1, <2>6, <3>2, Registering DEF ListedOnce
      <3> QED  BY <2>1, <3>1, <3>2
    <2> QED  BY <2>4, <2>5, <2>6 DEF ListedOnce
  <1>3. ASSUME NEW p \in Peers, Serve(p), index \in 1 .. Len(listeners), Dead(listeners[index]),
               listeners' = RemoveAt(listeners, index)
        PROVE  ListedOnce'
    <2>1. UNCHANGED <<kind, stage>>
      BY <1>3 DEF Serve
    <2>2. /\ \A j \in DOMAIN listeners' : \E k \in DOMAIN listeners :
                 k # index /\ listeners'[j] = listeners[k] /\ k = IF j < index THEN j ELSE j + 1
          /\ \A k \in DOMAIN listeners : k # index =>
                 \E j \in DOMAIN listeners' : listeners'[j] = listeners[k]
      BY <1>0, <1>3, Kept
    <2>3. ASSUME NEW r \in Requests, Registered(r)'  PROVE \E i \in DOMAIN listeners' : listeners'[i] = r
      <3>1. Registered(r)
        BY <2>1, <2>3 DEF Registered
      <3>2. PICK k \in DOMAIN listeners : listeners[k] = r
        BY <3>1 DEF ListedOnce
      <3>3. k # index
        BY <1>3, <3>1, <3>2 DEF Dead, Registered
      <3> QED  BY <2>2, <3>2, <3>3
    <2>4. ASSUME NEW i \in DOMAIN listeners', NEW j \in DOMAIN listeners',
                 listeners'[i] = listeners'[j], listeners'[i] # "old"
          PROVE  i = j
      <3>1. PICK k \in DOMAIN listeners : listeners'[i] = listeners[k] /\ k = IF i < index THEN i ELSE i + 1
        BY <2>2
      <3>2. PICK l \in DOMAIN listeners : listeners'[j] = listeners[l] /\ l = IF j < index THEN j ELSE j + 1
        BY <2>2
      <3>3. k = l
        BY <2>4, <3>1, <3>2 DEF ListedOnce
      <3>4. i \in Nat /\ j \in Nat /\ index \in Nat
        BY <1>0, <1>3
      <3> QED  BY <3>1, <3>2, <3>3, <3>4
    <2>5. ASSUME NEW r1 \in Requests, Unregistered(r1)', NEW i \in DOMAIN listeners'
          PROVE  listeners'[i] # r1
      <3>1. Unregistered(r1)
        BY <2>1, <2>5 DEF Unregistered
      <3>2. PICK k \in DOMAIN listeners : listeners'[i] = listeners[k]
        BY <2>2, <2>5
      <3> QED  BY <3>1, <3>2 DEF ListedOnce
    <2> QED  BY <2>3, <2>4, <2>5 DEF ListedOnce
  <1> QED  BY <1>1, <1>2, <1>3, ListenersChange
-----------------------------------------------------------------------------
(* The answer at the head of answers[lock] is the last event, and all who  *)
(* are listed came before it.                                              *)
LEMMA Served ==
    ASSUME TypeOK, TypeOK', Serving, [Next]_vars
    PROVE  Serving'
  <1>0. /\ TaskTypes /\ AnswersTypes /\ ListTypes /\ EventTypes
        /\ TaskTypes' /\ AnswersTypes' /\ ListTypes' /\ EventTypes'
    BY Types, PTL
  <1>00. Len(events) \in Nat
    BY <1>0 DEF EventTypes
  <1>1. CASE UNCHANGED <<answers, listeners, lock, events, since>>
    BY <1>1 DEF Serving
  <1>2. ASSUME NEW r \in Requests, Listen(r)  PROVE Serving'
    <2>1. lock' = NoPeer /\ UNCHANGED events /\ since' = [since EXCEPT ![r] = Len(events)]
      BY <1>2 DEF Listen
    <2>2. \A q \in Requests : since'[q] <= Len(events)
      BY <1>0, <1>00, <2>1 DEF Serving, TaskTypes
    <2> QED  BY <2>1, <2>2 DEF Serving
  <1>3. ASSUME NEW p \in Peers, Reply(p)  PROVE Serving'
    <2>1. UNCHANGED <<listeners, lock, events, since>>
      BY <1>3 DEF Reply
    <2>2. ASSUME lock # NoPeer
          PROVE  answers'[lock] # <<>> /\ Head(answers'[lock]) = Head(answers[lock])
      <3>1. lock \in Peers /\ answers[lock] # <<>>
        BY <1>0, <2>2 DEF ListTypes, Serving
      <3>2. CASE answers'[lock] = answers[lock]
        BY <3>1, <3>2
      <3>3. CASE answers'[lock] # answers[lock]
        <4>1. lock = p
          BY <1>0, <1>3, <3>1, <3>3 DEF Reply, AnswersTypes
        <4> DEFINE a == [number |-> Head(asked[p]).number, from |-> p, of |-> Head(asked[p]).of]
        <4>2. answers' = [answers EXCEPT ![p] = Append(@, a)]
          BY <1>3, <3>3 DEF Reply
        <4>3. a \in Answers
          <5>1. AskedTypes
            BY Types
          <5>2. Head(asked[p]) \in Questions
            BY <1>3, <5>1, HeadTailProperties DEF Reply, AskedTypes
          <5> QED  BY <5>2 DEF Answers, Questions
        <4> HIDE DEF a
        <4>4. answers[p] \in Seq(Answers) /\ answers[p] # <<>> /\ answers'[p] = Append(answers[p], a)
          BY <1>0, <3>1, <4>1, <4>2 DEF AnswersTypes
        <4> QED  BY <4>1, <4>3, <4>4, AppendProperties, HeadTailAppend
      <3> QED  BY <3>2, <3>3
    <2> QED  BY <2>1, <2>2 DEF Serving
  <1>4. ASSUME NEW p \in Peers, Begin(p)  PROVE Serving'
    <2>1. /\ lock' = p /\ events' = Append(events, Head(answers[p])) /\ answers[p] # <<>>
          /\ UNCHANGED <<answers, listeners, since>>
      BY <1>4 DEF Begin
    <2>2. Head(answers[p]) \in Answers
      BY <1>0, <2>1, HeadTailProperties DEF AnswersTypes
    <2>3. events' # <<>> /\ Len(events') = Len(events) + 1 /\ events'[Len(events')] = Head(answers[p])
      BY <1>0, <2>1, <2>2, AppendProperties DEF EventTypes
    <2>4. \A r \in Requests : since[r] \in Nat /\ since[r] <= Len(events)
      BY <1>0 DEF Serving, TaskTypes
    <2>5. \A r \in Requests : since[r] < Len(events') /\ since[r] <= Len(events')
      BY <1>00, <2>3, <2>4
    <2> QED  BY <2>1, <2>3, <2>5 DEF Serving
  <1>5. ASSUME NEW p \in Peers, Serve(p)  PROVE Serving'
    <2>1. UNCHANGED <<answers, lock, events, since>>
      BY <1>5 DEF Serve
    <2>2. \A j \in DOMAIN listeners' : \E i \in DOMAIN listeners : listeners'[j] = listeners[i]
      <3>1. CASE listeners' = RemoveAt(listeners, index)
        <4>1. index \in 1 .. Len(listeners)
          BY <1>0, <1>5 DEF Serve, ListTypes
        <4> QED  BY <1>0, <3>1, <4>1, Kept DEF ListTypes
      <3> QED  BY <1>5, <3>1 DEF Serve
    <2> QED  BY <2>1, <2>2 DEF Serving
  <1>6. ASSUME NEW p \in Peers, End(p)  PROVE Serving'
    BY <1>6 DEF End, Serving
  <1>7. ASSUME NEW r \in Requests, Task(r), ~ Listen(r)
        PROVE  UNCHANGED <<answers, listeners, lock, events, since>>
    BY <1>7 DEF Task, Number, SendRequest, Receive, TimeOut
  <1>8. ASSUME UNCHANGED vars  PROVE UNCHANGED <<answers, listeners, lock, events, since>>
    BY <1>8 DEF vars
  <1> QED  BY <1>1, <1>2, <1>3, <1>4, <1>5, <1>6, <1>7, <1>8 DEF Next, Event

(* Only listeners are sent to.                                             *)
LEMMA NotEarly ==
    ASSUME TypeOK, ListedOnce, NothingEarly, [Next]_vars
    PROVE  NothingEarly'
  <1>0. ListTypes /\ SentTypes
    BY Types
  <1> SUFFICES ASSUME NEW r \in Requests, Unregistered(r)'  PROVE chan'[r] = <<>>
    BY DEF NothingEarly
  <1>1. Unregistered(r) /\ chan[r] = <<>>
    BY Registering DEF NothingEarly
  <1>2. CASE UNCHANGED chan
    BY <1>1, <1>2
  <1>3. ASSUME NEW p \in Peers, Serve(p)  PROVE chan'[r] = chan[r]
    <2>1. index \in DOMAIN listeners
      BY <1>0, <1>3 DEF Serve, ListTypes
    <2>2. listeners[index] # r
      BY <1>1, <2>1 DEF ListedOnce
    <2> QED  BY <1>0, <1>3, <2>2 DEF Serve, SentTypes
  <1>4. ASSUME NEW q \in Requests, Task(q)  PROVE UNCHANGED chan
    BY <1>4 DEF Task, Number, Listen, SendRequest, Receive, TimeOut
  <1>5. ASSUME NEW p \in Peers, Reply(p) \/ Begin(p) \/ End(p)  PROVE UNCHANGED chan
    BY <1>5 DEF Reply, Begin, End
  <1>6. ASSUME UNCHANGED vars  PROVE UNCHANGED chan
    BY <1>6 DEF vars
  <1> QED  BY <1>1, <1>2, <1>3, <1>4, <1>5, <1>6 DEF Next, Event

LEMMA Catching ==
    ASSUME TypeOK, TypeOK', ListedOnce, Serving, NothingEarly, Caught, [Next]_vars
    PROVE  Caught'
  <1>0. /\ TaskTypes /\ ListTypes /\ SentTypes /\ EventTypes /\ ListTypes'
    BY Types, PTL
  <1>1. Len(events) \in Nat /\ Len(listeners) \in Nat /\ DOMAIN listeners = 1 .. Len(listeners)
        /\ index \in Nat
    BY <1>0 DEF EventTypes, ListTypes
  <1> SUFFICES ASSUME NEW r \in Requests, ~ Dead(r)', NEW i \in DOMAIN listeners', listeners'[i] = r
               PROVE  chan'[r] = SubSeq(events', since'[r] + 1, ServedTo(i)')
    BY DEF Caught
  <1>2. ~ Dead(r)
    BY Registering
  <1>3. i \in Nat \ {0}
    BY <1>0 DEF ListTypes
  <1>4. since[r] \in 0 .. Len(events)
    BY <1>0, <1>1 DEF TaskTypes, Serving
  <1>5. CASE UNCHANGED <<listeners, lock, index, chan, events, since>>
    BY <1>2, <1>5 DEF Caught, ServedTo
  <1>6. ASSUME NEW q \in Requests, Listen(q)
        PROVE  chan'[r] = SubSeq(events', since'[r] + 1, ServedTo(i)')
    <2>1. /\ lock = NoPeer /\ lock' = NoPeer /\ listeners' = Append(listeners, q)
          /\ since' = [since EXCEPT ![q] = Len(events)] /\ UNCHANGED <<chan, events>>
      BY <1>6 DEF Listen
    <2>2. ServedTo(i)' = Len(events) /\ \A j \in DOMAIN listeners : ServedTo(j) = Len(events)
      BY <2>1 DEF ServedTo
    <2>3. Unregistered(q)
      BY <1>6, Registering
    <2>4. /\ DOMAIN listeners' = 1 .. Len(listeners) + 1
          /\ \A j \in DOMAIN listeners : listeners'[j] = listeners[j]
          /\ listeners'[Len(listeners) + 1] = q
      <3>1. q \in Names /\ listeners \in Seq(Names)
        BY <1>0 DEF Names, ListTypes
      <3> QED  BY <2>1, <3>1, AppendProperties
    <2>5. CASE i = Len(listeners) + 1
      <3>1. r = q /\ chan[r] = <<>> /\ since'[r] = Len(events)
        BY <1>0, <2>1, <2>3, <2>4, <2>5 DEF NothingEarly, TaskTypes
      <3>2. SubSeq(events, Len(events) + 1, Len(events)) = <<>>
        BY <1>0, <1>1 DEF EventTypes
      <3> QED  BY <2>1, <2>2, <3>1, <3>2
    <2>6. CASE i \in DOMAIN listeners
      <3>1. listeners[i] = r /\ r # q
        BY <2>3, <2>4, <2>6 DEF ListedOnce
      <3>2. since'[r] = since[r]
        BY <1>0, <2>1, <3>1 DEF TaskTypes
      <3> QED  BY <1>2, <2>1, <2>2, <2>6, <3>1, <3>2 DEF Caught
    <2> QED  BY <1>1, <2>4, <2>5, <2>6
  <1>7. ASSUME NEW p \in Peers, Begin(p)
        PROVE  chan'[r] = SubSeq(events', since'[r] + 1, ServedTo(i)')
    <2>1. /\ lock = NoPeer /\ lock' = p /\ index' = Len(listeners) /\ answers[p] # <<>>
          /\ events' = Append(events, Head(answers[p])) /\ UNCHANGED <<listeners, chan, since>>
      BY <1>7 DEF Begin
    <2>2. Head(answers[p]) \in Answers
      <3>1. AnswersTypes
        BY Types
      <3> QED  BY <2>1, <3>1, HeadTailProperties DEF AnswersTypes
    <2>3. Len(events') = Len(events) + 1
      BY <1>0, <2>1, <2>2, AppendProperties DEF EventTypes
    <2>4. ServedTo(i) = Len(events) /\ ServedTo(i)' = Len(events)
      BY <1>1, <2>1, <2>3, EventsAssumption DEF ServedTo
    <2>5. chan[r] = SubSeq(events, since[r] + 1, Len(events))
      BY <1>2, <2>1, <2>4 DEF Caught
    <2>6. SubSeq(events', since[r] + 1, Len(events)) = SubSeq(events, since[r] + 1, Len(events))
      BY <1>0, <1>4, <2>1, <2>2, Earlier DEF EventTypes
    <2> QED  BY <2>1, <2>4, <2>5, <2>6
  <1>8. ASSUME NEW p \in Peers, Serve(p)
        PROVE  chan'[r] = SubSeq(events', since'[r] + 1, ServedTo(i)')
    <2>1. /\ lock = p /\ lock' = p /\ index \in DOMAIN listeners /\ index' = index - 1
          /\ UNCHANGED <<answers, events, since>>
      BY <1>0, <1>1, <1>8 DEF Serve, ListTypes
    <2>2. \A j : ServedTo(j) = IF j <= index THEN Len(events) - 1 ELSE Len(events)
      BY <2>1, EventsAssumption DEF ServedTo
    <2>3. ServedTo(i)' = IF i <= index - 1 THEN Len(events) - 1 ELSE Len(events)
      BY <2>1, EventsAssumption DEF ServedTo
    <2>4. CASE /\ ~ Dead(listeners[index]) /\ UNCHANGED listeners
               /\ chan' = [chan EXCEPT ![listeners[index]] = Append(@, Head(answers[p]))]
      <3>1. CASE i = index
        <4>1. chan'[r] = Append(chan[r], Head(answers[p]))
          BY <1>0, <2>4, <3>1 DEF SentTypes
        <4>2. chan[r] = SubSeq(events, since[r] + 1, Len(events) - 1)
          BY <1>1, <1>2, <2>1, <2>2, <2>4, <3>1 DEF Caught
        <4>3. events # <<>> /\ Head(answers[p]) = events[Len(events)] /\ since[r] < Len(events)
          BY <2>1, <2>4, <3>1, EventsAssumption DEF Serving
        <4>4. since[r] \in 0 .. Len(events) - 1
          BY <1>1, <1>4, <4>3
        <4>5. SubSeq(events, since[r] + 1, Len(events))
                  = Append(SubSeq(events, since[r] + 1, Len(events) - 1), events[Len(events)])
          BY <1>0, <4>3, <4>4, Longer DEF EventTypes
        <4>6. ServedTo(i)' = Len(events)
          BY <1>1, <2>3, <3>1
        <4> QED  BY <2>1, <4>1, <4>2, <4>3, <4>5, <4>6
      <3>2. CASE i # index
        <4>1. listeners[i] = r /\ i \in DOMAIN listeners /\ listeners[index] # r
          <5>1. r # "old"
            BY EventsAssumption
          <5> QED  BY <2>1, <2>4, <3>2, <5>1 DEF ListedOnce
        <4>2. chan'[r] = chan[r]
          BY <1>0, <2>4, <4>1 DEF SentTypes
        <4>3. ServedTo(i)' = ServedTo(i)
          BY <1>1, <1>3, <2>2, <2>3, <3>2
        <4> QED  BY <1>2, <2>1, <4>1, <4>2, <4>3 DEF Caught
      <3> QED  BY <3>1, <3>2
    <2>5. CASE listeners' = RemoveAt(listeners, index) /\ UNCHANGED chan
      <3>1. PICK k \in DOMAIN listeners :
                listeners'[i] = listeners[k] /\ k = IF i < index THEN i ELSE i + 1
        BY <1>0, <1>1, <2>1, <2>5, Kept DEF ListTypes
      <3>2. ServedTo(i)' = ServedTo(k)
        BY <1>1, <1>3, <2>2, <2>3, <3>1
      <3> QED  BY <1>2, <2>1, <2>5, <3>1, <3>2 DEF Caught
    <2> QED  BY <1>8, <2>4, <2>5 DEF Serve
  <1>9. ASSUME NEW p \in Peers, End(p)
        PROVE  chan'[r] = SubSeq(events', since'[r] + 1, ServedTo(i)')
    <2>1. index = 0 /\ lock' = NoPeer /\ UNCHANGED <<listeners, chan, events, since>>
      BY <1>9 DEF End
    <2>2. ServedTo(i)' = Len(events) /\ ServedTo(i) = Len(events)
      BY <1>3, <2>1 DEF ServedTo
    <2> QED  BY <1>2, <2>1, <2>2 DEF Caught
  <1>10. ASSUME NEW q \in Requests, Task(q), ~ Listen(q)
         PROVE  UNCHANGED <<listeners, lock, index, chan, events, since>>
    BY <1>10 DEF Task, Number, SendRequest, Receive, TimeOut
  <1>11. ASSUME NEW p \in Peers, Reply(p)
         PROVE  UNCHANGED <<listeners, lock, index, chan, events, since>>
    BY <1>11 DEF Reply
  <1>12. ASSUME UNCHANGED vars  PROVE UNCHANGED <<listeners, lock, index, chan, events, since>>
    BY <1>12 DEF vars
  <1> QED
    BY <1>5, <1>6, <1>7, <1>8, <1>9, <1>10, <1>11, <1>12 DEF Next, Event
-----------------------------------------------------------------------------
(* What is asked, answered or given to event() was sent.                   *)
LEMMA Following ==
    ASSUME TypeOK, TypeOK', Serving, AnswersFollow, [Next]_vars
    PROVE  AnswersFollow'
  <1>0. TaskTypes /\ AskedTypes /\ AnswersTypes /\ ListTypes /\ EventTypes /\ kind' = kind
    <2>1. kind' = kind
      BY DEF Next, Task, Event, vars, Number, Listen, SendRequest, Receive, TimeOut, Reply, Begin, Serve, End
    <2> QED  BY <2>1, Types
  <1> SUFFICES ASSUME kind = "query", NEW r \in Requests
               PROVE  /\ \A p \in Peers : \A k \in DOMAIN asked'[p] : asked'[p][k].of = r => Sent(r)'
                      /\ \A p \in Peers : \A k \in DOMAIN answers'[p] : answers'[p][k].of = r => Sent(r)'
                      /\ \A k \in DOMAIN events' : events'[k].of = r => Sent(r)'
    BY <1>0 DEF AnswersFollow
  <1> DEFINE Goal == /\ \A p \in Peers : \A k \in DOMAIN asked'[p] : asked'[p][k].of = r => Sent(r)'
                     /\ \A p \in Peers : \A k \in DOMAIN answers'[p] : answers'[p][k].of = r => Sent(r)'
                     /\ \A k \in DOMAIN events' : events'[k].of = r => Sent(r)'
  <1>1. /\ \A p \in Peers : \A k \in DOMAIN asked[p] : asked[p][k].of = r => Sent(r)'
        /\ \A p \in Peers : \A k \in DOMAIN answers[p] : answers[p][k].of = r => Sent(r)'
        /\ \A k \in DOMAIN events : events[k].of = r => Sent(r)'
    BY Registering DEF AnswersFollow
  <1>2. CASE UNCHANGED <<asked, answers, events>>
    BY <1>1, <1>2
  <1>3. ASSUME NEW q \in Requests, SendRequest(q)  PROVE Goal
    <2> DEFINE a == [number |-> number[q], of |-> q]
    <2>1. asked' = [asked EXCEPT ![peer[q]] = Append(@, a)] /\ UNCHANGED <<answers, events>>
      BY <1>3 DEF SendRequest
    <2>2. a.of = q /\ a \in Questions
      <3>1. NumberTypes
        BY Types
      <3> QED  BY <3>1 DEF NumberTypes, Questions
    <2> HIDE DEF a
    <2>3. q = r => Sent(r)'
      BY <1>0, <1>3, Orders DEF SendRequest, Goto, Sent, TaskTypes
    <2>4. ASSUME NEW p \in Peers, NEW k \in DOMAIN asked'[p], asked'[p][k].of = r  PROVE Sent(r)'
      <3>1. CASE asked'[p] = asked[p]
        BY <1>1, <2>4, <3>1
      <3>2. CASE asked'[p] = Append(asked[p], a)
        <4>1. asked[p] \in Seq(Questions)
          BY <1>0 DEF AskedTypes
        <4>2. /\ DOMAIN asked'[p] = 1 .. Len(asked[p]) + 1 /\ asked'[p][Len(asked[p]) + 1] = a
              /\ \A j \in DOMAIN asked[p] : asked'[p][j] = asked[p][j]
              /\ DOMAIN asked[p] = 1 .. Len(asked[p]) /\ Len(asked[p]) \in Nat
          BY <2>2, <3>2, <4>1, AppendProperties
        <4>3. CASE k = Len(asked[p]) + 1
          BY <2>2, <2>3, <2>4, <4>2, <4>3
        <4>4. CASE k \in DOMAIN asked[p]
          BY <1>1, <2>4, <4>2, <4>4
        <4> QED  BY <2>4, <4>2, <4>3, <4>4
      <3> QED  BY <1>0, <2>1, <3>1, <3>2 DEF AskedTypes
    <2> QED  BY <1>1, <2>1, <2>4
  <1>4. ASSUME NEW q \in Peers, Reply(q)  PROVE Goal
    <2> DEFINE a == [number |-> Head(asked[q]).number, from |-> q, of |-> Head(asked[q]).of]
    <2>1. asked[q] # <<>> /\ asked' = [asked EXCEPT ![q] = Tail(@)] /\ UNCHANGED events
          /\ (answers' = [answers EXCEPT ![q] = Append(@, a)] \/ UNCHANGED answers)
      BY <1>4 DEF Reply
    <2>2. asked[q] \in Seq(Questions)
      BY <1>0 DEF AskedTypes
    <2>3. /\ Head(asked[q]) \in Questions /\ 1 \in DOMAIN asked[q] /\ Head(asked[q]) = asked[q][1]
          /\ \A k \in DOMAIN Tail(asked[q]) :
                 k + 1 \in DOMAIN asked[q] /\ Tail(asked[q])[k] = asked[q][k + 1]
      BY <2>1, <2>2, HeadTailProperties
    <2>4. a.of = r => Sent(r)'
      BY <1>1, <2>3
    <2>5. a \in Answers
      BY <2>3 DEF Answers, Questions
    <2> HIDE DEF a
    <2>6. ASSUME NEW p \in Peers, NEW k \in DOMAIN asked'[p], asked'[p][k].of = r  PROVE Sent(r)'
      <3>1. CASE asked'[p] = asked[p]
        BY <1>1, <2>6, <3>1
      <3>2. CASE p = q
        <4>1. asked'[p] = Tail(asked[q])
          BY <1>0, <2>1, <3>2 DEF AskedTypes
        <4> QED  BY <1>1, <2>3, <2>6, <4>1
      <3> QED  BY <1>0, <2>1, <3>1, <3>2 DEF AskedTypes
    <2>7. ASSUME NEW p \in Peers, NEW k \in DOMAIN answers'[p], answers'[p][k].of = r  PROVE Sent(r)'
      <3>1. CASE answers'[p] = answers[p]
        BY <1>1, <2>7, <3>1
      <3>2. CASE answers'[p] = Append(answers[p], a)
        <4>1. answers[p] \in Seq(Answers)
          BY <1>0 DEF AnswersTypes
        <4>2. /\ DOMAIN answers'[p] = 1 .. Len(answers[p]) + 1 /\ answers'[p][Len(answers[p]) + 1] = a
              /\ \A j \in DOMAIN answers[p] : answers'[p][j] = answers[p][j]
              /\ DOMAIN answers[p] = 1 .. Len(answers[p]) /\ Len(answers[p]) \in Nat
          BY <2>5, <3>2, <4>1, AppendProperties
        <4>3. CASE k = Len(answers[p]) + 1
          BY <2>4, <2>7, <4>2, <4>3
        <4>4. CASE k \in DOMAIN answers[p]
          BY <1>1, <2>7, <4>2, <4>4
        <4> QED  BY <2>7, <4>2, <4>3, <4>4
      <3> QED  BY <1>0, <2>1, <3>1, <3>2 DEF AnswersTypes
    <2> QED  BY <1>1, <2>1, <2>6, <2>7
  <1>5. ASSUME NEW q \in Peers, Begin(q)  PROVE Goal
    <2>1. answers[q] # <<>> /\ events' = Append(events, Head(answers[q])) /\ UNCHANGED <<asked, answers>>
      BY <1>5 DEF Begin
    <2>2. answers[q] \in Seq(Answers) /\ events \in Seq(Answers)
      BY <1>0 DEF AnswersTypes, EventTypes
    <2>3. Head(answers[q]) \in Answers /\ 1 \in DOMAIN answers[q] /\ Head(answers[q]) = answers[q][1]
      BY <2>1, <2>2, HeadTailProperties
    <2>4. /\ DOMAIN events' = 1 .. Len(events) + 1 /\ events'[Len(events) + 1] = answers[q][1]
          /\ \A j \in DOMAIN events : events'[j] = events[j]
          /\ DOMAIN events = 1 .. Len(events) /\ Len(events) \in Nat
      BY <2>1, <2>2, <2>3, AppendProperties
    <2>5. ASSUME NEW k \in DOMAIN events', events'[k].of = r  PROVE Sent(r)'
      <3>1. CASE k = Len(events) + 1
        BY <1>1, <2>3, <2>4, <2>5, <3>1
      <3>2. CASE k \in DOMAIN events
        BY <1>1, <2>4, <2>5, <3>2
      <3> QED  BY <2>4, <2>5, <3>1, <3>2
    <2> QED  BY <1>1, <2>1, <2>5
  <1>6. ASSUME NEW q \in Peers, End(q)  PROVE Goal
    <2>1. lock = q /\ answers' = [answers EXCEPT ![q] = Tail(@)] /\ UNCHANGED <<asked, events>>
      BY <1>6 DEF End
    <2>2. answers[q] # <<>> /\ answers[q] \in Seq(Answers)
      BY <1>0, <2>1, EventsAssumption DEF Serving, AnswersTypes
    <2>3. \A k \in DOMAIN Tail(answers[q]) :
              k + 1 \in DOMAIN answers[q] /\ Tail(answers[q])[k] = answers[q][k + 1]
      BY <2>2, HeadTailProperties
    <2>4. ASSUME NEW p \in Peers, NEW k \in DOMAIN answers'[p], answers'[p][k].of = r  PROVE Sent(r)'
      <3>1. CASE answers'[p] = answers[p]
        BY <1>1, <2>4, <3>1
      <3>2. CASE p = q
        <4>1. answers'[p] = Tail(answers[q])
          BY <1>0, <2>1, <3>2 DEF AnswersTypes
        <4> QED  BY <1>1, <2>3, <2>4, <4>1
      <3> QED  BY <1>0, <2>1, <3>1, <3>2 DEF AnswersTypes
    <2> QED  BY <1>1, <2>1, <2>4
  <1>7. ASSUME NEW q \in Requests, Task(q), ~ SendRequest(q)  PROVE UNCHANGED <<asked, answers, events>>
    BY <1>7 DEF Task, Number, Listen, Receive, TimeOut
  <1>8. ASSUME NEW q \in Peers, Serve(q)  PROVE UNCHANGED <<asked, answers, events>>
    BY <1>8 DEF Serve
  <1>9. ASSUME UNCHANGED vars  PROVE UNCHANGED <<asked, answers, events>>
    BY <1>9 DEF vars
  <1> QED  BY <1>2, <1>3, <1>4, <1>5, <1>6, <1>7, <1>8, <1>9 DEF Next, Event

(* A query has not been sent when it registers.                            *)
LEMMA Hearing ==
    ASSUME TypeOK, TypeOK', Serving, AnswersFollow, Heard, [Next]_vars
    PROVE  Heard'
  <1>0. TaskTypes /\ EventTypes /\ kind' = kind
    <2>1. kind' = kind
      BY DEF Next, Task, Event, vars, Number, Listen, SendRequest, Receive, TimeOut, Reply, Begin, Serve, End
    <2> QED  BY <2>1, Types
  <1>1. Len(events) \in Nat /\ DOMAIN events = 1 .. Len(events)
    BY <1>0 DEF EventTypes
  <1> SUFFICES ASSUME kind = "query", NEW r \in Requests, NEW k \in 1 .. since'[r]
               PROVE  events'[k].of # r
    BY <1>0 DEF Heard
  <1>2. since[r] \in 0 .. Len(events) /\ (k \in 1 .. since[r] => events[k].of # r)
    BY <1>0, <1>1 DEF TaskTypes, Serving, Heard
  <1>3. CASE UNCHANGED <<events, since>>
    BY <1>2, <1>3
  <1>4. ASSUME NEW q \in Requests, Listen(q)  PROVE events'[k].of # r
    <2>1. since' = [since EXCEPT ![q] = Len(events)] /\ UNCHANGED events /\ stage[q] = "listen"
      BY <1>4 DEF Listen
    <2>2. CASE q = r
      <3>1. ~ Sent(r) /\ k \in DOMAIN events
        BY <1>0, <1>1, <2>1, <2>2 DEF Sent, TaskTypes
      <3> QED  BY <2>1, <3>1 DEF AnswersFollow
    <2>3. CASE q # r
      BY <1>0, <1>2, <2>1, <2>3 DEF TaskTypes
    <2> QED  BY <2>2, <2>3
  <1>5. ASSUME NEW p \in Peers, Begin(p)  PROVE events'[k].of # r
    <2>1. events' = Append(events, Head(answers[p])) /\ UNCHANGED since /\ answers[p] # <<>>
      BY <1>5 DEF Begin
    <2>2. Head(answers[p]) \in Answers
      <3>1. AnswersTypes
        BY Types
      <3> QED  BY <2>1, <3>1, HeadTailProperties DEF AnswersTypes
    <2>3. k \in 1 .. Len(events)
      BY <1>1, <1>2, <2>1
    <2>4. events'[k] = events[k]
      BY <1>0, <2>1, <2>2, <2>3, AppendProperties DEF EventTypes
    <2> QED  BY <1>2, <2>1, <2>4
  <1>6. ASSUME NEW q \in Requests, Task(q), ~ Listen(q)  PROVE UNCHANGED <<events, since>>
    BY <1>6 DEF Task, Number, SendRequest, Receive, TimeOut
  <1>7. ASSUME NEW p \in Peers, Reply(p) \/ Serve(p) \/ End(p)  PROVE UNCHANGED <<events, since>>
    BY <1>7 DEF Reply, Serve, End
  <1>8. ASSUME UNCHANGED vars  PROVE UNCHANGED <<events, since>>
    BY <1>8 DEF vars
  <1> QED  BY <1>3, <1>4, <1>5, <1>6, <1>7, <1>8 DEF Next, Event
-----------------------------------------------------------------------------
LEMMA Beginning == Init => Inv
  <1> SUFFICES ASSUME Init  PROVE Inv
    OBVIOUS
  <1>1. /\ kind \in {"query", "ping"} /\ counter \in 0 .. Numbers - 1
        /\ stage = [r \in Requests |-> "new"] /\ peer = [r \in Requests |-> NoPeer]
        /\ number = [r \in Requests |-> 0] /\ asked = [p \in Peers |-> <<>>]
        /\ answers = [p \in Peers |-> <<>>] /\ listeners = [i \in 1 .. Old |-> "old"]
        /\ lock = NoPeer /\ index = 0 /\ chan = [r \in Requests |-> <<>>]
        /\ taken = [r \in Requests |-> 0] /\ result = [r \in Requests |-> "none"]
        /\ events = <<>> /\ since = [r \in Requests |-> 0]
    BY DEF Init
  <1>2. listeners \in Seq(Names) /\ Len(listeners) \in Nat /\ DOMAIN listeners = 1 .. Old
        /\ \A i \in DOMAIN listeners : listeners[i] = "old"
    BY <1>1, EventsAssumption DEF Names
  <1>3. TypeOK
    <2>1. TaskTypes
      BY <1>1 DEF TaskTypes, Stages
    <2>2. NumberTypes
      BY <1>1, EventsAssumption DEF NumberTypes
    <2>3. AskedTypes /\ AnswersTypes /\ SentTypes /\ EventTypes
      BY <1>1 DEF AskedTypes, AnswersTypes, SentTypes, EventTypes
    <2>4. ListTypes
      <3>1. lock = NoPeer /\ index = 0
        BY <1>1
      <3>2. index \in 0 .. Len(listeners)
        BY <1>2, <3>1
      <3> QED  BY <1>2, <3>1, <3>2 DEF ListTypes
    <2> QED  BY <2>1, <2>2, <2>3, <2>4, Types
  <1>4. \A r \in Requests : r # "old"
    BY EventsAssumption
  <1>5. \A r \in Requests : ~ Registered(r)
    BY <1>1 DEF Registered
  <1>6. ListedOnce
    BY <1>2, <1>4, <1>5 DEF ListedOnce
  <1>7. Serving
    BY <1>1 DEF Serving
  <1>8. NothingEarly
    BY <1>1 DEF NothingEarly
  <1>9. Caught
    BY <1>2, <1>4 DEF Caught
  <1>10. AnswersFollow
    BY <1>1 DEF AnswersFollow
  <1>11. Heard
    BY <1>1 DEF Heard
  <1> QED  BY <1>3, <1>6, <1>7, <1>8, <1>9, <1>10, <1>11 DEF Inv

LEMMA Preserved == Inv /\ [Next]_vars => Inv'
  <1> SUFFICES ASSUME Inv, [Next]_vars  PROVE Inv'
    OBVIOUS
  <1> USE DEF Inv
  <1>1. TypeOK'
    BY Typed
  <1>2. ListedOnce' /\ Serving' /\ NothingEarly' /\ Caught'
    BY <1>1, Once, Served, NotEarly, Catching
  <1>3. AnswersFollow' /\ Heard'
    BY <1>1, Following, Hearing
  <1> QED  BY <1>1, <1>2, <1>3

(* All of the invariant, of every behaviour of events.rs.                  *)
THEOREM Invariance == Spec => []Inv
  BY Beginning, Preserved, PTL DEF Spec

(* No index into `listeners` and no answer that is not there is looked at  *)
(* in event(), although the list shrinks while it is walked.               *)
THEOREM TypeCorrect == Spec => []TypeOK
  <1>1. Inv => TypeOK
    BY DEF Inv
  <1> QED  BY <1>1, Invariance, PTL

(* event() serves every listener with every answer, once and in order.     *)
THEOREM NoEventIsLost == Spec => []EveryEvent
  <1>1. Inv => EveryEvent
    <2> SUFFICES ASSUME Inv, NEW i \in DOMAIN listeners, ~ Dead(listeners[i])
                 PROVE  chan[listeners[i]] = SubSeq(events, since[listeners[i]] + 1, ServedTo(i))
      BY DEF EveryEvent, ServedTo
    <2>1. listeners[i] \in Requests
      BY DEF Dead
    <2> QED  BY <2>1 DEF Inv, Caught
  <1> QED  BY <1>1, Invariance, PTL

(* event() never forgets the listener of a task that waits.                *)
THEOREM NobodyIsForgotten == Spec => []WaitingIsListed
  <1>1. Inv => WaitingIsListed
    <2> SUFFICES ASSUME Inv, NEW r \in Requests, stage[r] = "wait"
                 PROVE  \E i \in DOMAIN listeners :
                            listeners[i] = r /\ \A j \in DOMAIN listeners : listeners[j] = r => i = j
      BY DEF WaitingIsListed
    <2>1. PICK i \in DOMAIN listeners : listeners[i] = r
      BY DEF Inv, ListedOnce, Registered
    <2>2. r # "old"
      BY EventsAssumption
    <2> QED  BY <2>1, <2>2 DEF Inv, ListedOnce
  <1> QED  BY <1>1, Invariance, PTL

(* A query that registers before it is sent cannot miss its answer.        *)
THEOREM HearsItsAnswer == Spec => []ListensInTime
  <1>1. Inv => ListensInTime
    BY DEF Inv, Heard, ListensInTime
  <1> QED  BY <1>1, Invariance, PTL
-----------------------------------------------------------------------------
(* Everybody takes their own answer (ImplementsRequest), as long as there  *)
(* are numbers for all requests.  The invariant for it: what is on its way *)
(* or was sent to a listener bears the number and the peer of its request  *)
(* (Genuine), and no two requests have the same number, since the counter  *)
(* has not gone round since any of them was numbered.                      *)
Numbered == {r \in Requests : stage[r] # "new"}

(* How far the counter has gone since r was numbered.                      *)
Behind(r) == IF number[r] < counter THEN counter - number[r] ELSE counter + Numbers - number[r]

NotGoneRound == \A r \in Numbered : Behind(r) <= Cardinality(Numbered)
NumbersDiffer == \A q, r \in Numbered : number[q] = number[r] => q = r

Genuine(x, p) == x.of \in Numbered /\ x.number = number[x.of] /\ peer[x.of] = p

QuestionsGenuine == \A p \in Peers : \A k \in DOMAIN asked[p] : Genuine(asked[p][k], p)
AnswersGenuine ==
    \A p \in Peers : \A k \in DOMAIN answers[p] :
        answers[p][k].from = p /\ Genuine(answers[p][k], p)
SentGenuine ==
    \A r \in Requests : \A k \in DOMAIN chan[r] : Genuine(chan[r][k], chan[r][k].from)

ResultAtTheEnd == \A r \in Requests : result[r] # "none" => stage[r] = "done"

OwnInv ==
    /\ NotGoneRound
    /\ NumbersDiffer
    /\ QuestionsGenuine
    /\ AnswersGenuine
    /\ SentGenuine
    /\ ResultAtTheEnd

LEMMA EachAppended ==
    ASSUME NEW S, NEW s \in Seq(S), NEW e \in S, NEW k \in DOMAIN Append(s, e)
    PROVE  Append(s, e)[k] = e \/ (k \in DOMAIN s /\ Append(s, e)[k] = s[k])
  <1>1. /\ DOMAIN Append(s, e) = 1 .. Len(s) + 1 /\ Append(s, e)[Len(s) + 1] = e
        /\ \A j \in DOMAIN s : Append(s, e)[j] = s[j]
        /\ DOMAIN s = 1 .. Len(s) /\ Len(s) \in Nat
    BY AppendProperties
  <1>2. k = Len(s) + 1 \/ k \in 1 .. Len(s)
    BY <1>1
  <1> QED  BY <1>1, <1>2

LEMMA EachOfTail ==
    ASSUME NEW S, NEW s \in Seq(S), s # <<>>
    PROVE  /\ Head(s) \in S /\ 1 \in DOMAIN s /\ Head(s) = s[1]
           /\ \A k \in DOMAIN Tail(s) : k + 1 \in DOMAIN s /\ Tail(s)[k] = s[k + 1]
  BY HeadTailProperties

(* A request keeps its number and its peer.                                *)
LEMMA StaysNumbered ==
    ASSUME TypeOK, [Next]_vars, NEW r \in Numbered
    PROVE  r \in Numbered' /\ number'[r] = number[r] /\ peer'[r] = peer[r]
  <1>0. TaskTypes /\ NumberTypes /\ r \in Requests /\ stage[r] # "new"
    BY Types DEF Numbered
  <1>1. ASSUME NEW q \in Requests, NEW p \in Peers, Number(q, p)
        PROVE  stage'[r] = stage[r] /\ number'[r] = number[r] /\ peer'[r] = peer[r]
    BY <1>0, <1>1 DEF Number, Goto, TaskTypes, NumberTypes
  <1>2. ASSUME NEW q \in Requests, Listen(q) \/ SendRequest(q) \/ Receive(q) \/ TimeOut(q)
        PROVE  stage'[r] # "new" /\ UNCHANGED <<number, peer>>
    <2>1. stage' = stage \/ \E there \in Stages \ {"new"} : stage' = [stage EXCEPT ![q] = there]
      <3>1. After("listen") \in Stages \ {"new"} /\ After("send") \in Stages \ {"new"}
        BY <1>0, Orders DEF TaskTypes, Stages
      <3>2. "done" \in Stages \ {"new"} /\ "timed out" \in Stages \ {"new"}
        BY DEF Stages
      <3> QED  BY <1>2, <3>1, <3>2 DEF Listen, SendRequest, Receive, TimeOut, Goto
    <2>2. stage'[r] # "new"
      BY <1>0, <2>1 DEF TaskTypes
    <2> QED  BY <1>2, <2>2 DEF Listen, SendRequest, Receive, TimeOut
  <1>3. ASSUME NEW p \in Peers, Reply(p) \/ Event(p)  PROVE UNCHANGED <<stage, number, peer>>
    BY <1>3 DEF Reply, Event, Begin, Serve, End
  <1>4. ASSUME UNCHANGED vars  PROVE UNCHANGED <<stage, number, peer>>
    BY <1>4 DEF vars
  <1> QED
    BY <1>0, <1>1, <1>2, <1>3, <1>4 DEF Next, Task, Numbered

(* Only Number numbers a request.                                          *)
LEMMA StaysNew ==
    ASSUME TypeOK, [Next]_vars, \A r \in Requests, p \in Peers : ~ Number(r, p)
    PROVE  Numbered' = Numbered /\ counter' = counter /\ number' = number
  <1>0. TaskTypes /\ NumberTypes
    BY Types
  <1>1. ASSUME NEW q \in Requests, Listen(q) \/ SendRequest(q) \/ Receive(q) \/ TimeOut(q)
        PROVE  /\ stage[q] # "new" /\ \A r \in Requests : r # q => stage'[r] = stage[r]
               /\ UNCHANGED <<number, counter>>
    BY <1>0, <1>1 DEF Listen, SendRequest, Receive, TimeOut, Goto, TaskTypes
  <1>2. ASSUME NEW q \in Requests, Listen(q) \/ SendRequest(q) \/ Receive(q) \/ TimeOut(q)
        PROVE  Numbered' = Numbered
    <2>1. stage'[q] # "new"
      BY <1>1, <1>2, StaysNumbered DEF Numbered
    <2> QED  BY <1>1, <1>2, <2>1 DEF Numbered
  <1>3. ASSUME NEW p \in Peers, Reply(p) \/ Event(p)  PROVE UNCHANGED <<stage, number, counter>>
    BY <1>3 DEF Reply, Event, Begin, Serve, End
  <1>4. ASSUME UNCHANGED vars  PROVE UNCHANGED <<stage, number, counter>>
    BY <1>4 DEF vars
  <1> QED  BY <1>1, <1>2, <1>3, <1>4 DEF Next, Task, Numbered

(* fetch_add() either adds one or starts again.                            *)
LEMMA CounterSteps ==
    ASSUME NEW c \in 0 .. Numbers - 1
    PROVE  (c + 1) % Numbers = IF c + 1 = Numbers THEN 0 ELSE c + 1
  <1>1. Numbers \in Nat \ {0}
    BY EventsAssumption
  <1> QED  BY <1>1

(* When a request is numbered the counter has not come back to any number  *)
(* that was given before.                                                  *)
LEMMA NumbersStep ==
    ASSUME IsFiniteSet(Requests), Cardinality(Requests) <= Numbers,
           TypeOK, NotGoneRound, NumbersDiffer, [Next]_vars
    PROVE  NotGoneRound' /\ NumbersDiffer'
  <1>0. TaskTypes /\ NumberTypes
    BY Types
  <1>1. IsFiniteSet(Numbered) /\ Cardinality(Numbered) \in Nat /\ Numbers \in Nat \ {0}
    BY FS_Subset, FS_CardinalityType, EventsAssumption DEF Numbered
  <1>2. CASE \A r \in Requests, p \in Peers : ~ Number(r, p)
    <2>1. Numbered' = Numbered /\ counter' = counter /\ number' = number
      BY <1>2, StaysNew
    <2> QED  BY <2>1 DEF NotGoneRound, NumbersDiffer, Behind
  <1>3. ASSUME NEW r \in Requests, NEW p \in Peers, Number(r, p)
        PROVE  NotGoneRound' /\ NumbersDiffer'
    <2>1. /\ Numbered' = Numbered \cup {r} /\ r \notin Numbered /\ Numbered \subseteq Requests
          /\ number'[r] = counter
          /\ \A q \in Numbered : number'[q] = number[q]
      <3>1. Order[1] # "new"
        BY <1>0, Orders DEF TaskTypes
      <3> QED  BY <1>0, <1>3, <3>1 DEF Number, Goto, Numbered, TaskTypes, NumberTypes
    <2>2. Cardinality(Numbered') = Cardinality(Numbered) + 1
      BY <1>1, <2>1, FS_AddElement
    <2>3. Cardinality(Numbered') <= Numbers
      <3>1. Numbered' \subseteq Requests
        BY <2>1
      <3>2. Cardinality(Numbered') <= Cardinality(Requests) /\ Cardinality(Requests) \in Nat
        BY <3>1, FS_Subset, FS_CardinalityType
      <3> QED  BY <1>1, <2>2, <3>2
    <2>4. counter \in 0 .. Numbers - 1 /\ counter' = IF counter + 1 = Numbers THEN 0 ELSE counter + 1
      BY <1>0, <1>3, CounterSteps DEF Number, NumberTypes
    <2>5. ASSUME NEW q \in Numbered
          PROVE  /\ number[q] \in 0 .. Numbers - 1 /\ number[q] # counter
                 /\ Behind(q)' <= Cardinality(Numbered')
      <3>1. number[q] \in 0 .. Numbers - 1 /\ Behind(q) <= Cardinality(Numbered)
        BY <1>0, <2>1 DEF NumberTypes, NotGoneRound
      <3>2. number[q] # counter
        BY <1>1, <2>2, <2>3, <2>4, <3>1 DEF Behind
      <3>3. number'[q] = number[q]
        BY <2>1
      <3> QED  BY <1>1, <2>2, <2>4, <3>1, <3>2, <3>3 DEF Behind
    <2>6. Behind(r)' <= Cardinality(Numbered')
      BY <1>1, <2>1, <2>2, <2>4 DEF Behind
    <2>7. NotGoneRound'
      BY <2>1, <2>5, <2>6 DEF NotGoneRound
    <2>8. NumbersDiffer'
      BY <2>1, <2>5 DEF NumbersDiffer
    <2> QED  BY <2>7, <2>8
  <1> QED  BY <1>2, <1>3

LEMMA StaysGenuine ==
    ASSUME TypeOK, [Next]_vars, NEW x, NEW p, Genuine(x, p)
    PROVE  x.of \in Numbered' /\ x.number = number'[x.of] /\ peer'[x.of] = p
  BY StaysNumbered DEF Genuine

(* A peer is asked what was numbered, and answers with the same number.    *)
LEMMA QuestionsStep ==
    ASSUME TypeOK, QuestionsGenuine, [Next]_vars
    PROVE  QuestionsGenuine'
  <1>0. AskedTypes /\ NumberTypes /\ TaskTypes
    BY Types
  <1> DEFINE Good(x, p) == x.of \in Numbered' /\ x.number = number'[x.of] /\ peer'[x.of] = p
  <1>1. \A p \in Peers : \A k \in DOMAIN asked[p] : Good(asked[p][k], p)
    BY StaysGenuine DEF QuestionsGenuine
  <1> SUFFICES ASSUME NEW p \in Peers, NEW k \in DOMAIN asked'[p]
               PROVE  Good(asked'[p][k], p)
    BY DEF QuestionsGenuine, Genuine
  <1>2. CASE asked'[p] = asked[p]
    BY <1>1, <1>2
  <1>3. ASSUME NEW q \in Requests, SendRequest(q), asked'[p] # asked[p]
        PROVE  Good(asked'[p][k], p)
    <2> DEFINE a == [number |-> number[q], of |-> q]
    <2>1. asked'[p] = Append(asked[p], a) /\ peer[q] = p
      BY <1>0, <1>3 DEF SendRequest, AskedTypes
    <2>2. a \in Questions /\ a.of = q /\ a.number = number[q]
      BY <1>0 DEF Questions, NumberTypes
    <2>3. q \in Numbered
      BY <1>3 DEF SendRequest, Numbered
    <2> HIDE DEF a
    <2>4. Good(a, p)
      BY <2>1, <2>2, <2>3, StaysNumbered
    <2>5. asked'[p][k] = a \/ (k \in DOMAIN asked[p] /\ asked'[p][k] = asked[p][k])
      <3>1. asked[p] \in Seq(Questions)
        BY <1>0 DEF AskedTypes
      <3> QED  BY <2>1, <2>2, <3>1, EachAppended
    <2> QED  BY <1>1, <2>4, <2>5
  <1>4. ASSUME NEW q \in Peers, Reply(q), asked'[p] # asked[p]
        PROVE  Good(asked'[p][k], p)
    <2>1. asked[p] # <<>> /\ asked'[p] = Tail(asked[p]) /\ asked[p] \in Seq(Questions)
      BY <1>0, <1>4 DEF Reply, AskedTypes
    <2>2. k + 1 \in DOMAIN asked[p] /\ asked'[p][k] = asked[p][k + 1]
      BY <2>1, EachOfTail
    <2> QED  BY <1>1, <2>2
  <1>5. ASSUME NEW q \in Requests, Task(q), ~ SendRequest(q)  PROVE asked'[p] = asked[p]
    BY <1>5 DEF Task, Number, Listen, Receive, TimeOut
  <1>6. ASSUME NEW q \in Peers, Event(q)  PROVE asked'[p] = asked[p]
    BY <1>6 DEF Event, Begin, Serve, End
  <1>7. ASSUME UNCHANGED vars  PROVE asked'[p] = asked[p]
    BY <1>7 DEF vars
  <1> QED  BY <1>2, <1>3, <1>4, <1>5, <1>6, <1>7 DEF Next

LEMMA AnswersStep ==
    ASSUME TypeOK, Serving, QuestionsGenuine, AnswersGenuine, [Next]_vars
    PROVE  AnswersGenuine'
  <1>0. AskedTypes /\ AnswersTypes
    BY Types
  <1> DEFINE Good(x, p) == /\ x.from = p
                           /\ x.of \in Numbered' /\ x.number = number'[x.of] /\ peer'[x.of] = p
  <1>1. \A p \in Peers : \A k \in DOMAIN answers[p] : Good(answers[p][k], p)
    BY StaysGenuine DEF AnswersGenuine
  <1> SUFFICES ASSUME NEW p \in Peers, NEW k \in DOMAIN answers'[p]
               PROVE  Good(answers'[p][k], p)
    BY DEF AnswersGenuine, Genuine
  <1>2. CASE answers'[p] = answers[p]
    BY <1>1, <1>2
  <1>3. ASSUME NEW q \in Peers, Reply(q), answers'[p] # answers[p]
        PROVE  Good(answers'[p][k], p)
    <2> DEFINE a == [number |-> Head(asked[p]).number, from |-> p, of |-> Head(asked[p]).of]
    <2>1. asked[p] # <<>> /\ answers'[p] = Append(answers[p], a)
      BY <1>0, <1>3 DEF Reply, AnswersTypes
    <2>2. Head(asked[p]) \in Questions /\ 1 \in DOMAIN asked[p] /\ Head(asked[p]) = asked[p][1]
      BY <1>0, <2>1, EachOfTail DEF AskedTypes
    <2>3. /\ a \in Answers /\ a.from = p
          /\ a.number = asked[p][1].number /\ a.of = asked[p][1].of
      BY <2>2 DEF Answers, Questions
    <2> HIDE DEF a
    <2>4. Good(a, p)
      <3>1. Genuine(asked[p][1], p)
        BY <2>2 DEF QuestionsGenuine
      <3> QED  BY <2>3, <3>1, StaysGenuine
    <2>5. answers'[p][k] = a \/ (k \in DOMAIN answers[p] /\ answers'[p][k] = answers[p][k])
      <3>1. answers[p] \in Seq(Answers)
        BY <1>0 DEF AnswersTypes
      <3> QED  BY <2>1, <2>3, <3>1, EachAppended
    <2> QED  BY <1>1, <2>4, <2>5
  <1>4. ASSUME NEW q \in Peers, End(q), answers'[p] # answers[p]
        PROVE  Good(answers'[p][k], p)
    <2>1. p = q /\ lock = p /\ answers'[p] = Tail(answers[p]) /\ answers[p] \in Seq(Answers)
      BY <1>0, <1>4 DEF End, AnswersTypes
    <2>2. answers[p] # <<>>
      BY <2>1, EventsAssumption DEF Serving
    <2>3. k + 1 \in DOMAIN answers[p] /\ answers'[p][k] = answers[p][k + 1]
      BY <2>1, <2>2, EachOfTail
    <2> QED  BY <1>1, <2>3
  <1>5. ASSUME NEW q \in Requests, Task(q)  PROVE answers'[p] = answers[p]
    BY <1>5 DEF Task, Number, Listen, SendRequest, Receive, TimeOut
  <1>6. ASSUME NEW q \in Peers, Begin(q) \/ Serve(q)  PROVE answers'[p] = answers[p]
    BY <1>6 DEF Begin, Serve
  <1>7. ASSUME UNCHANGED vars  PROVE answers'[p] = answers[p]
    BY <1>7 DEF vars
  <1> QED  BY <1>2, <1>3, <1>4, <1>5, <1>6, <1>7 DEF Next, Event

(* event() copies the answer that is being served.                         *)
LEMMA SentStep ==
    ASSUME TypeOK, Serving, AnswersGenuine, SentGenuine, [Next]_vars
    PROVE  SentGenuine'
  <1>0. AnswersTypes /\ SentTypes
    BY Types
  <1> DEFINE Good(x) == x.of \in Numbered' /\ x.number = number'[x.of] /\ peer'[x.of] = x.from
  <1>1. \A r \in Requests : \A k \in DOMAIN chan[r] : Good(chan[r][k])
    BY StaysGenuine DEF SentGenuine
  <1> SUFFICES ASSUME NEW r \in Requests, NEW k \in DOMAIN chan'[r]
               PROVE  Good(chan'[r][k])
    BY DEF SentGenuine, Genuine
  <1>2. CASE chan'[r] = chan[r]
    BY <1>1, <1>2
  <1>3. ASSUME NEW p \in Peers, Serve(p), chan'[r] # chan[r]
        PROVE  Good(chan'[r][k])
    <2>1. lock = p /\ chan'[r] = Append(chan[r], Head(answers[p])) /\ chan[r] \in Seq(Answers)
      BY <1>0, <1>3 DEF Serve, SentTypes
    <2>2. answers[p] # <<>> /\ answers[p] \in Seq(Answers)
      BY <1>0, <2>1, EventsAssumption DEF Serving, AnswersTypes
    <2>3. Head(answers[p]) \in Answers /\ 1 \in DOMAIN answers[p] /\ Head(answers[p]) = answers[p][1]
      BY <2>2, EachOfTail
    <2>4. Good(Head(answers[p]))
      <3>1. answers[p][1].from = p /\ Genuine(answers[p][1], p)
        BY <2>3 DEF AnswersGenuine
      <3> QED  BY <2>3, <3>1, StaysGenuine
    <2>5. \/ chan'[r][k] = Head(answers[p])
          \/ k \in DOMAIN chan[r] /\ chan'[r][k] = chan[r][k]
      BY <2>1, <2>3, EachAppended
    <2> QED  BY <1>1, <2>4, <2>5
  <1>4. ASSUME NEW q \in Requests, Task(q)  PROVE chan'[r] = chan[r]
    BY <1>4 DEF Task, Number, Listen, SendRequest, Receive, TimeOut
  <1>5. ASSUME NEW p \in Peers, Reply(p) \/ Begin(p) \/ End(p)  PROVE chan'[r] = chan[r]
    BY <1>5 DEF Reply, Begin, End
  <1>6. ASSUME UNCHANGED vars  PROVE chan'[r] = chan[r]
    BY <1>6 DEF vars
  <1> QED  BY <1>2, <1>3, <1>4, <1>5, <1>6 DEF Next, Event

(* recv() takes for its own only the answer to its own request.            *)
LEMMA MineIsMine ==
    ASSUME TypeOK, NumbersDiffer, SentGenuine, NEW r \in Requests, stage[r] = "wait",
           taken[r] < Len(chan[r]), Mine(r, chan[r][taken[r] + 1])
    PROVE  chan[r][taken[r] + 1].of = r
  <1> DEFINE a == chan[r][taken[r] + 1]
  <1>1. taken[r] + 1 \in DOMAIN chan[r]
    BY Types DEF TaskTypes, SentTypes
  <1>2. Genuine(a, a.from)
    BY <1>1 DEF SentGenuine
  <1>3. r \in Numbered
    BY DEF Numbered
  <1> HIDE DEF a
  <1>4. Mine(r, a)
    BY DEF a
  <1>5. a.of = r
    BY <1>2, <1>3, <1>4 DEF Mine, Genuine, NumbersDiffer
  <1> QED  BY <1>5 DEF a

LEMMA ResultStep ==
    ASSUME TypeOK, ResultAtTheEnd, [Next]_vars
    PROVE  ResultAtTheEnd'
  <1>0. TaskTypes
    BY Types
  <1> SUFFICES ASSUME NEW r \in Requests, result'[r] # "none"
               PROVE  stage'[r] = "done"
    BY DEF ResultAtTheEnd
  <1>1. ASSUME NEW q \in Requests, Receive(q)  PROVE stage'[r] = "done"
    <2>1. CASE UNCHANGED <<result, stage>>
      BY <2>1 DEF ResultAtTheEnd
    <2>2. CASE Goto(q, "done") /\ result' = [result EXCEPT ![q] = chan[q][taken[q] + 1].of]
      BY <1>0, <2>2 DEF Goto, TaskTypes, ResultAtTheEnd
    <2> QED  BY <1>1, <2>1, <2>2 DEF Receive
  <1>2. ASSUME NEW q \in Requests, Task(q), ~ Receive(q)  PROVE stage'[r] = "done"
    <2>1. result'[r] = result[r]
      BY <1>2 DEF Task, Number, Listen, SendRequest, TimeOut
    <2>2. stage[r] = "done" /\ stage[q] # "done"
      BY <1>2, <2>1 DEF ResultAtTheEnd, Task, Number, Listen, SendRequest, TimeOut
    <2> QED  BY <1>0, <1>2, <2>2 DEF Task, Number, Listen, SendRequest, TimeOut, Goto, TaskTypes
  <1>3. ASSUME NEW p \in Peers, Reply(p) \/ Event(p)  PROVE UNCHANGED <<stage, result>>
    BY <1>3 DEF Reply, Event, Begin, Serve, End
  <1>4. ASSUME UNCHANGED vars  PROVE UNCHANGED <<stage, result>>
    BY <1>4 DEF vars
  <1> QED  BY <1>1, <1>2, <1>3, <1>4 DEF Next, ResultAtTheEnd

LEMMA OwnInvariance ==
    ASSUME IsFiniteSet(Requests), Cardinality(Requests) <= Numbers
    PROVE  Spec => []OwnInv
  <1>1. Init => OwnInv
    <2> SUFFICES ASSUME Init  PROVE OwnInv
      OBVIOUS
    <2>1. Numbered = {}
      BY DEF Init, Numbered
    <2>2. NotGoneRound /\ NumbersDiffer
      BY <2>1 DEF NotGoneRound, NumbersDiffer
    <2>3. QuestionsGenuine /\ AnswersGenuine /\ SentGenuine /\ ResultAtTheEnd
      BY DEF Init, QuestionsGenuine, AnswersGenuine, SentGenuine, ResultAtTheEnd
    <2> QED  BY <2>2, <2>3 DEF OwnInv
  <1>2. Inv /\ OwnInv /\ [Next]_vars => OwnInv'
    BY NumbersStep, QuestionsStep, AnswersStep, SentStep, ResultStep DEF OwnInv, Inv
  <1> QED  BY <1>1, <1>2, Invariance, PTL DEF Spec

(* The request that a step is about, and what comes of it.                 *)
LEMMA OutcomeSteps ==
    ASSUME TypeOK, TypeOK', OwnInv, [Next]_vars, NEW r \in Requests
    PROVE  \/ Outcome(r)' = Outcome(r)
           \/ Outcome(r) = "none" /\ Outcome(r)' = "asked" /\ SendRequest(r)
           \/ Outcome(r) = "asked" /\ Outcome(r)' = r /\ Receive(r)
           \/ Outcome(r) = "asked" /\ Outcome(r)' = "given up" /\ kind = "ping" /\ TimeOut(r)
  <1> USE DEF OwnInv
  <1>0. TaskTypes /\ kind' = kind
    <2>1. kind' = kind
      BY DEF Next, Task, Event, vars, Number, Listen, SendRequest, Receive, TimeOut, Reply, Begin, Serve, End
    <2> QED  BY <2>1, Types
  <1>1. (result[r] # "none" => stage[r] = "done") /\ r # "none"
    BY EventsAssumption DEF ResultAtTheEnd
  <1>2. CASE stage'[r] = stage[r] /\ result'[r] = result[r]
    BY <1>0, <1>2 DEF Outcome, Asked
  <1>3. ASSUME NEW p \in Peers, Number(r, p)  PROVE Outcome(r)' = Outcome(r)
    <2>1. stage[r] = "new" /\ stage'[r] = Order[1] /\ result' = result
      BY <1>0, <1>3 DEF Number, Goto, TaskTypes
    <2> QED  BY <1>0, <1>1, <2>1, Orders DEF Outcome, Asked, TaskTypes
  <1>4. CASE Listen(r)
    <2>1. stage[r] = "listen" /\ stage'[r] = After("listen") /\ result' = result
      BY <1>0, <1>4 DEF Listen, Goto, TaskTypes
    <2> QED  BY <1>0, <1>1, <2>1, Orders DEF Outcome, Asked, TaskTypes
  <1>5. CASE SendRequest(r)
    <2>1. stage[r] = "send" /\ stage'[r] = After("send") /\ result' = result
      BY <1>0, <1>5 DEF SendRequest, Goto, TaskTypes
    <2> QED  BY <1>0, <1>1, <1>5, <2>1, Orders DEF Outcome, Asked, TaskTypes
  <1>6. CASE Receive(r) /\ ~ UNCHANGED <<result, stage>>
    <2> DEFINE a == chan[r][taken[r] + 1]
    <2>1. /\ stage[r] = "wait" /\ taken[r] < Len(chan[r]) /\ Mine(r, a)
          /\ Goto(r, "done") /\ result' = [result EXCEPT ![r] = a.of]
      BY <1>6 DEF Receive
    <2>2. a.of = r
      BY <2>1, MineIsMine
    <2> HIDE DEF a
    <2>3. result'[r] = r
      BY <1>0, <2>1, <2>2 DEF TaskTypes
    <2>4. Outcome(r) = "asked" /\ Outcome(r)' = r
      BY <1>0, <1>1, <2>1, <2>3 DEF Outcome, Asked, TaskTypes
    <2> QED  BY <1>6, <2>4
  <1>7. CASE TimeOut(r)
    <2>1. kind = "ping" /\ stage[r] = "wait" /\ stage'[r] = "timed out" /\ result' = result
      BY <1>0, <1>7 DEF TimeOut, Goto, TaskTypes
    <2> QED  BY <1>0, <1>1, <1>7, <2>1 DEF Outcome, Asked, TaskTypes
  <1>8. ASSUME NEW q \in Requests, q # r, Task(q)  PROVE stage'[r] = stage[r] /\ result'[r] = result[r]
    <2>1. stage' = stage \/ \E there : stage' = [stage EXCEPT ![q] = there]
      BY <1>8 DEF Task, Number, Listen, SendRequest, Receive, TimeOut, Goto
    <2>2. result' = result \/ \E x : result' = [result EXCEPT ![q] = x]
      BY <1>8 DEF Task, Number, Listen, SendRequest, Receive, TimeOut
    <2> QED  BY <1>0, <1>8, <2>1, <2>2 DEF TaskTypes
  <1>9. ASSUME NEW p \in Peers, Reply(p) \/ Event(p)  PROVE UNCHANGED <<stage, result>>
    BY <1>9 DEF Reply, Event, Begin, Serve, End
  <1>10. ASSUME UNCHANGED vars  PROVE UNCHANGED <<stage, result>>
    BY <1>10 DEF vars
  <1> QED
    BY <1>2, <1>3, <1>4, <1>5, <1>6, <1>7, <1>8, <1>9, <1>10 DEF Next, Task

(* The safety part of ImplementsRequest: whoever is answered took the      *)
(* answer to its own request, once (by the comparisons of request_id and   *)
(* peer in node.rs, dht.rs and discovery.rs), if Counter has a number for  *)
(* each request; and only a ping gives up.                                 *)
THEOREM RequestsImplemented ==
    ASSUME IsFiniteSet(Requests), Cardinality(Requests) <= Numbers
    PROVE  Spec => Abstract!Spec
  <1>1. Init => Abstract!Init
    <2> SUFFICES ASSUME Init  PROVE Abstract!Init
      OBVIOUS
    <2>1. \A r \in Requests : Outcome(r) = "none"
      BY DEF Init, Outcome, Asked
    <2> QED  BY <2>1 DEF Abstract!Init, Init
  <1>2. Inv /\ Inv' /\ OwnInv /\ [Next]_vars => [Abstract!Next]_(Abstract!vars)
    <2> SUFFICES ASSUME Inv, Inv', OwnInv, [Next]_vars  PROVE [Abstract!Next]_(Abstract!vars)
      OBVIOUS
    <2> USE DEF Inv
    <2>0. TaskTypes
      BY Types
    <2> DEFINE out == [r \in Requests |-> Outcome(r)]
    <2>1. kind' = kind
      BY DEF Next, Task, Event, vars, Number, Listen, SendRequest, Receive, TimeOut, Reply, Begin, Serve, End
    <2>2. CASE \A r \in Requests : Outcome(r)' = Outcome(r)
      <3>1. out' = out
        BY <2>2
      <3> QED  BY <2>1, <3>1 DEF Abstract!vars
    <2>3. ASSUME NEW r \in Requests, Outcome(r)' # Outcome(r)  PROVE Abstract!Next
      <3>1. \/ Outcome(r) = "none" /\ Outcome(r)' = "asked" /\ SendRequest(r)
            \/ Outcome(r) = "asked" /\ Outcome(r)' = r /\ Receive(r)
            \/ Outcome(r) = "asked" /\ Outcome(r)' = "given up" /\ kind = "ping" /\ TimeOut(r)
        BY <2>3, OutcomeSteps
      <3>2. ASSUME NEW q \in Requests, q # r  PROVE Outcome(q)' = Outcome(q)
        <4>1. stage'[q] = stage[q] /\ result'[q] = result[q]
          BY <2>0, <3>1, <3>2 DEF SendRequest, Receive, TimeOut, Goto, TaskTypes
        <4> QED  BY <2>1, <4>1 DEF Outcome, Asked
      <3>3. out' = [out EXCEPT ![r] = Outcome(r)']
        BY <3>2
      <3>4. out[r] = Outcome(r)
        OBVIOUS
      <3>5. CASE Outcome(r) = "none" /\ Outcome(r)' = "asked"
        <4>1. Abstract!Ask(r)
          BY <2>1, <3>3, <3>4, <3>5 DEF Abstract!Ask, Abstract!Becomes
        <4> QED  BY <4>1 DEF Abstract!Next
      <3>6. CASE Outcome(r) = "asked" /\ Outcome(r)' = r
        <4>1. Abstract!Answer(r)
          BY <2>1, <3>3, <3>4, <3>6 DEF Abstract!Answer, Abstract!Becomes
        <4> QED  BY <4>1 DEF Abstract!Next
      <3>7. CASE Outcome(r) = "asked" /\ Outcome(r)' = "given up" /\ kind = "ping"
        <4>1. Abstract!GiveUp(r)
          BY <2>1, <3>3, <3>4, <3>7 DEF Abstract!GiveUp, Abstract!Becomes
        <4> QED  BY <4>1 DEF Abstract!Next
      <3> QED  BY <3>1, <3>5, <3>6, <3>7
    <2> QED  BY <2>2, <2>3
  <1> QED  BY <1>1, <1>2, Invariance, OwnInvariance, PTL DEF Spec, Abstract!Spec
=============================================================================
