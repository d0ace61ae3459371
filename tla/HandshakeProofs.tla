-------------------------- MODULE HandshakeProofs --------------------------
(***************************************************************************)
(* Theorems about Handshake, for any number of nodes and streams, any      *)
(* delays, with or without encryption.                                     *)
(*                                                                         *)
(* The inductive invariant IndInv adds to TypeOK what each part of the     *)
(* state knows of the others: a packet names its sender (PacketsNameSender)*)
(* so that a PeerID or a key part that was received is the other end's     *)
(* (PeerIsOther, PartIsOther); the pool and the phases of the ends agree   *)
(* (PoolHoldsOpen, OpenIsPooled); and a task that disconnects belongs to a *)
(* connection that was opened (TasksOpened).                               *)
(***************************************************************************)
EXTENDS Handshake, TLAPS

(* Both ends of a stream come into use together, and before that nothing   *)
(* has been written.                                                       *)
StreamsStart ==
    \A e \in Ends :
        /\ phase[e] = "unused" => phase[Other(e)] = "unused" /\ chan[e] = <<>>
        /\ phase[e] # "unused" => node[e] \in Nodes

(* A stream waits in one place of one backlog, until it is accepted.       *)
BacklogQueued ==
    \A n \in Nodes : \A i \in 1..Len(backlog[n]) :
        /\ node[AcceptEnd(backlog[n][i])] = n
        /\ phase[AcceptEnd(backlog[n][i])] = "queued"
        /\ \A j \in 1..Len(backlog[n]) : backlog[n][i] = backlog[n][j] => i = j

(* Every packet of channels c is one that its sender can write.            *)
Named(c, nd) ==
    \A e \in Ends : \A i \in 1..Len(c[e]) :
        c[e][i] \in Sendable(nd[Other(e)], Other(e))

PacketsNameSender == Named(chan, node)

Identified == {"aes", "ehlo", "insert", "open", "closed"}

PeerIsOther ==
    \A e \in Ends :
        /\ phase[e] \in Identified => peer[e] # NoNode
        /\ peer[e] # NoNode => /\ phase[e] \notin {"unused", "queued"}
                               /\ peer[e] = node[Other(e)]
                               /\ peer[e] # node[e]
                               /\ expect[e] \in {NoNode, peer[e]}

PartIsOther ==
    \A e \in Ends : part[e] # NoEnd => part[e] = Other(e) /\ peer[e] # NoNode

PoolHoldsOpen ==
    \A n, p \in Nodes : pool[n][p] # NoEnd =>
        /\ phase[pool[n][p]] = "open"
        /\ node[pool[n][p]] = n
        /\ peer[pool[n][p]] = p

OpenIsPooled ==
    \A e \in Ends : phase[e] = "open" => pool[node[e]][peer[e]] = e

(* A reader or a lookup runs disconnect() for an end that was opened.      *)
Opened(c) ==
    /\ c \in Ends => phase[c] \in {"open", "closed"}
    /\ c \in Lookups => phase[DialEnd(c[1])] \in {"open", "closed"}

TasksOpened ==
    \A c \in Tasks :
        /\ closing[c].step # "idle" => Opened(c)
        /\ closing[c].step = "notify" => closing[c].end \in Ends

IndInv ==
    /\ TypeOK
    /\ StreamsStart
    /\ BacklogQueued
    /\ PacketsNameSender
    /\ PeerIsOther
    /\ PartIsOther
    /\ PoolHoldsOpen
    /\ OpenIsPooled
    /\ TasksOpened
-----------------------------------------------------------------------------
(* The two ends of a stream.                                               *)
LEMMA OtherEnd ==
    ASSUME NEW e \in Ends
    PROVE  /\ Other(e) \in Ends
           /\ Other(Other(e)) = e
           /\ Other(e) # e
  BY DEF Ends, Other

LEMMA StreamEnds ==
    ASSUME NEW s \in Streams
    PROVE  /\ DialEnd(s) \in Ends
           /\ AcceptEnd(s) \in Ends
           /\ Other(DialEnd(s)) = AcceptEnd(s)
           /\ Other(AcceptEnd(s)) = DialEnd(s)
           /\ DialEnd(s) # AcceptEnd(s)
           /\ \A t \in Streams : AcceptEnd(s) = AcceptEnd(t) => s = t
           /\ \A t \in Streams : DialEnd(s) # AcceptEnd(t)
  BY DEF Ends, Other, DialEnd, AcceptEnd

(* No two kinds of tasks share a name.                                     *)
LEMMA TasksDisjoint ==
    /\ Ends \cap Pingers = {}
    /\ Ends \cap Lookups = {}
    /\ Pingers \cap Lookups = {}
    /\ \A c \in Lookups : DialEnd(c[1]) \in Ends
    /\ \A c \in Pingers : c[1] \in Nodes /\ c[2] \in Nodes
  BY TransportAssumption, PoolAssumption DEF Ends, Pingers, Lookups, DialEnd

LEMMA NoneOutside == NoEnd \notin Ends /\ NoNode \notin Nodes
  BY TransportAssumption DEF Ends

(* What a packet says of its sender.                                       *)
LEMMA PacketFields ==
    ASSUME NEW n, NEW e \in Ends, NEW p \in Sendable(n, e)
    PROVE  /\ p.type = "InitRsa" => p.key = n /\ p.nonce = e
           /\ p.type = "InitAes" => p.part = e
  BY DEF Sendable, ProtocolVersion, InitRsa, InitAes, Ehlo, Quit

LEMMA SendablePackets ==
    ASSUME NEW n \in Nodes, NEW e \in Ends
    PROVE  /\ Sendable(n, e) \subseteq Packets
           /\ ProtocolVersion(Version[n]) \in Sendable(n, e)
           /\ InitRsa(n, e) \in Sendable(n, e)
           /\ \A f \in Ends : InitAes(e, f) \in Sendable(n, e)
           /\ Ehlo(n) \in Sendable(n, e)
           /\ \A r \in Errors : Quit(r) \in Sendable(n, e)
           /\ Quit("Quit") \in Sendable(n, e)
           /\ Quit("InsertError::AlreadyConnected") \in Sendable(n, e)
<1>1. Sendable(n, e) \subseteq Packets
  BY DEF Packets
<1>2. /\ Quit("Quit") \in Sendable(n, e)
      /\ Quit("InsertError::AlreadyConnected") \in Sendable(n, e)
      /\ \A r \in Errors : Quit(r) \in Sendable(n, e)
  BY DEF Sendable
<1>3. \A f \in Ends : InitAes(e, f) \in Sendable(n, e)
  BY DEF Sendable
<1>4. /\ ProtocolVersion(Version[n]) \in Sendable(n, e)
      /\ InitRsa(n, e) \in Sendable(n, e)
      /\ Ehlo(n) \in Sendable(n, e)
  BY DEF Sendable
<1> QED
  BY <1>1, <1>2, <1>3, <1>4

(* Reading and writing one packet.                                         *)
LEMMA WrittenChannels ==
    ASSUME NEW c \in [Ends -> Seq(Packets)], NEW nd, NEW e \in Ends,
           nd[e] \in Nodes, NEW p \in Sendable(nd[e], e), Named(c, nd)
    PROVE  /\ Written(c, e, p) \in [Ends -> Seq(Packets)]
           /\ Named(Written(c, e, p), nd)
           /\ \A f \in Ends : f # Other(e) => Written(c, e, p)[f] = c[f]
<1> DEFINE w == Written(c, e, p)
<1>1. p \in Packets
  BY SendablePackets
<1>2. /\ w \in [Ends -> Seq(Packets)]
      /\ w[Other(e)] = Append(c[Other(e)], p)
      /\ \A f \in Ends : f # Other(e) => w[f] = c[f]
  BY <1>1, OtherEnd DEF Written
<1>3. Named(w, nd)
  <2> SUFFICES ASSUME NEW f \in Ends, NEW i \in 1..Len(w[f])
               PROVE  w[f][i] \in Sendable(nd[Other(f)], Other(f))
    BY DEF Named
  <2>1. CASE f # Other(e)
    BY <1>2, <2>1 DEF Named
  <2>2. CASE f = Other(e)
    <3>1. Other(f) = e /\ f \in Ends
      BY <2>2, OtherEnd
    <3>2. \/ i \in 1..Len(c[f]) /\ w[f][i] = c[f][i]
          \/ w[f][i] = p
      BY <1>1, <1>2, <2>2
    <3> QED
      BY <3>1, <3>2 DEF Named
  <2> QED
    BY <2>1, <2>2
<1> QED
  BY <1>2, <1>3

LEMMA ConsumedChannels ==
    ASSUME NEW c \in [Ends -> Seq(Packets)], NEW nd, NEW e \in Ends,
           c[e] # <<>>, Named(c, nd)
    PROVE  /\ Consumed(c, e) \in [Ends -> Seq(Packets)]
           /\ Named(Consumed(c, e), nd)
           /\ \A f \in Ends : c[f] = <<>> => Consumed(c, e)[f] = <<>>
           /\ Head(c[e]) \in Sendable(nd[Other(e)], Other(e))
<1> DEFINE r == Consumed(c, e)
<1>1. /\ r \in [Ends -> Seq(Packets)]
      /\ r[e] = Tail(c[e])
      /\ \A f \in Ends : f # e => r[f] = c[f]
  BY DEF Consumed
<1>2. Named(r, nd)
  <2> SUFFICES ASSUME NEW f \in Ends, NEW i \in 1..Len(r[f])
               PROVE  r[f][i] \in Sendable(nd[Other(f)], Other(f))
    BY DEF Named
  <2>1. CASE f # e
    BY <1>1, <2>1 DEF Named
  <2>2. CASE f = e
    <3>1. i + 1 \in 1..Len(c[e]) /\ r[f][i] = c[e][i + 1]
      BY <1>1, <2>2
    <3> QED
      BY <3>1, <2>2 DEF Named
  <2> QED
    BY <2>1, <2>2
<1>3. Head(c[e]) \in Sendable(nd[Other(e)], Other(e))
  <2>1. 1 \in 1..Len(c[e]) /\ Head(c[e]) = c[e][1]
    OBVIOUS
  <2> QED
    BY <2>1 DEF Named
<1> QED
  BY <1>1, <1>2, <1>3
-----------------------------------------------------------------------------
Jobs == [step : Steps, end : Ends \cup {NoEnd}]

(* A task goes on to its next step.                                        *)
LEMMA JobSet ==
    ASSUME IndInv, phase' = phase, NEW c \in Tasks, NEW j \in Jobs,
           closing' = SetJob(c, j),
           j.step # "idle" => Opened(c),
           j.step = "notify" => j.end \in Ends
    PROVE  closing' \in [Tasks -> Jobs] /\ TasksOpened'
<1>1. closing \in [Tasks -> Jobs] /\ TasksOpened
  BY DEF IndInv, TypeOK, Jobs
<1>2. closing' \in [Tasks -> Jobs]
  BY <1>1 DEF SetJob
<1>3. ASSUME NEW d \in Tasks
      PROVE  /\ closing'[d].step # "idle" => Opened(d)
             /\ closing'[d].step = "notify" => closing'[d].end \in Ends
  BY <1>1, <1>3 DEF SetJob, TasksOpened
<1>4. \A d \in Tasks : Opened(d)' <=> Opened(d)
  BY DEF Opened
<1> QED
  BY <1>2, <1>3, <1>4 DEF TasksOpened

(* A step that touches neither the streams nor the pool.                   *)
LEMMA ClosingOnly ==
    ASSUME IndInv, closing' \in [Tasks -> Jobs], TasksOpened',
           reported' \in [Ends -> BOOLEAN],
           UNCHANGED <<transportVars, phase, peer, result, pool, quit, handshakeVars>>
    PROVE  IndInv'
<1> USE DEF transportVars, handshakeVars
<1>1. TypeOK'
  BY DEF IndInv, TypeOK, Jobs
<1>2. StreamsStart' /\ BacklogQueued' /\ PacketsNameSender'
  BY DEF IndInv, StreamsStart, BacklogQueued, PacketsNameSender
<1>3. PeerIsOther' /\ PartIsOther' /\ PoolHoldsOpen' /\ OpenIsPooled'
  BY DEF IndInv, PeerIsOther, PartIsOther, PoolHoldsOpen, OpenIsPooled
<1> QED
  BY <1>1, <1>2, <1>3 DEF IndInv

(* The task that disconnects has an owner and a target.                    *)
LEMMA OwnerTarget ==
    ASSUME IndInv, NEW c \in Tasks, Opened(c)
    PROVE  /\ Owner(c) \in Nodes
           /\ Target(c) \in Nodes
<1>1. ASSUME NEW e \in Ends, phase[e] \in {"open", "closed"}
      PROVE  node[e] \in Nodes /\ peer[e] \in Nodes
  BY <1>1 DEF IndInv, TypeOK, StreamsStart, PeerIsOther, Identified
<1>2. CASE c \in Pingers
  BY <1>2, TasksDisjoint DEF Owner, Target
<1>3. CASE c \in Lookups
  BY <1>1, <1>3, TasksDisjoint DEF Owner, Target, Opened
<1>4. CASE c \in Ends
  BY <1>1, <1>4, TasksDisjoint DEF Owner, Target, Opened
<1> QED
  BY <1>2, <1>3, <1>4 DEF Tasks, Readers

LEMMA PooledEnd ==
    ASSUME IndInv, NEW n \in Nodes, NEW p \in Nodes, Contains(n, p)
    PROVE  /\ pool[n][p] \in Ends
           /\ phase[pool[n][p]] = "open"
           /\ node[pool[n][p]] = n
           /\ peer[pool[n][p]] = p
  BY DEF IndInv, TypeOK, PoolHoldsOpen, Contains
-----------------------------------------------------------------------------
(* The actions that only move a task on.                                   *)
LEMMA ClosingSteps ==
    ASSUME IndInv
    PROVE  /\ \A c \in Pingers : StartPing(c) \/ SendPing(c) \/ Answered(c) => IndInv'
           /\ \A c \in Tasks : AlreadyDisconnected(c) \/ Notify(c) => IndInv'
           /\ \A e \in Ends : Cancel(e) => IndInv'
<1> USE DEF transportVars, handshakeVars
<1>1. Job("idle", NoEnd) \in Jobs /\ Job("idle", NoEnd).step = "idle"
  BY DEF Job, Jobs, Steps
<1>2. reported \in [Ends -> BOOLEAN] /\ Pingers \subseteq Tasks /\ Ends \subseteq Tasks
  BY DEF IndInv, TypeOK, Tasks, Readers
<1>3. ASSUME NEW c \in Pingers, StartPing(c) \/ SendPing(c)
      PROVE  IndInv'
  <2>1. Opened(c)
    BY TasksDisjoint DEF Opened
  <2>2. Owner(c) \in Nodes /\ Target(c) \in Nodes
    BY <1>2, <2>1, OwnerTarget
  <2>3. pool[Owner(c)][Target(c)] \in Ends \cup {NoEnd}
    BY <2>2 DEF IndInv, TypeOK
  <2>4. /\ Job("ping", NoEnd) \in Jobs /\ Job("ping", NoEnd).step = "ping"
        /\ Job("waiting", pool[Owner(c)][Target(c)]) \in Jobs
        /\ Job("waiting", pool[Owner(c)][Target(c)]).step = "waiting"
    BY <2>3 DEF Job, Jobs, Steps
  <2>5. closing' \in [Tasks -> Jobs] /\ TasksOpened'
    <3>1. CASE StartPing(c)
      BY <1>2, <3>1, <2>1, <2>4, JobSet DEF StartPing
    <3>2. CASE SendPing(c)
      BY <1>2, <3>2, <2>1, <2>4, JobSet DEF SendPing
    <3> QED  BY <1>3, <3>1, <3>2
  <2> QED
    BY <1>2, <1>3, <2>5, ClosingOnly DEF StartPing, SendPing
<1>4. ASSUME NEW c \in Pingers, Answered(c)
      PROVE  IndInv'
  <2>1. closing' \in [Tasks -> Jobs] /\ TasksOpened'
    BY <1>1, <1>2, <1>4, JobSet DEF Answered
  <2> QED
    BY <1>2, <1>4, <2>1, ClosingOnly DEF Answered
<1>5. ASSUME NEW c \in Tasks, closing[c].step # "idle"
      PROVE  /\ Opened(c)
             /\ Finished(c) \in Jobs
             /\ Finished(c).step # "notify"
  BY <1>5 DEF IndInv, TasksOpened, Finished, Job, Jobs, Steps
<1>6. ASSUME NEW c \in Tasks, AlreadyDisconnected(c)
      PROVE  IndInv'
  <2>1. closing' \in [Tasks -> Jobs] /\ TasksOpened'
    BY <1>5, <1>6, JobSet DEF AlreadyDisconnected
  <2> QED
    BY <1>2, <1>6, <2>1, ClosingOnly DEF AlreadyDisconnected
<1>7. ASSUME NEW c \in Tasks, Notify(c)
      PROVE  IndInv'
  <2>1. closing' \in [Tasks -> Jobs] /\ TasksOpened'
    BY <1>5, <1>7, JobSet DEF Notify
  <2>2. reported' \in [Ends -> BOOLEAN]
    BY <1>2, <1>7 DEF Notify
  <2> QED
    BY <1>7, <2>1, <2>2, ClosingOnly DEF Notify
<1>8. ASSUME NEW e \in Ends, Cancel(e)
      PROVE  IndInv'
  <2>1. closing' \in [Tasks -> Jobs] /\ TasksOpened'
    BY <1>1, <1>2, <1>8, JobSet DEF Cancel
  <2> QED
    BY <1>2, <1>8, <2>1, ClosingOnly DEF Cancel
<1> QED
  BY <1>3, <1>4, <1>6, <1>7, <1>8
-----------------------------------------------------------------------------
(* A packet is written on an end that is in use, on channels ch that hold  *)
(* no more than chan does.                                                 *)
LEMMA WriteKeepsStreams ==
    ASSUME IndInv, NEW e \in Ends, phase[e] # "unused",
           NEW p \in Sendable(node[e], e),
           NEW ch \in [Ends -> Seq(Packets)], Named(ch, node),
           \A f \in Ends : chan[f] = <<>> => ch[f] = <<>>
    PROVE  /\ Written(ch, e, p) \in [Ends -> Seq(Packets)]
           /\ Named(Written(ch, e, p), node)
           /\ \A f \in Ends : phase[f] = "unused" => Written(ch, e, p)[f] = <<>>
<1>1. node[e] \in Nodes
  BY DEF IndInv, StreamsStart
<1>2. ASSUME NEW f \in Ends, phase[f] = "unused"
      PROVE  f # Other(e) /\ ch[f] = <<>>
  BY <1>2, OtherEnd DEF IndInv, StreamsStart
<1> QED
  BY <1>1, <1>2, WrittenChannels

(* The first half of disconnect().                                         *)
LEMMA DisconnectStarts ==
    ASSUME IndInv, NEW c \in Tasks, Opened(c),
           NEW ch \in [Ends -> Seq(Packets)], Named(ch, node),
           \A f \in Ends : chan[f] = <<>> => ch[f] = <<>>,
           StartDisconnect(c, ch)
    PROVE  IndInv'
<1> USE DEF handshakeVars
<1> DEFINE n == Owner(c)
           p == Target(c)
<1>1. n \in Nodes /\ p \in Nodes
  BY OwnerTarget
<1>2. closing' \in [Tasks -> Jobs] /\ TasksOpened'
  <2>1. Job("remove", NoEnd) \in Jobs /\ Job("remove", NoEnd).step = "remove"
    BY DEF Job, Jobs, Steps
  <2> QED
    BY <2>1, JobSet DEF StartDisconnect
<1>3. /\ chan' \in [Ends -> Seq(Packets)]
      /\ Named(chan', node)
      /\ \A f \in Ends : phase[f] = "unused" => chan'[f] = <<>>
      /\ quit' \in [Ends -> BOOLEAN]
  <2>0. quit \in [Ends -> BOOLEAN] /\ chan' = QuitWritten(ch, n, p) /\ quit' = QuitRecorded(n, p)
    BY DEF IndInv, TypeOK, StartDisconnect
  <2>1. CASE Contains(n, p)
    <3>1. /\ pool[n][p] \in Ends
          /\ phase[pool[n][p]] # "unused"
          /\ node[pool[n][p]] = n
      BY <1>1, <2>1, PooledEnd
    <3>2. Quit("Quit") \in Sendable(n, pool[n][p])
      BY <1>1, <3>1, SendablePackets
    <3>3. chan' = Written(ch, pool[n][p], Quit("Quit"))
      BY <2>0, <2>1 DEF QuitWritten
    <3>4. quit' \in [Ends -> BOOLEAN]
      BY <2>0, <2>1 DEF QuitRecorded
    <3> QED
      BY <3>1, <3>2, <3>3, <3>4, WriteKeepsStreams
  <2>2. CASE ~ Contains(n, p)
    BY <2>0, <2>2 DEF QuitWritten, QuitRecorded, IndInv, StreamsStart
  <2> QED
    BY <2>1, <2>2
<1>4. UNCHANGED <<node, backlog, phase, peer, result, pool, reported, handshakeVars>>
  BY DEF StartDisconnect
<1>5. TypeOK'
  BY <1>2, <1>3, <1>4 DEF IndInv, TypeOK, Jobs
<1>6. StreamsStart' /\ BacklogQueued' /\ PacketsNameSender'
  <2>1. StreamsStart'
    BY <1>3, <1>4 DEF IndInv, StreamsStart
  <2>2. BacklogQueued'
    BY <1>4 DEF IndInv, BacklogQueued
  <2>3. PacketsNameSender'
    BY <1>3, <1>4 DEF IndInv, PacketsNameSender
  <2> QED  BY <2>1, <2>2, <2>3
<1>7. PeerIsOther' /\ PartIsOther' /\ PoolHoldsOpen' /\ OpenIsPooled'
  BY <1>4 DEF IndInv, PeerIsOther, PartIsOther, PoolHoldsOpen, OpenIsPooled
<1> QED
  BY <1>2, <1>5, <1>6, <1>7 DEF IndInv

LEMMA DisconnectSteps ==
    ASSUME IndInv
    PROVE  /\ \A e \in Ends : ReadQuit(e) => IndInv'
           /\ \A c \in Pingers : Expire(c) => IndInv'
           /\ \A c \in Lookups : LookupAnswered(c) => IndInv'
<1>1. /\ chan \in [Ends -> Seq(Packets)]
      /\ Named(chan, node)
      /\ Ends \subseteq Tasks /\ Pingers \subseteq Tasks /\ Lookups \subseteq Tasks
  BY DEF IndInv, TypeOK, PacketsNameSender, Tasks, Readers
<1>2. ASSUME NEW e \in Ends, ReadQuit(e)
      PROVE  IndInv'
  <2>1. Opened(e)
    BY <1>2, TasksDisjoint DEF ReadQuit, MayRead, Opened
  <2>2. chan[e] # <<>> /\ StartDisconnect(e, Consumed(chan, e))
    BY <1>2 DEF ReadQuit
  <2>3. /\ Consumed(chan, e) \in [Ends -> Seq(Packets)]
        /\ Named(Consumed(chan, e), node)
        /\ \A f \in Ends : chan[f] = <<>> => Consumed(chan, e)[f] = <<>>
    BY <1>1, <2>2, ConsumedChannels
  <2> QED
    BY <1>1, <2>1, <2>2, <2>3, DisconnectStarts
<1>3. ASSUME NEW c \in Pingers, Expire(c)
      PROVE  IndInv'
  <2>1. Opened(c)
    BY TasksDisjoint DEF Opened
  <2> QED
    BY <1>1, <1>3, <2>1, DisconnectStarts DEF Expire
<1>4. ASSUME NEW c \in Lookups, LookupAnswered(c)
      PROVE  IndInv'
  <2>1. Opened(c)
    BY <1>4, TasksDisjoint DEF Opened, LookupAnswered
  <2> QED
    BY <1>1, <1>4, <2>1, DisconnectStarts DEF LookupAnswered
<1> QED
  BY <1>2, <1>3, <1>4
-----------------------------------------------------------------------------
(* A handshake goes on, fails or is dropped: end e goes to another phase   *)
(* and what it may have learned is the other end's PeerID and key part.    *)
Learned(e) ==
    /\ peer' = [peer EXCEPT ![e] = peer'[e]]
    /\ part' = [part EXCEPT ![e] = part'[e]]
    /\ peer'[e] \in Nodes \cup {NoNode}
    /\ part'[e] \in Ends \cup {NoEnd}
    /\ phase'[e] \in Identified => peer'[e] # NoNode
    /\ peer'[e] # NoNode => /\ peer'[e] = node[Other(e)]
                            /\ peer'[e] # node[e]
                            /\ expect[e] \in {NoNode, peer'[e]}
    /\ part'[e] # NoEnd => part'[e] = Other(e) /\ peer'[e] # NoNode

LEMMA Advance ==
    ASSUME IndInv, NEW e \in Ends, Handshaking(e),
           phase' = SetPhase(e, phase'[e]),
           phase'[e] \in Waiting \cup {"insert", "failed", "dropped"},
           UNCHANGED <<node, backlog, pool, closing, quit, reported, task, expect>>,
           chan' \in [Ends -> Seq(Packets)], Named(chan', node),
           \A g \in Ends : phase[g] = "unused" => chan'[g] = <<>>,
           result' \in [Ends -> Errors \cup {"none"}],
           Learned(e)
    PROVE  IndInv'
<1>1. /\ phase \in [Ends -> Phases] /\ peer \in [Ends -> Nodes \cup {NoNode}]
      /\ part \in [Ends -> Ends \cup {NoEnd}]
      /\ phase'[e] \in Phases \ {"unused", "queued", "open", "closed"}
      /\ phase[e] \in Phases \ {"unused", "queued", "open", "closed"}
  BY DEF IndInv, TypeOK, Phases, Waiting, Handshaking
<1>2. \A g \in Ends : g # e => /\ phase'[g] = phase[g]
                               /\ peer'[g] = peer[g]
                               /\ part'[g] = part[g]
  BY <1>1 DEF SetPhase, Learned
<1>3. TypeOK'
  BY <1>1 DEF IndInv, TypeOK, SetPhase, Learned
<1>4. StreamsStart'
  BY <1>1, <1>2, OtherEnd DEF IndInv, StreamsStart
<1>5. BacklogQueued'
  <2>1. ASSUME NEW n \in Nodes, NEW i \in 1..Len(backlog[n])
        PROVE  AcceptEnd(backlog[n][i]) \in Ends /\ AcceptEnd(backlog[n][i]) # e
    <3>1. backlog[n][i] \in Streams
      BY DEF IndInv, TypeOK
    <3>2. phase[AcceptEnd(backlog[n][i])] = "queued"
      BY DEF IndInv, BacklogQueued
    <3> QED
      BY <1>1, <3>1, <3>2, StreamEnds
  <2>2. ASSUME NEW n \in Nodes, NEW i \in 1..Len(backlog[n])
        PROVE  phase'[AcceptEnd(backlog[n][i])] = "queued"
    BY <1>2, <2>1 DEF IndInv, BacklogQueued
  <2> QED
    BY <2>2 DEF IndInv, BacklogQueued
<1>6. PacketsNameSender'
  BY DEF PacketsNameSender
<1>7. PeerIsOther'
  <2> SUFFICES ASSUME NEW g \in Ends
               PROVE  /\ phase'[g] \in Identified => peer'[g] # NoNode
                      /\ peer'[g] # NoNode => /\ phase'[g] \notin {"unused", "queued"}
                                              /\ peer'[g] = node[Other(g)]
                                              /\ peer'[g] # node[g]
                                              /\ expect[g] \in {NoNode, peer'[g]}
    BY DEF PeerIsOther
  <2>1. CASE g = e
    BY <1>1, <2>1 DEF Learned
  <2>2. CASE g # e
    BY <1>2, <2>2 DEF IndInv, PeerIsOther
  <2> QED
    BY <2>1, <2>2
<1>8. PartIsOther'
  <2> SUFFICES ASSUME NEW g \in Ends, part'[g] # NoEnd
               PROVE  part'[g] = Other(g) /\ peer'[g] # NoNode
    BY DEF PartIsOther
  <2>1. CASE g = e
    BY <2>1 DEF Learned
  <2>2. CASE g # e
    BY <1>2, <2>2 DEF IndInv, PartIsOther
  <2> QED
    BY <2>1, <2>2
<1>9. PoolHoldsOpen'
  <2>1. ASSUME NEW n \in Nodes, NEW p \in Nodes, pool[n][p] # NoEnd
        PROVE  pool[n][p] \in Ends /\ pool[n][p] # e
    BY <1>1, <2>1 DEF IndInv, TypeOK, PoolHoldsOpen
  <2> QED
    BY <1>2, <2>1 DEF IndInv, PoolHoldsOpen
<1>10. OpenIsPooled'
  <2> SUFFICES ASSUME NEW g \in Ends, phase'[g] = "open"
               PROVE  pool[node[g]][peer'[g]] = g
    BY DEF OpenIsPooled
  <2>1. g # e
    BY <1>1
  <2> QED
    BY <1>2, <2>1 DEF IndInv, OpenIsPooled
<1>11. TasksOpened'
  <2>1. \A c \in Tasks : Opened(c) => Opened(c)'
    BY <1>1, <1>2, TasksDisjoint DEF Opened
  <2> QED
    BY <2>1 DEF IndInv, TasksOpened
<1> QED
  BY <1>3, <1>4, <1>5, <1>6, <1>7, <1>8, <1>9, <1>10, <1>11 DEF IndInv

(* What an end that reads a packet of the handshake knows.                 *)
LEMMA HeadOfChannel ==
    ASSUME IndInv, NEW e \in Ends, chan[e] # <<>>
    PROVE  /\ Head(chan[e]) \in Sendable(node[Other(e)], Other(e))
           /\ Consumed(chan, e) \in [Ends -> Seq(Packets)]
           /\ Named(Consumed(chan, e), node)
           /\ \A g \in Ends : chan[g] = <<>> => Consumed(chan, e)[g] = <<>>
<1>1. chan \in [Ends -> Seq(Packets)] /\ Named(chan, node)
  BY DEF IndInv, TypeOK, PacketsNameSender
<1> QED
  BY <1>1, ConsumedChannels

LEMMA HandshakeEnds ==
    ASSUME IndInv, NEW e \in Ends, Handshaking(e)
    PROVE  /\ node[e] \in Nodes
           /\ node[Other(e)] \in Nodes
           /\ phase[e] # "unused"
<1>1. phase[e] # "unused"
  BY DEF Handshaking, Waiting
<1>2. phase[Other(e)] # "unused"
  BY <1>1, OtherEnd DEF IndInv, StreamsStart
<1> QED
  BY <1>1, <1>2, OtherEnd DEF IndInv, StreamsStart

(* Advance, for a step in which e learns nothing.                          *)
LEMMA NothingLearned ==
    ASSUME IndInv, NEW e \in Ends, UNCHANGED <<node, peer, part>>,
           phase'[e] \in Identified => phase[e] \in Identified
    PROVE  Learned(e)
<1>1. /\ peer = [peer EXCEPT ![e] = peer[e]]
      /\ part = [part EXCEPT ![e] = part[e]]
      /\ peer[e] \in Nodes \cup {NoNode}
      /\ part[e] \in Ends \cup {NoEnd}
  BY DEF IndInv, TypeOK
<1> QED
  BY <1>1 DEF Learned, IndInv, PeerIsOther, PartIsOther

LEMMA PhaseSet ==
    ASSUME IndInv, NEW e \in Ends, NEW f, phase' = SetPhase(e, f)
    PROVE  phase'[e] = f
  BY DEF IndInv, TypeOK, SetPhase

-----------------------------------------------------------------------------
(* The channels after end e has read a packet and written reply.           *)
LEMMA ReplyChannels ==
    ASSUME IndInv, NEW e \in Ends, Handshaking(e), chan[e] # <<>>,
           NEW reply \in Sendable(node[e], e),
           chan' = Written(Consumed(chan, e), e, reply)
    PROVE  /\ chan' \in [Ends -> Seq(Packets)]
           /\ Named(chan', node)
           /\ \A g \in Ends : phase[g] = "unused" => chan'[g] = <<>>
<1> DEFINE ch == Consumed(chan, e)
<1>1. phase[e] # "unused"
  BY HandshakeEnds
<1>2. /\ ch \in [Ends -> Seq(Packets)]
      /\ Named(ch, node)
      /\ \A g \in Ends : chan[g] = <<>> => ch[g] = <<>>
  BY HeadOfChannel
<1> HIDE DEF ch
<1>3. /\ Written(ch, e, reply) \in [Ends -> Seq(Packets)]
      /\ Named(Written(ch, e, reply), node)
      /\ \A g \in Ends : phase[g] = "unused" => Written(ch, e, reply)[g] = <<>>
  BY <1>1, <1>2, WriteKeepsStreams
<1> QED
  BY <1>3 DEF ch

LEMMA VersionStep ==
    ASSUME IndInv, NEW e \in Ends, ReceiveVersion(e)
    PROVE  IndInv'
<1>1. /\ Handshaking(e) /\ chan[e] # <<>> /\ "rsa" \in Waiting
      /\ chan' = Written(Consumed(chan, e), e, InitRsa(node[e], e))
      /\ phase' = SetPhase(e, "rsa")
      /\ UNCHANGED <<node, backlog, result, pool, closing, quit, reported, task, expect, peer, part>>
  BY DEF ReceiveVersion, Proceed, Handshaking, Waiting, Identified
<1>2. InitRsa(node[e], e) \in Sendable(node[e], e)
  BY <1>1, HandshakeEnds, SendablePackets
<1>3. /\ chan' \in [Ends -> Seq(Packets)]
      /\ Named(chan', node)
      /\ \A g \in Ends : phase[g] = "unused" => chan'[g] = <<>>
  BY <1>1, <1>2, ReplyChannels
<1>8. phase'[e] = "rsa" /\ phase' = SetPhase(e, phase'[e])
  BY <1>1, PhaseSet
<1>9. result' \in [Ends -> Errors \cup {"none"}]
  BY <1>1 DEF IndInv, TypeOK
<1>10. Learned(e)
  BY <1>1, <1>8, NothingLearned DEF Identified
<1> QED
  BY <1>1, <1>3, <1>8, <1>9, <1>10, Advance DEF Waiting

(* The key that is not refused is the other end's, and not our own.        *)
LEMMA RsaStep ==
    ASSUME IndInv, NEW e \in Ends, ReceiveRsa(e)
    PROVE  IndInv'
<1> DEFINE h == Head(chan[e])
<1>1. /\ Handshaking(e) /\ chan[e] # <<>> /\ "aes" \in Waiting
      /\ Verdict(e, h) = "none" /\ phase[e] = "rsa"
      /\ chan' = Written(Consumed(chan, e), e, InitAes(e, h.nonce))
      /\ phase' = SetPhase(e, "aes")
      /\ peer' = [peer EXCEPT ![e] = h.key]
      /\ UNCHANGED <<node, backlog, result, pool, closing, quit, reported, task, expect, part>>
  BY DEF ReceiveRsa, Proceed, Handshaking, Waiting
<1>2. h.type = "InitRsa" /\ KeyError(e, h.key) = "none"
  <2>1. Awaited[phase[e]] = "InitRsa"
    BY <1>1 DEF Awaited
  <2>2. TypeError(e, h) # "none"
    BY DEF TypeError
  <2>3. h.type = "InitRsa"
    BY <1>1, <2>1, <2>2 DEF Verdict
  <2>4. Verdict(e, h) = KeyError(e, h.key)
    BY <1>1, <2>1, <2>3 DEF Verdict
  <2> QED
    BY <1>1, <2>3, <2>4
<1>3. h.key = node[Other(e)] /\ h.nonce = Other(e)
  BY <1>1, <1>2, HeadOfChannel, OtherEnd, PacketFields
<1>4. h.key # node[e] /\ expect[e] \in {NoNode, h.key}
  BY <1>2 DEF KeyError
<1>5. node[Other(e)] \in Nodes /\ node[Other(e)] # NoNode
  BY <1>1, HandshakeEnds, NoneOutside
<1>6. InitAes(e, h.nonce) \in Sendable(node[e], e)
  BY <1>1, <1>3, HandshakeEnds, OtherEnd, SendablePackets
<1>7. /\ chan' \in [Ends -> Seq(Packets)]
      /\ Named(chan', node)
      /\ \A g \in Ends : phase[g] = "unused" => chan'[g] = <<>>
  BY <1>1, <1>6, ReplyChannels
<1>8. phase'[e] = "aes" /\ phase' = SetPhase(e, phase'[e])
  BY <1>1, PhaseSet
<1>9. result' \in [Ends -> Errors \cup {"none"}]
  BY <1>1 DEF IndInv, TypeOK
<1>10. Learned(e)
  <2>1. peer \in [Ends -> Nodes \cup {NoNode}] /\ part = [part EXCEPT ![e] = part[e]]
    BY DEF IndInv, TypeOK
  <2>2. peer'[e] = h.key /\ peer' = [peer EXCEPT ![e] = peer'[e]]
    BY <1>1, <2>1
  <2>3. /\ part'[e] \in Ends \cup {NoEnd}
        /\ part'[e] # NoEnd => part'[e] = Other(e)
    BY <1>1 DEF IndInv, TypeOK, PartIsOther
  <2> QED
    BY <1>1, <1>3, <1>4, <1>5, <2>1, <2>2, <2>3 DEF Learned
<1> QED
  BY <1>1, <1>7, <1>8, <1>9, <1>10, Advance DEF Waiting

LEMMA AesStep ==
    ASSUME IndInv, NEW e \in Ends, ReceiveAes(e)
    PROVE  IndInv'
<1> DEFINE h == Head(chan[e])
<1>1. /\ Handshaking(e) /\ chan[e] # <<>> /\ "ehlo" \in Waiting
      /\ Verdict(e, h) = "none" /\ phase[e] = "aes" /\ phase[e] \in Identified
      /\ chan' = Written(Consumed(chan, e), e, Ehlo(node[e]))
      /\ phase' = SetPhase(e, "ehlo")
      /\ part' = [part EXCEPT ![e] = h.part]
      /\ UNCHANGED <<node, backlog, result, pool, closing, quit, reported, task, expect, peer>>
  BY DEF ReceiveAes, Proceed, Handshaking, Waiting, Identified
<1>2. h.type = "InitAes"
  <2>1. Awaited[phase[e]] = "InitAes"
    BY <1>1 DEF Awaited
  <2>2. TypeError(e, h) # "none"
    BY DEF TypeError
  <2> QED
    BY <1>1, <2>1, <2>2 DEF Verdict
<1>3. h.part = Other(e) /\ Other(e) \in Ends
  BY <1>1, <1>2, HeadOfChannel, OtherEnd, PacketFields
<1>4. Ehlo(node[e]) \in Sendable(node[e], e)
  BY <1>1, HandshakeEnds, SendablePackets
<1>5. /\ chan' \in [Ends -> Seq(Packets)]
      /\ Named(chan', node)
      /\ \A g \in Ends : phase[g] = "unused" => chan'[g] = <<>>
  BY <1>1, <1>4, ReplyChannels
<1>8. phase'[e] = "ehlo" /\ phase' = SetPhase(e, phase'[e])
  BY <1>1, PhaseSet
<1>9. result' \in [Ends -> Errors \cup {"none"}]
  BY <1>1 DEF IndInv, TypeOK
<1>10. Learned(e)
  <2>1. part \in [Ends -> Ends \cup {NoEnd}] /\ peer = [peer EXCEPT ![e] = peer[e]]
    BY DEF IndInv, TypeOK
  <2>2. part'[e] = h.part /\ part' = [part EXCEPT ![e] = part'[e]]
    BY <1>1, <2>1
  <2>3. /\ peer[e] \in Nodes \cup {NoNode}
        /\ peer[e] # NoNode
        /\ peer[e] = node[Other(e)] /\ peer[e] # node[e] /\ expect[e] \in {NoNode, peer[e]}
    BY <1>1 DEF IndInv, TypeOK, PeerIsOther
  <2> QED
    BY <1>1, <1>3, <2>1, <2>2, <2>3 DEF Learned
<1> QED
  BY <1>1, <1>5, <1>8, <1>9, <1>10, Advance DEF Waiting

LEMMA EhloStep ==
    ASSUME IndInv, NEW e \in Ends, ReceiveEhlo(e)
    PROVE  IndInv'
<1>1. /\ Handshaking(e) /\ chan[e] # <<>> /\ phase[e] \in Identified
      /\ chan' = Consumed(chan, e)
      /\ phase' = SetPhase(e, "insert")
      /\ UNCHANGED <<node, backlog, result, pool, closing, quit, reported, task, expect, peer, part>>
  BY DEF ReceiveEhlo, Handshaking, Waiting, Identified, handshakeVars
<1>2. /\ chan' \in [Ends -> Seq(Packets)]
      /\ Named(chan', node)
      /\ \A g \in Ends : phase[g] = "unused" => chan'[g] = <<>>
  BY <1>1, HeadOfChannel DEF IndInv, StreamsStart
<1>8. phase'[e] = "insert" /\ phase' = SetPhase(e, phase'[e])
  BY <1>1, PhaseSet
<1>9. result' \in [Ends -> Errors \cup {"none"}]
  BY <1>1 DEF IndInv, TypeOK
<1>10. Learned(e)
  BY <1>1, <1>8, NothingLearned DEF Identified
<1> QED
  BY <1>1, <1>2, <1>8, <1>9, <1>10, Advance DEF Waiting

LEMMA FailStep ==
    ASSUME IndInv, NEW e \in Ends, Fail(e)
    PROVE  IndInv'
<1> DEFINE err == Verdict(e, Head(chan[e]))
<1>1. /\ Handshaking(e) /\ chan[e] # <<>> /\ phase[e] \in Waiting /\ err # "none"
      /\ chan' = Written(Consumed(chan, e), e, Quit(err))
      /\ phase' = SetPhase(e, "failed")
      /\ result' = [result EXCEPT ![e] = err]
      /\ UNCHANGED <<node, backlog, pool, closing, quit, reported, task, expect, peer, part>>
  BY DEF Fail, Handshaking, handshakeVars
<1>2. err \in Errors
  <2> DEFINE h == Head(chan[e])
  <2>2. /\ TypeError(e, h) \in Errors
        /\ VersionError(e, h.version) \in Errors \cup {"none"}
        /\ KeyError(e, h.key) \in Errors \cup {"none"}
        /\ AesError(e, h.nonce) \in Errors \cup {"none"}
    BY DEF TypeError, VersionError, KeyError, AesError, Errors
  <2>3. phase[e] \in {"version", "rsa", "aes", "ehlo"}
    BY <1>1 DEF Waiting
  <2>4. err \in Errors \cup {"none"}
    BY <2>2, <2>3 DEF Verdict
  <2> QED
    BY <1>1, <2>4
<1>3. Quit(err) \in Sendable(node[e], e)
  BY <1>1, <1>2, HandshakeEnds, SendablePackets
<1>4. /\ chan' \in [Ends -> Seq(Packets)]
      /\ Named(chan', node)
      /\ \A g \in Ends : phase[g] = "unused" => chan'[g] = <<>>
  BY <1>1, <1>3, ReplyChannels
<1>8. phase'[e] = "failed" /\ phase' = SetPhase(e, phase'[e])
  BY <1>1, PhaseSet
<1>9. result' \in [Ends -> Errors \cup {"none"}]
  BY <1>1, <1>2 DEF IndInv, TypeOK
<1>10. Learned(e)
  BY <1>1, <1>8, NothingLearned DEF Identified
<1> QED
  BY <1>1, <1>4, <1>8, <1>9, <1>10, Advance DEF Waiting

LEMMA AbandonStep ==
    ASSUME IndInv, NEW e \in Ends, Abandon(e)
    PROVE  IndInv'
<1>1. /\ Handshaking(e)
      /\ phase' = SetPhase(e, "dropped")
      /\ UNCHANGED <<node, chan, backlog, result, pool, closing, quit, reported, task, expect, peer, part>>
  BY DEF Abandon, handshakeVars, transportVars, Identified
<1>2. /\ chan' \in [Ends -> Seq(Packets)]
      /\ Named(chan', node)
      /\ \A g \in Ends : phase[g] = "unused" => chan'[g] = <<>>
  BY <1>1 DEF IndInv, TypeOK, StreamsStart, PacketsNameSender
<1>8. phase'[e] = "dropped" /\ phase' = SetPhase(e, phase'[e])
  BY <1>1, PhaseSet
<1>9. result' \in [Ends -> Errors \cup {"none"}]
  BY <1>1 DEF IndInv, TypeOK
<1>10. Learned(e)
  BY <1>1, <1>8, NothingLearned DEF Identified
<1> QED
  BY <1>1, <1>2, <1>8, <1>9, <1>10, Advance DEF Waiting

LEMMA RefuseStep ==
    ASSUME IndInv, NEW e \in Ends, RefuseInsert(e)
    PROVE  IndInv'
<1> DEFINE q == Quit("InsertError::AlreadyConnected")
<1>1. /\ Handshaking(e)
      /\ phase' = SetPhase(e, "failed")
      /\ chan' = Written(chan, e, q)
      /\ result' = [result EXCEPT ![e] = "AlreadyConnected"] /\ "AlreadyConnected" \in Errors
      /\ UNCHANGED <<node, backlog, pool, closing, quit, reported, task, expect, peer, part>>
  BY DEF RefuseInsert, Handshaking, Waiting, Identified, handshakeVars, Errors
<1>2. q \in Sendable(node[e], e)
  BY <1>1, HandshakeEnds, SendablePackets
<1>3. chan \in [Ends -> Seq(Packets)] /\ Named(chan, node)
  BY DEF IndInv, TypeOK, PacketsNameSender
<1>5. phase[e] # "unused"
  BY <1>1, HandshakeEnds
<1>4. /\ chan' \in [Ends -> Seq(Packets)]
      /\ Named(chan', node)
      /\ \A g \in Ends : phase[g] = "unused" => chan'[g] = <<>>
  BY <1>1, <1>2, <1>3, <1>5, WriteKeepsStreams
<1>8. phase'[e] = "failed" /\ phase' = SetPhase(e, phase'[e])
  BY <1>1, PhaseSet
<1>9. result' \in [Ends -> Errors \cup {"none"}]
  BY <1>1 DEF IndInv, TypeOK
<1>10. Learned(e)
  BY <1>1, <1>8, NothingLearned DEF Identified
<1> QED
  BY <1>1, <1>4, <1>8, <1>9, <1>10, Advance DEF Waiting
-----------------------------------------------------------------------------
(* A connection enters the pool.                                           *)
LEMMA InsertStep ==
    ASSUME IndInv, NEW e \in Ends, Insert(e)
    PROVE  IndInv'
<1> DEFINE n == node[e]
           p == peer[e]
<1>1. /\ phase[e] = "insert" /\ ~ Contains(n, p)
      /\ pool' = SetPool(n, p, e)
      /\ phase' = SetPhase(e, "open")
      /\ UNCHANGED <<node, chan, backlog, peer, result, closing, quit, reported, task, expect, part>>
  BY DEF Insert, transportVars, handshakeVars
<1>2. n \in Nodes /\ p \in Nodes /\ p # NoNode
  BY <1>1 DEF IndInv, TypeOK, StreamsStart, PeerIsOther, Identified
<1>3. /\ phase \in [Ends -> Phases]
      /\ pool \in [Nodes -> [Nodes -> Ends \cup {NoEnd}]]
  BY DEF IndInv, TypeOK
<1>4. /\ phase'[e] = "open" /\ \A g \in Ends : g # e => phase'[g] = phase[g]
      /\ phase' \in [Ends -> Phases]
  BY <1>1, <1>3 DEF SetPhase, Phases
<1>5. /\ pool' \in [Nodes -> [Nodes -> Ends \cup {NoEnd}]]
      /\ pool'[n][p] = e
      /\ \A m, q \in Nodes : <<m, q>> # <<n, p>> => pool'[m][q] = pool[m][q]
  BY <1>1, <1>2, <1>3 DEF SetPool
<1>6. TypeOK'
  BY <1>1, <1>4, <1>5 DEF IndInv, TypeOK
<1>7. StreamsStart' /\ PacketsNameSender'
  BY <1>1, <1>4, OtherEnd DEF IndInv, StreamsStart, PacketsNameSender
<1>8. BacklogQueued'
  <2>1. ASSUME NEW m \in Nodes, NEW i \in 1..Len(backlog[m])
        PROVE  phase'[AcceptEnd(backlog[m][i])] = "queued"
    <3>1. backlog[m][i] \in Streams
      BY DEF IndInv, TypeOK
    <3>2. phase[AcceptEnd(backlog[m][i])] = "queued"
      BY DEF IndInv, BacklogQueued
    <3> QED
      BY <1>1, <1>4, <3>1, <3>2, StreamEnds
  <2> QED
    BY <1>1, <2>1 DEF IndInv, BacklogQueued
<1>9. PeerIsOther' /\ PartIsOther'
  BY <1>1, <1>2, <1>4 DEF IndInv, PeerIsOther, PartIsOther, Identified
<1>10. PoolHoldsOpen'
  <2> SUFFICES ASSUME NEW m \in Nodes, NEW q \in Nodes, pool'[m][q] # NoEnd
               PROVE  /\ phase'[pool'[m][q]] = "open"
                      /\ node[pool'[m][q]] = m
                      /\ peer[pool'[m][q]] = q
    BY <1>1 DEF PoolHoldsOpen
  <2>1. CASE <<m, q>> = <<n, p>>
    BY <1>4, <1>5, <2>1
  <2>2. CASE <<m, q>> # <<n, p>>
    BY <1>1, <1>4, <1>5, <2>2, PooledEnd DEF Contains
  <2> QED
    BY <2>1, <2>2
<1>11. OpenIsPooled'
  <2> SUFFICES ASSUME NEW g \in Ends, phase'[g] = "open"
               PROVE  pool'[node[g]][peer[g]] = g
    BY <1>1 DEF OpenIsPooled
  <2>1. CASE g = e
    BY <1>5, <2>1
  <2>2. CASE g # e
    <3>1. phase[g] = "open" /\ pool[node[g]][peer[g]] = g
      BY <1>4, <2>2 DEF IndInv, OpenIsPooled
    <3>2. node[g] \in Nodes /\ peer[g] \in Nodes
      BY <3>1 DEF IndInv, TypeOK, StreamsStart, PeerIsOther, Identified
    <3>3. <<node[g], peer[g]>> # <<n, p>>
      BY <1>1, <3>1, NoneOutside DEF Contains
    <3> QED
      BY <1>5, <3>1, <3>2, <3>3
  <2> QED
    BY <2>1, <2>2
<1>12. TasksOpened'
  <2>1. \A c \in Tasks : Opened(c) => Opened(c)'
    BY <1>1, <1>4, TasksDisjoint DEF Opened
  <2> QED
    BY <1>1, <2>1 DEF IndInv, TasksOpened
<1> QED
  BY <1>6, <1>7, <1>8, <1>9, <1>10, <1>11, <1>12 DEF IndInv

(* A connection leaves the pool: the one that is there now, which may not  *)
(* be the one the task started from.                                       *)
LEMMA RemoveStep ==
    ASSUME IndInv, NEW c \in Tasks, Remove(c)
    PROVE  IndInv'
<1> DEFINE n == Owner(c)
           p == Target(c)
           e == pool[n][p]
<1>1. /\ closing[c].step = "remove" /\ Contains(n, p)
      /\ pool' = SetPool(n, p, NoEnd)
      /\ phase' = SetPhase(e, "closed")
      /\ closing' = [closing EXCEPT ![c] = Job("notify", e), ![e] = Aborted(@)]
      /\ UNCHANGED <<node, chan, backlog, peer, result, quit, reported, task, expect, part>>
  BY DEF Remove, transportVars, handshakeVars
<1>2. Opened(c) /\ n \in Nodes /\ p \in Nodes
  BY <1>1, OwnerTarget DEF IndInv, TasksOpened
<1>3. e \in Ends /\ phase[e] = "open" /\ node[e] = n /\ peer[e] = p
  BY <1>1, <1>2, PooledEnd
<1> HIDE DEF n, p, e
<1>4. /\ phase \in [Ends -> Phases]
      /\ pool \in [Nodes -> [Nodes -> Ends \cup {NoEnd}]]
      /\ closing \in [Tasks -> Jobs]
      /\ e \in Tasks
  BY <1>3 DEF IndInv, TypeOK, Jobs, Tasks, Readers
<1>5. /\ phase'[e] = "closed" /\ \A g \in Ends : g # e => phase'[g] = phase[g]
      /\ phase' \in [Ends -> Phases]
  BY <1>1, <1>3, <1>4 DEF SetPhase, Phases
<1>6. /\ pool' \in [Nodes -> [Nodes -> Ends \cup {NoEnd}]]
      /\ pool'[n][p] = NoEnd
      /\ \A m, q \in Nodes : <<m, q>> # <<n, p>> => pool'[m][q] = pool[m][q]
  BY <1>1, <1>2, <1>4 DEF SetPool
<1>7. closing' \in [Tasks -> Jobs] /\ TasksOpened'
  <2>1. /\ Job("notify", e) \in Jobs /\ Job("late", NoEnd) \in Jobs
        /\ Job("notify", e).step = "notify" /\ Job("notify", e).end = e
        /\ Job("late", NoEnd).step = "late"
    BY <1>3 DEF Job, Jobs, Steps
  <2>2. ASSUME NEW j \in Jobs
        PROVE  /\ Aborted(j) \in Jobs
               /\ Aborted(j) = j \/ Aborted(j) = Job("late", NoEnd)
    BY <2>1 DEF Aborted
  <2>3. closing' \in [Tasks -> Jobs]
    BY <1>1, <1>4, <2>1, <2>2
  <2>4. ASSUME NEW d \in Tasks
        PROVE  \/ d \notin {c, e} /\ closing'[d] = closing[d]
               \/ d \in {c, e} /\ closing'[d] = Job("notify", e)
               \/ d = e /\ closing'[d] = Job("late", NoEnd)
               \/ d = e /\ closing'[d] = closing[d]
    BY <1>1, <1>4, <2>1, <2>2 DEF Aborted
  <2>5. \A d \in Tasks : Opened(d) => Opened(d)'
    BY <1>3, <1>5, TasksDisjoint DEF Opened
  <2>6. Opened(e)
    BY <1>3, TasksDisjoint DEF Opened
  <2>7. ASSUME NEW d \in Tasks
        PROVE  /\ closing'[d].step # "idle" => Opened(d)'
               /\ closing'[d].step = "notify" => closing'[d].end \in Ends
    BY <1>2, <1>3, <2>1, <2>4, <2>5, <2>6 DEF IndInv, TasksOpened
  <2> QED
    BY <2>3, <2>7 DEF TasksOpened
<1>8. TypeOK'
  BY <1>1, <1>5, <1>6, <1>7 DEF IndInv, TypeOK, Jobs
<1>9. StreamsStart' /\ PacketsNameSender'
  BY <1>1, <1>3, <1>5, OtherEnd DEF IndInv, StreamsStart, PacketsNameSender
<1>10. BacklogQueued'
  <2>1. ASSUME NEW m \in Nodes, NEW i \in 1..Len(backlog[m])
        PROVE  phase'[AcceptEnd(backlog[m][i])] = "queued"
    <3>1. backlog[m][i] \in Streams
      BY DEF IndInv, TypeOK
    <3>2. phase[AcceptEnd(backlog[m][i])] = "queued"
      BY DEF IndInv, BacklogQueued
    <3> QED
      BY <1>3, <1>5, <3>1, <3>2, StreamEnds
  <2> QED
    BY <1>1, <2>1 DEF IndInv, BacklogQueued
<1>11. PeerIsOther' /\ PartIsOther'
  BY <1>1, <1>3, <1>5 DEF IndInv, PeerIsOther, PartIsOther, Identified
<1>12. PoolHoldsOpen'
  <2> SUFFICES ASSUME NEW m \in Nodes, NEW q \in Nodes, pool'[m][q] # NoEnd
               PROVE  /\ phase'[pool'[m][q]] = "open"
                      /\ node[pool'[m][q]] = m
                      /\ peer[pool'[m][q]] = q
    BY <1>1 DEF PoolHoldsOpen
  <2>1. <<m, q>> # <<n, p>> /\ pool'[m][q] = pool[m][q]
    BY <1>6
  <2>2. /\ pool[m][q] \in Ends /\ phase[pool[m][q]] = "open"
        /\ node[pool[m][q]] = m /\ peer[pool[m][q]] = q
    BY <2>1, PooledEnd DEF Contains
  <2>3. pool[m][q] # e
    BY <1>3, <2>1, <2>2
  <2> QED
    BY <1>5, <2>1, <2>2, <2>3
<1>13. OpenIsPooled'
  <2> SUFFICES ASSUME NEW g \in Ends, phase'[g] = "open"
               PROVE  pool'[node[g]][peer[g]] = g
    BY <1>1 DEF OpenIsPooled
  <2>1. g # e /\ phase[g] = "open"
    BY <1>5
  <2>2. pool[node[g]][peer[g]] = g
    BY <2>1 DEF IndInv, OpenIsPooled
  <2>3. node[g] \in Nodes /\ peer[g] \in Nodes
    BY <2>1 DEF IndInv, TypeOK, StreamsStart, PeerIsOther, Identified
  <2>4. <<node[g], peer[g]>> # <<n, p>>
    BY <2>1, <2>2 DEF e
  <2> QED
    BY <1>6, <2>2, <2>3, <2>4
<1> QED
  BY <1>7, <1>8, <1>9, <1>10, <1>11, <1>12, <1>13 DEF IndInv
-----------------------------------------------------------------------------
(* The accept loop takes a stream that only waits there.                   *)
LEMMA AcceptStep ==
    ASSUME IndInv, NEW n \in Nodes, Accept(n)
    PROVE  IndInv'
<1> DEFINE s == Head(backlog[n])
           e == AcceptEnd(s)
<1>1. /\ backlog[n] # <<>>
      /\ backlog' = [backlog EXCEPT ![n] = Tail(@)]
      /\ chan' = Written(chan, e, ProtocolVersion(Version[n]))
      /\ phase' = SetPhase(e, "version")
      /\ task' = [task EXCEPT ![e] = "on_connection"]
      /\ UNCHANGED <<node, peer, result, pool, closing, quit, reported, expect, part>>
  BY DEF Accept
<1>2. backlog \in [Nodes -> Seq(Streams)] /\ phase \in [Ends -> Phases]
  BY DEF IndInv, TypeOK
<1>3. s \in Streams /\ s = backlog[n][1] /\ 1 \in 1..Len(backlog[n])
  BY <1>1, <1>2
<1>4. e \in Ends /\ phase[e] = "queued" /\ node[e] = n
  BY <1>3, StreamEnds DEF IndInv, BacklogQueued
<1>5. /\ phase'[e] = "version" /\ \A g \in Ends : g # e => phase'[g] = phase[g]
      /\ phase' \in [Ends -> Phases]
  BY <1>1, <1>2, <1>4 DEF SetPhase, Phases, Waiting
<1>6. /\ chan' \in [Ends -> Seq(Packets)]
      /\ Named(chan', node)
      /\ \A g \in Ends : phase[g] = "unused" => chan'[g] = <<>>
  <2>1. ProtocolVersion(Version[n]) \in Sendable(node[e], e)
    BY <1>4, SendablePackets
  <2>2. chan \in [Ends -> Seq(Packets)] /\ Named(chan, node) /\ phase[e] # "unused"
    BY <1>4 DEF IndInv, TypeOK, PacketsNameSender
  <2> HIDE DEF e
  <2> QED
    BY <1>1, <1>4, <2>1, <2>2, WriteKeepsStreams
<1>7. backlog' \in [Nodes -> Seq(Streams)]
  BY <1>1, <1>2
<1>8. TypeOK'
  <2>1. task' \in [Ends -> DialTasks \cup {"none", "on_connection"}]
    BY <1>1 DEF IndInv, TypeOK
  <2> QED
    BY <1>1, <1>5, <1>6, <1>7, <2>1 DEF IndInv, TypeOK
<1>9. StreamsStart' /\ PacketsNameSender'
  BY <1>1, <1>4, <1>5, <1>6, OtherEnd DEF IndInv, StreamsStart, PacketsNameSender
<1>10. BacklogQueued'
  <2> SUFFICES ASSUME NEW m \in Nodes, NEW i \in 1..Len(backlog'[m])
               PROVE  /\ node[AcceptEnd(backlog'[m][i])] = m
                      /\ phase'[AcceptEnd(backlog'[m][i])] = "queued"
                      /\ \A j \in 1..Len(backlog'[m]) : backlog'[m][i] = backlog'[m][j] => i = j
    BY <1>1 DEF BacklogQueued
  <2>1. CASE m # n
    <3>1. backlog'[m] = backlog[m] /\ backlog[m][i] \in Streams
      BY <1>1, <1>2, <2>1
    <3>2. /\ node[AcceptEnd(backlog[m][i])] = m
          /\ phase[AcceptEnd(backlog[m][i])] = "queued"
          /\ \A j \in 1..Len(backlog[m]) : backlog[m][i] = backlog[m][j] => i = j
      BY <3>1 DEF IndInv, BacklogQueued
    <3>3. AcceptEnd(backlog[m][i]) # e /\ AcceptEnd(backlog[m][i]) \in Ends
      BY <1>4, <2>1, <3>1, <3>2, StreamEnds
    <3> QED
      BY <1>5, <3>1, <3>2, <3>3
  <2>2. CASE m = n
    <3>1. /\ \A j \in 1..Len(backlog'[n]) :
               /\ j + 1 \in 1..Len(backlog[n])
               /\ backlog'[n][j] = backlog[n][j + 1]
               /\ backlog[n][j + 1] \in Streams
      BY <1>1, <1>2
    <3>2. /\ node[AcceptEnd(backlog[n][i + 1])] = n
          /\ phase[AcceptEnd(backlog[n][i + 1])] = "queued"
          /\ \A j \in 1..Len(backlog[n]) : backlog[n][i + 1] = backlog[n][j] => i + 1 = j
      BY <3>1, <2>2 DEF IndInv, BacklogQueued
    <3>3. backlog[n][i + 1] # s
      BY <1>3, <2>2, <3>2
    <3>4. AcceptEnd(backlog[n][i + 1]) # e /\ AcceptEnd(backlog[n][i + 1]) \in Ends
      BY <1>3, <2>2, <3>1, <3>3, StreamEnds
    <3>5. \A j \in 1..Len(backlog'[n]) : backlog'[n][i] = backlog'[n][j] => i = j
      BY <2>2, <3>1, <3>2
    <3> QED
      BY <1>5, <2>2, <3>1, <3>2, <3>4, <3>5
  <2> QED
    BY <2>1, <2>2
<1>11. PeerIsOther' /\ PartIsOther'
  BY <1>1, <1>4, <1>5 DEF IndInv, PeerIsOther, PartIsOther, Identified
<1>12. PoolHoldsOpen'
  <2>1. ASSUME NEW m \in Nodes, NEW q \in Nodes, pool[m][q] # NoEnd
        PROVE  pool[m][q] \in Ends /\ pool[m][q] # e
    BY <1>4, <2>1, PooledEnd DEF Contains
  <2> QED
    BY <1>1, <1>5, <2>1 DEF IndInv, PoolHoldsOpen
<1>13. OpenIsPooled'
  BY <1>1, <1>5 DEF IndInv, OpenIsPooled
<1>14. TasksOpened'
  <2>1. \A c \in Tasks : Opened(c) => Opened(c)'
    BY <1>4, <1>5, TasksDisjoint DEF Opened
  <2> QED
    BY <1>1, <2>1 DEF IndInv, TasksOpened
<1> QED
  BY <1>8, <1>9, <1>10, <1>11, <1>12, <1>13, <1>14 DEF IndInv

(* A new stream: both of its ends were unused and nothing refers to them.  *)
LEMMA DialStep ==
    ASSUME IndInv, NEW s \in Streams, NEW n \in Nodes, NEW m \in Nodes,
           NEW exp \in Nodes \cup {NoNode}, NEW t \in DialTasks,
           Dial(s, n, m, exp, t)
    PROVE  IndInv'
<1> DEFINE d == DialEnd(s)
           a == AcceptEnd(s)
<1>1. /\ phase[d] = "unused"
      /\ node' = [node EXCEPT ![d] = n, ![a] = m]
      /\ backlog' = [backlog EXCEPT ![m] = Append(@, s)]
      /\ chan' = Written(chan, d, ProtocolVersion(Version[n]))
      /\ phase' = [phase EXCEPT ![d] = "version", ![a] = "queued"]
      /\ task' = [task EXCEPT ![d] = t]
      /\ expect' = [expect EXCEPT ![d] = exp]
      /\ UNCHANGED <<peer, result, pool, closing, quit, reported, part>>
  BY DEF Dial, Connect
<1>2. /\ d \in Ends /\ a \in Ends /\ d # a /\ Other(d) = a /\ Other(a) = d
      /\ \A e \in Ends \ {d, a} : Other(e) \in Ends \ {d, a}
  BY StreamEnds, OtherEnd
<1> HIDE DEF d, a
<1>3. TypeOK
  BY DEF IndInv
<1>4. phase[a] = "unused" /\ chan[a] = <<>> /\ chan[d] = <<>> /\ peer[d] = NoNode /\ peer[a] = NoNode
  BY <1>1, <1>2 DEF IndInv, StreamsStart, PeerIsOther
<1>5. /\ phase'[d] = "version" /\ phase'[a] = "queued"
      /\ node'[d] = n /\ node'[a] = m
      /\ \A e \in Ends \ {d, a} : /\ phase'[e] = phase[e]
                                  /\ node'[e] = node[e]
                                  /\ expect'[e] = expect[e]
      /\ phase' \in [Ends -> Phases]
      /\ node' \in [Ends -> Nodes \cup {NoNode}]
  BY <1>1, <1>2, <1>3 DEF TypeOK, Phases, Waiting
<1>6. /\ chan' \in [Ends -> Seq(Packets)]
      /\ Named(chan', node')
      /\ \A e \in Ends : e # a => chan'[e] = chan[e]
  <2>1. Named(chan, node')
    <3> SUFFICES ASSUME NEW e \in Ends, NEW i \in 1..Len(chan[e])
                 PROVE  chan[e][i] \in Sendable(node'[Other(e)], Other(e))
      BY DEF Named
    <3>1. e \notin {d, a}
      BY <1>4
    <3>2. node'[Other(e)] = node[Other(e)]
      BY <1>2, <1>5, <3>1
    <3> QED
      BY <3>2 DEF IndInv, PacketsNameSender, Named
  <2>2. ProtocolVersion(Version[n]) \in Sendable(node'[d], d)
    BY <1>2, <1>5, SendablePackets
  <2>3. chan \in [Ends -> Seq(Packets)]
    BY <1>3 DEF TypeOK
  <2>4. node'[d] \in Nodes
    BY <1>5
  <2> DEFINE v == ProtocolVersion(Version[n])
  <2> HIDE DEF v
  <2>5. /\ Written(chan, d, v) \in [Ends -> Seq(Packets)]
        /\ Named(Written(chan, d, v), node')
        /\ \A e \in Ends : e # Other(d) => Written(chan, d, v)[e] = chan[e]
    BY <1>2, <2>1, <2>2, <2>3, <2>4, WrittenChannels DEF v
  <2> QED
    BY <1>1, <1>2, <2>5 DEF v
<1>7. TypeOK'
  <2>1. backlog' \in [Nodes -> Seq(Streams)]
    BY <1>1, <1>3 DEF TypeOK
  <2>2. task' \in [Ends -> DialTasks \cup {"none", "on_connection"}]
    BY <1>1, <1>3 DEF TypeOK
  <2>3. expect' \in [Ends -> Nodes \cup {NoNode}]
    BY <1>1, <1>3 DEF TypeOK
  <2> QED
    BY <1>1, <1>3, <1>5, <1>6, <2>1, <2>2, <2>3 DEF TypeOK
<1>8. StreamsStart'
  <2> SUFFICES ASSUME NEW e \in Ends
               PROVE  /\ phase'[e] = "unused" => phase'[Other(e)] = "unused" /\ chan'[e] = <<>>
                      /\ phase'[e] # "unused" => node'[e] \in Nodes
    BY DEF StreamsStart
  <2>1. CASE e \in {d, a}
    BY <1>5, <2>1
  <2>2. CASE e \notin {d, a}
    BY <1>2, <1>5, <1>6, <2>2 DEF IndInv, StreamsStart
  <2> QED
    BY <2>1, <2>2
<1>9. BacklogQueued'
  <2>1. ASSUME NEW k \in Nodes, NEW i \in 1..Len(backlog[k])
        PROVE  /\ backlog[k][i] \in Streams /\ backlog[k][i] # s
               /\ AcceptEnd(backlog[k][i]) \in Ends \ {d, a}
               /\ node[AcceptEnd(backlog[k][i])] = k
               /\ phase[AcceptEnd(backlog[k][i])] = "queued"
               /\ \A j \in 1..Len(backlog[k]) : backlog[k][i] = backlog[k][j] => i = j
    <3>1. backlog[k][i] \in Streams
      BY <1>3 DEF TypeOK
    <3>2. /\ node[AcceptEnd(backlog[k][i])] = k
          /\ phase[AcceptEnd(backlog[k][i])] = "queued"
          /\ \A j \in 1..Len(backlog[k]) : backlog[k][i] = backlog[k][j] => i = j
      BY DEF IndInv, BacklogQueued
    <3> QED
      BY <1>1, <1>4, <3>1, <3>2, StreamEnds DEF a
  <2> SUFFICES ASSUME NEW k \in Nodes, NEW i \in 1..Len(backlog'[k])
               PROVE  /\ node'[AcceptEnd(backlog'[k][i])] = k
                      /\ phase'[AcceptEnd(backlog'[k][i])] = "queued"
                      /\ \A j \in 1..Len(backlog'[k]) : backlog'[k][i] = backlog'[k][j] => i = j
    BY DEF BacklogQueued
  <2>2. CASE k # m
    <3>1. backlog'[k] = backlog[k]
      BY <1>1, <1>3, <2>2 DEF TypeOK
    <3> QED
      BY <1>5, <2>1, <3>1
  <2>3. CASE k = m
    <3>1. /\ Len(backlog'[m]) = Len(backlog[m]) + 1
          /\ backlog'[m][Len(backlog[m]) + 1] = s
          /\ \A j \in 1..Len(backlog[m]) : backlog'[m][j] = backlog[m][j]
          /\ Len(backlog[m]) \in Nat
      BY <1>1, <1>3 DEF TypeOK
    <3>2. \A j \in 1..Len(backlog'[m]) : backlog'[m][i] = backlog'[m][j] => i = j
      <4> SUFFICES ASSUME NEW j \in 1..Len(backlog'[m]), backlog'[m][i] = backlog'[m][j]
                   PROVE  i = j
        OBVIOUS
      <4>1. \A x \in 1..Len(backlog[m]) : backlog'[m][x] # s
        BY <2>1, <3>1, SMTT(30)
      <4>2. CASE i = Len(backlog[m]) + 1
        BY <3>1, <4>1, <4>2
      <4>3. CASE i \in 1..Len(backlog[m]) /\ j \in 1..Len(backlog[m])
        BY <2>1, <3>1, <4>3
      <4>4. CASE i \in 1..Len(backlog[m]) /\ j = Len(backlog[m]) + 1
        BY <3>1, <4>1, <4>4
      <4> QED
        BY <2>3, <3>1, <4>2, <4>3, <4>4
    <3>3. CASE i = Len(backlog[m]) + 1
      BY <1>5, <2>3, <3>1, <3>2, <3>3 DEF a
    <3>4. CASE i \in 1..Len(backlog[m])
      BY <1>5, <2>1, <2>3, <3>1, <3>2, <3>4
    <3> QED
      BY <2>3, <3>1, <3>3, <3>4
  <2> QED
    BY <2>2, <2>3
<1>10. PacketsNameSender'
  BY <1>6 DEF PacketsNameSender
<1>11. PeerIsOther'
  <2> SUFFICES ASSUME NEW e \in Ends
               PROVE  /\ phase'[e] \in Identified => peer[e] # NoNode
                      /\ peer[e] # NoNode => /\ phase'[e] \notin {"unused", "queued"}
                                             /\ peer[e] = node'[Other(e)]
                                             /\ peer[e] # node'[e]
                                             /\ expect'[e] \in {NoNode, peer[e]}
    BY <1>1 DEF PeerIsOther
  <2>1. CASE e \in {d, a}
    BY <1>4, <1>5, <2>1 DEF Identified
  <2>2. CASE e \notin {d, a}
    BY <1>2, <1>5, <2>2 DEF IndInv, PeerIsOther
  <2> QED
    BY <2>1, <2>2
<1>12. PartIsOther'
  BY <1>1 DEF IndInv, PartIsOther
<1>13. PoolHoldsOpen'
  <2>1. ASSUME NEW k \in Nodes, NEW q \in Nodes, pool[k][q] # NoEnd
        PROVE  /\ pool[k][q] \in Ends \ {d, a} /\ phase[pool[k][q]] = "open"
               /\ node[pool[k][q]] = k /\ peer[pool[k][q]] = q
    BY <1>1, <1>4, <2>1, PooledEnd DEF Contains
  <2> QED
    BY <1>1, <1>5, <2>1 DEF PoolHoldsOpen
<1>14. OpenIsPooled'
  <2> SUFFICES ASSUME NEW e \in Ends, phase'[e] = "open"
               PROVE  pool[node'[e]][peer[e]] = e
    BY <1>1 DEF OpenIsPooled
  <2>1. e \notin {d, a}
    BY <1>5
  <2> QED
    BY <1>5, <2>1 DEF IndInv, OpenIsPooled
<1>15. TasksOpened'
  <2>1. \A c \in Tasks : Opened(c) => Opened(c)'
    BY <1>1, <1>4, <1>5, TasksDisjoint DEF Opened
  <2> QED
    BY <1>1, <2>1 DEF IndInv, TasksOpened
<1> QED
  BY <1>7, <1>8, <1>9, <1>10, <1>11, <1>12, <1>13, <1>14, <1>15 DEF IndInv
-----------------------------------------------------------------------------
LEMMA InitInv ==
    ASSUME Init
    PROVE  IndInv
<1> USE DEF Init, TransportInit, PoolInit
<1>1. TypeOK
  BY DEF TypeOK, Phases, Steps, Job
<1>2. StreamsStart /\ BacklogQueued
  BY OtherEnd DEF StreamsStart, BacklogQueued
<1>3. PacketsNameSender
  BY DEF PacketsNameSender, Named
<1>4. PeerIsOther /\ PartIsOther
  BY DEF PeerIsOther, PartIsOther, Identified
<1>5. PoolHoldsOpen /\ OpenIsPooled
  BY DEF PoolHoldsOpen, OpenIsPooled
<1>6. TasksOpened
  BY DEF TasksOpened, Job
<1> QED
  BY <1>1, <1>2, <1>3, <1>4, <1>5, <1>6 DEF IndInv

LEMMA StutterInv ==
    ASSUME IndInv, UNCHANGED vars
    PROVE  IndInv'
<1>1. /\ UNCHANGED <<transportVars, phase, peer, result, pool, quit, handshakeVars>>
      /\ closing' = closing /\ reported' = reported /\ phase' = phase
  BY DEF vars, poolVars
<1>2. closing \in [Tasks -> Jobs] /\ reported \in [Ends -> BOOLEAN]
  BY DEF IndInv, TypeOK, Jobs
<1>3. TasksOpened'
  BY <1>1 DEF IndInv, TasksOpened, Opened
<1> QED
  BY <1>1, <1>2, <1>3, ClosingOnly

LEMMA NextInv ==
    ASSUME IndInv, [Next]_vars
    PROVE  IndInv'
<1>1. CASE UNCHANGED vars
  BY <1>1, StutterInv
<1>2. CASE Handshakes
  BY <1>2, DialStep, AcceptStep, VersionStep, RsaStep, AesStep, EhloStep,
     FailStep, AbandonStep DEF Handshakes
<1>3. CASE PoolStep
  BY <1>3, InsertStep, RefuseStep, RemoveStep, ClosingSteps, DisconnectSteps
     DEF PoolStep
<1> QED
  BY <1>1, <1>2, <1>3 DEF Next

(* IndInv is an invariant of every behaviour of the handshake and of the   *)
(* pools (handshake.rs, connections.rs).                                   *)
THEOREM Invariance == Spec => []IndInv
<1>1. Init => IndInv
  BY InitInv
<1>2. IndInv /\ [Next]_vars => IndInv'
  BY NextInv
<1> QED
  BY <1>1, <1>2, PTL DEF Spec

(* Type correctness: in particular nothing but the packets a node may send *)
(* is ever on its streams.                                                 *)
THEOREM TypeCorrect == Spec => []TypeOK
<1>1. IndInv => TypeOK
  BY DEF IndInv
<1> QED
  BY <1>1, Invariance, PTL

(* The pool (connections.rs insert) never holds a connection under a       *)
(* PeerID other than that of the node at the other end, nor a connection   *)
(* of a node to itself, nor one to another peer than was expected.         *)
THEOREM PoolIsSound == Spec => []PoolSound
<1>1. IndInv => PoolSound
  <2> SUFFICES ASSUME IndInv, NEW n \in Nodes, NEW p \in Nodes, pool[n][p] # NoEnd
               PROVE  /\ node[pool[n][p]] = n
                      /\ node[Other(pool[n][p])] = p
                      /\ p # n
                      /\ expect[pool[n][p]] \in {NoNode, p}
    BY DEF PoolSound
  <2>1. pool[n][p] \in Ends /\ node[pool[n][p]] = n /\ peer[pool[n][p]] = p
    BY PooledEnd DEF Contains
  <2>2. peer[pool[n][p]] # NoNode
    BY <2>1, NoneOutside
  <2> QED
    BY <2>1, <2>2 DEF IndInv, PeerIsOther
<1> QED
  BY <1>1, Invariance, PTL

(* A reader task lives exactly as long as its connection is in the pool,   *)
(* whichever tasks run disconnect() at the same time.                      *)
THEOREM ReadersPooled == Spec => []ReadersArePooled
<1>1. IndInv => ReadersArePooled
  <2> SUFFICES ASSUME IndInv, NEW e \in Ends
               PROVE  phase[e] = "open" <=> \E n, p \in Nodes : pool[n][p] = e
    BY DEF ReadersArePooled
  <2>1. ASSUME phase[e] = "open"
        PROVE  \E n, p \in Nodes : pool[n][p] = e
    <3>1. pool[node[e]][peer[e]] = e
      BY <2>1 DEF IndInv, OpenIsPooled
    <3>2. node[e] \in Nodes /\ peer[e] \in Nodes
      BY <2>1 DEF IndInv, TypeOK, StreamsStart, PeerIsOther, Identified
    <3> QED
      BY <3>1, <3>2
  <2>2. ASSUME NEW n \in Nodes, NEW p \in Nodes, pool[n][p] = e
        PROVE  phase[e] = "open"
    BY <2>2, NoneOutside DEF IndInv, PoolHoldsOpen
  <2> QED
    BY <2>1, <2>2
<1> QED
  BY <1>1, Invariance, PTL

(* The two ends of a stream never compute different AES keys               *)
(* (handshake.rs: the lower PeerID puts its part first).                   *)
THEOREM KeysAgree == Spec => []KeyAgreement
<1>1. IndInv => KeyAgreement
  <2> SUFFICES ASSUME IndInv, NEW e \in Ends, part[e] # NoEnd, part[Other(e)] # NoEnd
               PROVE  AesKey(e) = AesKey(Other(e))
    BY DEF KeyAgreement
  <2>1. /\ part[e] = Other(e) /\ part[Other(e)] = e
        /\ peer[e] # NoNode /\ peer[Other(e)] # NoNode
    BY OtherEnd DEF IndInv, PartIsOther
  <2>2. /\ peer[e] = node[Other(e)] /\ peer[Other(e)] = node[e]
        /\ peer[e] # node[e]
    BY <2>1, OtherEnd DEF IndInv, PeerIsOther
  <2>3. peer[e] \in Int /\ node[e] \in Int
    BY <2>1, <2>2, OtherEnd, TransportAssumption DEF IndInv, TypeOK
  <2> QED
    BY <2>1, <2>2, <2>3 DEF AesKey
<1> QED
  BY <1>1, Invariance, PTL

(* An entry of the pool is removed before another connection to the same   *)
(* peer can take its place (the check that insert() makes under the lock). *)
THEOREM NeverTakenOver == Spec => NoTakeover
<1> DEFINE Kept == \A n, p \in Nodes :
                     pool[n][p] # NoEnd => pool'[n][p] \in {pool[n][p], NoEnd}
<1>1. ASSUME IndInv, [Next]_vars
      PROVE  Kept
  <2>1. CASE pool' = pool
    BY <2>1
  <2>2. ASSUME NEW e \in Ends, Insert(e)
        PROVE  Kept
    <3>1. node[e] \in Nodes /\ peer[e] \in Nodes
      BY <1>1, <2>2 DEF Insert, IndInv, TypeOK, StreamsStart, PeerIsOther, Identified
    <3> QED
      BY <1>1, <2>2, <3>1 DEF Insert, SetPool, Contains, IndInv, TypeOK
  <2>3. ASSUME NEW c \in Tasks, Remove(c)
        PROVE  Kept
    <3>1. Owner(c) \in Nodes /\ Target(c) \in Nodes
      BY <1>1, <2>3, OwnerTarget DEF Remove, IndInv, TasksOpened
    <3>2. pool' = SetPool(Owner(c), Target(c), NoEnd)
      BY <2>3 DEF Remove
    <3> QED
      BY <1>1, <3>1, <3>2 DEF SetPool, IndInv, TypeOK
  <2>4. CASE UNCHANGED vars
    BY <2>1, <2>4 DEF vars, poolVars
  <2>5. CASE Handshakes
    <3>1. pool' = pool
      BY <2>5 DEF Handshakes, Dial, Accept, ReceiveVersion, ReceiveRsa, ReceiveAes,
                  ReceiveEhlo, Proceed, Fail, Abandon
    <3> QED
      BY <2>1, <3>1
  <2>6. CASE PoolStep
    <3>1. \/ \E e \in Ends : Insert(e)
          \/ \E c \in Tasks : Remove(c)
          \/ pool' = pool
      BY <2>6 DEF PoolStep, RefuseInsert, ReadQuit, Cancel, StartPing, SendPing, Answered,
                  Expire, LookupAnswered, StartDisconnect, AlreadyDisconnected, Notify
    <3> QED
      BY <2>1, <2>2, <2>3, <3>1
  <2> QED
    BY <1>1, <2>4, <2>5, <2>6 DEF Next
<1>2. IndInv /\ [Next]_vars => [Kept]_vars
  BY <1>1
<1> QED
  BY <1>2, Invariance, PTL DEF Spec, NoTakeover

(* The pools implement the abstract pool: every step of a handshake, or of *)
(* a task that disconnects, opens a connection that was never used before, *)
(* closes one, or is invisible.                                            *)
THEOREM PoolsImplement == Spec => ImplementsPool
<1> DEFINE Spent == {e \in Ends : phase[e] = "closed"}
<1>1. Init => Connections!Init
  BY DEF Init, TransportInit, PoolInit, Connections!Init
<1>2. IndInv /\ [Next]_vars => [Connections!Next]_(Connections!vars)
  <2> SUFFICES ASSUME IndInv, [Next]_vars
               PROVE  [Connections!Next]_(Connections!vars)
    OBVIOUS
  <2>a. phase \in [Ends -> Phases] /\ pool \in [Nodes -> [Nodes -> Ends \cup {NoEnd}]]
    BY DEF IndInv, TypeOK
  <2>1. CASE pool' = pool /\ Spent' = Spent
    BY <2>1 DEF Connections!vars
  <2>b. ASSUME NEW e \in Ends, NEW f, phase' = SetPhase(e, f),
               phase[e] # "closed", f # "closed"
        PROVE  Spent' = Spent
    BY <2>a, <2>b DEF SetPhase
  <2>c. CASE pool' = pool /\ phase' = phase
    BY <2>1, <2>c
  <2>2. ASSUME NEW e \in Ends, Insert(e)
        PROVE  Connections!Next
    <3> DEFINE n == node[e]
               p == peer[e]
    <3>1. /\ phase[e] = "insert" /\ pool[n][p] = NoEnd
          /\ pool' = [pool EXCEPT ![n][p] = e]
          /\ phase' = SetPhase(e, "open")
      BY <2>2 DEF Insert, Contains, SetPool
    <3>2. n \in Nodes /\ p \in Nodes /\ n # p
      BY <3>1 DEF IndInv, TypeOK, StreamsStart, PeerIsOther, Identified
    <3>3. ~ Connections!Used(e)
      BY <3>1, NoneOutside DEF Connections!Used, IndInv, PoolHoldsOpen
    <3>4. Spent' = Spent /\ e \notin Spent
      BY <2>b, <3>1
    <3>5. Connections!Open(n, p, e)
      BY <3>1, <3>2, <3>3, <3>4 DEF Connections!Open
    <3> QED
      BY <3>2, <3>5 DEF Connections!Next
  <2>3. ASSUME NEW c \in Tasks, Remove(c)
        PROVE  Connections!Next
    <3>1. Owner(c) \in Nodes /\ Target(c) \in Nodes
      BY <2>3, OwnerTarget DEF Remove, IndInv, TasksOpened
    <3>2. PICK n \in Nodes, p \in Nodes : n = Owner(c) /\ p = Target(c)
      BY <3>1
    <3> DEFINE e == pool[n][p]
    <3>3. /\ Contains(n, p)
          /\ pool' = SetPool(n, p, NoEnd)
          /\ phase' = SetPhase(e, "closed")
      BY <2>3, <3>2 DEF Remove
    <3>4. Spent' = Spent \cup {e}
      BY <2>a, <3>3, PooledEnd DEF SetPhase
    <3>5. Connections!Close(n, p)
      BY <3>3, <3>4 DEF Connections!Close, Contains, SetPool
    <3> QED
      BY <3>5 DEF Connections!Next
  <2>4. CASE UNCHANGED vars
    BY <2>c, <2>4 DEF vars, poolVars
  <2>5. CASE Handshakes
    <3>1. ASSUME NEW s \in Streams, NEW n \in Nodes, NEW m \in Nodes,
                 NEW exp \in Nodes \cup {NoNode}, NEW t \in DialTasks,
                 Dial(s, n, m, exp, t)
          PROVE  pool' = pool /\ Spent' = Spent
      <4>1. /\ phase[DialEnd(s)] = "unused" /\ pool' = pool
            /\ phase' = [phase EXCEPT ![DialEnd(s)] = "version",
                                      ![AcceptEnd(s)] = "queued"]
        BY <3>1 DEF Dial
      <4>2. phase[AcceptEnd(s)] = "unused"
        BY <4>1, StreamEnds DEF IndInv, StreamsStart
      <4> QED
        BY <2>a, <4>1, <4>2, StreamEnds
    <3>2. ASSUME NEW n \in Nodes, Accept(n)
          PROVE  pool' = pool /\ Spent' = Spent
      <4> DEFINE s == Head(backlog[n])
      <4>1. /\ backlog[n] # <<>> /\ pool' = pool
            /\ phase' = SetPhase(AcceptEnd(s), "version")
        BY <3>2 DEF Accept
      <4>2. backlog[n] \in Seq(Streams)
        BY DEF IndInv, TypeOK
      <4>3. s \in Streams /\ 1 \in 1..Len(backlog[n]) /\ s = backlog[n][1]
        BY <4>1, <4>2
      <4> HIDE DEF s
      <4>4. phase[AcceptEnd(s)] = "queued" /\ AcceptEnd(s) \in Ends
        BY <4>3, StreamEnds DEF IndInv, BacklogQueued
      <4> QED
        BY <2>b, <4>1, <4>4
    <3>3. ASSUME NEW e \in Ends,
                 \/ ReceiveVersion(e) \/ ReceiveRsa(e) \/ ReceiveAes(e)
                 \/ ReceiveEhlo(e) \/ Fail(e) \/ Abandon(e)
          PROVE  pool' = pool /\ Spent' = Spent
      <4>1. /\ pool' = pool /\ phase[e] # "closed"
            /\ \E f \in Phases \ {"closed"} : phase' = SetPhase(e, f)
        BY <3>3 DEF ReceiveVersion, ReceiveRsa, ReceiveAes, ReceiveEhlo, Proceed,
                    Fail, Abandon, Handshaking, Waiting, Phases
      <4> QED
        BY <2>b, <4>1
    <3> QED
      BY <2>1, <2>5, <3>1, <3>2, <3>3 DEF Handshakes
  <2>6. CASE PoolStep
    <3>1. \/ \E e \in Ends : Insert(e) \/ RefuseInsert(e)
          \/ \E c \in Tasks : Remove(c)
          \/ pool' = pool /\ phase' = phase
      BY <2>6 DEF PoolStep, ReadQuit, Cancel, StartPing, SendPing, Answered,
                  Expire, LookupAnswered, StartDisconnect, AlreadyDisconnected, Notify
    <3>2. ASSUME NEW e \in Ends, RefuseInsert(e)
          PROVE  pool' = pool /\ Spent' = Spent
      BY <2>b, <3>2 DEF RefuseInsert
    <3> QED
      BY <2>1, <2>2, <2>3, <2>c, <3>1, <3>2
  <2> QED
    BY <2>4, <2>5, <2>6 DEF Next
<1> QED
  BY <1>1, <1>2, Invariance, PTL DEF Spec, ImplementsPool, Connections!Spec
-----------------------------------------------------------------------------
(***************************************************************************)
(* The packets of a handshake: correct nodes never blame one another, the  *)
(* reader of a connection meets no packet of the handshake, and a          *)
(* handshake is complete at both ends or at none.                          *)
(*                                                                         *)
(* The invariant PacketInv, on top of IndInv, says what is on the way to   *)
(* an end by the phases of the two ends of the stream: the packets of the  *)
(* rounds that follow those it has received (Ordered), each with the nonce *)
(* it drew (NoncesReturned), and an Ehlo only from an end that has its key *)
(* part (EhloFollows).                                                     *)
(***************************************************************************)

GivenUp == {"failed", "dropped"}
Completed == {"insert", "open", "closed"}

(* Phases of an end that has written nothing but packets of the rounds.    *)
Writing == {"unused", "queued", "insert"} \cup Waiting

Round(p) ==
    IF p.type = "ProtocolVersion" THEN 1
    ELSE IF p.type = "InitRsa" THEN 2
    ELSE IF p.type = "InitAes" THEN 3
    ELSE 4

(* How many packets an end in phase ph has received, and has written.      *)
Received(ph) ==
    IF ph = "rsa" THEN 1
    ELSE IF ph = "aes" THEN 2
    ELSE IF ph = "ehlo" THEN 3
    ELSE IF ph \in Completed THEN 4
    ELSE 0

Sent(ph) ==
    IF ph \in {"unused", "queued"} THEN 0
    ELSE IF ph = "version" THEN 1
    ELSE IF ph = "rsa" THEN 2
    ELSE IF ph = "aes" THEN 3
    ELSE 4

(* Of channels c, phases ph and key parts pt.                              *)
Ordered(c, ph) ==
    \A e \in Ends : ph[e] \notin GivenUp =>
        /\ \A i \in 1..Len(c[e]) :
              c[e][i].type # "Quit" => Round(c[e][i]) = Received(ph[e]) + i
        /\ ph[Other(e)] \in Writing =>
              Len(c[e]) = Sent(ph[Other(e)]) - Received(ph[e])

NoncesReturned(c) ==
    \A e \in Ends : \A i \in 1..Len(c[e]) :
        c[e][i].type = "InitAes" => c[e][i].nonce = e

EhloFollows(c, ph, pt) ==
    \A e \in Ends :
        \/ ph[e] \in Completed
        \/ \E i \in 1..Len(c[e]) : c[e][i].type = "Ehlo"
        => pt[Other(e)] # NoEnd

PacketInv ==
    /\ Ordered(chan, phase)
    /\ NoncesReturned(chan)
    /\ EhloFollows(chan, phase, part)
    /\ NoFalseBlame
-----------------------------------------------------------------------------
LEMMA PacketTypes ==
    ASSUME NEW p \in Packets
    PROVE  p.type \in {"ProtocolVersion", "InitRsa", "InitAes", "Ehlo", "Quit"}
  BY DEF Packets, Sendable, ProtocolVersion, InitRsa, InitAes, Ehlo, Quit

(* What the head and the tail of a channel are.                            *)
LEMMA Reading ==
    ASSUME NEW c \in [Ends -> Seq(Packets)], NEW e \in Ends, c[e] # <<>>
    PROVE  /\ Consumed(c, e) \in [Ends -> Seq(Packets)]
           /\ \A g \in Ends : g # e => Consumed(c, e)[g] = c[g]
           /\ Len(Consumed(c, e)[e]) = Len(c[e]) - 1
           /\ \A i \in 1..Len(Consumed(c, e)[e]) :
                 /\ i + 1 \in 1..Len(c[e])
                 /\ Consumed(c, e)[e][i] = c[e][i + 1]
           /\ 1 \in 1..Len(c[e]) /\ Head(c[e]) = c[e][1] /\ Head(c[e]) \in Packets
  BY DEF Consumed

LEMMA Writings ==
    ASSUME NEW c \in [Ends -> Seq(Packets)], NEW e \in Ends, NEW p \in Packets
    PROVE  /\ Written(c, e, p) \in [Ends -> Seq(Packets)]
           /\ \A g \in Ends : g # Other(e) => Written(c, e, p)[g] = c[g]
           /\ Len(Written(c, e, p)[Other(e)]) = Len(c[Other(e)]) + 1
           /\ \A i \in 1..Len(Written(c, e, p)[Other(e)]) :
                 \/ i = Len(c[Other(e)]) + 1 /\ Written(c, e, p)[Other(e)][i] = p
                 \/ /\ i \in 1..Len(c[Other(e)])
                    /\ Written(c, e, p)[Other(e)][i] = c[Other(e)][i]
<1>1. Other(e) \in Ends
  BY OtherEnd
<1> QED
  BY <1>1 DEF Written

(* A Quit may follow anything, from an end that writes no more rounds.     *)
LEMMA QuitWrites ==
    ASSUME NEW c \in [Ends -> Seq(Packets)], NEW ph \in [Ends -> Phases], NEW pt,
           NEW e \in Ends, ph[e] \notin Writing,
           NEW q \in Packets, q.type = "Quit",
           Ordered(c, ph), NoncesReturned(c), EhloFollows(c, ph, pt)
    PROVE  /\ Ordered(Written(c, e, q), ph)
           /\ NoncesReturned(Written(c, e, q))
           /\ EhloFollows(Written(c, e, q), ph, pt)
<1> DEFINE w == Written(c, e, q)
<1>1. /\ \A g \in Ends : g # Other(e) => w[g] = c[g]
      /\ \A i \in 1..Len(w[Other(e)]) :
            \/ w[Other(e)][i] = q
            \/ i \in 1..Len(c[Other(e)]) /\ w[Other(e)][i] = c[Other(e)][i]
  BY Writings
<1>2. \A g \in Ends : \A i \in 1..Len(w[g]) :
         w[g][i] = q \/ (i \in 1..Len(c[g]) /\ w[g][i] = c[g][i])
  BY <1>1
<1> HIDE DEF w
<1>3. Ordered(w, ph)
  <2> SUFFICES ASSUME NEW g \in Ends, ph[g] \notin GivenUp
               PROVE  /\ \A i \in 1..Len(w[g]) :
                            w[g][i].type # "Quit" => Round(w[g][i]) = Received(ph[g]) + i
                      /\ ph[Other(g)] \in Writing =>
                            Len(w[g]) = Sent(ph[Other(g)]) - Received(ph[g])
    BY DEF Ordered
  <2>1. \A i \in 1..Len(w[g]) : w[g][i].type # "Quit" => Round(w[g][i]) = Received(ph[g]) + i
    BY <1>2 DEF Ordered
  <2>2. ph[Other(g)] \in Writing => g # Other(e)
    BY OtherEnd
  <2> QED
    BY <1>1, <2>1, <2>2 DEF Ordered
<1>4. NoncesReturned(w)
  BY <1>2 DEF NoncesReturned
<1>5. EhloFollows(w, ph, pt)
  BY <1>2 DEF EhloFollows
<1> QED
  BY <1>3, <1>4, <1>5 DEF w

(* A connection in use, or an end that has given up, takes a packet from   *)
(* its stream.                                                             *)
LEMMA LateReads ==
    ASSUME NEW c \in [Ends -> Seq(Packets)], NEW ph \in [Ends -> Phases], NEW pt,
           NEW e \in Ends, c[e] # <<>>,
           ph[e] \in GivenUp \cup {"open", "closed"},
           Ordered(c, ph), NoncesReturned(c), EhloFollows(c, ph, pt)
    PROVE  /\ Ordered(Consumed(c, e), ph)
           /\ NoncesReturned(Consumed(c, e))
           /\ EhloFollows(Consumed(c, e), ph, pt)
<1> DEFINE r == Consumed(c, e)
<1>1. /\ \A g \in Ends : g # e => r[g] = c[g]
      /\ Len(r[e]) = Len(c[e]) - 1
      /\ \A i \in 1..Len(r[e]) : i + 1 \in 1..Len(c[e]) /\ r[e][i] = c[e][i + 1]
      /\ Len(c[e]) \in Nat \ {0}
  BY Reading
<1> HIDE DEF r
<1>2. Ordered(r, ph)
  <2> SUFFICES ASSUME NEW g \in Ends, ph[g] \notin GivenUp
               PROVE  /\ \A i \in 1..Len(r[g]) :
                            r[g][i].type # "Quit" => Round(r[g][i]) = Received(ph[g]) + i
                      /\ ph[Other(g)] \in Writing =>
                            Len(r[g]) = Sent(ph[Other(g)]) - Received(ph[g])
    BY DEF Ordered
  <2>1. CASE g # e
    BY <1>1, <2>1 DEF Ordered
  <2>2. CASE g = e
    <3>1. ph[e] \in {"open", "closed"} /\ Received(ph[e]) = 4
      BY <2>2 DEF Received, Completed
    <3>2. ph[Other(e)] \notin Writing
      <4>1. Sent(ph[Other(e)]) \in 0..4
        BY DEF Sent
      <4>2. ph[Other(e)] \in Writing => Len(c[e]) = Sent(ph[Other(e)]) - 4
        BY <2>2, <3>1 DEF Ordered
      <4> QED
        BY <1>1, <4>1, <4>2
    <3>3. ASSUME NEW i \in 1..Len(r[e])
          PROVE  r[e][i].type = "Quit"
      <4>1. i + 1 \in 1..Len(c[e]) /\ r[e][i] = c[e][i + 1]
        BY <1>1
      <4>2. c[e][i + 1].type # "Quit" => Round(c[e][i + 1]) = 4 + (i + 1)
        BY <2>2, <3>1, <4>1 DEF Ordered
      <4>3. Round(c[e][i + 1]) \in 1..4
        BY DEF Round
      <4> QED
        BY <4>1, <4>2, <4>3
    <3> QED
      BY <2>2, <3>2, <3>3
  <2> QED
    BY <2>1, <2>2
<1>3. \A g \in Ends : \A i \in 1..Len(r[g]) : \E j \in 1..Len(c[g]) : r[g][i] = c[g][j]
  <2> TAKE g \in Ends
  <2>1. CASE g = e
    BY <1>1, <2>1
  <2>2. CASE g # e
    BY <1>1, <2>2
  <2> QED
    BY <2>1, <2>2
<1>4. NoncesReturned(r)
  <2> SUFFICES ASSUME NEW g \in Ends, NEW i \in 1..Len(r[g]), r[g][i].type = "InitAes"
               PROVE  r[g][i].nonce = g
    BY DEF NoncesReturned
  <2>1. PICK j \in 1..Len(c[g]) : r[g][i] = c[g][j]
    BY <1>3
  <2> QED
    BY <2>1 DEF NoncesReturned
<1>5. EhloFollows(r, ph, pt)
  <2> SUFFICES ASSUME NEW g \in Ends,
                      ph[g] \in Completed \/ \E i \in 1..Len(r[g]) : r[g][i].type = "Ehlo"
               PROVE  pt[Other(g)] # NoEnd
    BY DEF EhloFollows
  <2>1. ASSUME NEW i \in 1..Len(r[g]), r[g][i].type = "Ehlo"
        PROVE  \E j \in 1..Len(c[g]) : c[g][j].type = "Ehlo"
    <3>1. PICK j \in 1..Len(c[g]) : r[g][i] = c[g][j]
      BY <1>3
    <3> QED
      BY <2>1, <3>1
  <2> QED
    BY <2>1 DEF EhloFollows
<1> QED
  BY <1>2, <1>4, <1>5 DEF r
-----------------------------------------------------------------------------
(* An end gives up, or goes on without reading or writing.                 *)
LEMMA PhaseMoves ==
    ASSUME NEW c \in [Ends -> Seq(Packets)], NEW ph \in [Ends -> Phases], NEW pt,
           NEW e \in Ends, NEW f,
           \/ f \in GivenUp
           \/ ph[e] = "unused" /\ f = "queued"
           \/ ph[e] \in Completed /\ f \in {"open", "closed"},
           Ordered(c, ph), EhloFollows(c, ph, pt)
    PROVE  /\ Ordered(c, [ph EXCEPT ![e] = f])
           /\ EhloFollows(c, [ph EXCEPT ![e] = f], pt)
<1> DEFINE q == [ph EXCEPT ![e] = f]
<1>1. q[e] = f /\ \A g \in Ends : g # e => q[g] = ph[g]
  OBVIOUS
<1> HIDE DEF q
<1>2. \A g \in Ends : q[g] \notin GivenUp => ph[g] \notin GivenUp /\ Received(q[g]) = Received(ph[g])
  BY <1>1 DEF GivenUp, Completed, Received
<1>3. \A g \in Ends : q[g] \in Writing => ph[g] \in Writing /\ Sent(q[g]) = Sent(ph[g])
  BY <1>1 DEF GivenUp, Completed, Writing, Waiting, Sent
<1>4. Ordered(c, q)
  <2> SUFFICES ASSUME NEW g \in Ends, q[g] \notin GivenUp
               PROVE  /\ \A i \in 1..Len(c[g]) :
                            c[g][i].type # "Quit" => Round(c[g][i]) = Received(q[g]) + i
                      /\ q[Other(g)] \in Writing =>
                            Len(c[g]) = Sent(q[Other(g)]) - Received(q[g])
    BY DEF Ordered
  <2>1. Received(q[g]) = Received(ph[g]) /\ ph[g] \notin GivenUp
    BY <1>2
  <2>2. q[Other(g)] \in Writing => /\ ph[Other(g)] \in Writing
                                   /\ Sent(q[Other(g)]) = Sent(ph[Other(g)])
    BY <1>3, OtherEnd
  <2> QED
    BY <2>1, <2>2 DEF Ordered
<1>5. EhloFollows(c, q, pt)
  <2>1. \A g \in Ends : q[g] \in Completed => ph[g] \in Completed
    BY <1>1 DEF Completed, GivenUp
  <2> QED
    BY <2>1 DEF EhloFollows
<1> QED
  BY <1>4, <1>5 DEF q

(* The first packet is written before anything has been read.              *)
LEMMA FirstWrite ==
    ASSUME NEW c \in [Ends -> Seq(Packets)], NEW ph \in [Ends -> Phases], NEW pt,
           NEW e \in Ends, ph[e] \in {"unused", "queued"},
           NEW p \in Packets, p.type = "ProtocolVersion",
           Ordered(c, ph), NoncesReturned(c), EhloFollows(c, ph, pt)
    PROVE  /\ Ordered(Written(c, e, p), [ph EXCEPT ![e] = "version"])
           /\ NoncesReturned(Written(c, e, p))
           /\ EhloFollows(Written(c, e, p), [ph EXCEPT ![e] = "version"], pt)
<1> DEFINE w == Written(c, e, p)
           q == [ph EXCEPT ![e] = "version"]
           o == Other(e)
<1>1. /\ \A g \in Ends : g # o => w[g] = c[g]
      /\ Len(w[o]) = Len(c[o]) + 1
      /\ \A i \in 1..Len(w[o]) :
            \/ i = Len(c[o]) + 1 /\ w[o][i] = p
            \/ i \in 1..Len(c[o]) /\ w[o][i] = c[o][i]
  BY Writings
<1>2. q[e] = "version" /\ \A g \in Ends : g # e => q[g] = ph[g]
  OBVIOUS
<1>3. o \in Ends /\ o # e /\ Other(o) = e /\ \A g \in Ends : g # o => Other(g) # e
  BY OtherEnd
<1>4. \A g \in Ends : Received(q[g]) = Received(ph[g]) /\ (q[g] \notin GivenUp => ph[g] \notin GivenUp)
  BY <1>2 DEF Received, Completed, GivenUp
<1> HIDE DEF w, q, o
<1>5. Ordered(w, q)
  <2> SUFFICES ASSUME NEW g \in Ends, q[g] \notin GivenUp
               PROVE  /\ \A i \in 1..Len(w[g]) :
                            w[g][i].type # "Quit" => Round(w[g][i]) = Received(q[g]) + i
                      /\ q[Other(g)] \in Writing =>
                            Len(w[g]) = Sent(q[Other(g)]) - Received(q[g])
    BY DEF Ordered
  <2>1. CASE g # o
    <3>1. q[Other(g)] = ph[Other(g)]
      BY <1>2, <1>3, <2>1, OtherEnd
    <3> QED
      BY <1>1, <1>4, <2>1, <3>1 DEF Ordered
  <2>2. CASE g = o
    <3>1. Len(c[o]) \in Nat /\ Received(ph[o]) \in 0..4
      BY <1>3 DEF Received
    <3>2. ph[e] \in Writing /\ Sent(ph[e]) = 0 /\ ph[o] \notin GivenUp
      BY <1>4, <2>2 DEF Writing, Sent
    <3>3. Len(c[o]) = 0 - Received(ph[o])
      BY <1>3, <3>2 DEF Ordered
    <3>4. Len(c[o]) = 0 /\ Received(q[o]) = 0
      BY <1>3, <1>4, <3>1, <3>3
    <3>5. Len(w[o]) = 1 /\ w[o][1] = p
      BY <1>1, <3>4
    <3>6. Sent(q[e]) = 1 /\ Round(p) = 1
      BY <1>2 DEF Sent, Round
    <3> QED
      BY <1>3, <2>2, <3>4, <3>5, <3>6
  <2> QED
    BY <2>1, <2>2
<1>6. NoncesReturned(w)
  <2> SUFFICES ASSUME NEW g \in Ends, NEW i \in 1..Len(w[g]), w[g][i].type = "InitAes"
               PROVE  w[g][i].nonce = g
    BY DEF NoncesReturned
  <2>1. w[g][i] = p \/ (i \in 1..Len(c[g]) /\ w[g][i] = c[g][i])
    BY <1>1
  <2>2. w[g][i] # p
    OBVIOUS
  <2> QED
    BY <2>1, <2>2 DEF NoncesReturned
<1>7. EhloFollows(w, q, pt)
  <2>1. \A g \in Ends : q[g] \in Completed => ph[g] \in Completed
    BY <1>2 DEF Completed
  <2> QED
    BY <1>1, <2>1 DEF EhloFollows
<1> QED
  BY <1>5, <1>6, <1>7 DEF w, q

(* An end reads the packet of a round and writes that of the next.         *)
LEMMA Replies ==
    ASSUME NEW c \in [Ends -> Seq(Packets)], NEW ph \in [Ends -> Phases], NEW pt,
           NEW e \in Ends, c[e] # <<>>, NEW f, NEW p \in Packets,
           <<ph[e], f, p.type>> \in {<<"version", "rsa", "InitRsa">>,
                                     <<"rsa", "aes", "InitAes">>,
                                     <<"aes", "ehlo", "Ehlo">>},
           p.type = "InitAes" => p.nonce = Other(e),
           p.type = "Ehlo" => pt[e] # NoEnd,
           Ordered(c, ph), NoncesReturned(c), EhloFollows(c, ph, pt)
    PROVE  /\ Ordered(Written(Consumed(c, e), e, p), [ph EXCEPT ![e] = f])
           /\ NoncesReturned(Written(Consumed(c, e), e, p))
           /\ EhloFollows(Written(Consumed(c, e), e, p), [ph EXCEPT ![e] = f], pt)
<1> DEFINE o == Other(e)
           r == Consumed(c, e)
           w == Written(r, e, p)
           q == [ph EXCEPT ![e] = f]
<1>1. o \in Ends /\ o # e /\ Other(o) = e /\ \A g \in Ends : g # o => Other(g) # e
  BY OtherEnd
<1>2. /\ r \in [Ends -> Seq(Packets)]
      /\ \A g \in Ends : g # e => r[g] = c[g]
      /\ Len(r[e]) = Len(c[e]) - 1
      /\ \A i \in 1..Len(r[e]) : i + 1 \in 1..Len(c[e]) /\ r[e][i] = c[e][i + 1]
  BY Reading
<1>3. q[e] = f /\ \A g \in Ends : g # e => q[g] = ph[g]
  OBVIOUS
<1> HIDE DEF r
<1>4. /\ \A g \in Ends : g # o => w[g] = r[g]
      /\ Len(w[o]) = Len(r[o]) + 1
      /\ \A i \in 1..Len(w[o]) :
            \/ i = Len(r[o]) + 1 /\ w[o][i] = p
            \/ i \in 1..Len(r[o]) /\ w[o][i] = r[o][i]
  BY <1>2, Writings
<1> HIDE DEF w, q, o
<1>5. /\ w[e] = r[e]
      /\ Len(w[o]) = Len(c[o]) + 1
      /\ \A i \in 1..Len(w[o]) :
            \/ i = Len(c[o]) + 1 /\ w[o][i] = p
            \/ i \in 1..Len(c[o]) /\ w[o][i] = c[o][i]
      /\ \A g \in Ends \ {e, o} : w[g] = c[g] /\ q[g] = ph[g] /\ q[Other(g)] = ph[Other(g)]
  <2>1. r[o] = c[o]
    BY <1>1, <1>2
  <2>2. \A g \in Ends \ {e, o} : q[Other(g)] = ph[Other(g)]
    BY <1>1, <1>3, OtherEnd
  <2> QED
    BY <1>1, <1>2, <1>3, <1>4, <2>1, <2>2
<1>6. /\ Received(f) = Received(ph[e]) + 1 /\ Received(ph[e]) \in 0..4
      /\ Sent(f) = Sent(ph[e]) + 1 /\ Sent(ph[e]) \in 0..4
      /\ Round(p) = Sent(ph[e]) + 1
      /\ ph[e] \in Writing /\ f \in Writing /\ ph[e] \notin GivenUp /\ f \notin GivenUp
      /\ f \notin Completed
  BY DEF Received, Sent, Round, Writing, Waiting, GivenUp, Completed
<1>7. Ordered(w, q)
  <2> SUFFICES ASSUME NEW g \in Ends, q[g] \notin GivenUp
               PROVE  /\ \A i \in 1..Len(w[g]) :
                            w[g][i].type # "Quit" => Round(w[g][i]) = Received(q[g]) + i
                      /\ q[Other(g)] \in Writing =>
                            Len(w[g]) = Sent(q[Other(g)]) - Received(q[g])
    BY DEF Ordered
  <2>1. CASE g \notin {e, o}
    BY <1>5, <2>1 DEF Ordered
  <2>2. CASE g = e
    <3>1. Len(c[e]) \in Nat
      OBVIOUS
    <3>2. ASSUME NEW i \in 1..Len(w[e]), w[e][i].type # "Quit"
          PROVE  Round(w[e][i]) = Received(f) + i
      <4>1. i + 1 \in 1..Len(c[e]) /\ w[e][i] = c[e][i + 1]
        BY <1>2, <1>5
      <4>2. Round(c[e][i + 1]) = Received(ph[e]) + (i + 1)
        BY <1>6, <3>2, <4>1 DEF Ordered
      <4> QED
        BY <1>6, <3>1, <4>1, <4>2
    <3>3. ASSUME q[o] \in Writing
          PROVE  Len(w[e]) = Sent(q[o]) - Received(f)
      <4>1. q[o] = ph[o]
        BY <1>1, <1>3
      <4>2. Len(c[e]) = Sent(ph[o]) - Received(ph[e])
        BY <1>6, <3>3, <4>1 DEF Ordered, o
      <4>3. Sent(ph[o]) \in 0..4
        BY DEF Sent
      <4> QED
        BY <1>2, <1>5, <1>6, <3>1, <4>1, <4>2, <4>3
    <3> QED
      BY <1>3, <2>2, <3>2, <3>3 DEF o
  <2>3. CASE g = o
    <3>1. Len(c[o]) \in Nat /\ Received(ph[o]) \in 0..4
      BY <1>1 DEF Received
    <3>2. q[o] = ph[o] /\ q[Other(o)] = f
      BY <1>1, <1>3
    <3>3. /\ \A i \in 1..Len(c[o]) :
                c[o][i].type # "Quit" => Round(c[o][i]) = Received(ph[o]) + i
          /\ Len(c[o]) = Sent(ph[e]) - Received(ph[o])
      BY <1>1, <1>6, <2>3, <3>2 DEF Ordered
    <3>4. Round(p) = Received(ph[o]) + (Len(c[o]) + 1)
      BY <1>6, <3>1, <3>3
    <3>5. \A i \in 1..Len(w[o]) :
             w[o][i].type # "Quit" => Round(w[o][i]) = Received(ph[o]) + i
      BY <1>5, <3>3, <3>4
    <3>6. Len(w[o]) = Sent(f) - Received(ph[o])
      BY <1>5, <1>6, <3>1, <3>3
    <3> QED
      BY <2>3, <3>2, <3>5, <3>6
  <2> QED
    BY <2>1, <2>2, <2>3
<1>8. \A g \in Ends : \A i \in 1..Len(w[g]) :
         \/ g = o /\ w[g][i] = p
         \/ \E j \in 1..Len(c[g]) : w[g][i] = c[g][j]
  <2> SUFFICES ASSUME NEW g \in Ends, NEW i \in 1..Len(w[g])
               PROVE  \/ g = o /\ w[g][i] = p
                      \/ \E j \in 1..Len(c[g]) : w[g][i] = c[g][j]
    OBVIOUS
  <2>1. CASE g = o
    BY <1>5, <2>1
  <2>2. CASE g = e
    <3>1. i + 1 \in 1..Len(c[g]) /\ w[g][i] = c[g][i + 1]
      BY <1>2, <1>5, <2>2
    <3> QED
      BY <3>1
  <2>3. CASE g \notin {e, o}
    BY <1>5, <2>3
  <2> QED
    BY <2>1, <2>2, <2>3
<1>9. NoncesReturned(w)
  <2> SUFFICES ASSUME NEW g \in Ends, NEW i \in 1..Len(w[g]), w[g][i].type = "InitAes"
               PROVE  w[g][i].nonce = g
    BY DEF NoncesReturned
  <2>1. CASE g = o /\ w[g][i] = p
    BY <2>1 DEF o
  <2>2. ASSUME NEW j \in 1..Len(c[g]), w[g][i] = c[g][j]
        PROVE  w[g][i].nonce = g
    BY <2>2 DEF NoncesReturned
  <2> QED
    BY <1>8, <2>1, <2>2
<1>10. EhloFollows(w, q, pt)
  <2> SUFFICES ASSUME NEW g \in Ends,
                      q[g] \in Completed \/ \E i \in 1..Len(w[g]) : w[g][i].type = "Ehlo"
               PROVE  pt[Other(g)] # NoEnd
    BY DEF EhloFollows
  <2>1. ASSUME NEW i \in 1..Len(w[g]), w[g][i].type = "Ehlo"
        PROVE  pt[Other(g)] # NoEnd
    <3>1. CASE g = o /\ w[g][i] = p
      BY <1>1, <2>1, <3>1
    <3>2. ASSUME NEW j \in 1..Len(c[g]), w[g][i] = c[g][j]
          PROVE  pt[Other(g)] # NoEnd
      BY <2>1, <3>2 DEF EhloFollows
    <3> QED
      BY <1>8, <3>1, <3>2
  <2>2. CASE q[g] \in Completed
    <3>1. ph[g] \in Completed
      BY <1>3, <1>6, <2>2
    <3> QED
      BY <3>1 DEF EhloFollows
  <2> QED
    BY <2>1, <2>2
<1> QED
  BY <1>7, <1>9, <1>10 DEF w, q, r
-----------------------------------------------------------------------------
(* The steps.  What PacketInv says of the step's new channels, phases and  *)
(* key parts follows from the lemmas above.                                *)
Follows ==
    /\ Ordered(chan', phase')
    /\ NoncesReturned(chan')
    /\ EhloFollows(chan', phase', part')

LEMMA FollowsInv ==
    ASSUME PacketInv, Follows, result' = result
    PROVE  PacketInv'
  BY DEF PacketInv, Follows, NoFalseBlame

LEMMA InvTypes ==
    ASSUME IndInv, PacketInv
    PROVE  /\ chan \in [Ends -> Seq(Packets)]
           /\ phase \in [Ends -> Phases]
           /\ Ordered(chan, phase)
           /\ NoncesReturned(chan)
           /\ EhloFollows(chan, phase, part)
  BY DEF IndInv, TypeOK, PacketInv

(* A key part that e learns is no reason to withdraw what was said before. *)
LEMMA LearnsPart ==
    ASSUME IndInv, NEW c, NEW ph, NEW e \in Ends, NEW p, p # NoEnd, EhloFollows(c, ph, part)
    PROVE  EhloFollows(c, ph, [part EXCEPT ![e] = p])
<1>1. part \in [Ends -> Ends \cup {NoEnd}]
  BY DEF IndInv, TypeOK
<1>2. \A g \in Ends : part[g] # NoEnd => [part EXCEPT ![e] = p][g] # NoEnd
  BY <1>1
<1> HIDE DEF IndInv
<1>3. \A g \in Ends : Other(g) \in Ends
  BY OtherEnd
<1> QED
  BY <1>2, <1>3 DEF EhloFollows

LEMMA DialPackets ==
    ASSUME IndInv, PacketInv, NEW s \in Streams, NEW n \in Nodes, NEW m \in Nodes,
           NEW exp \in Nodes \cup {NoNode}, NEW t \in DialTasks,
           Dial(s, n, m, exp, t)
    PROVE  PacketInv'
<1> DEFINE d == DialEnd(s)
           a == AcceptEnd(s)
           p == ProtocolVersion(Version[n])
           ph == [phase EXCEPT ![a] = "queued"]
<1>1. /\ phase[d] = "unused"
      /\ chan' = Written(chan, d, p)
      /\ phase' = [phase EXCEPT ![d] = "version", ![a] = "queued"]
      /\ part' = part /\ result' = result
  BY DEF Dial, Connect
<1>2. d \in Ends /\ a \in Ends /\ d # a /\ Other(d) = a
  BY StreamEnds
<1>3. p \in Packets /\ p.type = "ProtocolVersion"
  BY <1>2, SendablePackets DEF ProtocolVersion
<1> HIDE DEF d, a, p
<1>4. phase[a] = "unused"
  BY <1>1, <1>2 DEF IndInv, StreamsStart
<1>5. /\ chan \in [Ends -> Seq(Packets)] /\ phase \in [Ends -> Phases]
      /\ Ordered(chan, phase) /\ NoncesReturned(chan) /\ EhloFollows(chan, phase, part)
  BY InvTypes
<1>6. ph \in [Ends -> Phases] /\ ph[d] = "unused" /\ phase' = [ph EXCEPT ![d] = "version"]
  BY <1>1, <1>2, <1>5 DEF Phases
<1>7. Ordered(chan, ph) /\ EhloFollows(chan, ph, part)
  BY <1>2, <1>4, <1>5, PhaseMoves
<1> HIDE DEF ph
<1>8. Follows
  <2>1. /\ Ordered(Written(chan, d, p), [ph EXCEPT ![d] = "version"])
        /\ NoncesReturned(Written(chan, d, p))
        /\ EhloFollows(Written(chan, d, p), [ph EXCEPT ![d] = "version"], part)
    BY <1>2, <1>3, <1>5, <1>6, <1>7, FirstWrite
  <2>2. chan' = Written(chan, d, p) /\ phase' = [ph EXCEPT ![d] = "version"] /\ part' = part
    BY <1>1, <1>6
  <2> QED
    BY <2>1, <2>2 DEF Follows
<1> QED
  BY <1>1, <1>8, FollowsInv

LEMMA AcceptPackets ==
    ASSUME IndInv, PacketInv, NEW n \in Nodes, Accept(n)
    PROVE  PacketInv'
<1> DEFINE e == AcceptEnd(Head(backlog[n]))
           p == ProtocolVersion(Version[n])
<1>1. /\ backlog[n] # <<>>
      /\ chan' = Written(chan, e, p)
      /\ phase' = [phase EXCEPT ![e] = "version"]
      /\ part' = part /\ result' = result
  BY DEF Accept, SetPhase
<1>2. /\ Head(backlog[n]) \in Streams
      /\ Head(backlog[n]) = backlog[n][1] /\ 1 \in 1..Len(backlog[n])
  BY <1>1 DEF IndInv, TypeOK
<1>3. e \in Ends /\ phase[e] = "queued"
  BY <1>2, StreamEnds DEF IndInv, BacklogQueued
<1>4. p \in Packets /\ p.type = "ProtocolVersion"
  BY <1>3, SendablePackets DEF ProtocolVersion
<1> HIDE DEF e, p
<1>5. Follows
  BY <1>1, <1>3, <1>4, InvTypes, FirstWrite DEF Follows
<1> QED
  BY <1>1, <1>5, FollowsInv

(* The packet that an end proceeds with is the one it awaits.              *)
LEMMA AwaitedReads ==
    ASSUME NEW e \in Ends, NEW p, Verdict(e, p) = "none"
    PROVE  p.type = Awaited[phase[e]]
<1>1. TypeError(e, p) # "none"
  BY DEF TypeError
<1> QED
  BY <1>1 DEF Verdict

LEMMA VersionPackets ==
    ASSUME IndInv, PacketInv, NEW e \in Ends, ReceiveVersion(e)
    PROVE  PacketInv'
<1> DEFINE p == InitRsa(node[e], e)
<1>1. /\ phase[e] = "version" /\ chan[e] # <<>> /\ Handshaking(e)
      /\ chan' = Written(Consumed(chan, e), e, p)
      /\ phase' = [phase EXCEPT ![e] = "rsa"]
      /\ part' = part /\ result' = result
  BY DEF ReceiveVersion, Proceed, SetPhase, Handshaking, Waiting
<1>2. p \in Packets /\ p.type = "InitRsa"
  BY <1>1, HandshakeEnds, SendablePackets DEF InitRsa
<1> HIDE DEF p
<1>3. Follows
  BY <1>1, <1>2, InvTypes, Replies DEF Follows
<1> QED
  BY <1>1, <1>3, FollowsInv

(* The nonce that is returned is the one that the other end drew.          *)
LEMMA RsaPackets ==
    ASSUME IndInv, PacketInv, NEW e \in Ends, ReceiveRsa(e)
    PROVE  PacketInv'
<1> DEFINE h == Head(chan[e])
           p == InitAes(e, h.nonce)
<1>1. /\ phase[e] = "rsa" /\ chan[e] # <<>> /\ Handshaking(e) /\ Verdict(e, h) = "none"
      /\ chan' = Written(Consumed(chan, e), e, p)
      /\ phase' = [phase EXCEPT ![e] = "aes"]
      /\ part' = part /\ result' = result
  BY DEF ReceiveRsa, Proceed, SetPhase, Handshaking, Waiting
<1>2. h.type = "InitRsa"
  BY <1>1, AwaitedReads DEF Awaited
<1>3. h.nonce = Other(e) /\ Other(e) \in Ends
  BY <1>1, <1>2, HeadOfChannel, OtherEnd, PacketFields
<1>4. p \in Packets /\ p.type = "InitAes" /\ p.nonce = Other(e)
  BY <1>1, <1>3, HandshakeEnds, SendablePackets DEF InitAes
<1> HIDE DEF p
<1>5. Follows
  BY <1>1, <1>4, InvTypes, Replies DEF Follows
<1> QED
  BY <1>1, <1>5, FollowsInv

(* The Ehlo is written by an end that has just received its key part.      *)
LEMMA AesPackets ==
    ASSUME IndInv, PacketInv, NEW e \in Ends, ReceiveAes(e)
    PROVE  PacketInv'
<1> DEFINE h == Head(chan[e])
           p == Ehlo(node[e])
<1>1. /\ phase[e] = "aes" /\ chan[e] # <<>> /\ Handshaking(e) /\ Verdict(e, h) = "none"
      /\ chan' = Written(Consumed(chan, e), e, p)
      /\ phase' = [phase EXCEPT ![e] = "ehlo"]
      /\ part' = [part EXCEPT ![e] = h.part] /\ result' = result
  BY DEF ReceiveAes, Proceed, SetPhase, Handshaking, Waiting
<1>2. h.type = "InitAes"
  BY <1>1, AwaitedReads DEF Awaited
<1>3. h.part # NoEnd
  BY <1>1, <1>2, HeadOfChannel, OtherEnd, PacketFields, NoneOutside
<1>4. p \in Packets /\ p.type = "Ehlo"
  BY <1>1, HandshakeEnds, SendablePackets DEF Ehlo
<1>5. EhloFollows(chan, phase, part') /\ part'[e] # NoEnd
  <2>1. EhloFollows(chan, phase, [part EXCEPT ![e] = h.part])
    BY <1>3, InvTypes, LearnsPart
  <2>2. part \in [Ends -> Ends \cup {NoEnd}]
    BY DEF IndInv, TypeOK
  <2> QED
    BY <1>1, <1>3, <2>1, <2>2
<1> HIDE DEF p
<1>6. Follows
  BY <1>1, <1>4, <1>5, InvTypes, Replies DEF Follows
<1> QED
  BY <1>1, <1>6, FollowsInv

(* An end that takes an Ehlo for the last packet goes to "insert".         *)
LEMMA EhloPackets ==
    ASSUME IndInv, PacketInv, NEW e \in Ends, ReceiveEhlo(e)
    PROVE  PacketInv'
<1> DEFINE h == Head(chan[e])
           r == Consumed(chan, e)
           o == Other(e)
<1>1. /\ phase[e] = "ehlo" /\ chan[e] # <<>> /\ Verdict(e, h) = "none"
      /\ chan' = r /\ part' = part /\ result' = result
      /\ phase' = [phase EXCEPT ![e] = "insert"]
  BY DEF ReceiveEhlo, SetPhase, handshakeVars
<1>2. h.type = "Ehlo"
  BY <1>1, AwaitedReads DEF Awaited
<1>3. /\ chan \in [Ends -> Seq(Packets)] /\ phase \in [Ends -> Phases]
      /\ Ordered(chan, phase) /\ NoncesReturned(chan) /\ EhloFollows(chan, phase, part)
  BY InvTypes
<1>4. /\ \A g \in Ends : g # e => r[g] = chan[g]
      /\ Len(r[e]) = Len(chan[e]) - 1 /\ Len(chan[e]) \in Nat
      /\ \A i \in 1..Len(r[e]) : i + 1 \in 1..Len(chan[e]) /\ r[e][i] = chan[e][i + 1]
      /\ 1 \in 1..Len(chan[e]) /\ h = chan[e][1]
  BY <1>1, <1>3, Reading
<1>5. phase'[e] = "insert" /\ \A g \in Ends : g # e => phase'[g] = phase[g]
  BY <1>1, <1>3
<1> HIDE DEF r, h
<1>6. Ordered(r, phase')
  <2> SUFFICES ASSUME NEW g \in Ends, phase'[g] \notin GivenUp
               PROVE  /\ \A i \in 1..Len(r[g]) :
                            r[g][i].type # "Quit" => Round(r[g][i]) = Received(phase'[g]) + i
                      /\ phase'[Other(g)] \in Writing =>
                            Len(r[g]) = Sent(phase'[Other(g)]) - Received(phase'[g])
    BY DEF Ordered
  <2>1. CASE g = e
    <3>1. phase'[o] = phase[o] /\ Received(phase[e]) = 3 /\ Received(phase'[e]) = 4
      BY <1>1, <1>5, OtherEnd DEF Received, Completed
    <3>2. phase[e] \notin GivenUp
      BY <1>1 DEF GivenUp
    <3>3. ASSUME NEW i \in 1..Len(r[e]), r[e][i].type # "Quit"
          PROVE  Round(r[e][i]) = 4 + i
      <4>1. Round(chan[e][i + 1]) = 3 + (i + 1)
        BY <1>3, <1>4, <3>1, <3>2, <3>3 DEF Ordered
      <4> QED
        BY <1>4, <4>1
    <3>4. ASSUME phase[o] \in Writing
          PROVE  Len(r[e]) = Sent(phase[o]) - 4
      <4>1. Len(chan[e]) = Sent(phase[o]) - 3
        BY <1>3, <3>1, <3>2, <3>4 DEF Ordered
      <4>2. Sent(phase[o]) \in 0..4
        BY DEF Sent
      <4> QED
        BY <1>4, <4>1, <4>2
    <3> QED
      BY <2>1, <3>1, <3>3, <3>4
  <2>2. CASE g = o
    <3>1. /\ Other(o) = e /\ o \in Ends /\ o # e
          /\ Sent(phase'[e]) = Sent(phase[e]) /\ phase[e] \in Writing
      BY <1>1, <1>5, OtherEnd DEF Sent, Writing, Waiting
    <3> QED
      BY <1>3, <1>4, <1>5, <2>2, <3>1 DEF Ordered
  <2>3. CASE g \notin {e, o}
    <3>1. phase'[Other(g)] = phase[Other(g)]
      BY <1>5, <2>3, OtherEnd
    <3> QED
      BY <1>3, <1>4, <1>5, <2>3, <3>1 DEF Ordered
  <2> QED
    BY <2>1, <2>2, <2>3
<1>7. \A g \in Ends : \A i \in 1..Len(r[g]) : \E j \in 1..Len(chan[g]) : r[g][i] = chan[g][j]
  <2> SUFFICES ASSUME NEW g \in Ends, NEW i \in 1..Len(r[g])
               PROVE  \E j \in 1..Len(chan[g]) : r[g][i] = chan[g][j]
    OBVIOUS
  <2>1. CASE g = e
    <3>1. i + 1 \in 1..Len(chan[g]) /\ r[g][i] = chan[g][i + 1]
      BY <1>4, <2>1
    <3> QED
      BY <3>1
  <2>2. CASE g # e
    BY <1>4, <2>2
  <2> QED
    BY <2>1, <2>2
<1>8. NoncesReturned(r)
  <2> SUFFICES ASSUME NEW g \in Ends, NEW i \in 1..Len(r[g]), r[g][i].type = "InitAes"
               PROVE  r[g][i].nonce = g
    BY DEF NoncesReturned
  <2>1. PICK j \in 1..Len(chan[g]) : r[g][i] = chan[g][j]
    BY <1>7
  <2> QED
    BY <1>3, <2>1 DEF NoncesReturned
<1>9. EhloFollows(r, phase', part)
  <2> SUFFICES ASSUME NEW g \in Ends,
                      phase'[g] \in Completed \/ \E i \in 1..Len(r[g]) : r[g][i].type = "Ehlo"
               PROVE  part[Other(g)] # NoEnd
    BY DEF EhloFollows
  <2>1. \A i \in 1..Len(chan[g]) : chan[g][i].type = "Ehlo" => part[Other(g)] # NoEnd
    BY <1>3 DEF EhloFollows
  <2>2. CASE g = e
    BY <1>2, <1>4, <2>1, <2>2
  <2>3. CASE g # e /\ phase'[g] \in Completed
    BY <1>3, <1>5, <2>3 DEF EhloFollows
  <2>4. ASSUME NEW i \in 1..Len(r[g]), r[g][i].type = "Ehlo"
        PROVE  part[Other(g)] # NoEnd
    <3>1. PICK j \in 1..Len(chan[g]) : r[g][i] = chan[g][j]
      BY <1>7
    <3> QED
      BY <2>1, <2>4, <3>1
  <2> QED
    BY <2>2, <2>3, <2>4
<1>10. Follows
  BY <1>1, <1>6, <1>8, <1>9 DEF Follows
<1> QED
  BY <1>1, <1>10, FollowsInv

(* Nothing that an end reads is wrong in a way that it would report.       *)
LEMMA NoBlame ==
    ASSUME IndInv, PacketInv, NEW e \in Ends, phase[e] \in Waiting, chan[e] # <<>>
    PROVE  Verdict(e, Head(chan[e])) \notin {"UnexpectedPacket", "InvalidNonceCopy"}
<1> DEFINE h == Head(chan[e])
<1>1. h \in Packets /\ h = chan[e][1] /\ 1 \in 1..Len(chan[e])
  BY InvTypes, Reading
<1> HIDE DEF h
<1>2. phase[e] \in {"version", "rsa", "aes", "ehlo"} /\ phase[e] \notin GivenUp
  BY DEF Waiting, GivenUp
<1>3. h.type = "Quit" \/ h.type = Awaited[phase[e]]
  <2>1. h.type # "Quit" => Round(h) = Received(phase[e]) + 1
    BY <1>1, <1>2, InvTypes DEF Ordered
  <2>2. h.type \in {"ProtocolVersion", "InitRsa", "InitAes", "Ehlo", "Quit"}
    BY <1>1, PacketTypes
  <2> QED
    BY <1>2, <2>1, <2>2 DEF Round, Received, Awaited, Completed
<1>4. h.type = "InitAes" => h.nonce = e
  BY <1>1, InvTypes DEF NoncesReturned
<1>5. CASE h.type # Awaited[phase[e]]
  <2>1. Verdict(e, h) = TypeError(e, h)
    BY <1>5 DEF Verdict
  <2> QED
    BY <1>3, <1>5, <2>1 DEF TypeError, h
<1>6. CASE h.type = Awaited[phase[e]]
  <2>1. /\ VersionError(e, h.version) \in {"none", "UnsupportedVersion"}
        /\ KeyError(e, h.key) \in {"none", "SamePeer", "IdentityMismatch", "AlreadyConnected"}
        /\ h.type = "InitAes" => AesError(e, h.nonce) \in {"none", "SamePeer"}
    BY <1>4 DEF VersionError, KeyError, AesError
  <2>2. phase[e] = "aes" => h.type = "InitAes"
    BY <1>6 DEF Awaited
  <2> QED
    BY <1>2, <1>6, <2>1, <2>2 DEF Verdict, h
<1> QED
  BY <1>5, <1>6

LEMMA FailPackets ==
    ASSUME IndInv, PacketInv, NEW e \in Ends, Fail(e)
    PROVE  PacketInv'
<1> DEFINE err == Verdict(e, Head(chan[e]))
           ph == [phase EXCEPT ![e] = "failed"]
           r == Consumed(chan, e)
           q == Quit(err)
<1>1. /\ phase[e] \in Waiting /\ Handshaking(e) /\ chan[e] # <<>>
      /\ chan' = Written(r, e, q) /\ phase' = ph /\ part' = part
      /\ result' = [result EXCEPT ![e] = err]
  BY DEF Fail, SetPhase, handshakeVars, Handshaking
<1>2. err \notin {"UnexpectedPacket", "InvalidNonceCopy"}
  BY <1>1, NoBlame
<1>3. q \in Packets /\ q.type = "Quit"
  <2>1. err \in Errors \cup {"none"}
    <3>1. /\ TypeError(e, Head(chan[e])) \in Errors
          /\ VersionError(e, Head(chan[e]).version) \in Errors \cup {"none"}
          /\ KeyError(e, Head(chan[e]).key) \in Errors \cup {"none"}
          /\ AesError(e, Head(chan[e]).nonce) \in Errors \cup {"none"}
      BY DEF TypeError, VersionError, KeyError, AesError, Errors
    <3> QED
      BY <1>1, <3>1 DEF Verdict, Waiting
  <2>2. err # "none"
    BY DEF Fail
  <2> QED
    BY <1>1, <2>1, <2>2, HandshakeEnds, SendablePackets DEF Quit
<1> HIDE DEF err, q
<1>4. /\ chan \in [Ends -> Seq(Packets)] /\ phase \in [Ends -> Phases]
      /\ Ordered(chan, phase) /\ NoncesReturned(chan) /\ EhloFollows(chan, phase, part)
  BY InvTypes
<1>5. ph \in [Ends -> Phases] /\ ph[e] = "failed"
  BY <1>4 DEF Phases
<1>6. Ordered(chan, ph) /\ EhloFollows(chan, ph, part)
  BY <1>4, PhaseMoves DEF GivenUp
<1>7. r \in [Ends -> Seq(Packets)]
  BY <1>1, <1>4, Reading
<1> HIDE DEF ph
<1>8. Ordered(r, ph) /\ NoncesReturned(r) /\ EhloFollows(r, ph, part)
  BY <1>1, <1>4, <1>5, <1>6, LateReads DEF GivenUp
<1> HIDE DEF r
<1>9. ph[e] \notin Writing
  BY <1>5 DEF Writing, Waiting
<1>10. Follows
  BY <1>1, <1>3, <1>5, <1>7, <1>8, <1>9, QuitWrites DEF Follows
<1>11. NoFalseBlame'
  BY <1>1, <1>2 DEF PacketInv, NoFalseBlame, IndInv, TypeOK
<1> QED
  BY <1>10, <1>11 DEF Follows, PacketInv

LEMMA AbandonPackets ==
    ASSUME IndInv, PacketInv, NEW e \in Ends, Abandon(e)
    PROVE  PacketInv'
<1>1. /\ phase' = [phase EXCEPT ![e] = "dropped"]
      /\ chan' = chan /\ part' = part /\ result' = result
  BY DEF Abandon, SetPhase, handshakeVars, transportVars
<1>2. Follows
  BY <1>1, InvTypes, PhaseMoves DEF Follows, GivenUp
<1> QED
  BY <1>1, <1>2, FollowsInv

LEMMA RefusePackets ==
    ASSUME IndInv, PacketInv, NEW e \in Ends, RefuseInsert(e)
    PROVE  PacketInv'
<1> DEFINE ph == [phase EXCEPT ![e] = "failed"]
           q == Quit("InsertError::AlreadyConnected")
<1>1. /\ phase[e] = "insert" /\ Handshaking(e)
      /\ chan' = Written(chan, e, q) /\ phase' = ph /\ part' = part
      /\ result' = [result EXCEPT ![e] = "AlreadyConnected"]
  BY DEF RefuseInsert, SetPhase, handshakeVars, Handshaking
<1>2. q \in Packets /\ q.type = "Quit"
  BY <1>1, HandshakeEnds, SendablePackets DEF Quit
<1> HIDE DEF q
<1>3. /\ chan \in [Ends -> Seq(Packets)] /\ phase \in [Ends -> Phases]
      /\ Ordered(chan, phase) /\ NoncesReturned(chan) /\ EhloFollows(chan, phase, part)
  BY InvTypes
<1>4. ph \in [Ends -> Phases] /\ ph[e] = "failed" /\ ph[e] \notin Writing
  BY <1>3 DEF Phases, Writing, Waiting
<1>5. Ordered(chan, ph) /\ EhloFollows(chan, ph, part)
  BY <1>3, PhaseMoves DEF GivenUp
<1> HIDE DEF ph
<1>6. Follows
  BY <1>1, <1>2, <1>3, <1>4, <1>5, QuitWrites DEF Follows
<1>7. NoFalseBlame'
  BY <1>1 DEF PacketInv, NoFalseBlame, IndInv, TypeOK
<1> QED
  BY <1>6, <1>7 DEF Follows, PacketInv

LEMMA PoolPackets ==
    ASSUME IndInv, PacketInv
    PROVE  /\ \A e \in Ends : Insert(e) => PacketInv'
           /\ \A c \in Tasks : Remove(c) => PacketInv'
<1>1. ASSUME NEW e \in Ends, NEW f, phase[e] \in Completed, f \in {"open", "closed"},
             phase' = [phase EXCEPT ![e] = f],
             chan' = chan, part' = part, result' = result
      PROVE  PacketInv'
  <2>1. Follows
    BY <1>1, InvTypes, PhaseMoves DEF Follows
  <2> QED
    BY <1>1, <2>1, FollowsInv
<1>2. ASSUME NEW e \in Ends, Insert(e)
      PROVE  PacketInv'
  BY <1>1, <1>2 DEF Insert, SetPhase, Completed, transportVars, handshakeVars
<1>3. ASSUME NEW c \in Tasks, Remove(c)
      PROVE  PacketInv'
  <2> DEFINE e == pool[Owner(c)][Target(c)]
  <2>1. /\ closing[c].step = "remove" /\ Contains(Owner(c), Target(c))
        /\ phase' = [phase EXCEPT ![e] = "closed"]
        /\ chan' = chan /\ part' = part /\ result' = result
    BY <1>3 DEF Remove, SetPhase, transportVars, handshakeVars
  <2>2. Owner(c) \in Nodes /\ Target(c) \in Nodes
    BY <2>1, OwnerTarget DEF IndInv, TasksOpened
  <2>3. e \in Ends /\ phase[e] \in Completed
    BY <2>1, <2>2, PooledEnd DEF Completed
  <2> HIDE DEF e
  <2> QED
    BY <1>1, <2>1, <2>3
<1> QED
  BY <1>2, <1>3

(* disconnect() writes its Quit on a connection in the pool.               *)
LEMMA DisconnectPackets ==
    ASSUME IndInv, PacketInv, NEW c \in Tasks, Opened(c),
           NEW ch \in [Ends -> Seq(Packets)],
           Ordered(ch, phase), NoncesReturned(ch), EhloFollows(ch, phase, part),
           StartDisconnect(c, ch)
    PROVE  PacketInv'
<1> DEFINE n == Owner(c)
           p == Target(c)
           e == pool[n][p]
           q == Quit("Quit")
<1>1. /\ chan' = QuitWritten(ch, n, p)
      /\ phase' = phase /\ part' = part /\ result' = result
  BY DEF StartDisconnect, handshakeVars
<1>2. n \in Nodes /\ p \in Nodes
  BY OwnerTarget
<1>3. Follows
  <2>1. CASE Contains(n, p)
    <3>1. e \in Ends /\ phase[e] = "open" /\ chan' = Written(ch, e, q)
      BY <1>1, <1>2, <2>1, PooledEnd DEF QuitWritten
    <3>2. q \in Packets /\ q.type = "Quit"
      BY <1>2, <3>1, SendablePackets DEF Quit
    <3>3. phase[e] \notin Writing /\ phase \in [Ends -> Phases]
      BY <3>1, InvTypes DEF Writing, Waiting
    <3> HIDE DEF e, q
    <3> QED
      BY <1>1, <3>1, <3>2, <3>3, QuitWrites DEF Follows
  <2>2. CASE ~ Contains(n, p)
    BY <1>1, <2>2 DEF QuitWritten, Follows
  <2> QED
    BY <2>1, <2>2
<1> QED
  BY <1>1, <1>3, FollowsInv

LEMMA ClosingPackets ==
    ASSUME IndInv, PacketInv
    PROVE  /\ \A e \in Ends : ReadQuit(e) => PacketInv'
           /\ \A c \in Pingers : Expire(c) => PacketInv'
           /\ \A c \in Lookups : LookupAnswered(c) => PacketInv'
<1>1. /\ chan \in [Ends -> Seq(Packets)] /\ phase \in [Ends -> Phases]
      /\ Ordered(chan, phase) /\ NoncesReturned(chan) /\ EhloFollows(chan, phase, part)
      /\ Ends \subseteq Tasks /\ Pingers \subseteq Tasks /\ Lookups \subseteq Tasks
  BY InvTypes DEF Tasks, Readers
<1>2. ASSUME NEW e \in Ends, ReadQuit(e)
      PROVE  PacketInv'
  <2>1. phase[e] \in {"open", "closed"} /\ chan[e] # <<>> /\ StartDisconnect(e, Consumed(chan, e))
    BY <1>2 DEF ReadQuit, MayRead
  <2>2. Opened(e)
    BY <2>1, TasksDisjoint DEF Opened
  <2>3. /\ Ordered(Consumed(chan, e), phase)
        /\ NoncesReturned(Consumed(chan, e))
        /\ EhloFollows(Consumed(chan, e), phase, part)
    BY <1>1, <2>1, LateReads
  <2>4. Consumed(chan, e) \in [Ends -> Seq(Packets)]
    BY <1>1, <2>1, Reading
  <2> QED
    BY <1>1, <2>1, <2>2, <2>3, <2>4, DisconnectPackets
<1>3. ASSUME NEW c \in Pingers, Expire(c)
      PROVE  PacketInv'
  <2>1. Opened(c)
    BY TasksDisjoint DEF Opened
  <2> QED
    BY <1>1, <1>3, <2>1, DisconnectPackets DEF Expire
<1>4. ASSUME NEW c \in Lookups, LookupAnswered(c)
      PROVE  PacketInv'
  <2>1. Opened(c)
    BY <1>4, TasksDisjoint DEF Opened, LookupAnswered
  <2> QED
    BY <1>1, <1>4, <2>1, DisconnectPackets DEF LookupAnswered
<1> QED
  BY <1>2, <1>3, <1>4

(* The steps that leave the streams alone.                                 *)
LEMMA SilentPackets ==
    ASSUME PacketInv, UNCHANGED <<chan, phase, part, result>>
    PROVE  PacketInv'
  BY DEF PacketInv, NoFalseBlame

LEMMA NextPackets ==
    ASSUME IndInv, PacketInv, [Next]_vars
    PROVE  PacketInv'
<1>1. CASE UNCHANGED vars
  BY <1>1, SilentPackets DEF vars, poolVars, transportVars, handshakeVars
<1>2. CASE Handshakes
  BY <1>2, DialPackets, AcceptPackets, VersionPackets, RsaPackets, AesPackets, EhloPackets,
     FailPackets, AbandonPackets DEF Handshakes
<1>3. CASE PoolStep
  <2>1. ASSUME NEW e \in Ends, Cancel(e)
        PROVE  PacketInv'
    BY <2>1, SilentPackets DEF Cancel, transportVars, handshakeVars
  <2>2. ASSUME NEW c \in Pingers, StartPing(c) \/ SendPing(c) \/ Answered(c)
        PROVE  PacketInv'
    BY <2>2, SilentPackets DEF StartPing, SendPing, Answered, transportVars, handshakeVars
  <2>3. ASSUME NEW c \in Tasks, AlreadyDisconnected(c) \/ Notify(c)
        PROVE  PacketInv'
    BY <2>3, SilentPackets DEF AlreadyDisconnected, Notify, transportVars, handshakeVars
  <2> QED
    BY <1>3, <2>1, <2>2, <2>3, RefusePackets, PoolPackets, ClosingPackets DEF PoolStep
<1> QED
  BY <1>1, <1>2, <1>3 DEF Next

(* What is on the streams is what the phases of their ends say.            *)
THEOREM PacketInvariance == Spec => []PacketInv
<1>1. Init => PacketInv
  <2> SUFFICES ASSUME Init
               PROVE  PacketInv
    OBVIOUS
  <2>1. \A e \in Ends : /\ chan[e] = <<>> /\ Len(chan[e]) = 0 /\ Other(e) \in Ends
                        /\ phase[e] = "unused" /\ phase[Other(e)] = "unused"
                        /\ result[e] = "none"
    BY OtherEnd DEF Init, TransportInit, PoolInit
  <2>2. Received("unused") = 0 /\ Sent("unused") = 0 /\ "unused" \notin Completed
    BY DEF Received, Sent, Completed
  <2>3. Ordered(chan, phase)
    BY <2>1, <2>2 DEF Ordered
  <2>4. NoncesReturned(chan) /\ EhloFollows(chan, phase, part) /\ NoFalseBlame
    BY <2>1, <2>2 DEF NoncesReturned, EhloFollows, NoFalseBlame
  <2> QED
    BY <2>3, <2>4 DEF PacketInv
<1>2. IndInv /\ PacketInv /\ [Next]_vars => PacketInv'
  BY NextPackets
<1> QED
  BY <1>1, <1>2, Invariance, PTL DEF Spec

(* Correct nodes never blame one another: no handshake of theirs ends with *)
(* an error that report_fault() attributes to the peer (handshake.rs),     *)
(* whatever is delayed, dropped or dialled at the same time, and whichever *)
(* versions they run.                                                      *)
THEOREM NobodyIsBlamed == Spec => []NoFalseBlame
<1>1. PacketInv => NoFalseBlame
  BY DEF PacketInv
<1> QED
  BY <1>1, PacketInvariance, PTL

(* What the handshake leaves on a stream for the reader of the connection  *)
(* is at most a Quit.  This says nothing of packets that would be sent     *)
(* later: InitAes may be (packets.rs:60), but no code sends one after the  *)
(* handshake, and Handshake has no such step.                              *)
NoRoundLeft ==
    \A e \in Ends : phase[e] = "open" =>
        \A i \in DOMAIN chan[e] : chan[e][i].type = "Quit"

(* handshake() has read all that the handshake of its peer has written     *)
(* when the reader of the connection starts.                               *)
THEOREM RoundsAreRead == Spec => []NoRoundLeft
<1>1. IndInv /\ PacketInv => NoRoundLeft
  <2> SUFFICES ASSUME IndInv, PacketInv, NEW e \in Ends, phase[e] = "open", NEW i \in DOMAIN chan[e]
               PROVE  chan[e][i].type = "Quit"
    BY DEF NoRoundLeft
  <2>1. i \in 1..Len(chan[e])
    BY InvTypes
  <2>2. chan[e][i].type # "Quit" => Round(chan[e][i]) = 4 + i
    BY <2>1, InvTypes DEF Ordered, Received, Completed, GivenUp
  <2>3. Round(chan[e][i]) \in 1..4
    BY DEF Round
  <2> QED
    BY <2>1, <2>2, <2>3
<1> QED
  BY <1>1, Invariance, PacketInvariance, PTL

(* Whoever has read the Ehlo knows that its peer has accepted it: the      *)
(* other end has its key part and its PeerID (handshake.rs).               *)
THEOREM BothComplete == Spec => []CompletedByBoth
<1>1. IndInv /\ PacketInv => CompletedByBoth
  <2> SUFFICES ASSUME IndInv, PacketInv, NEW e \in Ends, phase[e] \in Completed
               PROVE  part[Other(e)] = e /\ peer[Other(e)] = node[e]
    BY DEF CompletedByBoth, Completed
  <2>1. part[Other(e)] # NoEnd
    BY InvTypes DEF EhloFollows
  <2> QED
    BY <2>1, OtherEnd DEF IndInv, PartIsOther, PeerIsOther
<1> QED
  BY <1>1, Invariance, PacketInvariance, PTL
-----------------------------------------------------------------------------
(***************************************************************************)
(* Nobody waits in vain.  To what Ordered says of an end that is still in  *)
(* its rounds, PacketsLeft adds what was left for it by an other end that  *)
(* has failed, or whose connection is in use or closed.                    *)
(***************************************************************************)

Early == {"unused", "queued"} \cup Waiting

HasQuit(c, e) == \E i \in 1..Len(c[e]) : c[e][i].type = "Quit"

PacketsLeft(c, ph) ==
    \A e \in Ends : ph[e] \in Early =>
        /\ ph[Other(e)] = "failed" => HasQuit(c, e)
        /\ ph[Other(e)] \in {"open", "closed"} => Len(c[e]) >= 4 - Received(ph[e])

LeftInv == PacketsLeft(chan, phase)

LEMMA LeftWritten ==
    ASSUME NEW c \in [Ends -> Seq(Packets)], NEW ph \in [Ends -> Phases],
           NEW e \in Ends, NEW p \in Packets, PacketsLeft(c, ph)
    PROVE  PacketsLeft(Written(c, e, p), ph)
<1> DEFINE o == Other(e)
           w == Written(c, e, p)
<1>1. o \in Ends
  BY OtherEnd
<1>2. /\ \A g \in Ends : g # o => w[g] = c[g]
      /\ w[o] = Append(c[o], p)
  BY <1>1 DEF Written
<1> HIDE DEF w, o
<1>3. /\ Len(c[o]) \in Nat /\ Len(w[o]) = Len(c[o]) + 1
      /\ \A i \in 1..Len(c[o]) : i \in 1..Len(w[o]) /\ w[o][i] = c[o][i]
  BY <1>1, <1>2
<1>4. \A g \in Ends : HasQuit(c, g) => HasQuit(w, g)
  <2> SUFFICES ASSUME NEW g \in Ends, HasQuit(c, g)
               PROVE  HasQuit(w, g)
    OBVIOUS
  <2>1. PICK i \in 1..Len(c[g]) : c[g][i].type = "Quit"
    BY DEF HasQuit
  <2>2. i \in 1..Len(w[g]) /\ w[g][i] = c[g][i]
    BY <1>2, <1>3
  <2> QED
    BY <2>1, <2>2 DEF HasQuit
<1>5. \A g \in Ends : Len(c[g]) \in Nat /\ Len(w[g]) \in Nat /\ Len(w[g]) >= Len(c[g])
  BY <1>2, <1>3
<1>6. \A g \in Ends : Received(ph[g]) \in 0..4
  BY DEF Received
<1>7. ASSUME NEW g \in Ends, Len(c[g]) >= 4 - Received(ph[g])
      PROVE  Len(w[g]) >= 4 - Received(ph[g])
  <2>1. Len(c[g]) \in Nat /\ Len(w[g]) \in Nat /\ Len(w[g]) >= Len(c[g])
    BY <1>5
  <2>2. Received(ph[g]) \in 0..4
    BY <1>6
  <2> HIDE DEF w
  <2> QED
    BY <1>7, <2>1, <2>2
<1> QED
  BY <1>4, <1>7 DEF PacketsLeft, w

(* A packet that is no Quit is read, and the end comes one round further.  *)
LEMMA LeftRead ==
    ASSUME NEW c \in [Ends -> Seq(Packets)], NEW ph \in [Ends -> Phases],
           NEW e \in Ends, c[e] # <<>>, c[e][1].type # "Quit",
           ph[e] \in Waiting,
           NEW f, f \in Early => f \in Waiting /\ Received(f) = Received(ph[e]) + 1,
           f \notin {"failed", "open", "closed"},
           PacketsLeft(c, ph)
    PROVE  PacketsLeft(Consumed(c, e), [ph EXCEPT ![e] = f])
<1> DEFINE r == Consumed(c, e)
           q == [ph EXCEPT ![e] = f]
<1>1. /\ \A g \in Ends : g # e => r[g] = c[g]
      /\ Len(r[e]) = Len(c[e]) - 1 /\ Len(c[e]) \in Nat
      /\ c[e][1].type # "Quit"
      /\ r[e] = Tail(c[e])
  BY Reading DEF Consumed
<1>2. q[e] = f /\ \A g \in Ends : g # e => q[g] = ph[g]
  OBVIOUS
<1> HIDE DEF r, q
<1> SUFFICES ASSUME NEW g \in Ends, q[g] \in Early
             PROVE  /\ q[Other(g)] = "failed" => HasQuit(r, g)
                    /\ q[Other(g)] \in {"open", "closed"} => Len(r[g]) >= 4 - Received(q[g])
  BY DEF PacketsLeft, r, q
<1>3. Other(g) \in Ends /\ Other(g) # g
  BY OtherEnd
<1>4. q[Other(g)] \in {"failed", "open", "closed"} => Other(g) # e /\ q[Other(g)] = ph[Other(g)]
  BY <1>2, <1>3
<1>5. CASE g # e
  BY <1>1, <1>2, <1>4, <1>5 DEF PacketsLeft, HasQuit
<1>6. CASE g = e
  <2>1. ph[e] \in Early /\ Received(f) = Received(ph[e]) + 1 /\ Received(ph[e]) \in 0..4
    BY <1>2, <1>6 DEF Early, Waiting, Received, Completed
  <2>2. HasQuit(c, e) => HasQuit(r, e)
    <3> SUFFICES ASSUME HasQuit(c, e)
                 PROVE  HasQuit(r, e)
      OBVIOUS
    <3>1. PICK i \in 1..Len(c[e]) : c[e][i].type = "Quit"
      BY DEF HasQuit
    <3>2. i # 1
      BY <1>1, <3>1
    <3>3. i - 1 \in 1..Len(r[e]) /\ r[e][i - 1] = c[e][i]
      BY <1>1, <3>2
    <3> QED
      BY <3>1, <3>3 DEF HasQuit
  <2>3. q[Other(g)] = "failed" => HasQuit(c, e)
    BY <1>4, <1>6, <2>1 DEF PacketsLeft
  <2>4. q[Other(g)] \in {"open", "closed"} => Len(c[e]) >= 4 - Received(ph[e])
    BY <1>4, <1>6, <2>1 DEF PacketsLeft
  <2> QED
    BY <1>1, <1>2, <1>6, <2>1, <2>2, <2>3, <2>4
<1> QED
  BY <1>5, <1>6

(* An end that is past its rounds may read anything.                       *)
LEMMA LeftLate ==
    ASSUME NEW c \in [Ends -> Seq(Packets)], NEW ph \in [Ends -> Phases],
           NEW e \in Ends, c[e] # <<>>, ph[e] \notin Early, PacketsLeft(c, ph)
    PROVE  PacketsLeft(Consumed(c, e), ph)
<1>1. \A g \in Ends : g # e => Consumed(c, e)[g] = c[g]
  BY Reading
<1> QED
  BY <1>1 DEF PacketsLeft, HasQuit

(* What an end must have left when it fails, or is done.                   *)
LEMMA LeftMoves ==
    ASSUME NEW c, NEW ph \in [Ends -> Phases], NEW e \in Ends, NEW f,
           f \in Early => ph[e] \in Early /\ Received(f) = Received(ph[e]),
           ph[Other(e)] \in Early =>
              /\ f = "failed" => HasQuit(c, Other(e))
              /\ f \in {"open", "closed"} => Len(c[Other(e)]) >= 4 - Received(ph[Other(e)]),
           PacketsLeft(c, ph)
    PROVE  PacketsLeft(c, [ph EXCEPT ![e] = f])
<1> DEFINE q == [ph EXCEPT ![e] = f]
<1>1. q[e] = f /\ \A g \in Ends : g # e => q[g] = ph[g]
  OBVIOUS
<1> HIDE DEF q
<1> SUFFICES ASSUME NEW g \in Ends, q[g] \in Early
             PROVE  /\ q[Other(g)] = "failed" => HasQuit(c, g)
                    /\ q[Other(g)] \in {"open", "closed"} => Len(c[g]) >= 4 - Received(q[g])
  BY DEF PacketsLeft, q
<1>2. Other(g) \in Ends /\ Other(g) # g /\ Other(Other(g)) = g
  BY OtherEnd
<1>3. CASE Other(g) = e
  BY <1>1, <1>2, <1>3
<1>4. CASE Other(g) # e
  <2>1. ph[g] \in Early /\ Received(q[g]) = Received(ph[g])
    BY <1>1
  <2> QED
    BY <1>1, <1>2, <1>4, <2>1 DEF PacketsLeft
<1> QED
  BY <1>3, <1>4

LEMMA LeftTypes ==
    ASSUME IndInv, PacketInv
    PROVE  chan \in [Ends -> Seq(Packets)] /\ phase \in [Ends -> Phases] /\ Ordered(chan, phase)
  BY InvTypes

LEMMA DialLeft ==
    ASSUME IndInv, PacketInv, PacketsLeft(chan, phase),
           NEW s \in Streams, NEW n \in Nodes, NEW m \in Nodes,
           NEW exp \in Nodes \cup {NoNode}, NEW t \in DialTasks,
           Dial(s, n, m, exp, t)
    PROVE  PacketsLeft(chan', phase')
<1> DEFINE d == DialEnd(s)
           a == AcceptEnd(s)
           p == ProtocolVersion(Version[n])
           ph == [phase EXCEPT ![a] = "queued"]
<1>1. /\ phase[d] = "unused"
      /\ chan' = Written(chan, d, p)
      /\ phase' = [phase EXCEPT ![d] = "version", ![a] = "queued"]
  BY DEF Dial, Connect
<1>2. d \in Ends /\ a \in Ends /\ d # a /\ Other(d) = a /\ Other(a) = d
  BY StreamEnds, OtherEnd
<1>3. p \in Packets
  BY <1>2, SendablePackets
<1>4. chan \in [Ends -> Seq(Packets)] /\ phase \in [Ends -> Phases] /\ chan' \in [Ends -> Seq(Packets)]
  BY <1>1, <1>2, <1>3, LeftTypes, Writings
<1> HIDE DEF d, a, p
<1>5. phase[a] = "unused"
  BY <1>1, <1>2 DEF IndInv, StreamsStart
<1>6. ph \in [Ends -> Phases] /\ ph[d] = "unused" /\ phase' = [ph EXCEPT ![d] = "version"]
  BY <1>1, <1>2, <1>4 DEF Phases
<1>7. \A f \in {"unused", "queued", "version"} : f \in Early /\ Received(f) = 0
  BY DEF Early, Waiting, Received, Completed
<1>8. PacketsLeft(chan', phase)
  BY <1>1, <1>2, <1>3, <1>4, LeftWritten
<1>9. PacketsLeft(chan', ph)
  BY <1>2, <1>4, <1>5, <1>7, <1>8, LeftMoves
<1> HIDE DEF ph
<1>10. PacketsLeft(chan', [ph EXCEPT ![d] = "version"])
  BY <1>2, <1>6, <1>7, <1>9, LeftMoves
<1> QED
  BY <1>6, <1>10

LEMMA AcceptLeft ==
    ASSUME IndInv, PacketInv, PacketsLeft(chan, phase), NEW n \in Nodes, Accept(n)
    PROVE  PacketsLeft(chan', phase')
<1> DEFINE e == AcceptEnd(Head(backlog[n]))
           p == ProtocolVersion(Version[n])
<1>1. /\ backlog[n] # <<>>
      /\ chan' = Written(chan, e, p)
      /\ phase' = [phase EXCEPT ![e] = "version"]
  BY DEF Accept, SetPhase
<1>2. /\ Head(backlog[n]) \in Streams
      /\ Head(backlog[n]) = backlog[n][1] /\ 1 \in 1..Len(backlog[n])
  BY <1>1 DEF IndInv, TypeOK
<1>3. e \in Ends /\ phase[e] = "queued"
  BY <1>2, StreamEnds DEF IndInv, BacklogQueued
<1>4. p \in Packets
  BY <1>3, SendablePackets
<1> HIDE DEF e, p
<1>5. PacketsLeft(chan', phase)
  BY <1>1, <1>3, <1>4, LeftTypes, LeftWritten
<1>6. \A f \in {"queued", "version"} : f \in Early /\ Received(f) = 0
  BY DEF Early, Waiting, Received, Completed
<1> QED
  BY <1>1, <1>3, <1>5, <1>6, LeftTypes, LeftMoves

(* A packet that an end proceeds with is not a Quit.                       *)
LEMMA ReceiveLeft ==
    ASSUME IndInv, PacketInv, PacketsLeft(chan, phase), NEW e \in Ends,
           ReceiveVersion(e) \/ ReceiveRsa(e) \/ ReceiveAes(e) \/ ReceiveEhlo(e)
    PROVE  PacketsLeft(chan', phase')
<1> DEFINE h == Head(chan[e])
           r == Consumed(chan, e)
<1>1. ASSUME NEW f, chan[e] # <<>>, Verdict(e, h) = "none",
             <<phase[e], f>> \in {<<"version", "rsa">>, <<"rsa", "aes">>,
                                  <<"aes", "ehlo">>, <<"ehlo", "insert">>}
      PROVE  /\ PacketsLeft(r, [phase EXCEPT ![e] = f])
             /\ r \in [Ends -> Seq(Packets)] /\ [phase EXCEPT ![e] = f] \in [Ends -> Phases]
  <2>1. h.type = Awaited[phase[e]]
    BY <1>1, AwaitedReads
  <2>2. h.type # "Quit"
    BY <1>1, <2>1 DEF Awaited
  <2>3. chan \in [Ends -> Seq(Packets)] /\ phase \in [Ends -> Phases] /\ f \in Phases
    BY <1>1, LeftTypes DEF Phases, Waiting
  <2>4. PacketsLeft(r, [phase EXCEPT ![e] = f])
    <3>1. /\ phase[e] \in Waiting /\ f \notin {"failed", "open", "closed"}
          /\ f \in Early => f \in Waiting /\ Received(f) = Received(phase[e]) + 1
      BY <1>1 DEF Early, Waiting, Received, Completed
    <3>2. chan[e] # <<>> /\ chan[e][1].type # "Quit"
      BY <1>1, <2>2, <2>3, Reading
    <3> QED
      BY <2>3, <3>1, <3>2, LeftRead
  <2>5. r \in [Ends -> Seq(Packets)]
    BY <1>1, <2>3, Reading
  <2> QED
    BY <2>3, <2>4, <2>5
<1>2. ASSUME NEW f, NEW p \in Packets, chan[e] # <<>>, Verdict(e, h) = "none",
             <<phase[e], f>> \in {<<"version", "rsa">>, <<"rsa", "aes">>, <<"aes", "ehlo">>},
             chan' = Written(r, e, p), phase' = [phase EXCEPT ![e] = f]
      PROVE  PacketsLeft(chan', phase')
  <2>1. /\ PacketsLeft(r, phase')
        /\ r \in [Ends -> Seq(Packets)] /\ phase' \in [Ends -> Phases]
    BY <1>1, <1>2
  <2> HIDE DEF r
  <2> QED
    BY <1>2, <2>1, LeftWritten
<1>3. Handshaking(e)
  BY DEF ReceiveVersion, ReceiveRsa, ReceiveAes, ReceiveEhlo, Proceed, Handshaking, Waiting
<1>4. CASE ReceiveVersion(e)
  <2>1. InitRsa(node[e], e) \in Packets
    BY <1>3, HandshakeEnds, SendablePackets
  <2> QED
    BY <1>2, <1>4, <2>1 DEF ReceiveVersion, Proceed, SetPhase
<1>5. CASE ReceiveRsa(e)
  <2>1. /\ phase[e] = "rsa" /\ chan[e] # <<>> /\ Verdict(e, h) = "none"
        /\ chan' = Written(r, e, InitAes(e, h.nonce))
        /\ phase' = [phase EXCEPT ![e] = "aes"]
    BY <1>5 DEF ReceiveRsa, Proceed, SetPhase
  <2>2. h.type = "InitRsa"
    BY <2>1, AwaitedReads DEF Awaited
  <2>3. h.nonce \in Ends
    BY <1>3, <2>1, <2>2, HeadOfChannel, OtherEnd, PacketFields
  <2>4. InitAes(e, h.nonce) \in Packets
    BY <1>3, <2>3, HandshakeEnds, SendablePackets
  <2> QED
    BY <1>2, <2>1, <2>4
<1>6. CASE ReceiveAes(e)
  <2>1. Ehlo(node[e]) \in Packets
    BY <1>3, HandshakeEnds, SendablePackets
  <2> QED
    BY <1>2, <1>6, <2>1 DEF ReceiveAes, Proceed, SetPhase
<1>7. CASE ReceiveEhlo(e)
  BY <1>1, <1>7 DEF ReceiveEhlo, SetPhase
<1> QED
  BY <1>4, <1>5, <1>6, <1>7

(* Every error path leaves a Quit: the end drops what it was doing, reads  *)
(* the packet it fails at, writes its Quit, and has failed.                *)
LEMMA FailLeft ==
    ASSUME IndInv, PacketInv, PacketsLeft(chan, phase), NEW e \in Ends,
           Fail(e) \/ RefuseInsert(e)
    PROVE  PacketsLeft(chan', phase')
<1> DEFINE o == Other(e)
           ph == [phase EXCEPT ![e] = "dropped"]
<1>1. PICK err \in Errors \cup {"InsertError::AlreadyConnected"}, c \in {chan, Consumed(chan, e)} :
         /\ c = chan \/ chan[e] # <<>>
         /\ chan' = Written(c, e, Quit(err))
         /\ phase' = [phase EXCEPT ![e] = "failed"]
         /\ Handshaking(e)
  <2>1. CASE Fail(e)
    <3> DEFINE err == Verdict(e, Head(chan[e]))
    <3>1. err \in Errors \cup {"none"}
      <4>1. /\ TypeError(e, Head(chan[e])) \in Errors
            /\ VersionError(e, Head(chan[e]).version) \in Errors \cup {"none"}
            /\ KeyError(e, Head(chan[e]).key) \in Errors \cup {"none"}
            /\ AesError(e, Head(chan[e]).nonce) \in Errors \cup {"none"}
        BY DEF TypeError, VersionError, KeyError, AesError, Errors
      <4> QED
        BY <2>1, <4>1 DEF Verdict, Waiting, Fail
    <3>2. /\ err # "none" /\ chan[e] # <<>> /\ Handshaking(e)
          /\ chan' = Written(Consumed(chan, e), e, Quit(err))
          /\ phase' = [phase EXCEPT ![e] = "failed"]
      BY <2>1 DEF Fail, SetPhase, Handshaking
    <3> HIDE DEF err
    <3> QED
      BY <3>1, <3>2
  <2>2. CASE RefuseInsert(e)
    BY <2>2 DEF RefuseInsert, SetPhase, Handshaking
  <2> QED
    BY <2>1, <2>2
<1>2. Quit(err) \in Packets /\ Quit(err).type = "Quit"
  BY <1>1, HandshakeEnds, SendablePackets DEF Quit
<1>3. /\ chan \in [Ends -> Seq(Packets)] /\ phase \in [Ends -> Phases]
      /\ ph \in [Ends -> Phases] /\ ph[e] = "dropped" /\ "dropped" \notin Early
      /\ c \in [Ends -> Seq(Packets)]
      /\ o \in Ends
  <2>1. chan \in [Ends -> Seq(Packets)] /\ phase \in [Ends -> Phases]
    BY LeftTypes
  <2>2. c \in [Ends -> Seq(Packets)]
    BY <1>1, <2>1, Reading
  <2> QED
    BY <2>1, <2>2, OtherEnd DEF Phases, Early, Waiting
<1>4. PacketsLeft(chan, ph)
  BY <1>3, LeftMoves
<1>5. phase' = [ph EXCEPT ![e] = "failed"]
  BY <1>1, <1>3
<1> HIDE DEF ph, o
<1>6. PacketsLeft(c, ph)
  BY <1>1, <1>3, <1>4, LeftLate
<1>7. PacketsLeft(chan', ph)
  BY <1>1, <1>2, <1>3, <1>6, LeftWritten
<1>8. HasQuit(chan', o)
  <2>1. chan'[o] = Append(c[o], Quit(err)) /\ c[o] \in Seq(Packets)
    BY <1>1, <1>3 DEF Written, o
  <2>2. /\ Len(c[o]) + 1 \in 1..Len(chan'[o])
        /\ chan'[o][Len(c[o]) + 1] = Quit(err)
    BY <1>2, <2>1
  <2> QED
    BY <1>2, <2>2 DEF HasQuit
<1>9. "failed" \notin Early
  BY DEF Early, Waiting
<1> QED
  BY <1>3, <1>5, <1>7, <1>8, <1>9, LeftMoves DEF o

LEMMA PoolLeft ==
    ASSUME IndInv, PacketInv, PacketsLeft(chan, phase)
    PROVE  /\ \A e \in Ends : Abandon(e) => PacketsLeft(chan', phase')
           /\ \A e \in Ends : Insert(e) => PacketsLeft(chan', phase')
           /\ \A c \in Tasks : Remove(c) => PacketsLeft(chan', phase')
<1>1. ASSUME NEW e \in Ends, Abandon(e)
      PROVE  PacketsLeft(chan', phase')
  BY <1>1, LeftTypes, LeftMoves DEF Abandon, SetPhase, transportVars, Early, Waiting
<1>2. ASSUME NEW e \in Ends, Insert(e)
      PROVE  PacketsLeft(chan', phase')
  <2>1. phase[e] = "insert" /\ chan' = chan /\ phase' = [phase EXCEPT ![e] = "open"]
    BY <1>2 DEF Insert, SetPhase, transportVars
  <2>2. Other(e) \in Ends /\ Other(Other(e)) = e
    BY OtherEnd
  <2>3. ASSUME phase[Other(e)] \in Early
        PROVE  Len(chan[Other(e)]) >= 4 - Received(phase[Other(e)])
    <3>1. phase[Other(e)] \notin GivenUp /\ phase[e] \in Writing /\ Sent(phase[e]) = 4
      BY <2>1, <2>3 DEF Early, Waiting, GivenUp, Writing, Sent
    <3>2. Len(chan[Other(e)]) = 4 - Received(phase[Other(e)])
      BY <2>2, <3>1, LeftTypes DEF Ordered
    <3>3. Received(phase[Other(e)]) \in 0..4
      BY DEF Received
    <3> QED
      BY <3>2, <3>3
  <2> QED
    BY <2>1, <2>3, LeftTypes, LeftMoves DEF Early, Waiting
<1>3. ASSUME NEW c \in Tasks, Remove(c)
      PROVE  PacketsLeft(chan', phase')
  <2> DEFINE e == pool[Owner(c)][Target(c)]
  <2>1. /\ closing[c].step = "remove" /\ Contains(Owner(c), Target(c))
        /\ phase' = [phase EXCEPT ![e] = "closed"] /\ chan' = chan
    BY <1>3 DEF Remove, SetPhase, transportVars
  <2>2. Owner(c) \in Nodes /\ Target(c) \in Nodes
    BY <2>1, OwnerTarget DEF IndInv, TasksOpened
  <2>3. e \in Ends /\ phase[e] = "open"
    BY <2>1, <2>2, PooledEnd
  <2> HIDE DEF e
  <2>4. Other(e) \in Ends /\ Other(Other(e)) = e
    BY <2>3, OtherEnd
  <2>5. phase[Other(e)] \in Early => Len(chan[Other(e)]) >= 4 - Received(phase[Other(e)])
    BY <2>3, <2>4 DEF PacketsLeft
  <2> QED
    BY <2>1, <2>3, <2>5, LeftTypes, LeftMoves DEF Early, Waiting
<1> QED
  BY <1>1, <1>2, <1>3

(* disconnect() only adds to what was left.                                *)
LEMMA DisconnectLeft ==
    ASSUME IndInv, PacketInv, NEW c \in Tasks, Opened(c),
           NEW ch \in [Ends -> Seq(Packets)], PacketsLeft(ch, phase), StartDisconnect(c, ch)
    PROVE  PacketsLeft(chan', phase')
<1> DEFINE n == Owner(c)
           p == Target(c)
           e == pool[n][p]
<1>1. chan' = QuitWritten(ch, n, p) /\ phase' = phase
  BY DEF StartDisconnect
<1>2. n \in Nodes /\ p \in Nodes
  BY OwnerTarget
<1>3. CASE Contains(n, p)
  <2>1. e \in Ends /\ chan' = Written(ch, e, Quit("Quit"))
    BY <1>1, <1>2, <1>3, PooledEnd DEF QuitWritten
  <2>2. Quit("Quit") \in Packets
    BY <1>2, <2>1, SendablePackets
  <2> HIDE DEF e
  <2> QED
    BY <1>1, <2>1, <2>2, LeftTypes, LeftWritten
<1>4. CASE ~ Contains(n, p)
  BY <1>1, <1>4 DEF QuitWritten
<1> QED
  BY <1>3, <1>4

LEMMA ClosingLeft ==
    ASSUME IndInv, PacketInv, PacketsLeft(chan, phase)
    PROVE  /\ \A e \in Ends : ReadQuit(e) => PacketsLeft(chan', phase')
           /\ \A c \in Pingers : Expire(c) => PacketsLeft(chan', phase')
           /\ \A c \in Lookups : LookupAnswered(c) => PacketsLeft(chan', phase')
<1>1. Ends \subseteq Tasks /\ Pingers \subseteq Tasks /\ Lookups \subseteq Tasks
  BY DEF Tasks, Readers
<1>2. ASSUME NEW e \in Ends, ReadQuit(e)
      PROVE  PacketsLeft(chan', phase')
  <2>1. phase[e] \in {"open", "closed"} /\ chan[e] # <<>> /\ StartDisconnect(e, Consumed(chan, e))
    BY <1>2 DEF ReadQuit, MayRead
  <2>2. Opened(e)
    BY <2>1, TasksDisjoint DEF Opened
  <2>3. phase[e] \notin Early
    BY <2>1 DEF Early, Waiting
  <2>4. PacketsLeft(Consumed(chan, e), phase)
    BY <2>1, <2>3, LeftTypes, LeftLate
  <2>5. Consumed(chan, e) \in [Ends -> Seq(Packets)]
    BY <2>1, LeftTypes, Reading
  <2> QED
    BY <1>1, <2>1, <2>2, <2>4, <2>5, DisconnectLeft
<1>3. ASSUME NEW c \in Pingers, Expire(c)
      PROVE  PacketsLeft(chan', phase')
  <2>1. Opened(c)
    BY TasksDisjoint DEF Opened
  <2> QED
    BY <1>1, <1>3, <2>1, LeftTypes, DisconnectLeft DEF Expire
<1>4. ASSUME NEW c \in Lookups, LookupAnswered(c)
      PROVE  PacketsLeft(chan', phase')
  <2>1. Opened(c)
    BY <1>4, TasksDisjoint DEF Opened, LookupAnswered
  <2> QED
    BY <1>1, <1>4, <2>1, LeftTypes, DisconnectLeft DEF LookupAnswered
<1> QED
  BY <1>2, <1>3, <1>4

LEMMA NextLeft ==
    ASSUME IndInv, PacketInv, PacketsLeft(chan, phase), [Next]_vars
    PROVE  PacketsLeft(chan', phase')
<1>1. CASE UNCHANGED vars
  BY <1>1 DEF vars, poolVars, transportVars
<1>2. CASE Handshakes
  BY <1>2, DialLeft, AcceptLeft, ReceiveLeft, FailLeft, PoolLeft DEF Handshakes
<1>3. CASE PoolStep
  <2>1. ASSUME NEW e \in Ends, Cancel(e)
        PROVE  PacketsLeft(chan', phase')
    BY <2>1 DEF Cancel, transportVars
  <2>2. ASSUME NEW c \in Pingers, StartPing(c) \/ SendPing(c) \/ Answered(c)
        PROVE  PacketsLeft(chan', phase')
    BY <2>2 DEF StartPing, SendPing, Answered, transportVars
  <2>3. ASSUME NEW c \in Tasks, AlreadyDisconnected(c) \/ Notify(c)
        PROVE  PacketsLeft(chan', phase')
    BY <2>3 DEF AlreadyDisconnected, Notify, transportVars
  <2> QED
    BY <1>3, <2>1, <2>2, <2>3, FailLeft, PoolLeft, ClosingLeft DEF PoolStep
<1> QED
  BY <1>1, <1>2, <1>3 DEF Next

(* An end that is still in its rounds has a packet to read, or the other   *)
(* end has one, unless the other end has not been accepted or was dropped: *)
(* no two ends of a stream ever wait for each other, for any nodes,        *)
(* streams, versions and delays (handshake.rs).                            *)
THEOREM NobodyIsStuck == Spec => []NobodyWaitsInVain
<1>1. Init => LeftInv
  <2> SUFFICES ASSUME Init
               PROVE  LeftInv
    OBVIOUS
  <2>1. \A e \in Ends : phase[Other(e)] = "unused"
    BY OtherEnd DEF Init, PoolInit
  <2> QED
    BY <2>1 DEF LeftInv, PacketsLeft
<1>2. IndInv /\ PacketInv /\ LeftInv /\ [Next]_vars => LeftInv'
  BY NextLeft DEF LeftInv
<1>3. IndInv /\ PacketInv /\ LeftInv => NobodyWaitsInVain
  <2> SUFFICES ASSUME IndInv, PacketInv, LeftInv,
                      NEW e \in Ends, phase[e] \in Waiting, chan[e] = <<>>
               PROVE  \/ phase[Other(e)] \in {"queued", "dropped"}
                      \/ phase[Other(e)] \in Waiting /\ chan[Other(e)] # <<>>
    BY DEF NobodyWaitsInVain
  <2> DEFINE o == Other(e)
  <2>1. o \in Ends /\ Other(o) = e
    BY OtherEnd
  <2>2. Len(chan[e]) = 0 /\ ~ HasQuit(chan, e)
    BY DEF HasQuit
  <2>3. /\ phase[e] \in Early /\ phase[e] \notin GivenUp /\ phase[e] \in Writing
        /\ Received(phase[e]) \in 0..3 /\ Sent(phase[e]) = Received(phase[e]) + 1
    BY DEF Waiting, Early, GivenUp, Writing, Received, Sent, Completed
  <2>4. phase[o] # "failed"
    BY <2>2, <2>3 DEF LeftInv, PacketsLeft
  <2>5. phase[o] \notin {"open", "closed"}
    BY <2>2, <2>3 DEF LeftInv, PacketsLeft
  <2>6. phase[o] # "unused"
    BY <2>1 DEF IndInv, StreamsStart, Waiting
  <2>7. phase[o] # "insert"
    <3>1. phase[o] = "insert" => Sent(phase[o]) = 4 /\ phase[o] \in Writing
      BY DEF Sent, Writing, Waiting
    <3>2. phase[o] = "insert" => Len(chan[e]) = 4 - Received(phase[e])
      BY <2>3, <3>1, LeftTypes DEF Ordered
    <3> QED
      BY <2>2, <2>3, <3>2
  <2>8. ASSUME phase[o] \in Waiting
        PROVE  chan[o] # <<>>
    <3>1. /\ phase[o] \notin GivenUp /\ phase[o] \in Writing
          /\ Received(phase[o]) \in 0..3 /\ Sent(phase[o]) = Received(phase[o]) + 1
      BY <2>8 DEF Waiting, GivenUp, Writing, Received, Sent, Completed
    <3>2. Len(chan[e]) = Sent(phase[o]) - Received(phase[e])
      BY <2>3, <3>1, LeftTypes DEF Ordered
    <3>3. Len(chan[o]) = Sent(phase[e]) - Received(phase[o])
      BY <2>1, <2>3, <3>1, LeftTypes DEF Ordered
    <3>4. Len(chan[o]) # 0
      BY <2>2, <2>3, <3>1, <3>2, <3>3
    <3> QED
      BY <3>4
  <2>9. phase[o] \in Phases
    BY <2>1, LeftTypes
  <2> QED
    BY <2>4, <2>5, <2>6, <2>7, <2>8, <2>9 DEF Phases
<1> QED
  BY <1>1, <1>2, <1>3, Invariance, PacketInvariance, PTL DEF Spec
=============================================================================
