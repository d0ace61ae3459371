# A TLA+ model of tewta

tewta is a peer-to-peer node written in Rust: nodes dial one another over
streams, authenticate with a handshake, keep a pool of open connections sorted
into Kademlia buckets, fill those buckets by asking their peers, and store and
look up values in a DHT. In this repository the network is simulated: all nodes
live in one process on a multi-threaded executor, and their streams are the
in-memory `TestStream` of `src/src/stream.rs`.

This directory holds TLA+ modules for the parts of the node where concurrency,
order and boundaries matter, the TLC configurations that check them on small
instances, and proofs that TLAPS checks for every value of the constants.
`PROJECT.json` maps each definition to the lines it stands for. Paths below are
relative to the repository (`src/src/node/node.rs` is its `src/node/node.rs`).

## 1. The system

| Component | State | Operations | Meets |
|---|---|---|---|
| Listeners, `connect()` (`lib.rs`, `tests/common`) | one queue of streams per address | dial, accept | handshake |
| Test stream (`stream.rs`) | per direction a buffer and a waker, one async mutex each; per half the futures of locks it waits for, `wrote`, `woke` | `poll_read`, `poll_write` | every task that reads or writes |
| Handshake (`handshake.rs`) | local to the task: their key, nonce, AES part | four rounds of packets, their checks, the Quit on error | pool (`contains`, `insert`) |
| Connection pool (`connections.rs`) | map from PeerID to write half, address, ping, reader task | `insert`, `contains`, `disconnect`, `send_packet`, `set_ping`, queries by distance, mask and bucket, `refresh_buckets` | all tasks of a node |
| Reader (`node.rs` `on_packet`) | one task per connection | Quit, Ping, DiscoverPeers, DHT requests, responses as events | pool, listeners of events, DHT store |
| Ping loop (`node.rs`) | one task per node and one per ping | ping, 30 s timer, disconnect | pool, events |
| Bucket refresh and discovery (`node.rs`, `discovery.rs`) | bucket levels in use | ask providers, dial candidates | pool, handshake, events |
| DHT (`dht.rs`, `node.rs`) | values by key | lookup over several providers at once, store | pool, handshake, events |
| Events (`events.rs`), `counter.rs` | lists of listeners; next request identifier | notify, listen | readers, everyone who waits for an answer |
| Identifiers (`peers.rs`) | none | distance, order, `matches`, `bucket`, `generate_in_bucket` | pool, discovery, DHT |
| Segmented array, accounts, signed data | plain data | container and hashing | not used by the node yet |
| Commands, logging, `main.rs` | none of interest | user interface | |

What is hard in it:

* **Two nodes dial each other at once**, or one node dials the same peer from
  three kinds of task. The check that a peer is not connected is made in the
  handshake, long before `insert()` makes it again under the lock.
* **`disconnect()` is not atomic.** It takes the pool's lock to write the Quit,
  releases it, takes it again to remove the entry, aborts the reader and raises
  `on_disconnect`. Readers, ping tasks and lookups all call it, and it names a
  peer rather than a connection.
* **`abort()` is late**: it takes effect where the aborted task next waits.
* **Timers drop futures.** `on_connection()` gives up after 40 s without a word,
  a lookup is dropped when another one succeeds, and a stream never tells that
  its other end is gone.
* **The waker of a stream** is registered under one lock and the buffer is
  looked at under another; the task that reads changes when the handshake is
  over; a half keeps half-finished work in its fields between polls.
* **A packet is two writes.** A task that is dropped between them, or inside
  one, leaves part of a frame on a stream that other tasks go on using.
* **An answer is an event.** Every answer goes to every listener of its kind;
  the task that asked registers a listener before or after it sends, picks its
  answer by number and peer, and in most places has no timer.
* **Discovery and lookups work on what others answer**, while the pool they
  started from changes: buckets counted once and filled later, providers that
  name each other and us, peers that quit while they are asked.
* **Bit arithmetic on identifiers**: levels, ids and masks at the boundaries of
  bytes, written out case by case.

What makes the components correct: nobody in a pool is mistaken for somebody
else, a connection and its reader come and go together, both ends derive one
key, correct nodes do not accuse each other, handshakes end, a connection with
a dead other end is closed, bytes arrive once and in order and nobody sleeps
beside them, packets arrive whole, everybody gets the answer to their own
request, a lookup and a discovery follow up what they are told and end, and a
request for a bucket selects exactly that bucket. The list
of hazards in `PROJECT.json` ties each of these to the line where it is at risk.

## 2. Modules

```
Transport <- ConnectionPool <- Handshake <- MCHandshake       Handshake => Pool
                                         <- HandshakeProofs
PeerId    <- Routing <- MCRouting
                     <- RoutingProofs
PeerBytes <- MCRouting
Stream    <- StreamProofs                                     Stream => Channel
Frames    <- FramesProofs                                     Frames => Channel
Events    <- EventsProofs                                     Events => Request
DhtLookup <- DhtLookupProofs
Discovery <- MCDiscovery
          <- DiscoveryProofs
SegmentedArray <- SegmentedArrayProofs
```

(`<-` means EXTENDS, `=>` that the module on the left is shown to implement the
abstract specification on the right.) The modules lean on one another's results
where they abstract: Stream shows that bytes arrive in order, Frames that whole
packets do, and Transport takes packets as units on ordered channels; Events
shows that a request gets its own answer while both connections last, and
DhtLookup and Discovery take request and answer as such; Routing shows that a
request selects exactly one bucket, and Discovery takes buckets as given;
Handshake shows that handshakes end and whom they put in the pool, and DhtLookup
and Discovery take dialling as one step. A definition whose comment starts with "Mutant" is a
plausible mistake in the definition that follows it, and is used by no
specification.

**Transport.** A stream `s` has the ends `<<s, "dial">>` and `<<s, "accept">>`.
`chan[e]` is the sequence of packets on their way to `e`, `backlog[n]` the queue
of n's listener, `node[e]` who holds the end. Channels are reliable, ordered and
never closed, which is what the module Stream shows of `TestStream` and what
dropping a half does (nothing). A packet is a record. A nonce or a key part is
named by the end that drew it, a public key by its PeerID, which is its hash:
randomness never collides and cryptography is perfect.

**ConnectionPool.** `pool[n][p]` is n's connection to p. `phase[e]` is how far
the task at end `e` has come, `closing[c]` how far a task `c` that disconnects
has come. A task is a reader (named by its end), the ping task `<<n, p>>`, or
the lookup that dialled a stream. The critical sections of `disconnect()` are
the three steps `StartDisconnect`, `Remove` and `Notify`, and between any two of
them every other task may run. `Remove` takes whatever connection the pool holds
then. A ping is a snapshot (`StartPing`), a packet on the connection the peer has
by then, if any (`SendPing`), and its answer or its timer. An aborted reader goes on (`"late"`, or in the middle of its own
`disconnect()`) until `Cancel`, which is possible where it would wait. `quit`
and `reported` are history variables.

**Handshake.** Each end writes its packet of a round and then waits for the
other's; the phases `version`, `rsa`, `aes`, `ehlo` are the four waits.
`Proceed` reads a packet with nothing wrong in it and writes the next one;
`Fail` is every error path, with `Verdict` the checks in the code's order and
the Quit that `handshake()` writes. `Abandon` drops the future: by the 40 s
timer, or a lookup at any moment. `Dial` covers bootstrap (`on_connection`, one
at a time, expecting nobody), discovery and lookups (no timer, expecting a peer
that is not connected at that moment, whose address may belong to somebody else
by now). `Accept` is the accept loop, which runs one handshake at a time.
Encryption matters in one place, and is modelled there: with it, a Quit in place
of InitAes cannot be decrypted and gives RsaError (TODO #48 of the code).

**PeerId** and **Routing.** The code works on two bits at a time, so an ID is a
function from levels to base-4 digits, with `PerByte` digits to a byte (128 and
4 in the code). The written-out cases of `bucket()` and
`generate_in_bucket()` are then one expression each; the mask of discovery keeps
the byte boundaries. **PeerBytes** has those cases as the code has them: `Arms`
and `Flips` are the bytes of the twelve arms of each, `LastMask` those of the mask,
and `ArmsTaken` and `Selected` say what they do at each place in a byte, whatever the
bits below. MCRouting compares both with PeerId. They use Bitwise and so are only
model-checked. Routing keeps the set of connected peers of one node and
answers DiscoverPeers with any admissible subset of the matching peers, as the
shuffle allows.

**Stream.** One direction of a `TestStream`, one step per lock operation of
`poll_read()` and `poll_write()`. `fut[h]` are the lock futures kept in a half;
releasing a lock wakes the half that waits for it. `HandOver` is the change of
the reading task at `insert()`, after which the registered waker is of no use.
`DropWrite` is a write future dropped while pending, which is always possible;
`cut` records that one was dropped after it had written and before it had woken
the reader. Such a write leaves `wrote` set, and the next `poll_write()` reports
its buffer as written without having written it.

**Channel** is what Stream and Frames implement: the i-th thing sent is the i-th
received, once, and everything on its way arrives. A thing may be given up
before it is sent (`GiveUp`: a write or a call dropped early), and the channel
may break for good (`Break`: a write or a call dropped midway), after which
nothing is promised. **Pool** is what Handshake
implements with `spent` read off the phases: an entry is opened with an end that
was never used, stays until it is closed, and never comes back. **Request** is
what Events implements: asked, then answered with one's own answer or, unless
whoever asks is `patient`, given up.

**Frames.** The calls of `send_packet()` for one connection, and its reader task.
A call takes the pool's lock (`Lock`), and writes the length and the packet, each
in the two steps of `poll_write()` (`Extend` sets `wrote`, `Wake` resets it). The
unit of the stream is a length, so that a frame is a header and `size` units.
Frames are numbered when their first byte is written (`WriteLength`).
`Drop` is a call whose future is dropped at any await, which releases the lock
and leaves `wrote` as it is; a call that has begun its frame is then `"torn"`. A
unit of a body that is read as a length is any size, or one beyond
`MAX_PACKET_SIZE`, at which the reader panics.

**Events.** Each request is a task with the stages number, listen, send, wait.
`kind` is that of all requests of a behaviour: a query of a lookup or of discovery
registers its listener first and has no timer, a ping is sent first and has one
(`Order`). `event()` is `Begin` (lock), one `Serve` per listener from the last to
the first, with removal of the dropped ones, and `End`. `listeners` begins with
`Old` stale ones, of requests made before. `chan[r]` is the unbounded channel of a
listener, `events` and `since` are history. `Counter` wraps at `Numbers`.

**DhtLookup.** `dht_lookup()` for one key, with the running lookups as steps of
their own: `Begin` (is it connected?), `Connect` or `FailToConnect`, `Ask`,
`Answered`, `Close`. Nodes are named by their distance to the key, 0 being the
node whose ID is the key. The vector of providers is a set, since the code sorts
it, removes duplicates and pops the closest. A provider answers with the value
or with the closest `MaxReturned` peers it knows, us among them. Networks (who
knows whom), holders of the value and our own pool are arbitrary. `PeerJoins`,
`PeerQuits` and `DhtSet` are what the peers of `Moving` do meanwhile, at any
moment; `moved` records who has.

**Discovery.** Refreshes walk over the buckets, `PerLevel` to a level, `LookAt`
by `LookAt`, and spawn the tasks `<<refresh, bucket>>`, each of which finds its
providers, counts the peers missing, and tries candidates and asks providers in
turn. The subtraction of `discovery.rs:23` panics or wraps, as the build decides.
The peers of `Moving` connect and quit by themselves, `MaxMoves` times.
`strangers[t]` is a history variable: the peers that others than `t` (themselves, or
tasks of other refreshes) connected to its bucket, first since its refresh looked at
the bucket, and since it counted once it has. `Met` counts them.

**SegmentedArray.** `from()` as one step per round of grouping, then
`remove_segment()` on any array in the tree. The tree is kept flat: `rounds[k]` is
the vector `segments` before the k-th round of the loop, and an array names the
segments it holds by their places in the round before, so that a segment deep in the
tree is replaced where it stands. `OneArray` is the loop's only test: `Return` if it
holds, `Group` if not. `Hashes` and `Items` are the recursive functions
`hash()` and `items()`, of one round after the other. The items are their positions
and hashes are symbolic.

Data that is abstracted: field lengths, sizes and serialisation (a correct node
sends nothing malformed), the contents of packets other than the handshake's,
durations. Bytes written together are one element of a stream.

## 3. Runs

Passing runs:

| Run | Checks | Bounds |
|---|---|---|
| HandshakeDials | `PoolSound`, `ReadersArePooled`, `KeyAgreement`, `NoFalseBlame`, `CompletedByBoth`, `NobodyWaitsInVain` | 2 nodes, 2 streams, all three dialling tasks, timers may fire at any moment, encryption, no ping loop |
| HandshakePings | `HandshakesEnd`, `HalfOpenReaped`, `ImplementsPool` | 2 nodes, 2 streams, node 1 pings, timers fire only when the other end is gone, encryption; bootstrap and discovery dial both streams, or a lookup one |
| Routing | `MaskSelectsBucket`, `GeneratedInBucket`, `BucketsOrderDistance`, `AnswersFit`, `ArmsAgree`, `RequestsAgree` | IDs of 3 digits, 2 to a byte, up to 3 peers, answers of at most 1; bytes of 4 pairs of bits for the arms, with any bits below |
| Stream | `InOrder`, `NoLostWakeup`, `ImplementsChannel`, `WritesReturn` | 4 writes, each of which may be dropped |
| Frames | `InStep`, `ImplementsChannel`, `SendsReturn` | 3 calls, 2 of which may be dropped, packets of 1 or 2 units |
| Events | `EveryEvent`, `WaitingIsListed`, `ListensInTime`, `ImplementsRequest` | 2 requests, queries or pings, 2 peers of which one may leave a ping unanswered, 2 numbers, 1 stale listener |
| DhtLookup | `NoneMeansAbsent`, `PoolRestored`, `AnswersExhausted`, `NeverAgain`, `EndsUnlessStranded` | 3 peers, one of them the key's own node, one of them out of reach, two of which join, quit and store; 2 lookups at a time, answers of 2 |
| Discovery | `SubtractionFits`, `NotOverfilled`, `NothingOverlooked`, `RefreshCovers`, `EndsUnlessStranded` | 4 peers in 2 buckets of size 1 on 2 levels, one without a listener, one with whom handshakes may fail, two of them that may connect or quit (once in all), 2 refreshes that may overlap |
| SegmentedArray | `SizesBounded`, `HashUnaffected`, `OrderKept`, `RoundsShrink` | groups of 3, up to 28 items, up to 3 removals at any depth |

The type invariants of Handshake, Routing, Stream, Frames, Events, DhtLookup and Discovery,
and the properties `NoTakeover` (which `ImplementsPool` implies) and `DistanceIsTotal`,
are theorems (section 5) and in no run.

Why the bounds are enough. A race about one pool entry needs two connections of
the same pair of nodes, dialled from the same or from both sides: two streams.
Three nodes and mixed versions, which these runs leave out, are covered by the
proofs of all the properties that HandshakeDials checks. The
ping race (ping the first connection, lose it, connect again, disconnect the
second) needs two streams. A half-open connection whose other end said nothing
comes, in HandshakePings, from a lookup that drops its handshake after its last
packet; `LookupsAlone` of MCHandshake bounds that run to behaviours in which a
lookup is the only one to dial. Three digits with two to a byte put a level at the
end of a byte, one at its start, and one in the byte that follows; three peers
are needed so that a requester can be given one of two others with the limit at
1. Four writes let the buffer hold several elements while a poll is pending and
its task has changed. Three calls let one wait for the lock while another is
dropped and a third is read. Two requests and a stale listener let a listener be
removed before and after the one that waits; two numbers and two peers suffice
for two requests to share a peer and not a number, or the reverse. A lookup with
two running and a third provider waiting, one unreachable and one that names us,
takes four nodes, among them the one at which the code takes its shortcut. A
bucket of size 1 with three peers can be empty, full and overfull, and the
second bucket is reached only if the first is not empty. Two refreshes at a time give
a bucket two tasks, one of which may fill it between the look of the other's refresh
and the subtraction of the other; with a peer that joins besides, the subtraction
overflows. Twenty-eight items in
groups of 3 reach the fourth level, and the levels before it with full and with short
groups (27 items just fill three levels, 28 start a fourth). The proofs of section 5
remove these bounds for the properties they cover.

The networks of DhtLookup and Discovery are all graphs over the peers, and
connections are mutual. Streams are interchangeable, so the runs of Handshake that
check invariants use them as a symmetry set
(HandshakePings does not, for temporal properties are checked there). Deadlock is
not checked where the system may stop: when every stream, write, call or request
of the bound has been used, and when a lookup, a refresh or `from()` is over.
Routing never stops, and its run checks deadlock.

What the runs show beyond their properties:

* `ImplementsPool` and `ReadersArePooled` hold although `disconnect()` names a
  peer and not a connection, because the second check in `insert()` and the
  removal with the abort are each one critical section.
* `NoFalseBlame` holds with encryption only because RsaError is not among
  the errors `report_fault()` names.
* `HandshakesEnd` holds although discovery has no timer, because every error path
  writes a Quit (`NobodyWaitsInVain` says so of every state, with any delays); it is stated with packets that are not delayed beyond the timers,
  because a node whose timer fires drops the handshake in silence, and an untimed
  handshake at the other end then waits for ever.
* A packet may be torn: a lookup dropped inside its frame (`dht.rs:180`) leaves a
  length without its packet, and the reader takes what comes next for the packet.
  `InStep` and `ImplementsChannel` of Frames say that this is the only way in which
  packets stop being units, which is what Transport takes them for.
* A dropped write likewise breaks the channel of Stream, and only if it had
  written; what does arrive is in order even then (`NeverRepeated`, in `InOrder`).
* A ping can miss its Pong, which may be given to `event()` before the ping's
  listener is registered: `ImplementsRequest` allows a ping to give up, and
  `ListensInTime` is stated of queries, which register first.
* `PoolRestored` excepts the lookups that are dropped because another one has
  found the value: their connections stay until a ping or a Quit ends them.
* `EndsUnlessStranded`, of lookups and of discovery, has the one exception that the
  code has: a provider that quits never answers, and there is no timer.
* `NoneMeansAbsent` has the code's own exception: once the node that is the key
  has been asked, others are not.
* The subtraction of `discovery.rs:23` does overflow. `SubtractionFits` says what it
  takes: two peers that others than the task have connected to its bucket since its
  refresh looked at it, be they peers that dial us or tasks of other refreshes that
  overlap with this one. It follows that one refresh whose peers do not move is safe
  from it: each bucket has one task then, which dials peers of no other bucket. `NotOverfilled` says how far a task
  that has not overflowed may go beyond `KADEMLIA_BUCKET_SIZE`: by those that others
  have connected since it counted, because it counts down and never counts again.
* `RefreshCovers` says which buckets get a task. The loop ends at the first empty
  bucket, not at the first empty level, so that the other buckets of that level are
  skipped too.
* `RoundsShrink` needs `N > 1`, as the theorem says: with `N = 1` a vector of two
  items is grouped for ever (the code uses 16). That `from()` returns follows, for
  the vector is finite.

Runs that end in a violation, each for a sentence in the repository that the
code does not keep (`findings` in `PROJECT.json` quotes them). All three have 2
nodes, 2 streams, bootstrap dials and both ping loops:

* **SilentQuit** (`NeverQuitsSilently`): "never quit without sending a quit
  packet" (`node.rs:373`). Between the two locks of `disconnect()` the peer is
  disconnected by another task and connected again; the new connection is
  removed although the Quit was written on the old one.
* **LostDisconnect** (`DisconnectsAreReported`): "Update buckets on disconnect"
  (`node.rs:158`). A reader that receives Quit aborts itself in `disconnect()`;
  if the listeners' lock is taken it is cancelled before `on_disconnect`.
* **ConcurrentPackets** (`HandledSerially`): "packets from the same node will be
  handled serially" (`node.rs:257`). The aborted reader is still in
  `on_packet()` when the reader of the peer's next connection is in it too.

## 4. Fairness

`FairSpec` of Handshake assumes weak fairness of each step of each task: the
executor polls every task that is ready, mutexes are released after finite work,
and the ping loop runs for ever every 100 s. Timers of `on_connection()` and of
pings fire. Nothing is assumed of `Dial` (nobody has to dial), of dropping a
lookup, of its answer, or of `Cancel` (an abort may come late). A ping's answer
and its timer are one fair choice: one of the two happens, not a particular one.

`FairSpec` of Stream assumes that polls go on once started, that a woken task is
polled, and that the read half is read until the connection is given up, which
is what the handshake's reads and the reader's loop do. Starting a write, the
change of task and dropping a write are not assumed.

`FairSpec` of Frames assumes that the reader goes on and that every call does;
nothing of dropping. Weak fairness is enough for the pool's lock, because each call
takes it once.

`FairSpec` of Events assumes no more than that the system does not stop while some
task, reader, peer or timer can go on. Each step of that module brings one of
finitely many requests, answers or listeners forward for good, so that none can
be overtaken for ever. `FairSpec` of Discovery is the same for the tasks of a
refresh; nothing is assumed of refreshes, nor of peers that join and quit. Both
stand for an executor that polls what is ready, for handshakes that end
(`HandshakesEnd`) and for peers that answer while they are connected
(`ImplementsRequest`). `FairSpec` of DhtLookup assumes that `dht_lookup()` itself
and each of its lookups go on (`select_all` polls those that were woken); nothing
of joining, quitting and storing.

## 5. Proofs

TLAPS checks the following for all values of the constants that satisfy the
named assumptions (`TransportAssumption`, `PoolAssumption`,
`HandshakeAssumption`, `PeerIdAssumption`, `RoutingAssumption`,
`StreamAssumption`, `FramesAssumption`, `EventsAssumption`, `LookupAssumption`,
`DiscoveryAssumption`, `SegmentedArrayAssumption`): any nodes with ordered PeerIDs, any set of streams, any
versions, any length of IDs and of bytes, any number of writes, of calls, of
requests, of numbers and of stale listeners, packets of any size, any finite network
and any number of lookups, of buckets and of refreshes at a time, vectors of any
length and groups of any size.

**HandshakeProofs.** `Invariance`: the inductive invariant `IndInv` holds.
From it `TypeCorrect`, `PoolIsSound`, `ReadersPooled`, `KeysAgree`,
`NeverTakenOver`, and the refinement `PoolsImplement`: an insertion is an `Open`
with an end that no pool holds (`PoolHoldsOpen`: those are open, and this one
was inserting) and that is not closed, a removal is a `Close`, and no other step
touches a pool or a closed end. None of the properties is inductive alone. That the node in
the pool is the one at the other end (`PoolSound`) rests on `PacketsNameSender`:
every packet on its way to an end was written by the other end's node, so the
key in InitRsa and the part in InitAes name it; which in turn needs
`StreamsStart` (an unused stream is empty, a stream in use has an owner at both
ends) and `BacklogQueued` (what a listener will accept is still queued). So
`PeerIsOther` and `PartIsOther` follow for every end that has read the packet,
and key agreement with them. `ReadersArePooled` needs both directions in the
induction: `PoolHoldsOpen` (an entry is an open end of that node and peer) and
`OpenIsPooled` (an open end is the entry of its node and peer), since `Remove`
closes whatever the entry is at that moment. `TasksOpened` says that a reader or
lookup that disconnects has had a connection, so that its node and peer are
known.

Of the packets, in the second part of the module. What a handshake reads depends
on the other end's history, so none of the three properties is inductive: `PacketInv` describes each
channel by the phases of both ends. `Ordered`: what is on its way to an end that has
not given up is the packets of the rounds that follow those it has read, in order, a
Quit apart; and as many as the other end has written, while that one has written
nothing but rounds. `NoncesReturned`: an InitAes on its way to an end has the nonce
that this end drew. `EhloFollows`: an Ehlo is written only by an end that has its
peer's key part. The step `Proceed` shifts both sides of these equations by one;
`Fail` and `Abandon` take their end out of them. Together with `IndInv`, which says
whose packets they are: a packet is never of another round than the one awaited nor
its nonce wrong, so that `Verdict` has no error to name (`NobodyIsBlamed`, for any
mixture of versions); an end in a pool has read four rounds, and there is no fifth
(`RoundsAreRead`: nothing of the handshake is left for a reader); and whoever has read its Ehlo knows that the other end has
its key (`BothComplete`).

Who waits for whom, in the third part. While both ends are in their rounds `Ordered`
counts what is on its way in both directions; if both waited with nothing to read,
each would have written only what the other has read, although each has written one
packet more than it has read. It says nothing of an other end that is past its
rounds, so `LeftInv` adds it: an end that failed has left a Quit that is still there,
and one whose connection is in use or closed has left the rest of its four packets.
So an end that waits without a packet on its way has an other end that was not
accepted yet, was dropped, or has a packet to read (`NobodyIsStuck`). This is the
safety half of `HandshakesEnd`, and holds with any delays.

**RoutingProofs.** The lemmas reduce buckets to digits: what `Xor` does to two
digits (`XorAlgebra`), that two different IDs have a first difference
(`FirstDifference`, through the least element of a set of levels), that the mask
is exactly the levels up to its own whatever the size of a byte
(`MaskIsPrefix`), and that matching target under mask is being in the bucket
(`MatchIsBucket`). From them `MaskIsExact`, `GenerationIsRight`,
`BucketsAreOrdered`, `DistancesCompare`, `AnswersAreRight` and `TypeCorrect`.
With `Levels = 128` and `PerByte = 4` these are statements about the code's own
sizes.

**StreamProofs.** `IndInv` adds to the types: a half holds a lock exactly at the
places where its poll says so (`LocksHeld`), the future that acquired a lock is
gone (`FuturesUsed`), `wrote` tells the two sections of `poll_write()` apart
(`WroteBetween`), past the first section of `poll_read()` its own task is
registered or the future of the waker's lock will wake it (`WakerCurrent`), and
the reader sleeps only beside a buffer that is empty, locked, or of a write that
has yet to wake it (`SleepsSafely`), which is `NoLostWakeup` made inductive.
All theorems hold with dropped writes. `DeliversInOrder` puts `NothingIsLost`
(while no write was cut) and `NothingIsRepeated` (always) together.
`StreamIsChannel` is the safety part of
`ImplementsChannel`: the number of the buffer is that of the bytes written so
far, or one more from the call until `wrote` is set, so that each extension of
the buffer is the abstract `Send`, a write dropped before it the abstract
`GiveUp`, and one dropped after it the abstract `Break`.

**FramesProofs.** Unless a call was torn, `IndInv` says that the stream is one
chain of units: each follows the one before it, the first follows the last that the
reader has taken, and the last is where the call that holds the lock has come to
(`ReaderInStep`, `NothingSkipped`, `WrittenSoFar`, with the numbers of frames bounded
by the last one, `NumbersBounded`). Every write extends the chain at one end and
every read takes it up at the other (`ChainExtended` and `ChainRead`), and `LockHeld` is why only one call extends it. `StaysInStep`
follows; so does `FramesAreChannel`, the safety part of `ImplementsChannel`: what
comes out of the chain when a body is complete is the next number. Torn frames are
in the theorems, as the abstract `Break`; after it nothing is claimed but types.

**DiscoveryProofs.** A refresh counts the peers of a bucket three times: when it
looks at it, when the task subtracts, and when it counts down. `RoomWhenCounting`
carries the room that the first has found to the second, less `strangers`: a peer
that enters the bucket is one more of them, for a task that has been spawned and does
not dial yet has not connected it (`RoomLost`). This gives `UnderflowNeedsTwo`, by
the sizes of the bucket at both moments. `NotOverfilled` carries the second to the
third in the same way: a task that dials counts down what it connects (`OwnCount`).
It is stated of counts that have not overflowed, so the induction also needs that one
that has never looks like one that has not: a task dials no peer twice
(`DialingTried`), so that what has wrapped around counts down by no more than the
number of peers (`Wrapped`), and `DiscoveryAssumption` has `Wrap > 2 * |Peers|`, which is
2^64 in the code. Neither theorem has a hypothesis on the number of refreshes or on
the moves of peers. `LookedAt` is
`RefreshCovers` of the buckets that the loop has passed (`AllCovered`). For
`NothingOverlooked` the invariant says of every peer connected from the beginning
that the task has yet to ask it, is asking it, or that all it knows of the bucket is
connected, a candidate, or being dialled (`Offered`), and that what is no candidate
any more was reached or cannot be (`TriedKept`). `NoneOverlooked` has a hypothesis,
`AnswersWhole`: no bucket has more peers than one answer may hold. The property is
about answers that are not cut short, and the run's constants satisfy the same.

**EventsProofs.** What `event()` owes a listener depends on where the loop is, so
`EveryEvent` is restated of each request (`Caught`) and carried together with: a
request that has registered is listed, none is listed twice or too early
(`ListedOnce`), the answer that is being served is the last of `events` and all
who are listed registered before it (`Serving`), and nothing is sent to a
listener that does not exist (`NothingEarly`). The loop walks down, so that the
removal of the item at `index` moves only items that have been served: that is
`Kept`, the lemma about `RemoveAt`, and the heart of the case `Serve` in
`Catching`. From the invariant `NoEventIsLost`, `NobodyIsForgotten` and
`TypeCorrect`. `HearsItsAnswer` follows from `AnswersFollow` (what is asked,
answered or given to `event()` was sent) and `Heard`: a query that registers has
not been sent. None of this needs numbers to be distinct. `RequestsImplemented`, the
safety part of `ImplementsRequest`, does: what is on its way or in a channel bears
the number and the peer of its request (`Genuine`), and two requests have two
numbers (`NumbersDiffer`), because the counter has not come back to a number that
it gave (`NotGoneRound`). So it has the hypothesis that there are finitely many
requests and no more than `Numbers`, which is 2^32 in the code; the run's constants
satisfy it.

**DhtLookupProofs.** `IndInv`: exactly those who have a lookup were queried, and
they are providers no more (`QueriedOnce`, from which `AskedOnce`); who answered
with peers and is over has had these peers made providers or queried
(`FollowedUp`); `dht_lookup()` returns when nothing runs, and without
`should_complete` only when there are no providers (`Returned`). `AsksAll` follows:
no providers are left, so everybody named was queried. `Connections` accounts for
every connection of a peer that has not moved: we had it, or a lookup that is not
over opened it; from it `PoolIsRestored`. `Outcomes` says when a lookup has a
result, and that only peers answer. That at most `Alpha` lookups run
(`TypeCorrect`) is the guard of `Start`, with the lemmas `Fewer` and `OneMore`
on cardinalities. `NoneIsTrue` (`NoneMeansAbsent`) adds `Findings`: if nobody has
moved, a lookup that failed was of a peer that cannot be connected to, and one that
was answered without the value was answered by a peer that still has none. Who is
within reach is defined by recursion (`Within`); `WithinUnfolds` gives the function
that solves the recursion, the ends of chains of answers, and `WithinStays` shows,
by the first round that would leave it, that no one is outside a set that contains
the pool and all that its members answer, such as the set of those queried.

**SegmentedArrayProofs.** The inductive invariant is `RoundsCovered`
(`RoundsStayCovered`), with types:
array `g` of a round has the segments from `(g - 1) * N + 1` to `g * N` of the round
before, or a hash took its place; `GroupCount` and `GroupBounds` are the arithmetic
of the last, shorter group. `SizesStayBounded` follows at once. `Hashes` and `Items`
are recursive, over rounds that change, and no induction over them is available: so
`HashExists` and `ItemsExist` show that the recursion has a solution (there would be
a least number of rounds for which it has none), `HashesUnfold` and `ItemsUnfold`
give its equation, and what is said of all rounds is proved by the first round that
would contradict it. For `HashStays` that is `HashesStay`: a segment has the same
hash after it was replaced by it, and then so has every segment of the next round.
For `OrderStays` the segments of a round have the items of consecutive
intervals of the vector (`Divides`): singletons in the first round (`FirstDivided`),
and unions of neighbouring ones in the next (`NextDivided`, with `FlattenFits` for
the concatenation and its own recursion in `FlattenUnfolds`); a removed segment has
none of the items of its interval. For
`EveryRoundShrinks` (`RoundsShrink`, with `N > 1`) the lemmas on `GroupCount` are
enough.

Only model-checked are all liveness properties (`HandshakesEnd`, `HalfOpenReaped`,
`WritesReturn`, `SendsReturn`, both `EndsUnlessStranded`, and the
fairness parts of `ImplementsChannel` and `ImplementsRequest`), which are out of the
prover's reach, as is ENABLED, and `ArmsAgree` and `RequestsAgree`, which use
Bitwise. All other invariants and action properties of the passing runs are theorems,
with the hypotheses named above where there are any.

## 6. What is not modelled

* An InitAes on a connection that is open. `packets.rs:60` says that it "can also be
  sent at any time to reset the AES encryption", but no code sends one after the
  handshake, and `on_packet()` has no arm for it: the reader would panic at the
  `todo!()` of `node.rs:384`. So `RoundsAreRead` is a statement about the packets
  of the handshake, not about what a reader may be sent.
* FindPeer and StoreDhtValue: no code sends them. FindPeer answers like
  FindDhtValue without a value; StoreDhtValue is a TODO that notifies listeners.
* The values of the DHT and the limit on their number: a holder has some value.
  `dht_lookup()` does not look into the node's own store, so neither does the
  model.
* The node's own address in `PeerInfo`, and peers known under two addresses.
* `set_ping()`, whose duration nothing reads, and dropping the node itself (the
  loops that upgrade a weak reference end or panic then).
* Accounts, snapshots, signatures and hashing, which are data types without
  behaviour over time; cryptographic strength; malformed input.
* Commands and logging: parsing of a command line, and printing. The commands
  call operations that are modelled (`refresh_buckets`, a ping, `dht_lookup`).

## 7. Plan

In this order, the most important behaviour first; and all of it is done.

1. Transport, ConnectionPool and Handshake: runs, violations, proof of the pool.
2. PeerId and Routing: runs and proofs.
3. Stream: runs and proofs, with dropped writes.
4. Events and requests, with the abstract Request: run and proofs.
5. Discovery.
6. DhtLookup: run and proofs.
7. Channel, implemented by Stream and by Frames; Pool, implemented by Handshake;
   proofs of the refinements by Stream and Handshake.
8. SegmentedArray against the vector it is made from.
9. Moving peers in DhtLookup and Discovery, dropped calls in Frames and Stream.
10. Proofs of `InStep` and of the refinement by Frames, and of the invariants of
    Discovery.
11. Proofs of `NoFalseBlame`, `RoundsAreRead` and `CompletedByBoth`, whose
    invariant describes each channel by the phases of both ends.
12. The safety part of `ImplementsRequest`, for as many numbers as requests.
13. `NoneMeansAbsent`, with the recursion of `Within` unfolded.
14. SegmentedArray as rounds, without RECURSIVE operators, and proofs of its
    invariants.
15. `NobodyWaitsInVain`, the safety half of `HandshakesEnd`, and its proof.
16. Overlapping refreshes, with proofs for any number of them; the arms of
    `bucket()` and `generate_in_bucket()` byte by byte.
