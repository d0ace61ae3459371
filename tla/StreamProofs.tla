---------------------------- MODULE StreamProofs ----------------------------
(***************************************************************************)
(* Module Stream delivers in order and loses no wake-up, for any number of *)
(* writes.                                                                 *)
(***************************************************************************)
EXTENDS Stream, SequenceTheorems, TLAPS

(* A lock is held exactly inside the poll section that took it.            *)
LocksHeld ==
    \A h \in Halves :
        /\ holder["data"] = h <=> pc[h] = "dataHeld"
        /\ holder["waker"] = h <=> pc[h] = "wakerHeld"

(* The future that acquired a lock is gone.                                *)
FuturesUsed ==
    /\ pc["reader"] = "dataHeld" => "data" \notin fut["reader"]
    /\ pc["reader"] = "wakerHeld" => "waker" \notin fut["reader"]

(* `wrote` tells the two sections of poll_write() apart.                   *)
WroteBetween ==
    /\ pc["writer"] \in {"data", "dataHeld"} => ~ wrote
    /\ pc["writer"] \in {"waker", "wakerHeld"} => wrote

(* Past the first section of poll_read() the waker is that of the polling  *)
(* task, or a future for its lock will wake it.                            *)
WakerCurrent ==
    pc["reader"] \in {"data", "dataHeld", "pending"} =>
        IF "waker" \in fut["reader"]
        THEN "reader" \in woken \/ holder["waker"] = "writer"
        ELSE waker = reader

(* A read half that sleeps has found the buffer locked, or empty and not   *)
(* written to since by a write that is over.                               *)
SleepsSafely ==
    pc["reader"] = "pending" /\ "reader" \notin woken =>
        IF "data" \in fut["reader"]
        THEN holder["data"] = "writer"
        ELSE data = <<>> \/ wrote \/ ("waker" \in fut["reader"] /\ holder["waker"] = "writer")

IndInv == TypeOK /\ LocksHeld /\ FuturesUsed /\ WroteBetween /\ WakerCurrent /\ SleepsSafely

(* Concatenation of bytes is associative.                                  *)
LEMMA ConcatTwice ==
    ASSUME NEW g \in Seq(Nat), NEW s \in Seq(Nat), NEW t \in Seq(Nat)
    PROVE  g \o s \in Seq(Nat) /\ (g \o s) \o t = g \o (s \o t)
  <1>1. (g \o s) \o t = g \o (s \o t)
    BY SMTT(60)
  <1> QED  BY <1>1

(* Taking a prefix of the buffer moves it to what was read ...             *)
LEMMA TakeKeepsAll ==
    ASSUME NEW g \in Seq(Nat), NEW d \in Seq(Nat), NEW n \in 1 .. Len(d)
    PROVE  /\ SubSeq(d, 1, n) \in Seq(Nat)
           /\ SubSeq(d, n + 1, Len(d)) \in Seq(Nat)
           /\ g \o SubSeq(d, 1, n) \in Seq(Nat)
           /\ (g \o SubSeq(d, 1, n)) \o SubSeq(d, n + 1, Len(d)) = g \o d
  <1> DEFINE s == SubSeq(d, 1, n)
             t == SubSeq(d, n + 1, Len(d))
  <1>1. s \in Seq(Nat) /\ t \in Seq(Nat)
    OBVIOUS
  <1>2. s \o t = SubSeq(d, 1, Len(d))
    BY ConcatAdjacentSubSeq
  <1>3. SubSeq(d, 1, Len(d)) = d
    BY SubSeqFull
  <1>4. g \o s \in Seq(Nat) /\ (g \o s) \o t = g \o (s \o t)
    BY <1>1, ConcatTwice
  <1> QED  BY <1>1, <1>2, <1>3, <1>4, Zenon

(* ... and writing appends to both.                                        *)
LEMMA ExtendAppends ==
    ASSUME NEW g \in Seq(Nat), NEW d \in Seq(Nat), NEW b \in Nat
    PROVE  g \o Append(d, b) = Append(g \o d, b)
  <1>1. Append(d, b) = d \o <<b>> /\ <<b>> \in Seq(Nat)
    BY AppendIsConcat
  <1>2. Append(g \o d, b) = (g \o d) \o <<b>>
    BY AppendIsConcat, ConcatProperties
  <1> QED  BY <1>1, <1>2, ConcatAssociative

(* Every step keeps the types.                                             *)
LEMMA TypeStep == TypeOK /\ [Next]_vars => TypeOK'
  <1> SUFFICES ASSUME TypeOK, [Next]_vars PROVE TypeOK'
    OBVIOUS
  <1> USE StreamAssumption DEF TypeOK, Halves, Locks, Tasks, Places, At, Goto
  <1>1. CASE ReadStart
    BY <1>1 DEF ReadStart
  <1>2. CASE ReadPoll
    BY <1>2 DEF ReadPoll, Poll
  <1>3. CASE WritePoll
    BY <1>3 DEF WritePoll, Poll, FirstStep
  <1>4. ASSUME NEW h \in Halves, NEW l \in Locks, NEW q \in Places, Goto(h, q),
               Locked(h, l) \/ Contended(h, l)
        PROVE  TypeOK'
    <2>1. CASE Locked(h, l)
      BY <1>4, <2>1 DEF Locked
    <2>2. CASE Contended(h, l)
      BY <1>4, <2>2 DEF Contended
    <2> QED  BY <1>4, <2>1, <2>2
  <1>5. CASE ReadWaker \/ ReadData \/ WriteWaker \/ WriteData
    <2> HIDE DEF TypeOK, Goto
    <2>1. CASE ReadWaker
      BY <1>4, <2>1 DEF ReadWaker
    <2>2. CASE ReadData
      BY <1>4, <2>2 DEF ReadData
    <2>3. CASE WriteWaker
      BY <1>4, <2>3 DEF WriteWaker
    <2>4. CASE WriteData
      BY <1>4, <2>4 DEF WriteData
    <2> QED  BY <1>5, <2>1, <2>2, <2>3, <2>4
  <1>6. CASE ReadSetWaker \/ ReadEmpty
    <2>1. woken' \in SUBSET Halves
      BY <1>6 DEF ReadSetWaker, ReadEmpty, Notified
    <2>2. CASE ReadSetWaker
      BY <2>1, <2>2 DEF ReadSetWaker, Release
    <2>3. CASE ReadEmpty
      BY <2>1, <2>3 DEF ReadEmpty, Release
    <2> QED  BY <1>6, <2>2, <2>3
  <1>7. ASSUME NEW n \in 1 .. Len(data), ReadTake(n) PROVE TypeOK'
    <2>1. got' \in Seq(Nat) /\ data' \in Seq(Nat)
      BY <1>7, TakeKeepsAll DEF ReadTake
    <2> QED  BY <1>7, <2>1 DEF ReadTake, Release, Notified
  <1>8. CASE HandOver \/ DropWrite
    BY <1>8 DEF HandOver, DropWrite
  <1>9. CASE WriteStart
    BY <1>9 DEF WriteStart, FirstStep
  <1>10. CASE WriteExtend
    <2>1. data' \in Seq(Nat)
      BY <1>10 DEF WriteExtend
    <2> QED  BY <1>10, <2>1 DEF WriteExtend, Release, Notified
  <1>11. CASE WriteWake
    <2>1. acked' \in Seq(Nat)
      BY <1>11 DEF WriteWake
    <2>2. woken' \in SUBSET Halves
      BY <1>11 DEF WriteWake, Notified
    <2> QED  BY <1>11, <2>1, <2>2 DEF WriteWake, Release
  <1>12. CASE UNCHANGED vars
    BY <1>12 DEF vars
  <1> QED  BY <1>1, <1>2, <1>3, <1>5, <1>6, <1>7, <1>8, <1>9, <1>10, <1>11, <1>12
           DEF Next, ReadStep, WriteStep

(* A stream that is cut stays so.                                          *)
LEMMA CutStays == cut /\ [Next]_vars => cut'
  <1> SUFFICES ASSUME cut, [Next]_vars PROVE cut'
    OBVIOUS
  <1>1. CASE DropWrite
    BY <1>1 DEF DropWrite
  <1>2. CASE ~ DropWrite
    BY <1>2 DEF Next, vars, ReadStep, WriteStep, ReadStart, ReadPoll, ReadWaker, ReadSetWaker,
                ReadData, ReadEmpty, ReadTake, WritePoll, WriteData, WriteExtend, WriteWaker,
                WriteWake, HandOver, WriteStart, Poll, Locked, Contended
  <1> QED  BY <1>1, <1>2

(* IndInv is preserved by every step of every poll.                        *)
THEOREM Invariance == Spec => []IndInv
  <1>1. Init => IndInv
    <2> SUFFICES ASSUME Init PROVE IndInv
      OBVIOUS
    <2>1. TypeOK
      <3>1. data \in Seq(Nat) /\ acked \in Seq(Nat) /\ got \in Seq(Nat) /\ buf \in 0 .. MaxWrites
        BY StreamAssumption DEF Init
      <3>2. /\ holder \in [Locks -> Halves \cup {"none"}] /\ fut \in [Halves -> SUBSET Locks]
            /\ pc \in [Halves -> Places] /\ woken \in SUBSET Halves
        BY DEF Init, Places
      <3>3. waker \in Tasks \cup {"none"} /\ reader \in Tasks /\ {wrote, cut} \subseteq BOOLEAN
        BY DEF Init, Tasks
      <3> QED  BY <3>1, <3>2, <3>3 DEF TypeOK
    <2>2. LocksHeld /\ FuturesUsed /\ WroteBetween /\ WakerCurrent /\ SleepsSafely
      BY DEF Init, LocksHeld, FuturesUsed, WroteBetween, WakerCurrent, SleepsSafely, Halves, Locks
    <2> QED  BY <2>1, <2>2 DEF IndInv
  <1>2. IndInv /\ [Next]_vars => IndInv'
    <2> SUFFICES ASSUME IndInv, [Next]_vars
                 PROVE  (LocksHeld /\ FuturesUsed /\ WroteBetween /\ WakerCurrent /\ SleepsSafely)'
      BY TypeStep DEF IndInv
    <2> DEFINE Goal == (LocksHeld /\ FuturesUsed /\ WroteBetween /\ WakerCurrent /\ SleepsSafely)'
    <2>0. /\ pc \in [Halves -> Places] /\ fut \in [Halves -> SUBSET Locks]
          /\ holder \in [Locks -> Halves \cup {"none"}] /\ woken \in SUBSET Halves
      BY DEF IndInv, TypeOK
    <2> USE <2>0 DEF IndInv, LocksHeld, FuturesUsed, WroteBetween, WakerCurrent, SleepsSafely,
                Halves, Locks, Places, At, Goto
    <2>1. CASE ReadStart
      BY <2>1 DEF ReadStart
    <2>2. CASE ReadPoll
      BY <2>2 DEF ReadPoll, Poll
    <2>3. CASE ReadWaker /\ Locked("reader", "waker")
      BY <2>3 DEF ReadWaker, Locked, Contended
    <2>4. CASE ReadWaker /\ Contended("reader", "waker")
      BY <2>4 DEF ReadWaker, Locked, Contended
    <2>5. CASE ReadSetWaker
      <3>1. "reader" \in woken' <=> "reader" \in woken
        BY <2>5 DEF ReadSetWaker, Notified
      <3> QED  BY <2>5, <3>1 DEF ReadSetWaker, Release
    <2>6. CASE ReadData /\ Locked("reader", "data")
      BY <2>6 DEF ReadData, Locked, Contended
    <2>7. CASE ReadData /\ Contended("reader", "data")
      BY <2>7 DEF ReadData, Locked, Contended
    <2>8. CASE ReadEmpty
      <3>1. "reader" \in woken' <=> "reader" \in woken
        BY <2>8 DEF ReadEmpty, Notified
      <3> QED  BY <2>8, <3>1 DEF ReadEmpty, Release
    <2>9. ASSUME NEW n \in 1 .. Len(data), ReadTake(n) PROVE Goal
      BY <2>9 DEF ReadTake, Release, Notified
    <2>10. CASE HandOver
      BY <2>10 DEF HandOver
    <2>11. CASE WriteStart
      BY <2>11 DEF WriteStart, FirstStep
    <2>12. CASE WritePoll
      BY <2>12 DEF WritePoll, Poll, FirstStep
    <2>13. CASE WriteData
      BY <2>13 DEF WriteData, Locked, Contended
    <2>14. CASE WriteExtend
      BY <2>14 DEF WriteExtend, Release, Notified
    <2>15. CASE WriteWaker
      BY <2>15 DEF WriteWaker, Locked, Contended
    <2>16. CASE WriteWake
      BY <2>16 DEF WriteWake, Release, Notified
    <2>17. CASE DropWrite
      BY <2>17 DEF DropWrite
    <2>18. CASE UNCHANGED vars
      BY <2>18 DEF vars
    <2> QED  BY <2>1, <2>2, <2>3, <2>5, <2>6, <2>8, <2>9, <2>10, <2>11, <2>12, <2>13, <2>14,
                <2>15, <2>16, <2>17, <2>18, <2>4, <2>7
             DEF Next, ReadStep, WriteStep, ReadWaker, ReadData
  <1> QED  BY <1>1, <1>2, PTL DEF Spec

(* TypeOK, for every number of writes.                                     *)
THEOREM TypeCorrect == Spec => []TypeOK
  <1>1. IndInv => TypeOK
    BY DEF IndInv
  <1> QED  BY <1>1, Invariance, PTL

(* poll_read() and poll_write() cannot miss one another, whatever the      *)
(* interleaving, the change of the reading task and the writes dropped.    *)
THEOREM WakeupsAreKept == Spec => []NoLostWakeup
  <1>1. IndInv => NoLostWakeup
    BY DEF IndInv, SleepsSafely, NoLostWakeup, At, Locks
  <1> QED  BY <1>1, Invariance, PTL

(* The stream delivers exactly the bytes of the writes that returned Ok,   *)
(* once and in order, until a write is dropped that has written.           *)
LEMMA NothingIsLost == Spec => []Lossless
  <1> DEFINE Idle == pc["writer"] = "idle" => ~ wrote
             Inv == cut \/ (Idle /\ Lossless)
  <1>1. Init => Inv
    BY DEF Init, Lossless
  <1>2. IndInv /\ Inv /\ [Next]_vars => Inv'
    <2> SUFFICES ASSUME IndInv, Inv, [Next]_vars, ~ cut, ~ cut' PROVE (Idle /\ Lossless)'
      BY CutStays DEF IndInv, TypeOK
    <2>0. /\ data \in Seq(Nat) /\ got \in Seq(Nat) /\ acked \in Seq(Nat) /\ buf \in Nat
          /\ pc \in [Halves -> Places] /\ WroteBetween
      BY StreamAssumption DEF IndInv, TypeOK
    <2> USE DEF At, Goto, Halves, Places, Lossless, WroteBetween
    <2>1. ASSUME UNCHANGED <<data, wrote, buf, acked, got>>,
                 pc'["writer"] = "idle" => pc["writer"] = "idle"
          PROVE  (Idle /\ Lossless)'
      BY <2>1
    <2>2. CASE ReadStart \/ ReadPoll \/ ReadWaker \/ ReadSetWaker \/ ReadData \/ ReadEmpty
      <3>1. UNCHANGED <<data, wrote, buf, acked, got>>
        BY <2>2 DEF ReadStart, ReadPoll, ReadWaker, ReadSetWaker, ReadData, ReadEmpty,
                    Poll, Locked, Contended
      <3>2. pc'["writer"] = pc["writer"]
        BY <2>0, <2>2 DEF ReadStart, ReadPoll, ReadWaker, ReadSetWaker, ReadData, ReadEmpty, Poll
      <3> QED  BY <2>1, <3>1, <3>2
    <2>3. ASSUME NEW n \in 1 .. Len(data), ReadTake(n) PROVE (Idle /\ Lossless)'
      <3>1. got' \o data' = got \o data
        BY <2>0, <2>3, TakeKeepsAll DEF ReadTake
      <3> QED  BY <2>0, <2>3, <3>1 DEF ReadTake
    <2>4. CASE HandOver \/ DropWrite
      <3>1. UNCHANGED <<data, wrote, buf, acked, got>> /\ (pc' = pc \/ ~ wrote)
        BY <2>4 DEF HandOver, DropWrite
      <3> QED  BY <3>1
    <2>5. CASE WriteStart
      BY <2>0, <2>5 DEF WriteStart, FirstStep
    <2>6. CASE WritePoll \/ WriteData \/ WriteWaker
      <3>1. UNCHANGED <<data, wrote, buf, acked, got>>
        BY <2>6 DEF WritePoll, WriteData, WriteWaker, Poll, Locked, Contended
      <3>2. pc'["writer"] # "idle"
        BY <2>0, <2>6 DEF WritePoll, WriteData, WriteWaker, Poll, FirstStep
      <3> QED  BY <2>1, <3>1, <3>2
    <2>7. CASE WriteExtend
      <3>1. ~ wrote /\ got' \o data' = Append(got \o data, buf)
        BY <2>0, <2>7, ExtendAppends DEF WriteExtend
      <3> QED  BY <2>0, <2>7, <3>1 DEF WriteExtend
    <2>8. CASE WriteWake
      BY <2>0, <2>8 DEF WriteWake
    <2>9. CASE UNCHANGED vars
      BY <2>9 DEF vars
    <2> QED  BY <2>2, <2>3, <2>4, <2>5, <2>6, <2>7, <2>8, <2>9 DEF Next, ReadStep, WriteStep
  <1>3. Inv => Lossless
    BY DEF Lossless
  <1> QED  BY <1>1, <1>2, <1>3, Invariance, PTL DEF Spec

(* A write that has yet to write is later than all that were written ...   *)
Fresh ==
    \A i \in DOMAIN (got \o data) :
        /\ (got \o data)[i] <= buf
        /\ pc["writer"] # "idle" /\ ~ wrote => (got \o data)[i] < buf

(* ... so that nothing is written twice, whatever writes are dropped.      *)
LEMMA NothingIsRepeated == Spec => []NeverRepeated
  <1> DEFINE Inv == Fresh /\ NeverRepeated
  <1>1. Init => Inv
    BY DEF Init, Fresh, NeverRepeated
  <1>2. IndInv /\ Inv /\ [Next]_vars => Inv'
    <2> SUFFICES ASSUME IndInv, Inv, [Next]_vars PROVE Inv'
      OBVIOUS
    <2>0. /\ data \in Seq(Nat) /\ got \in Seq(Nat) /\ buf \in Nat
          /\ got \o data \in Seq(Nat)
          /\ pc \in [Halves -> Places] /\ WroteBetween
      BY StreamAssumption DEF IndInv, TypeOK
    <2> USE DEF At, Goto, Halves, Places, WroteBetween
    <2>1. ASSUME got' \o data' = got \o data, buf' = buf,
                 pc'["writer"] # "idle" /\ ~ wrote' => pc["writer"] # "idle" /\ ~ wrote
          PROVE  Inv'
      BY <2>1 DEF Fresh, NeverRepeated
    <2>2. CASE ReadStart \/ ReadPoll \/ ReadWaker \/ ReadSetWaker \/ ReadData \/ ReadEmpty
      <3>1. UNCHANGED <<data, wrote, buf, got>>
        BY <2>2 DEF ReadStart, ReadPoll, ReadWaker, ReadSetWaker, ReadData, ReadEmpty,
                    Poll, Locked, Contended
      <3>2. pc'["writer"] = pc["writer"]
        BY <2>0, <2>2 DEF ReadStart, ReadPoll, ReadWaker, ReadSetWaker, ReadData, ReadEmpty, Poll
      <3> QED  BY <2>1, <3>1, <3>2
    <2>3. ASSUME NEW n \in 1 .. Len(data), ReadTake(n) PROVE Inv'
      <3>1. got' \o data' = got \o data
        BY <2>0, <2>3, TakeKeepsAll DEF ReadTake
      <3>2. buf' = buf /\ wrote' = wrote /\ pc'["writer"] = pc["writer"]
        BY <2>0, <2>3 DEF ReadTake
      <3> QED  BY <2>1, <3>1, <3>2
    <2>4. CASE HandOver \/ DropWrite
      <3>1. UNCHANGED <<data, wrote, buf, got>> /\ (pc' = pc \/ pc'["writer"] = "idle")
        BY <2>0, <2>4 DEF HandOver, DropWrite
      <3> QED  BY <2>1, <3>1
    <2>5. CASE WriteStart
      <3>1. UNCHANGED <<data, got>> /\ buf' = buf + 1
        BY <2>5 DEF WriteStart
      <3> QED  BY <2>0, <3>1 DEF Fresh, NeverRepeated
    <2>6. CASE WritePoll \/ WriteData \/ WriteWaker
      <3>1. UNCHANGED <<data, wrote, buf, got>> /\ pc["writer"] # "idle"
        BY <2>6 DEF WritePoll, WriteData, WriteWaker, Poll, Locked, Contended
      <3> QED  BY <2>1, <3>1
    <2>7. CASE WriteExtend
      <3>1. /\ ~ wrote /\ wrote' /\ buf' = buf /\ pc["writer"] = "dataHeld"
            /\ got' \o data' = Append(got \o data, buf)
        BY <2>0, <2>7, ExtendAppends DEF WriteExtend
      <3>2. \A i \in DOMAIN (got \o data) : (got \o data)[i] < buf
        BY <3>1 DEF Fresh
      <3> DEFINE old == got \o data
      <3>3. /\ DOMAIN Append(old, buf) = 1 .. Len(old) + 1 /\ DOMAIN old = 1 .. Len(old)
            /\ Append(old, buf)[Len(old) + 1] = buf
            /\ \A i \in 1 .. Len(old) : Append(old, buf)[i] = old[i]
        BY <2>0
      <3>4. /\ old \in Seq(Nat) /\ \A i \in 1 .. Len(old) : old[i] \in Nat /\ old[i] < buf
            /\ Len(old) \in Nat
            /\ \A i, j \in 1 .. Len(old) : i < j => old[i] < old[j]
        <4>1. old \in Seq(Nat) /\ Len(old) \in Nat /\ \A i \in 1 .. Len(old) : old[i] \in Nat
          BY <2>0
        <4>2. \A i \in 1 .. Len(old) : old[i] < buf
          BY <3>2, <3>3, Zenon
        <4>3. \A i, j \in 1 .. Len(old) : i < j => old[i] < old[j]
          BY <3>3, Zenon DEF NeverRepeated
        <4> QED  BY <4>1, <4>2, <4>3, Zenon
      <3> HIDE DEF old
      <3>5. \A i, j \in DOMAIN Append(old, buf) :
                i < j => Append(old, buf)[i] < Append(old, buf)[j]
        <4> SUFFICES ASSUME NEW i \in 1 .. Len(old) + 1, NEW j \in 1 .. Len(old) + 1, i < j
                     PROVE  Append(old, buf)[i] < Append(old, buf)[j]
          BY <3>3
        <4>1. i \in 1 .. Len(old)
          BY <3>4
        <4>2. CASE j = Len(old) + 1
          BY <3>3, <3>4, <4>1, <4>2
        <4>3. CASE j \in 1 .. Len(old)
          BY <3>3, <3>4, <4>1, <4>3
        <4> QED  BY <3>4, <4>2, <4>3
      <3>6. \A i \in DOMAIN Append(old, buf) : Append(old, buf)[i] <= buf
        <4> SUFFICES ASSUME NEW i \in 1 .. Len(old) + 1 PROVE Append(old, buf)[i] <= buf
          BY <3>3
        <4>1. buf \in Nat
          BY <2>0
        <4>2. CASE i = Len(old) + 1
          BY <3>3, <4>1, <4>2
        <4>3. CASE i \in 1 .. Len(old)
          BY <3>3, <3>4, <4>1, <4>3
        <4> QED  BY <3>4, <4>2, <4>3
      <3> QED  BY <3>1, <3>5, <3>6 DEF Fresh, NeverRepeated, old
    <2>8. CASE WriteWake
      <3>1. UNCHANGED <<data, buf, got>> /\ pc'["writer"] = "idle"
        BY <2>0, <2>8 DEF WriteWake
      <3> QED  BY <2>1, <3>1
    <2>9. CASE UNCHANGED vars
      BY <2>1, <2>9 DEF vars
    <2> QED  BY <2>2, <2>3, <2>4, <2>5, <2>6, <2>7, <2>8, <2>9 DEF Next, ReadStep, WriteStep
  <1> QED  BY <1>1, <1>2, Invariance, PTL DEF Spec

(* Every buffer is written once and in the order of the calls, and none is *)
(* lost until a write is dropped that has written.                         *)
THEOREM DeliversInOrder == Spec => []InOrder
  BY NothingIsLost, NothingIsRepeated, PTL DEF InOrder

(* The stream is a channel: every step of the two polls sends the next     *)
(* buffer, receives what comes next, gives a buffer up, breaks the channel *)
(* or is not seen from outside.                                            *)
THEOREM StreamIsChannel == Spec => Bytes!Spec
  <1> DEFINE Idle == cut \/ (pc["writer"] = "idle" => ~ wrote)
  <1>1. Init => Idle /\ Bytes!Init
    BY DEF Init, Bytes!Init, Finished, At, Halves
  <1>2. IndInv /\ Idle /\ [Next]_vars => Idle' /\ [Bytes!Next]_(Bytes!vars)
    <2> SUFFICES ASSUME IndInv, Idle, [Next]_vars
                 PROVE  Idle' /\ [Bytes!Next]_(Bytes!vars)
      OBVIOUS
    <2>0. /\ data \in Seq(Nat) /\ got \in Seq(Nat) /\ buf \in Nat /\ cut \in BOOLEAN
          /\ pc \in [Halves -> Places] /\ WroteBetween
      BY StreamAssumption DEF IndInv, TypeOK
    <2> USE DEF At, Goto, Halves, Places, WroteBetween
    <2>1. CASE cut
      <3>1. cut'
        BY <2>1, CutStays
      <3> QED  BY <2>1, <3>1 DEF Bytes!vars
    <2>2. CASE ~ cut /\ cut'
      <3>1. Bytes!Break /\ ~ cut
        BY <2>2 DEF Bytes!Break
      <3> QED  BY <2>2, <3>1 DEF Bytes!Next
    <2>3. CASE ~ cut /\ ~ cut'
      <3> USE <2>3
      <3>1. ASSUME UNCHANGED <<data, got, wrote, buf>>,
                   pc'["writer"] = "idle" <=> pc["writer"] = "idle"
            PROVE  Idle' /\ [Bytes!Next]_(Bytes!vars)
        BY <3>1 DEF Bytes!vars, Finished
      <3>2. CASE ReadStart \/ ReadPoll \/ ReadWaker \/ ReadSetWaker \/ ReadData \/ ReadEmpty
        <4>1. UNCHANGED <<data, got, wrote, buf>>
          BY <3>2 DEF ReadStart, ReadPoll, ReadWaker, ReadSetWaker, ReadData, ReadEmpty,
                      Poll, Locked, Contended
        <4>2. pc'["writer"] = pc["writer"]
          BY <2>0, <3>2 DEF ReadStart, ReadPoll, ReadWaker, ReadSetWaker, ReadData, ReadEmpty, Poll
        <4> QED  BY <3>1, <4>1, <4>2
      <3>3. ASSUME NEW n \in 1 .. Len(data), ReadTake(n)
            PROVE  Idle' /\ [Bytes!Next]_(Bytes!vars)
        <4>1. /\ got' = got \o SubSeq(data, 1, n)
              /\ data' = SubSeq(data, n + 1, Len(data))
              /\ UNCHANGED <<wrote, buf>> /\ pc'["writer"] = pc["writer"]
          BY <2>0, <3>3 DEF ReadTake
        <4>2. Bytes!Receive(n)
          BY <4>1 DEF Bytes!Receive, Finished
        <4> QED  BY <4>1, <4>2 DEF Bytes!Next
      <3>4. CASE HandOver
        BY <3>1, <3>4 DEF HandOver
      <3>5. CASE WriteStart
        <4>1. /\ buf' = buf + 1 /\ UNCHANGED <<data, got, wrote>>
              /\ pc["writer"] = "idle" /\ pc'["writer"] # "idle" /\ ~ wrote
          BY <2>0, <3>5 DEF WriteStart, FirstStep
        <4> QED  BY <2>0, <4>1 DEF Bytes!vars, Finished
      <3>6. CASE WritePoll \/ WriteData \/ WriteWaker
        <4>1. UNCHANGED <<data, got, wrote, buf>> /\ pc["writer"] # "idle"
          BY <3>6 DEF WritePoll, WriteData, WriteWaker, Poll, Locked, Contended
        <4>2. pc'["writer"] # "idle"
          BY <2>0, <3>6 DEF WritePoll, WriteData, WriteWaker, Poll, FirstStep
        <4> QED  BY <3>1, <4>1, <4>2
      <3>7. CASE WriteExtend
        <4>1. /\ data' = Append(data, buf) /\ wrote' /\ UNCHANGED <<got, buf>>
              /\ pc["writer"] = "dataHeld" /\ ~ wrote
          BY <2>0, <3>7 DEF WriteExtend
        <4>2. Finished = buf - 1 /\ Finished' = buf
          BY <4>1 DEF Finished
        <4>3. Bytes!Send
          BY <2>0, <4>1, <4>2 DEF Bytes!Send
        <4>4. pc'["writer"] # "idle"
          BY <2>0, <3>7 DEF WriteExtend
        <4> QED  BY <4>3, <4>4 DEF Bytes!Next
      <3>8. CASE WriteWake
        <4>1. UNCHANGED <<data, got, buf>> /\ ~ wrote' /\ wrote
          BY <2>0, <3>8 DEF WriteWake
        <4>2. pc'["writer"] = "idle"
          BY <2>0, <3>8 DEF WriteWake
        <4> QED  BY <4>1, <4>2 DEF Bytes!vars, Finished
      <3>9. CASE DropWrite
        <4>1. /\ UNCHANGED <<data, got, buf, wrote>> /\ ~ wrote
              /\ pc["writer"] = "pending" /\ pc'["writer"] = "idle"
          BY <2>0, <3>9 DEF DropWrite
        <4>2. Finished = buf - 1 /\ Finished' = buf
          BY <4>1 DEF Finished
        <4>3. Bytes!GiveUp
          BY <2>0, <4>1, <4>2 DEF Bytes!GiveUp
        <4> QED  BY <4>1, <4>3 DEF Bytes!Next
      <3>10. CASE UNCHANGED vars
        BY <3>1, <3>10 DEF vars
      <3> QED  BY <3>2, <3>3, <3>4, <3>5, <3>6, <3>7, <3>8, <3>9, <3>10
               DEF Next, ReadStep, WriteStep
    <2> QED  BY <2>0, <2>1, <2>2, <2>3
  <1> QED  BY <1>1, <1>2, Invariance, PTL DEF Spec, Bytes!Spec
=============================================================================
