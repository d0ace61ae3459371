---------------------------- MODULE FramesProofs ----------------------------
(***************************************************************************)
(* Theorems about Frames, for any number of calls, dropped ones included,  *)
(* and packets of any size.                                                *)
(*                                                                         *)
(* The inductive invariant says that as long as no frame is torn the units *)
(* on the stream continue, one after the other, what the reader has read   *)
(* (NothingSkipped), up to where the call that holds the lock has come     *)
(* (WrittenSoFar).                                                         *)
(***************************************************************************)
EXTENDS Frames, TLAPS

Sending == {"length", "packet"}

(* Only the call that holds the lock writes (send_packet_unchecked).       *)
LockHeld ==
    /\ \A c \in Calls : at[c] \in Sending <=> lock = c
    /\ lock # NoCall => frame.size \in Sizes

(* Unit v comes next after unit u, the last of a packet or not.            *)
Continues(u, v) ==
    \/ u[2] < u[3] /\ v = <<u[1], u[2] + 1, u[3]>>
    \/ u[2] = u[3] /\ v[1] = u[1] + 1 /\ v[2] = 0

(* The last unit that the reader has taken; of the packets that it has     *)
(* handled only the number matters.                                        *)
LastRead ==
    IF need = 0 THEN <<Len(handled), 1, 1>>
    ELSE <<Len(handled) + 1, Len(packet), need>>

(* The last unit of what follows unit r, and that it does follow.          *)
LastOf(r, units) == IF units = <<>> THEN r ELSE units[Len(units)]

Chain(r, units) ==
    /\ units # <<>> => Continues(r, units[1])
    /\ \A i \in 1 .. Len(units) - 1 : Continues(units[i], units[i + 1])

LastWritten == LastOf(LastRead, stream)

ReaderInStep ==
    /\ ~ panicked
    /\ \A i \in 1 .. Len(handled) : handled[i] = i
    /\ Len(packet) <= need
    /\ \A i \in 1 .. Len(packet) : packet[i] = <<Len(handled) + 1, i, need>>

NothingSkipped == Chain(LastRead, stream)

NumbersBounded ==
    /\ LastRead[1] <= frame.n
    /\ \A i \in 1 .. Len(stream) : stream[i][1] <= frame.n

(* A length has been written and its packet has not.                       *)
MidFrame == lock # NoCall /\ (at[lock] = "length" <=> wrote)

WrittenSoFar ==
    /\ wrote => lock # NoCall
    /\ LastWritten[1] = frame.n
    /\ MidFrame => LastWritten[2] = 0 /\ LastWritten[3] = frame.size
    /\ ~ MidFrame => LastWritten[2] = LastWritten[3]

Whole == ReaderInStep /\ NothingSkipped /\ NumbersBounded /\ WrittenSoFar

IndInv ==
    /\ TypeOK
    /\ LockHeld
    /\ need = 0 => packet = <<>>
    /\ Torn \/ Whole
-----------------------------------------------------------------------------
Units == Nat \X Nat \X Sizes

LEMMA BodyUnits ==
    ASSUME NEW f \in [n : Nat, size : Sizes]
    PROVE  /\ Body(f) \in Seq(Units)
           /\ Len(Body(f)) = f.size /\ f.size \in Nat \ {0}
           /\ \A i \in 1 .. f.size : Body(f)[i] = <<f.n, i, f.size>>
<1>1. f.size \in Nat \ {0} /\ f.n \in Nat
  BY FramesAssumption
<1>2. Body(f) \in [1 .. f.size -> Units]
  BY <1>1 DEF Body, Units
<1> QED
  BY <1>1, <1>2 DEF Body

(* What is written after a chain continues it.                             *)
LEMMA ChainExtended ==
    ASSUME NEW s \in Seq(Units), NEW t \in Seq(Units), t # <<>>, NEW r,
           Chain(r, s), Continues(LastOf(r, s), t[1]),
           \A i \in 1 .. Len(t) - 1 : Continues(t[i], t[i + 1])
    PROVE  /\ s \o t \in Seq(Units)
           /\ Chain(r, s \o t)
           /\ LastOf(r, s \o t) = t[Len(t)]
<1> DEFINE w == s \o t
<1>1. /\ w \in Seq(Units) /\ Len(w) = Len(s) + Len(t)
      /\ \A i \in 1 .. Len(s) : w[i] = s[i]
      /\ \A i \in 1 .. Len(t) : w[Len(s) + i] = t[i]
      /\ Len(s) \in Nat /\ Len(t) \in Nat \ {0}
  OBVIOUS
<1> HIDE DEF w
<1>2. w # <<>> /\ w[Len(w)] = t[Len(t)]
  BY <1>1
<1>3. Continues(r, w[1])
  <2>1. CASE s = <<>>
    <3>1. Len(s) = 0 /\ 1 \in 1 .. Len(t) /\ LastOf(r, s) = r
      BY <1>1, <2>1 DEF LastOf
    <3>2. w[Len(s) + 1] = t[1]
      BY <1>1, <3>1
    <3> QED
      BY <3>1, <3>2
  <2>2. CASE s # <<>>
    <3>1. 1 \in 1 .. Len(s)
      BY <1>1, <2>2
    <3>2. w[1] = s[1]
      BY <1>1, <3>1
    <3> QED
      BY <2>2, <3>2 DEF Chain
  <2> QED
    BY <2>1, <2>2
<1>4. ASSUME NEW i \in 1 .. Len(w) - 1
      PROVE  Continues(w[i], w[i + 1])
  <2>1. CASE i < Len(s)
    <3>1. i \in 1 .. Len(s) /\ i + 1 \in 1 .. Len(s) /\ i \in 1 .. Len(s) - 1
      BY <1>1, <2>1
    <3>2. w[i] = s[i] /\ w[i + 1] = s[i + 1]
      BY <1>1, <3>1
    <3> QED
      BY <3>1, <3>2 DEF Chain
  <2>2. CASE i = Len(s)
    <3>1. w[i] = s[Len(s)] /\ w[i + 1] = t[1] /\ s # <<>>
      <4>1. i \in 1 .. Len(s) /\ 1 \in 1 .. Len(t) /\ s # <<>>
        BY <1>1, <2>2
      <4>2. w[i] = s[i] /\ w[Len(s) + 1] = t[1]
        BY <1>1, <4>1
      <4> QED
        BY <2>2, <4>1, <4>2
    <3> QED
      BY <3>1 DEF LastOf
  <2>3. CASE i > Len(s)
    <3>1. PICK j \in 1 .. Len(t) - 1 : i = Len(s) + j
      <4>1. i - Len(s) \in 1 .. Len(t) - 1 /\ i = Len(s) + (i - Len(s))
        BY <1>1, <2>3
      <4> QED
        BY <4>1
    <3>2. j \in 1 .. Len(t) /\ j + 1 \in 1 .. Len(t) /\ i + 1 = Len(s) + (j + 1)
      BY <1>1, <3>1
    <3>3. w[i] = t[j] /\ w[i + 1] = t[j + 1]
      BY <1>1, <3>1, <3>2
    <3> QED
      BY <3>1, <3>3
  <2> QED
    BY <1>1, <2>1, <2>2, <2>3
<1> QED
  BY <1>1, <1>2, <1>3, <1>4 DEF Chain, LastOf, w

(* What is read from a chain leaves one.                                   *)
LEMMA ChainRead ==
    ASSUME NEW s \in Seq(Units), s # <<>>, NEW r, Chain(r, s)
    PROVE  /\ Tail(s) \in Seq(Units)
           /\ Chain(Head(s), Tail(s))
           /\ LastOf(Head(s), Tail(s)) = LastOf(r, s)
           /\ Head(s) = s[1] /\ Continues(r, Head(s)) /\ Head(s) \in Units
           /\ \A i \in 1 .. Len(Tail(s)) : i + 1 \in 1 .. Len(s) /\ Tail(s)[i] = s[i + 1]
           /\ 1 \in 1 .. Len(s)
<1> DEFINE t == Tail(s)
<1>1. /\ t \in Seq(Units) /\ Len(t) = Len(s) - 1 /\ Len(s) \in Nat \ {0}
      /\ \A i \in 1 .. Len(t) : i + 1 \in 1 .. Len(s) /\ t[i] = s[i + 1]
      /\ Head(s) = s[1] /\ Head(s) \in Units
  OBVIOUS
<1> HIDE DEF t
<1>2. Chain(s[1], t)
  <2>1. t # <<>> => Continues(s[1], t[1])
    <3> SUFFICES ASSUME t # <<>>
                 PROVE  Continues(s[1], t[1])
      OBVIOUS
    <3>1. 1 \in 1 .. Len(t)
      BY <1>1
    <3>2. 1 \in 1 .. Len(s) - 1 /\ t[1] = s[1 + 1]
      BY <1>1, <3>1
    <3> QED
      BY <3>2 DEF Chain
  <2>2. ASSUME NEW i \in 1 .. Len(t) - 1
        PROVE  Continues(t[i], t[i + 1])
    <3>1. /\ t[i] = s[i + 1] /\ t[i + 1] = s[(i + 1) + 1]
          /\ i + 1 \in 1 .. Len(s) - 1
      BY <1>1
    <3> QED
      BY <3>1 DEF Chain
  <2> QED
    BY <2>1, <2>2 DEF Chain
<1>3. LastOf(s[1], t) = LastOf(r, s)
  <2>1. CASE t = <<>>
    <3>1. Len(s) = 1 /\ s # <<>>
      BY <1>1, <2>1
    <3> QED
      BY <2>1, <3>1 DEF LastOf
  <2>2. CASE t # <<>>
    <3>1. Len(t) \in 1 .. Len(t) /\ Len(t) + 1 = Len(s)
      BY <1>1, <2>2
    <3>2. t[Len(t)] = s[Len(s)]
      BY <1>1, <3>1
    <3> QED
      BY <2>2, <3>2 DEF LastOf
  <2> QED
    BY <2>1, <2>2
<1> QED
  BY <1>1, <1>2, <1>3 DEF Chain, t
-----------------------------------------------------------------------------
(* A call that is sending holds the lock, and nobody else is sending.      *)
LEMMA Holder ==
    ASSUME TypeOK, LockHeld, NEW c \in Calls, at[c] \in Sending
    PROVE  /\ lock = c /\ lock # NoCall /\ c # NoCall
           /\ frame.size \in Sizes /\ frame \in [n : Nat, size : Sizes]
<1>1. lock = c /\ c # NoCall
  BY FramesAssumption DEF LockHeld
<1>2. frame.size \in Sizes
  BY <1>1 DEF LockHeld
<1> QED
  BY <1>1, <1>2 DEF TypeOK

LEMMA BeganFrame ==
    ASSUME NEW c \in Calls, WriteLength(c), frame \in [n : Nat, size : Sizes]
    PROVE  /\ Extend(c, "length", Header(frame'))
           /\ frame' = [n |-> frame.n + 1, size |-> frame.size]
           /\ frame' \in [n : Nat, size : Sizes]
           /\ Header(frame') = << <<frame.n + 1, 0, frame.size>> >>
           /\ Header(frame') \in Seq(Units)
<1>1. /\ Extend(c, "length", Header(frame'))
      /\ frame' = [frame EXCEPT !.n = frame.n + 1]
  BY Zenon DEF WriteLength
<1>2. frame' = [n |-> frame.n + 1, size |-> frame.size]
  BY <1>1
<1>3. frame.n \in Nat /\ frame.size \in Sizes
  OBVIOUS
<1>4. frame'.n = frame.n + 1 /\ frame'.size = frame.size
  BY <1>2
<1>5. Header(frame') = << <<frame.n + 1, 0, frame.size>> >>
  BY <1>4 DEF Header
<1>6. << <<frame.n + 1, 0, frame.size>> >> \in Seq(Units)
  BY <1>3 DEF Units
<1>7. Header(frame') \in Seq(Units)
  BY <1>5, <1>6, Zenon
<1>8. frame' \in [n : Nat, size : Sizes]
  BY <1>2, <1>3
<1> QED
  BY <1>1, <1>2, <1>5, <1>7, <1>8, Zenon

LEMMA TypeStep ==
    ASSUME TypeOK, LockHeld, need = 0 => packet = <<>>, [Next]_vars
    PROVE  TypeOK' /\ (need = 0 => packet = <<>>)'
<1> USE FramesAssumption DEF TypeOK
<1>1. CASE ReadLength
  <2>1. Head(stream) \in Units /\ Tail(stream) \in Seq(Units)
    BY <1>1 DEF ReadLength, Units
  <2>2. Head(stream)[3] \in Sizes
    BY <2>1 DEF Units
  <2>3. need' \in Sizes \cup {0} /\ panicked' \in BOOLEAN
    BY <1>1, <2>2 DEF ReadLength
  <2>4. need' = need \/ need' \in Sizes
    BY <1>1, <2>2 DEF ReadLength
  <2>5. (need = 0 => packet = <<>>)'
    BY <1>1, <2>4 DEF ReadLength
  <2> QED
    BY <1>1, <2>1, <2>3, <2>5 DEF ReadLength, Units
<1>2. CASE ReadUnit
  <2>1. Head(stream) \in Units /\ Tail(stream) \in Seq(Units)
    BY <1>2 DEF ReadUnit, Units
  <2>2. Append(packet, Head(stream)) \in Seq(Units)
    BY <2>1 DEF Units
  <2>3. need # 0
    BY <1>2 DEF ReadUnit
  <2> QED
    BY <1>2, <2>1, <2>2, <2>3 DEF ReadUnit, Units
<1>3. CASE ReadPacket
  <2>1. Parsed \in Nat
    <3>1. 1 \in 1 .. Len(packet)
      BY <1>3 DEF ReadPacket
    <3>2. packet[1] \in Nat \X Nat \X Sizes
      BY <3>1
    <3>3. packet[1][1] \in Nat
      BY <3>2
    <3> QED
      BY <3>3 DEF Parsed
  <2>2. handled' \in Seq(Nat)
    BY <1>3, <2>1 DEF ReadPacket
  <2> QED
    BY <1>3, <2>2 DEF ReadPacket
<1>4. ASSUME NEW c \in Calls, Lock(c)
      PROVE  TypeOK' /\ (need = 0 => packet = <<>>)'
  BY <1>4 DEF Lock, Goto
<1>5. ASSUME NEW c \in Calls, WriteLength(c)
      PROVE  TypeOK' /\ (need = 0 => packet = <<>>)'
  <2>1. at[c] \in Sending
    BY <1>5 DEF WriteLength, Extend, Sending
  <2>2. frame \in [n : Nat, size : Sizes]
    BY <2>1, Holder
  <2>3. /\ Extend(c, "length", Header(frame'))
        /\ frame' \in [n : Nat, size : Sizes] /\ Header(frame') \in Seq(Units)
    BY <1>5, <2>2, BeganFrame
  <2>4. stream' \in Seq(Nat \X Nat \X Sizes)
    BY <2>3 DEF Extend, Units
  <2>5. frame' \in [n : Nat, size : Sizes \cup {0}]
    BY <2>3
  <2> QED
    BY <2>3, <2>4, <2>5 DEF Extend
<1>6. ASSUME NEW c \in Calls, LengthWritten(c)
      PROVE  TypeOK' /\ (need = 0 => packet = <<>>)'
  BY <1>6 DEF LengthWritten, Wake, Goto
<1>7. ASSUME NEW c \in Calls, WritePacket(c)
      PROVE  TypeOK' /\ (need = 0 => packet = <<>>)'
  <2>1. at[c] \in Sending
    BY <1>7 DEF WritePacket, Extend, Sending
  <2>2. frame \in [n : Nat, size : Sizes]
    BY <2>1, Holder
  <2>3. Body(frame) \in Seq(Nat \X Nat \X Sizes)
    BY <2>2, BodyUnits DEF Units
  <2>4. stream' \in Seq(Nat \X Nat \X Sizes)
    BY <1>7, <2>3 DEF WritePacket, Extend
  <2> QED
    BY <1>7, <2>4 DEF WritePacket, Extend
<1>8. ASSUME NEW c \in Calls, PacketWritten(c)
      PROVE  TypeOK' /\ (need = 0 => packet = <<>>)'
  BY <1>8 DEF PacketWritten, Wake, Goto
<1>9. ASSUME NEW c \in Calls, Drop(c)
      PROVE  TypeOK' /\ (need = 0 => packet = <<>>)'
  BY <1>9 DEF Drop, Goto
<1>10. CASE UNCHANGED vars
  BY <1>10 DEF vars
<1> QED
  BY <1>1, <1>2, <1>3, <1>4, <1>5, <1>6, <1>7, <1>8, <1>9, <1>10
     DEF Next, Read, Send

LEMMA LockStep ==
    ASSUME TypeOK, LockHeld, [Next]_vars
    PROVE  LockHeld'
<1> USE FramesAssumption DEF TypeOK, LockHeld, Sending
<1>1. CASE Read
  BY <1>1 DEF Read, ReadLength, ReadUnit, ReadPacket
<1>2. ASSUME NEW c \in Calls, Lock(c)
      PROVE  LockHeld'
  BY <1>2 DEF Lock, Goto
<1>3. ASSUME NEW c \in Calls, WriteLength(c)
      PROVE  LockHeld'
  BY <1>3 DEF WriteLength, Extend
<1>4. ASSUME NEW c \in Calls, LengthWritten(c)
      PROVE  LockHeld'
  BY <1>4 DEF LengthWritten, Wake, Goto
<1>5. ASSUME NEW c \in Calls, WritePacket(c)
      PROVE  LockHeld'
  BY <1>5 DEF WritePacket, Extend
<1>6. ASSUME NEW c \in Calls, PacketWritten(c)
      PROVE  LockHeld'
  BY <1>6 DEF PacketWritten, Wake, Goto
<1>7. ASSUME NEW c \in Calls, Drop(c)
      PROVE  LockHeld'
  BY <1>7 DEF Drop, Goto
<1>8. CASE UNCHANGED vars
  BY <1>8 DEF vars
<1> QED
  BY <1>1, <1>2, <1>3, <1>4, <1>5, <1>6, <1>7, <1>8 DEF Next, Send
-----------------------------------------------------------------------------
(* A write by the call that holds the lock goes on where the last one      *)
(* ended.                                                                  *)
LEMMA Written ==
    ASSUME TypeOK, Whole, NEW t \in Seq(Units), t # <<>>,
           Continues(LastWritten, t[1]),
           \A i \in 1 .. Len(t) - 1 : Continues(t[i], t[i + 1]),
           \A i \in 1 .. Len(t) : t[i][1] <= frame'.n,
           frame.n <= frame'.n, frame.n \in Nat, frame'.n \in Nat,
           stream' = stream \o t, UNCHANGED <<need, packet, handled>>
    PROVE  NothingSkipped' /\ NumbersBounded' /\ LastWritten' = t[Len(t)]
<1>1. LastRead' = LastRead
  BY DEF LastRead
<1>2. stream \in Seq(Units)
  BY DEF TypeOK, Units
<1>3. Chain(LastRead, stream)
  BY DEF Whole, NothingSkipped
<1>4. Continues(LastOf(LastRead, stream), t[1])
  BY DEF LastWritten
<1>5. Chain(LastRead, stream \o t) /\ LastOf(LastRead, stream \o t) = t[Len(t)]
  BY <1>2, <1>3, <1>4, ChainExtended
<1>6. NothingSkipped' /\ LastWritten' = t[Len(t)]
  BY <1>1, <1>5, Zenon DEF NothingSkipped, LastWritten
<1>7. LastRead'[1] <= frame'.n
  <2>1. LastRead[1] \in Nat
    BY DEF LastRead, TypeOK
  <2>2. LastRead[1] <= frame.n
    BY DEF Whole, NumbersBounded
  <2>3. LastRead[1] <= frame'.n
    BY <2>1, <2>2
  <2> QED
    BY <1>1, <2>3, Zenon
<1>8. ASSUME NEW i \in 1 .. Len(stream')
      PROVE  stream'[i][1] <= frame'.n
  <2>1. /\ Len(stream') = Len(stream) + Len(t) /\ Len(stream) \in Nat /\ Len(t) \in Nat
        /\ \A j \in 1 .. Len(stream) : stream'[j] = stream[j]
        /\ \A j \in 1 .. Len(t) : stream'[Len(stream) + j] = t[j]
    BY <1>2
  <2>2. CASE i \in 1 .. Len(stream)
    <3>1. stream'[i] = stream[i] /\ stream[i] \in Units
      BY <1>2, <2>1, <2>2
    <3>2. stream[i][1] <= frame.n
      BY <2>2 DEF Whole, NumbersBounded
    <3>3. stream[i][1] \in Nat
      BY <3>1 DEF Units
    <3>4. stream[i][1] <= frame'.n
      BY <3>2, <3>3
    <3> QED
      BY <3>1, <3>4, Zenon
  <2>3. CASE i > Len(stream)
    <3>1. PICK j \in 1 .. Len(t) : i = Len(stream) + j
      <4>1. i - Len(stream) \in 1 .. Len(t) /\ i = Len(stream) + (i - Len(stream))
        BY <2>1, <2>3
      <4> QED
        BY <4>1
    <3>2. stream'[i] = t[j]
      BY <2>1, <3>1
    <3> QED
      BY <3>2, Zenon
  <2> QED
    BY <2>1, <2>2, <2>3
<1> QED
  BY <1>6, <1>7, <1>8, Zenon DEF NumbersBounded

(* The reader takes a unit.                                                *)
LEMMA UnitTaken ==
    ASSUME TypeOK, Whole, stream # <<>>, stream' = Tail(stream),
           LastRead' = Head(stream), UNCHANGED <<lock, at, wrote, frame>>
    PROVE  NothingSkipped' /\ NumbersBounded' /\ WrittenSoFar'
<1>1. stream \in Seq(Units)
  BY DEF TypeOK, Units
<1>2. Chain(LastRead, stream)
  BY DEF Whole, NothingSkipped
<1>3. /\ Chain(Head(stream), Tail(stream))
      /\ LastOf(Head(stream), Tail(stream)) = LastOf(LastRead, stream)
      /\ Head(stream) = stream[1] /\ 1 \in 1 .. Len(stream)
      /\ \A i \in 1 .. Len(Tail(stream)) :
            i + 1 \in 1 .. Len(stream) /\ Tail(stream)[i] = stream[i + 1]
  BY <1>1, <1>2, ChainRead
<1>4. NothingSkipped' /\ LastWritten' = LastWritten
  BY <1>3, Zenon DEF NothingSkipped, LastWritten
<1>5. \A i \in 1 .. Len(stream) : stream[i][1] <= frame.n
  BY DEF Whole, NumbersBounded
<1>6. LastRead'[1] <= frame'.n
  BY <1>3, <1>5, Zenon
<1>7. ASSUME NEW i \in 1 .. Len(stream')
      PROVE  stream'[i][1] <= frame'.n
  BY <1>3, <1>5, Zenon
<1>8. WrittenSoFar'
  BY <1>4 DEF Whole, WrittenSoFar, MidFrame
<1> QED
  BY <1>4, <1>6, <1>7, <1>8, Zenon DEF NumbersBounded

(* The reader takes a length for a length, and is then at its unit.        *)
LEMMA LengthTaken ==
    ASSUME IndInv, Whole, ReadLength
    PROVE  /\ IsHeader(Head(stream)) /\ need' = Head(stream)[3] /\ need' \in Sizes
           /\ Head(stream)[1] = Len(handled) + 1
           /\ packet = <<>> /\ UNCHANGED <<panicked, packet, handled>>
           /\ LastRead' = Head(stream)
<1>1. stream \in Seq(Units) /\ stream # <<>> /\ need = 0 /\ packet = <<>>
  BY DEF IndInv, TypeOK, Units, ReadLength, Idle
<1>2. Chain(LastRead, stream)
  BY DEF Whole, NothingSkipped
<1>3. Continues(LastRead, Head(stream)) /\ Head(stream) \in Units
  BY <1>1, <1>2, ChainRead
<1>4. LastRead = <<Len(handled), 1, 1>>
  BY <1>1 DEF LastRead
<1>5. Head(stream)[1] = Len(handled) + 1 /\ Head(stream)[2] = 0
  BY <1>3, <1>4 DEF Continues
<1>6. Head(stream)[3] \in Sizes /\ Head(stream)[3] # 0
  BY <1>3, FramesAssumption DEF Units
<1>7. need' = Head(stream)[3] /\ UNCHANGED <<panicked, packet, handled>>
  BY <1>5 DEF ReadLength, IsHeader
<1>8. LastRead' = <<Len(handled) + 1, Len(packet), need'>>
  BY <1>6, <1>7 DEF LastRead
<1>9. Len(packet) = 0
  BY <1>1
<1>10. Head(stream) = <<Len(handled) + 1, 0, Head(stream)[3]>>
  BY <1>3, <1>5 DEF Units
<1> QED
  BY <1>1, <1>5, <1>6, <1>7, <1>8, <1>9, <1>10 DEF IsHeader

(* The reader takes the next unit of its packet.                           *)
LEMMA BodyTaken ==
    ASSUME IndInv, Whole, ReadUnit
    PROVE  /\ Head(stream) = <<Len(handled) + 1, Len(packet) + 1, need>>
           /\ LastRead' = Head(stream)
           /\ Len(packet') = Len(packet) + 1
           /\ \A i \in 1 .. Len(packet') : packet'[i] = <<Len(handled) + 1, i, need>>
<1>1. /\ stream \in Seq(Units) /\ stream # <<>> /\ packet \in Seq(Units)
      /\ need \in Nat /\ Len(packet) < need /\ Len(packet) \in Nat
  BY FramesAssumption DEF IndInv, TypeOK, Units, ReadUnit
<1>2. Chain(LastRead, stream)
  BY DEF Whole, NothingSkipped
<1>3. Continues(LastRead, Head(stream)) /\ Head(stream) \in Units
  BY <1>1, <1>2, ChainRead
<1>4. LastRead = <<Len(handled) + 1, Len(packet), need>>
  BY <1>1 DEF LastRead
<1>5. Head(stream) = <<Len(handled) + 1, Len(packet) + 1, need>>
  BY <1>1, <1>3, <1>4 DEF Continues
<1>6. /\ packet' = Append(packet, Head(stream))
      /\ need' = need /\ handled' = handled
  BY DEF ReadUnit
<1>7. /\ Len(packet') = Len(packet) + 1
      /\ packet'[Len(packet) + 1] = Head(stream)
      /\ \A i \in 1 .. Len(packet) : packet'[i] = packet[i]
  BY <1>1, <1>3, <1>6
<1>8. LastRead' = Head(stream)
  BY <1>1, <1>5, <1>6, <1>7 DEF LastRead
<1>9. ASSUME NEW i \in 1 .. Len(packet')
      PROVE  packet'[i] = <<Len(handled) + 1, i, need>>
  <2>1. CASE i \in 1 .. Len(packet)
    <3>1. packet[i] = <<Len(handled) + 1, i, need>>
      BY <2>1 DEF Whole, ReaderInStep
    <3> QED
      BY <1>7, <2>1, <3>1, Zenon
  <2>2. CASE i = Len(packet) + 1
    BY <1>5, <1>7, <2>2, Zenon
  <2> QED
    BY <1>1, <1>7, <2>1, <2>2
<1> QED
  BY <1>5, <1>7, <1>8, <1>9, Zenon

(* A packet that is read is the one that comes next.                       *)
LEMMA PacketTaken ==
    ASSUME IndInv, Whole, ReadPacket
    PROVE  /\ Parsed = Len(handled) + 1
           /\ handled' = Append(handled, Len(handled) + 1)
           /\ Len(handled') = Len(handled) + 1
           /\ LastRead = <<Len(handled) + 1, need, need>> /\ need \in Nat \ {0}
           /\ LastRead' = <<Len(handled) + 1, 1, 1>>
<1>1. /\ packet \in Seq(Units) /\ handled \in Seq(Nat) /\ Len(handled) \in Nat
      /\ need \in Nat \ {0} /\ Len(packet) = need
  BY FramesAssumption DEF IndInv, TypeOK, Units, ReadPacket
<1>2. \A i \in 1 .. Len(packet) : packet[i] = <<Len(handled) + 1, i, need>>
  BY DEF Whole, ReaderInStep
<1>3. packet[1][1] = Len(handled) + 1
  <2>1. 1 \in 1 .. Len(packet)
    BY <1>1
  <2>2. packet[1] = <<Len(handled) + 1, 1, need>>
    BY <1>2, <2>1
  <2> QED
    BY <2>2
<1>4. packet = Body([n |-> packet[1][1], size |-> need])
  <2>1. packet = [i \in 1 .. need |-> packet[i]]
    BY <1>1
  <2>2. \A i \in 1 .. need : packet[i] = <<packet[1][1], i, need>>
    BY <1>1, <1>2, <1>3
  <2>3. packet = [i \in 1 .. need |-> <<packet[1][1], i, need>>]
    BY <2>1, <2>2
  <2> QED
    BY <2>3 DEF Body
<1>5. Parsed = Len(handled) + 1
  BY <1>3, <1>4, Zenon DEF Parsed
<1>6. handled' = Append(handled, Len(handled) + 1)
  BY <1>5 DEF ReadPacket
<1>7. Len(handled') = Len(handled) + 1
  BY <1>1, <1>6
<1>8. LastRead = <<Len(handled) + 1, need, need>>
  BY <1>1 DEF LastRead
<1>9. LastRead' = <<Len(handled) + 1, 1, 1>>
  BY <1>7 DEF LastRead, ReadPacket
<1> QED
  BY <1>1, <1>5, <1>6, <1>7, <1>8, <1>9
-----------------------------------------------------------------------------
LEMMA WholeRead ==
    ASSUME IndInv, Whole, Read
    PROVE  Whole'
<1>1. CASE ReadLength
  <2>1. NothingSkipped' /\ NumbersBounded' /\ WrittenSoFar'
    BY <1>1, LengthTaken, UnitTaken DEF IndInv, ReadLength
  <2>2. need' \in Sizes /\ packet = <<>> /\ UNCHANGED <<panicked, packet, handled>>
    BY <1>1, LengthTaken
  <2>3. need' \in Nat /\ Len(packet') = 0
    BY <2>2, FramesAssumption
  <2>4. ReaderInStep'
    BY <2>2, <2>3 DEF Whole, ReaderInStep
  <2> QED
    BY <2>1, <2>4 DEF Whole
<1>2. CASE ReadUnit
  <2>1. NothingSkipped' /\ NumbersBounded' /\ WrittenSoFar'
    BY <1>2, BodyTaken, UnitTaken DEF IndInv, ReadUnit
  <2>2. /\ Len(packet') = Len(packet) + 1
        /\ \A i \in 1 .. Len(packet') : packet'[i] = <<Len(handled) + 1, i, need>>
    BY <1>2, BodyTaken
  <2>3. /\ Len(packet) < need /\ Len(packet) \in Nat /\ need \in Nat
        /\ need' = need /\ handled' = handled /\ panicked' = panicked
    BY <1>2, FramesAssumption DEF ReadUnit, IndInv, TypeOK
  <2>4. ReaderInStep'
    BY <2>2, <2>3 DEF Whole, ReaderInStep
  <2> QED
    BY <2>1, <2>4 DEF Whole
<1>3. CASE ReadPacket
  <2>1. /\ LastRead = <<Len(handled) + 1, need, need>> /\ need \in Nat \ {0}
        /\ LastRead' = <<Len(handled) + 1, 1, 1>>
        /\ handled' = Append(handled, Len(handled) + 1)
        /\ handled \in Seq(Nat) /\ Len(handled) \in Nat
    BY <1>3, PacketTaken DEF IndInv, TypeOK
  <2>2. /\ stream' = stream /\ frame' = frame /\ lock' = lock /\ at' = at
        /\ wrote' = wrote /\ panicked' = panicked /\ need' = 0 /\ packet' = <<>>
        /\ stream \in Seq(Units)
    BY <1>3 DEF ReadPacket, IndInv, TypeOK, Units
  <2>3. ReaderInStep'
    <3>1. /\ Len(handled') = Len(handled) + 1
          /\ \A i \in 1 .. Len(handled) : handled'[i] = handled[i]
          /\ handled'[Len(handled) + 1] = Len(handled) + 1
      BY <2>1
    <3>2. \A i \in 1 .. Len(handled') : handled'[i] = i
      BY <2>1, <3>1 DEF Whole, ReaderInStep
    <3>3. Len(packet') = 0 /\ ~ panicked'
      BY <2>2 DEF Whole, ReaderInStep
    <3> QED
      BY <2>2, <3>2, <3>3 DEF ReaderInStep
  <2>4. NothingSkipped'
    <3>1. ASSUME stream # <<>>
          PROVE  Continues(LastRead', stream[1])
      <4>1. Continues(LastRead, stream[1])
        BY <3>1 DEF Whole, NothingSkipped, Chain
      <4> QED
        BY <2>1, <4>1 DEF Continues
    <3> QED
      BY <2>2, <3>1 DEF Whole, NothingSkipped, Chain
  <2>5. NumbersBounded'
    BY <2>1, <2>2 DEF Whole, NumbersBounded
  <2>6. WrittenSoFar'
    <3>1. CASE stream = <<>>
      <4>1. LastWritten = LastRead /\ LastWritten' = LastRead'
        BY <2>2, <3>1 DEF LastWritten, LastOf
      <4>2. ~ MidFrame
        BY <2>1, <4>1 DEF Whole, WrittenSoFar
      <4>3. ~ MidFrame'
        BY <2>2, <4>2 DEF MidFrame
      <4> QED
        BY <2>1, <2>2, <4>1, <4>3 DEF Whole, WrittenSoFar
    <3>2. CASE stream # <<>>
      <4>1. LastWritten' = LastWritten /\ (MidFrame' <=> MidFrame)
        BY <2>2, <3>2 DEF LastWritten, LastOf, MidFrame
      <4> QED
        BY <2>2, <4>1 DEF Whole, WrittenSoFar
    <3> QED
      BY <3>1, <3>2
  <2> QED
    BY <2>3, <2>4, <2>5, <2>6 DEF Whole
<1> QED
  BY <1>1, <1>2, <1>3 DEF Read

(* What stays when nothing is written and nothing read.                    *)
LEMMA WholeQuiet ==
    ASSUME Whole, UNCHANGED <<stream, need, panicked, packet, handled>>,
           frame'.n = frame.n
    PROVE  /\ ReaderInStep' /\ NothingSkipped' /\ NumbersBounded'
           /\ LastWritten' = LastWritten
<1>1. LastRead' = LastRead
  BY DEF LastRead
<1> QED
  BY <1>1 DEF Whole, ReaderInStep, NothingSkipped, NumbersBounded, LastWritten

LEMMA WholeSent ==
    ASSUME IndInv, Whole, NEW c \in Calls, Send(c)
    PROVE  Whole'
<1>1. CASE Lock(c)
  <2>1. /\ UNCHANGED <<wrote, stream, need, panicked, packet, handled>>
        /\ lock = NoCall /\ lock' = c /\ at'[c] = "length"
    BY <1>1 DEF Lock, Goto, IndInv, TypeOK
  <2>2. frame'.n = frame.n
    <3>1. PICK size \in Sizes : frame' = [frame EXCEPT !.size = size]
      BY <1>1 DEF Lock
    <3> QED
      BY <3>1 DEF IndInv, TypeOK
  <2>3. ~ wrote /\ ~ MidFrame /\ ~ MidFrame'
    BY <2>1 DEF Whole, WrittenSoFar, MidFrame
  <2>4. WrittenSoFar'
    BY <2>1, <2>2, <2>3, WholeQuiet DEF Whole, WrittenSoFar
  <2> QED
    BY <2>1, <2>2, <2>4, WholeQuiet DEF Whole
<1>2. CASE WriteLength(c)
  <2> DEFINE t == << <<frame.n + 1, 0, frame.size>> >>
  <2>1. /\ at[c] = "length" /\ ~ wrote /\ lock = c /\ lock # NoCall
        /\ frame \in [n : Nat, size : Sizes]
    BY <1>2, Holder DEF WriteLength, Extend, Sending, IndInv
  <2>2. /\ Extend(c, "length", t) /\ t \in Seq(Units)
        /\ frame' = [n |-> frame.n + 1, size |-> frame.size]
    BY <1>2, <2>1, BeganFrame, Zenon
  <2>3. /\ frame'.n = frame.n + 1 /\ frame'.size = frame.size
        /\ frame.n \in Nat /\ frame.size \in Sizes
    BY <2>1, <2>2
  <2>4. t # <<>> /\ Len(t) = 1 /\ t[1] = <<frame.n + 1, 0, frame.size>>
    OBVIOUS
  <2>5. ~ MidFrame /\ LastWritten[1] = frame.n /\ LastWritten[2] = LastWritten[3]
    BY <2>1 DEF Whole, WrittenSoFar, MidFrame
  <2>6. /\ stream' = stream \o t /\ wrote' = TRUE
        /\ UNCHANGED <<lock, at, need, panicked, packet, handled>>
    BY <2>2 DEF Extend
  <2> HIDE DEF t
  <2>7. Continues(LastWritten, t[1])
    BY <2>4, <2>5 DEF Continues
  <2>8. NothingSkipped' /\ NumbersBounded' /\ LastWritten' = t[1]
    <3>1. \A i \in 1 .. Len(t) - 1 : Continues(t[i], t[i + 1])
      BY <2>4
    <3>2. \A i \in 1 .. Len(t) : t[i][1] <= frame'.n
      BY <2>3, <2>4
    <3>3. frame.n <= frame'.n /\ frame'.n \in Nat
      BY <2>3
    <3>4. UNCHANGED <<need, packet, handled>>
      BY <2>6
    <3>5. NothingSkipped' /\ NumbersBounded' /\ LastWritten' = t[Len(t)]
      BY <2>2, <2>3, <2>4, <2>6, <2>7, <3>1, <3>2, <3>3, <3>4, Written DEF IndInv
    <3> QED
      BY <2>4, <3>5
  <2>9. MidFrame'
    BY <2>1, <2>6 DEF MidFrame
  <2>10. WrittenSoFar'
    BY <2>1, <2>3, <2>4, <2>6, <2>8, <2>9 DEF WrittenSoFar
  <2>11. ReaderInStep'
    BY <2>6 DEF Whole, ReaderInStep
  <2> QED
    BY <2>8, <2>10, <2>11 DEF Whole
<1>3. CASE LengthWritten(c)
  <2>1. /\ UNCHANGED <<lock, stream, frame, need, panicked, packet, handled>>
        /\ at[c] = "length" /\ wrote /\ wrote' = FALSE /\ at'[c] = "packet"
    BY <1>3 DEF LengthWritten, Wake, Goto, IndInv, TypeOK
  <2>2. lock = c /\ lock # NoCall
    BY <2>1, Holder DEF Sending, IndInv
  <2>3. MidFrame /\ MidFrame'
    BY <2>1, <2>2 DEF MidFrame
  <2>4. WrittenSoFar'
    BY <2>1, <2>3, WholeQuiet DEF Whole, WrittenSoFar
  <2> QED
    BY <2>1, <2>4, WholeQuiet DEF Whole
<1>4. CASE WritePacket(c)
  <2> DEFINE t == Body(frame)
  <2>1. /\ at[c] = "packet" /\ ~ wrote /\ lock = c /\ lock # NoCall
        /\ frame \in [n : Nat, size : Sizes]
    BY <1>4, Holder DEF WritePacket, Extend, Sending, IndInv
  <2>2. /\ stream' = stream \o t /\ wrote' = TRUE
        /\ UNCHANGED <<lock, at, frame, need, panicked, packet, handled>>
    BY <1>4 DEF WritePacket, Extend
  <2>3. frame.n \in Nat /\ frame.size \in Nat \ {0} /\ frame.size \in Sizes
    BY <2>1, FramesAssumption
  <2>4. /\ t \in Seq(Units) /\ Len(t) = frame.size
        /\ \A i \in 1 .. Len(t) : t[i] = <<frame.n, i, frame.size>>
    BY <2>1, BodyUnits, Zenon
  <2>5. /\ MidFrame /\ LastWritten[1] = frame.n
        /\ LastWritten[2] = 0 /\ LastWritten[3] = frame.size
    BY <2>1 DEF Whole, WrittenSoFar, MidFrame
  <2> HIDE DEF t
  <2>6. t # <<>> /\ t[1] = <<frame.n, 1, frame.size>>
        /\ t[Len(t)] = <<frame.n, frame.size, frame.size>>
    BY <2>3, <2>4
  <2>7. Continues(LastWritten, t[1])
    BY <2>3, <2>5, <2>6 DEF Continues
  <2>8. NothingSkipped' /\ NumbersBounded' /\ LastWritten' = t[Len(t)]
    <3>1. ASSUME NEW i \in 1 .. Len(t) - 1
          PROVE  Continues(t[i], t[i + 1])
      <4>1. i \in 1 .. Len(t) /\ i + 1 \in 1 .. Len(t) /\ i < frame.size
        BY <2>3, <2>4
      <4>2. t[i] = <<frame.n, i, frame.size>> /\ t[i + 1] = <<frame.n, i + 1, frame.size>>
        BY <2>4, <4>1
      <4> QED
        BY <4>1, <4>2 DEF Continues
    <3>2. \A i \in 1 .. Len(t) : t[i][1] <= frame'.n
      BY <2>2, <2>3, <2>4
    <3>3. frame.n <= frame'.n /\ frame'.n \in Nat
      BY <2>2, <2>3
    <3>4. UNCHANGED <<need, packet, handled>>
      BY <2>2
    <3> QED
      BY <2>2, <2>3, <2>4, <2>6, <2>7, <3>1, <3>2, <3>3, <3>4, Written DEF IndInv
  <2>9. ~ MidFrame'
    BY <2>1, <2>2 DEF MidFrame
  <2>10. WrittenSoFar'
    BY <2>1, <2>2, <2>6, <2>8, <2>9 DEF WrittenSoFar
  <2>11. ReaderInStep'
    BY <2>2 DEF Whole, ReaderInStep
  <2> QED
    BY <2>8, <2>10, <2>11 DEF Whole
<1>5. CASE PacketWritten(c)
  <2>1. /\ UNCHANGED <<stream, frame, need, panicked, packet, handled>>
        /\ at[c] = "packet" /\ wrote /\ wrote' = FALSE /\ lock' = NoCall
    BY <1>5 DEF PacketWritten, Wake, Goto, IndInv, TypeOK
  <2>2. lock = c /\ lock # NoCall
    BY <2>1, Holder DEF Sending, IndInv
  <2>3. ~ MidFrame /\ ~ MidFrame'
    BY <2>1, <2>2 DEF MidFrame
  <2>4. WrittenSoFar'
    BY <2>1, <2>3, WholeQuiet DEF Whole, WrittenSoFar
  <2> QED
    BY <2>1, <2>4, WholeQuiet DEF Whole
<1> QED
  BY <1>1, <1>2, <1>3, <1>4, <1>5 DEF Send

LEMMA WholeDropped ==
    ASSUME IndInv, Whole, NEW c \in Calls, Drop(c), ~ Torn'
    PROVE  Whole'
<1>1. /\ UNCHANGED <<wrote, stream, frame, need, panicked, packet, handled>>
      /\ at[c] \in {"new", "length", "packet"}
      /\ lock' = IF lock = c THEN NoCall ELSE lock
      /\ at' = [at EXCEPT ![c] =
                   IF at[c] = "packet" \/ (lock = c /\ wrote) THEN "torn" ELSE "dropped"]
  BY DEF Drop, Goto
<1>2. at[c] # "packet" /\ ~ (lock = c /\ wrote)
  BY <1>1 DEF Torn, IndInv, TypeOK
<1>3. WrittenSoFar'
  <2>1. CASE lock = c
    <3>1. ~ wrote /\ at[lock] = "length" /\ lock' = NoCall
      BY <1>1, <1>2, <2>1 DEF IndInv, LockHeld, Sending
    <3>2. ~ MidFrame /\ ~ MidFrame'
      BY <3>1 DEF MidFrame
    <3> QED
      BY <1>1, <3>1, <3>2, WholeQuiet DEF Whole, WrittenSoFar
  <2>2. CASE lock # c
    <3>1. lock' = lock /\ (lock # NoCall => at'[lock] = at[lock])
      BY <1>1, <2>2 DEF IndInv, TypeOK
    <3>2. MidFrame' <=> MidFrame
      BY <1>1, <3>1 DEF MidFrame
    <3> QED
      BY <1>1, <3>1, <3>2, WholeQuiet DEF Whole, WrittenSoFar
  <2> QED
    BY <2>1, <2>2
<1> QED
  BY <1>1, <1>3, WholeQuiet DEF Whole
-----------------------------------------------------------------------------
LEMMA IndInvInit == Init => IndInv
<1> SUFFICES ASSUME Init
             PROVE  IndInv
  OBVIOUS
<1> USE DEF Init
<1>1. TypeOK
  <2>1. <<>> \in Seq(Nat \X Nat \X Sizes) /\ <<>> \in Seq(Nat)
    OBVIOUS
  <2> QED
    BY <2>1 DEF TypeOK
<1>2. LockHeld
  BY FramesAssumption DEF LockHeld, Sending
<1>3. LastRead = <<0, 1, 1>> /\ LastWritten = LastRead
  BY DEF LastRead, LastWritten, LastOf
<1>4. Whole
  BY <1>3 DEF Whole, ReaderInStep, NothingSkipped, Chain, NumbersBounded, WrittenSoFar, MidFrame
<1> QED
  BY <1>1, <1>2, <1>4 DEF IndInv

(* A frame that is torn stays so.                                          *)
LEMMA TornStays ==
    ASSUME TypeOK, [Next]_vars, Torn
    PROVE  Torn'
<1>1. PICK d \in Calls : at[d] = "torn"
  BY DEF Torn
<1>2. at'[d] = "torn"
  <2>1. CASE Read \/ UNCHANGED vars
    BY <1>1, <2>1 DEF Read, ReadLength, ReadUnit, ReadPacket, vars
  <2>2. ASSUME NEW c \in Calls, Send(c) \/ Drop(c)
        PROVE  at'[d] = "torn"
    BY <1>1, <2>2 DEF TypeOK, Send, Drop, Lock, WriteLength, LengthWritten,
                      WritePacket, PacketWritten, Extend, Wake, Goto
  <2> QED
    BY <2>1, <2>2 DEF Next
<1> QED
  BY <1>2 DEF Torn

LEMMA WholeStep ==
    ASSUME IndInv, [Next]_vars
    PROVE  Torn' \/ Whole'
<1>1. CASE Torn
  BY <1>1, TornStays DEF IndInv
<1>2. CASE Whole
  <2>1. CASE Read
    BY <1>2, <2>1, WholeRead
  <2>2. ASSUME NEW c \in Calls, Send(c)
        PROVE  Whole'
    BY <1>2, <2>2, WholeSent
  <2>3. ASSUME NEW c \in Calls, Drop(c), ~ Torn'
        PROVE  Whole'
    BY <1>2, <2>3, WholeDropped
  <2>4. CASE UNCHANGED vars
    <3>1. LastWritten' = LastWritten /\ UNCHANGED vars
      BY <2>4 DEF LastWritten, LastRead, vars
    <3>2. WrittenSoFar'
      BY <1>2, <3>1 DEF vars, Whole, WrittenSoFar, MidFrame
    <3>3. ReaderInStep' /\ NothingSkipped' /\ NumbersBounded'
      BY <1>2, <2>4, WholeQuiet DEF vars
    <3> QED
      BY <3>2, <3>3 DEF Whole
  <2> QED
    BY <2>1, <2>2, <2>3, <2>4 DEF Next
<1> QED
  BY <1>1, <1>2 DEF IndInv

LEMMA IndInvNext == IndInv /\ [Next]_vars => IndInv'
<1> SUFFICES ASSUME IndInv, [Next]_vars
             PROVE  IndInv'
  OBVIOUS
<1>1. TypeOK' /\ (need = 0 => packet = <<>>)' /\ LockHeld'
  BY TypeStep, LockStep DEF IndInv
<1>2. Torn' \/ Whole'
  BY WholeStep
<1> QED
  BY <1>1, <1>2 DEF IndInv

THEOREM Invariance == Spec => []IndInv
<1> QED
  BY IndInvInit, IndInvNext, PTL DEF Spec

(* The types of the stream, of the lock and of the reader's task.          *)
THEOREM TypeCorrect == Spec => []TypeOK
<1>1. IndInv => TypeOK
  BY DEF IndInv
<1> QED
  BY <1>1, Invariance, PTL

(* Until a call is dropped in the middle of its frame, the reader takes    *)
(* the lengths for lengths, and what it has read of a packet is how that   *)
(* packet begins, whoever writes in the meantime (handle_connection and    *)
(* send_packet_unchecked).                                                 *)
THEOREM StaysInStep == Spec => []InStep
<1>1. IndInv => InStep
  <2> SUFFICES ASSUME IndInv, ~ Torn
               PROVE  InStep
    BY DEF InStep
  <2>1. Whole
    BY DEF IndInv
  <2>2. /\ stream \in Seq(Units) /\ packet \in Seq(Units)
        /\ need \in Sizes \cup {0} /\ Len(handled) \in Nat
    BY DEF IndInv, TypeOK, Units
  <2>3. ASSUME need = 0, stream # <<>>
        PROVE  IsHeader(Head(stream))
    <3>1. Continues(LastRead, Head(stream))
      BY <2>1, <2>2, <2>3, ChainRead DEF Whole, NothingSkipped
    <3>2. LastRead = <<Len(handled), 1, 1>>
      BY <2>3 DEF LastRead
    <3> QED
      BY <3>1, <3>2 DEF Continues, IsHeader
  <2>4. ASSUME need > 0
        PROVE  \E n \in 1 .. frame.n :
                  packet = SubSeq(Body([n |-> n, size |-> need]), 1, Len(packet))
    <3> DEFINE n == Len(handled) + 1
               f == [n |-> n, size |-> need]
    <3>1. need \in Sizes /\ need \in Nat \ {0} /\ frame.n \in Nat
      BY <2>2, <2>4, FramesAssumption DEF IndInv, TypeOK
    <3>2. LastRead[1] = n /\ n \in 1 .. frame.n
      BY <2>1, <2>2, <3>1 DEF LastRead, Whole, NumbersBounded
    <3>3. f \in [n : Nat, size : Sizes] /\ f.n = n /\ f.size = need
      BY <2>2, <3>1
    <3>4. /\ Body(f) \in Seq(Units) /\ Len(Body(f)) = need
          /\ \A i \in 1 .. need : Body(f)[i] = <<n, i, need>>
      BY <3>3, BodyUnits
    <3>5. /\ Len(packet) <= need /\ Len(packet) \in Nat
          /\ \A i \in 1 .. Len(packet) : packet[i] = <<n, i, need>>
      BY <2>1, <2>2 DEF Whole, ReaderInStep
    <3> HIDE DEF f, n
    <3>6. packet = SubSeq(Body(f), 1, Len(packet))
      <4> DEFINE b == Body(f)
      <4>1. b \in Seq(Units) /\ Len(b) = need /\ \A i \in 1 .. need : b[i] = <<n, i, need>>
        BY <3>4
      <4> HIDE DEF b
      <4>2. SubSeq(b, 1, Len(packet)) = [i \in 1 .. Len(packet) |-> b[i]]
        BY <3>1, <3>5, <4>1
      <4>3. packet = [i \in 1 .. Len(packet) |-> packet[i]]
        BY <2>2
      <4>4. \A i \in 1 .. Len(packet) : packet[i] = b[i]
        BY <3>1, <3>5, <4>1
      <4>5. packet = SubSeq(b, 1, Len(packet))
        BY <4>2, <4>3, <4>4, Zenon
      <4> QED
        BY <4>5 DEF b
    <3> QED
      BY <3>2, <3>6 DEF f
  <2>5. ~ panicked
    BY <2>1 DEF Whole, ReaderInStep
  <2> QED
    BY <2>3, <2>4, <2>5 DEF InStep
<1> QED
  BY <1>1, Invariance, PTL
-----------------------------------------------------------------------------
(* The packets on their way: those after the l-th, up to the n-th.         *)
OnTheWay(l, n) == [i \in 1 .. n - l |-> l + i]

LEMMA OnTheWaySent ==
    ASSUME NEW l \in Nat, NEW n \in Nat, l <= n
    PROVE  OnTheWay(l, n + 1) = Append(OnTheWay(l, n), n + 1)
<1> DEFINE q == OnTheWay(l, n)
<1>1. n - l \in Nat /\ (n + 1) - l = (n - l) + 1
  OBVIOUS
<1>2. q \in Seq(Nat) /\ Len(q) = n - l /\ \A i \in 1 .. n - l : q[i] = l + i
  BY <1>1 DEF OnTheWay
<1> HIDE DEF q
<1>3. Append(q, n + 1) = [i \in 1 .. (n - l) + 1 |-> IF i = (n - l) + 1 THEN n + 1 ELSE q[i]]
  BY <1>1, <1>2
<1>4. \A i \in 1 .. (n - l) + 1 : (IF i = (n - l) + 1 THEN n + 1 ELSE q[i]) = l + i
  BY <1>1, <1>2
<1>5. Append(q, n + 1) = [i \in 1 .. (n - l) + 1 |-> l + i]
  BY <1>3, <1>4
<1> QED
  BY <1>1, <1>5 DEF OnTheWay, q

LEMMA OnTheWayReceived ==
    ASSUME NEW l \in Nat, NEW n \in Nat, l < n
    PROVE  /\ 1 \in 1 .. Len(OnTheWay(l, n))
           /\ SubSeq(OnTheWay(l, n), 1, 1) = <<l + 1>>
           /\ SubSeq(OnTheWay(l, n), 2, Len(OnTheWay(l, n))) = OnTheWay(l + 1, n)
<1> DEFINE q == OnTheWay(l, n)
<1>1. n - l \in Nat \ {0} /\ n - (l + 1) = (n - l) - 1
  OBVIOUS
<1>2. q \in Seq(Nat) /\ Len(q) = n - l /\ \A i \in 1 .. n - l : q[i] = l + i
  BY <1>1 DEF OnTheWay
<1> HIDE DEF q
<1>3. 1 \in 1 .. Len(q) /\ SubSeq(q, 1, 1) = <<l + 1>>
  <2>1. 1 \in 1 .. Len(q) /\ q[1] = l + 1
    BY <1>1, <1>2
  <2>2. SubSeq(q, 1, 1) = <<q[1]>>
    <3> DEFINE h == SubSeq(q, 1, 1)
    <3>1. h \in Seq(Nat) /\ Len(h) = 1 /\ h[1] = q[1]
      BY <1>2, <2>1
    <3> HIDE DEF h
    <3>2. h = <<q[1]>>
      BY <3>1
    <3> QED
      BY <3>2 DEF h
  <2> QED
    BY <2>1, <2>2, Zenon
<1>4. SubSeq(q, 2, Len(q)) = [i \in 1 .. (n - l) - 1 |-> q[i + 1]]
  BY <1>1, <1>2
<1>5. \A i \in 1 .. (n - l) - 1 : q[i + 1] = (l + 1) + i
  BY <1>1, <1>2
<1>6. SubSeq(q, 2, Len(q)) = [i \in 1 .. (n - l) - 1 |-> (l + 1) + i]
  BY <1>4, <1>5
<1> QED
  BY <1>1, <1>3, <1>6 DEF OnTheWay, q

(* No packet is handled before it is begun.                                *)
LEMMA HandledBegun ==
    ASSUME IndInv, Whole
    PROVE  /\ Len(handled) \in Nat /\ frame.n \in Nat /\ Len(handled) <= frame.n
           /\ need > 0 => Len(handled) < frame.n
<1>1. Len(handled) \in Nat /\ frame.n \in Nat /\ need \in Nat
  BY FramesAssumption DEF IndInv, TypeOK
<1>2. LastRead[1] <= frame.n
  BY DEF Whole, NumbersBounded
<1>3. CASE need = 0
  BY <1>1, <1>2, <1>3 DEF LastRead
<1>4. CASE need > 0
  BY <1>1, <1>2, <1>4 DEF LastRead
<1> QED
  BY <1>1, <1>3, <1>4

(* The safety part of ImplementsChannel.  Until a frame is torn the        *)
(* connection is a channel of packets: the length of a packet sends it     *)
(* (send_packet_unchecked), handing it to on_packet() receives it, once    *)
(* and in the order in which its senders had the lock of the pool.         *)
THEOREM FramesAreChannel == Spec => Packets!Spec
<1>1. Init => Packets!Init
  <2> SUFFICES ASSUME Init
               PROVE  Packets!Init
    OBVIOUS
  <2>1. ~ Torn
    BY DEF Init, Torn
  <2>2. frame.n = 0 /\ handled = <<>> /\ Len(handled) = 0
    BY DEF Init
  <2>3. [i \in 1 .. frame.n - Len(handled) |-> Len(handled) + i] = <<>>
    BY <2>2
  <2> QED
    BY <2>1, <2>2, <2>3 DEF Packets!Init
<1>2. IndInv /\ IndInv' /\ [Next]_vars => [Packets!Next]_(Packets!vars)
  <2> SUFFICES ASSUME IndInv, IndInv', [Next]_vars
               PROVE  [Packets!Next]_(Packets!vars)
    OBVIOUS
  <2>1. CASE Torn
    <3>1. Torn'
      BY <2>1, TornStays DEF IndInv
    <3> QED
      BY <2>1, <3>1 DEF Packets!vars
  <2>2. CASE ~ Torn /\ Torn'
    <3>1. Packets!Break
      BY <2>2 DEF Packets!Break
    <3> QED
      BY <2>2, <3>1 DEF Packets!Next
  <2>3. CASE ~ Torn /\ ~ Torn'
    <3>1. Whole
      BY <2>3 DEF IndInv
    <3>2. /\ Len(handled) \in Nat /\ frame.n \in Nat /\ Len(handled) <= frame.n
          /\ need > 0 => Len(handled) < frame.n
      BY <3>1, HandledBegun
    <3>3. ASSUME frame'.n = frame.n, handled' = handled
          PROVE  [Packets!Next]_(Packets!vars)
      BY <2>3, <3>3 DEF Packets!vars
    <3>4. CASE ReadLength \/ ReadUnit \/ UNCHANGED vars
      BY <3>3, <3>4 DEF ReadLength, ReadUnit, vars
    <3>5. CASE ReadPacket
      <4>1. /\ handled' = Append(handled, Len(handled) + 1) /\ Len(handled') = Len(handled) + 1
            /\ need > 0 /\ frame' = frame /\ handled \in Seq(Nat)
        BY <3>1, <3>5, PacketTaken DEF ReadPacket, IndInv, TypeOK
      <4> DEFINE q == OnTheWay(Len(handled), frame.n)
      <4>2. /\ 1 \in 1 .. Len(q) /\ SubSeq(q, 1, 1) = <<Len(handled) + 1>>
            /\ SubSeq(q, 1 + 1, Len(q)) = OnTheWay(Len(handled) + 1, frame.n)
        <5>1. Len(handled) < frame.n /\ 1 + 1 = 2
          BY <3>2, <4>1
        <5> QED
          BY <3>2, <5>1, OnTheWayReceived, Zenon
      <4>3. handled' = handled \o SubSeq(q, 1, 1)
        <5>1. handled \o <<Len(handled) + 1>> = Append(handled, Len(handled) + 1)
          BY <3>2, <4>1
        <5> QED
          BY <4>1, <4>2, <5>1
      <4>4. q' = SubSeq(q, 1 + 1, Len(q))
        BY <4>1, <4>2, Zenon
      <4>5. Packets!Receive(1)
        BY <2>3, <4>1, <4>2, <4>3, <4>4, Zenon DEF Packets!Receive, OnTheWay
      <4>6. 1 \in 1 .. Len(IF Torn THEN <<>>
                           ELSE [i \in 1 .. frame.n - Len(handled) |-> Len(handled) + i])
        BY <2>3, <4>2, Zenon DEF OnTheWay
      <4> QED
        BY <2>3, <4>5, <4>6, Zenon DEF Packets!Next
    <3>6. ASSUME NEW c \in Calls, WriteLength(c)
          PROVE  [Packets!Next]_(Packets!vars)
      <4>1. frame \in [n : Nat, size : Sizes]
        BY <3>6, Holder DEF WriteLength, Extend, Sending, IndInv
      <4>2. frame' = [n |-> frame.n + 1, size |-> frame.size] /\ handled' = handled
        BY <3>6, <4>1, BeganFrame DEF Extend
      <4>3. frame'.n = frame.n + 1
        BY <4>2
      <4>4. OnTheWay(Len(handled), frame.n)' = Append(OnTheWay(Len(handled), frame.n), frame.n + 1)
        BY <3>2, <4>2, <4>3, OnTheWaySent
      <4>5. Packets!Send
        BY <2>3, <4>2, <4>3, <4>4, Zenon DEF Packets!Send, OnTheWay
      <4> QED
        BY <2>3, <4>5, Zenon DEF Packets!Next
    <3>7. ASSUME NEW c \in Calls, Lock(c)
          PROVE  [Packets!Next]_(Packets!vars)
      <4>1. PICK size \in Sizes : frame' = [frame EXCEPT !.size = size]
        BY <3>7 DEF Lock
      <4>2. frame'.n = frame.n
        BY <4>1 DEF IndInv, TypeOK
      <4> QED
        BY <3>3, <3>7, <4>2 DEF Lock
    <3>8. ASSUME NEW c \in Calls, LengthWritten(c) \/ WritePacket(c) \/ PacketWritten(c) \/ Drop(c)
          PROVE  [Packets!Next]_(Packets!vars)
      BY <3>3, <3>8 DEF LengthWritten, WritePacket, PacketWritten, Drop, Extend, Wake
    <3> QED
      BY <3>4, <3>5, <3>6, <3>7, <3>8 DEF Next, Read, Send
  <2> QED
    BY <2>1, <2>2, <2>3
<1> QED
  BY <1>1, <1>2, Invariance, PTL DEF Spec, Packets!Spec
=============================================================================
