---------------------------- MODULE FramingProofs ---------------------------
(***************************************************************************)
(* Framing delivers every packet intact and in order, for every set of     *)
(* packets, every way TCP cuts the stream, every socket capacity and every *)
(* number of connections, as long as sender and receiver speak the same    *)
(* protocol version, no payload overflows the length field, and a receive  *)
(* buffer does not outlive its connection.                                 *)
(***************************************************************************)
EXTENDS Framing, SequenceFacts

\* Both ends speak one version and no payload overflows the length field.
Matching ==
    /\ SenderVersion = PROTOCOL_VERSION
    /\ \A p \in Packets : Len(p.data) < LengthModulus

\* The conditions of the theorems: what Framing's counterexamples violate.
Compatible ==
    /\ Matching
    /\ Receiver = "session" \/ MaxConnections = 1

\* What a connection must do for the next one to be framed: the buffer that
\* outlives it, a Client's, holds no part of a packet when it ends.
TidyReconnect == Reconnect => Receiver = "session" \/ read_buffer = <<>>

\* What the application must do for no write to be torn: it sends a packet
\* only when the kernel has room for the whole of it.
RoomySend == \A p \in Packets : Send(p) => Len(Serialize(p)) <= Room

(***************************************************************************)
(* The inductive invariant.  IsPrefix alone is not inductive: that the     *)
(* next packet decodes to the next one sent needs to know what every cell  *)
(* of the buffer is, which needs to know what every cell of the stream is. *)
(***************************************************************************)
\* The end of packet n - 1, which is where packet n starts.
Start(n) == IF n = 1 THEN 0 ELSE sent_end[n - 1]

SizeOf(n) == HeaderSize + Len(sent[n].data)

\* The ends recorded are those of back-to-back packets.
EndsOK ==
    /\ \A n \in 1..Len(sent) : sent_end[n] = Start(n) + SizeOf(n)
    /\ \A m, n \in 1..Len(sent) : m < n => sent_end[m] < sent_end[n]

\* The stream is the serialised packets back to back.
StreamOK ==
    /\ queued = 0
    /\ Len(stream) = Start(Len(sent) + 1)
    /\ \A n \in 1..Len(sent) : \A i \in 1..SizeOf(n) :
           stream[Start(n) + i] = Serialize(sent[n])[i]

DispatchedOK ==
    /\ Len(dispatched) <= Len(sent)
    /\ \A n \in 1..Len(dispatched) : dispatched[n] = sent[n]

\* The buffer is the arrived part of the stream behind the last packet
\* dispatched, cell by cell.
BufferOK ==
    /\ Start(Len(dispatched) + 1) + Len(read_buffer) = arrived
    /\ \A i \in 1..Len(read_buffer) :
           read_buffer[i] = stream[Start(Len(dispatched) + 1) + i]

Framed == EndsOK /\ StreamOK /\ DispatchedOK /\ BufferOK

IInv == TypeOK /\ (~torn => Framed)

USE DEF HeaderSize

-----------------------------------------------------------------------------
\* What Serialize puts where (Packet::serialize).
LEMMA SerializeCells ==
    ASSUME NEW p \in Packets
    PROVE  /\ p.data \in Seq(Nat) /\ p.type \in Nat /\ p.sequence \in Nat
           /\ Len(p.data) \in Nat
           /\ p = [type |-> p.type, data |-> p.data, sequence |-> p.sequence]
           /\ Serialize(p) \in Seq(Nat)
           /\ Len(Serialize(p)) = HeaderSize + Len(p.data)
           /\ Serialize(p)[1] = SenderVersion
           /\ Serialize(p)[2] = p.type
           /\ Serialize(p)[3] = Len(p.data) % LengthModulus
           /\ Serialize(p)[4] = p.sequence
           /\ \A i \in 1..Len(p.data) : Serialize(p)[HeaderSize + i] = p.data[i]
<1>1. p \in [type : Nat, data : Seq(Nat), sequence : Nat]
  BY PacketsAssumption
<1>2. /\ p.data \in Seq(Nat) /\ p.type \in Nat /\ p.sequence \in Nat
      /\ p = [type |-> p.type, data |-> p.data, sequence |-> p.sequence]
  BY <1>1
<1>3. Len(p.data) \in Nat
  BY <1>2
<1>4. SenderVersion \in Nat /\ LengthModulus \in Nat \ {0}
  BY ParametersAssumption
<1>5. Len(p.data) % LengthModulus \in Nat
  BY <1>3, <1>4, RemainderFacts
<1> DEFINE h == <<SenderVersion, p.type, Len(p.data) % LengthModulus, p.sequence>>
<1>6. /\ h \in Seq(Nat) /\ Len(h) = 4
      /\ h[1] = SenderVersion /\ h[2] = p.type
      /\ h[3] = Len(p.data) % LengthModulus /\ h[4] = p.sequence
  BY <1>2, <1>4, <1>5
<1>7. Serialize(p) = h \o p.data
  BY DEF Serialize
<1> HIDE DEF h
<1>8. /\ h \o p.data \in Seq(Nat)
      /\ Len(h \o p.data) = Len(h) + Len(p.data)
      /\ \A i \in 1..Len(h) : (h \o p.data)[i] = h[i]
      /\ \A i \in 1..Len(p.data) : (h \o p.data)[Len(h) + i] = p.data[i]
  <2>1. p.data \in Seq(Nat) /\ h \in Seq(Nat)
    BY <1>2, <1>6
  <2> QED
    BY <2>1, ConcatElements
<1>9. 1 \in 1..Len(h) /\ 2 \in 1..Len(h) /\ 3 \in 1..Len(h) /\ 4 \in 1..Len(h)
  BY <1>6
<1>10. /\ Serialize(p)[1] = SenderVersion
       /\ Serialize(p)[2] = p.type
       /\ Serialize(p)[3] = Len(p.data) % LengthModulus
       /\ Serialize(p)[4] = p.sequence
  BY <1>6, <1>7, <1>8, <1>9
<1>11. \A i \in 1..Len(p.data) : Serialize(p)[HeaderSize + i] = p.data[i]
  BY <1>6, <1>7, <1>8
<1>12. Serialize(p) \in Seq(Nat) /\ Len(Serialize(p)) = HeaderSize + Len(p.data)
  BY <1>6, <1>7, <1>8
<1> QED
  BY <1>2, <1>3, <1>10, <1>11, <1>12

\* Packet::deserialize inverts Packet::serialize, whatever follows the packet
\* in the buffer: for every packet whose length fits the header's field.
THEOREM RoundTrip ==
    ASSUME NEW p \in Packets, Len(p.data) < LengthModulus,
           NEW rest \in Seq(Nat)
    PROVE  Deserialize(Serialize(p) \o rest) = p
<1> PICK k \in Nat : k = Len(p.data)
  BY SerializeCells
<1> DEFINE c == Serialize(p)
           cells == c \o rest
<1>1. c \in Seq(Nat) /\ rest \in Seq(Nat) /\ Len(c) = HeaderSize + k
  BY SerializeCells
<1>2. Len(rest) \in Nat
  OBVIOUS
<1>3. k % LengthModulus = k
  <2>1. LengthModulus \in Nat \ {0}
    BY ParametersAssumption
  <2> QED
    BY <2>1, RemainderFacts
<1>4. /\ c[2] = p.type /\ c[3] = k /\ c[4] = p.sequence
      /\ \A i \in 1..k : c[HeaderSize + i] = p.data[i]
  BY <1>3, SerializeCells
<1> HIDE DEF c
<1>5. /\ cells \in Seq(Nat) /\ Len(cells) = Len(c) + Len(rest)
      /\ \A i \in 1..Len(c) : cells[i] = c[i]
  <2>1. c \in Seq(Nat) /\ rest \in Seq(Nat)
    BY <1>1
  <2> QED
    BY <2>1, ConcatElements
<1> HIDE DEF cells
<1>6. cells[2] = p.type /\ cells[3] = k /\ cells[4] = p.sequence
  <2>1. 2 \in 1..Len(c) /\ 3 \in 1..Len(c) /\ 4 \in 1..Len(c)
    BY <1>1
  <2> QED
    BY <2>1, <1>4, <1>5
<1> DEFINE d == SubSeq(cells, HeaderSize + 1, HeaderSize + k)
<1>7. /\ d \in Seq(Nat) /\ Len(d) = k
      /\ \A i \in 1..k : d[i] = cells[HeaderSize + i]
  <2> PICK m \in Nat : m = HeaderSize + k
    OBVIOUS
  <2>1. /\ HeaderSize \in 0..Len(cells) /\ m \in HeaderSize..Len(cells)
        /\ m - HeaderSize = k
    BY <1>1, <1>2, <1>5
  <2>2. d = SubSeq(cells, HeaderSize + 1, m)
    OBVIOUS
  <2>3. cells \in Seq(Nat)
    BY <1>5
  <2> HIDE DEF HeaderSize, d
  <2>4. /\ d \in Seq(Nat) /\ Len(d) = m - HeaderSize
        /\ \A i \in 1..(m - HeaderSize) : d[i] = cells[HeaderSize + i]
    BY <2>1, <2>2, <2>3, SliceElements, SMTT(30)
  <2> QED
    BY <2>1, <2>4
<1>8. \A i \in 1..k : d[i] = p.data[i]
  <2> SUFFICES ASSUME NEW i \in 1..k PROVE d[i] = p.data[i]
    OBVIOUS
  <2>1. HeaderSize + i \in 1..Len(c)
    BY <1>1
  <2> QED
    BY <2>1, <1>4, <1>5, <1>7
<1>9. d = p.data
  <2>1. p.data \in Seq(Nat)
    BY SerializeCells
  <2> HIDE DEF d
  <2> QED
    BY <2>1, <1>7, <1>8, SeqEqual
<1>10. Deserialize(cells)
         = [type |-> p.type, data |-> p.data, sequence |-> p.sequence]
  BY <1>6, <1>9 DEF Deserialize
<1>11. p = [type |-> p.type, data |-> p.data, sequence |-> p.sequence]
  BY SerializeCells
<1> QED
  BY <1>10, <1>11 DEF cells, c

\* How much uv_write takes of a packet, and when it takes all of it.
LEMMA TakenBounds ==
    ASSUME TypeOK, NEW p \in Packets
    PROVE  /\ Taken(Serialize(p)) \in 0..Len(Serialize(p))
           /\ Taken(Serialize(p)) <= Room
           /\ Room \in Nat
<1>1. Len(Serialize(p)) \in Nat
  BY SerializeCells
<1>2. Room \in Nat /\ queued \in Nat
  BY ParametersAssumption DEF TypeOK, Room
<1> QED
  BY <1>1, <1>2 DEF Taken

\* The parsing loop is left where no whole packet is in the buffer.
LEMMA LoopStep ==
    ASSUME processing \/ ~HasPacket, [Next]_vars
    PROVE  (processing \/ ~HasPacket)'
<1>1. ASSUME NEW p \in Packets, Send(p) PROVE (processing \/ ~HasPacket)'
  BY <1>1 DEF Send, HasPacket
<1>2. CASE Flush \/ UNCHANGED vars
  BY <1>2 DEF Flush, vars, HasPacket
<1>3. ASSUME NEW n \in Chunks, OnRead(n) PROVE (processing \/ ~HasPacket)'
  BY <1>3 DEF OnRead
<1>4. CASE ProcessPacket
  BY <1>4 DEF ProcessPacket
<1>5. CASE ProcessFailure
  <2>1. Len(read_buffer') = 0
    BY <1>5 DEF ProcessFailure
  <2> QED
    BY <2>1 DEF HasPacket
<1>6. CASE ProcessDone
  BY <1>6 DEF ProcessDone, HasPacket
<1>7. CASE Reconnect
  <2>1. processing' = processing /\ (read_buffer' = read_buffer \/ Len(read_buffer') = 0)
        /\ ~processing
    BY <1>7 DEF Reconnect
  <2> QED
    BY <2>1 DEF HasPacket
<1> QED
  BY <1>1, <1>2, <1>3, <1>4, <1>5, <1>6, <1>7 DEF Next

\* The type invariant's initial and inductive steps.
LEMMA TypeInit == Init => TypeOK
<1> SUFFICES ASSUME Init PROVE TypeOK
  OBVIOUS
<1>1. /\ stream \in Seq(Nat) /\ Len(stream) = 0 /\ queued \in Nat /\ arrived = 0
      /\ read_buffer \in Seq(Nat) /\ sent \in Seq(Packets)
  BY DEF Init
<1>2. /\ dispatched \in Seq([type : Nat, data : Seq(Nat), sequence : Nat])
      /\ sent_end \in Seq(Nat) /\ Len(sent_end) = Len(sent)
  BY DEF Init
<1>3. torn \in BOOLEAN /\ processing \in BOOLEAN
  BY DEF Init
<1>4. connection \in 1..MaxConnections
  BY ParametersAssumption DEF Init
<1>5. arrived \in 0..Len(stream) /\ Len(stream) - arrived <= SocketCapacity
  BY <1>1, ParametersAssumption
<1>6. ~HasPacket
  <2>1. Len(read_buffer) = 0
    BY DEF Init
  <2> QED
    BY <2>1 DEF HasPacket
<1> QED
  BY <1>1, <1>2, <1>3, <1>4, <1>5, <1>6 DEF TypeOK

LEMMA TypeStep == TypeOK /\ [Next]_vars => TypeOK'
<1> SUFFICES ASSUME TypeOK, [Next]_vars PROVE TypeOK'
  OBVIOUS
<1>0. (processing \/ ~HasPacket)'
  BY LoopStep DEF TypeOK
<1> USE ParametersAssumption
<1>1. ASSUME NEW p \in Packets, Send(p) PROVE TypeOK'
  <2> DEFINE k == Taken(Serialize(p))
  <2>1. /\ k \in 0..Len(Serialize(p)) /\ k <= Room
        /\ Serialize(p) \in Seq(Nat) /\ Len(Serialize(p)) \in Nat
    BY TakenBounds, SerializeCells
  <2>2. SubSeq(Serialize(p), 1, k) \in Seq(Nat) /\ Len(SubSeq(Serialize(p), 1, k)) = k
    BY <2>1
  <2>3. stream' \in Seq(Nat) /\ Len(stream') = Len(stream) + k
    BY <2>2, <1>1, SMTT(30) DEF Send, TypeOK
  <2>4. queued' \in Nat
    <3>1. queued' = queued + Len(Serialize(p)) - k
      BY <1>1 DEF Send
    <3>2. queued \in Nat
      BY DEF TypeOK
    <3> HIDE DEF k
    <3> QED
      BY <2>1, <3>1, <3>2
  <2>5. sent' \in Seq(Packets) /\ sent_end' \in Seq(Nat) /\ Len(sent_end') = Len(sent')
    <3>1. sent \in Seq(Packets) /\ sent_end \in Seq(Nat) /\ Len(sent_end) = Len(sent)
      BY DEF TypeOK
    <3>2. Len(stream) + queued + Len(Serialize(p)) \in Nat
      BY <2>1 DEF TypeOK
    <3>3. /\ sent' = Append(sent, p)
          /\ sent_end' = Append(sent_end, Len(stream) + queued + Len(Serialize(p)))
      BY <1>1 DEF Send
    <3> QED
      BY <3>1, <3>2, <3>3, AppendElements
  <2>6. arrived' \in 0..Len(stream') /\ Len(stream') - arrived' <= SocketCapacity
    <3>1. arrived' = arrived /\ arrived \in Nat /\ arrived <= Len(stream)
      BY <1>1 DEF Send, TypeOK
    <3> QED
      BY <2>1, <2>3, <3>1 DEF TypeOK, Room
  <2>7. torn' \in BOOLEAN
    BY <1>1 DEF Send, TypeOK
  <2> QED
    BY <1>0, <2>3, <2>4, <2>5, <2>6, <2>7, <1>1 DEF Send, TypeOK
<1>2. CASE Flush
  <2>1. PICK c \in Garbage : stream' = Append(stream, c)
    BY <1>2 DEF Flush
  <2>2. stream' \in Seq(Nat) /\ Len(stream') = Len(stream) + 1
    BY <2>1 DEF TypeOK
  <2> QED
    BY <1>0, <2>2, <1>2 DEF Flush, TypeOK, Room, history
<1>3. ASSUME NEW n \in Chunks, OnRead(n) PROVE TypeOK'
  <2>1. n \in Nat /\ arrived + n <= Len(stream) /\ Len(stream) \in Nat
    BY DEF Chunks, TypeOK
  <2>2. SubSeq(stream, arrived + 1, arrived + n) \in Seq(Nat)
    BY <2>1, SubSeqProperties DEF TypeOK
  <2> QED
    BY <1>0, <2>1, <2>2, <1>3 DEF OnRead, WithChunk, TypeOK, history
<1>4. CASE ProcessPacket
  <2>1. /\ Len(read_buffer) \in Nat /\ Len(read_buffer) >= HeaderSize
        /\ \A i \in 1..Len(read_buffer) : read_buffer[i] \in Nat
    <3>1. read_buffer \in Seq(Nat) /\ Len(read_buffer) >= HeaderSize
      BY <1>4 DEF ProcessPacket, HasPacket, TypeOK
    <3> QED
      BY <3>1
  <2>2. /\ read_buffer[2] \in Nat /\ read_buffer[3] \in Nat /\ read_buffer[4] \in Nat
        /\ Len(read_buffer) >= HeaderSize + read_buffer[3]
    BY <2>1, <1>4 DEF ProcessPacket, HasPacket
  <2>3. SubSeq(read_buffer, HeaderSize + 1, HeaderSize + read_buffer[3]) \in Seq(Nat)
    BY <2>1, <2>2, SubSeqProperties
  <2>4. Deserialize(read_buffer) \in [type : Nat, data : Seq(Nat), sequence : Nat]
    BY <2>2, <2>3 DEF Deserialize
  <2>5. SubSeq(read_buffer, HeaderSize + read_buffer[3] + 1, Len(read_buffer)) \in Seq(Nat)
    BY <2>1, <2>2, SubSeqProperties
  <2> QED
    BY <1>0, <2>4, <2>5, <1>4 DEF ProcessPacket, Erased, TypeOK, wire, history
<1>5. CASE ProcessFailure
  <2>1. read_buffer' \in Seq(Nat)
    BY <1>5 DEF ProcessFailure
  <2> QED
    BY <1>0, <2>1, <1>5 DEF ProcessFailure, TypeOK, wire, history
<1>6. CASE ProcessDone
  BY <1>0, <1>6 DEF ProcessDone, TypeOK, wire, history
<1>7. CASE Reconnect
  <2>1. /\ stream' \in Seq(Nat) /\ Len(stream') = 0 /\ queued' \in Nat /\ arrived' = 0
        /\ read_buffer' \in Seq(Nat) /\ sent' \in Seq(Packets)
    BY <1>7 DEF Reconnect, TypeOK
  <2>2. /\ dispatched' \in Seq([type : Nat, data : Seq(Nat), sequence : Nat])
        /\ sent_end' \in Seq(Nat) /\ Len(sent_end') = Len(sent')
    BY <1>7 DEF Reconnect
  <2>3. torn' \in BOOLEAN /\ processing' \in BOOLEAN
    BY <1>7 DEF Reconnect, TypeOK
  <2>4. connection' \in 1..MaxConnections
    <3>1. connection' = connection + 1 /\ connection < MaxConnections
      BY <1>7 DEF Reconnect
    <3> QED
      BY <3>1 DEF TypeOK
  <2> QED
    BY <1>0, <2>1, <2>2, <2>3, <2>4 DEF TypeOK
<1>8. CASE UNCHANGED vars
  BY <1>0, <1>8 DEF vars, wire, history, TypeOK
<1> QED
  BY <1>1, <1>2, <1>3, <1>4, <1>5, <1>6, <1>7, <1>8 DEF Next

\* The type invariant of Framing.
THEOREM TypeCorrect == Spec => []TypeOK
  BY TypeInit, TypeStep, PTL DEF Spec

-----------------------------------------------------------------------------
\* What the type invariant says of the histories, element by element.
LEMMA SentFacts ==
    ASSUME TypeOK
    PROVE  /\ Len(sent) \in Nat /\ Len(stream) \in Nat /\ arrived \in Nat
           /\ Len(dispatched) \in Nat /\ Len(read_buffer) \in Nat
           /\ \A n \in 1..Len(sent) : /\ sent[n] \in Packets
                                      /\ Len(sent[n].data) \in Nat
                                      /\ SizeOf(n) \in Nat /\ SizeOf(n) > 0
                                      /\ sent_end[n] \in Nat
           /\ \A n \in 1..(Len(sent) + 1) : Start(n) \in Nat
<1>1. /\ Len(sent) \in Nat /\ Len(stream) \in Nat /\ arrived \in Nat
      /\ Len(dispatched) \in Nat /\ Len(read_buffer) \in Nat
  BY DEF TypeOK
<1>2. \A n \in 1..Len(sent) : sent[n] \in Packets /\ sent_end[n] \in Nat
  BY DEF TypeOK
<1>3. \A n \in 1..Len(sent) : Len(sent[n].data) \in Nat
  BY <1>2, SerializeCells
<1>4. \A n \in 1..(Len(sent) + 1) : Start(n) \in Nat
  BY <1>1, <1>2 DEF Start
<1> QED
  BY <1>1, <1>2, <1>3, <1>4 DEF SizeOf

\* A header at the front of the buffer is the header of the next packet that
\* was sent, and the cells behind it are that packet's.
LEMMA BufferFront ==
    ASSUME TypeOK, Framed, Matching, Len(read_buffer) >= HeaderSize
    PROVE  LET n == Len(dispatched) + 1 IN
           /\ n \in 1..Len(sent)
           /\ sent_end[n] <= Len(stream)
           /\ read_buffer[1] = PROTOCOL_VERSION
           /\ read_buffer[2] = sent[n].type
           /\ read_buffer[3] = Len(sent[n].data)
           /\ read_buffer[4] = sent[n].sequence
           /\ \A i \in 1..SizeOf(n) : i <= Len(read_buffer)
                  => read_buffer[i] = Serialize(sent[n])[i]
<1> DEFINE n == Len(dispatched) + 1
<1>1. n \in 1..(Len(sent) + 1) /\ n \in Nat
  BY SentFacts DEF Framed, DispatchedOK
<1>2. n # Len(sent) + 1
  <2>1. Start(n) + Len(read_buffer) <= Len(stream) /\ Start(n) \in Nat
    BY <1>1, SentFacts DEF Framed, BufferOK, TypeOK
  <2>2. Start(Len(sent) + 1) = Len(stream)
    BY DEF Framed, StreamOK
  <2> QED
    BY <2>1, <2>2, SentFacts
<1>3. n \in 1..Len(sent)
  BY <1>1, <1>2, SentFacts
<1>4. sent_end[n] <= Len(stream)
  <2>1. Len(sent) \in 1..Len(sent) /\ Len(sent) + 1 # 1
    BY <1>3, SentFacts
  <2>2. Len(stream) = sent_end[Len(sent)]
    BY <2>1, SentFacts DEF Framed, StreamOK, Start
  <2>3. CASE n = Len(sent)
    BY <2>2, <2>3, SentFacts
  <2>4. CASE n < Len(sent)
    <3>1. sent_end[n] < sent_end[Len(sent)]
      BY <1>3, <2>1, <2>4 DEF Framed, EndsOK
    <3> QED
      BY <3>1, <2>2, <2>1, <1>3, SentFacts
  <2> QED
    BY <1>3, <2>3, <2>4, SentFacts
<1>5. \A i \in 1..SizeOf(n) : i <= Len(read_buffer)
          => read_buffer[i] = Serialize(sent[n])[i]
  <2>1. \A i \in 1..Len(read_buffer) : read_buffer[i] = stream[Start(n) + i]
    BY DEF Framed, BufferOK
  <2>2. \A i \in 1..SizeOf(n) : stream[Start(n) + i] = Serialize(sent[n])[i]
    BY <1>3 DEF Framed, StreamOK
  <2>3. SizeOf(n) \in Nat
    BY <1>3, SentFacts
  <2> QED
    BY <2>1, <2>2, <2>3, SentFacts
<1>6. /\ 1 \in 1..SizeOf(n) /\ 2 \in 1..SizeOf(n)
      /\ 3 \in 1..SizeOf(n) /\ 4 \in 1..SizeOf(n)
  BY <1>3, SentFacts, SMTT(30) DEF SizeOf
<1>7. /\ read_buffer[1] = Serialize(sent[n])[1]
      /\ read_buffer[2] = Serialize(sent[n])[2]
      /\ read_buffer[3] = Serialize(sent[n])[3]
      /\ read_buffer[4] = Serialize(sent[n])[4]
  BY <1>5, <1>6, SentFacts
<1>8. sent[n] \in Packets /\ Len(sent[n].data) \in Nat
  BY <1>3, SentFacts
<1>9. Len(sent[n].data) % LengthModulus = Len(sent[n].data)
  <2>1. Len(sent[n].data) < LengthModulus /\ LengthModulus \in Nat \ {0}
    BY <1>8, ParametersAssumption DEF Matching
  <2> QED
    BY <2>1, <1>8, RemainderFacts
<1>10. /\ Serialize(sent[n])[1] = PROTOCOL_VERSION
       /\ Serialize(sent[n])[2] = sent[n].type
       /\ Serialize(sent[n])[3] = Len(sent[n].data)
       /\ Serialize(sent[n])[4] = sent[n].sequence
  BY <1>8, <1>9, SerializeCells DEF Matching
<1> QED
  BY <1>3, <1>4, <1>5, <1>7, <1>10

\* Decoding the front of the buffer gives back the packet that was sent
\* (Packet::deserialize inverts Packet::serialize).
LEMMA DecodedIsSent ==
    ASSUME TypeOK, Framed, Matching, HasPacket
    PROVE  /\ Len(dispatched) + 1 \in 1..Len(sent)
           /\ read_buffer[3] = Len(sent[Len(dispatched) + 1].data)
           /\ SizeOf(Len(dispatched) + 1) <= Len(read_buffer)
           /\ Deserialize(read_buffer) = sent[Len(dispatched) + 1]
<1> DEFINE n == Len(dispatched) + 1
           p == sent[n]
<1>1. Len(read_buffer) >= HeaderSize
  BY DEF HasPacket
<1>2. /\ n \in 1..Len(sent)
      /\ read_buffer[2] = p.type
      /\ read_buffer[3] = Len(p.data)
      /\ read_buffer[4] = p.sequence
      /\ \A i \in 1..SizeOf(n) : i <= Len(read_buffer)
             => read_buffer[i] = Serialize(p)[i]
  BY <1>1, BufferFront
<1>3. p \in Packets /\ Len(p.data) \in Nat /\ SizeOf(n) \in Nat
  BY <1>2, SentFacts
<1>4. SizeOf(n) = HeaderSize + Len(p.data) /\ SizeOf(n) <= Len(read_buffer)
  BY <1>2 DEF HasPacket, SizeOf
<1> DEFINE d == SubSeq(read_buffer, HeaderSize + 1, HeaderSize + Len(p.data))
<1>5. /\ d \in Seq(Nat) /\ Len(d) = Len(p.data)
      /\ \A i \in 1..Len(p.data) : d[i] = read_buffer[HeaderSize + i]
  <2> DEFINE k == HeaderSize + Len(p.data)
  <2>1. read_buffer \in Seq(Nat) /\ HeaderSize \in 0..Len(read_buffer)
    BY <1>1, SentFacts DEF TypeOK
  <2>2. k \in HeaderSize..Len(read_buffer) /\ k - HeaderSize = Len(p.data)
    BY <1>3, <1>4, SentFacts
  <2>3. d = SubSeq(read_buffer, HeaderSize + 1, k)
    OBVIOUS
  <2> HIDE DEF HeaderSize, k, d
  <2> QED
    BY <2>1, <2>2, <2>3, SliceElements, SMTT(30)
<1>6. \A i \in 1..Len(p.data) : d[i] = p.data[i]
  <2> SUFFICES ASSUME NEW i \in 1..Len(p.data) PROVE d[i] = p.data[i]
    OBVIOUS
  <2>1. HeaderSize + i \in 1..SizeOf(n) /\ HeaderSize + i <= Len(read_buffer)
    BY <1>3, <1>4, SentFacts, SMTT(30)
  <2>2. read_buffer[HeaderSize + i] = Serialize(p)[HeaderSize + i]
    BY <1>2, <2>1
  <2>3. Serialize(p)[HeaderSize + i] = p.data[i]
    BY <1>3, SerializeCells
  <2> QED
    BY <1>5, <2>2, <2>3
<1>7. d = p.data
  <2>1. p.data \in Seq(Nat)
    BY <1>3, SerializeCells
  <2> HIDE DEF d
  <2> QED
    BY <2>1, <1>5, <1>6, SeqEqual
<1>8. Deserialize(read_buffer)
        = [type |-> p.type, data |-> p.data, sequence |-> p.sequence]
  BY <1>2, <1>7 DEF Deserialize
<1>9. p = [type |-> p.type, data |-> p.data, sequence |-> p.sequence]
  BY <1>3, SerializeCells
<1> QED
  BY <1>2, <1>4, <1>8, <1>9

-----------------------------------------------------------------------------
LEMMA IInvInit == Init => IInv
<1> SUFFICES ASSUME Init PROVE IInv
  OBVIOUS
<1>1. TypeOK
  BY TypeInit
<1>2. /\ Len(sent) = 0 /\ Len(stream) = 0 /\ Len(dispatched) = 0
      /\ Len(read_buffer) = 0 /\ queued = 0 /\ arrived = 0
  BY DEF Init
<1>3. Framed
  BY <1>2 DEF Framed, EndsOK, StreamOK, DispatchedOK, BufferOK, Start
<1> QED
  BY <1>1, <1>3 DEF IInv

\* A write that is taken whole extends the stream by one serialised packet.
LEMMA SendFramed ==
    ASSUME TypeOK, TypeOK', Framed, NEW p \in Packets, Send(p), ~torn'
    PROVE  Framed'
<1> DEFINE L == Len(Serialize(p))
<1>1. /\ Serialize(p) \in Seq(Nat) /\ L \in Nat /\ L > 0
      /\ L = HeaderSize + Len(p.data) /\ Len(p.data) \in Nat
  BY SerializeCells
<1>2. Taken(Serialize(p)) = L
  <2>1. Taken(Serialize(p)) \in 0..L
    BY TakenBounds
  <2>2. ~(Taken(Serialize(p)) < L)
    BY DEF Send
  <2> QED
    BY <2>1, <2>2, <1>1
<1>3. SubSeq(Serialize(p), 1, L) = Serialize(p)
  BY <1>1
<1>4. /\ stream' = stream \o Serialize(p)
      /\ queued' = queued + L - L
      /\ sent' = Append(sent, p)
      /\ sent_end' = Append(sent_end, Len(stream) + queued + L)
      /\ UNCHANGED <<arrived, read_buffer, dispatched>>
  BY <1>2, <1>3 DEF Send
<1>5. queued = 0 /\ queued' = 0
  BY <1>1, <1>4 DEF Framed, StreamOK
<1> PICK N \in Nat : N = Len(sent)
  BY SentFacts
<1>6. /\ N = Len(sent) /\ Len(sent') = N + 1 /\ sent'[N + 1] = p
      /\ \A n \in 1..N : sent'[n] = sent[n]
  BY <1>4 DEF TypeOK
<1>7. /\ Len(sent_end) = N /\ sent_end'[N + 1] = Len(stream) + L
      /\ \A n \in 1..N : sent_end'[n] = sent_end[n]
  <2>1. sent_end \in Seq(Nat) /\ Len(stream) + queued + L \in Nat
    BY <1>1, <1>5, SentFacts, SMTT(30) DEF TypeOK
  <2>2. /\ \A n \in 1..Len(sent_end) : sent_end'[n] = sent_end[n]
        /\ sent_end'[Len(sent_end) + 1] = Len(stream) + queued + L
    BY <2>1, <1>4, AppendElements
  <2> QED
    BY <2>2, <1>1, <1>5, SentFacts DEF TypeOK
<1>8. /\ Len(stream') = Len(stream) + L
      /\ \A i \in 1..Len(stream) : stream'[i] = stream[i]
      /\ \A i \in 1..L : stream'[Len(stream) + i] = Serialize(p)[i]
  <2>1. stream \in Seq(Nat)
    BY DEF TypeOK
  <2>2. /\ Len(stream \o Serialize(p)) = Len(stream) + Len(Serialize(p))
        /\ \A i \in 1..Len(stream) : (stream \o Serialize(p))[i] = stream[i]
        /\ \A i \in 1..Len(Serialize(p)) :
               (stream \o Serialize(p))[Len(stream) + i] = Serialize(p)[i]
    <3>1. Serialize(p) \in Seq(Nat)
      BY <1>1
    <3> QED
      BY <2>1, <3>1, ConcatElements
  <2> QED
    BY <2>2, <1>4
<1>9. /\ \A n \in 1..(N + 1) : Start(n)' = Start(n)
      /\ Start(N + 1) = Len(stream)
      /\ Start(N + 2)' = Len(stream) + L
  <2>1. Start(N + 1) = Len(stream)
    BY DEF Framed, StreamOK
  <2>2. \A n \in 1..(N + 1) : Start(n)' = Start(n)
    BY <1>6, <1>7 DEF Start
  <2>3. Start(N + 2)' = sent_end'[N + 1]
    BY <1>6 DEF Start
  <2> QED
    BY <2>1, <2>2, <2>3, <1>7
<1>10. /\ \A n \in 1..N : SizeOf(n)' = SizeOf(n)
       /\ SizeOf(N + 1)' = L
  BY <1>1, <1>6 DEF SizeOf
<1>11. \A n \in 1..N : sent_end[n] <= Len(stream)
  <2> SUFFICES ASSUME NEW n \in 1..N PROVE sent_end[n] <= Len(stream)
    OBVIOUS
  <2>1. N \in 1..N /\ sent_end[N] = Len(stream)
    BY <1>6, <1>9 DEF Start
  <2>2. n < N => sent_end[n] < sent_end[N]
    BY <2>1 DEF Framed, EndsOK
  <2> QED
    BY <2>1, <2>2, <1>6, SentFacts, SMTT(30)
<1>12. EndsOK'
  <2>1. ASSUME NEW n \in 1..(N + 1) PROVE sent_end'[n] = Start(n)' + SizeOf(n)'
    <3>1. CASE n \in 1..N
      <4>1. sent_end[n] = Start(n) + SizeOf(n)
        BY <3>1 DEF Framed, EndsOK
      <4> QED
        BY <3>1, <4>1, <1>6, <1>7, <1>9, <1>10
    <3>2. CASE n = N + 1
      BY <3>2, <1>6, <1>7, <1>9, <1>10
    <3> QED
      BY <3>1, <3>2, <1>6
  <2>2. ASSUME NEW m \in 1..(N + 1), NEW n \in 1..(N + 1), m < n
        PROVE  sent_end'[m] < sent_end'[n]
    <3>1. m \in 1..N
      BY <2>2, <1>6
    <3>2. CASE n \in 1..N
      BY <2>2, <3>1, <3>2, <1>7 DEF Framed, EndsOK
    <3>3. CASE n = N + 1
      <4>1. sent_end'[m] = sent_end[m] /\ sent_end[m] \in Nat
        BY <3>1, <1>6, <1>7, SentFacts
      <4>2. sent_end[m] <= Len(stream)
        BY <3>1, <1>11
      <4>3. sent_end'[n] = Len(stream) + L
        BY <3>3, <1>7
      <4>4. L \in Nat /\ L > 0 /\ Len(stream) \in Nat
        BY <1>1, SentFacts
      <4> QED
        BY <4>1, <4>2, <4>3, <4>4
    <3> QED
      BY <3>2, <3>3, <1>6
  <2> QED
    BY <2>1, <2>2, <1>6 DEF EndsOK
<1>13. StreamOK'
  <2>1. Len(stream') = Start(N + 2)'
    BY <1>8, <1>9
  <2>2. ASSUME NEW n \in 1..(N + 1), NEW i \in 1..SizeOf(n)'
        PROVE  stream'[Start(n)' + i] = Serialize(sent'[n])[i]
    <3>1. CASE n \in 1..N
      <4>1. stream[Start(n) + i] = Serialize(sent[n])[i]
        BY <2>2, <3>1, <1>10 DEF Framed, StreamOK
      <4>2. i \in 1..SizeOf(n) /\ SizeOf(n) \in Nat /\ Start(n) \in Nat
        BY <2>2, <3>1, <1>6, <1>10, SentFacts
      <4>3. Start(n) + SizeOf(n) <= Len(stream)
        BY <3>1, <1>11 DEF Framed, EndsOK
      <4>4. Start(n) + i \in 1..Len(stream)
        BY <4>2, <4>3, SentFacts
      <4> QED
        BY <3>1, <4>1, <4>4, <1>6, <1>8, <1>9
    <3>2. CASE n = N + 1
      BY <2>2, <3>2, <1>6, <1>8, <1>9, <1>10
    <3> QED
      BY <3>1, <3>2, <1>6
  <2>3. Len(sent') + 1 = N + 2
    BY <1>6
  <2> QED
    BY <2>1, <2>2, <2>3, <1>5, <1>6 DEF StreamOK
<1>14. DispatchedOK'
  BY <1>4, <1>6, SentFacts DEF Framed, DispatchedOK
<1>15. BufferOK'
  <2>1. Len(dispatched) + 1 \in 1..(N + 1)
    BY SentFacts DEF Framed, DispatchedOK
  <2>2. /\ Start(Len(dispatched) + 1) + Len(read_buffer) = arrived
        /\ \A i \in 1..Len(read_buffer) :
               read_buffer[i] = stream[Start(Len(dispatched) + 1) + i]
    BY DEF Framed, BufferOK
  <2>3. Start(Len(dispatched) + 1) \in Nat /\ arrived <= Len(stream)
    <3>1. arrived <= Len(stream)
      BY DEF TypeOK
    <3> QED
      BY <2>1, <3>1, <1>6, SentFacts
  <2>4. \A i \in 1..Len(read_buffer) :
            Start(Len(dispatched) + 1) + i \in 1..Len(stream)
    BY <2>2, <2>3, SentFacts
  <2>5. Start(Len(dispatched) + 1)' = Start(Len(dispatched) + 1)
    BY <2>1, <1>4, <1>9 DEF Start
  <2> QED
    BY <2>2, <2>4, <2>5, <1>4, <1>8 DEF BufferOK
<1> QED
  BY <1>12, <1>13, <1>14, <1>15 DEF Framed

\* A chunk appended to the buffer is the next part of the stream.
LEMMA OnReadFramed ==
    ASSUME TypeOK, Framed, NEW k \in Chunks, OnRead(k)
    PROVE  Framed'
<1>1. k \in Nat /\ arrived + k <= Len(stream)
  BY SentFacts DEF Chunks
<1> DEFINE chunk == SubSeq(stream, arrived + 1, arrived + k)
<1>2. /\ chunk \in Seq(Nat) /\ Len(chunk) = k
      /\ \A i \in 1..k : chunk[i] = stream[arrived + i]
  <2>1. stream \in Seq(Nat) /\ arrived \in 0..Len(stream)
    BY DEF TypeOK
  <2> PICK m \in Nat : m = arrived + k
    BY <1>1, SentFacts
  <2>2. m \in arrived..Len(stream) /\ m - arrived = k
    BY <1>1, SentFacts
  <2>3. /\ SubSeq(stream, arrived + 1, m) \in Seq(Nat)
        /\ Len(SubSeq(stream, arrived + 1, m)) = m - arrived
        /\ \A i \in 1..(m - arrived) :
               SubSeq(stream, arrived + 1, m)[i] = stream[arrived + i]
    BY <2>1, <2>2, SliceElements
  <2> QED
    BY <2>2, <2>3
<1>3. read_buffer' = read_buffer \o chunk
  BY DEF OnRead, WithChunk
<1> HIDE DEF chunk
<1>4. /\ Len(read_buffer') = Len(read_buffer) + k
      /\ \A i \in 1..Len(read_buffer) : read_buffer'[i] = read_buffer[i]
      /\ \A i \in 1..k : read_buffer'[Len(read_buffer) + i] = chunk[i]
  <2>1. read_buffer \in Seq(Nat) /\ chunk \in Seq(Nat)
    BY <1>2 DEF TypeOK
  <2>2. /\ Len(read_buffer \o chunk) = Len(read_buffer) + Len(chunk)
        /\ \A i \in 1..Len(read_buffer) : (read_buffer \o chunk)[i] = read_buffer[i]
        /\ \A i \in 1..Len(chunk) :
               (read_buffer \o chunk)[Len(read_buffer) + i] = chunk[i]
    BY <2>1, ConcatElements
  <2> QED
    BY <2>2, <1>2, <1>3
<1>5. UNCHANGED <<stream, queued, dispatched, sent, sent_end, torn>>
      /\ arrived' = arrived + k
  BY DEF OnRead, history
<1> PICK b \in Nat : b = Start(Len(dispatched) + 1)
  <2>1. Len(dispatched) + 1 \in 1..(Len(sent) + 1)
    BY SentFacts DEF Framed, DispatchedOK
  <2> QED
    BY <2>1, SentFacts
<1>6. b + Len(read_buffer) = arrived
      /\ \A i \in 1..Len(read_buffer) : read_buffer[i] = stream[b + i]
  BY DEF Framed, BufferOK
<1>7. b = Start(Len(dispatched) + 1)'
  BY <1>5 DEF Start
<1>8. b + Len(read_buffer') = arrived'
  BY <1>1, <1>4, <1>5, <1>6, SentFacts
<1>9. ASSUME NEW i \in 1..Len(read_buffer')
      PROVE  read_buffer'[i] = stream[b + i]
  <2>1. CASE i \in 1..Len(read_buffer)
    BY <2>1, <1>4, <1>6
  <2>2. CASE i \notin 1..Len(read_buffer)
    <3>1. /\ i - Len(read_buffer) \in 1..k
          /\ Len(read_buffer) + (i - Len(read_buffer)) = i
          /\ arrived + (i - Len(read_buffer)) = b + i
      BY <2>2, <1>1, <1>4, <1>6, SentFacts, SMTT(30)
    <3>2. read_buffer'[Len(read_buffer) + (i - Len(read_buffer))]
            = chunk[i - Len(read_buffer)]
      BY <3>1, <1>4
    <3>3. chunk[i - Len(read_buffer)] = stream[arrived + (i - Len(read_buffer))]
      BY <3>1, <1>2
    <3> QED
      BY <3>1, <3>2, <3>3
  <2> QED
    BY <2>1, <2>2
<1>10. BufferOK'
  BY <1>5, <1>7, <1>8, <1>9 DEF BufferOK
<1> QED
  BY <1>5, <1>10
     DEF Framed, EndsOK, StreamOK, DispatchedOK, Start, SizeOf

\* One round of the loop moves exactly one packet from the buffer to the
\* handlers, and it is the next one sent.
LEMMA ProcessPacketFramed ==
    ASSUME TypeOK, TypeOK', Framed, Matching, ProcessPacket
    PROVE  /\ Framed'
           /\ Len(dispatched) < Len(sent)
           /\ dispatched' = Append(dispatched, sent[Len(dispatched) + 1])
<1> PICK d \in Nat : d = Len(dispatched)
  BY SentFacts
<1>1. /\ d + 1 \in 1..Len(sent)
      /\ read_buffer[3] = Len(sent[d + 1].data)
      /\ SizeOf(d + 1) <= Len(read_buffer)
      /\ Deserialize(read_buffer) = sent[d + 1]
  BY DecodedIsSent DEF ProcessPacket
<1>2. /\ dispatched' = Append(dispatched, sent[d + 1])
      /\ UNCHANGED <<stream, queued, arrived, sent, sent_end, torn>>
  BY <1>1 DEF ProcessPacket, wire, history
<1>3. /\ Len(dispatched') = d + 1 /\ dispatched'[d + 1] = sent[d + 1]
      /\ \A n \in 1..d : dispatched'[n] = dispatched[n]
  <2>1. Len(dispatched') = d + 1
    BY <1>2 DEF TypeOK
  <2> QED
    BY <1>2, <2>1 DEF TypeOK
<1> PICK z \in Nat : z = SizeOf(d + 1)
  BY <1>1, SentFacts
<1>4. read_buffer' = SubSeq(read_buffer, z + 1, Len(read_buffer))
  <2>1. z = HeaderSize + read_buffer[3]
    BY <1>1 DEF SizeOf
  <2> QED
    BY <2>1 DEF ProcessPacket, Erased
<1>5. /\ Len(read_buffer') = Len(read_buffer) - z
      /\ \A i \in 1..(Len(read_buffer) - z) : read_buffer'[i] = read_buffer[z + i]
  <2>1. read_buffer \in Seq(Nat)
    BY DEF TypeOK
  <2>2. z \in 0..Len(read_buffer)
    BY <1>1, SentFacts
  <2> QED
    BY <2>1, <2>2, <1>4, RestElements
<1> PICK b \in Nat : b = Start(d + 1)
  BY <1>1, SentFacts, SMTT(30)
<1>6. /\ b + Len(read_buffer) = arrived
      /\ \A i \in 1..Len(read_buffer) : read_buffer[i] = stream[b + i]
  BY DEF Framed, BufferOK
<1>7. Start(Len(dispatched) + 1)' = b + z
  <2>1. sent_end[d + 1] = b + z
    BY <1>1 DEF Framed, EndsOK
  <2>2. Start(Len(dispatched) + 1)' = sent_end[d + 1]
    BY <1>2, <1>3 DEF Start
  <2> QED
    BY <2>1, <2>2
<1>8. BufferOK'
  <2>1. b + z + Len(read_buffer') = arrived'
    <3>1. arrived' = arrived
      BY <1>2
    <3>2. Len(read_buffer) \in Nat
      BY SentFacts
    <3>3. Len(read_buffer') = Len(read_buffer) - z
      BY <1>5
    <3>4. b + Len(read_buffer) = arrived
      BY <1>6
    <3> QED
      BY <3>1, <3>2, <3>3, <3>4
  <2>2. ASSUME NEW i \in 1..Len(read_buffer')
        PROVE  read_buffer'[i] = stream[b + z + i]
    <3>1. z + i \in 1..Len(read_buffer) /\ i \in 1..(Len(read_buffer) - z)
      <4>1. Len(read_buffer) \in Nat
        BY SentFacts
      <4>2. Len(read_buffer') = Len(read_buffer) - z
        BY <1>5
      <4> QED
        BY <4>1, <4>2
    <3>2. read_buffer'[i] = read_buffer[z + i]
      BY <3>1, <1>5
    <3>3. read_buffer[z + i] = stream[b + (z + i)]
      BY <3>1, <1>6
    <3>4. b + (z + i) = b + z + i
      BY <3>1
    <3> QED
      BY <3>2, <3>3, <3>4
  <2> QED
    BY <2>1, <2>2, <1>2, <1>7 DEF BufferOK
<1>9. DispatchedOK'
  <2>1. ASSUME NEW n \in 1..(d + 1) PROVE dispatched'[n] = sent[n]
    <3>1. CASE n \in 1..d
      BY <3>1, <1>3 DEF Framed, DispatchedOK
    <3>2. CASE n = d + 1
      BY <3>2, <1>3
    <3> QED
      BY <3>1, <3>2
  <2> QED
    BY <2>1, <1>1, <1>2, <1>3, SentFacts DEF DispatchedOK
<1>10. EndsOK' /\ StreamOK'
  BY <1>2 DEF Framed, EndsOK, StreamOK, Start, SizeOf
<1> QED
  BY <1>1, <1>2, <1>8, <1>9, <1>10, SentFacts DEF Framed

\* Every step keeps it, if a buffer that outlives its connection is empty.
LEMMA IInvStep == Matching /\ IInv /\ [Next]_vars /\ [TidyReconnect]_vars => IInv'
<1> SUFFICES ASSUME Matching, IInv, [Next]_vars, [TidyReconnect]_vars PROVE IInv'
  OBVIOUS
<1>1. TypeOK /\ TypeOK'
  BY TypeStep DEF IInv
<1>2. ASSUME NEW p \in Packets, Send(p) PROVE ~torn' => Framed'
  <2>1. ~torn' => ~torn
    BY <1>2 DEF Send
  <2> QED
    BY <1>1, <1>2, <2>1, SendFramed DEF IInv
<1>3. CASE Flush
  <2>1. ~torn' => torn
    BY <1>1, <1>3 DEF Flush, history, IInv, Framed, StreamOK, TypeOK
  <2>2. torn' = torn
    BY <1>3 DEF Flush, history
  <2> QED
    BY <1>1, <2>1, <2>2 DEF IInv
<1>4. ASSUME NEW k \in Chunks, OnRead(k) PROVE ~torn' => Framed'
  <2>1. torn' = torn
    BY <1>4 DEF OnRead, history
  <2> QED
    BY <1>1, <1>4, <2>1, OnReadFramed DEF IInv
<1>5. CASE ProcessPacket
  <2>1. torn' = torn
    BY <1>5 DEF ProcessPacket, history
  <2> QED
    BY <1>1, <1>5, <2>1, ProcessPacketFramed DEF IInv
<1>6. CASE ProcessFailure
  <2>1. torn
    <3> SUFFICES ASSUME ~torn PROVE FALSE
      OBVIOUS
    <3>1. read_buffer[1] = PROTOCOL_VERSION
      BY <1>1, <1>6, BufferFront DEF IInv, ProcessFailure, HasPacket
    <3> QED
      BY <1>6, <3>1 DEF ProcessFailure, VersionMatches
  <2>2. torn' = torn
    BY <1>6 DEF ProcessFailure, history
  <2> QED
    BY <1>1, <2>1, <2>2 DEF IInv
<1>7. CASE ProcessDone
  <2>2. ~torn' => Framed'
    BY <1>7 DEF ProcessDone, wire, history, IInv, Framed, EndsOK, StreamOK,
                DispatchedOK, BufferOK, Start, SizeOf
  <2> QED
    BY <1>1, <2>2 DEF IInv
<1>8. CASE Reconnect
  <2>1. connection \in Nat /\ connection' = connection + 1
    BY <1>1, <1>8 DEF Reconnect, TypeOK
  <2>2. Receiver = "session" \/ read_buffer = <<>>
    <3>1. vars' # vars
      BY <2>1 DEF vars, history
    <3> QED
      BY <1>8, <3>1 DEF TidyReconnect
  <2>3. /\ Len(sent') = 0 /\ Len(stream') = 0 /\ Len(dispatched') = 0
        /\ Len(read_buffer') = 0 /\ queued' = 0 /\ arrived' = 0
    BY <1>8, <2>2 DEF Reconnect
  <2>4. Framed'
    BY <2>3 DEF Framed, EndsOK, StreamOK, DispatchedOK, BufferOK, Start
  <2> QED
    BY <1>1, <2>4 DEF IInv
<1>9. CASE UNCHANGED vars
  <2>2. ~torn' => Framed'
    BY <1>9 DEF vars, wire, history, IInv, Framed, EndsOK, StreamOK,
                DispatchedOK, BufferOK, Start, SizeOf
  <2> QED
    BY <1>1, <2>2 DEF IInv
<1> QED
  BY <1>1, <1>2, <1>3, <1>4, <1>5, <1>6, <1>7, <1>8, <1>9 DEF Next, IInv

\* What the invariant says of the packets the handlers have been given.
LEMMA IInvDelivers == IInv => InOrder /\ WholeMessages
<1> SUFFICES ASSUME IInv, ~torn
             PROVE  IsPrefix(dispatched, sent) /\ WholeMessages
  BY DEF InOrder, WholeMessages
<1>1. /\ Len(dispatched) \in Nat /\ Len(sent) \in Nat
      /\ Len(dispatched) <= Len(sent)
      /\ \A n \in 1..Len(dispatched) : dispatched[n] = sent[n]
  BY SentFacts DEF IInv, Framed, DispatchedOK
<1>2. WholeMessages
  <2>1. \A n \in 1..Len(dispatched) : n \in 1..Len(sent)
    BY <1>1
  <2> QED
    BY <1>1, <2>1 DEF WholeMessages
<1> PICK d \in Nat : d = Len(dispatched)
  BY <1>1
<1> DEFINE R == [type : Nat, data : Seq(Nat), sequence : Nat]
           s == SubSeq(dispatched, 1, d)
           t == SubSeq(sent, 1, d)
<1>3. \A i \in 1..d : sent[i] \in R /\ dispatched[i] = sent[i]
  <2>1. \A i \in 1..d : sent[i] \in Packets
    BY <1>1, SentFacts DEF IInv
  <2> QED
    BY <1>1, <2>1, PacketsAssumption
<1> HIDE DEF R
<1>4. /\ s \in Seq(R) /\ Len(s) = d
      /\ \A i \in 1..d : s[i] = dispatched[i]
  BY <1>3, SubSeqProperties
<1>5. /\ t \in Seq(R) /\ Len(t) = d
      /\ \A i \in 1..d : t[i] = sent[i]
  BY <1>3, SubSeqProperties
<1> HIDE DEF s, t
<1>6. s = t
  BY <1>3, <1>4, <1>5, SeqEqual
<1> QED
  BY <1>1, <1>2, <1>6 DEF IsPrefix, s, t

\* A Session's buffer dies with its connection, and a Client that never
\* reconnects has no second one: every step is tidy.
LEMMA CompatibleIsTidy ==
    ASSUME Compatible, TypeOK PROVE [TidyReconnect]_vars
<1> SUFFICES ASSUME Reconnect PROVE Receiver = "session"
  BY DEF TidyReconnect
<1>1. connection < MaxConnections /\ connection \in 1..MaxConnections
  BY DEF Reconnect, TypeOK
<1> QED
  BY <1>1, ParametersAssumption DEF Compatible

\* The inductive invariant holds in every behaviour.
LEMMA IInvAlways == ASSUME Compatible PROVE Spec => []IInv
<1>1. Init => IInv
  BY IInvInit
<1>2. IInv /\ [Next]_vars => IInv'
  BY IInvStep, CompatibleIsTidy DEF IInv, Compatible
<1> QED
  BY <1>1, <1>2, PTL DEF Spec

-----------------------------------------------------------------------------
\* Packets reach the handlers intact, in order, once (process_buffer,
\* append_to_buffer), on every connection whose writes are taken whole.
THEOREM DeliveredInOrder == ASSUME Compatible PROVE Spec => []InOrder
  BY IInvDelivers, IInvAlways, PTL

\* What the handlers get on a connection was sent on that connection
\* (client.cpp's loop "processes complete messages").
THEOREM MessagesAreWhole == ASSUME Compatible PROVE Spec => []WholeMessages
  BY IInvDelivers, IInvAlways, PTL

\* A Client that reconnects is served as well as a Session, if each of its
\* connections ends with nothing in buffer_: the rest that connect() does not
\* clear is the only thing that garbles the packets of the next connection.
THEOREM TidyClientsAreServed ==
    ASSUME Matching
    PROVE  Spec /\ [][TidyReconnect]_vars => [](InOrder /\ WholeMessages)
<1>1. Init => IInv
  BY IInvInit
<1>2. IInv /\ [Next]_vars /\ [TidyReconnect]_vars => IInv'
  BY IInvStep
<1> QED
  BY <1>1, <1>2, IInvDelivers, PTL DEF Spec

\* A step that fits the room tears no write.
LEMMA RoomyStep ==
    IInv /\ ~torn /\ [Next]_vars /\ [RoomySend]_vars => ~torn'
<1> SUFFICES ASSUME IInv, ~torn, [Next]_vars, [RoomySend]_vars PROVE ~torn'
  OBVIOUS
<1>1. ASSUME NEW p \in Packets, Send(p) PROVE ~torn'
  <2>1. TypeOK /\ queued = 0
    BY DEF IInv, Framed, StreamOK
  <2>2. sent \in Seq(Packets) /\ sent' = Append(sent, p)
    BY <2>1, <1>1 DEF TypeOK, Send
  <2>3. Len(sent') = Len(sent) + 1 /\ Len(sent) \in Nat
    BY <2>2, AppendElements
  <2>4. vars' # vars
    BY <2>3 DEF vars, history
  <2>5. Len(Serialize(p)) <= Room
    BY <1>1, <2>4 DEF RoomySend
  <2>6. Taken(Serialize(p)) = Len(Serialize(p)) /\ Len(Serialize(p)) \in Nat
    BY <2>1, <2>5, SerializeCells DEF Taken
  <2>7. ~(Taken(Serialize(p)) < Len(Serialize(p)))
    BY <2>6
  <2> QED
    BY <1>1, <2>7, Zenon DEF Send
<1>2. CASE \/ Flush \/ ProcessPacket \/ ProcessFailure \/ ProcessDone
           \/ UNCHANGED vars
  BY <1>2 DEF Flush, ProcessPacket, ProcessFailure, ProcessDone, vars, history
<1>3. ASSUME NEW k \in Chunks, OnRead(k) PROVE ~torn'
  BY <1>3 DEF OnRead, history
<1>4. CASE Reconnect
  BY <1>4 DEF Reconnect
<1> QED
  BY <1>1, <1>2, <1>3, <1>4 DEF Next

\* send() keeps its promise (client.hpp, session.hpp) on the connections that
\* never fill the kernel's buffer: uv_write leaves nothing behind in the vector
\* that dies with send(), and every packet arrives as it was given.
THEOREM RoomyConnectionsAreIntact ==
    ASSUME Matching
    PROVE  Spec /\ [][TidyReconnect]_vars /\ [][RoomySend]_vars
               => []IntactDelivery
<1>1. Init => IInv /\ ~torn
  BY IInvInit DEF Init
<1>2. IInv /\ ~torn /\ [Next]_vars /\ [TidyReconnect]_vars /\ [RoomySend]_vars
          => IInv' /\ ~torn'
  BY IInvStep, RoomyStep
<1>3. IInv /\ ~torn => IntactDelivery
  BY IInvDelivers DEF InOrder, IntactDelivery
<1> QED
  BY <1>1, <1>2, <1>3, PTL DEF Spec

\* The buffer holds what has arrived and was not dispatched, nothing else.
THEOREM BufferHoldsBacklog == ASSUME Compatible PROVE Spec => []BufferIsBacklog
<1>1. IInv => BufferIsBacklog
  <2> SUFFICES ASSUME IInv, ~torn
               PROVE  read_buffer = SubSeq(stream, Consumed + 1, arrived)
    BY DEF BufferIsBacklog
  <2>1. TypeOK /\ Framed
    BY DEF IInv
  <2> PICK m \in Nat : m = Consumed
    <3>1. Len(dispatched) # 0 => Len(dispatched) \in 1..Len(sent)
      BY <2>1, SentFacts DEF Framed, DispatchedOK
    <3>2. dispatched = <<>> <=> Len(dispatched) = 0
      BY <2>1 DEF TypeOK
    <3> QED
      BY <2>1, <3>1, <3>2, SentFacts DEF Consumed
  <2>2. m = Start(Len(dispatched) + 1)
    <3>1. dispatched = <<>> <=> Len(dispatched) = 0
      BY <2>1 DEF TypeOK
    <3> QED
      BY <2>1, <3>1, SentFacts DEF Consumed, Start
  <2>3. m + Len(read_buffer) = arrived
        /\ \A i \in 1..Len(read_buffer) : read_buffer[i] = stream[m + i]
    BY <2>1, <2>2 DEF Framed, BufferOK
  <2>4. /\ stream \in Seq(Nat) /\ m \in 0..Len(stream) /\ arrived \in m..Len(stream)
        /\ read_buffer \in Seq(Nat) /\ arrived - m = Len(read_buffer)
    BY <2>1, <2>3, SentFacts DEF TypeOK
  <2> DEFINE slice == SubSeq(stream, m + 1, arrived)
  <2>5. /\ slice \in Seq(Nat) /\ Len(slice) = arrived - m
        /\ \A i \in 1..(arrived - m) : slice[i] = stream[m + i]
    BY <2>4, SliceElements
  <2> HIDE DEF slice
  <2>6. Len(read_buffer) = Len(slice)
        /\ \A i \in 1..Len(read_buffer) : read_buffer[i] = slice[i]
    BY <2>3, <2>4, <2>5
  <2>7. read_buffer = slice
    BY <2>4, <2>5, <2>6, SeqEqual
  <2> QED
    BY <2>7 DEF slice
<1> QED
  BY <1>1, IInvAlways, PTL

\* A packet that has arrived whole does not wait for later bytes.
THEOREM NoPacketLeftBehind == ASSUME Compatible PROVE Spec => []NothingLeftBehind
<1>1. IInv => NothingLeftBehind
  <2> SUFFICES ASSUME IInv, ~torn, ~processing,
                      NEW n \in 1..Len(sent), sent_end[n] <= arrived,
                      n > Len(dispatched)
               PROVE  FALSE
    BY SentFacts DEF NothingLeftBehind, IInv
  <2>1. TypeOK /\ Framed /\ ~HasPacket
    BY DEF IInv, TypeOK
  <2> PICK d \in Nat : d = Len(dispatched) + 1
    BY <2>1, SentFacts
  <2>2. d \in 1..Len(sent) /\ d <= n
    BY <2>1, SentFacts
  <2>3. sent_end[d] <= arrived
    <3>1. d < n => sent_end[d] < sent_end[n]
      BY <2>1, <2>2 DEF Framed, EndsOK
    <3> QED
      BY <2>1, <2>2, <3>1, SentFacts
  <2>4. SizeOf(d) <= Len(read_buffer)
    <3>1. sent_end[d] = Start(d) + SizeOf(d) /\ Start(d) + Len(read_buffer) = arrived
      BY <2>1, <2>2 DEF Framed, EndsOK, BufferOK
    <3>2. SizeOf(d) \in Nat /\ Start(d) \in Nat
      BY <2>1, <2>2, SentFacts
    <3> QED
      BY <2>1, <2>3, <3>1, <3>2, SentFacts
  <2>5. Len(read_buffer) >= HeaderSize
    BY <2>1, <2>2, <2>4, SentFacts DEF SizeOf
  <2>6. read_buffer[3] = Len(sent[d].data)
    BY <2>1, <2>5, BufferFront DEF Compatible
  <2> QED
    BY <2>1, <2>4, <2>5, <2>6 DEF HasPacket, SizeOf
<1> QED
  BY <1>1, IInvAlways, PTL

\* Framing implements the abstract packet stream.
THEOREM FramingImplementsPacketStream ==
    ASSUME Compatible PROVE Spec => ImplementsPacketStream
<1>1. Init => Stream!Init
  BY DEF Init, Stream!Init
<1>2. IInv /\ IInv' /\ [Next]_vars => [Stream!Next]_(Stream!vars)
  <2> SUFFICES ASSUME IInv, IInv', [Next]_vars
               PROVE  [Stream!Next]_(Stream!vars)
    OBVIOUS
  <2>1. ASSUME NEW p \in Packets, Send(p) PROVE Stream!Send
    <3>1. torn' \in {torn, TRUE}
      BY <2>1 DEF Send, IInv, TypeOK
    <3> QED
      BY <2>1, <3>1 DEF Send, Stream!Send
  <2>2. CASE Flush \/ ProcessFailure \/ ProcessDone \/ UNCHANGED vars
    BY <2>2 DEF Flush, ProcessFailure, ProcessDone, vars, history, Stream!vars
  <2>3. ASSUME NEW k \in Chunks, OnRead(k) PROVE UNCHANGED Stream!vars
    BY <2>3 DEF OnRead, history, Stream!vars
  <2>4. CASE ProcessPacket
    <3>1. UNCHANGED <<sent, torn>>
      BY <2>4 DEF ProcessPacket, history
    <3>2. CASE torn
      BY <3>1, <3>2 DEF Stream!Next, Stream!Garble
    <3>3. CASE ~torn
      <4>1. /\ Len(dispatched) < Len(sent)
            /\ dispatched' = Append(dispatched, sent[Len(dispatched) + 1])
        BY <2>4, <3>3, ProcessPacketFramed DEF IInv, Compatible
      <4> QED
        BY <3>1, <3>3, <4>1 DEF Stream!Next, Stream!Deliver
    <3> QED
      BY <3>2, <3>3
  <2>5. CASE Reconnect
    BY <2>5 DEF Reconnect, Stream!Next, Stream!Reset
  <2> QED
    BY <2>1, <2>2, <2>3, <2>4, <2>5 DEF Next, Stream!Next
<1> QED
  BY <1>1, <1>2, IInvAlways, PTL DEF Spec, ImplementsPacketStream, Stream!Spec
=============================================================================
