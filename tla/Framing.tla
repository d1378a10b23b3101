------------------------------ MODULE Framing -------------------------------
(***************************************************************************)
(* One direction of a connection, from Session::send / Client::send to the *)
(* packet handling of the peer: serialisation into a header and a payload, *)
(* the write that libuv may complete only in part, the byte stream TCP     *)
(* cuts into arbitrary chunks, and the loop that cuts packets out of the   *)
(* receive buffer again.                                                   *)
(*                                                                         *)
(* The stream is a sequence of cells.  A header is four cells, one per     *)
(* field of PacketHeader in its order, and a payload is one cell per byte; *)
(* cells are compared with every other cell, so a parser that lost its     *)
(* place reads a payload cell as a version or a length, as the code does.  *)
(***************************************************************************)
EXTENDS Naturals, Sequences, SequencesExt

CONSTANTS
    Packets,            \* the packets the sender may send
    SenderVersion,      \* PROTOCOL_VERSION of the build the sender runs
    LengthModulus,      \* 2^32 in the code: the width of PacketHeader.length
    SocketCapacity,     \* cells the kernel takes before the receiver reads
    Garbage,            \* cells a freed send buffer may read as
    Receiver,           \* the class that receives: "session" or "client"
    MaxSent,            \* bound: packets sent on one connection
    MaxConnections      \* bound: connections one after the other

PROTOCOL_VERSION == 1
HeaderSize == 4         \* sizeof(PacketHeader), in cells

ASSUME PacketsAssumption ==
    Packets \subseteq [type : Nat, data : Seq(Nat), sequence : Nat]
ASSUME ParametersAssumption ==
    /\ SenderVersion \in Nat
    /\ LengthModulus \in Nat \ {0}
    /\ SocketCapacity \in Nat \ {0}
    /\ Garbage \subseteq Nat
    /\ Receiver \in {"session", "client"}
    /\ MaxSent \in Nat
    /\ MaxConnections \in Nat \ {0}

VARIABLES
    stream,             \* every cell the kernel took on this connection
    queued,             \* cells uv_write left for later, out of a freed vector
    arrived,            \* how many cells of stream on_read has handed over
    read_buffer,        \* Session::read_buffer_ / Client::buffer_
    processing,         \* the receiver is inside its parsing loop
    dispatched,         \* packets decoded and handed to the handlers
    sent,               \* history: packets handed to send()
    sent_end,           \* history: where in the stream each of them ends
    torn,               \* history: some write was not taken whole
    connection          \* number of the current connection

wire == <<stream, queued, arrived>>
history == <<sent, sent_end, torn, connection>>
vars == <<wire, read_buffer, processing, dispatched, history>>

(***************************************************************************)
(* The encoding                                                            *)
(***************************************************************************)
Serialize(p) ==
    <<SenderVersion, p.type, Len(p.data) % LengthModulus, p.sequence>> \o p.data

\* Mutant: the payload is taken from one cell too early.
Deserialize_Early(cells) ==
    [type |-> cells[2],
     data |-> SubSeq(cells, HeaderSize, HeaderSize + cells[3] - 1),
     sequence |-> cells[4]]

\* The packet a header and as many payload cells as it announces stand for.
Deserialize(cells) ==
    [type |-> cells[2],
     data |-> SubSeq(cells, HeaderSize + 1, HeaderSize + cells[3]),
     sequence |-> cells[4]]

-----------------------------------------------------------------------------
Init ==
    /\ stream = <<>> /\ queued = 0 /\ arrived = 0
    /\ read_buffer = <<>> /\ processing = FALSE /\ dispatched = <<>>
    /\ sent = <<>> /\ sent_end = <<>> /\ torn = FALSE /\ connection = 1

(***************************************************************************)
(* send(): uv_write tries the socket at once unless earlier writes wait,   *)
(* and keeps a pointer to the rest.  The vector it points into dies when   *)
(* send() returns.                                                         *)
(***************************************************************************)
Room == SocketCapacity - (Len(stream) - arrived)

Taken(cells) ==
    IF queued > 0 THEN 0 ELSE IF Len(cells) <= Room THEN Len(cells) ELSE Room

Send(p) ==
    /\ Len(sent) < MaxSent
    /\ stream' = stream \o SubSeq(Serialize(p), 1, Taken(Serialize(p)))
    /\ queued' = queued + Len(Serialize(p)) - Taken(Serialize(p))
    /\ torn' = (torn \/ Taken(Serialize(p)) < Len(Serialize(p)))
    /\ sent' = Append(sent, p)
    /\ sent_end' = Append(sent_end, Len(stream) + queued + Len(Serialize(p)))
    /\ UNCHANGED <<arrived, read_buffer, processing, dispatched, connection>>

\* libuv writes a waiting cell later: it reads whatever the memory holds now.
Flush ==
    /\ queued > 0
    /\ Room > 0
    /\ \E c \in Garbage : stream' = Append(stream, c)
    /\ queued' = queued - 1
    /\ UNCHANGED <<arrived, read_buffer, processing, dispatched, history>>

(***************************************************************************)
(* The receiver                                                            *)
(***************************************************************************)
\* Mutant: a chunk replaces what was left of the one before.
WithChunk_Assign(n) == SubSeq(stream, arrived + 1, arrived + n)

WithChunk(n) == read_buffer \o SubSeq(stream, arrived + 1, arrived + n)

\* on_read: the next n cells are appended and the parsing loop is entered.
OnRead(n) ==
    /\ ~processing
    /\ read_buffer' = WithChunk(n)
    /\ arrived' = arrived + n
    /\ processing' = TRUE
    /\ UNCHANGED <<stream, queued, dispatched, history>>

Chunks == 1..(Len(stream) - arrived)

\* Mutant: a packet that ends where the buffer ends is left for later.
HasPacket_Strict ==
    /\ Len(read_buffer) >= HeaderSize
    /\ Len(read_buffer) > HeaderSize + read_buffer[3]

\* The loop has a whole header and the payload that header announces.
HasPacket ==
    /\ Len(read_buffer) >= HeaderSize
    /\ Len(read_buffer) >= HeaderSize + read_buffer[3]

VersionMatches == read_buffer[1] = PROTOCOL_VERSION

\* Mutant: only the payload's size is erased, not the header's.
Erased_PayloadOnly == SubSeq(read_buffer, read_buffer[3] + 1, Len(read_buffer))

Erased == SubSeq(read_buffer, HeaderSize + read_buffer[3] + 1, Len(read_buffer))

\* Mutant: one packet is decoded for each chunk, an if in place of the while.
ProcessPacket_Once ==
    /\ processing /\ HasPacket /\ VersionMatches
    /\ dispatched' = Append(dispatched, Deserialize(read_buffer))
    /\ read_buffer' = Erased
    /\ processing' = FALSE
    /\ UNCHANGED <<wire, history>>

\* One round of the loop: decode, hand over, erase.
ProcessPacket ==
    /\ processing /\ HasPacket /\ VersionMatches
    /\ dispatched' = Append(dispatched, Deserialize(read_buffer))
    /\ read_buffer' = Erased
    /\ UNCHANGED <<wire, processing, history>>

\* deserialize() refuses the version: the whole buffer is cleared.
ProcessFailure ==
    /\ processing /\ HasPacket /\ ~VersionMatches
    /\ read_buffer' = <<>>
    /\ processing' = FALSE
    /\ UNCHANGED <<wire, dispatched, history>>

\* The loop leaves an incomplete packet in the buffer for the next chunk.
ProcessDone ==
    /\ processing /\ ~HasPacket
    /\ processing' = FALSE
    /\ UNCHANGED <<wire, read_buffer, dispatched, history>>

(***************************************************************************)
(* The connection is closed, wherever the stream stands, and another is    *)
(* made.  The server gives it a new Session; a Client keeps its buffer_.   *)
(***************************************************************************)
Reconnect ==
    /\ connection < MaxConnections
    /\ ~processing
    /\ connection' = connection + 1
    /\ stream' = <<>> /\ queued' = 0 /\ arrived' = 0
    /\ read_buffer' = IF Receiver = "client" THEN read_buffer ELSE <<>>
    /\ dispatched' = <<>>
    /\ sent' = <<>> /\ sent_end' = <<>> /\ torn' = FALSE
    /\ UNCHANGED processing

Next ==
    \/ \E p \in Packets : Send(p)
    \/ Flush
    \/ \E n \in Chunks : OnRead(n)
    \/ ProcessPacket
    \/ ProcessFailure
    \/ ProcessDone
    \/ Reconnect

Spec == Init /\ [][Next]_vars

\* The loop threads keep running uv_run: bytes are read and parsed.
Receive == \/ \E n \in Chunks : OnRead(n)
           \/ ProcessPacket
           \/ ProcessFailure
           \/ ProcessDone

FairSpec == Spec /\ WF_vars(Receive)

-----------------------------------------------------------------------------
(***************************************************************************)
(* Type invariant                                                          *)
(***************************************************************************)
\* The fields have their types, and between two chunks the buffer holds no
\* whole packet, whatever the stream became.
TypeOK ==
    /\ stream \in Seq(Nat)
    /\ queued \in Nat
    /\ arrived \in 0..Len(stream)
    /\ Len(stream) - arrived <= SocketCapacity
    /\ read_buffer \in Seq(Nat)
    /\ processing \in BOOLEAN /\ (processing \/ ~HasPacket)
    /\ dispatched \in Seq([type : Nat, data : Seq(Nat), sequence : Nat])
    /\ sent \in Seq(Packets)
    /\ sent_end \in Seq(Nat) /\ Len(sent_end) = Len(sent)
    /\ torn \in BOOLEAN
    /\ connection \in 1..MaxConnections

(***************************************************************************)
(* Safety                                                                  *)
(***************************************************************************)
\* The handlers see the packets that were sent, unchanged and in order, with
\* none skipped or repeated, however TCP cuts the stream (Session::on_read,
\* process_buffer; Client::append_to_buffer).
InOrder == ~torn => IsPrefix(dispatched, sent)

\* Where the last dispatched packet ends in the stream.
Consumed == IF dispatched = <<>> THEN 0 ELSE sent_end[Len(dispatched)]

\* The receive buffer is exactly the part of the stream that has arrived and
\* was not yet dispatched: erase() removes what was decoded and nothing else.
BufferIsBacklog ==
    ~torn /\ Len(dispatched) <= Len(sent)
        => read_buffer = SubSeq(stream, Consumed + 1, arrived)

\* When the parsing loop returns, no packet that arrived whole waits for
\* later bytes: it could wait for ever (process_buffer's early returns).
NothingLeftBehind ==
    ~torn /\ ~processing
        => \A n \in 1..Len(sent) : sent_end[n] <= arrived => n <= Len(dispatched)

\* The connection behaves as a reliable packet stream until a write is torn.
Stream == INSTANCE PacketStream WITH delivered <- dispatched, intact <- ~torn
ImplementsPacketStream == Stream!Spec

\* Every send() is answered by a dispatch on the other side, unless the
\* connection goes away or a write was left to libuv.
EveryPacketDispatched ==
    \A c \in 1..MaxConnections : \A n \in 1..MaxSent :
        (connection = c /\ Len(sent) >= n)
            ~> (connection # c \/ torn \/ Len(dispatched) >= n)

(***************************************************************************)
(* What the documentation says and the code does not do                    *)
(***************************************************************************)
\* send() sends the packet it is given (client.hpp, session.hpp), also when
\* the kernel cannot take all of it at once.
IntactDelivery == IsPrefix(dispatched, sent)

\* The loop processes complete messages (client.cpp): what the handlers get
\* on a connection was sent on that connection.
WholeMessages == ~torn => \A n \in 1..Len(dispatched) :
                              \E m \in 1..Len(sent) : dispatched[n] = sent[m]
=============================================================================
