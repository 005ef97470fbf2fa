------------------------ MODULE TCPProtocolConnection ------------------------
(***************************************************************************)
(* The reading side of netproto/TCPProtocolConnection.hpp: how packets,    *)
(* each a header that holds its size and a payload, are cut out of a byte  *)
(* stream that is read two bytes at a time, and parsed.                    *)
(*                                                                         *)
(* The buffer is not kept: its valid bytes are those of the stream from    *)
(* offset base on, and the room behind them holds zeros, as resize() puts  *)
(* them there.                                                             *)
(*                                                                         *)
(* The owner of the connection reads again from every callback, as         *)
(* PlayerPool and ServerIOThread do, so a read always waits while open.    *)
(***************************************************************************)
EXTENDS Protocol, FiniteSetsExt

CONSTANTS
  Types,         \* the packet types the connection is instantiated with
  Messages,      \* what the peer may send: packets, each of a list of types,
                 \* which is not Types if the peer takes the server for the other
  ChunkSize,     \* chunkSize: the most bytes that one receive asks for
  MaxPackets,    \* bound: how many packets the peer sends
  Whole          \* whether the network hands over whole packets only

HeaderSize == Width["Size"]

\* The values of a size_t.
SizeSpace == Power[HeaderSize]

\* No packet is shorter than a chunk, as each has a header and a type.
ASSUME ChunkAssumption == ChunkSize \in 1..(2 * HeaderSize) /\ ChunkSize < SizeSpace
ASSUME BoundsAssumption == MaxPackets \in Nat /\ Whole \in BOOLEAN
ASSUME TypesAssumption == Types \in Seq(Seq(Kinds))

\* A list has fewer types than a byte has values, and a buffer holds a packet.
ASSUME MessagesAssumption ==
  \A message \in Messages :
    /\ message.types \in Seq(Seq(Kinds))
    /\ IsPacket(message.types, message.packet) /\ message.packet.id < Base
    /\ HeaderSize + Len(Serialize(message.types, message.packet)) + ChunkSize < SizeSpace

VARIABLES
  sent,       \* the messages that the peer has written
  ends,       \* where each of them ends in the stream
  stream,     \* the bytes that the peer has written
  arrived,    \* how many bytes of the stream the socket has received
  taken,      \* how many of them it has handed over
  used,       \* _used: how many bytes of _buff are valid
  size,       \* _buff.size()
  base,       \* the offset in the stream of _buff[0]
  delivered,  \* the packets given to the callback, with the bytes they lacked
  state       \* "open", "closed", "undefined" once a write missed _buff, or
              \* "thrown" once an exception has left the handler

peer == <<sent, ends, stream>>
reader == <<used, size, base, delivered>>
vars == <<peer, arrived, taken, reader, state>>

\* The offset just after the n-th packet sent.
End(n) == IF n = 0 THEN 0 ELSE ends[n]

TypeOK ==
  /\ sent \in Seq(Messages) /\ Len(sent) <= MaxPackets
  /\ stream \in Seq(Byte)
  /\ Len(ends) = Len(sent) /\ End(Len(sent)) = Len(stream)
  /\ \A n \in DOMAIN ends : End(n) - End(n - 1) >= 2 * HeaderSize
  /\ arrived \in 0..Len(stream)
  /\ taken \in 0..arrived
  /\ used \in 0..(SizeSpace - 1)
  /\ size \in 0..(SizeSpace - 1)
  /\ base \in 0..(Len(stream) + ChunkSize)
  /\ \A i \in DOMAIN delivered : delivered[i].missing \in 0..ChunkSize
  /\ state \in {"open", "closed", "undefined", "thrown"}

\* asyncRead() has been called once: _doRead() has made room for a chunk.
Init ==
  /\ sent = <<>>
  /\ ends = <<>>
  /\ stream = <<>>
  /\ arrived = 0
  /\ taken = 0
  /\ used = 0
  /\ size = ChunkSize
  /\ base = 0
  /\ delivered = <<>>
  /\ state = "open"

-----------------------------------------------------------------------------
(* The peer and the network *)

Send(message) ==
  /\ state = "open"
  /\ Len(sent) < MaxPackets
  /\ sent' = Append(sent, message)
  /\ stream' = stream \o Frame(message.types, message.packet)
  /\ ends' = Append(ends, Len(stream'))
  /\ UNCHANGED <<arrived, taken, reader, state>>

\* TCP delivers any part of what was sent; Whole stops at packet boundaries.
Arrive ==
  /\ state = "open"
  /\ \E n \in (arrived + 1)..Len(stream) :
       /\ Whole => \E k \in DOMAIN ends : n = ends[k]
       /\ arrived' = n
  /\ UNCHANGED <<peer, taken, reader, state>>

-----------------------------------------------------------------------------
(* _handleRead() *)

\* _used after the bytes of this receive.
ReadBytes == Min({ChunkSize, arrived - taken})
Now == used + ReadBytes

\* The n bytes of _buff after its first from.
Buffer(from, n) ==
  [i \in 1..n |-> IF from + i <= Now THEN stream[base + from + i] ELSE 0]

\* unserializeSize(): the payload size in the header at the front of _buff.
PacketSize == Value(Buffer(0, HeaderSize))

\* Mutant: the bytes of the packet alone must be there, without its header.
CompleteTooSoon == Now > HeaderSize /\ size >= PacketSize

\* Mutant: one byte more than the packet has must be there.
CompleteTooLate == Now > HeaderSize /\ size - HeaderSize > PacketSize

(***************************************************************************)
(* Whether the handler takes the packet at the front of _buff for          *)
(* complete: it compares with the size of _buff, room for a whole chunk    *)
(* included, and not with the bytes that are valid.                        *)
(***************************************************************************)
Complete == Now > HeaderSize /\ size - HeaderSize >= PacketSize

Parsed == Unserialize(Types, Buffer(HeaderSize, PacketSize))

\* Mutant: the bytes of the packet are dropped, and those read after it too.
AllConsumed == Now

\* The bytes that leave _buff with the packet.
Consumed == HeaderSize + PacketSize

\* The valid bytes of the packet fall short when the chunk was not full.
Missing == IF Now < HeaderSize + PacketSize THEN HeaderSize + PacketSize - Now ELSE 0

\* Mutant: the sum is kept in an integer wider than a size_t.
DoReadUnbounded(valid) ==
  /\ used' = valid
  /\ size' = valid + ChunkSize
  /\ state' = "open"

(***************************************************************************)
(* _doRead() with so many valid bytes: the sum is a size_t, so after a     *)
(* packet that was short of bytes it wraps, and the chunk is received out  *)
(* of the bounds of _buff.                                                 *)
(***************************************************************************)
DoRead(valid) ==
  /\ used' = valid
  /\ size' = (valid + ChunkSize) % SizeSpace
  /\ state' = IF valid + ChunkSize > size' THEN "undefined" ELSE "open"

Deliver ==
  /\ Complete
  /\ Parsed # NotEnoughData
  /\ delivered' = Append(delivered, [packet |-> Parsed, missing |-> Missing])
  /\ base' = base + Consumed
  /\ DoRead((Now - Consumed) % SizeSpace)

\* The exception of unserialize() leaves the handler, and ends the process.
Throw ==
  /\ Complete
  /\ Parsed = NotEnoughData
  /\ used' = Now
  /\ state' = "thrown"
  /\ UNCHANGED <<size, base, delivered>>

ReadMore ==
  /\ ~Complete
  /\ DoRead(Now)
  /\ UNCHANGED <<base, delivered>>

HandleRead ==
  /\ state = "open"
  /\ arrived > taken
  /\ taken' = taken + ReadBytes
  /\ Deliver \/ Throw \/ ReadMore
  /\ UNCHANGED <<peer, arrived>>

\* The read fails: the peer closed or reset the connection.
HandleError ==
  /\ state = "open"
  /\ state' = "closed"
  /\ UNCHANGED <<peer, arrived, taken, reader>>

Next == (\E message \in Messages : Send(message)) \/ Arrive \/ HandleRead \/ HandleError

\* Bytes that arrived are read, as the io_service runs completed handlers.
Spec == Init /\ [][Next]_vars /\ WF_vars(HandleRead)

-----------------------------------------------------------------------------
(* Properties under any segmentation of the stream *)

(***************************************************************************)
(* The reader stays in step with the stream: _buff begins at the first     *)
(* byte of the packet that comes after those delivered, and holds the      *)
(* bytes taken since, none lost and none twice.                            *)
(***************************************************************************)
InStep ==
  state \in {"open", "closed"} =>
    /\ base = End(Len(delivered))
    /\ base + used = taken
    /\ size = used + ChunkSize

(***************************************************************************)
(* No packet stays behind in _buff: as soon as all the bytes that arrived  *)
(* are read, every packet that arrived entirely has been delivered.        *)
(***************************************************************************)
NothingLeftBehind ==
  state = "open" /\ taken = arrived =>
    \A n \in DOMAIN ends : End(n) <= arrived => n <= Len(delivered)

(***************************************************************************)
(* At worst a packet lacks what the last chunk did not bring, and it is    *)
(* then the last one: the connection is not read in a defined state any    *)
(* more.                                                                   *)
(***************************************************************************)
OnlyTheLastIsTorn ==
  \A i \in DOMAIN delivered :
    /\ delivered[i].missing < ChunkSize
    /\ delivered[i].missing > 0 <=> state = "undefined" /\ i = Len(delivered)

\* The i-th message is a packet that this connection can parse.
Own(i) == sent[i].types = Types

(***************************************************************************)
(* A packet of the connection's own list that is delivered whole is the    *)
(* packet that was sent, whatever came before it on the connection, and    *)
(* no such packet, whole or torn, makes the parser run out of bytes.       *)
(***************************************************************************)
ReadAsWritten ==
  /\ \A i \in DOMAIN delivered :
       Own(i) /\ delivered[i].missing = 0 => delivered[i].packet = sent[i].packet
  /\ state = "thrown" => ~Own(Len(delivered) + 1)

-----------------------------------------------------------------------------
(* Properties when the network hands over whole packets *)

\* The packet read is the packet written, on a connection that stays defined.
Intact ==
  /\ state # "undefined"
  /\ \A i \in DOMAIN delivered :
       delivered[i].missing = 0 /\ delivered[i].packet = sent[i].packet

Channel == INSTANCE PacketChannel WITH
  Packets  <- {message.packet : message \in Messages},
  sent     <- [n \in DOMAIN sent |-> sent[n].packet],
  received <- [i \in DOMAIN delivered |-> delivered[i].packet],
  open     <- state = "open"

\* A connection is a channel of packets.
ImplementsChannel == Channel!Spec

\* Every packet that arrived entirely is delivered, or the connection closed.
ArrivedIsDelivered ==
  \A n \in 1..MaxPackets :
    (n <= Len(sent) /\ arrived >= End(n)) ~> (Len(delivered) >= n \/ state # "open")
=============================================================================
