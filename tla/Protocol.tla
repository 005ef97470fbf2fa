------------------------------ MODULE Protocol ------------------------------
(***************************************************************************)
(* The form of packets on the wire (protocol/Protocol.hpp): Formatter      *)
(* turns a packet into bytes, Unformatter turns bytes into a packet.  Both *)
(* are instantiated with a list of packet types; a type is known on the    *)
(* wire by its position in the list and by nothing else.                   *)
(*                                                                         *)
(* A type is the sequence of the kinds of its fields, a packet is the      *)
(* position of its type, from 0, with the values of its fields; a value is *)
(* a sequence of numbers: the bytes of a string, the two coordinates of a  *)
(* vector, or one number.  The base and the widths are parameters, so that *)
(* the numbers stay small in an instance; the bytes are little-endian.     *)
(***************************************************************************)
EXTENDS Integers, FiniteSets, Sequences

CONSTANTS
  Base,   \* how many values a byte has: 256
  Width   \* the size in bytes of each basic kind: 8 for Size, 4 for Int, ...

Basics == {"Size", "Int", "Enum", "Short", "Float"}
Kinds == Basics \cup {"String", "Vector"}

ASSUME BaseAssumption == Base \in Nat \ {0, 1}
ASSUME WidthAssumption == Width \in [Basics -> Nat \ {0}] /\ Width["Enum"] = Width["Int"]

-----------------------------------------------------------------------------
(* The packet types of the two servers *)

PlayerInfo == <<"String", "String", "Float", "Int", "Int", "Enum">>

\* What the master server and its clients say to each other.
MatchMakingPackets ==
  << <<"String">>,       \* Authenticate
     <<"Enum">>,         \* QueueJoin
     <<>>,               \* QueueLeave
     <<>>,               \* QueueStarted
     <<>>,               \* MatchFound
     PlayerInfo,
     <<"Short">> >>      \* GameHostInfo

\* What a game server and its players say to each other.
GamePackets ==
  << <<>>,                          \* Welcome
     <<>>,                          \* MatchStarted
     <<"String">>,                  \* Authenticate
     [i \in 1..6 |-> IF i < 6 THEN "String" ELSE "Vector"],  \* CreatePlayer
     <<"Enum", "String", "Float">>, \* Move
     <<"Vector", "String">> >>      \* SetPosition

-----------------------------------------------------------------------------
(* What a packet may hold *)

Byte == 0..(Base - 1)

\* How many numbers a number of bytes can hold.
Power[width \in Nat] == IF width = 0 THEN 1 ELSE Base * Power[width - 1]

\* v is a value of a field of this kind.
IsOfKind(v, kind) ==
  CASE kind = "String" -> v \in Seq(Byte) /\ Len(v) < Power[Width["Size"]]
    [] kind = "Vector" -> Len(v) = 2 /\ \A i \in 1..2 : v[i] < Power[Width["Float"]]
    [] OTHER           -> Len(v) = 1 /\ v[1] < Power[Width[kind]]

\* packet is of one of the types, and its fields are of their kinds.
IsPacket(types, packet) ==
  /\ packet \in [id : 0..(Len(types) - 1), fields : Seq(Seq(Nat))]
  /\ Len(packet.fields) = Len(types[packet.id + 1])
  /\ \A i \in DOMAIN packet.fields : IsOfKind(packet.fields[i], types[packet.id + 1][i])

-----------------------------------------------------------------------------
(* Formatter *)

\* __serializeType(): the bytes of the number n as a value of kind k, each of
\* what the bytes before it have left.
Bytes(k, n) ==
  LET left[i \in Nat] == IF i = 0 THEN n ELSE left[i - 1] \div Base
  IN  [i \in 1..Width[k] |-> left[i - 1] % Base]

\* serialize() and __addValue(): an enumeration is written as an int.
Field(kind, v) ==
  CASE kind = "String" -> Bytes("Size", Len(v)) \o v
    [] kind = "Vector" -> Bytes("Float", v[1]) \o Bytes("Float", v[2])
    [] kind = "Enum"   -> Bytes("Int", v[1])
    [] OTHER           -> Bytes(kind, v[1])

\* The bytes of so many fields, up to the last one.
LastFields(kinds, fields) ==
  LET last[i \in 0..Len(fields)] ==
        IF i = 0 THEN <<>>
        ELSE Field(kinds[Len(fields) - i + 1], fields[Len(fields) - i + 1]) \o last[i - 1]
  IN  last

\* serialize() of an object: the position of its type, then its fields.
Serialize(types, packet) ==
  Bytes("Size", packet.id)
    \o LastFields(types[packet.id + 1], packet.fields)[Len(packet.fields)]

\* prefixSize() and extract(): what is written for a packet.
Frame(types, packet) ==
  LET payload == Serialize(types, packet)
  IN  Bytes("Size", Len(payload)) \o payload

-----------------------------------------------------------------------------
(* Unformatter: what is left of the span, and the fields read from it *)

\* The number that the bytes hold, from that of the last ones.
Value(bytes) ==
  LET last[i \in 0..Len(bytes)] ==
        IF i = 0 THEN 0 ELSE bytes[Len(bytes) - i + 1] + Base * last[i - 1]
  IN  last[Len(bytes)]

Span(bytes) == [left |-> bytes, fields |-> <<>>, short |-> FALSE]

\* NotEnoughData is thrown: nothing is read any more.
Short(span) == [span EXCEPT !.short = TRUE]

\* The field v has been read from the first n bytes of the span.
After(span, n, v) ==
  [left |-> SubSeq(span.left, n + 1, Len(span.left)), fields |-> Append(span.fields, v), short |-> FALSE]

ReadNumber(span, kind) ==
  LET w == Width[kind]
  IN  IF Len(span.left) < w THEN Short(span)
      ELSE After(span, w, <<Value(SubSeq(span.left, 1, w))>>)

\* Mutant: the span is not moved past the length before the string is read.
ReadStringInPlace(span) ==
  LET w   == Width["Size"]
      len == Value(SubSeq(span.left, 1, w))
  IN  IF Len(span.left) < w \/ Len(span.left) < len THEN Short(span)
      ELSE After(span, len, SubSeq(span.left, 1, len))

ReadString(span) ==
  LET w   == Width["Size"]
      len == Value(SubSeq(span.left, 1, w))
  IN  IF Len(span.left) < w \/ Len(span.left) - w < len THEN Short(span)
      ELSE After(span, w + len, SubSeq(span.left, w + 1, w + len))

ReadVector(span) ==
  LET w == Width["Float"]
  IN  IF Len(span.left) < 2 * w THEN Short(span)
      ELSE After(span, 2 * w, <<Value(SubSeq(span.left, 1, w)), Value(SubSeq(span.left, w + 1, 2 * w))>>)

ReadField(span, kind) ==
  IF span.short THEN span
  ELSE CASE kind = "String" -> ReadString(span)
         [] kind = "Vector" -> ReadVector(span)
         [] OTHER           -> ReadNumber(span, kind)

\* __unserializePacket(): what is left of the span after each field.
ReadFields(span, kinds) ==
  LET read[i \in 0..Len(kinds)] == IF i = 0 THEN span ELSE ReadField(read[i - 1], kinds[i])
  IN  read

NotEnoughData == [error |-> "NotEnoughData"]

\* std::monostate: the position is not one of the list.
Unknown == [error |-> "Unknown"]

\* unserialize(): bytes that follow the fields are ignored.
Unserialize(types, bytes) ==
  LET start == ReadNumber(Span(bytes), "Size")
      id    == start.fields[1][1]
      kinds == types[id + 1]
      end   == ReadFields([start EXCEPT !.fields = <<>>], kinds)[Len(kinds)]
  IN  CASE start.short          -> NotEnoughData
        [] ~start.short /\ id >= Len(types) -> Unknown
        [] ~start.short /\ id < Len(types)  ->
             IF end.short THEN NotEnoughData ELSE [id |-> id, fields |-> end.fields]
=============================================================================
