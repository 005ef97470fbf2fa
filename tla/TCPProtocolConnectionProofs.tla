-------------------- MODULE TCPProtocolConnectionProofs ---------------------
(***************************************************************************)
(* Theorems about TCPProtocolConnection, for any packets, base and widths, *)
(* any chunk, and any segmentation of the stream.                          *)
(***************************************************************************)
EXTENDS TCPProtocolConnection, ProtocolProofs

-----------------------------------------------------------------------------
(* The arithmetic of a size_t, and sequences of anything *)

\* The remainder of a number that is less than one turn away.
LEMMA Wraps ==
  ASSUME NEW s \in Nat \ {0}, NEW x \in Int
  PROVE  /\ x \in 0..(s - 1) => x % s = x
         /\ s <= x /\ x < 2 * s => x % s = x - s
         /\ -s <= x /\ x < 0 => x % s = x + s
<1> DEFINE q == x \div s
           r == x % s
<1>1. q \in Int /\ r \in 0..(s - 1) /\ x = s * q + r
  OBVIOUS
<1> HIDE DEF q, r
<1>2. q >= 2 => s * q >= 2 * s
  <2>1. q >= 2 => s * (q - 2) >= 0
    BY <1>1
  <2> QED
    BY <1>1, <2>1
<1>3. q <= -2 => s * q <= -(2 * s)
  <2>1. q <= -2 => s * (-2 - q) >= 0
    BY <1>1
  <2> QED
    BY <1>1, <2>1
<1>4. /\ q = 1 => s * q = s
      /\ q = 0 => s * q = 0
      /\ q = -1 => s * q = -s
  BY <1>1
<1> DEFINE t == s * q
<1>5. t \in Int /\ x = t + r
  BY <1>1
<1>6. /\ q >= 2 => t >= 2 * s
      /\ q <= -2 => t <= -(2 * s)
      /\ q = 1 => t = s
      /\ q = 0 => t = 0
      /\ q = -1 => t = -s
  BY <1>2, <1>3, <1>4
<1> HIDE DEF t
<1> QED
  BY <1>1, <1>5, <1>6 DEF r

\* s is a sequence, whatever its elements are.
IsSequence(s) == \E S : s \in Seq(S)

\* A sequence has its elements at the numbers up to its length.
LEMMA SequenceDomain ==
  ASSUME NEW s, IsSequence(s)
  PROVE  Len(s) \in Nat /\ DOMAIN s = 1..Len(s)
<1>1. PICK S : s \in Seq(S)
  BY DEF IsSequence
<1> QED
  BY <1>1, LenProperties

\* What a sequence is after an element is appended.
LEMMA Appended ==
  ASSUME NEW s, NEW e, IsSequence(s)
  PROVE  /\ IsSequence(Append(s, e)) /\ Len(Append(s, e)) = Len(s) + 1
         /\ DOMAIN Append(s, e) = 1..(Len(s) + 1)
         /\ \A i \in 1..Len(s) : Append(s, e)[i] = s[i]
         /\ Append(s, e)[Len(s) + 1] = e
<1>1. PICK S : s \in Seq(S)
  BY DEF IsSequence
<1> DEFINE T == S \cup {e}
<1>2. s \in Seq(T)
  BY <1>1, SeqMonotonic
<1>3. e \in T
  OBVIOUS
<1> HIDE DEF T
<1>4. /\ Append(s, e) \in Seq(T) /\ Len(Append(s, e)) = Len(s) + 1
      /\ \A i \in 1..Len(s) : Append(s, e)[i] = s[i]
      /\ Append(s, e)[Len(s) + 1] = e
  BY <1>2, <1>3, AppendProperties
<1> QED
  BY <1>4, LenProperties DEF IsSequence

-----------------------------------------------------------------------------
(* What the peer has written *)

Payload(message) == Serialize(message.types, message.packet)
FrameOf(message) == Frame(message.types, message.packet)
Header(message) == Bytes("Size", Len(Payload(message)))

\* The size of the header, and of a chunk.
LEMMA Sizes ==
  /\ HeaderSize \in Nat \ {0} /\ SizeSpace \in Nat \ {0}
  /\ ChunkSize \in Nat \ {0} /\ ChunkSize <= 2 * HeaderSize /\ ChunkSize < SizeSpace
  /\ Base \in Nat \ {0, 1} /\ MaxPackets \in Nat
<1>1. HeaderSize \in Nat \ {0}
  BY WidthAssumption DEF HeaderSize, Basics
<1>2. SizeSpace \in Nat \ {0}
  BY <1>1, Powers DEF SizeSpace
<1> QED
  BY <1>1, <1>2, ChunkAssumption, BaseAssumption, BoundsAssumption

\* What the peer sends is a packet of its list, with a number that fits.
LEMMA SentPackets ==
  ASSUME NEW m \in Messages
  PROVE  /\ m.types \in Seq(Seq(Kinds)) /\ IsPacket(m.types, m.packet)
         /\ m.packet.id < Base /\ m.packet.id < Power[Width["Size"]]
<1>1. /\ m.types \in Seq(Seq(Kinds)) /\ IsPacket(m.types, m.packet) /\ m.packet.id < Base
  BY MessagesAssumption
<1> DEFINE w == HeaderSize - 1
           p == Power[w]
<1>2. w \in Nat /\ w + 1 = Width["Size"]
  BY Sizes DEF HeaderSize
<1>3. p \in Nat \ {0} /\ Power[Width["Size"]] = Base * p
  BY <1>2, Powers
<1> HIDE DEF p
<1>4. Base <= Base * p
  <2>1. Base * (p - 1) >= 0
    BY <1>3, Sizes
  <2> QED
    BY <1>3, <2>1, Sizes
<1>5. m.packet.id \in Nat
  BY <1>1, PacketParts
<1>6. Base * p \in Nat /\ Base \in Nat
  BY <1>3, Sizes
<1> DEFINE i == m.packet.id
           q == Base * p
<1>7. i \in Nat /\ i < Base /\ Base <= q /\ q \in Nat
  BY <1>1, <1>4, <1>5, <1>6
<1> HIDE DEF i, q
<1>8. i < q
  BY <1>6, <1>7
<1>9. m.packet.id < Power[Width["Size"]]
  BY <1>3, <1>8 DEF i, q
<1> QED
  BY <1>1, <1>9

\* A frame is a header that tells the size of the payload, and the payload.
LEMMA Framed ==
  ASSUME NEW m \in Messages
  PROVE  /\ Payload(m) \in Seq(Byte) /\ Len(Payload(m)) \in Nat
         /\ Len(Payload(m)) >= HeaderSize
         /\ HeaderSize + Len(Payload(m)) + ChunkSize < SizeSpace
         /\ FrameOf(m) \in Seq(Byte)
         /\ Len(FrameOf(m)) = HeaderSize + Len(Payload(m))
         /\ \A i \in 1..HeaderSize : FrameOf(m)[i] = Header(m)[i]
         /\ \A i \in 1..Len(Payload(m)) : FrameOf(m)[HeaderSize + i] = Payload(m)[i]
         /\ Header(m) \in Seq(Byte) /\ Len(Header(m)) = HeaderSize
         /\ Value(Header(m)) = Len(Payload(m))
<1> DEFINE p == Payload(m)
           n == Len(p)
           h == Header(m)
<1>1. p \in Seq(Byte) /\ n >= HeaderSize /\ HeaderSize + n + ChunkSize < SizeSpace
  <2>1. p \in Seq(Byte) /\ n >= Width["Size"]
    BY SentPackets, RoundTrip DEF Payload
  <2>2. HeaderSize + n + ChunkSize < SizeSpace
    BY MessagesAssumption DEF Payload
  <2> QED
    BY <2>1, <2>2 DEF HeaderSize
<1>2. n \in Nat
  BY <1>1, LenProperties
<1>3. "Size" \in Basics /\ n < Power[Width["Size"]]
  <2>1. n < SizeSpace
    BY <1>1, <1>2, Sizes
  <2> QED
    BY <2>1 DEF SizeSpace, HeaderSize, Basics
<1>4. h \in Seq(Byte) /\ Len(h) = HeaderSize /\ Value(h) = n
  BY <1>2, <1>3, NumberBytes DEF HeaderSize, Header
<1>5. FrameOf(m) = h \o p
  BY DEF FrameOf, Frame, Header, Payload
<1> HIDE DEF p, h, n
<1>6. /\ h \o p \in Seq(Byte) /\ Len(h \o p) = Len(h) + Len(p)
      /\ \A i \in 1..(Len(h) + Len(p)) : (h \o p)[i] = IF i <= Len(h) THEN h[i] ELSE p[i - Len(h)]
  BY <1>1, <1>4, ConcatProperties
<1>7. \A i \in 1..HeaderSize : (h \o p)[i] = h[i]
  <2>1. \A i \in 1..HeaderSize : i \in 1..(HeaderSize + n) /\ i <= HeaderSize
    BY <1>2, Sizes
  <2> QED
    BY <1>4, <1>6, <2>1 DEF n
<1>8. \A i \in 1..n : (h \o p)[HeaderSize + i] = p[i]
  <2>1. \A i \in 1..n : /\ HeaderSize + i \in 1..(HeaderSize + n)
                        /\ ~(HeaderSize + i <= HeaderSize)
                        /\ (HeaderSize + i) - HeaderSize = i
    BY <1>2, Sizes
  <2> QED
    BY <1>4, <1>6, <2>1 DEF n
<1> QED
  BY <1>1, <1>2, <1>4, <1>5, <1>6, <1>7, <1>8 DEF p, h, n

\* A frame is at least as long as two headers.
LEMMA FrameLength ==
  \A m \in Messages : Len(FrameOf(m)) \in Nat /\ Len(FrameOf(m)) >= 2 * HeaderSize
<1> TAKE m \in Messages
<1>1. /\ Len(FrameOf(m)) = HeaderSize + Len(Payload(m))
      /\ Len(Payload(m)) \in Nat /\ Len(Payload(m)) >= HeaderSize
  BY Framed
<1> QED
  BY <1>1, Sizes

(***************************************************************************)
(* The stream is the frames of the messages sent, one after the other.     *)
(***************************************************************************)
Written ==
  /\ sent \in Seq(Messages) /\ Len(sent) <= MaxPackets
  /\ ends \in Seq(Nat) /\ Len(ends) = Len(sent)
  /\ stream \in Seq(Byte) /\ End(Len(sent)) = Len(stream)
  /\ \A n \in 1..Len(sent) :
       /\ End(n) = End(n - 1) + Len(FrameOf(sent[n]))
       /\ \A i \in 1..Len(FrameOf(sent[n])) : stream[End(n - 1) + i] = FrameOf(sent[n])[i]
  /\ \A m, n \in 0..Len(sent) : m < n => End(m) < End(n)

\* The offsets in the stream are numbers, and the last one its length.
LEMMA Ends ==
  ASSUME Written
  PROVE  /\ Len(sent) \in Nat /\ Len(stream) \in Nat /\ Len(ends) = Len(sent)
         /\ \A n \in 0..Len(sent) : End(n) \in Nat /\ End(n) <= Len(stream)
<1>1. Len(sent) \in Nat /\ Len(stream) \in Nat
  BY LenProperties DEF Written
<1>2. ASSUME NEW n \in 0..Len(sent) PROVE End(n) \in Nat
  <2>1. CASE n = 0
    BY <2>1 DEF End
  <2>2. CASE n # 0
    <3>1. n \in 1..Len(ends) /\ End(n) = ends[n]
      BY <1>1, <2>2 DEF End, Written
    <3> QED
      BY <3>1, ElementOfSeq DEF Written
  <2> QED
    BY <2>1, <2>2
<1>3. ASSUME NEW n \in 0..Len(sent) PROVE End(n) <= Len(stream)
  <2>1. CASE n = Len(sent)
    BY <1>1, <2>1 DEF Written
  <2>2. CASE n < Len(sent)
    <3>1. Len(sent) \in 0..Len(sent) /\ End(n) < End(Len(sent)) /\ End(Len(sent)) = Len(stream)
      BY <1>1, <2>2 DEF Written
    <3>2. End(n) \in Nat
      BY <1>2
    <3> QED
      BY <1>1, <3>1, <3>2
  <2> QED
    BY <1>1, <2>1, <2>2
<1> QED
  BY <1>1, <1>2, <1>3 DEF Written

\* What a peer sends is written behind what it sent before.
LEMMA SendWrites ==
  ASSUME Written, NEW m \in Messages, Send(m)
  PROVE  /\ Written' /\ Len(sent') = Len(sent) + 1
         /\ Len(stream') = Len(stream) + Len(FrameOf(m))
         /\ \A n \in 0..Len(sent) : End(n)' = End(n)
<1>0. PICK L \in Nat : L = Len(sent)
  BY Ends
<1> DEFINE f == FrameOf(m)
<1>1. /\ L \in Nat /\ Len(stream) \in Nat /\ Len(ends) = L /\ L < MaxPackets
      /\ \A n \in 0..L : End(n) \in Nat /\ End(n) <= Len(stream)
      /\ sent \in Seq(Messages) /\ ends \in Seq(Nat) /\ stream \in Seq(Byte)
      /\ End(L) = Len(stream)
  BY <1>0, Ends DEF Send, Written
<1>2. f \in Seq(Byte) /\ Len(f) \in Nat /\ Len(f) > 0
  BY Framed, Sizes
<1>3. /\ sent' = Append(sent, m) /\ stream' = stream \o f
      /\ ends' = Append(ends, Len(stream'))
  BY DEF Send, FrameOf
<1>4. /\ sent' \in Seq(Messages) /\ Len(sent') = L + 1
      /\ \A n \in 1..L : sent'[n] = sent[n]
      /\ sent'[L + 1] = m
  BY <1>0, <1>1, <1>3, AppendProperties
<1> HIDE DEF f
<1>5. /\ stream' \in Seq(Byte) /\ Len(stream') = Len(stream) + Len(f)
      /\ \A i \in 1..(Len(stream) + Len(f)) :
           stream'[i] = IF i <= Len(stream) THEN stream[i] ELSE f[i - Len(stream)]
  BY <1>1, <1>2, <1>3, ConcatProperties
<1>6. Len(stream') \in Nat
  BY <1>1, <1>2, <1>5
<1>7. /\ ends' \in Seq(Nat) /\ Len(ends') = L + 1
      /\ \A n \in 1..L : ends'[n] = ends[n]
      /\ ends'[L + 1] = Len(stream')
  BY <1>1, <1>3, <1>6, AppendProperties
<1>8. /\ \A n \in 0..L : End(n)' = End(n)
      /\ End(L + 1)' = Len(stream')
  <2>1. \A n \in Nat : End(n)' = IF n = 0 THEN 0 ELSE ends'[n]
    BY DEF End
  <2>2. \A n \in Nat : End(n) = IF n = 0 THEN 0 ELSE ends[n]
    BY DEF End
  <2>3. L + 1 \in Nat /\ L + 1 # 0 /\ \A n \in 0..L : n \in Nat /\ (n # 0 => n \in 1..L)
    BY <1>1
  <2> QED
    BY <1>7, <2>1, <2>2, <2>3
<1>9. ASSUME NEW n \in 1..(L + 1), NEW k, k = sent'[n]
      PROVE  /\ End(n)' = End(n - 1)' + Len(FrameOf(k))
             /\ \A i \in 1..Len(FrameOf(k)) : stream'[End(n - 1)' + i] = FrameOf(k)[i]
  <2>1. CASE n = L + 1
    <3>1. k = m /\ n - 1 = L /\ L \in 0..L
      BY <1>1, <1>4, <1>9, <2>1
    <3>2. End(n - 1)' = Len(stream) /\ End(n)' = Len(stream')
      BY <1>1, <1>8, <2>1, <3>1
    <3>3. \A i \in 1..Len(f) : /\ Len(stream) + i \in 1..(Len(stream) + Len(f))
                               /\ ~(Len(stream) + i <= Len(stream))
                               /\ (Len(stream) + i) - Len(stream) = i
      BY <1>1, <1>2
    <3>4. \A i \in 1..Len(f) : stream'[Len(stream) + i] = f[i]
      BY <1>5, <3>3
    <3> QED
      BY <1>5, <3>1, <3>2, <3>4 DEF f
  <2>2. CASE n \in 1..L
    <3>1. k = sent[n] /\ n - 1 \in 0..L /\ n \in 0..L
      BY <1>1, <1>4, <1>9, <2>2
    <3>2. End(n - 1)' = End(n - 1) /\ End(n)' = End(n)
      BY <1>8, <3>1
    <3>3. /\ End(n) = End(n - 1) + Len(FrameOf(k))
          /\ \A i \in 1..Len(FrameOf(k)) : stream[End(n - 1) + i] = FrameOf(k)[i]
      BY <1>0, <2>2, <3>1 DEF Written
    <3>4. k \in Messages
      BY <1>0, <1>1, <2>2, <3>1, ElementOfSeq
    <3>5. Len(FrameOf(k)) \in Nat
      BY <3>4, Framed, Sizes
    <3>6. End(n - 1) \in Nat /\ End(n) \in Nat /\ End(n) <= Len(stream)
      BY <1>1, <3>1
    <3> DEFINE e == End(n - 1)
               g == FrameOf(k)
    <3>7. \A i \in 1..Len(g) : /\ e + i \in 1..(Len(stream) + Len(f))
                               /\ e + i <= Len(stream)
      <4> HIDE DEF g
      <4>1. Len(g) \in Nat /\ e \in Nat /\ e + Len(g) <= Len(stream)
        BY <3>3, <3>5, <3>6 DEF g
      <4> HIDE DEF e
      <4> QED
        BY <1>1, <1>2, <4>1
    <3> HIDE DEF e, g
    <3>8. \A i \in 1..Len(g) : stream'[e + i] = stream[e + i]
      BY <1>5, <3>7
    <3> QED
      BY <3>2, <3>3, <3>8 DEF e, g
  <2> QED
    BY <1>1, <2>1, <2>2
<1>10. ASSUME NEW i \in 0..(L + 1), NEW n \in 0..(L + 1), i < n
       PROVE  End(i)' < End(n)'
  <2>1. i \in 0..L /\ End(i)' = End(i) /\ End(i) \in Nat /\ End(i) <= Len(stream)
    BY <1>1, <1>8, <1>10
  <2>2. CASE n = L + 1
    BY <1>1, <1>2, <1>5, <1>8, <2>1, <2>2
  <2>3. CASE n \in 0..L
    <3>1. End(n)' = End(n) /\ End(i) < End(n)
      BY <1>0, <1>8, <1>10, <2>1, <2>3 DEF Written
    <3> QED
      BY <2>1, <3>1
  <2> QED
    BY <1>1, <2>2, <2>3
<1>11. Written'
  <2>1. Len(sent') <= MaxPackets /\ Len(ends') = Len(sent')
    BY <1>1, <1>4, <1>7, Sizes
  <2>2. End(Len(sent))' = Len(stream')
    <3>1. End(Len(sent))' = IF Len(sent') = 0 THEN 0 ELSE ends'[Len(sent')]
      BY DEF End
    <3> QED
      BY <1>1, <1>4, <1>7, <3>1
  <2>3. \A n \in 1..Len(sent') :
          /\ End(n)' = End(n - 1)' + Len(FrameOf(sent'[n]))
          /\ \A i \in 1..Len(FrameOf(sent'[n])) : stream'[End(n - 1)' + i] = FrameOf(sent'[n])[i]
    BY <1>4, <1>9
  <2>4. \A i, n \in 0..Len(sent') : i < n => End(i)' < End(n)'
    BY <1>4, <1>10
  <2>5. stream' \in Seq(Byte)
    BY <1>5
  <2> QED
    BY <1>4, <1>7, <2>1, <2>2, <2>3, <2>4, <2>5 DEF Written
<1> QED
  BY <1>0, <1>4, <1>5, <1>8, <1>11 DEF f

-----------------------------------------------------------------------------
(* What the reader has read of it *)

(***************************************************************************)
(* The reader follows the stream.  Until it leaves the connection or       *)
(* misses its buffer, the buffer holds the bytes taken since the packets   *)
(* delivered, which are fewer than the next packet has.                    *)
(***************************************************************************)
Following ==
  /\ arrived \in 0..Len(stream) /\ taken \in 0..arrived
  /\ used \in 0..(SizeSpace - 1) /\ size \in 0..(SizeSpace - 1)
  /\ IsSequence(delivered) /\ Len(delivered) <= Len(sent)
  /\ base = End(Len(delivered))
  /\ state \in {"open", "closed", "undefined", "thrown"}
  /\ state \in {"open", "closed"} =>
       /\ base + used = taken
       /\ size = used + ChunkSize
       /\ Len(delivered) < Len(sent) => taken < End(Len(delivered) + 1)
  /\ \A i \in 1..Len(delivered) :
       /\ delivered[i].missing \in 0..(ChunkSize - 1)
       /\ delivered[i].missing > 0 <=> state = "undefined" /\ i = Len(delivered)

StreamInv == Written /\ Following

\* The connection begins with nothing written and nothing read.
LEMMA InitFollowing == Init => StreamInv
<1> SUFFICES ASSUME Init PROVE StreamInv
  OBVIOUS
<1>1. /\ Len(sent) = 0 /\ Len(ends) = 0 /\ Len(stream) = 0 /\ Len(delivered) = 0
      /\ sent \in Seq(Messages) /\ ends \in Seq(Nat) /\ stream \in Seq(Byte)
      /\ delivered \in Seq({})
  BY EmptySeq DEF Init
<1>2. End(0) = 0
  BY DEF End
<1>3. Written
  BY <1>1, <1>2, Sizes DEF Written
<1>4. Following
  BY <1>1, <1>2, Sizes DEF Following, Init, IsSequence
<1> QED
  BY <1>3, <1>4 DEF StreamInv

\* What the peer sends changes nothing for the reader.
LEMMA SendFollowed ==
  ASSUME StreamInv, NEW m \in Messages, Send(m)
  PROVE  StreamInv'
<1>1. PICK L \in Nat, d \in Nat : L = Len(sent) /\ d = Len(delivered)
  BY Ends, SequenceDomain DEF StreamInv, Following
<1>2. /\ Written' /\ Len(sent') = L + 1 /\ Len(stream') = Len(stream) + Len(FrameOf(m))
      /\ \A n \in 0..L : End(n)' = End(n)
  BY <1>1, SendWrites DEF StreamInv
<1>3. Len(FrameOf(m)) \in Nat \ {0} /\ Len(stream) \in Nat
  BY Framed, Sizes, Ends DEF StreamInv
<1>4. UNCHANGED <<arrived, taken, used, size, base, delivered, state>> /\ state = "open"
  BY DEF Send, reader
<1>5. d <= L /\ d \in 0..L
  BY <1>1 DEF StreamInv, Following
<1>6. arrived \in 0..Len(stream')
  BY <1>2, <1>3 DEF StreamInv, Following
<1>7. End(Len(delivered))' = base
  <2>1. End(Len(delivered))' = End(d)'
    BY <1>1, <1>4 DEF End
  <2> QED
    BY <1>1, <1>2, <1>5, <2>1 DEF StreamInv, Following
<1>8. End(Len(delivered) + 1)' = End(d + 1)'
  BY <1>1, <1>4 DEF End
<1>9. taken < End(d + 1)'
  <2>1. CASE d < L
    <3>1. d + 1 \in 0..L /\ taken < End(d + 1)
      BY <1>1, <1>4, <1>5, <2>1 DEF StreamInv, Following
    <3> QED
      BY <1>2, <3>1
  <2>2. CASE d = L
    <3>1. End(L + 1)' = Len(stream')
      <4>1. End(Len(sent))' = Len(stream')
        BY <1>2 DEF Written
      <4>2. End(Len(sent))' = End(L + 1)'
        BY <1>2 DEF End
      <4> QED
        BY <4>1, <4>2
    <3>2. taken \in Nat /\ taken <= Len(stream)
      BY <1>3 DEF StreamInv, Following
    <3> QED
      BY <1>2, <1>3, <2>2, <3>1, <3>2
  <2> QED
    BY <1>5, <2>1, <2>2
<1>10. Len(delivered') <= Len(sent')
  BY <1>1, <1>2, <1>4, <1>5
<1>11. Following'
  BY <1>4, <1>6, <1>7, <1>8, <1>9, <1>10 DEF StreamInv, Following
<1> QED
  BY <1>2, <1>11 DEF StreamInv

\* The offsets in the stream depend on what was sent alone.
LEMMA SameEnds ==
  ASSUME UNCHANGED peer
  PROVE  (Written => Written') /\ \A n : End(n)' = End(n)
<1>1. UNCHANGED <<sent, ends, stream>>
  BY DEF peer
<1>2. \A n : End(n)' = End(n)
  BY <1>1 DEF End
<1> QED
  BY <1>1, <1>2 DEF Written, End

\* More bytes arrive.
LEMMA ArriveFollowed ==
  ASSUME StreamInv, Arrive
  PROVE  StreamInv'
<1>1. UNCHANGED <<sent, ends, stream, taken, used, size, base, delivered, state>> /\ UNCHANGED peer
  BY DEF Arrive, reader, peer
<1>2. arrived' \in 0..Len(stream) /\ taken \in 0..arrived'
  <2>1. arrived \in 0..Len(stream) /\ taken \in 0..arrived /\ Len(stream) \in Nat
    BY Ends DEF StreamInv, Following
  <2>2. PICK n \in (arrived + 1)..Len(stream) : arrived' = n
    BY DEF Arrive
  <2> QED
    BY <2>1, <2>2
<1>3. Written' /\ End(Len(delivered))' = End(Len(delivered)) /\ End(Len(delivered) + 1)' = End(Len(delivered) + 1)
  BY <1>1, SameEnds DEF StreamInv, End
<1>4. Following'
  BY <1>1, <1>2, <1>3 DEF StreamInv, Following
<1> QED
  BY <1>3, <1>4 DEF StreamInv

\* The connection closes.
LEMMA ErrorFollowed ==
  ASSUME StreamInv, HandleError
  PROVE  StreamInv'
<1>1. /\ UNCHANGED <<sent, ends, stream, arrived, taken, used, size, base, delivered>> /\ UNCHANGED peer
      /\ state = "open" /\ state' = "closed"
  BY DEF HandleError, reader, peer
<1>2. Written' /\ End(Len(delivered))' = End(Len(delivered)) /\ End(Len(delivered) + 1)' = End(Len(delivered) + 1)
  BY <1>1, SameEnds DEF StreamInv, End
<1>3. Following'
  BY <1>1, <1>2 DEF StreamInv, Following
<1> QED
  BY <1>2, <1>3 DEF StreamInv

(***************************************************************************)
(* What the handler of a read finds, with d packets delivered: bytes of    *)
(* the next packet, and its size as soon as the header is there.           *)
(***************************************************************************)
LEMMA AtFront ==
  ASSUME StreamInv, state = "open", arrived > taken,
         NEW d \in Nat, d = Len(delivered)
  PROVE  /\ d < Len(sent) /\ sent[d + 1] \in Messages
         /\ ReadBytes \in 1..ChunkSize /\ ReadBytes <= arrived - taken
         /\ ReadBytes = ChunkSize \/ ReadBytes = arrived - taken
         /\ Now = used + ReadBytes /\ Now \in Nat /\ Now <= size
         /\ base \in Nat /\ base + Now <= arrived
         /\ End(d + 1) = base + HeaderSize + Len(Payload(sent[d + 1]))
         /\ used < HeaderSize + Len(Payload(sent[d + 1]))
         /\ Now > HeaderSize => PacketSize = Len(Payload(sent[d + 1]))
<1>1. /\ arrived \in Nat /\ taken \in Nat /\ arrived <= Len(stream) /\ Len(stream) \in Nat
      /\ used \in Nat /\ base + used = taken /\ size = used + ChunkSize
      /\ Len(sent) \in Nat /\ d <= Len(sent) /\ base = End(d)
  BY Ends DEF StreamInv, Following
<1>2. base \in Nat /\ base <= Len(stream)
  BY <1>1, Ends DEF StreamInv
<1>3. d < Len(sent)
  <2> SUFFICES ASSUME d = Len(sent) PROVE FALSE
    BY <1>1
  <2>1. base = Len(stream)
    BY <1>1 DEF StreamInv, Written
  <2> QED
    BY <1>1, <2>1
<1>4. PICK m \in Messages : m = sent[d + 1]
  <2>1. d + 1 \in 1..Len(sent)
    BY <1>1, <1>3
  <2> QED
    BY <2>1, ElementOfSeq DEF StreamInv, Written
<1>5. /\ ReadBytes \in 1..ChunkSize /\ ReadBytes <= arrived - taken
      /\ ReadBytes = ChunkSize \/ ReadBytes = arrived - taken
  <2> DEFINE S == {ChunkSize, arrived - taken}
  <2>1. ChunkSize \in Nat \ {0} /\ arrived - taken \in Nat \ {0}
    BY <1>1, Sizes
  <2>2. \E x \in S : \A y \in S : x <= y
    BY <2>1
  <2>3. ReadBytes \in S /\ \A y \in S : ReadBytes <= y
    BY <2>2 DEF ReadBytes, Min
  <2> QED
    BY <2>1, <2>3
<1>6. Now = used + ReadBytes /\ Now \in Nat /\ Now <= size /\ base + Now <= arrived
  BY <1>1, <1>2, <1>5, Sizes DEF Now
<1>7. /\ End(d + 1) = base + HeaderSize + Len(Payload(m))
      /\ \A i \in 1..Len(FrameOf(m)) : stream[base + i] = FrameOf(m)[i]
      /\ taken < End(d + 1)
  <2>1. d + 1 \in 1..Len(sent) /\ (d + 1) - 1 = d
    BY <1>1, <1>3
  <2>2. /\ End(d + 1) = End(d) + Len(FrameOf(m))
        /\ \A i \in 1..Len(FrameOf(m)) : stream[End(d) + i] = FrameOf(m)[i]
    BY <1>4, <2>1 DEF StreamInv, Written
  <2>3. Len(FrameOf(m)) = HeaderSize + Len(Payload(m)) /\ Len(Payload(m)) \in Nat
    BY Framed
  <2>4. taken < End(d + 1)
    BY <1>3 DEF StreamInv, Following
  <2> QED
    BY <1>1, <1>2, <2>2, <2>3, <2>4, Sizes
<1>8. used < HeaderSize + Len(Payload(m))
  BY <1>1, <1>2, <1>7, Framed, Sizes
<1>9. ASSUME Now > HeaderSize PROVE PacketSize = Len(Payload(m))
  <2>1. \A i \in 1..HeaderSize : 0 + i <= Now /\ base + 0 + i = base + i /\ i \in 1..Len(FrameOf(m))
    <3>1. Len(FrameOf(m)) = HeaderSize + Len(Payload(m)) /\ Len(Payload(m)) \in Nat
      BY Framed
    <3> QED
      BY <1>2, <1>6, <1>9, <3>1, Sizes
  <2>2. \A i \in 1..HeaderSize : stream[base + 0 + i] = Header(m)[i]
    BY <1>7, <2>1, Framed
  <2>3. Buffer(0, HeaderSize) = [i \in 1..HeaderSize |-> Header(m)[i]]
    BY <2>1, <2>2 DEF Buffer
  <2>4. Header(m) = [i \in 1..HeaderSize |-> Header(m)[i]]
    BY Framed, LenProperties
  <2> QED
    BY <2>3, <2>4, Framed DEF PacketSize
<1> QED
  BY <1>2, <1>3, <1>4, <1>5, <1>6, <1>7, <1>8, <1>9

\* The size of the buffer after a read of v bytes, if it can hold a chunk more.
LEMMA RoomForAChunk ==
  ASSUME NEW v \in Nat, v + ChunkSize < SizeSpace, DoRead(v)
  PROVE  used' = v /\ size' = v + ChunkSize /\ state' = "open"
<1>1. v + ChunkSize \in 0..(SizeSpace - 1)
  BY Sizes
<1>2. (v + ChunkSize) % SizeSpace = v + ChunkSize
  <2> DEFINE x == v + ChunkSize
  <2>1. x \in 0..(SizeSpace - 1) /\ x \in Int
    BY <1>1
  <2> HIDE DEF x
  <2>2. x % SizeSpace = x
    BY <2>1, Sizes, Wraps
  <2> QED
    BY <2>2 DEF x
<1> QED
  BY <1>1, <1>2 DEF DoRead

\* The bytes of a packet that is not complete are kept.
LEMMA ReadMoreFollowed ==
  ASSUME StreamInv, HandleRead, ReadMore
  PROVE  StreamInv' /\ state' = "open" /\ UNCHANGED delivered
<1>1. PICK d \in Nat : d = Len(delivered)
  BY SequenceDomain DEF StreamInv, Following
<1>2. /\ state = "open" /\ arrived > taken /\ taken' = taken + ReadBytes
      /\ UNCHANGED <<sent, ends, stream, arrived, base, delivered>> /\ UNCHANGED peer
      /\ ~Complete /\ DoRead(Now)
  BY DEF HandleRead, ReadMore, peer
<1>3. PICK m \in Messages : m = sent[d + 1]
  BY <1>1, <1>2, AtFront
<1> DEFINE P == Len(Payload(m))
<1>4. /\ d < Len(sent)
      /\ ReadBytes \in 1..ChunkSize /\ ReadBytes <= arrived - taken
      /\ Now = used + ReadBytes /\ Now \in Nat /\ Now <= size
      /\ base \in Nat /\ base + Now <= arrived
      /\ End(d + 1) = base + HeaderSize + P
      /\ Now > HeaderSize => PacketSize = P
  BY <1>1, <1>2, <1>3, AtFront
<1>5. P \in Nat /\ P >= HeaderSize /\ HeaderSize + P + ChunkSize < SizeSpace
  BY Framed
<1>6. used \in Nat /\ base + used = taken /\ size = used + ChunkSize /\ arrived \in Nat /\ taken \in Nat
  BY <1>2, Ends DEF StreamInv, Following
<1> HIDE DEF P
<1>7. Now < HeaderSize + P
  <2>1. CASE Now > HeaderSize
    <3>1. ~(size - HeaderSize >= P)
      BY <1>2, <1>4, <2>1 DEF Complete
    <3> QED
      BY <1>4, <1>5, <1>6, <3>1, Sizes
  <2>2. CASE ~(Now > HeaderSize)
    BY <1>4, <1>5, <2>2, Sizes
  <2> QED
    BY <2>1, <2>2
<1>8. used' = Now /\ size' = Now + ChunkSize /\ state' = "open"
  <2>1. Now + ChunkSize < SizeSpace
    BY <1>4, <1>5, <1>7, Sizes
  <2> QED
    BY <1>2, <1>4, <2>1, RoomForAChunk
<1>9. /\ used' \in 0..(SizeSpace - 1) /\ size' \in 0..(SizeSpace - 1)
      /\ taken' \in 0..arrived /\ base + used' = taken' /\ taken' < End(d + 1)
  BY <1>2, <1>4, <1>5, <1>6, <1>7, <1>8, Sizes
<1>10. Written' /\ End(Len(delivered))' = End(Len(delivered)) /\ End(Len(delivered) + 1)' = End(Len(delivered) + 1)
  BY <1>2, SameEnds DEF StreamInv, End
<1>11. Following'
  BY <1>1, <1>2, <1>8, <1>9, <1>10 DEF StreamInv, Following
<1> QED
  BY <1>2, <1>8, <1>10, <1>11 DEF StreamInv

\* Nothing is read any more after an exception.
LEMMA ThrowFollowed ==
  ASSUME StreamInv, HandleRead, Throw
  PROVE  StreamInv' /\ state' = "thrown" /\ UNCHANGED delivered
<1>1. PICK d \in Nat : d = Len(delivered)
  BY SequenceDomain DEF StreamInv, Following
<1>2. /\ state = "open" /\ arrived > taken /\ taken' = taken + ReadBytes
      /\ UNCHANGED <<sent, ends, stream, arrived, base, size, delivered>> /\ UNCHANGED peer
      /\ used' = Now /\ state' = "thrown"
  BY DEF HandleRead, Throw, peer
<1>3. /\ ReadBytes \in 1..ChunkSize /\ ReadBytes <= arrived - taken
      /\ Now \in Nat /\ Now <= size
  BY <1>1, <1>2, AtFront
<1>4. taken' \in 0..arrived /\ used' \in 0..(SizeSpace - 1)
  <2>1. taken \in Nat /\ arrived \in Nat /\ size \in 0..(SizeSpace - 1)
    BY Ends DEF StreamInv, Following
  <2> QED
    BY <1>2, <1>3, <2>1, Sizes
<1>5. Written' /\ End(Len(delivered))' = End(Len(delivered))
  BY <1>2, SameEnds DEF StreamInv, End
<1>6. Following'
  BY <1>2, <1>4, <1>5 DEF StreamInv, Following
<1> QED
  BY <1>2, <1>5, <1>6 DEF StreamInv

(***************************************************************************)
(* What is left of the buffer after a packet is taken off it: the bytes    *)
(* that came after the packet, or, when it was short of bytes, a number    *)
(* that has wrapped.                                                       *)
(***************************************************************************)
LEMMA TakenOff ==
  ASSUME StreamInv, HandleRead, Deliver,
         NEW d \in Nat, d = Len(delivered),
         NEW m \in Messages, m = sent[d + 1]
  PROVE  /\ base' = base + HeaderSize + Len(Payload(m))
         /\ Missing \in 0..(ChunkSize - 1)
         /\ Missing > 0 <=> Now < HeaderSize + Len(Payload(m))
         /\ used' \in 0..(SizeSpace - 1) /\ size' \in 0..(SizeSpace - 1)
         /\ Missing = 0 => /\ state' = "open" /\ used' < ChunkSize
                           /\ used' = Now - (HeaderSize + Len(Payload(m)))
                           /\ size' = used' + ChunkSize
         /\ Missing > 0 => state' = "undefined"
<1> DEFINE P == Len(Payload(m))
<1>1. /\ state = "open" /\ arrived > taken /\ Complete
      /\ base' = base + Consumed
      /\ DoRead((Now - Consumed) % SizeSpace)
  BY DEF HandleRead, Deliver
<1>2. /\ ReadBytes \in 1..ChunkSize
      /\ Now = used + ReadBytes /\ Now \in Nat /\ Now <= size
      /\ base \in Nat /\ used < HeaderSize + P
      /\ Now > HeaderSize => PacketSize = P
  BY <1>1, AtFront
<1>3. P \in Nat /\ P >= HeaderSize /\ HeaderSize + P + ChunkSize < SizeSpace
  BY Framed
<1>4. used \in Nat /\ size = used + ChunkSize /\ size < SizeSpace
  <2>1. used \in 0..(SizeSpace - 1) /\ size \in 0..(SizeSpace - 1) /\ size = used + ChunkSize
    BY <1>1 DEF StreamInv, Following
  <2> QED
    BY <2>1, Sizes
<1> HIDE DEF P
<1>5. PacketSize = P /\ size >= HeaderSize + P
  <2>1. Now > HeaderSize /\ size - HeaderSize >= PacketSize
    BY <1>1 DEF Complete
  <2> QED
    BY <1>2, <1>3, <1>4, <2>1, Sizes
<1>6. /\ Consumed = HeaderSize + P
      /\ Missing = IF Now < HeaderSize + P THEN HeaderSize + P - Now ELSE 0
  BY <1>5 DEF Consumed, Missing
<1>7. /\ Missing \in 0..(ChunkSize - 1)
      /\ Missing > 0 <=> Now < HeaderSize + P
      /\ base' = base + HeaderSize + P
  BY <1>1, <1>2, <1>3, <1>4, <1>5, <1>6, Sizes
<1>8. CASE Now >= HeaderSize + P
  <2> DEFINE v == Now - (HeaderSize + P)
  <2>1. v \in Nat /\ v < ChunkSize /\ v + ChunkSize < SizeSpace /\ v \in 0..(SizeSpace - 1)
    BY <1>2, <1>3, <1>4, <1>8, Sizes
  <2>0. v = Now - (HeaderSize + P)
    OBVIOUS
  <2> HIDE DEF v
  <2>2. v % SizeSpace = v
    <3>1. v \in Int /\ v \in 0..(SizeSpace - 1)
      BY <2>1
    <3>2. SizeSpace \in Nat \ {0}
      BY Sizes
    <3> QED
      BY <3>1, <3>2, Wraps
  <2>3. DoRead(v)
    BY <1>1, <1>6, <2>0, <2>2
  <2>4. used' = v /\ size' = v + ChunkSize /\ state' = "open"
    BY <2>1, <2>3, RoomForAChunk
  <2>5. size' \in 0..(SizeSpace - 1)
    BY <2>1, <2>4, Sizes
  <2> QED
    <3>1. ~(Missing > 0)
      BY <1>2, <1>3, <1>7, <1>8, Sizes
    <3>2. used' \in 0..(SizeSpace - 1) /\ used' < ChunkSize /\ used' = Now - (HeaderSize + P)
      BY <2>0, <2>1, <2>4
    <3> HIDE DEF v
    <3> QED
      BY <1>7, <2>4, <2>5, <3>1, <3>2 DEF P
<1>9. CASE Now < HeaderSize + P
  <2> DEFINE x == Now - (HeaderSize + P)
             v == x + SizeSpace
  <2>1. x \in Int /\ x < 0 /\ -ChunkSize < x /\ -SizeSpace <= x
    BY <1>2, <1>3, <1>4, <1>5, <1>9, Sizes
  <2>2. x % SizeSpace = v
    BY <2>1, Wraps, Sizes
  <2>3. DoRead(v)
    BY <1>1, <1>6, <2>2
  <2> HIDE DEF x
  <2>4. v \in 0..(SizeSpace - 1) /\ v + ChunkSize \in Int
        /\ SizeSpace <= v + ChunkSize /\ v + ChunkSize < 2 * SizeSpace
    BY <2>1, Sizes
  <2>5. (v + ChunkSize) % SizeSpace = (v + ChunkSize) - SizeSpace
    BY <2>4, Wraps, Sizes
  <2>6. /\ used' = v /\ size' = (v + ChunkSize) - SizeSpace
        /\ v + ChunkSize > (v + ChunkSize) - SizeSpace
    BY <2>3, <2>4, <2>5, Sizes DEF DoRead
  <2>7. state' = "undefined"
    BY <2>3, <2>6 DEF DoRead
  <2>8. size' \in 0..(SizeSpace - 1)
    BY <2>4, <2>6, Sizes
  <2> QED
    BY <1>2, <1>3, <1>7, <1>9, <2>4, <2>6, <2>7, <2>8, Sizes DEF P
<1> QED
  BY <1>2, <1>3, <1>8, <1>9, Sizes

\* The reader follows the stream across a packet that it delivers.
LEMMA DeliverFollowed ==
  ASSUME StreamInv, HandleRead, Deliver
  PROVE  StreamInv'
<1>1. PICK d \in Nat, L \in Nat : d = Len(delivered) /\ L = Len(sent)
  BY Ends, SequenceDomain DEF StreamInv, Following
<1>2. /\ state = "open" /\ arrived > taken /\ taken' = taken + ReadBytes
      /\ UNCHANGED <<sent, ends, stream, arrived>> /\ UNCHANGED peer
      /\ delivered' = Append(delivered, [packet |-> Parsed, missing |-> Missing])
  BY DEF HandleRead, Deliver, peer
<1>3. PICK m \in Messages : m = sent[d + 1]
  BY <1>1, <1>2, AtFront
<1> DEFINE P == Len(Payload(m))
<1>4. /\ d < L
      /\ ReadBytes \in 1..ChunkSize /\ ReadBytes <= arrived - taken
      /\ Now = used + ReadBytes /\ Now \in Nat /\ base \in Nat
      /\ End(d + 1) = base + HeaderSize + P
  BY <1>1, <1>2, <1>3, AtFront
<1>5. /\ base' = base + HeaderSize + P
      /\ Missing \in 0..(ChunkSize - 1)
      /\ used' \in 0..(SizeSpace - 1) /\ size' \in 0..(SizeSpace - 1)
      /\ Missing = 0 => /\ state' = "open" /\ used' < ChunkSize
                        /\ used' = Now - (HeaderSize + P)
                        /\ size' = used' + ChunkSize
      /\ Missing > 0 => state' = "undefined"
  BY <1>1, <1>3, TakenOff
<1>6. P \in Nat
  BY Framed
<1>7. used \in Nat /\ base + used = taken /\ arrived \in Nat /\ taken \in Nat
  BY <1>2, Ends DEF StreamInv, Following
<1> HIDE DEF P
<1>8. /\ IsSequence(delivered') /\ Len(delivered') = d + 1
      /\ \A i \in 1..d : delivered'[i] = delivered[i]
      /\ delivered'[d + 1] = [packet |-> Parsed, missing |-> Missing]
  BY <1>1, <1>2, Appended DEF StreamInv, Following
<1>9. Written' /\ \A n : End(n)' = End(n)
  BY <1>2, SameEnds DEF StreamInv
<1>10. base' = End(Len(delivered))'
  <2>1. End(Len(delivered))' = End(d + 1)'
    BY <1>8 DEF End
  <2> QED
    BY <1>4, <1>5, <1>9, <2>1
<1>11. taken' \in 0..arrived
  BY <1>2, <1>4, <1>7, Sizes
<1>12. ASSUME state' \in {"open", "closed"}
       PROVE  /\ base' + used' = taken' /\ size' = used' + ChunkSize
              /\ d + 1 < L => taken' < End(d + 2)'
  <2>1. Missing = 0
    BY <1>5, <1>12, Sizes
  <2>2. base' + used' = taken'
    BY <1>2, <1>4, <1>5, <1>6, <1>7, <2>1, Sizes
  <2>3. ASSUME d + 1 < L PROVE taken' < End(d + 2)
    <3>1. d + 2 \in 1..L /\ (d + 2) - 1 = d + 1
      BY <2>3
    <3>2. End(d + 2) = End(d + 1) + Len(FrameOf(sent[d + 2]))
      BY <1>1, <3>1 DEF StreamInv, Written
    <3>3. sent[d + 2] \in Messages
      BY <1>1, <3>1, ElementOfSeq DEF StreamInv, Written
    <3> DEFINE F == Len(FrameOf(sent[d + 2]))
    <3>4. F \in Nat /\ F >= 2 * HeaderSize
      BY <3>3, FrameLength
    <3>5. taken' = End(d + 1) + used' /\ End(d + 1) \in Nat /\ used' < ChunkSize /\ used' \in Nat
      BY <1>4, <1>5, <1>6, <2>1, <2>2, Sizes
    <3> HIDE DEF F
    <3>6. End(d + 2) = End(d + 1) + F
      BY <3>2 DEF F
    <3> QED
      BY <3>4, <3>5, <3>6, Sizes
  <2> QED
    BY <1>5, <1>9, <2>1, <2>2, <2>3
<1>13. ASSUME NEW i \in 1..(d + 1)
       PROVE  /\ delivered'[i].missing \in 0..(ChunkSize - 1)
              /\ delivered'[i].missing > 0 <=> state' = "undefined" /\ i = d + 1
  <2>1. CASE i = d + 1
    <3>1. delivered'[i].missing = Missing
      BY <1>8, <2>1
    <3>2. Missing > 0 <=> state' = "undefined"
      <4>1. Missing = 0 \/ Missing > 0
        BY <1>5, Sizes
      <4>2. Missing = 0 => state' = "open"
        BY <1>5
      <4>3. Missing > 0 => state' = "undefined"
        BY <1>5
      <4>4. ~(0 > 0)
        OBVIOUS
      <4> QED
        BY <4>1, <4>2, <4>3, <4>4
    <3> QED
      BY <1>5, <2>1, <3>1, <3>2
  <2>2. CASE i \in 1..d
    <3>1. delivered'[i] = delivered[i] /\ i # d + 1
      BY <1>8, <2>2
    <3>2. delivered[i].missing \in 0..(ChunkSize - 1) /\ ~(delivered[i].missing > 0)
      BY <1>1, <1>2, <2>2 DEF StreamInv, Following
    <3> QED
      BY <3>1, <3>2
  <2> QED
    BY <2>1, <2>2
<1>14. Following'
  <2>1. Len(delivered') <= Len(sent') /\ state' \in {"open", "closed", "undefined", "thrown"}
    BY <1>1, <1>2, <1>4, <1>5, <1>8, Sizes
  <2>2. arrived' \in 0..Len(stream') /\ taken' \in 0..arrived'
    BY <1>2, <1>11 DEF StreamInv, Following
  <2>3. End(Len(delivered) + 1)' = End(d + 2)'
    <3>1. Len(delivered') + 1 = d + 2
      BY <1>8
    <3> QED
      BY <3>1 DEF End
  <2>4. state' \in {"open", "closed"} =>
          /\ base' + used' = taken' /\ size' = used' + ChunkSize
          /\ Len(delivered') < Len(sent') => taken' < End(Len(delivered) + 1)'
    BY <1>1, <1>2, <1>8, <1>12, <2>3
  <2>5. \A i \in 1..Len(delivered') :
          /\ delivered'[i].missing \in 0..(ChunkSize - 1)
          /\ delivered'[i].missing > 0 <=> state' = "undefined" /\ i = Len(delivered')
    BY <1>8, <1>13
  <2> QED
    BY <1>5, <1>8, <1>10, <2>1, <2>2, <2>4, <2>5 DEF Following
<1> QED
  BY <1>9, <1>14 DEF StreamInv

\* The reader follows the stream in every step.
LEMMA StepFollowed == StreamInv /\ [Next]_vars => StreamInv'
<1> SUFFICES ASSUME StreamInv, [Next]_vars PROVE StreamInv'
  OBVIOUS
<1>1. ASSUME NEW m \in Messages, Send(m) PROVE StreamInv'
  BY <1>1, SendFollowed
<1>2. CASE Arrive
  BY <1>2, ArriveFollowed
<1>3. CASE HandleRead
  <2>1. Deliver \/ Throw \/ ReadMore
    BY <1>3 DEF HandleRead
  <2> QED
    BY <1>3, <2>1, DeliverFollowed, ThrowFollowed, ReadMoreFollowed
<1>4. CASE HandleError
  BY <1>4, ErrorFollowed
<1>5. CASE UNCHANGED vars
  <2>1. /\ UNCHANGED <<sent, ends, stream, arrived, taken, used, size, base, delivered, state>>
        /\ UNCHANGED peer
    BY <1>5 DEF vars, peer, reader
  <2>2. Written' /\ End(Len(delivered))' = End(Len(delivered)) /\ End(Len(delivered) + 1)' = End(Len(delivered) + 1)
    BY <2>1, SameEnds DEF StreamInv, End
  <2>3. Following'
    BY <2>1, <2>2 DEF StreamInv, Following
  <2> QED
    BY <2>2, <2>3 DEF StreamInv
<1> QED
  BY <1>1, <1>2, <1>3, <1>4, <1>5 DEF Next

\* In every behaviour the reader follows the stream.
THEOREM StreamFollowed == Spec => []StreamInv
<1>1. Init => StreamInv
  BY InitFollowing
<1>2. StreamInv /\ [Next]_vars => StreamInv'
  BY StepFollowed
<1> QED
  BY <1>1, <1>2, PTL DEF Spec

-----------------------------------------------------------------------------
(* Theorems *)

\* The variables keep their types.
THEOREM TypesKept == Spec => []TypeOK
<1>1. StreamInv => TypeOK
  <2> SUFFICES ASSUME StreamInv PROVE TypeOK
    OBVIOUS
  <2>1. /\ Len(sent) \in Nat /\ Len(stream) \in Nat /\ Len(ends) = Len(sent)
        /\ \A n \in 0..Len(sent) : End(n) \in Nat /\ End(n) <= Len(stream)
    BY Ends DEF StreamInv
  <2>2. \A n \in DOMAIN ends : End(n) - End(n - 1) >= 2 * HeaderSize
    <3> SUFFICES ASSUME NEW n \in DOMAIN ends PROVE End(n) - End(n - 1) >= 2 * HeaderSize
      OBVIOUS
    <3>1. n \in 1..Len(sent) /\ n - 1 \in 0..Len(sent)
      BY <2>1, LenProperties DEF StreamInv, Written
    <3>2. PICK m \in Messages : m = sent[n]
      BY <3>1, ElementOfSeq DEF StreamInv, Written
    <3>3. End(n) = End(n - 1) + Len(FrameOf(m))
      BY <3>1, <3>2 DEF StreamInv, Written
    <3>4. Len(FrameOf(m)) \in Nat /\ Len(FrameOf(m)) >= 2 * HeaderSize
      BY FrameLength
    <3>5. End(n - 1) \in Nat
      BY <2>1, <3>1
    <3> QED
      BY <3>3, <3>4, <3>5, Sizes
  <2>3. base \in 0..(Len(stream) + ChunkSize)
    <3>1. Len(delivered) \in 0..Len(sent)
      BY <2>1, SequenceDomain DEF StreamInv, Following
    <3> QED
      BY <2>1, <3>1, Sizes DEF StreamInv, Following
  <2>4. \A i \in DOMAIN delivered : delivered[i].missing \in 0..ChunkSize
    BY SequenceDomain, Sizes DEF StreamInv, Following
  <2> QED
    BY <2>1, <2>2, <2>3, <2>4 DEF StreamInv, Written, Following, TypeOK
<1> QED
  BY <1>1, StreamFollowed, PTL

(***************************************************************************)
(* However the network cuts the stream, _buff begins at a packet, and      *)
(* holds the bytes taken since.                                            *)
(***************************************************************************)
THEOREM ReaderInStep == Spec => []InStep
<1>1. StreamInv => InStep
  BY DEF StreamInv, Following, InStep
<1> QED
  BY <1>1, StreamFollowed, PTL

\* A packet that was delivered short of bytes is the last.
THEOREM TornIsLast == Spec => []OnlyTheLastIsTorn
<1>1. StreamInv => OnlyTheLastIsTorn
  <2> SUFFICES ASSUME StreamInv PROVE OnlyTheLastIsTorn
    OBVIOUS
  <2>1. DOMAIN delivered = 1..Len(delivered)
    BY SequenceDomain DEF StreamInv, Following
  <2> SUFFICES ASSUME NEW i \in 1..Len(delivered)
               PROVE  /\ delivered[i].missing < ChunkSize
                      /\ delivered[i].missing > 0 <=> state = "undefined" /\ i = Len(delivered)
    BY <2>1 DEF OnlyTheLastIsTorn
  <2>2. delivered[i].missing \in 0..(ChunkSize - 1)
    BY DEF StreamInv, Following
  <2>3. delivered[i].missing > 0 <=> state = "undefined" /\ i = Len(delivered)
    BY DEF StreamInv, Following
  <2> QED
    BY <2>2, <2>3, Sizes
<1> QED
  BY <1>1, StreamFollowed, PTL

\* No packet that arrived stays behind in the buffer.
THEOREM NoneLeftBehind == Spec => []NothingLeftBehind
<1>1. StreamInv => NothingLeftBehind
  <2> SUFFICES ASSUME StreamInv, state = "open", taken = arrived,
                      NEW n \in DOMAIN ends, End(n) <= arrived
               PROVE  n <= Len(delivered)
    BY DEF NothingLeftBehind
  <2>1. PICK d \in Nat : d = Len(delivered)
    BY SequenceDomain DEF StreamInv, Following
  <2>2. n \in 1..Len(sent) /\ Len(sent) \in Nat
    BY Ends, LenProperties DEF StreamInv, Written
  <2> SUFFICES ASSUME n > d PROVE FALSE
    BY <2>1, <2>2
  <2>3. d + 1 \in 0..Len(sent) /\ n \in 0..Len(sent) /\ d < Len(sent)
    BY <2>2
  <2>4. arrived < End(d + 1) /\ End(d + 1) \in Nat /\ End(n) \in Nat /\ arrived \in Nat
    BY <2>1, <2>3, Ends DEF StreamInv, Following
  <2>5. n = d + 1 \/ End(d + 1) < End(n)
    BY <2>2, <2>3 DEF StreamInv, Written
  <2> QED
    BY <2>4, <2>5
<1> QED
  BY <1>1, StreamFollowed, PTL

-----------------------------------------------------------------------------
(* What is parsed of it *)

\* The buffer from its n-th byte on, as far as the payload goes.
LEMMA PayloadInStream ==
  ASSUME StreamInv, NEW d \in Nat, d = Len(delivered), d < Len(sent),
         NEW m \in Messages, m = sent[d + 1]
  PROVE  base \in Nat /\ \A i \in 1..Len(Payload(m)) : stream[base + HeaderSize + i] = Payload(m)[i]
<1>1. /\ Len(sent) \in Nat /\ base = End(d) /\ base \in Nat
  <2>1. Len(sent) \in Nat /\ base = End(d)
    BY Ends DEF StreamInv, Following
  <2> QED
    BY <2>1, Ends DEF StreamInv
<1>2. d + 1 \in 1..Len(sent) /\ (d + 1) - 1 = d
  BY <1>1
<1>3. \A i \in 1..Len(FrameOf(m)) : stream[End(d) + i] = FrameOf(m)[i]
  BY <1>2 DEF StreamInv, Written
<1> DEFINE P == Len(Payload(m))
<1>4. /\ P \in Nat /\ Len(FrameOf(m)) = HeaderSize + P
      /\ \A i \in 1..P : FrameOf(m)[HeaderSize + i] = Payload(m)[i]
  BY Framed
<1> HIDE DEF P
<1>5. \A i \in 1..P : HeaderSize + i \in 1..(HeaderSize + P) /\ base + HeaderSize + i = base + (HeaderSize + i)
  BY <1>1, <1>4, Sizes
<1>6. \A i \in 1..P : stream[base + (HeaderSize + i)] = FrameOf(m)[HeaderSize + i]
  BY <1>1, <1>3, <1>4, <1>5
<1>7. \A i \in 1..P : stream[base + HeaderSize + i] = Payload(m)[i]
  BY <1>4, <1>5, <1>6
<1> QED
  BY <1>1, <1>7 DEF P

(***************************************************************************)
(* What is parsed is the payload that was sent, or, when the packet is     *)
(* short of bytes, its first ones and zeros for the rest.                  *)
(***************************************************************************)
LEMMA PayloadInBuffer ==
  ASSUME StreamInv, HandleRead, Complete, NEW d \in Nat, d = Len(delivered),
         NEW m \in Messages, m = sent[d + 1]
  PROVE  LET B == Buffer(HeaderSize, PacketSize)
             p == Payload(m)
         IN  /\ B \in Seq(Byte) /\ Lags(B, p) /\ B[1] = p[1]
             /\ Now >= HeaderSize + Len(p) => B = p
<1> DEFINE p == Payload(m)
           P == Len(p)
           B == Buffer(HeaderSize, PacketSize)
<1>1. d < Len(sent) /\ Now \in Nat /\ Now > HeaderSize /\ PacketSize = P
  BY AtFront DEF HandleRead, Complete
<1>2. p \in Seq(Byte) /\ P \in Nat /\ P >= HeaderSize
  BY Framed
<1>3. base \in Nat /\ \A i \in 1..P : stream[base + HeaderSize + i] = p[i]
  BY <1>1, PayloadInStream
<1>4. B = [i \in 1..P |-> IF HeaderSize + i <= Now THEN stream[base + HeaderSize + i] ELSE 0]
  BY <1>1 DEF Buffer
<1>5. \A i \in 1..P : p[i] \in Byte
  BY <1>2, ElementOfSeq
<1> HIDE DEF B, P, p
<1>6. B = [i \in 1..P |-> IF HeaderSize + i <= Now THEN p[i] ELSE 0]
  BY <1>3, <1>4
<1>7. 0 \in Byte
  BY BaseAssumption DEF Byte
<1>8. B \in Seq(Byte) /\ Len(B) = P
  <2>1. B \in [1..P -> Byte]
    BY <1>5, <1>6, <1>7
  <2>2. B \in Seq(Byte)
    BY <1>2, <2>1, SeqDef
  <2> QED
    BY <1>2, <2>1, <2>2, LenProperties
<1>9. \A i \in 1..P : B[i] = IF HeaderSize + i <= Now THEN p[i] ELSE 0
  BY <1>6
<1>10. Lags(B, p)
  <2>1. ASSUME NEW i \in 1..P, B[i] # p[i], NEW j \in i..P PROVE B[j] = 0
    <3>1. ~(HeaderSize + i <= Now)
      BY <1>9, <2>1
    <3>2. ~(HeaderSize + j <= Now) /\ j \in 1..P
      BY <1>1, <1>2, <2>1, <3>1, Sizes
    <3> QED
      BY <1>9, <3>2
  <2>2. P <= P
    BY <1>2
  <2> QED
    BY <1>8, <2>1, <2>2 DEF Lags, P
<1>11. B[1] = p[1]
  <2>1. 1 \in 1..P /\ HeaderSize + 1 <= Now
    BY <1>1, <1>2, Sizes
  <2> QED
    BY <1>9, <2>1
<1>12. ASSUME Now >= HeaderSize + P PROVE B = p
  <2>1. \A i \in 1..P : HeaderSize + i <= Now
    BY <1>1, <1>2, <1>12, Sizes
  <2>2. \A i \in 1..P : B[i] = p[i]
    BY <1>9, <2>1
  <2>3. Len(p) = P
    BY DEF P
  <2> QED
    BY <1>2, <1>8, <2>2, <2>3, SeqEqual
<1> QED
  BY <1>8, <1>10, <1>11, <1>12 DEF B, P, p

\* A packet of the connection's own list is parsed, and as it was sent if whole.
LEMMA OwnParsed ==
  ASSUME StreamInv, HandleRead, Complete, Own(Len(delivered) + 1)
  PROVE  /\ Parsed # NotEnoughData
         /\ Missing = 0 => Parsed = sent[Len(delivered) + 1].packet
<1>1. PICK d \in Nat : d = Len(delivered)
  BY SequenceDomain DEF StreamInv, Following
<1>2. PICK m \in Messages : m = sent[d + 1]
  BY <1>1, AtFront DEF HandleRead
<1> DEFINE B == Buffer(HeaderSize, PacketSize)
           p == Payload(m)
<1>3. /\ B \in Seq(Byte) /\ Lags(B, p) /\ B[1] = p[1]
      /\ Now >= HeaderSize + Len(p) => B = p
  BY <1>1, <1>2, PayloadInBuffer
<1>4. Parsed = Unserialize(m.types, B) /\ p = Serialize(m.types, m.packet)
  BY <1>1, <1>2 DEF Parsed, Own, Payload
<1> HIDE DEF B, p
<1>5. Parsed # NotEnoughData
  BY <1>3, <1>4, SentPackets, TornNeverShort
<1>6. Missing = 0 => Now >= HeaderSize + Len(p)
  <2>1. Now \in Nat /\ Now > HeaderSize /\ PacketSize = Len(p)
    BY <1>1, <1>2, AtFront DEF HandleRead, Complete, p
  <2>2. Missing = IF Now < HeaderSize + Len(p) THEN HeaderSize + Len(p) - Now ELSE 0
    BY <2>1 DEF Missing
  <2>3. Len(p) \in Nat
    BY Framed DEF p
  <2> DEFINE P == Len(p)
  <2> HIDE DEF P
  <2> QED
    BY <2>1, <2>2, <2>3, Sizes DEF P
<1>7. ASSUME Missing = 0 PROVE Parsed = m.packet
  <2>1. B = p
    BY <1>3, <1>6, <1>7
  <2>2. Parsed = Unserialize(m.types, Serialize(m.types, m.packet))
    BY <1>4, <2>1
  <2> QED
    BY <2>2, SentPackets, RoundTrip
<1> QED
  BY <1>1, <1>2, <1>5, <1>7

\* Every step keeps what was delivered as it was sent.
LEMMA StepReadAsWritten ==
  ASSUME StreamInv, ReadAsWritten, [Next]_vars
  PROVE  ReadAsWritten'
<1>1. PICK d \in Nat, L \in Nat : d = Len(delivered) /\ L = Len(sent)
  BY Ends, SequenceDomain DEF StreamInv, Following
<1>2. d <= L /\ DOMAIN delivered = 1..d
  BY <1>1, SequenceDomain DEF StreamInv, Following
<1>3. /\ \A i \in 1..d : Own(i) /\ delivered[i].missing = 0 => delivered[i].packet = sent[i].packet
      /\ state = "thrown" => ~Own(d + 1)
  BY <1>1, <1>2 DEF ReadAsWritten
<1>4. ASSUME UNCHANGED <<sent, delivered>>, state' = "thrown" => ~Own(d + 1) PROVE ReadAsWritten'
  BY <1>1, <1>2, <1>3, <1>4 DEF ReadAsWritten, Own
<1>5. ASSUME NEW m \in Messages, Send(m) PROVE ReadAsWritten'
  <2>1. /\ sent' = Append(sent, m) /\ UNCHANGED delivered /\ state' = "open"
    BY <1>5 DEF Send, reader
  <2>2. sent \in Seq(Messages)
    BY DEF StreamInv, Written
  <2>3. \A i \in 1..L : sent'[i] = sent[i]
    BY <1>1, <2>1, <2>2, AppendProperties
  <2>4. \A i \in 1..d : i \in 1..L
    BY <1>2
  <2>5. \A i \in 1..d : sent'[i] = sent[i]
    BY <2>3, <2>4
  <2>6. state' # "thrown"
    BY <2>1
  <2> QED
    BY <1>2, <1>3, <2>1, <2>5, <2>6 DEF ReadAsWritten, Own
<1>6. CASE Arrive \/ HandleError \/ UNCHANGED vars
  <2>1. UNCHANGED <<sent, delivered>> /\ (state' = "thrown" => state = "thrown")
    BY <1>6 DEF Arrive, HandleError, vars, peer, reader
  <2> QED
    BY <1>3, <1>4, <2>1
<1>7. CASE HandleRead /\ ReadMore
  <2>1. UNCHANGED sent /\ UNCHANGED delivered /\ state' = "open"
    BY <1>7, ReadMoreFollowed DEF HandleRead, peer
  <2> QED
    BY <1>4, <2>1
<1>8. CASE HandleRead /\ Throw
  <2>1. UNCHANGED <<sent, delivered>> /\ Complete /\ Parsed = NotEnoughData
    BY <1>8 DEF HandleRead, Throw, peer
  <2>2. ~Own(d + 1)
    BY <1>1, <1>8, <2>1, OwnParsed
  <2> QED
    BY <1>4, <2>1, <2>2
<1>9. CASE HandleRead /\ Deliver
  <2>1. /\ UNCHANGED sent /\ Complete
        /\ delivered' = Append(delivered, [packet |-> Parsed, missing |-> Missing])
        /\ state' \in {"open", "undefined"}
    BY <1>9 DEF HandleRead, Deliver, DoRead, peer
  <2> DEFINE e == [packet |-> Parsed, missing |-> Missing]
  <2>2. /\ DOMAIN delivered' = 1..(d + 1)
        /\ \A i \in 1..d : delivered'[i] = delivered[i]
        /\ delivered'[d + 1] = e
    BY <1>1, <2>1, Appended DEF StreamInv, Following
  <2>3. Own(d + 1) /\ Missing = 0 => Parsed = sent[d + 1].packet
    BY <1>1, <1>9, <2>1, OwnParsed
  <2>4. e.packet = Parsed /\ e.missing = Missing
    OBVIOUS
  <2> HIDE DEF e
  <2>5. \A i \in 1..(d + 1) : i \in 1..d \/ i = d + 1
    OBVIOUS
  <2>6. ASSUME NEW i \in 1..(d + 1), sent[i].types = Types, delivered'[i].missing = 0
        PROVE  delivered'[i].packet = sent[i].packet
    <3>1. CASE i \in 1..d
      BY <1>3, <2>2, <2>6, <3>1 DEF Own
    <3>2. CASE i = d + 1
      BY <2>2, <2>3, <2>4, <2>6, <3>2 DEF Own
    <3> QED
      BY <2>5, <3>1, <3>2
  <2>7. state' # "thrown"
    BY <2>1
  <2> QED
    BY <2>1, <2>2, <2>6, <2>7 DEF ReadAsWritten, Own
<1> QED
  BY <1>5, <1>6, <1>7, <1>8, <1>9 DEF Next, HandleRead

(***************************************************************************)
(* A packet of the connection's own list that is delivered whole is the    *)
(* one that was sent, and none, whole or torn, is too short to parse, no   *)
(* matter how the network cuts the stream, what came before the packet and *)
(* what list the peer took for that of the connection.                     *)
(***************************************************************************)
THEOREM OwnPacketsRead == Spec => []ReadAsWritten
<1>1. Init => ReadAsWritten
  <2> SUFFICES ASSUME Init PROVE ReadAsWritten
    OBVIOUS
  <2>1. DOMAIN delivered = {} /\ state # "thrown"
    BY DEF Init
  <2> QED
    BY <2>1 DEF ReadAsWritten
<1>2. StreamInv /\ ReadAsWritten /\ [Next]_vars => ReadAsWritten'
  BY StepReadAsWritten
<1> QED
  BY <1>1, <1>2, StreamFollowed, PTL DEF Spec

-----------------------------------------------------------------------------
(* A connection that is handed whole packets is a channel *)

\* The network hands over whole packets, all of the connection's own list.
WholeOwn == Whole /\ \A m \in Messages : m.types = Types

\* What arrived ends with a packet, and nothing went wrong.
WholeInv ==
  /\ StreamInv /\ ReadAsWritten
  /\ \E k \in 0..Len(sent) : arrived = End(k)
  /\ state \in {"open", "closed"}

\* With whole packets a packet that is taken for complete is there.
LEMMA WholeIsThere ==
  ASSUME WholeInv, HandleRead, Complete
  PROVE  Missing = 0
<1>1. PICK d \in Nat, L \in Nat : d = Len(delivered) /\ L = Len(sent)
  BY Ends, SequenceDomain DEF WholeInv, StreamInv, Following
<1>2. /\ state = "open" /\ arrived > taken /\ StreamInv
  BY DEF HandleRead, WholeInv
<1>3. PICK m \in Messages : m = sent[d + 1]
  BY <1>1, <1>2, AtFront
<1> DEFINE P == Len(Payload(m))
<1>4. /\ d < L /\ (ReadBytes = ChunkSize \/ ReadBytes = arrived - taken)
      /\ Now = used + ReadBytes /\ Now \in Nat /\ base \in Nat
      /\ End(d + 1) = base + HeaderSize + P
      /\ Now > HeaderSize => PacketSize = P
  BY <1>1, <1>2, <1>3, AtFront
<1>5. /\ base + used = taken /\ size = used + ChunkSize /\ used \in Nat
      /\ arrived \in Nat /\ taken \in Nat /\ base = End(d) /\ P \in Nat
  BY <1>1, <1>2, Ends, Framed DEF StreamInv, Following
<1> HIDE DEF P
<1>6. Now >= HeaderSize + P
  <2>1. CASE ReadBytes = ChunkSize
    <3>1. size - HeaderSize >= P /\ Now = size
      BY <1>4, <1>5, <2>1 DEF Complete
    <3> QED
      BY <1>4, <1>5, <3>1, Sizes
  <2>2. CASE ReadBytes = arrived - taken
    <3>1. PICK k \in 0..L : arrived = End(k)
      BY <1>1 DEF WholeInv
    <3>2. d + 1 \in 0..L /\ d \in 0..L
      BY <1>4
    <3>3. End(d) < arrived
      <4>1. base < arrived
        BY <1>2, <1>4, <1>5
      <4> QED
        BY <1>5, <4>1
    <3>4. ~(k < d) /\ k # d
      <4>1. k < d => End(k) < End(d)
        BY <1>1, <1>2, <3>2 DEF StreamInv, Written
      <4> QED
        BY <1>4, <1>5, <3>1, <3>3, <4>1
    <3>5. k = d + 1 \/ d + 1 < k
      BY <3>1, <3>4
    <3>6. End(d + 1) <= arrived
      <4>1. d + 1 < k => End(d + 1) < End(k)
        BY <1>1, <1>2, <3>2 DEF StreamInv, Written
      <4>2. End(d + 1) \in Nat
        BY <1>4, <1>5, Sizes
      <4> QED
        BY <1>5, <3>1, <3>5, <4>1, <4>2
    <3> QED
      BY <1>4, <1>5, <2>2, <3>6, Sizes
  <2> QED
    BY <1>4, <2>1, <2>2
<1>7. PacketSize = P
  BY <1>4 DEF Complete
<1> QED
  BY <1>4, <1>5, <1>6, <1>7, Sizes DEF Missing

\* With whole packets each packet is delivered as it was sent.
LEMMA WholeDelivered ==
  ASSUME WholeOwn, WholeInv, HandleRead
  PROVE  /\ ~Throw
         /\ Deliver => /\ state' = "open" /\ UNCHANGED sent /\ Len(delivered) < Len(sent)
                       /\ delivered' = Append(delivered, [packet |-> sent[Len(delivered) + 1].packet,
                                                          missing |-> 0])
<1>1. StreamInv /\ state = "open" /\ UNCHANGED sent
  BY DEF WholeInv, HandleRead, peer
<1>2. PICK d \in Nat : d = Len(delivered)
  BY <1>1, SequenceDomain DEF StreamInv, Following
<1>3. PICK m \in Messages : m = sent[d + 1] /\ d < Len(sent)
  BY <1>1, <1>2, AtFront DEF HandleRead
<1>4. Own(d + 1)
  BY <1>3 DEF WholeOwn, Own
<1>5. ~Throw
  BY <1>1, <1>2, <1>4, OwnParsed DEF Throw
<1>6. ASSUME Deliver
      PROVE  /\ state' = "open"
             /\ delivered' = Append(delivered, [packet |-> sent[d + 1].packet, missing |-> 0])
  <2>1. Complete
    BY <1>6 DEF Deliver
  <2>2. Missing = 0
    BY <2>1, WholeIsThere
  <2>3. Parsed = sent[d + 1].packet
    BY <1>1, <1>2, <1>4, <2>1, <2>2, OwnParsed
  <2>4. state' = "open"
    BY <1>1, <1>2, <1>3, <1>6, <2>2, TakenOff
  <2> QED
    BY <1>6, <1>2, <2>2, <2>3, <2>4 DEF Deliver
<1> QED
  BY <1>1, <1>2, <1>3, <1>5, <1>6

\* Whole packets keep arriving whole.
LEMMA StepWhole ==
  ASSUME WholeOwn, WholeInv, [Next]_vars
  PROVE  WholeInv'
<1>1. StreamInv' /\ ReadAsWritten'
  BY StepFollowed, StepReadAsWritten DEF WholeInv
<1>2. PICK L \in Nat : L = Len(sent)
  BY Ends DEF WholeInv, StreamInv
<1>3. PICK k \in 0..L : arrived = End(k)
  BY <1>2 DEF WholeInv
<1>4. ASSUME NEW m \in Messages, Send(m) PROVE WholeInv'
  <2>1. Len(sent') = L + 1 /\ End(k)' = End(k) /\ k \in 0..(L + 1)
    BY <1>2, <1>3, <1>4, SendWrites DEF WholeInv, StreamInv
  <2>2. arrived' = arrived /\ state' = "open"
    BY <1>4 DEF Send
  <2>3. \E n \in 0..Len(sent') : arrived' = End(n)'
    BY <1>3, <2>1, <2>2
  <2> QED
    BY <1>1, <2>2, <2>3 DEF WholeInv
<1>5. ASSUME UNCHANGED peer, arrived' = arrived, state' \in {"open", "closed"} PROVE WholeInv'
  <2>1. \A n : End(n)' = End(n)
    BY <1>5, SameEnds
  <2>2. sent' = sent
    BY <1>5 DEF peer
  <2>3. \E n \in 0..Len(sent') : arrived' = End(n)'
    BY <1>2, <1>3, <1>5, <2>1, <2>2
  <2> QED
    BY <1>1, <1>5, <2>3 DEF WholeInv
<1>6. CASE Arrive
  <2>1. UNCHANGED peer /\ UNCHANGED state /\ \E n \in DOMAIN ends : arrived' = ends[n]
    BY <1>6 DEF Arrive, WholeOwn
  <2>2. PICK n \in DOMAIN ends : arrived' = ends[n]
    BY <2>1
  <2>3. n \in 1..L
    BY <1>2, Ends, LenProperties DEF WholeInv, StreamInv, Written
  <2>4. arrived' = End(n)
    BY <2>2, <2>3 DEF End
  <2>5. End(n)' = End(n)
    BY <2>1, SameEnds
  <2>6. \E i \in 0..Len(sent') : arrived' = End(i)'
    <3>1. sent' = sent
      BY <2>1 DEF peer
    <3>2. n \in 0..Len(sent')
      BY <1>2, <2>3, <3>1
    <3> QED
      BY <2>4, <2>5, <3>2
  <2> QED
    BY <1>1, <2>1, <2>6 DEF WholeInv
<1>7. CASE HandleRead
  <2>1. UNCHANGED <<sent, ends, stream, arrived>> /\ UNCHANGED peer
    BY <1>7 DEF HandleRead, peer
  <2>2. state' = "open"
    <3>1. CASE Deliver
      BY <1>7, <3>1, WholeDelivered
    <3>2. CASE ReadMore
      BY <1>7, <3>2, ReadMoreFollowed DEF WholeInv
    <3>3. ~Throw
      BY <1>7, WholeDelivered
    <3> QED
      BY <1>7, <3>1, <3>2, <3>3 DEF HandleRead
  <2> QED
    BY <1>5, <2>1, <2>2
<1>8. CASE HandleError
  BY <1>5, <1>8 DEF HandleError
<1>9. CASE UNCHANGED vars
  <2>1. UNCHANGED <<peer, arrived, state>>
    BY <1>9 DEF vars
  <2> QED
    BY <1>5, <2>1 DEF WholeInv
<1> QED
  BY <1>4, <1>6, <1>7, <1>8, <1>9 DEF Next

\* The packets of messages, and of what was delivered.
Packs(s) == [i \in DOMAIN s |-> s[i].packet]

\* They are a sequence as long, which grows with the other.
LEMMA PacksGrow ==
  ASSUME NEW s, IsSequence(s)
  PROVE  /\ Len(Packs(s)) = Len(s) /\ \A i \in 1..Len(s) : Packs(s)[i] = s[i].packet
         /\ \A e : Packs(Append(s, e)) = Append(Packs(s), e.packet)
<1>1. Len(s) \in Nat /\ DOMAIN s = 1..Len(s)
  BY SequenceDomain
<1> DEFINE n == Len(s)
<1> HIDE DEF n
<1>2. n \in Nat /\ DOMAIN s = 1..n
  BY <1>1 DEF n
<1>3. ASSUME NEW e, NEW t, t = Append(s, e)
      PROVE  /\ DOMAIN t = 1..(n + 1)
             /\ \A i \in 1..n : t[i] = s[i]
             /\ t[n + 1] = e
  BY <1>3, Appended DEF n
<1>4. ASSUME NEW e PROVE Packs(Append(s, e)) = Append(Packs(s), e.packet)
  <2> DEFINE t == Append(s, e)
             T == {t[i].packet : i \in 1..(n + 1)}
  <2>1. DOMAIN t = 1..(n + 1) /\ (\A i \in 1..n : t[i] = s[i]) /\ t[n + 1] = e
    BY <1>3
  <2> HIDE DEF t
  <2>2. \A i \in 1..(n + 1) : t[i].packet \in T
    OBVIOUS
  <2> HIDE DEF T
  <2> DEFINE u == Packs(t)
             v == Packs(s)
  <2>3. u = [i \in 1..(n + 1) |-> t[i].packet] /\ v = [i \in 1..n |-> s[i].packet]
    BY <1>2, <2>1 DEF Packs
  <2> HIDE DEF u, v
  <2>4. u \in Seq(T) /\ Len(u) = n + 1
    <3>1. u \in [1..(n + 1) -> T] /\ n + 1 \in Nat
      BY <1>2, <2>2, <2>3
    <3>2. u \in Seq(T)
      BY <3>1, SeqDef
    <3> QED
      BY <3>1, <3>2, LenProperties
  <2>5. \A i \in 1..n : i \in 1..(n + 1) /\ s[i].packet = t[i].packet
    BY <1>2, <2>1
  <2>6. v \in Seq(T) /\ Len(v) = n
    <3>1. v \in [1..n -> T]
      BY <2>2, <2>3, <2>5
    <3>2. v \in Seq(T)
      BY <1>2, <3>1, SeqDef
    <3> QED
      BY <1>2, <3>1, <3>2, LenProperties
  <2> DEFINE p == e.packet
             w == Append(v, p)
  <2>7. p \in T
    <3>1. n + 1 \in 1..(n + 1)
      BY <1>2
    <3> QED
      BY <2>1, <2>2, <3>1
  <2> HIDE DEF p
  <2>8. /\ w \in Seq(T) /\ Len(w) = n + 1 /\ w[n + 1] = p
        /\ \A i \in 1..n : w[i] = v[i]
    BY <2>6, <2>7, AppendProperties
  <2> HIDE DEF w
  <2>9. \A i \in 1..(n + 1) : w[i] = u[i]
    <3>1. \A i \in 1..n : w[i] = u[i]
      BY <2>3, <2>5, <2>8
    <3>2. w[n + 1] = u[n + 1]
      <4>1. n + 1 \in 1..(n + 1)
        BY <1>2
      <4> QED
        BY <2>1, <2>3, <2>8, <4>1 DEF p
    <3>3. \A i \in 1..(n + 1) : i \in 1..n \/ i = n + 1
      BY <1>2
    <3> QED
      BY <3>1, <3>2, <3>3
  <2>10. u = w
    BY <2>4, <2>8, <2>9, SeqEqual
  <2> QED
    BY <2>10 DEF u, w, v, p, t
<1>5. Len(Packs(s)) = n /\ \A i \in 1..n : Packs(s)[i] = s[i].packet
  <2> DEFINE v == Packs(s)
             T == {s[i].packet : i \in 1..n}
  <2>1. v = [i \in 1..n |-> s[i].packet]
    BY <1>2 DEF Packs
  <2>2. \A i \in 1..n : s[i].packet \in T
    OBVIOUS
  <2> HIDE DEF v, T
  <2>3. v \in [1..n -> T]
    BY <2>1, <2>2
  <2>4. v \in Seq(T)
    BY <1>2, <2>3, SeqDef
  <2>5. Len(v) = n
    BY <1>2, <2>3, <2>4, LenProperties
  <2> QED
    BY <2>1, <2>5 DEF v
<1> QED
  BY <1>4, <1>5 DEF n

Mapped == <<Packs(sent), Packs(delivered), state = "open">>

\* Nothing that a channel shows changes.
LEMMA NothingShown ==
  ASSUME UNCHANGED <<sent, delivered>>, (state = "open") = (state' = "open")
  PROVE  UNCHANGED Mapped
BY DEF Mapped, Packs

\* A step of the connection is one of the channel, or shows nothing.
LEMMA StepOfChannel ==
  ASSUME WholeOwn, WholeInv, [Next]_vars
  PROVE  [Channel!Next]_Mapped
<1>1. StreamInv /\ IsSequence(sent) /\ IsSequence(delivered)
  BY DEF WholeInv, StreamInv, Following, Written, IsSequence
<1>2. ASSUME NEW m \in Messages, Send(m) PROVE Channel!Send
  <2>1. /\ sent' = Append(sent, m) /\ UNCHANGED <<delivered, state>> /\ state = "open"
    BY <1>2 DEF Send, reader
  <2>2. Packs(sent)' = Append(Packs(sent), m.packet)
    <3>1. Packs(sent)' = Packs(Append(sent, m))
      BY <2>1 DEF Packs
    <3> QED
      BY <1>1, <3>1, PacksGrow
  <2>3. Packs(delivered)' = Packs(delivered)
    BY <2>1 DEF Packs
  <2> QED
    BY <2>1, <2>2, <2>3 DEF Channel!Send, Packs
<1>3. CASE Arrive
  BY <1>3, NothingShown DEF Arrive, peer, reader
<1>4. CASE HandleRead /\ ReadMore
  <2>1. UNCHANGED <<sent, delivered>> /\ state = "open" /\ state' = "open"
    BY <1>1, <1>4, ReadMoreFollowed DEF HandleRead, peer
  <2> QED
    BY <2>1, NothingShown
<1>5. CASE HandleRead /\ Deliver
  <2> DEFINE e == [packet |-> sent[Len(delivered) + 1].packet, missing |-> 0]
             p == e.packet
  <2>1. /\ state = "open" /\ state' = "open" /\ UNCHANGED sent
        /\ Len(delivered) < Len(sent) /\ delivered' = Append(delivered, e)
    BY <1>5, WholeDelivered DEF HandleRead
  <2>2. p = sent[Len(delivered) + 1].packet
    OBVIOUS
  <2> HIDE DEF e
  <2>3. Packs(delivered)' = Append(Packs(delivered), p)
    <3>1. Packs(delivered)' = Packs(Append(delivered, e))
      BY <2>1 DEF Packs
    <3> QED
      BY <1>1, <3>1, PacksGrow
  <2>4. Len(Packs(delivered)) = Len(delivered) /\ Len(Packs(sent)) = Len(sent)
    BY <1>1, PacksGrow
  <2>5. Packs(sent)[Len(delivered) + 1] = p
    <3>1. Len(delivered) + 1 \in 1..Len(sent)
      <4>1. Len(delivered) \in Nat /\ Len(sent) \in Nat
        BY <1>1, SequenceDomain
      <4> QED
        BY <2>1, <4>1
    <3>2. Packs(sent)[Len(delivered) + 1] = sent[Len(delivered) + 1].packet
      BY <1>1, <3>1, PacksGrow
    <3> QED
      BY <2>2, <3>2
  <2>6. Packs(sent)' = Packs(sent)
    BY <2>1 DEF Packs
  <2> HIDE DEF p
  <2>7. Packs(delivered)' = Append(Packs(delivered), Packs(sent)[Len(Packs(delivered)) + 1])
    BY <2>3, <2>4, <2>5
  <2>8. Channel!Deliver
    BY <2>1, <2>4, <2>6, <2>7 DEF Channel!Deliver, Packs
  <2> QED
    BY <2>8 DEF Channel!Next
<1>6. CASE HandleRead /\ Throw
  BY <1>6, WholeDelivered
<1>7. CASE HandleError
  <2>1. /\ UNCHANGED <<sent, delivered>> /\ state = "open" /\ state' = "closed"
    BY <1>7 DEF HandleError, peer, reader
  <2>2. Packs(sent)' = Packs(sent) /\ Packs(delivered)' = Packs(delivered)
    BY <2>1 DEF Packs
  <2>3. Channel!Close
    BY <2>1, <2>2 DEF Channel!Close, Packs
  <2> QED
    BY <2>3 DEF Channel!Next
<1>8. CASE UNCHANGED vars
  <2>1. UNCHANGED <<sent, delivered>> /\ UNCHANGED state
    BY <1>8 DEF vars, peer, reader
  <2> QED
    BY <2>1, NothingShown
<1> QED
  BY <1>2, <1>3, <1>4, <1>5, <1>6, <1>7, <1>8 DEF Next, HandleRead, Channel!Next

\* Nothing has been sent or delivered at first.
LEMMA InitWhole == Init => Channel!Init /\ WholeInv
<1> SUFFICES ASSUME Init PROVE Channel!Init /\ WholeInv
  OBVIOUS
<1>1. /\ sent = <<>> /\ delivered = <<>> /\ state = "open" /\ arrived = 0 /\ Len(sent) = 0
  BY EmptySeq DEF Init
<1>2. StreamInv
  BY InitFollowing
<1>3. ReadAsWritten
  <2>1. DOMAIN delivered = {}
    BY <1>1
  <2> QED
    BY <1>1, <2>1 DEF ReadAsWritten
<1>4. \E k \in 0..Len(sent) : arrived = End(k)
  <2>1. 0 \in 0..Len(sent) /\ arrived = End(0)
    BY <1>1 DEF End
  <2> QED
    BY <2>1
<1>5. Packs(<<>>) = <<>>
  BY DEF Packs
<1>6. Channel!Init
  BY <1>1, <1>5 DEF Channel!Init, Packs
<1> QED
  BY <1>1, <1>2, <1>3, <1>4, <1>6 DEF WholeInv

(***************************************************************************)
(* A connection whose network hands over whole packets of its own list     *)
(* implements a channel of packets: the callback is given what was sent,   *)
(* in order, however many packets each arrival brings.                     *)
(***************************************************************************)
THEOREM WholePacketsMakeAChannel ==
  ASSUME WholeOwn
  PROVE  Spec => ImplementsChannel
<1>1. Init => Channel!Init /\ WholeInv
  BY InitWhole
<1>2. WholeInv /\ [Next]_vars => WholeInv'
  BY StepWhole
<1>3. WholeInv /\ [Next]_vars => [Channel!Next]_Channel!vars
  <2>1. Mapped = Channel!vars
    BY DEF Mapped, Packs, Channel!vars
  <2> QED
    BY <2>1, StepOfChannel DEF Mapped, Packs, Channel!vars
<1> QED
  BY <1>1, <1>2, <1>3, PTL DEF Spec, ImplementsChannel, Channel!Spec

(***************************************************************************)
(* What a test over a local connection sees: no packet is torn, and the    *)
(* connection never writes out of its buffer, as long as the network hands *)
(* over whole packets only.                                                *)
(***************************************************************************)
THEOREM WholePacketsStayIntact ==
  ASSUME WholeOwn
  PROVE  Spec => []Intact
<1>1. WholeInv => Intact
  <2> SUFFICES ASSUME WholeInv PROVE Intact
    OBVIOUS
  <2>1. DOMAIN delivered = 1..Len(delivered) /\ state # "undefined"
    BY SequenceDomain DEF WholeInv, StreamInv, Following
  <2> SUFFICES ASSUME NEW i \in 1..Len(delivered)
               PROVE  delivered[i].missing = 0 /\ delivered[i].packet = sent[i].packet
    BY <2>1 DEF Intact
  <2>2. delivered[i].missing \in 0..(ChunkSize - 1) /\ ~(delivered[i].missing > 0)
    BY <2>1 DEF WholeInv, StreamInv, Following
  <2>3. delivered[i].missing = 0
    BY <2>2, Sizes
  <2>4. Own(i)
    <3>1. i \in 1..Len(sent)
      <4>1. Len(delivered) \in Nat /\ Len(sent) \in Nat /\ Len(delivered) <= Len(sent)
        BY SequenceDomain, Ends DEF WholeInv, StreamInv, Following
      <4> QED
        BY <4>1
    <3>2. sent[i] \in Messages
      BY <3>1, ElementOfSeq DEF WholeInv, StreamInv, Written
    <3> QED
      BY <3>2 DEF WholeOwn, Own
  <2> QED
    BY <2>1, <2>3, <2>4 DEF WholeInv, ReadAsWritten
<1>2. Init => WholeInv
  BY InitWhole
<1>3. WholeInv /\ [Next]_vars => WholeInv'
  BY StepWhole
<1> QED
  BY <1>1, <1>2, <1>3, PTL DEF Spec
=============================================================================
