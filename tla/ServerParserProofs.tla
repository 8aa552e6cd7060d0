-------------------------- MODULE ServerParserProofs --------------------------
(***************************************************************************)
(* Theorems about ServerParser, for every sequence of messages with any    *)
(* values, every size of the buffer and every way TCP cuts the stream.     *)
(***************************************************************************)
EXTENDS ServerParser, SequenceTheorems, TLAPS

(* The stream.                                                             *)

\* The two bytes of a 16-bit value are bytes, and make up the value again.
LEMMA BytesOfUint16 ==
  ASSUME NEW v \in Uint16
  PROVE  /\ v % 256 \in Byte /\ (v \div 256) % 256 \in Byte
         /\ (v % 256) + 256 * ((v \div 256) % 256) = v
  <1>1. v \in 0 .. 65535
    BY DEF Uint16
  <1>2. v = 256 * (v \div 256) + (v % 256) /\ v % 256 \in 0 .. 255 /\ v \div 256 \in Int
    BY <1>1
  <1>3. v \div 256 \in 0 .. 255
    BY <1>1, <1>2
  <1>4. (v \div 256) % 256 = v \div 256
    BY <1>3
  <1>. QED
    BY <1>2, <1>3, <1>4 DEF Byte

SentMessage == [type : {MsgType.Connected, MsgType.Acknowledge},
                number : Uint16, value : Uint16]

\* The bytes of a header and the two behind it.
LEMMA HeaderAndValue ==
  ASSUME NEW number, NEW type, NEW value
  PROVE  LET b == Sketch!uint16ToUint8Array(value,
                    Sketch!writeHeader(Blank, 10, number, type), 8)
         IN  /\ b[0] = 101 /\ b[1] = 232 /\ b[2] = 25 /\ b[3] = 164 /\ b[4] = 10
             /\ b[5] = number % 256 /\ b[6] = (number \div 256) % 256 /\ b[7] = type
             /\ b[8] = value % 256 /\ b[9] = (value \div 256) % 256
  <1>. DEFINE framed == [Sketch!writeProtocolIdentity(Blank) EXCEPT ![4] = 10]
              numbered == Sketch!uint16ToUint8Array(number, framed, 5)
              typed == [numbered EXCEPT ![7] = type]
              b == Sketch!uint16ToUint8Array(value, typed, 8)
  <1>1. Sketch!writeHeader(Blank, 10, number, type) = typed
    BY DEF Sketch!writeHeader, Sketch!MsgPos
  <1>2. /\ DOMAIN framed = 0 .. 9
        /\ framed[0] = 101 /\ framed[1] = 232 /\ framed[2] = 25 /\ framed[3] = 164
        /\ framed[4] = 10
    BY DEF Sketch!writeProtocolIdentity, Blank
  <1>3. /\ DOMAIN numbered = 0 .. 9 /\ \A i \in 0 .. 4 : numbered[i] = framed[i]
        /\ numbered[5] = number % 256 /\ numbered[6] = (number \div 256) % 256
    <2>. HIDE DEF framed
    <2>. QED
      BY <1>2 DEF Sketch!uint16ToUint8Array
  <1>4. /\ DOMAIN typed = 0 .. 9 /\ \A i \in 0 .. 6 : typed[i] = numbered[i]
        /\ typed[7] = type
    <2>. HIDE DEF numbered
    <2>. QED
      BY <1>3
  <1>5. /\ \A i \in 0 .. 7 : b[i] = typed[i]
        /\ b[8] = value % 256 /\ b[9] = (value \div 256) % 256
    <2>. HIDE DEF typed
    <2>. QED
      BY <1>4 DEF Sketch!uint16ToUint8Array
  <1>. HIDE DEF b, typed, numbered, framed
  <1>6. /\ \A i \in 0 .. 4 : b[i] = framed[i]
        /\ \A i \in 5 .. 6 : b[i] = numbered[i]
    BY <1>3, <1>4, <1>5
  <1>7. /\ b[0] = 101 /\ b[1] = 232 /\ b[2] = 25 /\ b[3] = 164 /\ b[4] = 10
        /\ b[5] = number % 256 /\ b[6] = (number \div 256) % 256 /\ b[7] = type
        /\ b[8] = value % 256 /\ b[9] = (value \div 256) % 256
    BY <1>2, <1>3, <1>4, <1>5, <1>6
  <1>. QED
    BY <1>1, <1>7 DEF b

\* Byte by byte, what the device sends for a message.
LEMMA EncodedBytes ==
  ASSUME NEW m \in SentMessage
  PROVE  /\ Encode(m)[1] = 101 /\ Encode(m)[2] = 232 /\ Encode(m)[3] = 25
         /\ Encode(m)[4] = 164 /\ Encode(m)[5] = 10
         /\ Encode(m)[6] = m.number % 256 /\ Encode(m)[7] = (m.number \div 256) % 256
         /\ Encode(m)[8] = m.type
         /\ Encode(m)[9] = m.value % 256 /\ Encode(m)[10] = (m.value \div 256) % 256
         /\ \A j \in 1 .. 10 : Encode(m)[j] \in Byte
  <1>. DEFINE b == Sketch!uint16ToUint8Array(m.value,
                    Sketch!writeHeader(Blank, 10, m.number, m.type), 8)
  <1>1. Encode(m) = [i \in 1 .. 10 |-> b[i - 1]]
    BY DEF Encode, SentMessage, MsgType, Sketch!writeConnected, Sketch!writeAcknowledge,
           Sketch!MsgLen, Sketch!MsgPos, Sketch!MsgType
  <1>2. /\ b[0] = 101 /\ b[1] = 232 /\ b[2] = 25 /\ b[3] = 164 /\ b[4] = 10
        /\ b[5] = m.number % 256 /\ b[6] = (m.number \div 256) % 256 /\ b[7] = m.type
        /\ b[8] = m.value % 256 /\ b[9] = (m.value \div 256) % 256
    BY HeaderAndValue
  <1>. HIDE DEF b
  <1>3. /\ Encode(m)[1] = 101 /\ Encode(m)[2] = 232 /\ Encode(m)[3] = 25
        /\ Encode(m)[4] = 164 /\ Encode(m)[5] = 10
        /\ Encode(m)[6] = m.number % 256 /\ Encode(m)[7] = (m.number \div 256) % 256
        /\ Encode(m)[8] = m.type
        /\ Encode(m)[9] = m.value % 256 /\ Encode(m)[10] = (m.value \div 256) % 256
    BY <1>1, <1>2
  <1>4. /\ m.number % 256 \in Byte /\ (m.number \div 256) % 256 \in Byte
        /\ m.value % 256 \in Byte /\ (m.value \div 256) % 256 \in Byte
        /\ m.type \in Byte
    BY BytesOfUint16 DEF SentMessage, MsgType, Byte
  <1>5. ASSUME NEW j \in 1 .. 10 PROVE Encode(m)[j] \in Byte
    <2>1. \/ j = 1 \/ j = 2 \/ j = 3 \/ j = 4 \/ j = 5
          \/ j = 6 \/ j = 7 \/ j = 8 \/ j = 9 \/ j = 10
      OBVIOUS
    <2>. QED
      BY <1>3, <1>4, <2>1 DEF Byte
  <1>. QED
    BY <1>3, <1>5

\* The messages are messages.
LEMMA MessagesSent ==
  /\ Len(Messages) \in Nat
  /\ \A k \in 0 .. Len(Messages) - 1 : Messages[k + 1] \in SentMessage
  <1>1. Messages \in Seq(SentMessage)
    BY ParserAssumption DEF SentMessage
  <1>2. Len(Messages) \in Nat
    BY <1>1, LenProperties
  <1>3. ASSUME NEW k \in 0 .. Len(Messages) - 1 PROVE Messages[k + 1] \in SentMessage
    <2>1. k + 1 \in 1 .. Len(Messages)
      BY <1>2
    <2>. QED
      BY <1>1, <2>1, ElementOfSeq
  <1>. QED
    BY <1>2, <1>3

\* The j-th byte of the message behind the first k.
LEMMA StreamByte ==
  ASSUME NEW k \in 0 .. Len(Messages) - 1, NEW j \in 1 .. 10
  PROVE  /\ 10 * k + j \in 1 .. 10 * Len(Messages)
         /\ Stream[10 * k + j] = Encode(Messages[k + 1])[j]
  <1>. DEFINE i == 10 * k + j
  <1>1. Len(Messages) \in Nat /\ k \in Nat /\ k + 1 <= Len(Messages)
    BY MessagesSent
  <1>2. i \in 1 .. 10 * Len(Messages)
    BY <1>1
  <1>3. (i - 1) \div 10 = k /\ ((i - 1) % 10) + 1 = j
    BY <1>1
  <1>. HIDE DEF i
  <1>4. Stream[i] = Encode(Messages[((i - 1) \div 10) + 1])[((i - 1) % 10) + 1]
    BY <1>2 DEF Stream, MsgLen
  <1>. QED
    BY <1>2, <1>3, <1>4 DEF i

\* Every place in the stream is in a message.
LEMMA Place ==
  ASSUME NEW p \in 0 .. 10 * Len(Messages) - 1
  PROVE  \E k \in 0 .. Len(Messages) - 1, r \in 0 .. 9 : p = 10 * k + r
  <1>1. Len(Messages) \in Nat
    BY MessagesSent
  <1>2. /\ p \div 10 \in 0 .. Len(Messages) - 1 /\ p % 10 \in 0 .. 9
        /\ p = 10 * (p \div 10) + (p % 10)
    BY <1>1
  <1>. QED
    BY <1>2

\* The stream is one of bytes.
LEMMA StreamType ==
  Stream \in Seq(Byte) /\ Len(Stream) = 10 * Len(Messages)
  <1>1. 10 * Len(Messages) \in Nat
    BY MessagesSent
  <1>2. ASSUME NEW i \in 1 .. 10 * Len(Messages) PROVE Stream[i] \in Byte
    <2>1. i - 1 \in 0 .. 10 * Len(Messages) - 1
      BY <1>1
    <2>2. PICK k \in 0 .. Len(Messages) - 1, r \in 0 .. 9 : i - 1 = 10 * k + r
      BY <2>1, Place
    <2>3. i = 10 * k + (r + 1) /\ r + 1 \in 1 .. 10
      BY <1>1, <2>2, MessagesSent
    <2>4. Messages[k + 1] \in SentMessage
      BY MessagesSent
    <2>5. Encode(Messages[k + 1])[r + 1] \in Byte
      BY <2>3, <2>4, EncodedBytes
    <2>. QED
      BY <2>3, <2>5, StreamByte
  <1>3. Stream \in [1 .. 10 * Len(Messages) -> Byte]
    BY <1>2 DEF Stream, MsgLen
  <1>. QED
    BY <1>1, <1>3, SeqDef, LenProperties

\* The bytes of the message behind the first k.
LEMMA MessageBytes ==
  ASSUME NEW k \in 0 .. Len(Messages) - 1
  PROVE  /\ Messages[k + 1] \in SentMessage
         /\ Stream[10 * k + 1] = 101 /\ Stream[10 * k + 2] = 232
         /\ Stream[10 * k + 3] = 25 /\ Stream[10 * k + 4] = 164
         /\ Stream[10 * k + 5] = 10 /\ Stream[10 * k + 8] = Messages[k + 1].type
         /\ Stream[10 * k + 9] = Messages[k + 1].value % 256
         /\ Stream[10 * k + 10] = (Messages[k + 1].value \div 256) % 256
  <1>. DEFINE m == Messages[k + 1]
  <1>1. m \in SentMessage
    BY MessagesSent
  <1>2. \A j \in 1 .. 10 : Stream[10 * k + j] = Encode(m)[j]
    BY StreamByte
  <1>. HIDE DEF m
  <1>3. /\ Encode(m)[1] = 101 /\ Encode(m)[2] = 232 /\ Encode(m)[3] = 25
        /\ Encode(m)[4] = 164 /\ Encode(m)[5] = 10 /\ Encode(m)[8] = m.type
        /\ Encode(m)[9] = m.value % 256 /\ Encode(m)[10] = (m.value \div 256) % 256
    BY <1>1, EncodedBytes
  <1>4. /\ Stream[10 * k + 1] = 101 /\ Stream[10 * k + 2] = 232
        /\ Stream[10 * k + 3] = 25 /\ Stream[10 * k + 4] = 164
        /\ Stream[10 * k + 5] = 10 /\ Stream[10 * k + 8] = m.type
        /\ Stream[10 * k + 9] = m.value % 256
        /\ Stream[10 * k + 10] = (m.value \div 256) % 256
    <2>1. /\ Stream[10 * k + 1] = Encode(m)[1] /\ Stream[10 * k + 2] = Encode(m)[2]
          /\ Stream[10 * k + 3] = Encode(m)[3] /\ Stream[10 * k + 4] = Encode(m)[4]
          /\ Stream[10 * k + 5] = Encode(m)[5] /\ Stream[10 * k + 8] = Encode(m)[8]
          /\ Stream[10 * k + 9] = Encode(m)[9] /\ Stream[10 * k + 10] = Encode(m)[10]
      BY <1>2
    <2>. QED
      BY <1>3, <2>1
  <1>. QED
    BY <1>1, <1>4 DEF m

\* No message, and no two in a row, hold the identity anywhere but at the front
\* (DeviceProtocol.c:14), whatever numbers and names they carry.
THEOREM NoFalseStart ==
  ASSUME NEW p \in Nat, p + 4 <= Len(Stream),
         Stream[p + 1] = 101, Stream[p + 2] = 232, Stream[p + 3] = 25,
         Stream[p + 4] = 164
  PROVE  Boundary(p)
  <1>1. Len(Messages) \in Nat /\ Len(Stream) = 10 * Len(Messages)
    BY MessagesSent, StreamType
  <1>2. p \in 0 .. 10 * Len(Messages) - 1
    BY <1>1
  <1>3. PICK k \in 0 .. Len(Messages) - 1, r \in 0 .. 9 : p = 10 * k + r
    BY <1>2, Place
  <1>4. k \in Nat /\ Stream[10 * k + 5] = 10 /\ Stream[10 * k + 8] \in {1, 2}
    <2>1. Messages[k + 1].type \in {1, 2}
      BY MessagesSent DEF SentMessage, MsgType
    <2>. QED
      BY <1>1, <2>1, MessageBytes
  <1>5. CASE r = 0
    BY <1>3, <1>4, <1>5 DEF Boundary, MsgLen
  <1>6. CASE r \in 1 .. 4
    <2>1. \/ 10 * k + 5 = p + 1 \/ 10 * k + 5 = p + 2
          \/ 10 * k + 5 = p + 3 \/ 10 * k + 5 = p + 4
      BY <1>3, <1>4, <1>6
    <2>. QED
      BY <1>4, <2>1
  <1>7. CASE r \in 5 .. 7
    <2>1. \/ 10 * k + 8 = p + 1 \/ 10 * k + 8 = p + 2 \/ 10 * k + 8 = p + 3
      BY <1>3, <1>4, <1>7
    <2>. QED
      BY <1>4, <2>1
  <1>8. CASE r \in 8 .. 9
    <2>1. k + 1 \in 0 .. Len(Messages) - 1
      BY <1>1, <1>3, <1>8
    <2>2. Stream[10 * (k + 1) + 1] = 101
      BY <2>1, MessageBytes
    <2>3. 10 * (k + 1) + 1 = p + 3 \/ 10 * (k + 1) + 1 = p + 2
      BY <1>3, <1>4, <1>8
    <2>. QED
      BY <2>2, <2>3
  <1>. QED
    BY <1>5, <1>6, <1>7, <1>8

-----------------------------------------------------------------------------
(* What is found, and what is read of it.                                  *)

Inv == TypeOK /\ SearchInv

\* A place that findMessageStart returns: four bytes of the read are the
\* identity, and so it is where a message begins in the stream.
LEMMA FoundPlace ==
  ASSUME Inv, FoundOne
  PROVE  /\ messageStart \in Nat /\ messageStart + 4 <= readBytes
         /\ Boundary(consumed - readBytes + messageStart)
  <1>. USE DEF Inv, SearchInv
  <1>1. /\ messageStart \in Nat /\ scanItr = messageStart + 4 /\ scanItr <= readBytes
        /\ \A j \in 1 .. 4 : buffer[messageStart + j - 1] = ProtocolIdentity[j]
    BY DEF FoundOne, ScanInv, TypeOK, ProtocolIdentityLength
  <1>2. readBytes \in Nat /\ consumed \in Nat /\ readBytes <= consumed
    BY StreamType, MessagesSent, ParserAssumption DEF TypeOK, BufferInv
  <1>. DEFINE p == consumed - readBytes + messageStart
  <1>3. p \in Nat /\ p + 4 <= Len(Stream)
    BY <1>1, <1>2, StreamType, MessagesSent DEF TypeOK
  <1>4. ASSUME NEW j \in 1 .. 4 PROVE Stream[p + j] = ProtocolIdentity[j]
    <2>1. messageStart + j - 1 \in 0 .. readBytes - 1
      BY <1>1, <1>2
    <2>2. consumed - readBytes + (messageStart + j - 1) + 1 = p + j
      BY <1>1, <1>2
    <2>. QED
      BY <1>1, <2>1, <2>2 DEF BufferInv
  <1>5. /\ Stream[p + 1] = 101 /\ Stream[p + 2] = 232 /\ Stream[p + 3] = 25
        /\ Stream[p + 4] = 164
    BY <1>4 DEF ProtocolIdentity
  <1>6. Boundary(p)
    <2>. HIDE DEF p
    <2>. QED
      BY <1>3, <1>5, NoFalseStart
  <1>. QED
    BY <1>1, <1>6

\* Whatever lies behind the buffer, memory holds bytes.
LEMMA MemoryType ==
  ASSUME TypeOK, NEW stray \in Stray
  PROVE  /\ \A i \in 0 .. BufferSize + 12 : Memory(stray)[i] \in Byte
         /\ \A i \in 0 .. BufferSize - 1 : Memory(stray)[i] = buffer[i]
  <1>1. BufferSize \in Nat /\ stray \in Byte
    BY ParserAssumption
  <1>. QED
    BY <1>1 DEF Memory, MsgLen, TypeOK

\* What the server logs, it logs in its form.
LEMMA PrintedType ==
  ASSUME Inv, FoundOne, NEW stray \in Stray
  PROVE  /\ Printed(Memory(stray)) \in Seq(Log)
         /\ NextMessage(Memory(stray)) \in 0 .. BufferSize + 255
  <1>. DEFINE memory == Memory(stray)
  <1>1. /\ messageStart \in Nat /\ messageStart + 5 <= BufferSize /\ BufferSize \in Nat
    BY FoundPlace, ParserAssumption DEF Inv, TypeOK
  <1>2. /\ memory[messageStart + 4] \in Byte
        /\ memory[messageStart + 8] \in Byte /\ memory[messageStart + 8 + 1] \in Byte
    BY <1>1, MemoryType DEF Inv
  <1>. HIDE DEF memory
  <1>3. uint8ArrayToUint16(memory, messageStart + 8) \in Uint16
    <2>1. \A a, b \in Byte : a + 256 * b \in Uint16
      BY DEF Byte, Uint16
    <2>. QED
      BY <1>2, <2>1 DEF uint8ArrayToUint16
  <1>4. /\ readMessageAcknowledge(memory, messageStart).responseTo \in Uint16
        /\ readMessageConnected(memory, messageStart).deviceName \in Uint16
    BY <1>3 DEF readMessageAcknowledge, readMessageConnected, MsgPos
  <1>5. Printed(memory) \in Seq(Log)
    <2>1. <<>> \in Seq(Log)
      BY EmptySeq
    <2>2. ASSUME NEW t \in {MsgType.Connected, MsgType.Acknowledge}, NEW v \in Uint16
          PROVE  <<[type |-> t, value |-> v]>> \in Seq(Log)
      BY DEF Log
    <2>. QED
      BY <1>4, <2>1, <2>2 DEF Printed
  <1>6. NextMessage(memory) \in 0 .. BufferSize + 255
    BY <1>1, <1>2 DEF NextMessage, getMessageLength, MsgPos, Byte
  <1>. QED
    BY <1>5, <1>6 DEF memory

\* The log grows by one message at a time.
LEMMA SentGrows ==
  ASSUME NEW k \in 0 .. Len(Messages) - 1
  PROVE  /\ SentBefore(10 * k) \in Seq(Log) /\ Len(SentBefore(10 * k)) = k
         /\ SentBefore(10 * k)
              \o <<[type |-> Messages[k + 1].type, value |-> Messages[k + 1].value]>>
              = SentBefore(10 * (k + 1))
  <1>. DEFINE e(i) == [type |-> Messages[i].type, value |-> Messages[i].value]
  <1>1. k \in Nat /\ k + 1 <= Len(Messages) /\ Len(Messages) \in Nat
    BY MessagesSent
  <1>2. (10 * k) \div 10 = k /\ (10 * (k + 1)) \div 10 = k + 1
    BY <1>1
  <1>3. ASSUME NEW i \in 1 .. k + 1 PROVE e(i) \in Log
    <2>1. i - 1 \in 0 .. Len(Messages) - 1 /\ (i - 1) + 1 = i
      BY <1>1
    <2>2. Messages[i] \in SentMessage
      BY <2>1, MessagesSent
    <2>. QED
      BY <2>2 DEF SentMessage, Log
  <1>4. /\ SentBefore(10 * k) = [i \in 1 .. k |-> e(i)]
        /\ SentBefore(10 * (k + 1)) = [i \in 1 .. k + 1 |-> e(i)]
    BY <1>2 DEF SentBefore, MsgLen
  <1>. HIDE DEF e
  <1>5. /\ [i \in 1 .. k |-> e(i)] \in [1 .. k -> Log]
        /\ k \in Nat /\ k + 1 \in Nat
    BY <1>1, <1>3
  <1>6. SentBefore(10 * k) \in Seq(Log) /\ Len(SentBefore(10 * k)) = k
    BY <1>4, <1>5, SeqDef, LenProperties
  <1>7. SentBefore(10 * k) \o <<e(k + 1)>> = SentBefore(10 * (k + 1))
    <2>1. e(k + 1) \in Log
      BY <1>1, <1>3
    <2>2. SentBefore(10 * k) \o <<e(k + 1)>> = Append(SentBefore(10 * k), e(k + 1))
      BY <1>6, <2>1, AppendIsConcat
    <2>3. /\ Append(SentBefore(10 * k), e(k + 1)) \in Seq(Log)
          /\ Len(Append(SentBefore(10 * k), e(k + 1))) = k + 1
          /\ \A i \in 1 .. k : Append(SentBefore(10 * k), e(k + 1))[i] = SentBefore(10 * k)[i]
          /\ Append(SentBefore(10 * k), e(k + 1))[k + 1] = e(k + 1)
      BY <1>6, <2>1, AppendProperties
    <2>4. Append(SentBefore(10 * k), e(k + 1)) \in [1 .. k + 1 -> Log]
      BY <2>3, LenProperties
    <2>5. \A i \in 1 .. k + 1 : Append(SentBefore(10 * k), e(k + 1))[i] = e(i)
      BY <1>1, <1>4, <2>3
    <2>. QED
      BY <1>4, <2>2, <2>4, <2>5
  <1>. QED
    BY <1>6, <1>7 DEF e

\* With reads of whole messages, what is found and printed is the next message,
\* and the search goes on right behind it.
LEMMA NextOne ==
  ASSUME Inv, whole, FoundOne, NEW stray \in Stray
  PROVE  /\ bufferItr + 10 <= readBytes /\ NextMessage(Memory(stray)) = bufferItr + 10
         /\ logged \o Printed(Memory(stray))
              = SentBefore(consumed - readBytes + bufferItr + 10)
         /\ Len(logged) < MaxLogged
  <1>. DEFINE memory == Memory(stray)
              p == consumed - readBytes + bufferItr
  <1>1. /\ ppc = "scan" /\ messageStart = bufferItr /\ bufferItr < readBytes
        /\ consumed % 10 = 0 /\ readBytes % 10 = 0 /\ bufferItr % 10 = 0
        /\ logged = SentBefore(p)
    BY DEF FoundOne, Inv, SearchInv, WholeInv, Boundary, MsgLen
  <1>2. /\ consumed \in Nat /\ readBytes \in Nat /\ bufferItr \in Nat
        /\ readBytes <= consumed /\ consumed <= 10 * Len(Messages)
        /\ Len(Messages) \in Nat /\ readBytes <= BufferSize - 1 /\ BufferSize \in Nat
    BY StreamType, MessagesSent, ParserAssumption DEF Inv, TypeOK, SearchInv, BufferInv
  <1>3. bufferItr + 10 <= readBytes
    BY <1>1, <1>2
  <1>4. PICK k \in 0 .. Len(Messages) - 1 : p = 10 * k
    <2>1. p \in Nat /\ p % 10 = 0 /\ p + 10 <= 10 * Len(Messages)
      BY <1>1, <1>2, <1>3
    <2>2. p \div 10 \in 0 .. Len(Messages) - 1 /\ p = 10 * (p \div 10)
      BY <1>2, <2>1
    <2>. QED
      BY <2>2
  <1>5. ASSUME NEW j \in 1 .. 10 PROVE memory[bufferItr + j - 1] = Stream[10 * k + j]
    <2>1. bufferItr + j - 1 \in 0 .. readBytes - 1 /\ bufferItr + j - 1 \in 0 .. BufferSize - 1
      BY <1>2, <1>3
    <2>2. memory[bufferItr + j - 1] = buffer[bufferItr + j - 1]
      BY <2>1, MemoryType DEF Inv
    <2>3. buffer[bufferItr + j - 1] = Stream[consumed - readBytes + (bufferItr + j - 1) + 1]
      BY <2>1 DEF Inv, SearchInv, BufferInv
    <2>4. consumed - readBytes + (bufferItr + j - 1) + 1 = 10 * k + j
      BY <1>2, <1>4
    <2>. QED
      BY <2>2, <2>3, <2>4
  <1>. HIDE DEF memory
  <1>. DEFINE m == Messages[k + 1]
  <1>6. m \in SentMessage /\ m.value \in Uint16 /\ m.type \in {1, 2}
    BY MessagesSent DEF SentMessage, MsgType
  <1>7. /\ memory[bufferItr + 4] = Stream[10 * k + 5]
        /\ memory[bufferItr + 7] = Stream[10 * k + 8]
        /\ memory[bufferItr + 8] = Stream[10 * k + 9]
        /\ memory[bufferItr + 8 + 1] = Stream[10 * k + 10]
    <2>1. /\ bufferItr + 5 - 1 = bufferItr + 4 /\ bufferItr + 8 - 1 = bufferItr + 7
          /\ bufferItr + 9 - 1 = bufferItr + 8 /\ bufferItr + 10 - 1 = bufferItr + 8 + 1
      BY <1>2
    <2>. QED
      BY <1>5, <2>1
  <1>8. /\ memory[bufferItr + 4] = 10 /\ memory[bufferItr + 7] = m.type
        /\ memory[bufferItr + 8] = m.value % 256
        /\ memory[bufferItr + 8 + 1] = (m.value \div 256) % 256
    BY <1>7, MessageBytes
  <1>. HIDE DEF m
  <1>9. uint8ArrayToUint16(memory, bufferItr + 8) = m.value
    BY <1>6, <1>8, BytesOfUint16 DEF uint8ArrayToUint16
  <1>10. Printed(memory) = <<[type |-> m.type, value |-> m.value]>>
    <2>1. /\ getMessageType(memory, messageStart) = m.type
          /\ readMessageAcknowledge(memory, messageStart).responseTo = m.value
          /\ readMessageConnected(memory, messageStart).deviceName = m.value
      BY <1>1, <1>8, <1>9 DEF getMessageType, readMessageAcknowledge,
           readMessageConnected, MsgPos
    <2>. QED
      BY <1>6, <2>1 DEF Printed, MsgType
  <1>11. NextMessage(memory) = bufferItr + 10
    BY <1>1, <1>8 DEF NextMessage, getMessageLength, MsgPos
  <1>12. /\ logged \o Printed(memory) = SentBefore(10 * (k + 1))
         /\ Len(logged) < MaxLogged
    <2>1. logged = SentBefore(10 * k) /\ k < Len(Messages)
      BY <1>1, <1>2, <1>4
    <2>. QED
      BY <1>2, <1>10, <2>1, SentGrows, ParserAssumption DEF m
  <1>13. 10 * (k + 1) = consumed - readBytes + bufferItr + 10
    BY <1>2, <1>4
  <1>. QED
    BY <1>3, <1>11, <1>12, <1>13 DEF memory

\* With reads of whole messages no byte breaks the match.
LEMMA WholeMatches ==
  ASSUME Inv, whole, ppc = "scan", identityBytesFound \in 0 .. 3
  PROVE  Matches
  <1>1. /\ messageStart = bufferItr /\ bufferItr < readBytes
        /\ consumed % 10 = 0 /\ readBytes % 10 = 0 /\ bufferItr % 10 = 0
        /\ scanItr = bufferItr + identityBytesFound
    BY DEF Inv, SearchInv, WholeInv, ScanInv, Boundary, MsgLen
  <1>2. /\ consumed \in Nat /\ readBytes \in Nat /\ bufferItr \in Nat
        /\ readBytes <= consumed /\ consumed <= 10 * Len(Messages)
        /\ Len(Messages) \in Nat
    BY StreamType, MessagesSent, ParserAssumption DEF Inv, TypeOK, SearchInv, BufferInv
  <1>. DEFINE p == consumed - readBytes + bufferItr  k == p \div 10
  <1>3. k \in 0 .. Len(Messages) - 1 /\ p = 10 * k
    <2>1. bufferItr + 10 <= readBytes
      BY <1>1, <1>2
    <2>2. p \in Nat /\ p % 10 = 0 /\ p + 10 <= 10 * Len(Messages)
      BY <1>1, <1>2, <2>1
    <2>. QED
      BY <1>2, <2>2
  <1>4. buffer[scanItr] = Stream[10 * k + (identityBytesFound + 1)]
    <2>1. scanItr \in 0 .. readBytes - 1
      BY <1>1, <1>2
    <2>2. buffer[scanItr] = Stream[consumed - readBytes + scanItr + 1]
      BY <2>1 DEF Inv, SearchInv, BufferInv
    <2>3. consumed - readBytes + scanItr + 1 = p + (identityBytesFound + 1)
      BY <1>1, <1>2
    <2>. QED
      BY <1>3, <2>2, <2>3
  <1>. HIDE DEF k, p
  <1>5. \A j \in 1 .. 4 : Stream[10 * k + j] = ProtocolIdentity[j]
    <2>1. /\ Stream[10 * k + 1] = 101 /\ Stream[10 * k + 2] = 232
          /\ Stream[10 * k + 3] = 25 /\ Stream[10 * k + 4] = 164
      BY <1>3, MessageBytes
    <2>. QED
      BY <2>1 DEF ProtocolIdentity
  <1>6. identityBytesFound + 1 \in 1 .. 4
    OBVIOUS
  <1>. QED
    BY <1>4, <1>5, <1>6 DEF Matches

-----------------------------------------------------------------------------
(* The inductive invariant.                                                *)

\* The server starts with nothing read.
LEMMA InvInit == Init => Inv
  <1>. SUFFICES ASSUME Init PROVE Inv
    OBVIOUS
  <1>1. BufferSize \in Nat \ {0} /\ Len(Stream) \in Nat
    BY ParserAssumption, StreamType, MessagesSent
  <1>2. TypeOK
    BY <1>1, EmptySeq DEF Init, TypeOK, ProtocolIdentityLength, Byte
  <1>3. SentBefore(0) = <<>>
    BY DEF SentBefore, MsgLen
  <1>. QED
    BY <1>2, <1>3 DEF Init, Inv, SearchInv, BufferInv, ScanInv, WholeInv, Boundary, MsgLen

\* A read fills the buffer with what comes next in the stream.
LEMMA ReadKeepsInv ==
  ASSUME Inv, NEW n \in 1 .. BufferSize, Read(n)
  PROVE  Inv'
  <1>. USE DEF Inv, SearchInv
  <1>1. /\ BufferSize \in Nat \ {0} /\ Len(Stream) \in Nat /\ Stream \in Seq(Byte)
        /\ n \in Nat /\ n <= BufferSize - 1 /\ consumed \in Nat
        /\ consumed + n <= Len(Stream)
    BY ParserAssumption, StreamType, MessagesSent DEF Read, ReadSize, TypeOK
  <1>2. /\ ppc = "read" /\ ppc' = "parse" /\ readBytes' = n /\ bufferItr' = 0
        /\ consumed' = consumed + n /\ whole' = (whole /\ Boundary(consumed + n))
        /\ UNCHANGED <<identityBytesFound, messageStart, scanItr, logged>>
    BY DEF Read, PGoto, scanVars
  <1>3. /\ buffer' \in [0 .. BufferSize - 1 -> Byte]
        /\ \A i \in 0 .. n - 1 : buffer'[i] = Stream[consumed + i + 1]
    <2>1. buffer' = [i \in 0 .. BufferSize - 1 |->
                       IF i < n THEN Stream[consumed + i + 1] ELSE 0]
      BY DEF Read
    <2>2. ASSUME NEW i \in 0 .. BufferSize - 1, i < n
          PROVE  Stream[consumed + i + 1] \in Byte
      <3>1. consumed + i + 1 \in 1 .. Len(Stream)
        BY <1>1, <2>2
      <3>. QED
        BY <1>1, <3>1, ElementOfSeq
    <2>3. \A i \in 0 .. n - 1 : i \in 0 .. BufferSize - 1 /\ i < n
      BY <1>1
    <2>4. 0 \in Byte
      BY DEF Byte
    <2>. QED
      BY <2>1, <2>2, <2>3, <2>4
  <1>4. TypeOK'
    BY <1>1, <1>2, <1>3 DEF TypeOK
  <1>5. BufferInv'
    <2>1. ASSUME NEW i \in 0 .. n - 1
          PROVE  buffer'[i] = Stream[(consumed + n) - n + i + 1]
      <3>1. (consumed + n) - n + i + 1 = consumed + i + 1
        BY <1>1
      <3>. QED
        BY <1>3, <3>1
    <2>. QED
      BY <1>1, <1>2, <2>1 DEF BufferInv
  <1>6. WholeInv'
    <2>1. whole' => /\ (consumed + n) % 10 = 0 /\ consumed % 10 = 0
                    /\ logged = SentBefore(consumed)
      BY <1>2 DEF WholeInv, Boundary, MsgLen
    <2>2. (consumed + n) % 10 = 0 /\ consumed % 10 = 0 => n % 10 = 0
      BY <1>1
    <2>3. (consumed + n) - n + 0 = consumed
      BY <1>1
    <2>. QED
      BY <1>1, <1>2, <2>1, <2>2, <2>3 DEF WholeInv, Boundary, MsgLen
  <1>. QED
    BY <1>2, <1>4, <1>5, <1>6 DEF ScanInv

\* The search goes through what was read.
LEMMA ParseKeepsInv ==
  ASSUME Inv, Parse
  PROVE  Inv'
  <1>. USE DEF PGoto, scanVars
  <1>0. /\ BufferSize \in Nat \ {0} /\ readBytes \in Nat /\ bufferItr \in Nat
        /\ readBytes <= BufferSize - 1 /\ consumed \in Nat
        /\ TypeOK /\ BufferInv /\ ScanInv /\ WholeInv
    BY ParserAssumption, StreamType, MessagesSent DEF Inv, SearchInv, TypeOK
  <1>1. CASE ScanBegin
    <2>1. TypeOK'
      BY <1>0, <1>1 DEF ScanBegin, TypeOK, ProtocolIdentityLength
    <2>2. BufferInv'
      BY <1>0, <1>1 DEF ScanBegin, BufferInv
    <2>3. ScanInv'
      BY <1>0, <1>1 DEF ScanBegin, ScanInv
    <2>4. WholeInv'
      BY <1>0, <1>1 DEF ScanBegin, WholeInv
    <2>. QED
      BY <2>1, <2>2, <2>3, <2>4 DEF Inv, SearchInv
  <1>2. CASE ScanByte
    <2>1. /\ ppc = "scan" /\ ppc' = "scan" /\ scanItr' = scanItr + 1
          /\ identityBytesFound \in 0 .. 3
          /\ messageStart \in Nat /\ scanItr \in Nat
          /\ scanItr = messageStart + identityBytesFound /\ scanItr < readBytes
          /\ UNCHANGED <<consumed, buffer, readBytes, bufferItr, logged, whole>>
      BY <1>0, <1>2 DEF ScanByte, TypeOK, ScanInv, ProtocolIdentityLength
    <2>2. CASE Matches
      <3>1. identityBytesFound' = identityBytesFound + 1 /\ messageStart' = messageStart
        BY <1>2, <2>2 DEF ScanByte
      <3>2. TypeOK'
        BY <1>0, <2>1, <3>1 DEF TypeOK, ProtocolIdentityLength
      <3>3. ScanInv'
        <4>1. ASSUME NEW j \in 1 .. identityBytesFound + 1
              PROVE  buffer[messageStart + j - 1] = ProtocolIdentity[j]
          <5>1. CASE j = identityBytesFound + 1
            <6>1. messageStart + j - 1 = scanItr
              BY <2>1, <5>1
            <6>. QED
              BY <2>2, <5>1, <6>1 DEF Matches
          <5>2. CASE j # identityBytesFound + 1
            <6>1. j \in 1 .. identityBytesFound
              BY <2>1, <5>2
            <6>. QED
              BY <1>0, <2>1, <6>1 DEF ScanInv
          <5>. QED
            BY <5>1, <5>2
        <4>. QED
          BY <2>1, <3>1, <4>1 DEF ScanInv
      <3>4. BufferInv' /\ WholeInv'
        BY <1>0, <2>1, <3>1 DEF BufferInv, WholeInv
      <3>. QED
        BY <3>2, <3>3, <3>4 DEF Inv, SearchInv
    <2>3. CASE ~Matches
      <3>1. identityBytesFound' = 0 /\ messageStart' = scanItr + 1
        BY <1>2, <2>3 DEF ScanByte, StartBehind
      <3>2. TypeOK'
        BY <1>0, <2>1, <3>1 DEF TypeOK, ProtocolIdentityLength
      <3>3. ScanInv'
        BY <2>1, <3>1 DEF ScanInv
      <3>4. BufferInv'
        BY <1>0, <2>1 DEF BufferInv
      <3>5. ~whole
        BY <1>0, <2>1, <2>3, WholeMatches DEF Inv, SearchInv
      <3>. QED
        BY <2>1, <3>2, <3>3, <3>4, <3>5 DEF Inv, SearchInv, WholeInv
    <2>. QED
      BY <2>2, <2>3
  <1>3. CASE ParseMessage
    <2>1. PICK stray \in Stray :
            /\ logged' = IF Len(logged) = MaxLogged THEN logged
                         ELSE logged \o Printed(Memory(stray))
            /\ bufferItr' = NextMessage(Memory(stray))
      BY <1>3 DEF ParseMessage
    <2>2. /\ FoundOne /\ ppc = "scan" /\ ppc' = "parse"
          /\ UNCHANGED <<consumed, buffer, readBytes, identityBytesFound,
                         messageStart, scanItr, whole>>
      BY <1>3 DEF ParseMessage, FoundOne
    <2>3. /\ Printed(Memory(stray)) \in Seq(Log)
          /\ NextMessage(Memory(stray)) \in 0 .. BufferSize + 255
      BY <2>2, PrintedType
    <2>4. logged' \in Seq(Log)
      BY <1>0, <2>1, <2>3, ConcatProperties DEF TypeOK
    <2>5. TypeOK'
      BY <1>0, <2>1, <2>2, <2>3, <2>4 DEF TypeOK
    <2>6. BufferInv' /\ ScanInv'
      BY <1>0, <2>2 DEF BufferInv, ScanInv
    <2>7. ASSUME whole
          PROVE  /\ bufferItr' = bufferItr + 10 /\ bufferItr + 10 <= readBytes
                 /\ logged' = SentBefore(consumed - readBytes + bufferItr + 10)
      <3>1. Len(logged) # MaxLogged
        BY <2>2, <2>7, NextOne, ParserAssumption, LenProperties, <1>0 DEF TypeOK
      <3>. QED
        BY <2>1, <2>2, <2>7, <3>1, NextOne
    <2>8. WholeInv'
      <3>1. bufferItr % 10 = 0 => (bufferItr + 10) % 10 = 0
        BY <1>0
      <3>2. consumed - readBytes + bufferItr + 10 = consumed - readBytes + (bufferItr + 10)
        BY <1>0
      <3>. QED
        BY <1>0, <2>2, <2>7, <3>1, <3>2 DEF WholeInv, Boundary, MsgLen
    <2>. QED
      BY <2>5, <2>6, <2>8 DEF Inv, SearchInv
  <1>4. CASE ParseNone
    <2>1. /\ FoundNone /\ ppc = "scan" /\ ppc' = "parse" /\ bufferItr' = readBytes
          /\ UNCHANGED <<consumed, buffer, readBytes, identityBytesFound,
                         messageStart, scanItr, logged, whole>>
      BY <1>4 DEF ParseNone, FoundNone
    <2>2. TypeOK'
      BY <1>0, <2>1 DEF TypeOK
    <2>3. BufferInv' /\ ScanInv'
      BY <1>0, <2>1 DEF BufferInv, ScanInv
    <2>4. ~whole
      <3>1. whole => /\ scanItr = bufferItr + identityBytesFound
                     /\ bufferItr < readBytes /\ bufferItr % 10 = 0 /\ readBytes % 10 = 0
        BY <1>0, <2>1 DEF ScanInv, WholeInv, Boundary, MsgLen
      <3>2. scanItr = readBytes /\ identityBytesFound \in 0 .. 3
        BY <1>0, <2>1 DEF FoundNone, TypeOK, ProtocolIdentityLength
      <3>. QED
        BY <1>0, <3>1, <3>2
    <2>. QED
      BY <2>1, <2>2, <2>3, <2>4 DEF Inv, SearchInv, WholeInv
  <1>5. CASE ParseDone
    <2>1. /\ ppc = "parse" /\ ppc' = "read" /\ bufferItr >= readBytes
          /\ UNCHANGED <<consumed, buffer, readBytes, bufferItr, identityBytesFound,
                         messageStart, scanItr, logged, whole>>
      BY <1>5 DEF ParseDone
    <2>2. TypeOK' /\ BufferInv' /\ ScanInv'
      BY <1>0, <2>1 DEF TypeOK, BufferInv, ScanInv
    <2>3. whole => consumed - readBytes + bufferItr = consumed
      BY <1>0, <2>1 DEF WholeInv
    <2>. QED
      BY <1>0, <2>1, <2>2, <2>3 DEF Inv, SearchInv, WholeInv
  <1>. QED
    BY <1>1, <1>2, <1>3, <1>4, <1>5 DEF Parse

\* Every step keeps it.
LEMMA StepKeepsInv == Inv /\ [Next]_vars => Inv'
  <1>. SUFFICES ASSUME Inv, [Next]_vars PROVE Inv'
    OBVIOUS
  <1>1. CASE UNCHANGED vars
    BY <1>1 DEF vars, scanVars, Inv, TypeOK, SearchInv, BufferInv, ScanInv, WholeInv
  <1>2. CASE ReadNothing
    BY <1>1, <1>2 DEF ReadNothing
  <1>. QED
    BY <1>1, <1>2, ReadKeepsInv, ParseKeepsInv DEF Next

\* It holds in every reachable state.
LEMMA InvAlways == Spec => []Inv
  BY InvInit, StepKeepsInv, PTL DEF Spec

\* However TCP cuts the stream, the search stays inside the bytes read and what
\* it reads and logs are bytes and messages.
THEOREM TypeCorrect == Spec => []TypeOK
  <1>1. Inv => TypeOK
    BY DEF Inv
  <1>. QED
    BY <1>1, InvAlways, PTL

\* The bytes searched are those of the stream, the scan keeps what it has
\* matched, and reads of whole messages leave no search in the middle of one.
THEOREM SearchCorrect == Spec => []SearchInv
  <1>1. Inv => SearchInv
    BY DEF Inv
  <1>. QED
    BY <1>1, InvAlways, PTL

\* However TCP cuts the stream and whatever values the messages carry, what
\* findMessageStart returns is the first byte of a message the device sent.
THEOREM FoundIsSent == Spec => []SoundStart
  <1>1. Inv => SoundStart
    BY FoundPlace DEF SoundStart
  <1>. QED
    BY <1>1, InvAlways, PTL

\* Cut only between messages, the stream is logged whole and in order, however
\* many messages a read returns.
THEOREM AllLogged == Spec => []WholeReadsLogAll
  <1>1. Inv => WholeReadsLogAll
    BY DEF Inv, SearchInv, WholeInv, WholeReadsLogAll
  <1>. QED
    BY <1>1, InvAlways, PTL
==============================================================================
