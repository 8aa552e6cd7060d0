-------------------------- MODULE DeviceParserProofs --------------------------
(***************************************************************************)
(* Theorems about DeviceParser, for every sequence of lighting commands    *)
(* with any values, every size of the buffer and all sizes of the reads.   *)
(***************************************************************************)
EXTENDS DeviceParser, SequenceTheorems, TLAPS

(* The stream.                                                             *)

\* The two bytes of a 16-bit value are bytes, and make up the value again.
LEMMA BytesOfUint16 ==
  ASSUME NEW v \in Uint16
  PROVE  /\ v % 256 \in Byte /\ (v \div 256) % 256 \in Byte
         /\ (v % 256) + 256 * ((v \div 256) % 256) = v
  <1>1. v \in 0 .. 65535
    BY DEF Uint16
  <1>2. v = 256 * (v \div 256) + (v % 256) /\ v % 256 \in 0 .. 255 /\ v \div 256 \in Int
    BY <1>1
  <1>3. v \div 256 \in 0 .. 255
    BY <1>1, <1>2
  <1>4. (v \div 256) % 256 = v \div 256
    BY <1>3
  <1>. QED
    BY <1>2, <1>3, <1>4 DEF Byte

Lighting == [number : Uint16, animationType : Byte, animationSpeed : Byte,
             hue : Byte, brightness : Byte]

\* They are the messages of DeviceProtocol.
LEMMA LightingMessages == Lighting = Server!MessageSetLighting
  <1>1. Server!Byte = Byte /\ Server!Uint16 = Uint16
    BY DEF Server!Uint16, Server!Byte, Uint16, Byte
  <1>. QED
    BY <1>1 DEF Lighting, Server!MessageSetLighting

\* The commands are commands.
LEMMA CommandsSent ==
  /\ Len(Commands) \in Nat
  /\ \A k \in 1 .. Len(Commands) : Commands[k] \in Lighting
  <1>1. Commands \in Seq(Lighting)
    BY ParserAssumption, LightingMessages
  <1>2. Len(Commands) \in Nat
    BY <1>1, LenProperties
  <1>. QED
    BY <1>1, <1>2, ElementOfSeq

\* The header as the server writes it.
LEMMA HeaderBytes ==
  ASSUME NEW number
  PROVE  LET b == Server!writeHeader(Blank, 12, number, 4)
         IN  /\ DOMAIN b = 0 .. 11
             /\ b[0] = 101 /\ b[1] = 232 /\ b[2] = 25 /\ b[3] = 164 /\ b[4] = 12
             /\ b[5] = number % 256 /\ b[6] = (number \div 256) % 256 /\ b[7] = 4
  <1>. DEFINE framed == [Server!writeIdentity(Blank) EXCEPT ![4] = 12]
              numbered == Server!uint16ToUint8Array(number, framed, 5)
              typed == [numbered EXCEPT ![7] = 4]
  <1>1. Server!writeHeader(Blank, 12, number, 4) = typed
    BY DEF Server!writeHeader, Server!MsgPos
  <1>2. /\ DOMAIN framed = 0 .. 11
        /\ framed[0] = 101 /\ framed[1] = 232 /\ framed[2] = 25 /\ framed[3] = 164
        /\ framed[4] = 12
    BY DEF Server!writeIdentity, Blank
  <1>3. /\ DOMAIN numbered = 0 .. 11 /\ \A i \in 0 .. 4 : numbered[i] = framed[i]
        /\ numbered[5] = number % 256 /\ numbered[6] = (number \div 256) % 256
    <2>. HIDE DEF framed
    <2>. QED
      BY <1>2 DEF Server!uint16ToUint8Array
  <1>4. /\ DOMAIN typed = 0 .. 11 /\ \A i \in 0 .. 6 : typed[i] = numbered[i]
        /\ typed[7] = 4
    <2>. HIDE DEF numbered
    <2>. QED
      BY <1>3
  <1>. HIDE DEF typed, numbered, framed
  <1>5. \A i \in 0 .. 4 : typed[i] = framed[i]
    BY <1>3, <1>4
  <1>. QED
    BY <1>1, <1>2, <1>3, <1>4, <1>5

\* Byte by byte, what the server sends for a command.
LEMMA EncodedBytes ==
  ASSUME NEW m \in Lighting
  PROVE  /\ Encode(m)[1] = 101 /\ Encode(m)[2] = 232 /\ Encode(m)[3] = 25
         /\ Encode(m)[4] = 164 /\ Encode(m)[5] = 12
         /\ Encode(m)[6] = m.number % 256 /\ Encode(m)[7] = (m.number \div 256) % 256
         /\ Encode(m)[8] = 4
         /\ Encode(m)[9] = m.animationType /\ Encode(m)[10] = m.animationSpeed
         /\ Encode(m)[11] = m.hue /\ Encode(m)[12] = m.brightness
         /\ \A j \in 1 .. 12 : Encode(m)[j] \in Byte
  <1>. DEFINE h == Server!writeHeader(Blank, 12, m.number, 4)
              b == [h EXCEPT ![8] = m.animationType, ![9] = m.animationSpeed,
                             ![10] = m.hue, ![11] = m.brightness]
  <1>1. Encode(m) = [i \in 1 .. 12 |-> b[i - 1]]
    BY DEF Encode, Server!writeMessageSetLighting, Server!MsgLen, Server!MsgPos,
           Server!MsgType
  <1>2. /\ DOMAIN h = 0 .. 11
        /\ h[0] = 101 /\ h[1] = 232 /\ h[2] = 25 /\ h[3] = 164 /\ h[4] = 12
        /\ h[5] = m.number % 256 /\ h[6] = (m.number \div 256) % 256 /\ h[7] = 4
    BY HeaderBytes
  <1>. HIDE DEF h
  <1>3. /\ \A i \in 0 .. 7 : b[i] = h[i]
        /\ b[8] = m.animationType /\ b[9] = m.animationSpeed
        /\ b[10] = m.hue /\ b[11] = m.brightness
    BY <1>2
  <1>. HIDE DEF b
  <1>4. /\ Encode(m)[1] = 101 /\ Encode(m)[2] = 232 /\ Encode(m)[3] = 25
        /\ Encode(m)[4] = 164 /\ Encode(m)[5] = 12
        /\ Encode(m)[6] = m.number % 256 /\ Encode(m)[7] = (m.number \div 256) % 256
        /\ Encode(m)[8] = 4
        /\ Encode(m)[9] = m.animationType /\ Encode(m)[10] = m.animationSpeed
        /\ Encode(m)[11] = m.hue /\ Encode(m)[12] = m.brightness
    BY <1>1, <1>2, <1>3
  <1>5. /\ m.number % 256 \in Byte /\ (m.number \div 256) % 256 \in Byte
        /\ m.animationType \in Byte /\ m.animationSpeed \in Byte
        /\ m.hue \in Byte /\ m.brightness \in Byte
    BY BytesOfUint16 DEF Lighting
  <1>6. ASSUME NEW j \in 1 .. 12 PROVE Encode(m)[j] \in Byte
    <2>1. \/ j = 1 \/ j = 2 \/ j = 3 \/ j = 4 \/ j = 5 \/ j = 6
          \/ j = 7 \/ j = 8 \/ j = 9 \/ j = 10 \/ j = 11 \/ j = 12
      OBVIOUS
    <2>. QED
      BY <1>4, <1>5, <2>1 DEF Byte
  <1>. QED
    BY <1>4, <1>6

\* The j-th byte of the message behind the first k.
LEMMA StreamByte ==
  ASSUME NEW k \in 0 .. Len(Commands) - 1, NEW j \in 1 .. 12
  PROVE  /\ 12 * k + j \in 1 .. 12 * Len(Commands)
         /\ Stream[12 * k + j] = Encode(Commands[k + 1])[j]
  <1>. DEFINE i == 12 * k + j
  <1>1. Len(Commands) \in Nat /\ k \in Nat /\ k + 1 <= Len(Commands)
    BY CommandsSent
  <1>2. i \in 1 .. 12 * Len(Commands)
    BY <1>1
  <1>3. (i - 1) \div 12 = k /\ ((i - 1) % 12) + 1 = j
    BY <1>1
  <1>. HIDE DEF i
  <1>4. Stream[i] = Encode(Commands[((i - 1) \div 12) + 1])[((i - 1) % 12) + 1]
    BY <1>2 DEF Stream, MsgLen
  <1>. QED
    BY <1>2, <1>3, <1>4 DEF i

\* The stream is one of bytes.
LEMMA StreamType ==
  Stream \in Seq(Byte) /\ Len(Stream) = 12 * Len(Commands)
  <1>1. Len(Commands) \in Nat /\ 12 * Len(Commands) \in Nat
    BY CommandsSent
  <1>2. ASSUME NEW i \in 1 .. 12 * Len(Commands) PROVE Stream[i] \in Byte
    <2>1. PICK k \in 0 .. Len(Commands) - 1, j \in 1 .. 12 : i = 12 * k + j
      <3>1. /\ (i - 1) \div 12 \in 0 .. Len(Commands) - 1 /\ ((i - 1) % 12) + 1 \in 1 .. 12
            /\ i = 12 * ((i - 1) \div 12) + (((i - 1) % 12) + 1)
        BY <1>1
      <3>. QED
        BY <3>1
    <2>2. Commands[k + 1] \in Lighting
      BY <1>1, CommandsSent
    <2>3. Encode(Commands[k + 1])[j] \in Byte
      BY <2>2, EncodedBytes
    <2>. QED
      BY <2>1, <2>3, StreamByte
  <1>3. Stream \in [1 .. 12 * Len(Commands) -> Byte]
    BY <1>2 DEF Stream, MsgLen
  <1>. QED
    BY <1>1, <1>3, SeqDef, LenProperties

-----------------------------------------------------------------------------
(* What is found, and what is read of it.                                  *)

Inv == TypeOK /\ SearchInv

\* What the numbers of a search are.
LEMMA Numbers ==
  ASSUME TypeOK
  PROVE  /\ ReadBufferSize \in Nat /\ Len(Stream) \in Nat
         /\ consumed \in Nat /\ consumed <= Len(Stream)
         /\ readBytes \in Nat /\ readBytes <= ReadBufferSize
         /\ bufferByteIndex \in Nat /\ identityBytesFound \in 0 .. 4
         /\ messageStart \in Nat
  BY ParserAssumption, CommandsSent, StreamType DEF TypeOK, ProtocolIdentityLength

\* Whatever lies behind the buffer, memory holds bytes.
LEMMA MemoryType ==
  ASSUME TypeOK, NEW stray \in Stray
  PROVE  /\ \A i \in 0 .. ReadBufferSize + 12 : Memory(stray)[i] \in Byte
         /\ \A i \in 0 .. ReadBufferSize - 1 : Memory(stray)[i] = readBuffer[i]
  <1>1. ReadBufferSize \in Nat /\ stray \in Byte
    BY ParserAssumption
  <1>. QED
    BY <1>1 DEF Memory, MsgLen, TypeOK

\* What is read of a message found is a command, and the search goes on in reach.
LEMMA HandledType ==
  ASSUME TypeOK, FoundOne, NEW stray \in Stray
  PROVE  /\ readSetLighting(Memory(stray), messageStart) \in Lighting
         /\ NextSearch(Memory(stray)) \in 0 .. ReadBufferSize + 255
  <1>. DEFINE memory == Memory(stray)
  <1>1. /\ messageStart \in Nat /\ messageStart + 8 <= ReadBufferSize
        /\ ReadBufferSize \in Nat
    BY Numbers DEF FoundOne, HeaderMissing, MessageHeaderLength
  <1>2. ASSUME NEW j \in 0 .. 11 PROVE memory[messageStart + j] \in Byte
    BY <1>1, MemoryType
  <1>. HIDE DEF memory
  <1>3. /\ memory[messageStart + 4] \in Byte
        /\ memory[messageStart + 5] \in Byte /\ memory[messageStart + 5 + 1] \in Byte
        /\ memory[messageStart + 8] \in Byte /\ memory[messageStart + 9] \in Byte
        /\ memory[messageStart + 10] \in Byte /\ memory[messageStart + 11] \in Byte
    <2>1. messageStart + 5 + 1 = messageStart + 6
      BY <1>1
    <2>. QED
      BY <1>2, <2>1
  <1>4. uint8ArrayToUint16(memory, messageStart + 5) \in Uint16
    <2>1. \A a, b \in Byte : a + 256 * b \in Uint16
      BY DEF Byte, Uint16
    <2>. QED
      BY <1>3, <2>1 DEF uint8ArrayToUint16
  <1>5. readSetLighting(memory, messageStart) \in Lighting
    BY <1>3, <1>4 DEF readSetLighting, fieldsAt, MsgPos, Lighting
  <1>6. NextSearch(memory) \in 0 .. ReadBufferSize + 255
    BY <1>1, <1>3 DEF NextSearch, MsgPos, Byte
  <1>. QED
    BY <1>5, <1>6 DEF memory

\* With reads of whole messages, a message that begins in the read is one of the
\* stream's, lies in the read as a whole, and is the one that ends 12 bytes further.
LEMMA MessagePlace ==
  ASSUME Inv, whole, NEW d \in Nat, Boundary(d), d < readBytes
  PROVE  /\ d + 12 <= readBytes
         /\ \E k \in 0 .. Len(Commands) - 1 :
              /\ consumed - readBytes + d = 12 * k /\ EndingAt(d + 12) = Commands[k + 1]
              /\ 12 * (k + 1) <= consumed
  <1>1. /\ consumed % 12 = 0 /\ readBytes % 12 = 0 /\ d % 12 = 0
        /\ readBytes <= consumed
    BY DEF Inv, SearchInv, BufferInv, WholeInv, Boundary, MsgLen
  <1>2. /\ consumed \in Nat /\ readBytes \in Nat /\ consumed <= 12 * Len(Commands)
        /\ Len(Commands) \in Nat
    BY Numbers, StreamType, CommandsSent DEF Inv
  <1>3. d + 12 <= readBytes
    BY <1>1, <1>2
  <1>. DEFINE p == consumed - readBytes + d
              k == p \div 12
  <1>4. p \in Nat /\ p % 12 = 0 /\ p + 12 <= 12 * Len(Commands) /\ p + 12 <= consumed
    BY <1>1, <1>2, <1>3
  <1>5. consumed - readBytes + (d + 12) = p + 12
    BY <1>2
  <1>6. EndingAt(d + 12) = Commands[(p + 12) \div 12]
    BY <1>5 DEF EndingAt, MsgLen
  <1>. HIDE DEF p
  <1>7. /\ k \in 0 .. Len(Commands) - 1 /\ p = 12 * k /\ 12 * (k + 1) <= consumed
        /\ (p + 12) \div 12 = k + 1
    BY <1>2, <1>4
  <1>. HIDE DEF k
  <1>. QED
    BY <1>3, <1>6, <1>7 DEF p

\* A byte of the read's messages, by its place in its message.
LEMMA ReadByte ==
  ASSUME Inv, NEW k \in 0 .. Len(Commands) - 1, NEW d \in Nat, NEW j \in 1 .. 12,
         consumed - readBytes + d = 12 * k, d + 12 <= readBytes
  PROVE  readBuffer[d + j - 1] = Encode(Commands[k + 1])[j]
  <1>1. consumed \in Nat /\ readBytes \in Nat
    BY Numbers DEF Inv
  <1>2. d + j - 1 \in 0 .. readBytes - 1
    BY <1>1
  <1>3. readBuffer[d + j - 1] = Stream[consumed - readBytes + (d + j - 1) + 1]
    BY <1>2 DEF Inv, SearchInv, BufferInv
  <1>4. consumed - readBytes + (d + j - 1) + 1 = 12 * k + j
    BY <1>1, CommandsSent
  <1>. QED
    BY <1>3, <1>4, StreamByte

\* With reads of whole messages, what is handled is the message at messageStart,
\* and the search goes on behind it.
LEMMA WholeHandled ==
  ASSUME Inv, whole, ppc = "scan", FoundOne, NEW stray \in Stray
  PROVE  /\ Memory(stray)[messageStart + 7] = 4
         /\ readSetLighting(Memory(stray), messageStart) = EndingAt(messageStart + 12)
         /\ NextSearch(Memory(stray)) = messageStart + 12
         /\ messageStart + 12 <= readBytes /\ Boundary(messageStart + 12)
         /\ EndingAt(messageStart + 12) \in CommandsIn(0, consumed)
  <1>. DEFINE memory == Memory(stray)
              s == messageStart
  <1>1. s \in Nat /\ Boundary(s) /\ s < readBytes
    <2>1. /\ s \in 0 .. bufferByteIndex - identityBytesFound /\ Boundary(s)
          /\ bufferByteIndex - identityBytesFound \in 0 .. readBytes - 1
      BY DEF Inv, SearchInv, WholeInv
    <2>2. bufferByteIndex \in Nat /\ identityBytesFound \in Nat /\ readBytes \in Nat
      BY Numbers DEF Inv
    <2>. QED
      BY <2>1, <2>2
  <1>. HIDE DEF s
  <1>2. PICK k \in 0 .. Len(Commands) - 1 :
          /\ consumed - readBytes + s = 12 * k /\ EndingAt(s + 12) = Commands[k + 1]
          /\ 12 * (k + 1) <= consumed /\ s + 12 <= readBytes
    BY <1>1, MessagePlace
  <1>. DEFINE m == Commands[k + 1]
  <1>3. m \in Lighting /\ k + 1 \in 1 .. Len(Commands) /\ k \in Nat
    BY CommandsSent
  <1>4. ASSUME NEW j \in 1 .. 12 PROVE memory[s + j - 1] = Encode(m)[j]
    <2>1. /\ readBytes \in Nat /\ ReadBufferSize \in Nat /\ readBytes <= ReadBufferSize
      BY Numbers DEF Inv
    <2>2. s + j - 1 \in 0 .. ReadBufferSize - 1
      BY <1>1, <1>2, <2>1
    <2>3. readBuffer[s + j - 1] = Encode(m)[j]
      BY <1>1, <1>2, ReadByte
    <2>4. memory[s + j - 1] = readBuffer[s + j - 1]
      BY <2>2, MemoryType DEF Inv
    <2>. QED
      BY <2>3, <2>4
  <1>. HIDE DEF memory, m
  <1>5. /\ memory[s + 4] = 12 /\ memory[s + 5] = m.number % 256
        /\ memory[s + 5 + 1] = (m.number \div 256) % 256 /\ memory[s + 7] = 4
        /\ memory[s + 8] = m.animationType /\ memory[s + 9] = m.animationSpeed
        /\ memory[s + 10] = m.hue /\ memory[s + 11] = m.brightness
    <2>1. /\ memory[s + 5 - 1] = Encode(m)[5] /\ memory[s + 6 - 1] = Encode(m)[6]
          /\ memory[s + 7 - 1] = Encode(m)[7] /\ memory[s + 8 - 1] = Encode(m)[8]
          /\ memory[s + 9 - 1] = Encode(m)[9] /\ memory[s + 10 - 1] = Encode(m)[10]
          /\ memory[s + 11 - 1] = Encode(m)[11] /\ memory[s + 12 - 1] = Encode(m)[12]
      BY <1>4
    <2>2. /\ s + 5 - 1 = s + 4 /\ s + 6 - 1 = s + 5 /\ s + 7 - 1 = s + 5 + 1
          /\ s + 8 - 1 = s + 7 /\ s + 9 - 1 = s + 8 /\ s + 10 - 1 = s + 9
          /\ s + 11 - 1 = s + 10 /\ s + 12 - 1 = s + 11
      BY <1>1
    <2>. QED
      BY <1>3, <2>1, <2>2, EncodedBytes
  <1>6. uint8ArrayToUint16(memory, s + 5) = m.number
    BY <1>3, <1>5, BytesOfUint16 DEF uint8ArrayToUint16, Lighting
  <1>7. readSetLighting(memory, s) = m
    <2>1. readSetLighting(memory, s) =
            [number |-> m.number, animationType |-> m.animationType,
             animationSpeed |-> m.animationSpeed, hue |-> m.hue,
             brightness |-> m.brightness]
      BY <1>5, <1>6 DEF readSetLighting, fieldsAt, MsgPos
    <2>. QED
      BY <1>3, <2>1 DEF Lighting
  <1>8. NextSearch(memory) = s + 12
    BY <1>5 DEF NextSearch, MsgPos, s
  <1>9. m \in CommandsIn(0, consumed)
    <2>1. /\ 0 <= (k + 1 - 1) * 12 /\ (k + 1) * 12 <= consumed
      BY <1>2, <1>3
    <2>. QED
      BY <1>3, <2>1 DEF CommandsIn, MsgLen, m
  <1>10. Boundary(s + 12)
    BY <1>1 DEF Boundary, MsgLen
  <1>. QED
    BY <1>2, <1>5, <1>7, <1>8, <1>9, <1>10 DEF memory, m, s

\* With reads of whole messages no byte breaks the match.
LEMMA WholeMatches ==
  ASSUME Inv, whole, ppc = "scan", Scanning
  PROVE  Matches
  <1>. DEFINE d == bufferByteIndex - identityBytesFound
              j == identityBytesFound + 1
  <1>1. d \in 0 .. readBytes - 1 /\ Boundary(d)
    BY DEF Inv, SearchInv, WholeInv
  <1>2. /\ bufferByteIndex \in Nat /\ identityBytesFound \in 0 .. 3 /\ readBytes \in Nat
    BY Numbers DEF Inv, Scanning, ProtocolIdentityLength
  <1>3. d \in Nat /\ d < readBytes /\ j \in 1 .. 4 /\ j \in 1 .. 12
        /\ bufferByteIndex = d + j - 1
    BY <1>1, <1>2
  <1>. HIDE DEF d
  <1>4. PICK k \in 0 .. Len(Commands) - 1 :
          consumed - readBytes + d = 12 * k /\ d + 12 <= readBytes
    BY <1>1, <1>3, MessagePlace
  <1>5. readBuffer[d + j - 1] = Encode(Commands[k + 1])[j]
    BY <1>3, <1>4, ReadByte
  <1>6. Commands[k + 1] \in Lighting
    BY CommandsSent
  <1>7. Encode(Commands[k + 1])[j] = ProtocolIdentity[j]
    <2>1. \/ j = 1 \/ j = 2 \/ j = 3 \/ j = 4
      BY <1>3
    <2>2. /\ Encode(Commands[k + 1])[1] = 101 /\ Encode(Commands[k + 1])[2] = 232
          /\ Encode(Commands[k + 1])[3] = 25 /\ Encode(Commands[k + 1])[4] = 164
      BY <1>6, EncodedBytes
    <2>3. /\ ProtocolIdentity[1] = 101 /\ ProtocolIdentity[2] = 232
          /\ ProtocolIdentity[3] = 25 /\ ProtocolIdentity[4] = 164
      BY DEF ProtocolIdentity
    <2>. HIDE DEF j
    <2>. QED
      BY <2>1, <2>2, <2>3
  <1>. QED
    BY <1>3, <1>5, <1>7 DEF Matches

\* With reads of whole messages every scan finds an identity.
LEMMA WholeFinds ==
  ASSUME Inv, whole, ppc = "scan", ~Scanning
  PROVE  FoundOne
  <1>. DEFINE d == bufferByteIndex - identityBytesFound
  <1>1. /\ d \in 0 .. readBytes - 1 /\ Boundary(d)
        /\ messageStart \in 0 .. d
    BY DEF Inv, SearchInv, WholeInv
  <1>2. /\ readBytes \in Nat /\ bufferByteIndex \in Nat /\ identityBytesFound \in 0 .. 4
        /\ messageStart \in Nat
    BY Numbers DEF Inv
  <1>3. d \in Nat /\ d < readBytes
    BY <1>1, <1>2
  <1>4. d + 12 <= readBytes
    BY <1>1, <1>3, MessagePlace
  <1>5. identityBytesFound = 4
    BY <1>2, <1>4 DEF Scanning, ProtocolIdentityLength
  <1>. QED
    BY <1>1, <1>2, <1>4, <1>5 DEF FoundOne, HeaderMissing, ProtocolIdentityLength,
       MessageHeaderLength

-----------------------------------------------------------------------------
(* The inductive invariant.                                                *)

\* It holds at the start.
LEMMA InvInit == Init => Inv
  <1>. SUFFICES ASSUME Init PROVE Inv
    OBVIOUS
  <1>1. ReadBufferSize \in Nat \ {0} /\ Len(Stream) \in Nat
    BY ParserAssumption, StreamType, CommandsSent
  <1>2. None \in Server!MessageSetLighting
    BY DEF None, Server!MessageSetLighting, Server!Uint16, Server!Byte
  <1>3. TypeOK
    BY <1>1, <1>2 DEF Init, TypeOK, ProtocolIdentityLength, Byte
  <1>. QED
    BY <1>3 DEF Init, Inv, SearchInv, BufferInv, WholeInv, EndedInv, Boundary, MsgLen

\* A read overwrites the front of the buffer with what comes next in the stream.
LEMMA ReadKeepsInv ==
  ASSUME Inv, NEW n \in ReadSizes, Read(n)
  PROVE  Inv'
  <1>. USE DEF Inv, SearchInv
  <1>1. /\ Stream \in Seq(Byte) /\ n \in Nat /\ 0 < n /\ n <= ReadBufferSize
        /\ consumed + n <= Len(Stream)
        /\ consumed \in Nat /\ Len(Stream) \in Nat /\ ReadBufferSize \in Nat
    BY ParserAssumption, StreamType, Numbers DEF Read, ReadLimit
  <1>2. /\ ppc = "wait" /\ ppc' = "search" /\ readBytes' = n /\ bufferByteIndex' = 0
        /\ consumed' = consumed + n /\ whole' = (whole /\ Boundary(consumed + n))
        /\ single' = (single /\ whole' /\ n = 12)
        /\ UNCHANGED <<identityBytesFound, messageStart, setLighting>>
    BY DEF Read, PGoto, scanVars, MsgLen
  <1>3. /\ readBuffer' \in [0 .. ReadBufferSize - 1 -> Byte]
        /\ \A i \in 0 .. n - 1 : readBuffer'[i] = Stream[consumed + i + 1]
    <2>1. readBuffer' = [i \in 0 .. ReadBufferSize - 1 |->
                           IF i < n THEN Stream[consumed + i + 1] ELSE readBuffer[i]]
      BY DEF Read
    <2>2. ASSUME NEW i \in 0 .. ReadBufferSize - 1, i < n
          PROVE  Stream[consumed + i + 1] \in Byte
      <3>1. consumed + i + 1 \in 1 .. Len(Stream)
        BY <1>1, <2>2
      <3>. QED
        BY <1>1, <3>1, ElementOfSeq
    <2>3. \A i \in 0 .. n - 1 : i \in 0 .. ReadBufferSize - 1 /\ i < n
      BY <1>1
    <2>4. readBuffer \in [0 .. ReadBufferSize - 1 -> Byte]
      BY DEF TypeOK
    <2>. QED
      BY <2>1, <2>2, <2>3, <2>4
  <1>4. TypeOK'
    BY <1>1, <1>2, <1>3 DEF TypeOK
  <1>5. BufferInv'
    <2>1. ASSUME NEW i \in 0 .. n - 1
          PROVE  readBuffer'[i] = Stream[(consumed + n) - n + i + 1]
      <3>1. (consumed + n) - n + i + 1 = consumed + i + 1
        BY <1>1
      <3>. QED
        BY <1>3, <3>1
    <2>. QED
      BY <1>1, <1>2, <2>1 DEF BufferInv
  <1>6. WholeInv'
    <2>1. whole' => /\ (consumed + n) % 12 = 0 /\ consumed % 12 = 0
                    /\ setLighting \in CommandsIn(0, consumed) \cup {None}
      BY <1>2 DEF WholeInv, Boundary, MsgLen
    <2>2. (consumed + n) % 12 = 0 /\ consumed % 12 = 0 => n % 12 = 0
      BY <1>1
    <2>3. CommandsIn(0, consumed) \subseteq CommandsIn(0, consumed + n)
      BY <1>1, CommandsSent DEF CommandsIn, MsgLen
    <2>. QED
      BY <1>1, <1>2, <2>1, <2>2, <2>3 DEF WholeInv, Boundary, MsgLen, CommandsIn
  <1>. QED
    BY <1>2, <1>4, <1>5, <1>6 DEF EndedInv

\* The search goes through what was read.
LEMMA ParseKeepsInv ==
  ASSUME Inv, Parse
  PROVE  Inv'
  <1>. USE DEF PGoto, scanVars
  <1>0. /\ ReadBufferSize \in Nat /\ consumed \in Nat /\ readBytes \in Nat
        /\ readBytes <= ReadBufferSize /\ bufferByteIndex \in Nat
        /\ identityBytesFound \in 0 .. 4 /\ messageStart \in Nat
        /\ TypeOK /\ BufferInv /\ (single => whole) /\ WholeInv /\ EndedInv
    BY Numbers DEF Inv, SearchInv
  <1>1. CASE SearchBegin
    <2>1. TypeOK'
      BY <1>0, <1>1 DEF SearchBegin, TypeOK, ProtocolIdentityLength
    <2>2. BufferInv' /\ EndedInv'
      BY <1>0, <1>1 DEF SearchBegin, BufferInv, EndedInv
    <2>3. WholeInv'
      BY <1>0, <1>1 DEF SearchBegin, WholeInv, Boundary, CommandsIn, MsgLen
    <2>. QED
      BY <1>0, <1>1, <2>1, <2>2, <2>3 DEF SearchBegin, Inv, SearchInv
  <1>2. CASE ScanByte
    <2>1. /\ ppc = "scan" /\ ppc' = "scan" /\ Scanning
          /\ bufferByteIndex' = bufferByteIndex + 1
          /\ identityBytesFound \in 0 .. 3 /\ bufferByteIndex < readBytes
          /\ UNCHANGED <<consumed, readBuffer, readBytes, setLighting, whole, single>>
      BY <1>0, <1>2 DEF ScanByte, Scanning, ProtocolIdentityLength
    <2>2. BufferInv' /\ EndedInv' /\ (single' => whole')
      BY <1>0, <2>1 DEF BufferInv, EndedInv
    <2>3. CASE Matches
      <3>1. identityBytesFound' = identityBytesFound + 1 /\ messageStart' = messageStart
        BY <1>2, <2>3 DEF ScanByte
      <3>2. TypeOK'
        BY <1>0, <2>1, <3>1 DEF TypeOK, ProtocolIdentityLength
      <3>3. bufferByteIndex' - identityBytesFound' = bufferByteIndex - identityBytesFound
        BY <1>0, <2>1, <3>1
      <3>4. WholeInv'
        BY <1>0, <2>1, <3>1, <3>3 DEF WholeInv, CommandsIn
      <3>. QED
        BY <2>2, <3>2, <3>4 DEF Inv, SearchInv
    <2>4. CASE ~Matches
      <3>1. identityBytesFound' = 0 /\ messageStart' = bufferByteIndex + 1
        BY <1>2, <2>4 DEF ScanByte
      <3>2. TypeOK'
        BY <1>0, <2>1, <3>1 DEF TypeOK, ProtocolIdentityLength
      <3>3. ~whole
        BY <2>1, <2>4, WholeMatches
      <3>. QED
        BY <2>1, <2>2, <3>2, <3>3 DEF Inv, SearchInv, WholeInv
    <2>. QED
      BY <2>3, <2>4
  <1>3. CASE SearchFails
    <2>1. /\ ppc = "scan" /\ ppc' = "search" /\ ~Scanning /\ ~FoundOne
          /\ UNCHANGED <<consumed, readBuffer, readBytes, bufferByteIndex,
                         identityBytesFound, messageStart, setLighting, whole, single>>
      BY <1>3 DEF SearchFails
    <2>2. TypeOK' /\ BufferInv' /\ EndedInv'
      BY <1>0, <2>1 DEF TypeOK, BufferInv, EndedInv
    <2>3. ~whole
      BY <2>1, WholeFinds
    <2>. QED
      BY <1>0, <2>1, <2>2, <2>3 DEF Inv, SearchInv, WholeInv
  <1>4. CASE Handle
    <2>1. PICK stray \in Stray :
            /\ setLighting' = IF Memory(stray)[messageStart + 7] = 4
                              THEN readSetLighting(Memory(stray), messageStart)
                              ELSE setLighting
            /\ bufferByteIndex' = NextSearch(Memory(stray))
      BY <1>4 DEF Handle, MsgPos, MsgType
    <2>2. /\ FoundOne /\ ppc = "scan" /\ ppc' = "search"
          /\ UNCHANGED <<consumed, readBuffer, readBytes, identityBytesFound,
                         messageStart, whole, single>>
      BY <1>4 DEF Handle
    <2>3. /\ readSetLighting(Memory(stray), messageStart) \in Lighting
          /\ NextSearch(Memory(stray)) \in 0 .. ReadBufferSize + 255
      BY <1>0, <2>2, HandledType
    <2>4. setLighting' \in Server!MessageSetLighting
      <3>1. setLighting \in Lighting
        BY <1>0, LightingMessages DEF TypeOK
      <3>. QED
        BY <2>1, <2>3, <3>1, LightingMessages
    <2>5. TypeOK'
      BY <1>0, <2>1, <2>2, <2>3, <2>4 DEF TypeOK
    <2>6. BufferInv' /\ EndedInv'
      BY <1>0, <2>2 DEF BufferInv, EndedInv
    <2>7. ASSUME whole
          PROVE  /\ setLighting' = EndingAt(bufferByteIndex')
                 /\ bufferByteIndex' <= readBytes /\ Boundary(bufferByteIndex')
                 /\ setLighting' \in CommandsIn(0, consumed)
      BY <2>1, <2>2, <2>7, WholeHandled
    <2>8. EndingAt(bufferByteIndex)' = EndingAt(bufferByteIndex')
      BY <2>2 DEF EndingAt
    <2>9. WholeInv'
      BY <1>0, <2>2, <2>7, <2>8 DEF WholeInv, CommandsIn
    <2>. QED
      BY <1>0, <2>2, <2>5, <2>6, <2>9 DEF Inv, SearchInv
  <1>5. CASE SearchDone
    <2>1. /\ ppc = "search" /\ ppc' = "wait" /\ bufferByteIndex >= readBytes
          /\ UNCHANGED <<consumed, readBuffer, readBytes, bufferByteIndex,
                         identityBytesFound, messageStart, setLighting, whole, single>>
      BY <1>5 DEF SearchDone
    <2>2. TypeOK' /\ BufferInv'
      BY <1>0, <2>1 DEF TypeOK, BufferInv
    <2>3. WholeInv'
      BY <1>0, <2>1 DEF WholeInv, CommandsIn
    <2>4. ASSUME whole PROVE setLighting = Commands[consumed \div 12]
      <3>1. /\ readBytes > 0 /\ bufferByteIndex <= readBytes
            /\ bufferByteIndex > 0 => setLighting = EndingAt(bufferByteIndex)
        BY <1>0, <2>1, <2>4 DEF WholeInv
      <3>2. setLighting = EndingAt(readBytes) /\ consumed - readBytes + readBytes = consumed
        BY <1>0, <2>1, <3>1
      <3>. QED
        BY <3>2 DEF EndingAt, MsgLen
    <2>5. EndedInv'
      BY <2>1, <2>4 DEF EndedInv, MsgLen
    <2>. QED
      BY <1>0, <2>1, <2>2, <2>3, <2>5 DEF Inv, SearchInv
  <1>. QED
    BY <1>1, <1>2, <1>3, <1>4, <1>5 DEF Parse

\* Every step keeps it.
LEMMA StepKeepsInv == Inv /\ [Next]_vars => Inv'
  <1>. SUFFICES ASSUME Inv, [Next]_vars PROVE Inv'
    OBVIOUS
  <1>1. CASE UNCHANGED vars
    BY <1>1 DEF vars, scanVars, Inv, TypeOK, SearchInv, BufferInv, WholeInv, EndedInv,
       EndingAt, CommandsIn
  <1>2. CASE ReadNothing
    BY <1>1, <1>2 DEF ReadNothing
  <1>. QED
    BY <1>1, <1>2, ReadKeepsInv, ParseKeepsInv DEF Next

\* It holds in every reachable state.
LEMMA InvAlways == Spec => []Inv
  BY InvInit, StepKeepsInv, PTL DEF Spec

\* However TCP cuts the stream, the scan stays inside the bytes read and what is
\* taken from them are bytes, also behind the end of the buffer.
THEOREM TypeCorrect == Spec => []TypeOK
  <1>1. Inv => TypeOK
    BY DEF Inv
  <1>. QED
    BY <1>1, InvAlways, PTL

\* The bytes searched are those of the stream (RgbLedControl.ino:160-163), and with
\* reads of whole messages each search begins at a message, right behind the one the
\* lighting is set to, and finds its identity at once (167-227).
THEOREM SearchCorrect == Spec => []SearchInv
  <1>1. Inv => SearchInv
    BY DEF Inv
  <1>. QED
    BY <1>1, InvAlways, PTL

\* One message a read, the lighting is what was sent last, whatever it is.
THEOREM SingleFollows == Spec => []SingleReadsFollow
  <1>1. Inv => SingleReadsFollow
    BY DEF Inv, SearchInv, EndedInv, SingleReadsFollow
  <1>. QED
    BY <1>1, InvAlways, PTL

\* With reads of whole messages, the lighting is a command that was sent and
\* read, whatever the buffer held before.
THEOREM NeverTorn == Spec => []WholeReadsUntorn
  <1>1. Inv => WholeReadsUntorn
    BY DEF Inv, SearchInv, WholeInv, WholeReadsUntorn
  <1>. QED
    BY <1>1, InvAlways, PTL
==============================================================================
