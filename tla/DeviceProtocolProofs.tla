------------------------ MODULE DeviceProtocolProofs -------------------------
(***************************************************************************)
(* Theorems about MessageBuffer and the two codecs: what one program writes *)
(* into a buffer is what the other reads from it, for every message and    *)
(* whatever the buffer held before, and each message carries the frame the *)
(* parsers look for.                                                       *)
(***************************************************************************)
EXTENDS MessageBuffer, TLAPS

\* What a buffer of either program may hold.
Buffers == [0 .. 127 -> Byte]

-----------------------------------------------------------------------------
(* The field codec.                                                        *)

\* The two bytes of a 16-bit value are bytes, and make up the value again.
LEMMA BytesOfUint16 ==
  \A v \in Uint16 : /\ v % 256 \in Byte
                    /\ (v \div 256) % 256 \in Byte
                    /\ (v % 256) + 256 * ((v \div 256) % 256) = v
  <1>. SUFFICES ASSUME NEW v \in Uint16
                PROVE  /\ v % 256 \in Byte
                       /\ (v \div 256) % 256 \in Byte
                       /\ (v % 256) + 256 * ((v \div 256) % 256) = v
    OBVIOUS
  <1>1. v \in 0 .. 65535
    BY DEF Uint16
  <1>2. v = 256 * (v \div 256) + (v % 256) /\ v % 256 \in 0 .. 255 /\ v \div 256 \in Int
    BY <1>1
  <1>3. v \div 256 \in 0 .. 255
    BY <1>1, <1>2
  <1>4. (v \div 256) % 256 = v \div 256
    BY <1>3
  <1>. QED
    BY <1>2, <1>3, <1>4 DEF Byte

\* What uint16ToUint8Array writes into a buffer, uint8ArrayToUint16 reads.
LEMMA Uint16Field ==
  \A old \in Buffers, v \in Uint16, pos \in 0 .. 126 :
    /\ uint16ToUint8Array(v, old, pos) \in Buffers
    /\ uint8ArrayToUint16(uint16ToUint8Array(v, old, pos), pos) = v
  <1>. TAKE old \in Buffers, v \in Uint16, pos \in 0 .. 126
  <1>1. v % 256 \in Byte /\ (v \div 256) % 256 \in Byte
    BY BytesOfUint16
  <1>2. (v % 256) + 256 * ((v \div 256) % 256) = v
    BY BytesOfUint16
  <1>. DEFINE b == uint16ToUint8Array(v, old, pos)
  <1>3. b \in Buffers
    BY <1>1 DEF uint16ToUint8Array, Buffers
  <1>4. b[pos] = v % 256 /\ b[pos + 1] = (v \div 256) % 256
    BY DEF uint16ToUint8Array, Buffers
  <1>5. uint8ArrayToUint16(b, pos) = v
    BY <1>2, <1>4 DEF uint8ArrayToUint16
  <1>. QED
    BY <1>3, <1>5

\* The sketch's copy of the codec is the server's (DeviceProtocol.c:72-122,
\* RgbLedControl.ino:25-44).
LEMMA CopiesAgree ==
  ASSUME NEW old, NEW pos, NEW val, NEW length, NEW number, NEW type
  PROVE  /\ Sketch!uint16ToUint8Array(val, old, pos)
              = uint16ToUint8Array(val, old, pos)
         /\ Sketch!uint8ArrayToUint16(old, pos) = uint8ArrayToUint16(old, pos)
         /\ Sketch!writeHeader(old, length, number, type)
              = writeHeader(old, length, number, type)
         /\ Sketch!readSetLighting(old, pos) = readMessageSet(old, pos)
  <1>1. Sketch!uint16ToUint8Array(val, old, pos)
          = uint16ToUint8Array(val, old, pos)
    BY DEF uint16ToUint8Array, Sketch!uint16ToUint8Array
  <1>2. Sketch!uint8ArrayToUint16(old, pos) = uint8ArrayToUint16(old, pos)
    BY DEF uint8ArrayToUint16, Sketch!uint8ArrayToUint16
  <1>3. Sketch!writeHeader(old, length, number, type)
          = writeHeader(old, length, number, type)
    BY DEF writeHeader, writeIdentity, uint16ToUint8Array, MsgPos,
           Sketch!writeHeader, Sketch!writeProtocolIdentity,
           Sketch!uint16ToUint8Array, Sketch!MsgPos
  <1>4. Sketch!readSetLighting(old, pos) = readMessageSet(old, pos)
    BY DEF readMessageSet, uint8ArrayToUint16, MsgPos, Sketch!readSetLighting,
           Sketch!uint8ArrayToUint16, Sketch!fieldsAt, Sketch!MsgPos
  <1>. QED
    BY <1>1, <1>2, <1>3, <1>4

-----------------------------------------------------------------------------
(* The frame: identity, length, number, type.                              *)

\* Whoever writes a header leaves the identity at the front, and the length,
\* number and type where the receiver looks for them.
LEMMA HeaderWritten ==
  \A old \in Buffers, length \in Byte, number \in Uint16, type \in Byte :
    /\ writeHeader(old, length, number, type) \in Buffers
    /\ IdentityAt(writeHeader(old, length, number, type), 0, 10)
    /\ IdentityAt(writeHeader(old, length, number, type), 0, 12)
    /\ writeHeader(old, length, number, type)[MsgPos.Length] = length
    /\ writeHeader(old, length, number, type)[MsgPos.Type] = type
    /\ uint8ArrayToUint16(writeHeader(old, length, number, type), MsgPos.Number)
         = number
  <1>. TAKE old \in Buffers, length \in Byte, number \in Uint16, type \in Byte
  <1>. DEFINE framed == [writeIdentity(old) EXCEPT ![4] = length]
              numbered == uint16ToUint8Array(number, framed, 5)
              b == [numbered EXCEPT ![7] = type]
  <1>1. writeHeader(old, length, number, type) = b
    BY DEF writeHeader, MsgPos
  <1>2. /\ framed \in Buffers
        /\ framed[0] = 101 /\ framed[1] = 232 /\ framed[2] = 25 /\ framed[3] = 164
        /\ framed[4] = length
    BY DEF writeIdentity, Buffers, Byte
  <1>. HIDE DEF framed
  <1>3. /\ numbered \in Buffers
        /\ uint8ArrayToUint16(numbered, 5) = number
        /\ \A i \in 0 .. 127 : i # 5 /\ i # 6 => numbered[i] = framed[i]
    <2>1. \A i \in 0 .. 127 : i # 5 /\ i # 6 => numbered[i] = framed[i]
      BY <1>2 DEF uint16ToUint8Array, Buffers
    <2>. QED
      BY <1>2, <2>1, Uint16Field
  <1>. HIDE DEF numbered
  <1>4. /\ b \in Buffers
        /\ b[7] = type
        /\ \A i \in 0 .. 6 : b[i] = numbered[i]
    BY <1>3 DEF Buffers
  <1>. HIDE DEF b
  <1>5. /\ b[0] = 101 /\ b[1] = 232 /\ b[2] = 25 /\ b[3] = 164 /\ b[4] = length
    <2>1. \A i \in 0 .. 4 : b[i] = framed[i]
      BY <1>3, <1>4
    <2>. QED
      BY <1>2, <2>1
  <1>6. uint8ArrayToUint16(b, 5) = number
    BY <1>3, <1>4 DEF uint8ArrayToUint16
  <1>7. IdentityAt(b, 0, 10) /\ IdentityAt(b, 0, 12)
    BY <1>5 DEF IdentityAt, ProtocolIdentity, ProtocolIdentityLength
  <1>. QED
    BY <1>1, <1>4, <1>5, <1>6, <1>7 DEF MsgPos

-----------------------------------------------------------------------------
(* Messages.                                                               *)

\* What is written behind a header leaves the header alone.
LEMMA HeaderKept ==
  \A b, c \in Buffers : (\A i \in 0 .. 7 : c[i] = b[i]) =>
    /\ \A end \in Nat : IdentityAt(b, 0, end) => IdentityAt(c, 0, end)
    /\ c[MsgPos.Length] = b[MsgPos.Length]
    /\ c[MsgPos.Type] = b[MsgPos.Type]
    /\ uint8ArrayToUint16(c, MsgPos.Number) = uint8ArrayToUint16(b, MsgPos.Number)
  BY DEF IdentityAt, ProtocolIdentityLength, MsgPos, uint8ArrayToUint16

\* The device reads the lighting command the server wrote
\* (DeviceProtocol.c:99-109, RgbLedControl.ino:190-223).
THEOREM SetLightingRoundTrip ==
  ASSUME NEW old \in Buffers, NEW m \in MessageSetLighting
  PROVE  LET b == writeMessageSetLighting(old, m)
         IN /\ b \in Buffers
            /\ Framed(b, MsgLen.SetLighting, MsgType.SetLighting)
            /\ Sketch!readSetLighting(b, 0) = m
  <1>. DEFINE h == writeHeader(old, 12, m.number, 4)
              b == [h EXCEPT ![8] = m.animationType, ![9] = m.animationSpeed,
                             ![10] = m.hue, ![11] = m.brightness]
  <1>1. writeMessageSetLighting(old, m) = b
    BY DEF writeMessageSetLighting, MsgPos, MsgLen, MsgType
  <1>2. /\ m.number \in Uint16
        /\ m.animationType \in Byte /\ m.animationSpeed \in Byte
        /\ m.hue \in Byte /\ m.brightness \in Byte
    BY DEF MessageSetLighting
  <1>3. /\ h \in Buffers
        /\ IdentityAt(h, 0, 12)
        /\ h[MsgPos.Length] = 12 /\ h[MsgPos.Type] = 4
        /\ uint8ArrayToUint16(h, MsgPos.Number) = m.number
    <2>1. 12 \in Byte /\ 4 \in Byte
      BY DEF Byte
    <2>2. h \in Buffers
      BY <1>2, <2>1, HeaderWritten
    <2>3. IdentityAt(h, 0, 12)
      BY <1>2, <2>1, HeaderWritten
    <2>4. h[MsgPos.Length] = 12
      BY <1>2, <2>1, HeaderWritten
    <2>5. h[MsgPos.Type] = 4
      BY <1>2, <2>1, HeaderWritten
    <2>6. uint8ArrayToUint16(h, MsgPos.Number) = m.number
      BY <1>2, <2>1, HeaderWritten
    <2>. QED
      BY <2>2, <2>3, <2>4, <2>5, <2>6
  <1>. HIDE DEF h
  <1>4. /\ b \in Buffers
        /\ \A i \in 0 .. 7 : b[i] = h[i]
        /\ b[8] = m.animationType /\ b[9] = m.animationSpeed
        /\ b[10] = m.hue /\ b[11] = m.brightness
    BY <1>2, <1>3 DEF Buffers
  <1>. HIDE DEF b
  <1>5. /\ Framed(b, 12, 4)
        /\ uint8ArrayToUint16(b, MsgPos.Number) = m.number
    BY <1>3, <1>4, HeaderKept DEF Framed, MsgPos, getMessageLength, getMessageType
  <1>6. readMessageSet(b, 0) = m
    <2>1. readMessageSet(b, 0) =
            [number |-> m.number, animationType |-> m.animationType,
             animationSpeed |-> m.animationSpeed, hue |-> m.hue,
             brightness |-> m.brightness]
      BY <1>4, <1>5 DEF readMessageSet, MsgPos
    <2>. QED
      BY <2>1 DEF MessageSetLighting
  <1>. QED
    BY <1>1, <1>4, <1>5, <1>6, CopiesAgree DEF MsgLen, MsgType

\* A 16-bit field behind the header keeps the frame and is read as written.
LEMMA FieldBehindHeader ==
  \A old \in Buffers, number \in Uint16, v \in Uint16, type \in Byte :
    LET b == uint16ToUint8Array(v, writeHeader(old, 10, number, type), 8)
    IN /\ b \in Buffers
       /\ Framed(b, 10, type)
       /\ uint8ArrayToUint16(b, 5) = number
       /\ uint8ArrayToUint16(b, 8) = v
  <1>. TAKE old \in Buffers, number \in Uint16, v \in Uint16, type \in Byte
  <1>. DEFINE h == writeHeader(old, 10, number, type)
              b == uint16ToUint8Array(v, h, 8)
  <1>1. /\ h \in Buffers
        /\ IdentityAt(h, 0, 10)
        /\ h[MsgPos.Length] = 10 /\ h[MsgPos.Type] = type
        /\ uint8ArrayToUint16(h, MsgPos.Number) = number
    <2>1. 10 \in Byte
      BY DEF Byte
    <2>. QED
      BY <2>1, HeaderWritten
  <1>. HIDE DEF h
  <1>2. b \in Buffers /\ uint8ArrayToUint16(b, 8) = v
    BY <1>1, Uint16Field
  <1>3. \A i \in 0 .. 7 : b[i] = h[i]
    BY <1>1 DEF uint16ToUint8Array, Buffers
  <1>. HIDE DEF b
  <1>4. Framed(b, 10, type) /\ uint8ArrayToUint16(b, 5) = number
    BY <1>1, <1>2, <1>3, HeaderKept DEF Framed, MsgPos, getMessageLength, getMessageType
  <1>. QED
    BY <1>2, <1>4 DEF b, h

\* The server reads the introduction the device wrote
\* (RgbLedControl.ino:234-241, DeviceProtocol.c:66-70).
THEOREM ConnectedRoundTrip ==
  ASSUME NEW old \in Buffers,
         NEW m \in MessageConnected
  PROVE  LET b == Sketch!writeConnected(old, m)
         IN /\ b \in Buffers
            /\ Framed(b, MsgLen.Connected, MsgType.Connected)
            /\ readMessageConnected(b, 0) = m
  <1>. DEFINE b == uint16ToUint8Array(m.deviceName,
                     writeHeader(old, 10, m.number, 2), 8)
  <1>1. Sketch!writeConnected(old, m) = b
    BY CopiesAgree DEF Sketch!writeConnected, Sketch!MsgPos, Sketch!MsgLen, Sketch!MsgType
  <1>2. /\ b \in Buffers
        /\ Framed(b, 10, 2)
        /\ uint8ArrayToUint16(b, 5) = m.number
        /\ uint8ArrayToUint16(b, 8) = m.deviceName
    BY FieldBehindHeader DEF Byte, MessageConnected
  <1>. HIDE DEF b
  <1>3. readMessageConnected(b, 0) = [number |-> m.number, deviceName |-> m.deviceName]
    BY <1>2 DEF readMessageConnected, MsgPos
  <1>. QED
    BY <1>1, <1>2, <1>3 DEF MessageConnected, MsgLen, MsgType

\* The server reads the acknowledgement the device wrote
\* (RgbLedControl.ino:253-258, DeviceProtocol.c:60-64).
THEOREM AcknowledgeRoundTrip ==
  ASSUME NEW old \in Buffers,
         NEW m \in MessageAcknowledge
  PROVE  LET b == Sketch!writeAcknowledge(old, m)
         IN /\ b \in Buffers
            /\ Framed(b, MsgLen.Acknowledge, MsgType.Acknowledge)
            /\ readMessageAcknowledge(b, 0) = m
  <1>. DEFINE b == uint16ToUint8Array(m.responseTo,
                     writeHeader(old, 10, m.number, 1), 8)
  <1>1. Sketch!writeAcknowledge(old, m) = b
    BY CopiesAgree DEF Sketch!writeAcknowledge, Sketch!MsgPos, Sketch!MsgLen, Sketch!MsgType
  <1>2. /\ b \in Buffers
        /\ Framed(b, 10, 1)
        /\ uint8ArrayToUint16(b, 5) = m.number
        /\ uint8ArrayToUint16(b, 8) = m.responseTo
    BY FieldBehindHeader DEF Byte, MessageAcknowledge
  <1>. HIDE DEF b
  <1>3. readMessageAcknowledge(b, 0) = [number |-> m.number, responseTo |-> m.responseTo]
    BY <1>2 DEF readMessageAcknowledge, MsgPos
  <1>. QED
    BY <1>1, <1>2, <1>3 DEF MessageAcknowledge, MsgLen, MsgType

-----------------------------------------------------------------------------
(* Buffers used again and again.                                           *)

BuffersOK == buffer \in Buffers /\ sendBuffer \in Buffers

BufferInv == BuffersOK /\ ReadsBack

\* What any sequence of messages leaves in the two buffers is the last one of
\* each, as the other side reads it (MessageBuffer's ReadsBack).
THEOREM BufferReuse == Spec => []ReadsBack
  <1>1. Init => BufferInv
    <2>1. 0 \in Byte
      BY DEF Byte
    <2>2. Init => BuffersOK
      BY <2>1 DEF Init, BuffersOK, Zeros, BufferSize, Buffers
    <2>3. Init => ReadsBack
      BY DEF Init, ReadsBack, Nothing, MsgType
    <2>. QED
      BY <2>2, <2>3 DEF BufferInv
  <1>2. BufferInv /\ [Next]_vars => BufferInv'
    <2>. SUFFICES ASSUME BufferInv, [Next]_vars
                  PROVE  BufferInv'
      OBVIOUS
    <2>. USE DEF BufferInv, BuffersOK
    <2>1. ASSUME NEW n \in 0 .. MsgLen.Connected, Read(n)
          PROVE  BufferInv'
      <3>1. 0 \in Byte
        BY DEF Byte
      <3>2. BuffersOK'
        BY <2>1, <3>1 DEF Read, BufferSize, Buffers
      <3>3. ReadsBack'
        BY <2>1 DEF Read, ReadsBack, Nothing, MsgType, Framed
      <3>. QED
        BY <3>2, <3>3
    <2>2. ASSUME NEW m \in [number : Numbers, animationType : Settings,
                            animationSpeed : Settings, hue : Settings,
                            brightness : Settings],
                 SetLighting(m)
          PROVE  BufferInv'
      <3>1. m \in MessageSetLighting
        BY ValuesAssumption DEF MessageSetLighting
      <3>2. /\ buffer' \in Buffers
            /\ Framed(buffer', MsgLen.SetLighting, MsgType.SetLighting)
            /\ Sketch!readSetLighting(buffer', 0) = m
        BY <2>2, <3>1, SetLightingRoundTrip DEF SetLighting
      <3>3. /\ sent'.type = MsgType.SetLighting /\ sent'.message = m
            /\ UNCHANGED <<sendBuffer, answered>>
        BY <2>2 DEF SetLighting, Message
      <3>4. MsgType.SetLighting # MsgType.SetName
        BY DEF MsgType
      <3>. QED
        BY <3>2, <3>3, <3>4 DEF ReadsBack
    <2>3. ASSUME NEW m \in [number : Numbers, deviceName : Names], SetName(m)
          PROVE  BufferInv'
      <3>1. m.number \in Uint16 /\ 10 \in Byte /\ 3 \in Byte
        BY ValuesAssumption DEF Byte
      <3>2. buffer' \in Buffers
        BY <2>3, <3>1, HeaderWritten DEF SetName, writeMessageSetName, MsgLen, MsgType
      <3>3. sent'.type = 3 /\ UNCHANGED <<sendBuffer, answered>>
        BY <2>3 DEF SetName, Message, MsgType
      <3>4. /\ Framed(buffer', MsgLen.SetName, MsgType.SetName)
            /\ uint8ArrayToUint16(buffer', MsgPos.Number) = m.number
        <4>. DEFINE h == writeHeader(buffer, 10, m.number, 3)
        <4>1. IdentityAt(h, 0, 10)
          BY <3>1, HeaderWritten
        <4>2. h[MsgPos.Length] = 10
          BY <3>1, HeaderWritten
        <4>3. h[MsgPos.Type] = 3
          BY <3>1, HeaderWritten
        <4>4. uint8ArrayToUint16(h, MsgPos.Number) = m.number
          BY <3>1, HeaderWritten
        <4>5. buffer' = h
          BY <2>3 DEF SetName, writeMessageSetName, MsgLen, MsgType
        <4>. HIDE DEF h
        <4>. QED
          BY <4>1, <4>2, <4>3, <4>4, <4>5
             DEF Framed, getMessageLength, getMessageType, MsgPos, MsgLen, MsgType
      <3>5. sent'.message = m
        BY <2>3 DEF SetName, Message
      <3>6. ReadsBack'
        BY <3>3, <3>4, <3>5 DEF ReadsBack, MsgType
      <3>. QED
        BY <3>2, <3>3, <3>6
    <2>4. ASSUME NEW m \in [number : Numbers, deviceName : Names], Connected(m)
          PROVE  BufferInv'
      <3>1. m \in MessageConnected
        BY ValuesAssumption DEF MessageConnected
      <3>2. /\ sendBuffer' \in Buffers
            /\ Framed(sendBuffer', MsgLen.Connected, MsgType.Connected)
            /\ readMessageConnected(sendBuffer', 0) = m
        BY <2>4, <3>1, ConnectedRoundTrip DEF Connected
      <3>3. /\ answered'.type = MsgType.Connected /\ answered'.message = m
            /\ UNCHANGED <<buffer, sent>>
        BY <2>4 DEF Connected, Message
      <3>4. MsgType.Connected # MsgType.Acknowledge
        BY DEF MsgType
      <3>. QED
        BY <3>2, <3>3, <3>4 DEF ReadsBack
    <2>5. ASSUME NEW m \in [number : Numbers, responseTo : Numbers], Acknowledge(m)
          PROVE  BufferInv'
      <3>1. m \in MessageAcknowledge
        BY ValuesAssumption DEF MessageAcknowledge
      <3>2. /\ sendBuffer' \in Buffers
            /\ Framed(sendBuffer', MsgLen.Acknowledge, MsgType.Acknowledge)
            /\ readMessageAcknowledge(sendBuffer', 0) = m
        BY <2>5, <3>1, AcknowledgeRoundTrip DEF Acknowledge
      <3>3. /\ answered'.type = MsgType.Acknowledge /\ answered'.message = m
            /\ UNCHANGED <<buffer, sent>>
        BY <2>5 DEF Acknowledge, Message
      <3>4. MsgType.Connected # MsgType.Acknowledge
        BY DEF MsgType
      <3>. QED
        BY <3>2, <3>3, <3>4 DEF ReadsBack
    <2>6. CASE UNCHANGED vars
      BY <2>6 DEF vars, ReadsBack
    <2>. QED
      BY <2>1, <2>2, <2>3, <2>4, <2>5, <2>6 DEF Next
  <1>. QED
    BY <1>1, <1>2, PTL DEF Spec, BufferInv
==============================================================================
