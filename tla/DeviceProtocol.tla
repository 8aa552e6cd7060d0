--------------------------- MODULE DeviceProtocol ----------------------------
(***************************************************************************)
(* DeviceProtocol.c, the server's code for messages, byte by byte.         *)
(* Buffers are functions from indices counted from 0, as in the code; a    *)
(* pointer into a buffer is the buffer and an index.                       *)
(***************************************************************************)
EXTENDS DeviceProtocolConstants, Sequences

ProtocolIdentity == <<101, 232, 25, 164>>
ProtocolIdentityLength == 4

\* The structs of MessageTypes.h.
MessageAcknowledge == [number : Uint16, responseTo : Uint16]
MessageConnected == [number : Uint16, deviceName : Uint16]
MessageSetName == [number : Uint16, deviceName : Uint16]
MessageSetLighting == [number : Uint16, animationType : Byte,
                       animationSpeed : Byte, hue : Byte, brightness : Byte]

-----------------------------------------------------------------------------
(* Fields.                                                                 *)

\* A faulty variant: the high byte comes first.
uint16HighByteFirst(val, buffer, pos) ==
  [buffer EXCEPT ![pos] = (val \div 256) % 256, ![pos + 1] = val % 256]

\* The low byte comes first.
uint16ToUint8Array(val, buffer, pos) ==
  [buffer EXCEPT ![pos] = val % 256, ![pos + 1] = (val \div 256) % 256]
uint8ArrayToUint16(buffer, pos) == buffer[pos] + 256 * buffer[pos + 1]

writeIdentity(buffer) ==
  [buffer EXCEPT ![0] = 101, ![1] = 232, ![2] = 25, ![3] = 164]

writeHeader(buffer, length, number, type) ==
  [uint16ToUint8Array(number,
     [writeIdentity(buffer) EXCEPT ![MsgPos.Length] = length], MsgPos.Number)
   EXCEPT ![MsgPos.Type] = type]

getMessageType(buffer, start) == buffer[start + MsgPos.Type]
getMessageLength(buffer, start) == buffer[start + MsgPos.Length]

-----------------------------------------------------------------------------
(* Messages.                                                               *)

\* The name is not written.
writeMessageSetName(buffer, m) ==
  writeHeader(buffer, MsgLen.SetName, m.number, MsgType.SetName)

writeMessageSetLighting(buffer, m) ==
  [writeHeader(buffer, MsgLen.SetLighting, m.number, MsgType.SetLighting) EXCEPT
     ![MsgPos.Animation] = m.animationType,
     ![MsgPos.AnimationSpeed] = m.animationSpeed,
     ![MsgPos.Hue] = m.hue,
     ![MsgPos.Brightness] = m.brightness]

readMessageSet(buffer, start) ==
  [number |-> uint8ArrayToUint16(buffer, start + MsgPos.Number),
   animationType |-> buffer[start + MsgPos.Animation],
   animationSpeed |-> buffer[start + MsgPos.AnimationSpeed],
   hue |-> buffer[start + MsgPos.Hue],
   brightness |-> buffer[start + MsgPos.Brightness]]

readMessageConnected(buffer, start) ==
  [number |-> uint8ArrayToUint16(buffer, start + MsgPos.Number),
   deviceName |-> uint8ArrayToUint16(buffer, start + MsgPos.DeviceName)]

readMessageAcknowledge(buffer, start) ==
  [number |-> uint8ArrayToUint16(buffer, start + MsgPos.Number),
   responseTo |-> uint8ArrayToUint16(buffer, start + MsgPos.ResponseTo)]

-----------------------------------------------------------------------------
\* The identity stands at i, before end.
IdentityAt(buffer, i, end) ==
  /\ i + ProtocolIdentityLength <= end
  /\ \A j \in 1 .. ProtocolIdentityLength : buffer[i + j - 1] = ProtocolIdentity[j]
==============================================================================
