--------------------------- MODULE SketchProtocol ----------------------------
(***************************************************************************)
(* The sketch's own code for messages, in RgbLedControl.ino.  It shares    *)
(* the constants with the server and nothing else.                         *)
(***************************************************************************)
EXTENDS DeviceProtocolConstants, Sequences

ProtocolIdentity == <<101, 232, 25, 164>>
ProtocolIdentityLength == 4
MessageHeaderLength == 8

writeProtocolIdentity(buffer) ==
  [buffer EXCEPT ![0] = 101, ![1] = 232, ![2] = 25, ![3] = 164]

uint16ToUint8Array(val, buffer, pos) ==
  [buffer EXCEPT ![pos] = val % 256, ![pos + 1] = (val \div 256) % 256]
uint8ArrayToUint16(buffer, pos) == buffer[pos] + 256 * buffer[pos + 1]

writeHeader(buffer, length, number, type) ==
  [uint16ToUint8Array(number,
     [writeProtocolIdentity(buffer) EXCEPT ![MsgPos.Length] = length], MsgPos.Number)
   EXCEPT ![MsgPos.Type] = type]

writeConnected(buffer, m) ==
  uint16ToUint8Array(m.deviceName,
    writeHeader(buffer, MsgLen.Connected, m.number, MsgType.Connected),
    MsgPos.DeviceName)

writeAcknowledge(buffer, m) ==
  uint16ToUint8Array(m.responseTo,
    writeHeader(buffer, MsgLen.Acknowledge, m.number, MsgType.Acknowledge),
    MsgPos.ResponseTo)

\* A faulty variant: the fields are taken from one byte too far.
fieldsOneTooFar(start) == start + 1
\* Where the fields of the message at start are counted from.
fieldsAt(start) == start

readSetLighting(buffer, start) ==
  [number |-> uint8ArrayToUint16(buffer, fieldsAt(start) + MsgPos.Number),
   animationType |-> buffer[fieldsAt(start) + MsgPos.Animation],
   animationSpeed |-> buffer[fieldsAt(start) + MsgPos.AnimationSpeed],
   hue |-> buffer[fieldsAt(start) + MsgPos.Hue],
   brightness |-> buffer[fieldsAt(start) + MsgPos.Brightness]]
==============================================================================
