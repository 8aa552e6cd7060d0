---------------------------- MODULE MessageBuffer ----------------------------
(***************************************************************************)
(* Each program builds all its messages in one buffer, over what earlier   *)
(* messages left there; the server's buffer is also the one it reads into. *)
(* Any number of messages, in any order: is what the other side reads what *)
(* was meant?                                                              *)
(***************************************************************************)
EXTENDS DeviceProtocol

Sketch == INSTANCE SketchProtocol

CONSTANTS Numbers, Names, Settings \* the values that fields take

ASSUME ValuesAssumption == Numbers \cup Names \subseteq Uint16 /\ Settings \subseteq Byte

BufferSize == 128

VARIABLES
  buffer,     \* the server's
  sent,       \* history: the message the server has just written there, or none
  sendBuffer, \* the sketch's
  answered    \* history: the message the sketch has just written there, or none

vars == <<buffer, sent, sendBuffer, answered>>

Zeros == [i \in 0 .. BufferSize - 1 |-> 0]
Nothing == [type |-> MsgType.None]
Message(t, m) == [type |-> t, message |-> m]

Init == buffer = Zeros /\ sent = Nothing /\ sendBuffer = Zeros /\ answered = Nothing

\* bzero() and a read() of n bytes of what the sketch has sent.
Read(n) ==
  /\ buffer' = [i \in 0 .. BufferSize - 1 |-> IF i < n THEN sendBuffer[i] ELSE 0]
  /\ sent' = Nothing
  /\ UNCHANGED <<sendBuffer, answered>>

SetLighting(m) ==
  /\ buffer' = writeMessageSetLighting(buffer, m)
  /\ sent' = Message(MsgType.SetLighting, m)
  /\ UNCHANGED <<sendBuffer, answered>>

\* Nothing in the repository calls writeMessageSetName yet.
SetName(m) ==
  /\ buffer' = writeMessageSetName(buffer, m)
  /\ sent' = Message(MsgType.SetName, m)
  /\ UNCHANGED <<sendBuffer, answered>>

Connected(m) ==
  /\ sendBuffer' = Sketch!writeConnected(sendBuffer, m)
  /\ answered' = Message(MsgType.Connected, m)
  /\ UNCHANGED <<buffer, sent>>

Acknowledge(m) ==
  /\ sendBuffer' = Sketch!writeAcknowledge(sendBuffer, m)
  /\ answered' = Message(MsgType.Acknowledge, m)
  /\ UNCHANGED <<buffer, sent>>

Next ==
  \/ \E n \in 0 .. MsgLen.Connected : Read(n)
  \/ \E m \in [number : Numbers, animationType : Settings, animationSpeed : Settings,
               hue : Settings, brightness : Settings] : SetLighting(m)
  \/ \E m \in [number : Numbers, deviceName : Names] : SetName(m) \/ Connected(m)
  \/ \E m \in [number : Numbers, responseTo : Numbers] : Acknowledge(m)

Spec == Init /\ [][Next]_vars

-----------------------------------------------------------------------------
(* Properties.                                                             *)

\* The frame by which the other side finds a message and its type.
Framed(b, length, type) ==
  /\ IdentityAt(b, 0, length)
  /\ getMessageLength(b, 0) = length
  /\ getMessageType(b, 0) = type

\* What the sketch reads of the lighting command in the server's buffer, and the
\* server of the message in the sketch's, is the message last written there,
\* whatever was in the buffer before (DeviceProtocol.c:99, RgbLedControl.ino:234).
\* Of a SetName message that holds of all but the name, which is not written.
ReadsBack ==
  /\ sent.type = MsgType.SetLighting =>
       /\ Framed(buffer, MsgLen.SetLighting, MsgType.SetLighting)
       /\ Sketch!readSetLighting(buffer, 0) = sent.message
  /\ sent.type = MsgType.SetName =>
       /\ Framed(buffer, MsgLen.SetName, MsgType.SetName)
       /\ uint8ArrayToUint16(buffer, MsgPos.Number) = sent.message.number
  /\ answered.type = MsgType.Connected =>
       /\ Framed(sendBuffer, MsgLen.Connected, MsgType.Connected)
       /\ readMessageConnected(sendBuffer, 0) = answered.message
  /\ answered.type = MsgType.Acknowledge =>
       /\ Framed(sendBuffer, MsgLen.Acknowledge, MsgType.Acknowledge)
       /\ readMessageAcknowledge(sendBuffer, 0) = answered.message
==============================================================================
