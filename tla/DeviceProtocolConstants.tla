----------------------- MODULE DeviceProtocolConstants -----------------------
(***************************************************************************)
(* DeviceProtocolConstants.h, which both programs include: where the fields *)
(* of a message are, and the values that types and lengths have.           *)
(***************************************************************************)
EXTENDS Integers

Byte == 0 .. 255
Uint16 == 0 .. 65535

MsgPos == [Protocol |-> 0, Length |-> 4, Number |-> 5, Type |-> 7,
           ResponseTo |-> 8, DeviceName |-> 8,
           Animation |-> 8, AnimationSpeed |-> 9, Hue |-> 10, Brightness |-> 11]
MsgType == [None |-> 0, Acknowledge |-> 1, Connected |-> 2, SetName |-> 3,
            SetLighting |-> 4]
MsgLen == [Connected |-> 10, Acknowledge |-> 10, SetName |-> 10, SetLighting |-> 12]
AnimType == [None |-> 0, BrightnessPulse |-> 1, BrightnessWave |-> 2]
==============================================================================
