---------------------------- MODULE MCDeviceParser ----------------------------
(* DeviceParser on a short stream. *)
EXTENDS DeviceParser

\* Lighting commands that differ in every field the server varies.
MCCommands ==
  <<[number |-> 0, animationType |-> 0, animationSpeed |-> 5, hue |-> 101, brightness |-> 31],
    [number |-> 1, animationType |-> 1, animationSpeed |-> 5, hue |-> 232, brightness |-> 25],
    [number |-> 2, animationType |-> 2, animationSpeed |-> 5, hue |-> 25, brightness |-> 4]>>
==============================================================================
