---------------------------- MODULE LedAnimation -----------------------------
(***************************************************************************)
(* What the LED strip shows: the first part of each turn of loop() in      *)
(* RgbLedControl.ino.  The strip's global brightness and the colour of     *)
(* each LED keep what the last turn left there, possibly of another        *)
(* animation, and currentAnimStep goes on from one animation to the next.  *)
(*                                                                         *)
(* A brightness factor is cos(2 pi phase / 256) / 2 + 1/2: it is kept as   *)
(* its phase, of which 0 is the full brightness.                           *)
(***************************************************************************)
EXTENDS DeviceProtocolConstants

CONSTANT Settings \* the lighting commands that can be received

NUM_LEDS == 8

ASSUME SettingsAssumption ==
  Settings \subseteq [animation : Byte, animSpeed : Byte, hue : Byte, brightness : Byte]

VARIABLES
  lpc,             \* where loop() is: "outside" its while loop, at the "head" of
                   \* it, in its part for the "network", or in an endless parse
                   \* there: "spin"
  set,             \* setAnimation, setAnimSpeed, setHue, setBrightness
  currentAnimStep,
  brightness,      \* FastLED's global brightness, as a level and a phase
  leds             \* each LED's colour, as a hue and a phase

stripVars == <<currentAnimStep, brightness, leds>>
vars == <<lpc, set, stripVars>>

Leds == 0 .. NUM_LEDS - 1
Black == [hue |-> 0, phase |-> 128]
NoSetting == [animation |-> 0, animSpeed |-> 0, hue |-> 0, brightness |-> 0]
Level(level, phase) == [level |-> level, phase |-> phase]
AllLeds(hue) == [i \in Leds |-> [hue |-> hue, phase |-> 0]]

\* setup() sets FastLED's brightness to 32; the statics of loop() are zero.
Init ==
  /\ lpc = "outside"
  /\ set = NoSetting
  /\ currentAnimStep = 0
  /\ brightness = Level(32, 0)
  /\ leds = [i \in Leds |-> Black]

\* A faulty variant: the step stops at its largest value.
NextStepStops == IF currentAnimStep + set.animSpeed > 255 THEN 255
                 ELSE currentAnimStep + set.animSpeed
\* The step is an uint8_t.
NextStep == (currentAnimStep + set.animSpeed) % 256

\* A connection is made, or lost.
Enter == lpc = "outside" /\ lpc' = "head" /\ UNCHANGED <<set, stripVars>>
Leave == lpc = "head" /\ lpc' = "outside" /\ UNCHANGED <<set, stripVars>>

Still ==
  /\ set.animation = AnimType.None
  /\ brightness' = Level(set.brightness, 0)
  /\ leds' = AllLeds(set.hue)
  /\ UNCHANGED currentAnimStep

Pulse ==
  /\ set.animation = AnimType.BrightnessPulse
  /\ currentAnimStep' = NextStep
  /\ brightness' = Level(set.brightness, NextStep)
  /\ leds' = AllLeds(set.hue)

\* A faulty variant: the global brightness is left to the other animations.
WaveBrightnessKept == brightness
WaveBrightness == Level(set.brightness, 0)

Wave ==
  /\ set.animation = AnimType.BrightnessWave
  /\ currentAnimStep' = NextStep
  /\ brightness' = WaveBrightness
  /\ leds' = [i \in Leds |->
                [hue |-> set.hue, phase |-> (NextStep + (256 \div NUM_LEDS) * i) % 256]]

Animations == {AnimType.None, AnimType.BrightnessPulse, AnimType.BrightnessWave}

\* A value that no branch of the code handles.
Unknown ==
  /\ set.animation \notin Animations
  /\ UNCHANGED stripVars

\* A turn's first part, up to FastLED.show().
Update ==
  /\ lpc = "head" /\ lpc' = "network"
  /\ Still \/ Pulse \/ Wave \/ Unknown
  /\ UNCHANGED set

\* The network part: a lighting command has been received, or none.
Receive ==
  /\ lpc = "network" /\ lpc' = "head"
  /\ set' \in Settings \cup {set}
  /\ UNCHANGED stripVars

\* One read had two commands: the first is handled for ever, and the strip stays as
\* it is.
Spin ==
  /\ lpc = "network" /\ lpc' = "spin"
  /\ set' \in Settings
  /\ UNCHANGED stripVars

\* Power loss, or the watchdog.
Reboot ==
  /\ lpc' = "outside" /\ set' = NoSetting
  /\ currentAnimStep' = 0 /\ brightness' = Level(32, 0)
  /\ leds' = [i \in Leds |-> Black]

Next == Enter \/ Leave \/ Update \/ Receive \/ Spin \/ Reboot

(* loop() goes on as long as it is connected and its parse comes to an end. *)
Spec == Init /\ [][Next]_vars /\ WF_vars(Update) /\ WF_vars(Receive)

-----------------------------------------------------------------------------
(* Properties.                                                             *)

\* How bright LED i is to the eye: its own brightness, dimmed by the strip's.
LightOf(i) == [hue |-> leds[i].hue, level |-> brightness.level,
               phases |-> {leds[i].phase, brightness.phase} \ {0}]

\* What a lighting command means when the animation has come to a step.
Meant(s, step, i) ==
  LET phase == CASE s.animation = AnimType.None -> 0
                 [] s.animation = AnimType.BrightnessPulse -> step
                 [] s.animation = AnimType.BrightnessWave -> (step + 32 * i) % 256
  IN [hue |-> s.hue, level |-> s.brightness, phases |-> {phase} \ {0}]

\* Whatever was shown before, what is shown after a turn is the command in force
\* and nothing else: no dimming of the strip or of an LED is left over from
\* another animation (RgbLedControl.ino:117-152).
NoResidue ==
  lpc = "network" /\ set.animation \in Animations =>
    \A i \in Leds : LightOf(i) = Meant(set, currentAnimStep, i)

\* With the speed the server sends, 5, an animation that goes on comes to its
\* brightest and to its darkest again and again: 5 and 256 have no common factor.
\* It goes on as long as the device is connected and no parse keeps it.
Breathes ==
  <>[](/\ lpc \in {"head", "network"} /\ set.animSpeed = 5
       /\ set.animation \in {AnimType.BrightnessPulse, AnimType.BrightnessWave})
    => []<>(currentAnimStep = 0) /\ []<>(currentAnimStep = 128)
==============================================================================
