------------------------- MODULE LedAnimationProofs --------------------------
(***************************************************************************)
(* A theorem about LedAnimation: one turn of loop() leaves nothing of the  *)
(* animation before it, whatever commands have been received.              *)
(***************************************************************************)
EXTENDS LedAnimation, TLAPS

\* Whatever the commands are, NoResidue holds (RgbLedControl.ino:117-152): each
\* branch sets both the strip's brightness and every LED.
THEOREM NothingLeft == Spec => []NoResidue
  <1>1. Init => NoResidue
    BY DEF Init, NoResidue
  <1>2. NoResidue /\ [Next]_vars => NoResidue'
    <2>. SUFFICES ASSUME NoResidue, [Next]_vars
                  PROVE  NoResidue'
      OBVIOUS
    <2>1. CASE Enter \/ Leave \/ Receive \/ Spin \/ Reboot
      BY <2>1 DEF Enter, Leave, Receive, Spin, Reboot, NoResidue
    <2>2. CASE UNCHANGED vars
      BY <2>2 DEF vars, stripVars, NoResidue, LightOf, Meant
    <2>3. CASE Update
      <3>. SUFFICES ASSUME set'.animation \in Animations, NEW i \in Leds
                    PROVE  LightOf(i)' = Meant(set, currentAnimStep, i)'
        BY DEF NoResidue
      <3>1. set' = set
        BY <2>3 DEF Update
      <3>. USE DEF LightOf, Meant, AnimType, Level, AllLeds
      <3>2. CASE Still
        BY <3>1, <3>2 DEF Still
      <3>3. CASE Pulse
        BY <3>1, <3>3 DEF Pulse
      <3>4. CASE Wave
        <4>1. i \in Int /\ (256 \div NUM_LEDS) * i = 32 * i
          BY DEF Leds, NUM_LEDS
        <4>2. /\ leds'[i] = [hue |-> set.hue, phase |-> (NextStep + 32 * i) % 256]
              /\ currentAnimStep' = NextStep
              /\ brightness' = [level |-> set.brightness, phase |-> 0]
          BY <3>4, <4>1 DEF Wave, WaveBrightness
        <4>3. set'.animation = 2
          BY <3>1, <3>4 DEF Wave
        <4>. DEFINE phase == (NextStep + 32 * i) % 256
        <4>. HIDE DEF phase
        <4>4. leds'[i] = [hue |-> set.hue, phase |-> phase]
          BY <4>2 DEF phase
        <4>5. LightOf(i)' = [hue |-> set.hue, level |-> set.brightness,
                             phases |-> {phase} \ {0}]
          <5>1. /\ leds'[i].hue = set.hue /\ leds'[i].phase = phase
                /\ brightness'.level = set.brightness /\ brightness'.phase = 0
            BY <4>2, <4>4
          <5>2. {leds'[i].phase, brightness'.phase} \ {0} = {phase} \ {0}
            BY <5>1
          <5>. QED
            BY <5>1, <5>2
        <4>6. Meant(set, currentAnimStep, i)'
                = [hue |-> set.hue, level |-> set.brightness, phases |-> {phase} \ {0}]
          BY <3>1, <4>2, <4>3 DEF phase
        <4>. QED
          BY <4>5, <4>6
      <3>5. ~Unknown
        BY <3>1 DEF Unknown
      <3>. QED
        BY <2>3, <3>2, <3>3, <3>4, <3>5 DEF Update
    <2>. QED
      BY <2>1, <2>2, <2>3 DEF Next
  <1>. QED
    BY <1>1, <1>2, PTL DEF Spec
==============================================================================
