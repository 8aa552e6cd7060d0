---------------------------- MODULE MCLedAnimation ----------------------------
(* LedAnimation with a command of each kind. *)
EXTENDS LedAnimation

Command(animation, hue, level) ==
  [animation |-> animation, animSpeed |-> 5, hue |-> hue, brightness |-> level]

\* The last is one that the server does not send: a command put together from
\* parts of others can set any animation.
MCSettings == {Command(0, 10, 31), Command(1, 10, 7), Command(2, 10, 31),
               Command(2, 200, 7), Command(9, 0, 0)}
==============================================================================
