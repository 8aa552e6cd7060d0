---------------------------- MODULE MCServerParser ----------------------------
(* ServerParser on a short stream. *)
EXTENDS ServerParser

\* One connection: the introduction, then two acknowledgements.  Their values
\* end in, and are, the first bytes of the protocol identity.
MCMessages ==
  <<[type |-> MsgType.Connected, number |-> 0, value |-> 8995],
    [type |-> MsgType.Acknowledge, number |-> 1, value |-> 25856],
    [type |-> MsgType.Acknowledge, number |-> 2, value |-> 59493]>>
==============================================================================
