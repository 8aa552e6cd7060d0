--------------------------- MODULE LightingService ---------------------------
(***************************************************************************)
(* What the whole system promises to those who send it requests and look   *)
(* at the lamp.  Requests are put in an order; any of them may be lost,    *)
(* with a connection, a queue or a program; but each is acted on at most   *)
(* once, never after a later one, and the lamp shows what was acted on     *)
(* last, or earlier on its way there, or nothing after a restart.          *)
(***************************************************************************)
EXTENDS Naturals, Sequences

CONSTANTS Requests, None

VARIABLES
  order,    \* the requests accepted, in the order of acceptance
  applied,  \* the place in that order of the last one acted on, or 0
  lighting, \* the request the lamp is to show, or None
  shown     \* the request it shows, or None

serviceVars == <<order, applied, lighting, shown>>

Init == order = <<>> /\ applied = 0 /\ lighting = None /\ shown = None

Accept(r) ==
  /\ \A i \in 1 .. Len(order) : order[i] # r
  /\ order' = Append(order, r)
  /\ UNCHANGED <<applied, lighting, shown>>

\* The requests between the last one applied and this one are lost.
Apply(i) ==
  /\ i \in applied + 1 .. Len(order)
  /\ applied' = i
  /\ lighting' = order[i]
  /\ UNCHANGED <<order, shown>>

Show == shown' = lighting /\ UNCHANGED <<order, applied, lighting>>

\* The lamp restarts: it forgets, and may go dark.
Forget ==
  /\ lighting' = None
  /\ shown' \in {shown, None}
  /\ UNCHANGED <<order, applied>>

Next ==
  \/ \E r \in Requests : Accept(r)
  \/ \E i \in 1 .. Len(order) : Apply(i)
  \/ Show \/ Forget

Spec == Init /\ [][Next]_serviceVars
==============================================================================
