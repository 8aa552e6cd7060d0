----------------------------- MODULE RequestFifo -----------------------------
(***************************************************************************)
(* What DeviceServer's request queue promises to its two kinds of user.    *)
(* Callers (the web server's worker threads) hand over a request and are   *)
(* told whether it was accepted; the device thread takes the accepted      *)
(* requests one at a time.  A request is accepted exactly when there is    *)
(* room, nothing accepted is lost, duplicated or changed, and requests are *)
(* taken in the order of acceptance.  No array, no index, no mutex.        *)
(***************************************************************************)
EXTENDS Naturals, Sequences

CONSTANTS
  Callers,   \* threads that run the HTTP handler
  Requests,  \* the requests that can be handed over
  None,      \* no request
  Capacity   \* how many accepted requests can wait

VARIABLES
  asked,     \* the request each caller is handing over, or None
  verdict,   \* what each caller has been told about it
  pending,   \* the accepted requests nobody has taken yet, oldest first
  held       \* the request the device thread works on, or None

fifoVars == <<asked, verdict, pending, held>>

Init ==
  /\ asked = [w \in Callers |-> None]
  /\ verdict = [w \in Callers |-> "none"]
  /\ pending = <<>>
  /\ held = None

\* A caller starts handing over request r.
Call(w, r) ==
  /\ asked[w] = None
  /\ asked' = [asked EXCEPT ![w] = r]
  /\ UNCHANGED <<verdict, pending, held>>

Accept(w) ==
  /\ asked[w] # None /\ verdict[w] = "none"
  /\ Len(pending) < Capacity
  /\ pending' = Append(pending, asked[w])
  /\ verdict' = [verdict EXCEPT ![w] = "accepted"]
  /\ UNCHANGED <<asked, held>>

Refuse(w) ==
  /\ asked[w] # None /\ verdict[w] = "none"
  /\ Len(pending) = Capacity
  /\ verdict' = [verdict EXCEPT ![w] = "refused"]
  /\ UNCHANGED <<asked, pending, held>>

\* The caller has its verdict and is free for the next request.
Return(w) ==
  /\ verdict[w] # "none"
  /\ asked' = [asked EXCEPT ![w] = None]
  /\ verdict' = [verdict EXCEPT ![w] = "none"]
  /\ UNCHANGED <<pending, held>>

Take ==
  /\ held = None /\ pending # <<>>
  /\ held' = Head(pending)
  /\ pending' = Tail(pending)
  /\ UNCHANGED <<asked, verdict>>

\* The device thread is done with the request it held.
Release ==
  /\ held # None
  /\ held' = None
  /\ UNCHANGED <<asked, verdict, pending>>

Next ==
  \/ \E w \in Callers :
       \/ \E r \in Requests : Call(w, r)
       \/ Accept(w) \/ Refuse(w) \/ Return(w)
  \/ Take \/ Release

Spec == Init /\ [][Next]_fifoVars
==============================================================================
