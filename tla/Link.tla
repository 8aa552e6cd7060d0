-------------------------------- MODULE Link --------------------------------
(***************************************************************************)
(* What lies between the two programs: the TCP connections the device      *)
(* makes to the server's port 3123, as both ends see them through their    *)
(* socket libraries.  External to the repository; modelled from how        *)
(* DeviceServer.c uses accept, read and write on a non-blocking socket and *)
(* how RgbLedControl.ino uses WiFiClient.                                  *)
(*                                                                         *)
(* Connections are numbered in the order they are made.  The streams carry *)
(* whole messages in order; how TCP may cut them up is not modelled here.  *)
(* Either end of a connection can end in several ways, each of which the   *)
(* other end learns of differently, or not at all.                         *)
(***************************************************************************)
EXTENDS Integers, Sequences, FiniteSets

CONSTANTS
  MaxConns,    \* bound: connections made in a behaviour
  MaxRequests, \* bound: HTTP requests in a behaviour
  Backlog,     \* connectionBacklog: 5 in the code
  Room         \* messages a connection's send buffer has room for

ASSUME LinkAssumption ==
  /\ {MaxConns, MaxRequests} \subseteq Nat
  /\ {Backlog, Room} \subseteq Nat \ {0}

Conns == 1 .. MaxConns
Requests == 1 .. MaxRequests
None == 0 \* no connection, no request

VARIABLES
  listening, \* the server process listens on its port
  opened,    \* how many connections have been made
  backlog,   \* connections made that accept() has not returned yet
  peer,      \* per connection, what has become of its two ends
  probed,    \* connections written to after the other end had ended
  toDevice,  \* per connection, messages written and not read by the device
  toServer,  \* per connection, messages written and not read by the server
  fate       \* history: how far each HTTP request has come

waiting == <<listening, opened, backlog>>
streams == <<toDevice, toServer>>
linkVars == <<waiting, peer, probed, streams, fate>>

\* "open": both ends are held.  The device's end can be "gone" without a word
\* (power, WiFi, reset) or closed in order, "fin"; then "reset": an RST has
\* arrived and the server's socket has an error to report; "dead": read() has
\* reported it; "mute": writes fail, but read() returns 0 for ever.  Once the
\* server's end has ended, the device knows, "closed", or it does not and holds
\* an "orphan".
Ends == {"gone", "fin", "reset"}
PeerStates == Ends \cup {"none", "open", "dead", "mute", "closed", "orphan"}

LinkInit ==
  /\ listening = TRUE
  /\ opened = 0
  /\ backlog = <<>>
  /\ peer = [c \in Conns |-> "none"]
  /\ probed = {}
  /\ toDevice = [c \in Conns |-> <<>>]
  /\ toServer = [c \in Conns |-> <<>>]
  /\ fate = [r \in Requests |-> "new"]

HasRoom(stream) == Len(stream) < Room
Prefix(stream, n) == SubSeq(stream, 1, n)
Rest(stream, n) == SubSeq(stream, n + 1, Len(stream))

\* The handshake of a new connection needs a place in the backlog, not accept().
Establish(c) ==
  /\ listening /\ Len(backlog) < Backlog
  /\ c \in Conns /\ c = opened + 1
  /\ opened' = c
  /\ backlog' = Append(backlog, c)
  /\ peer' = [peer EXCEPT ![c] = "open"]
  /\ UNCHANGED <<listening, probed, streams, fate>>

\* The device's end of c ends.  What the device had received it keeps; what it
\* had sent still reaches the server, all of it only if it closed in order.
End(c, how, received, sent) ==
  /\ peer[c] = "open"
  /\ received \in 0 .. Len(toDevice[c])
  /\ sent \in 0 .. Len(toServer[c])
  /\ how = "fin" => sent = Len(toServer[c])
  /\ peer' = [peer EXCEPT ![c] = how]
  /\ toDevice' = [toDevice EXCEPT ![c] = Prefix(@, received)]
  /\ toServer' = [toServer EXCEPT ![c] = Prefix(@, sent)]
  /\ UNCHANGED <<waiting, probed, fate>>

\* The device's TCP stack gives up a connection the program still holds.
Drop(c) == \E how \in Ends, i, j \in 0 .. Room : End(c, how, i, j)

\* An end without a server is given up: by the device, or because what it wrote
\* was answered with an RST.
CloseOrphan(c) ==
  /\ peer[c] = "orphan"
  /\ peer' = [peer EXCEPT ![c] = "closed"]
  /\ UNCHANGED <<waiting, probed, streams, fate>>

\* What has been written to an end that is no more is answered with an RST, or
\* times out.  Without such traffic nobody learns of it.  After a FIN only write()
\* does: read() goes on to return 0.
ResetByTraffic(c) ==
  \/ /\ c \in probed /\ peer[c] \in {"gone", "fin"}
     /\ peer' = [peer EXCEPT ![c] = IF @ = "gone" THEN "reset" ELSE "mute"]
     /\ UNCHANGED <<waiting, probed, streams, fate>>
  \/ c \in probed /\ CloseOrphan(c)

\* The server's process ends.  Its kernel closes what the process held, unless
\* the whole host fails (how = "orphan").  The device keeps what had arrived; of
\* what it sent nothing is read any more.  Requests that were not yet written
\* are lost.
EndServer(how, received) ==
  LET lost == {c \in Conns : peer[c] = "open"} IN
  /\ listening' = FALSE /\ backlog' = <<>>
  /\ peer' = [c \in Conns |->
       IF c \in lost THEN how ELSE IF peer[c] \in Ends THEN "dead" ELSE peer[c]]
  /\ toDevice' = [c \in Conns |->
       IF c \in lost /\ received < Len(toDevice[c]) THEN Prefix(toDevice[c], received)
       ELSE toDevice[c]]
  /\ toServer' = [c \in Conns |-> <<>>]
  /\ fate' = [r \in Requests |-> IF fate[r] \in {"asked", "queued"} THEN "lost" ELSE fate[r]]
  /\ UNCHANGED <<opened, probed>>
==============================================================================
