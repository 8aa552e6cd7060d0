----------------------------- MODULE HomeControl -----------------------------
(***************************************************************************)
(* The whole system: HTTP callers, the server's device thread, the device  *)
(* and the connections between them.                                       *)
(***************************************************************************)
EXTENDS DeviceServer, RgbLedControl

vars == <<linkVars, serverVars, deviceVars>>

Init == LinkInit /\ ServerInit /\ DeviceInit

Traffic == \E c \in Conns : ResetByTraffic(c)
Environment == Traffic \/ \E c \in Conns : Drop(c) \/ CloseOrphan(c)

Next ==
  \/ (Http \/ Run \/ Crash \/ Restart) /\ UNCHANGED deviceVars
  \/ Device /\ UNCHANGED serverVars
  \/ Environment /\ UNCHANGED <<serverVars, deviceVars>>

Spec == Init /\ [][Next]_vars

(* Each program goes on when it can, and what has been written to a live    *)
(* connection arrives: a read that could return it does so in the end; what *)
(* has been written to a dead one is answered.  Nothing is assumed of      *)
(* callers, faults, reconnection, reboots or restarts.                     *)
FairSpec ==
  /\ Spec
  /\ WF_vars(Run /\ UNCHANGED deviceVars)
  /\ SF_vars(ReadMessages /\ UNCHANGED deviceVars)
  /\ WF_vars(Loop /\ UNCHANGED serverVars)
  /\ SF_vars((ReceiveOne \/ ReceiveMany) /\ UNCHANGED serverVars)
  /\ WF_vars(Traffic /\ UNCHANGED <<serverVars, deviceVars>>)

-----------------------------------------------------------------------------
(* Properties.                                                             *)

Fates == {"new", "asked", "refused", "queued", "failed", "sent", "lost",
          "handled", "acknowledged"}
FromServer == [number : 0 .. NumberLimit - 1, request : Requests]
FromDevice ==
  [type : {"Connected"}, number : 0 .. DeviceNumberLimit - 1] \cup
  [type : {"Acknowledge"}, number : 0 .. DeviceNumberLimit - 1,
   responseTo : 0 .. NumberLimit - 1, request : Requests, conn : Conns]

\* Every variable holds a value of its type; no number is out of its range and
\* no stream longer than its buffer.
TypeOK ==
  /\ listening \in BOOLEAN
  /\ opened \in 0 .. MaxConns
  /\ backlog \in Seq(Conns) /\ Len(backlog) <= Backlog
  /\ peer \in [Conns -> PeerStates]
  /\ probed \subseteq Conns
  /\ toDevice \in [Conns -> Seq(FromServer)]
  /\ toServer \in [Conns -> Seq(FromDevice)]
  /\ \A c \in Conns : Len(toDevice[c]) <= Room /\ Len(toServer[c]) <= Room
  /\ logged \in [Conns -> Seq(FromDevice)]
  /\ fate \in [Requests -> Fates]
  /\ asked \in [Callers -> Requests \cup {None}]
  /\ verdict \in [Callers -> {"none", "accepted", "refused"}]
  /\ pending \in Seq(Requests) /\ Len(pending) <= Capacity
  /\ held \in Requests \cup {None}
  /\ accepted \in Seq(Requests)
  /\ starts \in 1 .. MaxStarts
  /\ spc \in {"accept", "read", "drain", "write", "spin", "exited"}
  /\ openSocket \in Conns \cup {None}
  /\ usedFds \in 0 .. MaxFds
  /\ currentMessageNumber \in 0 .. NumberLimit - 1
  /\ dpc \in {"connect", "show", "receive", "greet", "acknowledge", "spin"}
  /\ client \in Conns \cup {None}
  /\ sendConnected \in BOOLEAN /\ sendAcknowledge \in BOOLEAN
  /\ sendAcknowledgeNumber \in
       [number : 0 .. NumberLimit - 1, request : Requests \cup {None},
        conn : Conns \cup {None}]
  /\ deviceMessageNumber \in 0 .. DeviceNumberLimit - 1
  /\ setLighting \in Requests \cup {None}
  /\ shown \in Requests \cup {None}

\* The queue accepted q before r.
Before(q, r) ==
  \E i, j \in 1 .. Len(accepted) : i < j /\ accepted[i] = q /\ accepted[j] = r

RequestsOf(stream) == [i \in 1 .. Len(stream) |-> stream[i].request]

\* What the device is still to read: in the connection it holds, in the server's
\* hand, in the queue.
Arriving == RequestsOf(IF client = None THEN <<>> ELSE toDevice[client])
Downstream == Arriving \o (IF held = None THEN <<>> ELSE <<held>>) \o pending

Handled(r) == fate[r] \in {"handled", "acknowledged"}

\* From the queue to the device's read, and from one connection to the next,
\* requests stay in the order of acceptance, each at most once, and none that
\* the device has already handled comes after one it is still to read.
StreamOrder ==
  /\ \A i, j \in 1 .. Len(Downstream) : i < j => Before(Downstream[i], Downstream[j])
  /\ \A i \in 1 .. Len(Downstream), r \in Requests :
       Handled(r) => Before(r, Downstream[i])

\* The place of the last request the device has acted on.
Applied ==
  LET places == {i \in 1 .. Len(accepted) : Handled(accepted[i])} IN
  CHOOSE i \in places \cup {0} : \A j \in places : j <= i

Service == INSTANCE LightingService
  WITH order <- accepted, applied <- Applied, lighting <- setLighting

\* Through lost connections, failed writes, reboots and restarts of the server,
\* the LEDs follow the accepted requests in their order, with gaps but without
\* ever going back: the system implements the service.
ImplementsLighting == Service!Spec

\* Everything the server has read or will read on c.
Stream(c) == logged[c] \o toServer[c]
IsAcknowledge(m) == m.type = "Acknowledge"

\* One flag remembers what to acknowledge, over all connections and restarts of
\* the server.  At most one acknowledgement of a request ever comes, only of one
\* the device has handled; only the first on a connection can mean a command of
\* an earlier one, whose number the server may have used again.
Acknowledgements ==
  /\ \A c \in Conns : \A i \in 1 .. Len(Stream(c)) :
       IsAcknowledge(Stream(c)[i]) =>
         /\ fate[Stream(c)[i].request] = "acknowledged"
         /\ i > 2 => Stream(c)[i].conn = c
         /\ \A d \in Conns : \A j \in 1 .. Len(Stream(d)) :
              /\ IsAcknowledge(Stream(d)[j])
              /\ Stream(d)[j].request = Stream(c)[i].request
              => d = c /\ j = i
  /\ sendAcknowledge => fate[sendAcknowledgeNumber.request] = "handled"

\* On every connection the device introduces itself first and once, and its
\* messages carry consecutive numbers, whatever was left over from the
\* connection before.
IntroducedFirst ==
  \A c \in Conns : \A i \in 1 .. Len(Stream(c)) :
    /\ IsAcknowledge(Stream(c)[i]) <=> i > 1
    /\ i > 1 => Stream(c)[i].number
                  = (Stream(c)[i - 1].number + 1) % DeviceNumberLimit

\* Where a device or a server keeps a connection, there is one; only the one the
\* sketch holds can be open at its end; those not made yet are empty.
ConnectionInv ==
  /\ \A c \in Conns :
       /\ peer[c] \in {"open", "orphan"} => client = c /\ dpc # "connect"
       /\ c > opened => /\ peer[c] = "none" /\ toDevice[c] = <<>>
                        /\ toServer[c] = <<>> /\ logged[c] = <<>>
  /\ client <= opened
  /\ dpc # "connect" => client # None
  /\ spc \in {"read", "drain", "write"} => openSocket # None
  /\ sendAcknowledge => /\ sendAcknowledgeNumber.request # None
                        /\ sendAcknowledgeNumber.conn # None

Accepted == {accepted[i] : i \in 1 .. Len(accepted)}

\* A request's fate says where the request is; no two places hold the same.
FateInv ==
  /\ \A w \in Callers : asked[w] # None =>
       /\ fate[asked[w]] # "new"
       /\ verdict[w] = "none" => fate[asked[w]] = "asked"
       /\ \A v \in Callers : asked[v] = asked[w] => v = w
  /\ \A i \in 1 .. Len(pending) : fate[pending[i]] = "queued"
  /\ held # None => fate[held] = "queued"
  /\ \A i \in 1 .. Len(Arriving) : fate[Arriving[i]] = "sent"
  /\ sendAcknowledge => fate[sendAcknowledgeNumber.request] = "handled"
  /\ \A r \in Accepted : fate[r] \notin {"new", "asked", "refused"}
  /\ \A r \in Requests \ Accepted : fate[r] \in {"new", "asked", "refused", "lost"}
  /\ \A i, j \in 1 .. Len(accepted) : accepted[i] = accepted[j] => i = j

\* StreamOrder, place by place: on the wire, in the server's hand, in the queue.
OrderInv ==
  /\ \A i, j \in 1 .. Len(Arriving) : i < j => Before(Arriving[i], Arriving[j])
  /\ \A i, j \in 1 .. Len(pending) : i < j => Before(pending[i], pending[j])
  /\ \A i \in 1 .. Len(Arriving), j \in 1 .. Len(pending) :
       Before(Arriving[i], pending[j])
  /\ held # None => /\ \A i \in 1 .. Len(Arriving) : Before(Arriving[i], held)
                    /\ \A j \in 1 .. Len(pending) : Before(held, pending[j])
  /\ \A r \in Requests : Handled(r) =>
       /\ \A i \in 1 .. Len(Arriving) : Before(r, Arriving[i])
       /\ held # None => Before(r, held)
       /\ \A j \in 1 .. Len(pending) : Before(r, pending[j])

\* What the sketch's flags say about the connection it holds, as long as it lives.
GreetingInv ==
  client # None /\ peer[client] = "open" =>
    /\ sendConnected <=> Stream(client) = <<>>
    /\ dpc = "acknowledge" => ~sendConnected
    /\ Stream(client) # <<>> =>
         deviceMessageNumber =
           (Stream(client)[Len(Stream(client))].number + 1) % DeviceNumberLimit
    /\ sendAcknowledge /\ sendAcknowledgeNumber.conn # client => Len(Stream(client)) <= 1

\* The inductive invariant of the system.
SystemInv ==
  /\ ConnectionInv /\ FateInv /\ OrderInv
  /\ Acknowledgements /\ IntroducedFirst /\ GreetingInv

\* The comment at DeviceServer.c:161, "Send all requests from our request
\* queue": no request taken from the queue fails to be sent.
TakenIsSent == \A r \in Requests : fate[r] # "failed"

\* While the connection that was accepted last stays open and neither program is
\* caught in its parse, the server keeps to it, and in the end no request, command
\* or acknowledgement is left under way and the LEDs show the last command.  (Not
\* every command is acknowledged: a later one may overwrite the flag's number.)
Lasting == openSocket = client /\ Connected /\ dpc # "spin" /\ spc # "spin"

Settled ==
  /\ Lasting /\ spc \in {"read", "drain", "write"}
  /\ pending = <<>> /\ held = None
  /\ toDevice[client] = <<>> /\ toServer[client] = <<>>
  /\ ~sendConnected /\ ~sendAcknowledge
  /\ shown = setLighting

Settles == <>[]Lasting => <>[]Settled

\* The states from which the server does not come back to accept(), or the device
\* to connect(), by itself.  The server: its process has ended or is caught in its
\* parse; the device closed the connection it serves, and read() returns 0 for
\* ever (DeviceServer.c:108); a write was the first to report a reset, and read()
\* returns 0 as well; the device vanished, and nothing has been written to it.  The
\* device: its server's host is no more, and nothing has been written to it.
Deaf ==
  \/ spc \in {"exited", "spin"}
  \/ /\ spc \in {"read", "drain", "write"}
     /\ \/ peer[openSocket] \in {"fin", "mute"}
        \/ peer[openSocket] = "gone" /\ openSocket \notin probed
  \/ client # None /\ peer[client] = "orphan" /\ client \notin probed

\* A device that keeps its connection is served in the end, or one of the two has
\* gone deaf.  What is left to the code: from a reset that read() can report, and
\* from a vanished device it has written to, the server gets back to accept(), and
\* there it finds the connection the device holds, behind any number of reset ones.
Reunion ==
  <>[](dpc # "connect" /\ Connected) => <>[](openSocket = client \/ Deaf)
==============================================================================
