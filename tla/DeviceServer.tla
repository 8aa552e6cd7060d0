---------------------------- MODULE DeviceServer -----------------------------
(***************************************************************************)
(* DeviceServer_run() at the level of messages: accept a device, then read *)
(* what it sent, sleep, and send it every request of the queue, until a    *)
(* read fails.  The queue is RequestFifo, which RequestQueue implements.   *)
(* The process can end, and be started again with an empty queue.          *)
(***************************************************************************)
EXTENDS Link

CONSTANTS
  Callers,      \* worker threads that hand over requests
  Capacity,     \* requestQueueCapacity: 8 in the code
  NumberLimit,  \* currentMessageNumber wraps here: 2^16 in the code
  MaxFds,       \* how many sockets accept() can return before it fails
  MaxStarts     \* bound: how often the process is started

ASSUME ServerAssumption == {Capacity, NumberLimit, MaxFds, MaxStarts} \subseteq Nat \ {0}

VARIABLES
  asked, verdict, pending, held, \* the request queue, see RequestFifo
  accepted,             \* history: the requests it has accepted, in order
  starts,               \* how often the process has been started
  spc,                  \* where the device thread is in DeviceServer_run
  openSocket,           \* the connection it serves
  usedFds,              \* sockets accept() has returned: none is ever closed
  currentMessageNumber, \* its number for the next message it sends
  logged                \* history: per connection, the messages it has read

Queue == INSTANCE RequestFifo

queueVars == <<asked, verdict, pending, held, accepted>>
socketVars == <<starts, openSocket, usedFds>>
runVars == <<spc, socketVars, currentMessageNumber, logged>>
serverVars == <<queueVars, runVars>>

ServerInit ==
  /\ Queue!Init
  /\ accepted = <<>>
  /\ starts = 1
  /\ spc = "accept"
  /\ openSocket = None
  /\ usedFds = 0
  /\ currentMessageNumber = 0
  /\ logged = [c \in Conns |-> <<>>]

SGoto(from, to) == spc = from /\ spc' = to
SetFate(r, f) == fate' = [fate EXCEPT ![r] = f]

-----------------------------------------------------------------------------
(* The HTTP handler, as RequestFifo's caller: see RequestQueue.            *)

\* Requests are numbered in the order they arrive.
HttpRequest(w, r) ==
  /\ fate[r] = "new" /\ \A q \in 1 .. r - 1 : fate[q] # "new"
  /\ Queue!Call(w, r)
  /\ SetFate(r, "asked")
  /\ UNCHANGED <<waiting, peer, probed, streams, accepted, runVars>>

HttpVerdict(w) ==
  /\ \/ /\ Queue!Accept(w)
        /\ accepted' = Append(accepted, asked[w])
        /\ SetFate(asked[w], "queued")
     \/ /\ Queue!Refuse(w)
        /\ SetFate(asked[w], "refused")
        /\ UNCHANGED accepted
  /\ UNCHANGED <<waiting, peer, probed, streams, runVars>>

HttpRespond(w) == Queue!Return(w) /\ UNCHANGED <<linkVars, accepted, runVars>>

\* The worker threads live as long as the process.
Http == listening /\ \E w \in Callers :
  (\E r \in Requests : HttpRequest(w, r)) \/ HttpVerdict(w) \/ HttpRespond(w)

-----------------------------------------------------------------------------
(* The end of the process, and its next start.                             *)

\* Queue and sockets are the process's own.
ProcessEnds(how) ==
  /\ spc' = "exited"
  /\ \E received \in 0 .. Room : EndServer(how, received)
  /\ asked' = [w \in Callers |-> None] /\ verdict' = [w \in Callers |-> "none"]
  /\ pending' = <<>> /\ held' = None
  /\ openSocket' = None
  /\ UNCHANGED <<accepted, starts, usedFds, currentMessageNumber, logged>>

\* It is killed or crashes, or its host fails.  With no start left to follow,
\* nothing is to be seen of that.
Crash ==
  /\ spc # "exited" /\ starts < MaxStarts
  /\ ProcessEnds("closed") \/ ProcessEnds("orphan")

\* main() again: init() and initListenSocket().
Restart ==
  /\ SGoto("exited", "accept") /\ starts < MaxStarts
  /\ starts' = starts + 1
  /\ listening' = TRUE
  /\ usedFds' = 0 /\ currentMessageNumber' = 0
  /\ UNCHANGED <<opened, backlog, peer, probed, streams, fate, queueVars,
                 openSocket, logged>>

-----------------------------------------------------------------------------
(* The device thread.                                                      *)

\* waitForConnection(): blocks until there is a connection.  The socket served
\* before is overwritten, not closed.
Accept ==
  /\ SGoto("accept", "read")
  /\ backlog # <<>> /\ usedFds < MaxFds
  /\ usedFds' = usedFds + 1
  /\ openSocket' = Head(backlog)
  /\ backlog' = Tail(backlog)
  /\ UNCHANGED <<listening, opened, peer, probed, streams, fate, queueVars, starts,
                 currentMessageNumber, logged>>

\* One day accept() finds no free descriptor, and error() ends the process.
AcceptError == spc = "accept" /\ usedFds = MaxFds /\ ProcessEnds("closed")

\* read() returns k messages that have arrived; parsing them only logs them.
Read(k) ==
  /\ logged' = [logged EXCEPT ![openSocket] = @ \o Prefix(toServer[openSocket], k)]
  /\ toServer' = [toServer EXCEPT ![openSocket] = Rest(@, k)]
  /\ UNCHANGED <<waiting, peer, probed, toDevice, fate, queueVars, socketVars,
                 currentMessageNumber>>

ReadMessages ==
  SGoto("read", "drain") /\ \E k \in 1 .. Len(toServer[openSocket]) : Read(k)

\* With a read that ends right behind an identity, the length byte is 0 and the
\* same place is parsed again, without end.
ReadCut ==
  SGoto("read", "spin") /\ \E k \in 1 .. Len(toServer[openSocket]) : Read(k - 1)

\* A faulty variant: the connection is given up when nothing has arrived yet.
AfterNothingLeave == "accept"
AfterNothing == "drain"

\* read() fails with EAGAIN (nothing has arrived yet) or returns 0 (the stream
\* has ended): either way the connection is kept.
ReadNothing ==
  /\ SGoto("read", AfterNothing)
  /\ peer[openSocket] # "reset"
  /\ UNCHANGED <<linkVars, queueVars, socketVars, currentMessageNumber, logged>>

\* A faulty variant: an error is ignored like EAGAIN.
AfterErrorIgnored == "drain"
AfterError == "accept"

\* read() reports the reset, once; the server goes back to accept().
ReadError ==
  /\ SGoto("read", AfterError)
  /\ peer[openSocket] = "reset" /\ toServer[openSocket] = <<>>
  /\ peer' = [peer EXCEPT ![openSocket] = "dead"]
  /\ UNCHANGED <<waiting, probed, streams, fate, queueVars, socketVars,
                 currentMessageNumber, logged>>

\* The drain loop takes the oldest request, if there is one.
DrainTake ==
  /\ SGoto("drain", "write")
  /\ Queue!Take
  /\ UNCHANGED <<linkVars, accepted, socketVars, currentMessageNumber, logged>>

DrainEmpty ==
  /\ SGoto("drain", "read")
  /\ pending = <<>>
  /\ UNCHANGED <<linkVars, queueVars, socketVars, currentMessageNumber, logged>>

\* A faulty variant: the number does not wrap.
NextNumberNoWrap == currentMessageNumber + 1
NextNumber == (currentMessageNumber + 1) % NumberLimit

\* What every write of a SetLighting message does, successful or not.
Write(queue) ==
  /\ held # None /\ held' = None
  /\ pending' = queue
  /\ currentMessageNumber' = NextNumber
  /\ UNCHANGED <<waiting, toServer, asked, verdict, accepted, socketVars, logged>>

\* A faulty variant: the request stays in front of the queue.
QueueAfterWriteKept == <<held>> \o pending
\* The request left the queue before its write.
QueueAfterWrite == pending

\* write() succeeds: on a live connection the message is on its way, on one
\* whose other end is no more it goes nowhere.
WriteMessage ==
  /\ SGoto("write", "drain")
  /\ Write(QueueAfterWrite)
  /\ \/ /\ peer[openSocket] = "open" /\ HasRoom(toDevice[openSocket])
        /\ toDevice' = [toDevice EXCEPT ![openSocket] =
             Append(@, [number |-> currentMessageNumber, request |-> held])]
        /\ UNCHANGED probed
     \/ /\ peer[openSocket] \in {"gone", "fin"}
        /\ probed' = probed \cup {openSocket}
        /\ UNCHANGED toDevice
  /\ SetFate(held, "sent")
  /\ UNCHANGED peer

\* A faulty variant: the request goes back to the end of the queue.
QueueRequeued == Append(pending, held)
\* What a failed write leaves of the queue: the request is gone from it.
QueueAfterError == pending

\* write() fails: EAGAIN with the send buffer full, ECONNRESET when it is the
\* first to report a reset, which read() then never does; EPIPE after that.  The
\* drain is left for the next read; the request is lost, its message number used.
WriteError ==
  /\ SGoto("write", "read")
  /\ Write(QueueAfterError)
  /\ \/ /\ peer[openSocket] = "open" => ~HasRoom(toDevice[openSocket])
        /\ peer[openSocket] \in {"gone", "fin"} => openSocket \in probed
        /\ peer[openSocket] \in {"open", "gone", "fin", "dead", "mute"}
        /\ UNCHANGED peer
     \/ /\ peer[openSocket] = "reset"
        /\ peer' = [peer EXCEPT ![openSocket] = "mute"]
  /\ SetFate(held, "failed")
  /\ UNCHANGED <<probed, toDevice>>

Run ==
  \/ Accept \/ AcceptError \/ ReadMessages \/ ReadCut \/ ReadNothing \/ ReadError
  \/ DrainTake \/ DrainEmpty \/ WriteMessage \/ WriteError
==============================================================================
