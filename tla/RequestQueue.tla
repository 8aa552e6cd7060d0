---------------------------- MODULE RequestQueue -----------------------------
(***************************************************************************)
(* The request queue of struct DeviceServer: a ring of requestQueueCapacity *)
(* slots behind requestMutex, filled by the web server's worker threads    *)
(* (handler in WebServer.c, which calls DeviceServer_requestReceive) and    *)
(* drained by the one thread that executes DeviceServer_run.               *)
(*                                                                         *)
(* Each statement that touches shared memory is a step of its own, so that *)
(* what keeps the threads apart is requestMutex and not the model.  The    *)
(* rest of the run loop (accept, read, parse, sleep) does not touch the    *)
(* queue and is the single step ServeSocket.  The steps start when init()  *)
(* has returned.                                                           *)
(***************************************************************************)
EXTENDS Integers, Sequences

CONSTANTS
  Workers,      \* civetweb worker threads
  DeviceThread, \* the thread in DeviceServer_run
  Requests,     \* identities of requests: tells one HTTP request from another
  None,         \* no request, no thread
  Capacity      \* requestQueueCapacity: 8 in the code

ASSUME QueueAssumption ==
  /\ Capacity \in Nat \ {0}
  /\ DeviceThread \notin Workers
  /\ None \notin Workers \cup {DeviceThread}
  /\ None \notin Requests

VARIABLES
  requestQueue, requestQueueStart, requestQueueCount,
  requestMutex, \* the thread that holds it, or None
  wpc,          \* where each worker is in handler / requestReceive
  wRequest,     \* handler's local: the request it hands over
  wIndex,       \* requestReceive's local: the slot to write
  wResult,      \* requestReceive's local: its return value
  dpc,          \* where the device thread is in the drain loop
  dRequest,     \* its local: the request taken
  dFound        \* its local: requestFound

queueVars == <<requestQueue, requestQueueStart, requestQueueCount>>
workerVars == <<wpc, wRequest, wIndex, wResult>>
drainVars == <<dpc, dRequest, dFound>>
vars == <<queueVars, requestMutex, workerVars, drainVars>>

Slots == 0 .. Capacity - 1

\* init(): an empty queue; malloc leaves the slots without a request.
Init ==
  /\ requestQueue = [i \in Slots |-> None]
  /\ requestQueueStart = 0
  /\ requestQueueCount = 0
  /\ requestMutex = None
  /\ wpc = [w \in Workers |-> "idle"]
  /\ wRequest = [w \in Workers |-> None]
  /\ wIndex = [w \in Workers |-> 0]
  /\ wResult = [w \in Workers |-> FALSE]
  /\ dpc = "serve"
  /\ dRequest = None
  /\ dFound = FALSE

WGoto(w, from, to) == wpc[w] = from /\ wpc' = [wpc EXCEPT ![w] = to]
DGoto(from, to) == dpc = from /\ dpc' = to

-----------------------------------------------------------------------------
(* A worker thread: handler() and DeviceServer_requestReceive().           *)

\* An HTTP request for /hello reaches the handler, which fills in a request.
HttpRequest(w, r) ==
  /\ WGoto(w, "idle", "lock")
  /\ wRequest' = [wRequest EXCEPT ![w] = r]
  /\ UNCHANGED <<queueVars, requestMutex, wIndex, wResult, drainVars>>

\* A faulty variant: the mutex is taken while another thread holds it.
ReceiveLockNoWait(w) ==
  /\ WGoto(w, "lock", "check")
  /\ requestMutex' = w
  /\ UNCHANGED <<queueVars, wRequest, wIndex, wResult, drainVars>>

\* pthread_mutex_lock() in requestReceive.
ReceiveLock(w) ==
  /\ WGoto(w, "lock", "check")
  /\ requestMutex = None
  /\ requestMutex' = w
  /\ UNCHANGED <<queueVars, wRequest, wIndex, wResult, drainVars>>

\* A faulty variant: the index does not wrap.
TailIndexNoWrap == requestQueueStart + requestQueueCount

\* The slot behind the last stored request.
TailIndex == (requestQueueStart + requestQueueCount) % Capacity

\* A faulty variant: one request too many is stored.
HasRoomOffByOne == requestQueueCount <= Capacity
HasRoom == requestQueueCount < Capacity

ReceiveCheck(w) ==
  /\ \/ /\ HasRoom
        /\ WGoto(w, "check", "store")
        /\ wIndex' = [wIndex EXCEPT ![w] = TailIndex]
        /\ UNCHANGED wResult
     \/ /\ ~HasRoom
        /\ WGoto(w, "check", "unlock")
        /\ wResult' = [wResult EXCEPT ![w] = FALSE]
        /\ UNCHANGED wIndex
  /\ UNCHANGED <<queueVars, requestMutex, wRequest, drainVars>>

ReceiveStore(w) ==
  /\ WGoto(w, "store", "count")
  /\ requestQueue' = [requestQueue EXCEPT ![wIndex[w]] = wRequest[w]]
  /\ UNCHANGED <<requestQueueStart, requestQueueCount, requestMutex,
                 wRequest, wIndex, wResult, drainVars>>

ReceiveCount(w) ==
  /\ WGoto(w, "count", "unlock")
  /\ requestQueueCount' = requestQueueCount + 1
  /\ wResult' = [wResult EXCEPT ![w] = TRUE]
  /\ UNCHANGED <<requestQueue, requestQueueStart, requestMutex,
                 wRequest, wIndex, drainVars>>

\* A faulty variant: a full queue returns with the mutex held.
ReceiveUnlockIfQueued(w) ==
  /\ WGoto(w, "unlock", "respond")
  /\ requestMutex' = IF wResult[w] THEN None ELSE requestMutex
  /\ UNCHANGED <<queueVars, wRequest, wIndex, wResult, drainVars>>

ReceiveUnlock(w) ==
  /\ WGoto(w, "unlock", "respond")
  /\ requestMutex' = None
  /\ UNCHANGED <<queueVars, wRequest, wIndex, wResult, drainVars>>

\* handler() ignores the result, answers 200 and returns; its locals are gone.
Respond(w) ==
  /\ WGoto(w, "respond", "idle")
  /\ wRequest' = [wRequest EXCEPT ![w] = None]
  /\ wIndex' = [wIndex EXCEPT ![w] = 0]
  /\ wResult' = [wResult EXCEPT ![w] = FALSE]
  /\ UNCHANGED <<queueVars, requestMutex, drainVars>>

Worker(w) ==
  \/ ReceiveLock(w) \/ ReceiveCheck(w) \/ ReceiveStore(w)
  \/ ReceiveCount(w) \/ ReceiveUnlock(w) \/ Respond(w)

-----------------------------------------------------------------------------
(* The device thread: the drain loop of DeviceServer_run().                *)

\* Everything between two drains: accept, read, parse and the 10 ms sleep.
ServeSocket ==
  /\ DGoto("serve", "lock")
  /\ UNCHANGED <<queueVars, requestMutex, workerVars, dRequest, dFound>>

DrainLock ==
  /\ DGoto("lock", "check")
  /\ requestMutex = None
  /\ requestMutex' = DeviceThread
  /\ dFound' = FALSE
  /\ UNCHANGED <<queueVars, workerVars, dRequest>>

DrainCheck ==
  /\ \/ requestQueueCount > 0 /\ DGoto("check", "load") /\ dFound' = TRUE
     \/ requestQueueCount = 0 /\ DGoto("check", "unlock") /\ UNCHANGED dFound
  /\ UNCHANGED <<queueVars, requestMutex, workerVars, dRequest>>

DrainLoad ==
  /\ DGoto("load", "advance")
  /\ dRequest' = requestQueue[requestQueueStart]
  /\ UNCHANGED <<queueVars, requestMutex, workerVars, dFound>>

DrainAdvance ==
  /\ DGoto("advance", "count")
  /\ requestQueueStart' = (requestQueueStart + 1) % Capacity
  /\ UNCHANGED <<requestQueue, requestQueueCount, requestMutex, workerVars,
                 dRequest, dFound>>

DrainCount ==
  /\ DGoto("count", "unlock")
  /\ requestQueueCount' = requestQueueCount - 1
  /\ UNCHANGED <<requestQueue, requestQueueStart, requestMutex, workerVars,
                 dRequest, dFound>>

DrainUnlock ==
  /\ DGoto("unlock", IF dFound THEN "write" ELSE "serve")
  /\ requestMutex' = None
  /\ UNCHANGED <<queueVars, workerVars, dRequest, dFound>>

\* The message for dRequest is written: the drain goes on after a successful
\* write and is left after a failed one.  The local is dead either way.
DrainWrite ==
  /\ DGoto("write", "lock") \/ DGoto("write", "serve")
  /\ dRequest' = None
  /\ UNCHANGED <<queueVars, requestMutex, workerVars, dFound>>

Drain ==
  \/ ServeSocket \/ DrainLock \/ DrainCheck \/ DrainLoad \/ DrainAdvance
  \/ DrainCount \/ DrainUnlock \/ DrainWrite

Next ==
  \/ \E w \in Workers : (\E r \in Requests : HttpRequest(w, r)) \/ Worker(w)
  \/ Drain

Spec == Init /\ [][Next]_vars

(* Every thread that can run is eventually scheduled.  Nothing is assumed  *)
(* of who wins a contended mutex.  WF of ServeSocket assumes a device is   *)
(* connected: without one the thread stays in accept().                    *)
FairSpec == Spec /\ WF_vars(Drain) /\ \A w \in Workers : WF_vars(Worker(w))

-----------------------------------------------------------------------------
(* Properties.                                                             *)

WorkerInside == {"check", "store", "count", "unlock"}
DrainInside == {"check", "load", "advance", "count", "unlock"}

\* Every variable holds a value of its type; the indices stay inside the ring.
TypeOK ==
  /\ requestQueue \in [Slots -> Requests \cup {None}]
  /\ requestQueueStart \in Slots
  /\ requestQueueCount \in 0 .. Capacity
  /\ requestMutex \in Workers \cup {DeviceThread, None}
  /\ wpc \in [Workers -> WorkerInside \cup {"idle", "lock", "respond"}]
  /\ wRequest \in [Workers -> Requests \cup {None}]
  /\ wIndex \in [Workers -> Slots]
  /\ wResult \in [Workers -> BOOLEAN]
  /\ dpc \in DrainInside \cup {"serve", "lock", "write"}
  /\ dRequest \in Requests \cup {None}
  /\ dFound \in BOOLEAN

\* Mutual exclusion: a thread is between lock and unlock of requestMutex,
\* in requestReceive or in the drain loop, exactly while it is the holder.
MutexInv ==
  /\ \A w \in Workers : wpc[w] \in WorkerInside <=> requestMutex = w
  /\ dpc \in DrainInside <=> requestMutex = DeviceThread

\* Between the statement that moves requestQueueStart and the one that lowers
\* requestQueueCount the ring holds one request less than the count says.
Stored == IF dpc = "count" THEN requestQueueCount - 1 ELSE requestQueueCount

\* The slot of the i-th stored request, oldest first.
SlotOf(i) == (requestQueueStart + i - 1) % Capacity

\* The requests accepted and not yet taken, as the abstract queue sees them.
Pending == [i \in 1 .. Stored |-> requestQueue[SlotOf(i)]]

\* What a worker inside requestReceive has checked is still true when it acts
\* on it: the slot it computed is the one behind the last stored request, and
\* there is room.  What it returns is what it did.
ReceiveInv ==
  \A w \in Workers :
    /\ wpc[w] # "idle" => wRequest[w] \in Requests
    /\ wpc[w] = "idle" => wRequest[w] = None
    /\ wpc[w] \in {"store", "count"} =>
         requestQueueCount < Capacity /\ wIndex[w] = TailIndex
    /\ wpc[w] = "count" => requestQueue[wIndex[w]] = wRequest[w]

\* Likewise for the device thread: what it loaded is the oldest request, it
\* holds one exactly while it has found one, and no stored slot is empty.
DrainInv ==
  /\ dpc \in {"load", "advance", "count"} => dFound /\ requestQueueCount > 0
  /\ dpc = "advance" => dRequest = requestQueue[requestQueueStart]
  /\ dpc \in {"advance", "count", "write"} => dRequest \in Requests
  /\ dpc = "unlock" => (dFound <=> dRequest \in Requests)
  /\ dpc \in {"serve", "lock", "check", "load"} => dRequest = None
  /\ dpc = "check" => ~dFound
  /\ \A i \in 1 .. Stored : requestQueue[SlotOf(i)] \in Requests

\* The inductive invariant of the queue: MutexInv, and what each thread knows
\* about the ring at each of its steps (DeviceServer.c:163-217 and 227-249).
QueueInv == MutexInv /\ ReceiveInv /\ DrainInv

\* The ring behind the mutex is a bounded FIFO: requestReceive accepts when
\* there is room and only then, accepted requests are taken in order, none
\* lost, duplicated or overwritten.  A verdict exists once the ring or the
\* refusal has decided; the device thread holds a request from the statement
\* that removes it from the ring.
Verdict(w) ==
  CASE wpc[w] \in {"unlock", "respond"} ->
         IF wResult[w] THEN "accepted" ELSE "refused"
    [] OTHER -> "none"

Fifo == INSTANCE RequestFifo WITH
  Callers <- Workers,
  asked <- wRequest,
  verdict <- [w \in Workers |-> Verdict(w)],
  pending <- Pending,
  held <- IF dpc \in {"count", "unlock", "write"} THEN dRequest ELSE None

ImplementsFifo == Fifo!Spec

\* The comment at DeviceServer.c:161, "Send all requests from our request
\* queue": once HTTP traffic has stopped, the drain loop empties the queue for
\* good, whatever the threads were doing.  A mutex left locked breaks it.
QueueDrains ==
  (<>[] \A w \in Workers : wpc[w] = "idle") => <>[](requestQueueCount = 0)

\* The comment at WebServer.c:14, "Add a request to be processed by device
\* server": by the time the handler answers, its request has been added.
AnsweredMeansAdded == \A w \in Workers : wpc[w] = "respond" => wResult[w]
==============================================================================
