------------------------------- MODULE Startup -------------------------------
(***************************************************************************)
(* main(): the web server is started on a struct DeviceServer that nobody  *)
(* has initialised yet, an uninitialised local of main, and only then does *)
(* DeviceServer_run() initialise it, without a lock.  Until init() is done *)
(* a handler works on whatever the stack holds.  RequestQueue and          *)
(* HomeControl begin where this module's init() has ended; this one shows  *)
(* when they may.                                                          *)
(***************************************************************************)
EXTENDS Integers, Sequences, FiniteSets

CONSTANTS
  Workers,    \* civetweb worker threads
  Requests,   \* identities of HTTP requests
  None,       \* no request, no thread
  Capacity,   \* what init() makes requestQueueCapacity: 8 in the code
  StackWords  \* values a size_t of main's uninitialised stack may have

ASSUME StartupAssumption ==
  /\ Capacity \in Nat \ {0} /\ StackWords \subseteq Nat
  /\ None \notin Workers \cup Requests
  /\ Workers \cap {"main", "locked", "invalid"} = {}
  /\ None \notin {"main", "locked", "invalid"}

Main == "main"

VARIABLES
  mpc,       \* where the main thread is: "exited" in error(), "crashed" when
             \* any thread has brought the process down
  webServer, \* main's struct WebServer
  server,    \* main's struct DeviceServer, but for its mutex
  mutex,     \* requestMutex: the thread that holds it, None, "locked" (its bytes
             \* look so) or "invalid" (they make lock and unlock return an error)
  slots,     \* what malloc() returned
  handlers,  \* "/hello" has its handler
  wpc, wRequest, wIndex, \* each worker in handler() and requestReceive()
  pristine,  \* history: the stack was zero, a valid unlocked mutex included
  unset,     \* the fields init() has still to set
  raced,     \* history: a handler used the struct when it could not be used
  added, taken \* history: requests accepted, and taken from the queue, in order

webVars == <<webServer, handlers>>
workerVars == <<wpc, wRequest, wIndex>>
history == <<pristine, added, taken>>
vars == <<mpc, webVars, server, mutex, slots, workerVars, unset, raced, history>>

\* The two structs.
WebServer == [context : {"unset", "NULL", "running"}, deviceServer : {"unset", "server"}]
DeviceServer ==
  [requestQueue : {"wild", "NULL", "array"}, requestQueueStart : Nat,
   requestQueueCount : Nat, requestQueueCapacity : Nat]

\* What init() sets them to, one after the other.
Initialised ==
  [requestQueueCapacity |-> Capacity, requestQueue |-> "array",
   requestQueueStart |-> 0, requestQueueCount |-> 0]
Fields == DOMAIN Initialised
Zeroed == [f \in Fields |-> IF f = "requestQueue" THEN "NULL" ELSE 0]

Init ==
  /\ mpc = "web"
  /\ webServer = [context |-> "unset", deviceServer |-> "unset"]
  /\ handlers = FALSE
  /\ \/ server = Zeroed /\ mutex = None
     \/ /\ server \in [requestQueue : {"wild", "NULL"}, requestQueueStart : StackWords,
                       requestQueueCount : StackWords, requestQueueCapacity : StackWords]
        /\ mutex \in {None, "locked", "invalid"}
  /\ pristine = (server = Zeroed /\ mutex = None)
  /\ slots = [i \in 0 .. Capacity - 1 |-> None]
  /\ wpc = [w \in Workers |-> "idle"]
  /\ wRequest = [w \in Workers |-> None]
  /\ wIndex = [w \in Workers |-> 0]
  /\ unset = Fields
  /\ raced = FALSE
  /\ added = <<>> /\ taken = <<>>

Running == mpc \notin {"exited", "crashed"}
Goto(from, to) == mpc = from /\ mpc' = to
WGoto(w, from, to) == wpc[w] = from /\ wpc' = [wpc EXCEPT ![w] = to]

Lock(t) ==
  /\ mutex \in {None, "invalid"}
  /\ mutex' = IF mutex = None THEN t ELSE mutex
Unlock == mutex' = IF mutex = "invalid" THEN mutex ELSE None

Inside == {"check", "store", "count", "unlock"}

-----------------------------------------------------------------------------
(* The main thread.                                                        *)

\* NULL when its port is in use or its first thread cannot be started
\* (civetweb.c:19278, 19488); the lack of other threads is passed over.
mg_start == {"running", "NULL"}

StartWeb ==
  /\ Goto("web", "handler")
  /\ \E context \in mg_start :
       webServer' = [context |-> context, deviceServer |-> "server"]
  /\ UNCHANGED <<handlers, server, mutex, slots, workerVars, unset, raced, history>>

\* Without a context there is nothing to register with, and no memory may be left
\* to do it; neither is reported.
mg_set_request_handler == handlers' \in {FALSE, webServer.context = "running"}

SetHandler ==
  /\ Goto("handler", "init")
  /\ mg_set_request_handler
  /\ UNCHANGED <<webServer, server, mutex, slots, workerVars, unset, raced, history>>

\* A faulty variant: what the stack held stays the count.
ValueButCount(f) == IF f = "requestQueueCount" THEN server[f] ELSE Initialised[f]
Value(f) == Initialised[f]

\* init() sets its fields.  Other threads may see the writes in any order.
InitField ==
  /\ mpc = "init"
  /\ \E f \in unset :
       /\ server' = [server EXCEPT ![f] = Value(f)]
       /\ unset' = unset \ {f}
  /\ raced' = (raced \/ \E w \in Workers : wpc[w] \in Inside)
  /\ UNCHANGED <<mpc, webVars, mutex, slots, workerVars, history>>

\* pthread_mutex_init(), whatever the mutex was before.
InitMutex ==
  /\ Goto("init", "listen")
  /\ unset = {}
  /\ mutex' = None
  /\ raced' = (raced \/ \E w \in Workers : wpc[w] \in Inside)
  /\ UNCHANGED <<webVars, server, slots, workerVars, unset, history>>

\* socket() and bind() may fail: error() ends the process, workers and all.
InitListenSocket ==
  /\ Goto("listen", "accept") \/ Goto("listen", "exited")
  /\ UNCHANGED <<webVars, server, mutex, slots, workerVars, unset, raced, history>>

\* A device connects; the run loop comes to its drain.
Accept ==
  /\ Goto("accept", "drain")
  /\ UNCHANGED <<webVars, server, mutex, slots, workerVars, unset, raced, history>>

DrainLock ==
  /\ Goto("drain", "take")
  /\ Lock(Main)
  /\ UNCHANGED <<webVars, server, slots, workerVars, unset, raced, history>>

\* A faulty variant: an empty queue is taken from.
HasRequestEmpty == server.requestQueueCount >= 0
HasRequest == server.requestQueueCount > 0

\* The critical section of the drain loop, and what follows before the next.
DrainTake ==
  /\ Goto("take", "drain")
  /\ Unlock
  /\ IF HasRequest
     THEN /\ taken' = Append(taken, slots[server.requestQueueStart])
          /\ server' = [server EXCEPT
               !.requestQueueStart = (@ + 1) % server.requestQueueCapacity,
               !.requestQueueCount = @ - 1]
     ELSE UNCHANGED <<taken, server>>
  /\ UNCHANGED <<webVars, slots, workerVars, unset, raced, pristine, added>>

MainThread ==
  \/ StartWeb \/ SetHandler \/ InitField \/ InitMutex \/ InitListenSocket
  \/ Accept \/ DrainLock \/ DrainTake

-----------------------------------------------------------------------------
(* A worker thread.  civetweb runs them from mg_start() on.                *)

New(r) == \A w \in Workers : wRequest[w] # r

\* The handler is called for "/hello" once get_request_handler() finds it
\* (civetweb.c:14155, 14249); before it is registered, civetweb itself answers, with
\* 404, and no thread of it touches the struct.
mg_request_handler == webServer.context = "running" /\ handlers

HttpRequest(w, r) ==
  /\ mg_request_handler
  /\ New(r) /\ r \notin {added[i] : i \in 1 .. Len(added)}
  /\ WGoto(w, "idle", "lock")
  /\ wRequest' = [wRequest EXCEPT ![w] = r]
  /\ UNCHANGED <<mpc, webVars, server, mutex, slots, wIndex, unset, raced, history>>

\* The struct can be used once init() has ended; one that is all zero, also
\* before it has begun.
Usable == mpc # "init" \/ (pristine /\ unset = Fields)

\* A faulty variant: the handler does not lock.
ReceiveUnlocked(w) ==
  /\ WGoto(w, "lock", "check")
  /\ raced' = (raced \/ ~Usable)
  /\ UNCHANGED <<mpc, webVars, server, mutex, slots, wRequest, wIndex, unset, history>>

\* A mutex that only looks locked is never unlocked for this thread.
ReceiveLock(w) ==
  /\ \/ WGoto(w, "lock", "check") /\ Lock(w)
     \/ WGoto(w, "lock", "stuck") /\ mutex = "locked" /\ UNCHANGED mutex
  /\ raced' = (raced \/ ~Usable)
  /\ UNCHANGED <<mpc, webVars, server, slots, wRequest, wIndex, unset, history>>

HasRoom == server.requestQueueCount < server.requestQueueCapacity

ReceiveCheck(w) ==
  /\ \/ /\ HasRoom /\ WGoto(w, "check", "store")
        /\ wIndex' = [wIndex EXCEPT ![w] =
             (server.requestQueueStart + server.requestQueueCount)
               % server.requestQueueCapacity]
     \/ ~HasRoom /\ WGoto(w, "check", "unlock") /\ UNCHANGED wIndex
  /\ UNCHANGED <<mpc, webVars, server, mutex, slots, wRequest, unset, raced, history>>

\* A store through NULL, or through a wild pointer or index, brings the process
\* down or, where that memory can be written, goes somewhere else.
ReceiveStore(w) ==
  /\ \/ /\ server.requestQueue = "array" /\ wIndex[w] \in DOMAIN slots
        /\ slots' = [slots EXCEPT ![wIndex[w]] = wRequest[w]]
        /\ UNCHANGED mpc
     \/ /\ server.requestQueue = "wild" \/ wIndex[w] \notin DOMAIN slots
        /\ UNCHANGED <<mpc, slots>>
     \/ /\ server.requestQueue # "array" \/ wIndex[w] \notin DOMAIN slots
        /\ mpc' = "crashed"
        /\ UNCHANGED slots
  /\ WGoto(w, "store", "count")
  /\ UNCHANGED <<webVars, server, mutex, wRequest, wIndex, unset, raced, history>>

ReceiveCount(w) ==
  /\ WGoto(w, "count", "unlock")
  /\ server' = [server EXCEPT !.requestQueueCount = @ + 1]
  /\ added' = Append(added, wRequest[w])
  /\ UNCHANGED <<mpc, webVars, mutex, slots, wRequest, wIndex, unset, raced,
                 pristine, taken>>

ReceiveUnlock(w) ==
  /\ WGoto(w, "unlock", "idle")
  /\ Unlock
  /\ wRequest' = [wRequest EXCEPT ![w] = None]
  /\ UNCHANGED <<mpc, webVars, server, slots, wIndex, unset, raced, history>>

Worker(w) ==
  \/ \E r \in Requests : HttpRequest(w, r)
  \/ ReceiveLock(w) \/ ReceiveCheck(w) \/ ReceiveStore(w)
  \/ ReceiveCount(w) \/ ReceiveUnlock(w)

Next == Running /\ (MainThread \/ \E w \in Workers : Worker(w))

Spec == Init /\ [][Next]_vars

-----------------------------------------------------------------------------
(* Properties.                                                             *)

\* Every variable holds a value of its type; no count falls below zero.
TypeOK ==
  /\ mpc \in {"web", "handler", "init", "listen", "accept", "drain", "take",
              "exited", "crashed"}
  /\ webServer \in WebServer
  /\ handlers \in BOOLEAN /\ pristine \in BOOLEAN /\ raced \in BOOLEAN
  /\ server \in DeviceServer
  /\ slots \in [0 .. Capacity - 1 -> Requests \cup {None}]
  /\ mutex \in Workers \cup {Main, None, "locked", "invalid"}
  /\ wpc \in [Workers -> Inside \cup {"idle", "lock", "stuck"}]
  /\ wRequest \in [Workers -> Requests \cup {None}]
  /\ wIndex \in [Workers -> Nat]
  /\ unset \subseteq Fields
  /\ added \in Seq(Requests \cup {None}) /\ taken \in Seq(Requests \cup {None})

\* init() has returned.
Ready == mpc \in {"listen", "accept", "drain", "take", "exited"}

\* The requests in the queue, oldest first.
Ring == [i \in 1 .. server.requestQueueCount |->
          slots[(server.requestQueueStart + i - 1) % server.requestQueueCapacity]]

\* As RequestQueue assumes: requestMutex keeps the threads apart, no thread is
\* lost, and from init() on the queue holds what was added and not yet taken.
Sound ==
  /\ mpc # "crashed"
  /\ \A w \in Workers : wpc[w] # "stuck"
  /\ Cardinality({w \in Workers : wpc[w] \in Inside}) + (IF mpc = "take" THEN 1 ELSE 0) <= 1
  /\ Ready => added = taken \o Ring

\* Only a handler that runs while init() does, or before it on a stack that was
\* not zero, does harm: main.c:11-12 start the program soundly otherwise, and
\* whatever the stack held is gone when DeviceServer.c:37 is done.
OnlyRacesHarm == ~raced => Sound

\* What init() has set, only the main thread changes, but for the count; whoever
\* raced.
SetInv ==
  /\ mpc \in {"web", "handler"} => unset = Fields
  /\ Ready => unset = {}
  /\ "requestQueueCapacity" \notin unset => server.requestQueueCapacity = Capacity
  /\ "requestQueue" \notin unset => server.requestQueue = "array"
  /\ "requestQueueStart" \notin unset => server.requestQueueStart \in 0 .. Capacity - 1

\* requestMutex is held by the thread that is inside, if there is one.
MutexInv ==
  /\ mutex \in Workers \cup {Main, None}
  /\ \A w \in Workers : wpc[w] \in Inside <=> mutex = w
  /\ mpc = "take" <=> mutex = Main

\* Before init() has ended nothing is accepted: a handler on a stack that was
\* zero finds a queue without capacity, any other is not there yet.
EarlyInv ==
  /\ added = <<>> /\ taken = <<>>
  /\ mpc \in {"web", "handler"} => ~handlers /\ \A w \in Workers : wpc[w] = "idle"
  /\ "requestQueueStart" \notin unset => server.requestQueueStart = 0
  /\ "requestQueueCount" \notin unset => server.requestQueueCount = 0
  /\ IF pristine /\ unset = Fields
     THEN server = Zeroed /\ MutexInv /\ \A w \in Workers : wpc[w] \notin {"store", "count"}
     ELSE \A w \in Workers : wpc[w] \notin Inside

\* From then on what a handler has checked is still true when it acts on it.
ServingInv ==
  /\ MutexInv
  /\ server.requestQueueCount <= Capacity
  /\ \A w \in Workers : wpc[w] \in {"store", "count"} =>
       /\ HasRoom
       /\ wIndex[w] = (server.requestQueueStart + server.requestQueueCount) % Capacity
  /\ \A w \in Workers : wpc[w] = "count" => slots[wIndex[w]] = wRequest[w]
  /\ added = taken \o Ring

\* The inductive invariant of the start.
StartInv ==
  /\ SetInv
  /\ ~raced =>
       /\ mpc # "crashed" /\ \A w \in Workers : wpc[w] # "stuck"
       /\ ~Ready => EarlyInv
       /\ Ready => ServingInv
==============================================================================
