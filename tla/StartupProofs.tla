---------------------------- MODULE StartupProofs ----------------------------
(***************************************************************************)
(* Theorems about Startup.                                                 *)
(***************************************************************************)
EXTENDS Startup, SequenceTheorems, FiniteSetTheorems, TLAPS

\* The inductive invariant.
Inv == TypeOK /\ StartInv

\* The fields, one by one.
LEMMA FieldNames ==
  Fields = {"requestQueue", "requestQueueStart", "requestQueueCount", "requestQueueCapacity"}
  BY DEF Fields, Initialised

\* A struct of zeros, field by field.
LEMMA ZeroedFields ==
  Zeroed = [requestQueue |-> "NULL", requestQueueStart |-> 0, requestQueueCount |-> 0,
            requestQueueCapacity |-> 0]
  BY FieldNames DEF Zeroed

\* Whatever is on the stack has the types of the structs.
LEMMA TypeInit == Init => TypeOK
  <1>. SUFFICES ASSUME Init PROVE TypeOK
    OBVIOUS
  <1>1. server \in DeviceServer
    <2>1. CASE server = Zeroed
      BY <2>1, ZeroedFields DEF DeviceServer
    <2>2. CASE server \in [requestQueue : {"wild", "NULL"}, requestQueueStart : StackWords,
                       requestQueueCount : StackWords, requestQueueCapacity : StackWords]
      BY <2>2, StartupAssumption DEF DeviceServer
    <2>. QED
      BY <2>1, <2>2 DEF Init
  <1>2. <<>> \in Seq(Requests \cup {None})
    BY EmptySeq
  <1>. QED
    BY <1>1, <1>2, StartupAssumption DEF Init, TypeOK, WebServer, Inside, Main

\* One write of init().
LEMMA FieldWritten ==
  ASSUME NEW f \in Fields, server \in DeviceServer,
         server' = [server EXCEPT ![f] = Value(f)]
  PROVE  /\ server' \in DeviceServer
         /\ server'.requestQueueCapacity =
              IF f = "requestQueueCapacity" THEN Capacity ELSE server.requestQueueCapacity
         /\ server'.requestQueue =
              IF f = "requestQueue" THEN "array" ELSE server.requestQueue
         /\ server'.requestQueueStart =
              IF f = "requestQueueStart" THEN 0 ELSE server.requestQueueStart
         /\ server'.requestQueueCount =
              IF f = "requestQueueCount" THEN 0 ELSE server.requestQueueCount
  BY FieldNames, StartupAssumption DEF DeviceServer, Value, Initialised

\* What a take does to the struct.
LEMMA TakenFrom ==
  ASSUME server \in DeviceServer, server.requestQueueCount > 0,
         NEW start \in Nat,
         server' = [server EXCEPT !.requestQueueStart = start,
                                  !.requestQueueCount = @ - 1]
  PROVE  /\ server' \in DeviceServer /\ server'.requestQueue = server.requestQueue
         /\ server'.requestQueueCapacity = server.requestQueueCapacity
         /\ server'.requestQueueStart = start
         /\ server'.requestQueueCount = server.requestQueueCount - 1
  <1>1. server.requestQueueCount \in Nat /\ server.requestQueueCount - 1 \in Nat
    BY DEF DeviceServer
  <1>2. server' = [requestQueue |-> server.requestQueue, requestQueueStart |-> start,
                   requestQueueCount |-> server.requestQueueCount - 1,
                   requestQueueCapacity |-> server.requestQueueCapacity]
    BY DEF DeviceServer
  <1>. QED
    BY <1>1, <1>2 DEF DeviceServer

\* What an addition does to it.
LEMMA Counted ==
  ASSUME server \in DeviceServer,
         server' = [server EXCEPT !.requestQueueCount = @ + 1]
  PROVE  /\ server' \in DeviceServer /\ server'.requestQueue = server.requestQueue
         /\ server'.requestQueueCapacity = server.requestQueueCapacity
         /\ server'.requestQueueStart = server.requestQueueStart
         /\ server'.requestQueueCount = server.requestQueueCount + 1
  BY DEF DeviceServer

\* Whatever the main thread does, in whatever state, it keeps the types, and
\* what init() has set.
LEMMA MainKeepsTypes ==
  ASSUME TypeOK, SetInv, Running, MainThread
  PROVE  TypeOK' /\ SetInv'
  <1>. USE DEF Goto, webVars, workerVars, history
  <1>1. CASE StartWeb
    <2>1. webServer' \in WebServer
      BY <1>1 DEF StartWeb, mg_start, WebServer
    <2>. QED
      BY <1>1, <2>1 DEF StartWeb, TypeOK, SetInv, Ready
  <1>2. CASE SetHandler
    BY <1>2 DEF SetHandler, mg_set_request_handler, TypeOK, SetInv, Ready
  <1>3. CASE InitField
    <2>1. PICK f \in unset : /\ server' = [server EXCEPT ![f] = Value(f)]
                             /\ unset' = unset \ {f}
      BY <1>3 DEF InitField
    <2>2. f \in Fields
      BY <2>1 DEF TypeOK
    <2>3. TypeOK'
      BY <1>3, <2>1, <2>2, FieldWritten DEF InitField, TypeOK
    <2>4. /\ mpc = "init" /\ mpc' = "init"
      BY <1>3 DEF InitField
    <2>5. 0 \in 0 .. Capacity - 1
      BY StartupAssumption
    <2>6. SetInv'
      BY <2>1, <2>2, <2>4, <2>5, FieldWritten DEF TypeOK, SetInv, Ready
    <2>. QED
      BY <2>3, <2>6
  <1>4. CASE InitMutex
    BY <1>4 DEF InitMutex, TypeOK, SetInv, Ready
  <1>5. CASE InitListenSocket
    BY <1>5 DEF InitListenSocket, TypeOK, SetInv, Ready
  <1>6. CASE Accept
    BY <1>6 DEF Accept, TypeOK, SetInv, Ready
  <1>7. CASE DrainLock
    BY <1>7 DEF DrainLock, Lock, TypeOK, SetInv, Ready
  <1>8. CASE DrainTake
    <2>. USE DEF DrainTake, Unlock
    <2>1. /\ unset = {} /\ server.requestQueueCapacity = Capacity
          /\ server.requestQueue = "array"
          /\ server.requestQueueStart \in 0 .. Capacity - 1
          /\ server.requestQueueCount \in Nat
      BY <1>8 DEF SetInv, Ready, TypeOK, DeviceServer
    <2>2. CASE ~HasRequest
      BY <1>8, <2>2 DEF TypeOK, SetInv, Ready
    <2>3. CASE HasRequest
      <3>1. (server.requestQueueStart + 1) % Capacity \in 0 .. Capacity - 1
        BY <2>1, StartupAssumption
      <3>2. /\ server' \in DeviceServer /\ server'.requestQueue = "array"
            /\ server'.requestQueueCapacity = Capacity
            /\ server'.requestQueueStart = (server.requestQueueStart + 1) % Capacity
        <4>. DEFINE start == (server.requestQueueStart + 1) % Capacity
        <4>1. /\ server' = [server EXCEPT !.requestQueueStart = start,
                                          !.requestQueueCount = @ - 1]
              /\ server.requestQueueCount > 0
          BY <1>8, <2>1, <2>3 DEF HasRequest
        <4>2. start \in Nat /\ server \in DeviceServer
          BY <3>1 DEF TypeOK
        <4>. HIDE DEF start
        <4>3. /\ server' \in DeviceServer /\ server'.requestQueue = "array"
              /\ server'.requestQueueCapacity = Capacity
              /\ server'.requestQueueStart = start
          BY <2>1, <4>1, <4>2, TakenFrom
        <4>. QED
          BY <4>3 DEF start
      <3>3. taken' \in Seq(Requests \cup {None})
        <4>1. slots[server.requestQueueStart] \in Requests \cup {None}
          BY <2>1 DEF TypeOK
        <4>2. taken' = Append(taken, slots[server.requestQueueStart])
          BY <1>8, <2>3
        <4>. QED
          BY <4>1, <4>2, AppendProperties DEF TypeOK
      <3>. QED
        BY <1>8, <2>1, <3>1, <3>2, <3>3 DEF TypeOK, SetInv, Ready
    <2>. QED
      BY <2>2, <2>3
  <1>. QED
    BY <1>1, <1>2, <1>3, <1>4, <1>5, <1>6, <1>7, <1>8 DEF MainThread

\* Nor does a handler break them, whenever it runs.
LEMMA WorkerKeepsTypes ==
  ASSUME TypeOK, SetInv, NEW w \in Workers, Running, Worker(w)
  PROVE  TypeOK' /\ SetInv'
  <1>. USE DEF WGoto, webVars, workerVars, history
  <1>1. ASSUME NEW r \in Requests, HttpRequest(w, r)
        PROVE  TypeOK' /\ SetInv'
    BY <1>1 DEF HttpRequest, Inside, TypeOK, SetInv, Ready
  <1>2. CASE ReceiveLock(w)
    BY <1>2 DEF ReceiveLock, Lock, Usable, Inside, TypeOK, SetInv, Ready
  <1>3. CASE ReceiveCheck(w)
    <2>1. wIndex' \in [Workers -> Nat]
      <3>1. CASE HasRoom
        <4>1. (server.requestQueueStart + server.requestQueueCount)
                % server.requestQueueCapacity \in Nat
          BY <3>1 DEF HasRoom, TypeOK, DeviceServer
        <4>. QED
          BY <1>3, <3>1, <4>1 DEF ReceiveCheck, TypeOK
      <3>. QED
        BY <1>3, <3>1 DEF ReceiveCheck, TypeOK
    <2>2. wpc' \in [Workers -> Inside \cup {"idle", "lock", "stuck"}]
      BY <1>3 DEF ReceiveCheck, Inside, TypeOK
    <2>. QED
      BY <1>3, <2>1, <2>2 DEF ReceiveCheck, TypeOK, SetInv, Ready
  <1>4. CASE ReceiveStore(w)
    <2>1. slots' \in [0 .. Capacity - 1 -> Requests \cup {None}]
      BY <1>4 DEF ReceiveStore, TypeOK
    <2>2. wpc' \in [Workers -> Inside \cup {"idle", "lock", "stuck"}]
      BY <1>4 DEF ReceiveStore, Inside, TypeOK
    <2>. QED
      BY <1>4, <2>1, <2>2 DEF ReceiveStore, TypeOK, SetInv, Ready
  <1>5. CASE ReceiveCount(w)
    <2>1. /\ server' \in DeviceServer /\ server'.requestQueue = server.requestQueue
          /\ server'.requestQueueCapacity = server.requestQueueCapacity
          /\ server'.requestQueueStart = server.requestQueueStart
      BY <1>5, Counted DEF ReceiveCount, TypeOK
    <2>2. wpc' \in [Workers -> Inside \cup {"idle", "lock", "stuck"}]
      BY <1>5 DEF ReceiveCount, Inside, TypeOK
    <2>3. added' \in Seq(Requests \cup {None})
      <3>1. wRequest[w] \in Requests \cup {None}
        BY DEF TypeOK
      <3>. QED
        BY <1>5, <3>1, AppendProperties DEF ReceiveCount, TypeOK
    <2>. QED
      BY <1>5, <2>1, <2>2, <2>3 DEF ReceiveCount, TypeOK, SetInv, Ready
  <1>6. CASE ReceiveUnlock(w)
    BY <1>6 DEF ReceiveUnlock, Unlock, Inside, TypeOK, SetInv, Ready
  <1>. QED
    BY <1>1, <1>2, <1>3, <1>4, <1>5, <1>6 DEF Worker

\* The two hold in every reachable state.
LEMMA TypesAlways == Spec => [](TypeOK /\ SetInv)
  <1>1. Init => TypeOK /\ SetInv
    BY TypeInit, FieldNames DEF Init, SetInv, Ready
  <1>2. TypeOK /\ SetInv /\ [Next]_vars => (TypeOK /\ SetInv)'
    <2>. SUFFICES ASSUME TypeOK, SetInv, [Next]_vars PROVE TypeOK' /\ SetInv'
      OBVIOUS
    <2>1. CASE UNCHANGED vars
      BY <2>1 DEF vars, webVars, workerVars, history, TypeOK, SetInv, Ready
    <2>. QED
      BY <2>1, MainKeepsTypes, WorkerKeepsTypes DEF Next
  <1>. QED
    BY <1>1, <1>2, PTL DEF Spec

\* Every variable of the program's start keeps its type, in raced states too: the
\* ring's count never falls below zero.
THEOREM TypeCorrect == Spec => []TypeOK
  BY TypesAlways, PTL

-----------------------------------------------------------------------------
(* The ring.                                                               *)

\* Append, written the way Ring is.
LEMMA AppendAsFunction ==
  ASSUME NEW S, NEW seq \in Seq(S), NEW e \in S
  PROVE  Append(seq, e) =
           [i \in 1 .. Len(seq) + 1 |-> IF i = Len(seq) + 1 THEN e ELSE seq[i]]
  <1>1. Append(seq, e) \in [1 .. Len(seq) + 1 -> S]
    BY AppendProperties, LenProperties
  <1>2. \A i \in 1 .. Len(seq) + 1 :
          Append(seq, e)[i] = IF i = Len(seq) + 1 THEN e ELSE seq[i]
    BY AppendProperties, LenProperties
  <1>. QED
    BY <1>1, <1>2

\* Tail, written the way Ring is.
LEMMA TailAsFunction ==
  ASSUME NEW S, NEW seq \in Seq(S), seq # <<>>
  PROVE  Tail(seq) = [i \in 1 .. Len(seq) - 1 |-> seq[i + 1]]
  <1>1. /\ Tail(seq) \in [1 .. Len(seq) - 1 -> S]
        /\ \A i \in 1 .. Len(seq) - 1 : Tail(seq)[i] = seq[i + 1]
    BY HeadTailProperties, LenProperties
  <1>. QED
    BY <1>1

\* Different places of the ring are different slots.
LEMMA SlotsDiffer ==
  ASSUME NEW s \in 0 .. Capacity - 1, NEW i \in 0 .. Capacity - 1,
         NEW j \in 0 .. Capacity - 1, i # j
  PROVE  (s + i) % Capacity # (s + j) % Capacity
  BY StartupAssumption

\* Moving the start on by one moves every place on by one.
LEMMA StartMoves ==
  ASSUME NEW s \in 0 .. Capacity - 1, NEW i \in 0 .. Capacity - 1
  PROVE  (((s + 1) % Capacity) + i) % Capacity = (s + (i + 1)) % Capacity
  <1>1. CASE s + 1 < Capacity
    <2>1. (s + 1) % Capacity = s + 1
      BY <1>1, StartupAssumption
    <2>. QED
      BY <2>1
  <1>2. CASE s + 1 = Capacity
    <2>1. (s + 1) % Capacity = 0 /\ i % Capacity = i
      BY <1>2, StartupAssumption
    <2>2. (s + (i + 1)) % Capacity = i
      BY <1>2, StartupAssumption
    <2>. QED
      BY <2>1, <2>2
  <1>. QED
    BY <1>1, <1>2, StartupAssumption

\* What is taken from the front of one sequence goes to the end of the other.
LEMMA HeadMoves ==
  ASSUME NEW S, NEW s \in Seq(S), NEW t \in Seq(S), t # <<>>
  PROVE  Append(s, Head(t)) \o Tail(t) = s \o t
  <1>1. Head(t) \in S /\ Tail(t) \in Seq(S) /\ <<Head(t)>> \in Seq(S)
    BY HeadTailProperties
  <1>2. Append(s, Head(t)) = s \o <<Head(t)>>
    BY <1>1, AppendIsConcat
  <1>3. t = <<Head(t)>> \o Tail(t)
    <2>1. Len(t) \in Nat \ {0} /\ Head(t) = t[1]
      BY EmptySeq, LenProperties, HeadTailProperties
    <2>2. 1 \in 1 .. Len(t) /\ Len(t) \in 1 .. Len(t)
      BY <2>1
    <2>3. SubSeq(t, 1, Len(t)) = <<t[1]>> \o SubSeq(t, 1 + 1, Len(t))
      BY <2>2, SubSeqRecursiveFirst
    <2>. QED
      BY <2>1, <2>3, SubSeqFull, TailIsSubSeq
  <1>. QED
    BY <1>1, <1>2, <1>3, ConcatAssociative

\* Once init() has ended the ring is a sequence of requests.
LEMMA RingShape ==
  ASSUME TypeOK, SetInv, Ready, server.requestQueueCount <= Capacity
  PROVE  /\ server.requestQueueCapacity = Capacity
         /\ server.requestQueue = "array"
         /\ server.requestQueueStart \in 0 .. Capacity - 1
         /\ server.requestQueueCount \in 0 .. Capacity
         /\ Ring \in Seq(Requests \cup {None})
         /\ Len(Ring) = server.requestQueueCount
  <1>1. /\ server.requestQueueCapacity = Capacity
        /\ server.requestQueue = "array"
        /\ server.requestQueueStart \in 0 .. Capacity - 1
        /\ server.requestQueueCount \in 0 .. Capacity
    BY StartupAssumption DEF SetInv, TypeOK, DeviceServer
  <1>2. ASSUME NEW i \in 1 .. server.requestQueueCount
        PROVE  slots[(server.requestQueueStart + i - 1) % server.requestQueueCapacity]
                 \in Requests \cup {None}
    <2>1. (server.requestQueueStart + i - 1) % Capacity \in 0 .. Capacity - 1
      BY <1>1, StartupAssumption
    <2>. QED
      BY <1>1, <2>1 DEF TypeOK
  <1>3. server.requestQueueCount \in Nat
    BY <1>1, StartupAssumption
  <1>4. Ring \in Seq(Requests \cup {None})
    BY <1>2, <1>3, SeqDef DEF Ring
  <1>5. Len(Ring) = server.requestQueueCount
    BY <1>3, <1>4, LenProperties DEF Ring
  <1>. QED
    BY <1>1, <1>4, <1>5

\* An addition puts the request behind the others.
LEMMA RingGrows ==
  ASSUME TypeOK, SetInv, Ready, ServingInv, NEW w \in Workers, ReceiveCount(w)
  PROVE  Ring' = Append(Ring, wRequest[w])
  <1>. DEFINE S == Requests \cup {None}
              start == server.requestQueueStart
              count == server.requestQueueCount
  <1>1. /\ server.requestQueueCapacity = Capacity /\ Ring \in Seq(S) /\ Len(Ring) = count
        /\ start \in 0 .. Capacity - 1 /\ count \in 0 .. Capacity
    BY RingShape DEF ServingInv
  <1>2. /\ wRequest[w] \in S /\ slots' = slots
        /\ wIndex[w] = (start + count) % Capacity /\ slots[wIndex[w]] = wRequest[w]
    BY DEF ReceiveCount, WGoto, ServingInv, TypeOK
  <1>3. /\ server'.requestQueueCount = count + 1 /\ server'.requestQueueStart = start
        /\ server'.requestQueueCapacity = Capacity
    BY <1>1, Counted DEF ReceiveCount, TypeOK
  <1>4. Append(Ring, wRequest[w]) =
          [i \in 1 .. count + 1 |-> IF i = count + 1 THEN wRequest[w] ELSE Ring[i]]
    BY <1>1, <1>2, AppendAsFunction
  <1>5. Ring' = [i \in 1 .. count + 1 |-> slots[(start + i - 1) % Capacity]]
    BY <1>2, <1>3 DEF Ring
  <1>6. ASSUME NEW i \in 1 .. count + 1
        PROVE  slots[(start + i - 1) % Capacity] =
                 IF i = count + 1 THEN wRequest[w] ELSE Ring[i]
    <2>1. CASE i = count + 1
      <3>1. start + i - 1 = start + count
        BY <1>1, <2>1
      <3>. QED
        BY <1>2, <2>1, <3>1
    <2>2. CASE i # count + 1
      <3>1. i \in 1 .. count
        BY <1>1, <2>2
      <3>. QED
        BY <1>1, <2>2, <3>1 DEF Ring
    <2>. QED
      BY <2>1, <2>2
  <1>. QED
    BY <1>4, <1>5, <1>6

\* A take takes the first.
LEMMA RingShrinks ==
  ASSUME TypeOK, SetInv, Ready, ServingInv, DrainTake, HasRequest
  PROVE  /\ Ring # <<>> /\ slots[server.requestQueueStart] = Head(Ring)
         /\ Ring' = Tail(Ring)
         /\ server'.requestQueueCount = server.requestQueueCount - 1
  <1>. DEFINE S == Requests \cup {None}
              start == server.requestQueueStart
              count == server.requestQueueCount
              next == (start + 1) % Capacity
  <1>1. /\ server.requestQueueCapacity = Capacity /\ Ring \in Seq(S) /\ Len(Ring) = count
        /\ start \in 0 .. Capacity - 1 /\ count \in 0 .. Capacity
    BY RingShape DEF ServingInv
  <1>2. count \in 1 .. Capacity /\ slots' = slots
    BY <1>1, StartupAssumption DEF DrainTake, HasRequest
  <1>3. next \in Nat
    BY <1>1, StartupAssumption
  <1>4. /\ server'.requestQueueCount = count - 1 /\ server'.requestQueueStart = next
        /\ server'.requestQueueCapacity = Capacity
    <2>1. server' = [server EXCEPT !.requestQueueStart = next,
                                   !.requestQueueCount = @ - 1]
      BY <1>1 DEF DrainTake
    <2>2. server \in DeviceServer /\ server.requestQueueCount > 0
      BY DEF TypeOK, HasRequest
    <2>. HIDE DEF next
    <2>. QED
      BY <1>1, <1>3, <2>1, <2>2, TakenFrom
  <1>5. Ring # <<>>
    BY <1>1, <1>2, EmptySeq
  <1>6. Head(Ring) = slots[start]
    <2>1. Head(Ring) = Ring[1]
      BY <1>1, <1>5, HeadTailProperties
    <2>2. Ring[1] = slots[(start + 1 - 1) % Capacity]
      BY <1>1, <1>2 DEF Ring
    <2>3. (start + 1 - 1) % Capacity = start
      BY <1>1, StartupAssumption
    <2>. QED
      BY <2>1, <2>2, <2>3
  <1>7. Tail(Ring) = [i \in 1 .. count - 1 |-> Ring[i + 1]]
    BY <1>1, <1>5, TailAsFunction
  <1>8. Ring' = [i \in 1 .. count - 1 |-> slots[(next + i - 1) % Capacity]]
    BY <1>2, <1>4 DEF Ring
  <1>9. ASSUME NEW i \in 1 .. count - 1
        PROVE  slots[(next + i - 1) % Capacity] = Ring[i + 1]
    <2>1. i - 1 \in 0 .. Capacity - 1 /\ i + 1 \in 1 .. count
      BY <1>1, StartupAssumption
    <2>2. (next + (i - 1)) % Capacity = (start + ((i - 1) + 1)) % Capacity
      BY <1>1, <2>1, StartMoves
    <2>3. Ring[i + 1] = slots[(start + (i + 1) - 1) % Capacity]
      BY <1>1, <2>1 DEF Ring
    <2>4. next + i - 1 = next + (i - 1) /\ start + (i + 1) - 1 = start + ((i - 1) + 1)
      BY <1>1, <1>3, <2>1
    <2>. QED
      BY <2>2, <2>3, <2>4
  <1>. QED
    BY <1>4, <1>5, <1>6, <1>7, <1>8, <1>9

\* A store behind the others leaves them alone.
LEMMA RingKept ==
  ASSUME TypeOK, SetInv, Ready, ServingInv, NEW w \in Workers, wpc[w] = "store",
         slots' = [slots EXCEPT ![wIndex[w]] = wRequest[w]], server' = server
  PROVE  Ring' = Ring /\ wIndex[w] \in DOMAIN slots
  <1>. DEFINE start == server.requestQueueStart
              count == server.requestQueueCount
  <1>1. /\ server.requestQueueCapacity = Capacity
        /\ start \in 0 .. Capacity - 1 /\ count \in 0 .. Capacity
    BY RingShape DEF ServingInv
  <1>2. wIndex[w] = (start + count) % Capacity /\ count < Capacity
    BY <1>1 DEF ServingInv, HasRoom
  <1>3. ASSUME NEW i \in 1 .. count
        PROVE  slots'[(start + i - 1) % Capacity] = slots[(start + i - 1) % Capacity]
    <2>1. i - 1 \in 0 .. Capacity - 1 /\ count \in 0 .. Capacity - 1 /\ i - 1 # count
      BY <1>1, <1>2, StartupAssumption
    <2>2. (start + (i - 1)) % Capacity # (start + count) % Capacity
      BY <1>1, <2>1, SlotsDiffer
    <2>3. start + i - 1 = start + (i - 1)
      BY <1>1, <2>1
    <2>4. (start + (i - 1)) % Capacity \in 0 .. Capacity - 1
      BY <1>1, <2>1, StartupAssumption
    <2>. QED
      BY <1>2, <2>2, <2>3, <2>4 DEF TypeOK
  <1>4. Ring' = Ring
    BY <1>1, <1>3 DEF Ring
  <1>5. wIndex[w] \in 0 .. Capacity - 1
    BY <1>1, <1>2, StartupAssumption
  <1>. QED
    BY <1>4, <1>5 DEF TypeOK

-----------------------------------------------------------------------------
(* The start, as long as no handler raced.                                 *)

\* Main is no worker, and a mutex that a worker holds is a valid one.
LEMMA Threads ==
  /\ \A w \in Workers : w # Main /\ w # None /\ w # "locked" /\ w # "invalid"
  /\ None # Main /\ None # "locked" /\ None # "invalid"
  /\ Main # "locked" /\ Main # "invalid"
  BY StartupAssumption DEF Main

\* Every start, on whatever stack.
LEMMA StartInit == Init => StartInv
  <1>. SUFFICES ASSUME Init PROVE StartInv
    OBVIOUS
  <1>1. SetInv
    BY FieldNames DEF Init, SetInv, Ready
  <1>2. EarlyInv
    <2>1. \A w \in Workers : wpc[w] \notin Inside /\ wpc[w] = "idle"
      BY DEF Init, Inside
    <2>2. pristine => server = Zeroed /\ MutexInv
      BY <2>1, Threads DEF Init, MutexInv
    <2>. QED
      BY <2>1, <2>2, FieldNames DEF Init, EarlyInv
  <1>. QED
    BY <1>1, <1>2 DEF Init, StartInv, Ready

\* The main thread starts the queue soundly.
LEMMA MainKeepsStart ==
  ASSUME TypeOK, StartInv, Running, MainThread, ~raced', TypeOK', SetInv'
  PROVE  StartInv'
  <1>. USE DEF Goto, webVars, workerVars, history
  <1>1. ~raced
    BY DEF MainThread, StartWeb, SetHandler, InitField, InitMutex, InitListenSocket,
           Accept, DrainLock, DrainTake
  <1>2. /\ SetInv /\ mpc # "crashed" /\ \A w \in Workers : wpc[w] # "stuck"
        /\ ~Ready => EarlyInv
        /\ Ready => ServingInv
    BY <1>1 DEF StartInv
  <1>3. CASE StartWeb \/ SetHandler
    <2>1. /\ UNCHANGED <<server, mutex, slots, workerVars, unset, raced, history>>
          /\ mpc \in {"web", "handler"} /\ mpc' \in {"handler", "init"}
          /\ mpc' = "handler" => handlers' = handlers
      BY <1>3 DEF StartWeb, SetHandler
    <2>2. EarlyInv /\ unset = Fields
      BY <1>2, <2>1 DEF Ready, SetInv
    <2>3. MutexInv => MutexInv'
      BY <2>1 DEF MutexInv
    <2>4. EarlyInv'
      BY <2>1, <2>2, <2>3 DEF EarlyInv, Inside
    <2>. QED
      BY <1>2, <2>1, <2>4 DEF StartInv, Ready
  <1>4. CASE InitField
    <2>1. PICK f \in unset : /\ server' = [server EXCEPT ![f] = Value(f)]
                             /\ unset' = unset \ {f}
      BY <1>4 DEF InitField
    <2>2. /\ mpc = "init" /\ mpc' = "init" /\ f \in Fields
          /\ UNCHANGED <<webVars, mutex, slots, workerVars, history>>
          /\ \A w \in Workers : wpc[w] \notin Inside
      BY <1>4, <2>1 DEF InitField, TypeOK
    <2>3. EarlyInv /\ unset' # Fields
      BY <1>2, <2>1, <2>2 DEF Ready
    <2>4. /\ server'.requestQueueStart =
               IF f = "requestQueueStart" THEN 0 ELSE server.requestQueueStart
          /\ server'.requestQueueCount =
               IF f = "requestQueueCount" THEN 0 ELSE server.requestQueueCount
      BY <2>1, <2>2, FieldWritten DEF TypeOK
    <2>5. EarlyInv'
      BY <2>1, <2>2, <2>3, <2>4 DEF EarlyInv
    <2>. QED
      BY <1>2, <2>2, <2>5 DEF StartInv, Ready
  <1>5. CASE InitMutex
    <2>1. /\ mpc = "init" /\ mpc' = "listen" /\ mutex' = None /\ unset = {}
          /\ UNCHANGED <<server, slots, workerVars, history>>
          /\ \A w \in Workers : wpc[w] \notin Inside
      BY <1>5 DEF InitMutex
    <2>2. EarlyInv /\ server.requestQueueCount = 0
      BY <1>2, <2>1 DEF Ready, EarlyInv
    <2>3. MutexInv'
      BY <2>1, Threads DEF MutexInv
    <2>4. Ring' = <<>>
      BY <2>1, <2>2 DEF Ring
    <2>5. added' = taken' \o Ring'
      BY <2>1, <2>2, <2>4 DEF EarlyInv
    <2>6. ServingInv'
      BY <2>1, <2>2, <2>3, <2>5, StartupAssumption DEF ServingInv, Inside
    <2>. QED
      BY <1>2, <2>1, <2>6 DEF StartInv, Ready
  <1>6. CASE InitListenSocket \/ Accept \/ DrainLock
    <2>1. /\ UNCHANGED <<server, slots, workerVars, history>>
          /\ mpc \in {"listen", "accept", "drain"}
          /\ mpc' \in {"accept", "exited", "drain", "take"}
      BY <1>6 DEF InitListenSocket, Accept, DrainLock
    <2>2. ServingInv
      BY <1>2, <2>1 DEF Ready
    <2>3. MutexInv'
      <3>1. CASE InitListenSocket \/ Accept
        BY <2>2, <3>1 DEF ServingInv, MutexInv, InitListenSocket, Accept
      <3>2. CASE DrainLock
        <4>1. mpc = "drain" /\ mpc' = "take" /\ wpc' = wpc
          BY <3>2 DEF DrainLock
        <4>2. mutex # "invalid"
          BY <2>2, Threads DEF ServingInv, MutexInv
        <4>. QED
          BY <2>2, <3>2, <4>1, <4>2, Threads DEF DrainLock, Lock, ServingInv, MutexInv
      <3>. QED
        BY <1>6, <3>1, <3>2
    <2>4. Ring' = Ring /\ HasRoom' = HasRoom
      BY <2>1 DEF Ring, HasRoom
    <2>5. ServingInv'
      BY <2>1, <2>2, <2>3, <2>4 DEF ServingInv
    <2>. QED
      BY <1>2, <2>1, <2>5 DEF StartInv, Ready
  <1>7. CASE DrainTake
    <2>1. /\ mpc = "take" /\ mpc' = "drain" /\ Ready
          /\ UNCHANGED <<webVars, slots, workerVars, unset, raced, pristine, added>>
      BY <1>7 DEF DrainTake, Ready
    <2>2. ServingInv
      BY <1>2, <2>1
    <2>3. MutexInv' /\ \A w \in Workers : wpc[w] \notin Inside
      BY <1>7, <2>1, <2>2, Threads DEF DrainTake, Unlock, ServingInv, MutexInv
    <2>4. /\ added' = taken' \o Ring'
          /\ server'.requestQueueCount <= Capacity
      <3>1. CASE ~HasRequest
        <4>1. taken' = taken /\ server' = server
          BY <1>7, <3>1 DEF DrainTake
        <4>2. Ring' = Ring
          BY <2>1, <4>1 DEF Ring
        <4>. QED
          BY <2>1, <2>2, <4>1, <4>2 DEF ServingInv
      <3>2. CASE HasRequest
        <4>. DEFINE S == Requests \cup {None}
        <4>1. /\ Ring # <<>> /\ slots[server.requestQueueStart] = Head(Ring)
              /\ Ring' = Tail(Ring)
              /\ server'.requestQueueCount = server.requestQueueCount - 1
          BY <1>2, <1>7, <2>1, <2>2, <3>2, RingShrinks
        <4>2. /\ Ring \in Seq(S) /\ server.requestQueueCount \in 0 .. Capacity
              /\ taken \in Seq(S)
          BY <1>2, <2>1, <2>2, RingShape DEF ServingInv, TypeOK
        <4>3. taken' = Append(taken, Head(Ring))
          BY <1>7, <3>2, <4>1 DEF DrainTake
        <4>4. taken' \o Tail(Ring) = taken \o Ring
          BY <4>1, <4>2, <4>3, HeadMoves
        <4>. QED
          BY <2>1, <2>2, <4>1, <4>2, <4>4, StartupAssumption DEF ServingInv
      <3>. QED
        BY <3>1, <3>2
    <2>5. ServingInv'
      BY <2>1, <2>3, <2>4 DEF ServingInv, Inside
    <2>. QED
      BY <1>2, <2>1, <2>5 DEF StartInv, Ready
  <1>. QED
    BY <1>3, <1>4, <1>5, <1>6, <1>7 DEF MainThread

\* A handler's step, but for the store and the addition, hands the mutex on as
\* it should and leaves the queue alone.
LEMMA WorkerKeepsMutex ==
  ASSUME TypeOK, MutexInv, NEW w \in Workers, Worker(w), mpc' = mpc
  PROVE  MutexInv' /\ wpc'[w] # "stuck"
  <1>. USE Threads DEF WGoto, MutexInv, Inside
  <1>1. wpc \in [Workers -> Inside \cup {"idle", "lock", "stuck"}]
    BY DEF TypeOK
  <1>2. mutex # "locked" /\ mutex # "invalid"
    OBVIOUS
  <1>3. ASSUME NEW r \in Requests, HttpRequest(w, r)
        PROVE  MutexInv' /\ wpc'[w] # "stuck"
    BY <1>1, <1>3 DEF HttpRequest
  <1>4. CASE ReceiveLock(w)
    BY <1>1, <1>2, <1>4 DEF ReceiveLock, Lock
  <1>5. CASE ReceiveCheck(w)
    BY <1>1, <1>5 DEF ReceiveCheck
  <1>6. CASE ReceiveStore(w)
    BY <1>1, <1>6 DEF ReceiveStore
  <1>7. CASE ReceiveCount(w)
    BY <1>1, <1>7 DEF ReceiveCount
  <1>8. CASE ReceiveUnlock(w)
    BY <1>1, <1>2, <1>8 DEF ReceiveUnlock, Unlock
  <1>. QED
    BY <1>3, <1>4, <1>5, <1>6, <1>7, <1>8 DEF Worker

\* Handlers that run before init() has ended, and do not race, achieve nothing.
LEMMA WorkerKeepsEarly ==
  ASSUME TypeOK, SetInv, EarlyInv, ~Ready, Running, NEW w \in Workers, Worker(w),
         ~raced', TypeOK'
  PROVE  EarlyInv' /\ mpc' = mpc /\ wpc'[w] # "stuck"
  <1>. USE DEF WGoto, webVars, workerVars, history
  <1>1. mpc = "init"
    <2>1. mpc \in {"web", "handler"} => wpc[w] = "idle" /\ ~handlers
      BY DEF EarlyInv
    <2>2. wpc[w] = "idle" => handlers
      BY DEF Worker, HttpRequest, mg_request_handler, ReceiveLock, ReceiveCheck,
             ReceiveStore, ReceiveCount, ReceiveUnlock
    <2>. QED
      BY <2>1, <2>2 DEF TypeOK, Ready, Running
  <1>2. CASE \E r \in Requests : HttpRequest(w, r)
    <2>1. /\ UNCHANGED <<mpc, server, mutex, unset, history>>
          /\ wpc[w] = "idle" /\ wpc' = [wpc EXCEPT ![w] = "lock"]
      BY <1>2 DEF HttpRequest
    <2>2. wpc \in [Workers -> Inside \cup {"idle", "lock", "stuck"}]
      BY DEF TypeOK
    <2>3. \A v \in Workers : wpc'[v] \in Inside => wpc'[v] = wpc[v]
      BY <2>1, <2>2 DEF Inside
    <2>4. MutexInv => MutexInv'
      BY <2>1, WorkerKeepsMutex
    <2>. QED
      BY <1>1, <2>1, <2>2, <2>3, <2>4 DEF EarlyInv, Inside
  <1>3. CASE ~ \E r \in Requests : HttpRequest(w, r)
    <2>1. pristine /\ unset = Fields
      <3>1. CASE ReceiveLock(w)
        BY <1>1, <3>1 DEF ReceiveLock, Usable
      <3>2. CASE ~ReceiveLock(w)
        BY <1>3, <3>2 DEF Worker, ReceiveCheck, ReceiveStore, ReceiveCount,
             ReceiveUnlock, Inside, EarlyInv
      <3>. QED
        BY <3>1, <3>2
    <2>2. /\ server = Zeroed /\ MutexInv
          /\ \A v \in Workers : wpc[v] \notin {"store", "count"}
      BY <2>1 DEF EarlyInv
    <2>3. ~HasRoom
      BY <2>2, ZeroedFields DEF HasRoom
    <2>4. /\ UNCHANGED <<mpc, server, unset, history>>
          /\ wpc' = [wpc EXCEPT ![w] = wpc'[w]]
          /\ wpc'[w] \notin {"store", "count"}
      BY <1>3, <2>2, <2>3 DEF Worker, ReceiveLock, ReceiveCheck, ReceiveStore,
           ReceiveCount, ReceiveUnlock, TypeOK
    <2>5. MutexInv' /\ wpc'[w] # "stuck"
      BY <2>2, <2>4, WorkerKeepsMutex
    <2>6. \A v \in Workers : wpc'[v] \notin {"store", "count"}
      BY <2>2, <2>4 DEF TypeOK
    <2>. QED
      BY <1>1, <2>1, <2>2, <2>4, <2>5, <2>6 DEF EarlyInv
  <1>. QED
    BY <1>2, <1>3

\* Handlers that run later use the queue as RequestQueue does.
LEMMA WorkerKeepsServing ==
  ASSUME TypeOK, SetInv, ServingInv, Ready, Running, NEW w \in Workers, Worker(w),
         TypeOK'
  PROVE  ServingInv' /\ mpc' = mpc /\ wpc'[w] # "stuck"
  <1>. USE DEF WGoto, webVars, workerVars, history
  <1>1. wpc \in [Workers -> Inside \cup {"idle", "lock", "stuck"}]
    BY DEF TypeOK
  <1>2. /\ server.requestQueueCapacity = Capacity
        /\ server.requestQueue = "array"
        /\ server.requestQueueStart \in 0 .. Capacity - 1
        /\ server.requestQueueCount \in 0 .. Capacity
    BY RingShape DEF ServingInv
  <1>3. \A v \in Workers : wpc[w] \in Inside /\ wpc[v] \in Inside => v = w
    BY DEF ServingInv, MutexInv
  <1>4. CASE (\E r \in Requests : HttpRequest(w, r)) \/ ReceiveLock(w) \/ ReceiveUnlock(w)
    <2>1. /\ UNCHANGED <<mpc, server, slots, wIndex, history>>
          /\ wpc' = [wpc EXCEPT ![w] = wpc'[w]]
          /\ wpc'[w] \notin {"store", "count"}
          /\ wpc[w] \notin {"store", "count"}
          /\ \A v \in Workers \ {w} : wRequest'[v] = wRequest[v]
      BY <1>1, <1>4 DEF HttpRequest, ReceiveLock, ReceiveUnlock, TypeOK
    <2>2. MutexInv' /\ wpc'[w] # "stuck"
      BY <2>1, WorkerKeepsMutex DEF ServingInv
    <2>3. Ring' = Ring /\ HasRoom' = HasRoom
      BY <2>1 DEF Ring, HasRoom
    <2>4. \A v \in Workers : wpc'[v] \in {"store", "count"} =>
            wpc'[v] = wpc[v] /\ wRequest'[v] = wRequest[v]
      BY <1>1, <2>1
    <2>. QED
      BY <2>1, <2>2, <2>3, <2>4 DEF ServingInv
  <1>5. CASE ReceiveCheck(w)
    <2>1. /\ UNCHANGED <<mpc, server, slots, wRequest, history>>
          /\ wpc[w] = "check" /\ wpc' = [wpc EXCEPT ![w] = wpc'[w]]
          /\ wpc'[w] \in {"store", "unlock"}
          /\ \A v \in Workers \ {w} : wIndex'[v] = wIndex[v]
      BY <1>1, <1>5 DEF ReceiveCheck, TypeOK
    <2>2. MutexInv' /\ wpc'[w] # "stuck"
      BY <2>1, WorkerKeepsMutex DEF ServingInv
    <2>3. Ring' = Ring /\ HasRoom' = HasRoom
      BY <2>1 DEF Ring, HasRoom
    <2>4. wpc'[w] = "store" =>
            /\ HasRoom
            /\ wIndex'[w] = (server.requestQueueStart + server.requestQueueCount) % Capacity
      BY <1>1, <1>2, <1>5 DEF ReceiveCheck, TypeOK
    <2>5. \A v \in Workers \ {w} : wpc'[v] = wpc[v]
      BY <1>1, <2>1
    <2>. QED
      BY <2>1, <2>2, <2>3, <2>4, <2>5 DEF ServingInv
  <1>6. CASE ReceiveStore(w)
    <2>1. /\ UNCHANGED <<server, wRequest, wIndex, history>>
          /\ wpc[w] = "store" /\ wpc' = [wpc EXCEPT ![w] = "count"]
      BY <1>6 DEF ReceiveStore
    <2>2. wIndex[w] \in DOMAIN slots
      <3>. DEFINE start == server.requestQueueStart  count == server.requestQueueCount
      <3>1. wIndex[w] = (start + count) % Capacity
        BY <2>1 DEF ServingInv
      <3>2. (start + count) % Capacity \in 0 .. Capacity - 1
        BY <1>2, StartupAssumption
      <3>. QED
        BY <3>1, <3>2 DEF TypeOK
    <2>3. mpc' = mpc /\ slots' = [slots EXCEPT ![wIndex[w]] = wRequest[w]]
      BY <1>2, <1>6, <2>2 DEF ReceiveStore
    <2>4. MutexInv' /\ wpc'[w] # "stuck"
      BY <2>3, WorkerKeepsMutex DEF ServingInv
    <2>5. Ring' = Ring /\ HasRoom' = HasRoom
      BY <2>1, <2>3, RingKept DEF HasRoom
    <2>6. slots'[wIndex'[w]] = wRequest'[w]
      BY <2>1, <2>2, <2>3
    <2>7. \A v \in Workers \ {w} : wpc'[v] = wpc[v] /\ wpc[v] \notin Inside
      BY <1>1, <1>3, <2>1 DEF Inside
    <2>. QED
      BY <1>1, <2>1, <2>3, <2>4, <2>5, <2>6, <2>7 DEF ServingInv, Inside
  <1>7. CASE ReceiveCount(w)
    <2>1. /\ UNCHANGED <<mpc, slots, wRequest, wIndex, taken>>
          /\ wpc[w] = "count" /\ wpc' = [wpc EXCEPT ![w] = "unlock"]
          /\ added' = Append(added, wRequest[w])
          /\ server' = [server EXCEPT !.requestQueueCount = @ + 1]
      BY <1>7 DEF ReceiveCount
    <2>2. MutexInv' /\ wpc'[w] # "stuck"
      BY <2>1, WorkerKeepsMutex DEF ServingInv
    <2>3. server'.requestQueueCount <= Capacity
      <3>1. HasRoom
        BY <2>1 DEF ServingInv
      <3>2. server'.requestQueueCount = server.requestQueueCount + 1
        BY <2>1, Counted DEF TypeOK
      <3>. QED
        BY <1>2, <3>1, <3>2, StartupAssumption DEF HasRoom
    <2>4. added' = taken' \o Ring'
      <3>. DEFINE S == Requests \cup {None}
      <3>1. Ring' = Append(Ring, wRequest[w])
        BY <1>7, RingGrows
      <3>2. /\ wRequest[w] \in S /\ taken \in Seq(S)
            /\ Ring \in Seq(S) /\ added = taken \o Ring
        BY RingShape DEF TypeOK, ServingInv
      <3>3. Append(taken \o Ring, wRequest[w]) = (taken \o Ring) \o <<wRequest[w]>>
        BY <3>2, AppendIsConcat, ConcatProperties
      <3>4. Append(Ring, wRequest[w]) = Ring \o <<wRequest[w]>> /\ <<wRequest[w]>> \in Seq(S)
        BY <3>2, AppendIsConcat
      <3>. QED
        BY <2>1, <3>1, <3>2, <3>3, <3>4, ConcatAssociative
    <2>5. \A v \in Workers : wpc'[v] \notin {"store", "count"}
      BY <1>1, <1>3, <2>1 DEF Inside
    <2>. QED
      BY <2>1, <2>2, <2>3, <2>4, <2>5 DEF ServingInv
  <1>. QED
    BY <1>4, <1>5, <1>6, <1>7 DEF Worker

\* A handler's step keeps the invariant.
LEMMA WorkerKeepsStart ==
  ASSUME TypeOK, StartInv, Running, NEW w \in Workers, Worker(w), TypeOK', SetInv'
  PROVE  StartInv'
  <1>1. CASE raced'
    BY <1>1 DEF StartInv
  <1>2. CASE ~raced'
    <2>1. ~raced
      BY <1>2 DEF Worker, HttpRequest, ReceiveLock, ReceiveCheck, ReceiveStore,
             ReceiveCount, ReceiveUnlock
    <2>2. /\ SetInv /\ \A v \in Workers : wpc[v] # "stuck"
          /\ ~Ready => EarlyInv
          /\ Ready => ServingInv
      BY <2>1 DEF StartInv
    <2>3. /\ mpc' = mpc /\ wpc'[w] # "stuck"
          /\ ~Ready => EarlyInv'
          /\ Ready => ServingInv'
      BY <1>2, <2>2, WorkerKeepsEarly, WorkerKeepsServing
    <2>4. \A v \in Workers \ {w} : wpc'[v] = wpc[v]
      BY DEF Worker, HttpRequest, ReceiveLock, ReceiveCheck, ReceiveStore,
             ReceiveCount, ReceiveUnlock, WGoto, TypeOK
    <2>. QED
      BY <2>2, <2>3, <2>4 DEF StartInv, Ready, Running
  <1>. QED
    BY <1>1, <1>2

\* Every step of the program does.
LEMMA StepKeepsStart == Inv /\ [Next]_vars => Inv'
  <1>. SUFFICES ASSUME TypeOK, StartInv, [Next]_vars PROVE Inv'
    BY DEF Inv
  <1>. SetInv
    BY DEF StartInv
  <1>1. CASE UNCHANGED vars
    <2>. USE <1>1 DEF vars, webVars, workerVars, history
    <2>1. TypeOK' /\ SetInv'
      BY DEF TypeOK, SetInv, Ready
    <2>2. Ring' = Ring /\ HasRoom' = HasRoom /\ MutexInv' = MutexInv
      BY DEF Ring, HasRoom, MutexInv
    <2>3. EarlyInv => EarlyInv'
      BY <2>2 DEF EarlyInv
    <2>4. ServingInv => ServingInv'
      BY <2>2 DEF ServingInv
    <2>. QED
      BY <2>1, <2>3, <2>4 DEF Inv, StartInv, Ready
  <1>2. CASE Running /\ MainThread
    <2>1. TypeOK' /\ SetInv'
      BY <1>2, MainKeepsTypes
    <2>2. CASE raced'
      BY <2>1, <2>2 DEF Inv, StartInv
    <2>. QED
      BY <1>2, <2>1, <2>2, MainKeepsStart DEF Inv
  <1>3. CASE Running /\ \E w \in Workers : Worker(w)
    BY <1>3, WorkerKeepsTypes, WorkerKeepsStart DEF Inv
  <1>. QED
    BY <1>1, <1>2, <1>3 DEF Next

\* The invariant rules out every harm.
LEMMA StartIsSound == Inv => OnlyRacesHarm
  <1>. SUFFICES ASSUME TypeOK, StartInv, ~raced PROVE Sound
    BY DEF Inv, OnlyRacesHarm
  <1>. DEFINE inside == {w \in Workers : wpc[w] \in Inside}
  <1>1. /\ mpc # "crashed" /\ \A w \in Workers : wpc[w] # "stuck"
        /\ ~Ready => EarlyInv
        /\ Ready => ServingInv
    BY DEF StartInv
  <1>2. /\ \A v, w \in inside : v = w
        /\ mpc = "take" => inside = {}
    BY <1>1, Threads DEF EarlyInv, ServingInv, MutexInv, Ready
  <1>3. Cardinality(inside) + (IF mpc = "take" THEN 1 ELSE 0) <= 1
    <2>1. CASE inside = {}
      BY <2>1, FS_EmptySet
    <2>2. CASE inside # {}
      <3>1. PICK w \in inside : inside = {w}
        BY <1>2, <2>2
      <3>2. mpc # "take"
        BY <1>2, <2>2
      <3>3. Cardinality(inside) = 1
        BY <3>1, FS_Singleton
      <3>. QED
        BY <3>2, <3>3
    <2>. QED
      BY <2>1, <2>2
  <1>4. Ready => added = taken \o Ring
    BY <1>1 DEF ServingInv
  <1>. QED
    BY <1>1, <1>3, <1>4 DEF Sound

\* What init() has set stays set; and without a race nothing is accepted before
\* it has ended, and from then on each thread's checks hold until it acts.
THEOREM StartCorrect == Spec => []StartInv
  <1>1. Init => Inv
    BY TypeInit, StartInit DEF Inv
  <1>2. Inv => StartInv
    BY DEF Inv
  <1>. QED
    BY <1>1, <1>2, StepKeepsStart, PTL DEF Spec

\* Whatever main's stack held, unless a handler uses the struct while init() works
\* on it, or before on a stack that was not zero, the queue that DeviceServer.c:37
\* leaves behind is the one RequestQueue and HomeControl begin with: nothing
\* accepted is lost, no thread is stuck, the mutex keeps them apart.
THEOREM SoundStartUp == Spec => []OnlyRacesHarm
  <1>1. Init => Inv
    BY TypeInit, StartInit DEF Inv
  <1>. QED
    BY <1>1, StartIsSound, StepKeepsStart, PTL DEF Spec
==============================================================================
