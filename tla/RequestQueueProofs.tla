------------------------- MODULE RequestQueueProofs --------------------------
(***************************************************************************)
(* Theorems about RequestQueue, for every set of workers and requests and  *)
(* every capacity: type correctness, the inductive invariant QueueInv      *)
(* (mutual exclusion and what each thread may rely on between its steps),  *)
(* and that the ring implements RequestFifo.                               *)
(***************************************************************************)
EXTENDS RequestQueue, SequenceTheorems, TLAPS

(* Index arithmetic: what % does to the sums the ring forms.               *)

\* Different distances below the capacity lead to different slots.
LEMMA WindowInjective ==
  \A s, i, j \in Slots : i # j => (s + i) % Capacity # (s + j) % Capacity
  BY QueueAssumption DEF Slots

\* Moving the start on by one moves every later position on by one.
LEMMA ShiftStart ==
  \A s, i \in Slots : (((s + 1) % Capacity) + i) % Capacity = (s + (i + 1)) % Capacity
  <1>. SUFFICES ASSUME NEW s \in Slots, NEW i \in Slots
                PROVE  (((s + 1) % Capacity) + i) % Capacity = (s + (i + 1)) % Capacity
    OBVIOUS
  <1>1. (s + 1) % Capacity = IF s + 1 < Capacity THEN s + 1 ELSE 0
    BY QueueAssumption DEF Slots
  <1>2. CASE s + 1 < Capacity
    BY <1>1, <1>2, QueueAssumption DEF Slots
  <1>3. CASE s + 1 = Capacity
    <2>1. (((s + 1) % Capacity) + i) % Capacity = i
      BY <1>1, <1>3, QueueAssumption DEF Slots
    <2>2. (s + (i + 1)) % Capacity = i
      BY <1>3, QueueAssumption DEF Slots
    <2>. QED
      BY <2>1, <2>2
  <1>. QED
    BY <1>2, <1>3, QueueAssumption DEF Slots

-----------------------------------------------------------------------------
(* The inductive invariant.                                                *)

Inv == TypeOK /\ QueueInv

\* The invariant holds of the queue init() leaves.
LEMMA InvInit == Init => Inv
  <1>. SUFFICES ASSUME Init PROVE Inv
    OBVIOUS
  <1>. USE QueueAssumption DEF Init
  <1>. 0 \in Slots /\ 0 \in 0 .. Capacity
    BY DEF Slots
  <1>1. TypeOK
    BY DEF TypeOK, WorkerInside, DrainInside
  <1>2. MutexInv /\ ReceiveInv
    BY DEF MutexInv, ReceiveInv, WorkerInside, DrainInside
  <1>3. DrainInv
    BY DEF DrainInv, Stored
  <1>. QED
    BY <1>1, <1>2, <1>3 DEF Inv, QueueInv

\* A step of a worker keeps the invariant.
LEMMA WorkerKeepsInv ==
  ASSUME Inv, NEW w \in Workers,
         (\E r \in Requests : HttpRequest(w, r)) \/ Worker(w)
  PROVE  Inv'
  <1>. USE QueueAssumption
       DEF Inv, TypeOK, QueueInv, MutexInv, ReceiveInv, DrainInv, WorkerInside,
           DrainInside, WGoto, queueVars, workerVars, drainVars
  <1>1. ASSUME NEW r \in Requests, HttpRequest(w, r) PROVE Inv'
    BY <1>1 DEF HttpRequest, TailIndex, Stored, SlotOf
  <1>2. CASE ReceiveLock(w)
    <2>1. TypeOK' /\ MutexInv'
      BY <1>2 DEF ReceiveLock
    <2>2. ReceiveInv'
      BY <1>2 DEF ReceiveLock, TailIndex
    <2>3. DrainInv'
      BY <1>2 DEF ReceiveLock, Stored, SlotOf
    <2>. QED
      BY <2>1, <2>2, <2>3
  <1>3. CASE ReceiveCheck(w)
    <2>. TailIndex \in Slots
      BY DEF TailIndex, Slots
    <2>1. TypeOK'
      <3>1. wIndex' = wIndex \/ wIndex' = [wIndex EXCEPT ![w] = TailIndex]
        BY <1>3 DEF ReceiveCheck
      <3>2. wIndex' \in [Workers -> Slots]
        BY <3>1
      <3>3. wResult' \in [Workers -> BOOLEAN]
        BY <1>3 DEF ReceiveCheck
      <3>4. wpc' \in [Workers -> WorkerInside \cup {"idle", "lock", "respond"}]
        BY <1>3 DEF ReceiveCheck
      <3>. QED
        BY <1>3, <3>2, <3>3, <3>4 DEF ReceiveCheck
    <2>2. MutexInv'
      BY <1>3 DEF ReceiveCheck
    <2>3. ReceiveInv'
      BY <1>3 DEF ReceiveCheck, HasRoom, TailIndex
    <2>4. DrainInv'
      BY <1>3 DEF ReceiveCheck, Stored, SlotOf
    <2>. QED
      BY <2>1, <2>2, <2>3, <2>4
  <1>4. CASE ReceiveStore(w)
    <2>1. TypeOK' /\ MutexInv'
      BY <1>4 DEF ReceiveStore
    <2>2. ReceiveInv'
      BY <1>4 DEF ReceiveStore, TailIndex
    <2>3. DrainInv'
      BY <1>4 DEF ReceiveStore, Stored, SlotOf
    <2>. QED
      BY <2>1, <2>2, <2>3
  <1>5. CASE ReceiveCount(w)
    <2>1. TypeOK'
      BY <1>5 DEF ReceiveCount
    <2>2. MutexInv'
      BY <1>5 DEF ReceiveCount
    <2>3. ReceiveInv'
      BY <1>5 DEF ReceiveCount, TailIndex
    <2>4. DrainInv'
      <3>1. Stored = requestQueueCount /\ Stored' = requestQueueCount + 1
        BY <1>5 DEF ReceiveCount, Stored
      <3>2. requestQueue[SlotOf(Stored + 1)] \in Requests
        BY <1>5, <3>1 DEF ReceiveCount, SlotOf, TailIndex
      <3>3. \A i \in 1 .. Stored' : requestQueue'[SlotOf(i)'] \in Requests
        BY <1>5, <3>1, <3>2 DEF ReceiveCount, SlotOf
      <3>. QED
        BY <1>5, <3>3 DEF ReceiveCount
    <2>. QED
      BY <2>1, <2>2, <2>3, <2>4
  <1>6. CASE ReceiveUnlock(w)
    <2>1. TypeOK' /\ MutexInv'
      BY <1>6 DEF ReceiveUnlock
    <2>2. ReceiveInv'
      BY <1>6 DEF ReceiveUnlock, TailIndex
    <2>3. DrainInv'
      BY <1>6 DEF ReceiveUnlock, Stored, SlotOf
    <2>. QED
      BY <2>1, <2>2, <2>3
  <1>7. CASE Respond(w)
    <2>. 0 \in Slots
      BY DEF Slots
    <2>1. TypeOK' /\ MutexInv'
      BY <1>7 DEF Respond
    <2>2. ReceiveInv'
      BY <1>7 DEF Respond, TailIndex
    <2>3. DrainInv'
      BY <1>7 DEF Respond, Stored, SlotOf
    <2>. QED
      BY <2>1, <2>2, <2>3
  <1>. QED
    BY <1>1, <1>2, <1>3, <1>4, <1>5, <1>6, <1>7 DEF Worker

\* Moving requestQueueStart on makes the second oldest request the oldest.
LEMMA AdvanceShifts ==
  ASSUME TypeOK, DrainAdvance
  PROVE  \A i \in 1 .. requestQueueCount - 1 : SlotOf(i)' = SlotOf(i + 1)
  <1>. SUFFICES ASSUME NEW i \in 1 .. requestQueueCount - 1
                PROVE  SlotOf(i)' = SlotOf(i + 1)
    OBVIOUS
  <1>. USE QueueAssumption DEF TypeOK
  <1>1. i - 1 \in Slots
    BY DEF Slots
  <1>2. (((requestQueueStart + 1) % Capacity) + (i - 1)) % Capacity
          = (requestQueueStart + ((i - 1) + 1)) % Capacity
    BY <1>1, ShiftStart
  <1>3. SlotOf(i)' = (((requestQueueStart + 1) % Capacity) + (i - 1)) % Capacity
    <2>1. requestQueueStart' = (requestQueueStart + 1) % Capacity
      BY DEF DrainAdvance
    <2>2. requestQueueStart' + i - 1 = requestQueueStart' + (i - 1)
      BY <2>1 DEF Slots
    <2>. QED
      BY <2>1, <2>2 DEF SlotOf
  <1>4. requestQueueStart + (i + 1) - 1 = requestQueueStart + ((i - 1) + 1)
    BY DEF Slots
  <1>. QED
    BY <1>2, <1>3, <1>4 DEF SlotOf

\* A step of the device thread keeps the invariant.
LEMMA DrainKeepsInv ==
  ASSUME Inv, Drain
  PROVE  Inv'
  <1>. USE QueueAssumption
       DEF Inv, TypeOK, QueueInv, MutexInv, ReceiveInv, DrainInv, WorkerInside,
           DrainInside, DGoto, queueVars, workerVars, drainVars
  <1>1. CASE ServeSocket
    BY <1>1 DEF ServeSocket, TailIndex, Stored, SlotOf
  <1>2. CASE DrainLock
    BY <1>2 DEF DrainLock, TailIndex, Stored, SlotOf
  <1>3. CASE DrainCheck
    <2>1. TypeOK' /\ MutexInv'
      BY <1>3 DEF DrainCheck
    <2>2. ReceiveInv'
      BY <1>3 DEF DrainCheck, TailIndex
    <2>3. DrainInv'
      BY <1>3 DEF DrainCheck, Stored, SlotOf
    <2>. QED
      BY <2>1, <2>2, <2>3
  <1>4. CASE DrainLoad
    <2>1. dRequest' = requestQueue[requestQueueStart] /\ dRequest' \in Requests
      <3>1. SlotOf(1) = requestQueueStart
        BY DEF SlotOf, Slots
      <3>. QED
        BY <1>4, <3>1 DEF DrainLoad, Stored
    <2>. QED
      BY <1>4, <2>1 DEF DrainLoad, TailIndex, Stored, SlotOf
  <1>5. CASE DrainAdvance
    <2>1. requestQueueStart' \in Slots
      BY <1>5 DEF DrainAdvance, Slots
    <2>2. TypeOK' /\ MutexInv' /\ ReceiveInv'
      BY <1>5, <2>1 DEF DrainAdvance
    <2>3. Stored' = Stored - 1 /\ Stored = requestQueueCount
      BY <1>5 DEF DrainAdvance, Stored
    <2>4. \A i \in 1 .. Stored' : SlotOf(i)' = SlotOf(i + 1)
      BY <1>5, <2>3, AdvanceShifts
    <2>5. \A i \in 1 .. Stored' : requestQueue'[SlotOf(i)'] \in Requests
      BY <1>5, <2>3, <2>4 DEF DrainAdvance
    <2>6. DrainInv'
      BY <1>5, <2>5 DEF DrainAdvance
    <2>. QED
      BY <2>2, <2>6
  <1>6. CASE DrainCount
    <2>1. Stored' = Stored
      BY <1>6 DEF DrainCount, Stored
    <2>. QED
      BY <1>6, <2>1 DEF DrainCount, SlotOf
  <1>7. CASE DrainUnlock
    BY <1>7 DEF DrainUnlock, TailIndex, Stored, SlotOf
  <1>8. CASE DrainWrite
    BY <1>8 DEF DrainWrite, TailIndex, Stored, SlotOf
  <1>. QED
    BY <1>1, <1>2, <1>3, <1>4, <1>5, <1>6, <1>7, <1>8 DEF Drain

-----------------------------------------------------------------------------
(* What follows for every behaviour.                                       *)

\* So every step keeps it.
LEMMA StepKeepsInv == Inv /\ [Next]_vars => Inv'
  <1>. SUFFICES ASSUME Inv, [Next]_vars PROVE Inv'
    OBVIOUS
  <1>1. CASE UNCHANGED vars
    BY <1>1 DEF Inv, TypeOK, QueueInv, MutexInv, ReceiveInv, DrainInv, vars,
                queueVars, workerVars, drainVars, TailIndex, Stored, SlotOf
  <1>. QED
    BY <1>1, WorkerKeepsInv, DrainKeepsInv DEF Next

\* The inductive invariant holds in every reachable state.
LEMMA InvAlways == Spec => []Inv
  BY InvInit, StepKeepsInv, PTL DEF Spec

\* Whatever the workers and the device thread interleave, the ring's indices
\* stay inside the ring and the count between 0 and the capacity.
THEOREM TypeCorrect == Spec => []TypeOK
  <1>1. Inv => TypeOK
    BY DEF Inv
  <1>. QED
    BY <1>1, InvAlways, PTL

\* requestMutex excludes the threads from one another, and what a thread has
\* read from the ring under the mutex is still true when it acts on it.
THEOREM QueueCorrect == Spec => []QueueInv
  <1>1. Inv => QueueInv
    BY DEF Inv
  <1>. QED
    BY <1>1, InvAlways, PTL

-----------------------------------------------------------------------------
(* The ring implements the bounded FIFO.                                   *)

Held == IF dpc \in {"count", "unlock", "write"} THEN dRequest ELSE None
Verdicts == [w \in Workers |-> Verdict(w)]

\* The queue init() leaves is the FIFO's initial state.
LEMMA InitRefines == Init => Fifo!Init
  <1>. SUFFICES ASSUME Init PROVE Fifo!Init
    OBVIOUS
  <1>1. Pending = <<>>
    BY DEF Init, Pending, Stored
  <1>. QED
    BY <1>1 DEF Init, Fifo!Init, Verdict

\* What the ring stores is a sequence of requests, as long as the count says.
LEMMA PendingSeq ==
  ASSUME Inv
  PROVE  /\ Pending \in Seq(Requests)
         /\ Len(Pending) = Stored
         /\ Stored \in 0 .. Capacity
         /\ \A i \in 1 .. Stored : Pending[i] = requestQueue[SlotOf(i)]
  <1>1. Stored \in 0 .. Capacity
    BY QueueAssumption DEF Inv, TypeOK, QueueInv, DrainInv, Stored
  <1>2. \A i \in 1 .. Stored : requestQueue[SlotOf(i)] \in Requests
    BY DEF Inv, QueueInv, DrainInv
  <1>3. Pending \in [1 .. Stored -> Requests]
    BY <1>2 DEF Pending
  <1>. QED
    BY <1>1, <1>3, QueueAssumption DEF Pending

\* Append, written the way Pending is.
LEMMA AppendAsFunction ==
  ASSUME NEW S, NEW seq \in Seq(S), NEW e \in S
  PROVE  Append(seq, e) =
           [i \in 1 .. Len(seq) + 1 |-> IF i = Len(seq) + 1 THEN e ELSE seq[i]]
  <1>1. Append(seq, e) \in [1 .. Len(seq) + 1 -> S]
    BY AppendProperties, LenProperties
  <1>2. \A i \in 1 .. Len(seq) + 1 :
          Append(seq, e)[i] = IF i = Len(seq) + 1 THEN e ELSE seq[i]
    BY AppendProperties, LenProperties
  <1>. QED
    BY <1>1, <1>2

\* Tail, written the way Pending is.
LEMMA TailAsFunction ==
  ASSUME NEW S, NEW seq \in Seq(S), seq # <<>>
  PROVE  Tail(seq) = [i \in 1 .. Len(seq) - 1 |-> seq[i + 1]]
  <1>1. Tail(seq) \in [1 .. Len(seq) - 1 -> S]
    BY HeadTailProperties, LenProperties
  <1>2. \A i \in 1 .. Len(seq) - 1 : Tail(seq)[i] = seq[i + 1]
    BY HeadTailProperties
  <1>. QED
    BY <1>1, <1>2

\* Two states whose rings agree on the stored window have the same Pending.
LEMMA SamePending ==
  ASSUME Stored' = Stored, requestQueueStart' = requestQueueStart,
         \A i \in 1 .. Stored : requestQueue'[SlotOf(i)] = requestQueue[SlotOf(i)]
  PROVE  Pending' = Pending
  BY DEF Pending, SlotOf

\* Each step of a worker is a step of the FIFO or changes nothing it can see.
LEMMA WorkerRefines ==
  ASSUME Inv, Inv', NEW w \in Workers,
         (\E r \in Requests : HttpRequest(w, r)) \/ Worker(w)
  PROVE  [Fifo!Next]_(Fifo!fifoVars)
  <1>. USE DEF WGoto, queueVars, workerVars, drainVars
  <1>1. ASSUME NEW r \in Requests, HttpRequest(w, r) PROVE Fifo!Call(w, r)
    <2>1. Pending' = Pending
      BY <1>1, SamePending DEF HttpRequest, Stored
    <2>2. wRequest[w] = None /\ wRequest' = [wRequest EXCEPT ![w] = r]
      BY <1>1 DEF HttpRequest, Inv, QueueInv, ReceiveInv
    <2>3. \A v \in Workers : Verdict(v)' = Verdict(v)
      BY <1>1 DEF HttpRequest, Verdict, Inv, TypeOK
    <2>. QED
      BY <1>1, <2>1, <2>2, <2>3 DEF Fifo!Call, HttpRequest
  <1>2. CASE ReceiveLock(w)
    <2>1. Pending' = Pending
      BY <1>2, SamePending DEF ReceiveLock, Stored
    <2>2. \A v \in Workers : Verdict(v)' = Verdict(v)
      BY <1>2 DEF ReceiveLock, Verdict, Inv, TypeOK
    <2>. QED
      BY <1>2, <2>1, <2>2 DEF Fifo!fifoVars, ReceiveLock
  <1>3. CASE ReceiveCheck(w) /\ HasRoom
    <2>1. Pending' = Pending
      BY <1>3, SamePending DEF ReceiveCheck, Stored
    <2>2. \A v \in Workers : Verdict(v)' = Verdict(v)
      BY <1>3 DEF ReceiveCheck, Verdict, Inv, TypeOK
    <2>. QED
      BY <1>3, <2>1, <2>2 DEF Fifo!fifoVars, ReceiveCheck
  <1>4. CASE ReceiveCheck(w) /\ ~HasRoom
    <2>1. Pending' = Pending
      BY <1>4, SamePending DEF ReceiveCheck, Stored
    <2>2. Len(Pending) = Capacity
      <3>1. requestQueueCount = Capacity
        BY <1>4, QueueAssumption DEF HasRoom, Inv, TypeOK
      <3>2. dpc # "count"
        BY <1>4, QueueAssumption DEF ReceiveCheck, Inv, QueueInv, MutexInv,
                                     WorkerInside, DrainInside
      <3>. QED
        BY <3>1, <3>2, PendingSeq DEF Stored
    <2>3. Verdicts' = [Verdicts EXCEPT ![w] = "refused"] /\ Verdicts[w] = "none"
      BY <1>4 DEF ReceiveCheck, Verdicts, Verdict, Inv, TypeOK
    <2>4. wRequest[w] # None
      BY <1>4, QueueAssumption DEF ReceiveCheck, Inv, QueueInv, ReceiveInv
    <2>5. Fifo!Refuse(w)
      BY <1>4, <2>1, <2>2, <2>3, <2>4 DEF Fifo!Refuse, ReceiveCheck, Verdicts
    <2>. QED
      BY <2>5 DEF Fifo!Next
  <1>5. CASE ReceiveStore(w)
    <2>1. Pending' = Pending
      <3>1. dpc # "count" /\ requestQueueCount < Capacity /\ wIndex[w] = TailIndex
        BY <1>5, QueueAssumption DEF ReceiveStore, Inv, QueueInv, MutexInv,
                            ReceiveInv, WorkerInside, DrainInside
      <3>2. ASSUME NEW i \in 1 .. Stored PROVE SlotOf(i) # TailIndex
        <4>1. i - 1 \in Slots /\ requestQueueCount \in Slots /\ i - 1 # requestQueueCount
          BY <3>1, QueueAssumption DEF Stored, Inv, TypeOK, Slots
        <4>2. (requestQueueStart + (i - 1)) % Capacity # TailIndex
          BY <4>1, WindowInjective DEF TailIndex, Inv, TypeOK
        <4>3. requestQueueStart + i - 1 = requestQueueStart + (i - 1)
          BY QueueAssumption DEF Inv, TypeOK, Slots
        <4>. QED
          BY <4>2, <4>3 DEF SlotOf
      <3>. QED
        BY <1>5, <3>1, <3>2, SamePending DEF ReceiveStore, Stored, Inv, TypeOK
    <2>2. \A v \in Workers : Verdict(v)' = Verdict(v)
      BY <1>5 DEF ReceiveStore, Verdict, Inv, TypeOK
    <2>. QED
      BY <1>5, <2>1, <2>2 DEF Fifo!fifoVars, ReceiveStore
  <1>6. CASE ReceiveCount(w)
    <2>1. /\ Stored = requestQueueCount /\ Stored' = Stored + 1
          /\ Stored < Capacity /\ requestQueue[TailIndex] = wRequest[w]
      BY <1>6, QueueAssumption DEF ReceiveCount, Stored, Inv, QueueInv, MutexInv,
                          ReceiveInv, WorkerInside, DrainInside
    <2>2. Pending' = Append(Pending, wRequest[w])
      <3>1. \A i \in 1 .. Stored' : Pending'[i] = requestQueue[SlotOf(i)]
        BY <1>6 DEF ReceiveCount, Pending, SlotOf
      <3>2. SlotOf(Stored + 1) = TailIndex
        BY <2>1, QueueAssumption DEF SlotOf, TailIndex, Inv, TypeOK, Slots
      <3>3. Pending' = [i \in 1 .. Stored + 1 |->
                          IF i = Stored + 1 THEN wRequest[w] ELSE Pending[i]]
        BY <2>1, <3>1, <3>2, PendingSeq DEF Pending
      <3>4. wRequest[w] \in Requests
        BY <1>6 DEF ReceiveCount, Inv, QueueInv, ReceiveInv
      <3>. QED
        BY <3>3, <3>4, PendingSeq, AppendAsFunction
    <2>3. Verdicts' = [Verdicts EXCEPT ![w] = "accepted"] /\ Verdicts[w] = "none"
      BY <1>6 DEF ReceiveCount, Verdicts, Verdict, Inv, TypeOK
    <2>4. wRequest[w] # None
      BY <1>6, QueueAssumption DEF ReceiveCount, Inv, QueueInv, ReceiveInv
    <2>5. Fifo!Accept(w)
      BY <1>6, <2>1, <2>2, <2>3, <2>4, PendingSeq
         DEF Fifo!Accept, ReceiveCount, Verdicts
    <2>. QED
      BY <2>5 DEF Fifo!Next
  <1>7. CASE ReceiveUnlock(w)
    <2>1. Pending' = Pending
      BY <1>7, SamePending DEF ReceiveUnlock, Stored
    <2>2. \A v \in Workers : Verdict(v)' = Verdict(v)
      BY <1>7 DEF ReceiveUnlock, Verdict, Inv, TypeOK
    <2>. QED
      BY <1>7, <2>1, <2>2 DEF Fifo!fifoVars, ReceiveUnlock
  <1>8. CASE Respond(w)
    <2>1. Pending' = Pending
      BY <1>8, SamePending DEF Respond, Stored
    <2>2. Verdicts' = [Verdicts EXCEPT ![w] = "none"] /\ Verdicts[w] # "none"
      BY <1>8 DEF Respond, Verdicts, Verdict, Inv, TypeOK
    <2>3. Fifo!Return(w)
      BY <1>8, <2>1, <2>2 DEF Fifo!Return, Respond, Verdicts
    <2>. QED
      BY <2>3 DEF Fifo!Next
  <1>. QED
    BY <1>1, <1>2, <1>3, <1>4, <1>5, <1>6, <1>7, <1>8 DEF Worker, Fifo!Next

\* So does each step of the device thread.
LEMMA DrainRefines ==
  ASSUME Inv, Inv', Drain
  PROVE  [Fifo!Next]_(Fifo!fifoVars)
  <1>. USE DEF DGoto, queueVars, workerVars, drainVars
  <1>1. wpc' = wpc /\ wResult' = wResult /\ wRequest' = wRequest
    BY DEF Drain, ServeSocket, DrainLock, DrainCheck, DrainLoad, DrainAdvance,
           DrainCount, DrainUnlock, DrainWrite
  <1>2. Verdicts' = Verdicts
    BY <1>1 DEF Verdicts, Verdict
  <1>3. CASE ServeSocket \/ DrainLock \/ DrainCheck \/ DrainLoad
    <2>1. Pending' = Pending
      BY <1>3, SamePending DEF ServeSocket, DrainLock, DrainCheck, DrainLoad, Stored
    <2>2. Held' = Held
      <3>1. dpc \notin {"count", "unlock", "write"}
        BY <1>3 DEF ServeSocket, DrainLock, DrainCheck, DrainLoad
      <3>2. dpc' \in {"lock", "check", "load", "advance", "unlock"}
        BY <1>3 DEF ServeSocket, DrainLock, DrainCheck, DrainLoad
      <3>3. dpc' = "unlock" => dRequest' = None
        BY <1>3 DEF ServeSocket, DrainLock, DrainCheck, DrainLoad, Inv, QueueInv,
                    DrainInv
      <3>. QED
        BY <3>1, <3>2, <3>3 DEF Held
    <2>. QED
      BY <1>1, <1>2, <2>1, <2>2 DEF Fifo!fifoVars, Held, Verdicts
  <1>4. CASE DrainAdvance
    <2>1. /\ Stored = requestQueueCount /\ Stored' = Stored - 1 /\ Stored > 0
          /\ dRequest = requestQueue[requestQueueStart] /\ dRequest \in Requests
      BY <1>4, QueueAssumption DEF DrainAdvance, Stored, Inv, TypeOK, QueueInv, DrainInv
    <2>2. Head(Pending) = dRequest
      <3>1. SlotOf(1) = requestQueueStart
        <4>1. requestQueueStart \in Slots
          BY DEF Inv, TypeOK
        <4>2. requestQueueStart % Capacity = requestQueueStart
          BY <4>1, QueueAssumption DEF Slots
        <4>3. requestQueueStart + 1 - 1 = requestQueueStart
          BY <4>1, QueueAssumption DEF Slots
        <4>. QED
          BY <4>2, <4>3 DEF SlotOf
      <3>. QED
        BY <2>1, <3>1, PendingSeq
    <2>3. Pending # <<>>
      BY <2>1, PendingSeq
    <2>4. Pending' = Tail(Pending)
      <3>1. \A i \in 1 .. Stored - 1 : SlotOf(i)' = SlotOf(i + 1)
        BY <1>4, <2>1, AdvanceShifts DEF Inv
      <3>2. Pending' = [i \in 1 .. Stored - 1 |-> Pending[i + 1]]
        BY <1>4, <2>1, <3>1, PendingSeq DEF Pending, DrainAdvance
      <3>. QED
        BY <3>2, <2>3, PendingSeq, TailAsFunction
    <2>5. Held = None /\ Held' = dRequest
      BY <1>4 DEF Held, DrainAdvance
    <2>6. Fifo!Take
      BY <1>1, <1>2, <2>2, <2>3, <2>4, <2>5 DEF Fifo!Take, Held, Verdicts
    <2>. QED
      BY <2>6 DEF Fifo!Next
  <1>5. CASE DrainCount \/ DrainUnlock
    <2>1. Pending' = Pending
      BY <1>5, SamePending DEF DrainCount, DrainUnlock, Stored
    <2>2. Held' = Held
      BY <1>5 DEF DrainCount, DrainUnlock, Held, Inv, TypeOK, QueueInv, DrainInv
    <2>. QED
      BY <1>1, <1>2, <2>1, <2>2 DEF Fifo!fifoVars, Held, Verdicts
  <1>6. CASE DrainWrite
    <2>1. Pending' = Pending
      BY <1>6, SamePending DEF DrainWrite, Stored
    <2>2. Held # None /\ Held' = None
      BY <1>6, QueueAssumption DEF DrainWrite, Held, Inv, QueueInv, DrainInv
    <2>3. Fifo!Release
      BY <1>1, <1>2, <2>1, <2>2 DEF Fifo!Release, Held, Verdicts
    <2>. QED
      BY <2>3 DEF Fifo!Next
  <1>. QED
    BY <1>3, <1>4, <1>5, <1>6 DEF Drain

\* The ring behind the mutex is a bounded FIFO, whatever the threads do: a
\* request is accepted exactly when there is room, and what was accepted comes
\* out once, unchanged and in order.
THEOREM Refinement == Spec => ImplementsFifo
  <1>1. Inv /\ Inv' /\ [Next]_vars => [Fifo!Next]_(Fifo!fifoVars)
    <2>. SUFFICES ASSUME Inv, Inv', [Next]_vars
                  PROVE  [Fifo!Next]_(Fifo!fifoVars)
      OBVIOUS
    <2>1. CASE UNCHANGED vars
      BY <2>1 DEF vars, queueVars, workerVars, drainVars, Fifo!fifoVars, Pending,
                  Stored, SlotOf, Verdict
    <2>. QED
      BY <2>1, WorkerRefines, DrainRefines DEF Next
  <1>. QED
    BY <1>1, InvAlways, InitRefines, PTL DEF Spec, ImplementsFifo, Fifo!Spec
==============================================================================
