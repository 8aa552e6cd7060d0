------------------------ MODULE HomeControlFlowProofs ------------------------
(***************************************************************************)
(* Theorems about HomeControl: the way of requests from the callers to the *)
(* LEDs, and the way of the device's messages back.                        *)
(***************************************************************************)
EXTENDS HomeControlProofs

(* The order of acceptance.                                                *)

\* A request is not accepted before itself.
LEMMA BeforeDistinct ==
  ASSUME FateInv, NEW q, NEW r, Before(q, r)
  PROVE  q # r
  BY DEF FateInv, Before

\* What is before another request has been accepted.
LEMMA AcceptedAppend ==
  ASSUME Types, NEW r \in Requests, accepted' = Append(accepted, r)
  PROVE  /\ Accepted' = Accepted \cup {r}
         /\ \A p, q : Before(p, q) => Before(p, q)'
         /\ \A p \in Accepted : Before(p, r)'
         /\ r \notin Accepted /\ (\A i, j \in 1 .. Len(accepted) : accepted[i] = accepted[j] => i = j)
              => \A i, j \in 1 .. Len(accepted') : accepted'[i] = accepted'[j] => i = j
  <1>. DEFINE n == Len(accepted)
  <1>1. accepted \in Seq(Requests) /\ n \in Nat
    BY LenProperties DEF Types, TypeOK
  <1>2. /\ Len(accepted') = n + 1 /\ accepted'[n + 1] = r
        /\ \A i \in 1 .. n : accepted'[i] = accepted[i]
    BY <1>1, AppendProperties
  <1>. HIDE DEF n
  <1>3. 1 .. n + 1 = (1 .. n) \cup {n + 1}
    BY <1>1
  <1>4. Accepted' = Accepted \cup {r}
    BY <1>2, <1>3 DEF Accepted, n
  <1>5. \A p, q : Before(p, q) => Before(p, q)'
    BY <1>1, <1>2 DEF Before, n
  <1>6. \A p \in Accepted : Before(p, r)'
    BY <1>1, <1>2 DEF Before, Accepted, n
  <1>7. r \notin Accepted /\ (\A i, j \in 1 .. n : accepted[i] = accepted[j] => i = j)
          => \A i, j \in 1 .. n + 1 : accepted'[i] = accepted'[j] => i = j
    BY <1>1, <1>2, <1>3 DEF Accepted, n
  <1>. QED
    BY <1>2, <1>4, <1>5, <1>6, <1>7 DEF n

\* What the requests of a stream are.
LEMMA RequestsOfProperties ==
  ASSUME NEW stream \in Seq(FromServer)
  PROVE  /\ RequestsOf(stream) \in Seq(Requests)
         /\ Len(RequestsOf(stream)) = Len(stream)
         /\ \A i \in 1 .. Len(stream) : RequestsOf(stream)[i] = stream[i].request
  <1>1. Len(stream) \in Nat /\ \A i \in 1 .. Len(stream) : stream[i] \in FromServer
    BY LenProperties, ElementOfSeq
  <1>2. \A m \in FromServer : m.request \in Requests
    BY DEF FromServer
  <1>. QED
    BY <1>1, <1>2 DEF RequestsOf

\* What is arriving at the device is what its connection c holds.
LEMMA ArrivingOf ==
  ASSUME NEW c \in Conns \cup {None}, NEW line \in [Conns -> Seq(FromServer)],
         NEW arriving, arriving = RequestsOf(IF c = None THEN <<>> ELSE line[c])
  PROVE  /\ arriving \in Seq(Requests) /\ Len(arriving) \in Nat
         /\ c = None => Len(arriving) = 0
         /\ c # None =>
              /\ Len(arriving) = Len(line[c])
              /\ \A i \in 1 .. Len(arriving) : arriving[i] = line[c][i].request
  <1>1. CASE c = None
    <2>1. <<>> \in Seq(FromServer) /\ Len(<<>>) = 0
      BY EmptySeq
    <2>2. arriving = RequestsOf(<<>>)
      BY <1>1
    <2>3. arriving \in Seq(Requests) /\ Len(arriving) = 0
      BY <2>1, <2>2, RequestsOfProperties
    <2>. QED
      BY <1>1, <2>3
  <1>2. CASE c # None
    <2>1. line[c] \in Seq(FromServer) /\ arriving = RequestsOf(line[c])
      BY <1>2
    <2>2. Len(line[c]) \in Nat
      BY <2>1, LenProperties
    <2>. QED
      BY <1>2, <2>1, <2>2, RequestsOfProperties
  <1>. QED
    BY <1>1, <1>2

\* In this state,
LEMMA ArrivingProperties ==
  ASSUME Types
  PROVE  /\ Arriving \in Seq(Requests) /\ Len(Arriving) \in Nat
         /\ client = None => Len(Arriving) = 0
         /\ client # None =>
              /\ Len(Arriving) = Len(toDevice[client])
              /\ \A i \in 1 .. Len(Arriving) : Arriving[i] = toDevice[client][i].request
  <1>1. client \in Conns \cup {None} /\ toDevice \in [Conns -> Seq(FromServer)]
    BY DEF Types, TypeOK
  <1>. QED
    BY <1>1, ArrivingOf DEF Arriving

\* and in the next.
LEMMA ArrivingPropertiesNext ==
  ASSUME Types'
  PROVE  /\ Arriving' \in Seq(Requests) /\ Len(Arriving') \in Nat
         /\ client' = None => Len(Arriving') = 0
         /\ client' # None =>
              /\ Len(Arriving') = Len(toDevice'[client'])
              /\ \A i \in 1 .. Len(Arriving') : Arriving'[i] = toDevice'[client'][i].request
  <1>1. client' \in Conns \cup {None} /\ toDevice' \in [Conns -> Seq(FromServer)]
    BY DEF Types, TypeOK
  <1>. QED
    BY <1>1, ArrivingOf DEF Arriving

\* Requests wherever they are.
LEMMA RequestTypes ==
  ASSUME Types
  PROVE  /\ \A i \in 1 .. Len(Arriving) : Arriving[i] \in Requests
         /\ \A i \in 1 .. Len(pending) : pending[i] \in Requests
         /\ held # None => held \in Requests
         /\ Accepted \subseteq Requests
         /\ sendAcknowledge => sendAcknowledgeNumber.request \in Requests
         /\ \A w \in Callers : asked[w] # None => asked[w] \in Requests
         /\ None \notin Requests /\ None \notin Conns
         /\ fate \in [Requests -> Fates]
  <1>. TypeOK /\ ConnectionInv
    BY DEF Types
  <1>1. \A i \in 1 .. Len(Arriving) : Arriving[i] \in Requests
    BY ArrivingProperties, ElementOfSeq
  <1>2. \A i \in 1 .. Len(pending) : pending[i] \in Requests
    BY ElementOfSeq DEF TypeOK
  <1>3. Accepted \subseteq Requests
    BY ElementOfSeq DEF TypeOK, Accepted
  <1>4. None \notin Requests /\ None \notin Conns
    BY LinkAssumption DEF None, Requests, Conns
  <1>5. sendAcknowledge => sendAcknowledgeNumber.request \in Requests
    BY DEF TypeOK, ConnectionInv
  <1>. QED
    BY <1>1, <1>2, <1>3, <1>4, <1>5 DEF TypeOK

\* A step takes the first k requests from those arriving, and some from the end.
ArrivingLoses(k) ==
  /\ Len(Arriving') + k <= Len(Arriving)
  /\ \A i \in 1 .. Len(Arriving') : Arriving'[i] = Arriving[i + k]

\* A step that puts nothing anywhere keeps the order.
LEMMA OrderKept ==
  ASSUME Types, Types', OrderInv, UNCHANGED accepted,
         NEW k \in Nat, ArrivingLoses(k),
         held' \in {held, None}, pending' \in {pending, <<>>},
         \A r \in Requests : Handled(r)' => Handled(r) \/ (k > 0 /\ r = Arriving[1])
  PROVE  OrderInv'
  <1>1. Len(Arriving) \in Nat /\ Len(Arriving') \in Nat /\ Len(pending) \in Nat
    BY ArrivingProperties, LenProperties DEF Types, TypeOK
  <1>2. \A p, q : Before(p, q)' <=> Before(p, q)
    BY DEF Before
  <1>3. \A i \in 1 .. Len(Arriving') :
          i + k \in 1 .. Len(Arriving) /\ Arriving'[i] = Arriving[i + k]
    BY <1>1 DEF ArrivingLoses
  <1>4. \A i \in 1 .. Len(pending') :
          i \in 1 .. Len(pending) /\ pending'[i] = pending[i]
    BY <1>1, EmptySeq
  <1>5. ASSUME NEW i \in 1 .. Len(Arriving'), NEW j \in 1 .. Len(Arriving'), i < j
        PROVE  Before(Arriving'[i], Arriving'[j])
    <2>1. i + k < j + k
      BY <1>1, <1>5
    <2>. QED
      BY <1>3, <2>1 DEF OrderInv
  <1>6. \A i, j \in 1 .. Len(pending') : i < j => Before(pending'[i], pending'[j])
    BY <1>4 DEF OrderInv
  <1>7. \A i \in 1 .. Len(Arriving'), j \in 1 .. Len(pending') :
          Before(Arriving'[i], pending'[j])
    BY <1>3, <1>4 DEF OrderInv
  <1>8. held' # None =>
          /\ \A i \in 1 .. Len(Arriving') : Before(Arriving'[i], held')
          /\ \A j \in 1 .. Len(pending') : Before(held', pending'[j])
    BY <1>3, <1>4 DEF OrderInv
  <1>9. ASSUME NEW r \in Requests, Handled(r)'
        PROVE  /\ \A i \in 1 .. Len(Arriving') : Before(r, Arriving'[i])
               /\ held' # None => Before(r, held')
               /\ \A j \in 1 .. Len(pending') : Before(r, pending'[j])
    <2>1. CASE Handled(r)
      BY <1>3, <1>4, <2>1 DEF OrderInv
    <2>2. CASE k > 0 /\ r = Arriving[1]
      <3>1. CASE Len(Arriving) = 0
        BY <1>9, <3>1, <2>2 DEF ArrivingLoses
      <3>2. CASE 1 \in 1 .. Len(Arriving)
        <4>1. \A i \in 1 .. Len(Arriving') : 1 < i + k
          BY <1>1, <2>2
        <4>. QED
          BY <1>3, <1>4, <2>2, <3>2, <4>1 DEF OrderInv
      <3>. QED
        BY <1>1, <3>1, <3>2
    <2>. QED
      BY <1>9, <2>1, <2>2
  <1>. QED
    BY <1>2, <1>5, <1>6, <1>7, <1>8, <1>9 DEF OrderInv

\* A step that changes no fate and puts nothing anywhere keeps the fates right.
LEMMA FateKept ==
  ASSUME Types, Types', FateInv, UNCHANGED <<asked, verdict, fate, accepted>>,
         NEW k \in Nat, ArrivingLoses(k),
         held' \in {held, None}, pending' \in {pending, <<>>},
         sendAcknowledge' =>
           sendAcknowledge /\ sendAcknowledgeNumber' = sendAcknowledgeNumber
  PROVE  FateInv'
  <1>1. Len(Arriving) \in Nat /\ Len(Arriving') \in Nat /\ Len(pending) \in Nat
    BY ArrivingProperties, LenProperties DEF Types, TypeOK
  <1>2. Accepted' = Accepted
    BY DEF Accepted
  <1>3. \A i \in 1 .. Len(Arriving') :
          i + k \in 1 .. Len(Arriving) /\ Arriving'[i] = Arriving[i + k]
    BY <1>1 DEF ArrivingLoses
  <1>4. \A i \in 1 .. Len(pending') :
          i \in 1 .. Len(pending) /\ pending'[i] = pending[i]
    BY <1>1, EmptySeq
  <1>5. \A i \in 1 .. Len(Arriving') : fate'[Arriving'[i]] = "sent"
    BY <1>3 DEF FateInv
  <1>6. \A i \in 1 .. Len(pending') : fate'[pending'[i]] = "queued"
    BY <1>4 DEF FateInv
  <1>7. /\ held' # None => fate'[held'] = "queued"
        /\ sendAcknowledge' => fate'[sendAcknowledgeNumber'.request] = "handled"
    BY DEF FateInv
  <1>8. /\ \A w \in Callers : asked'[w] # None =>
             /\ fate'[asked'[w]] # "new"
             /\ verdict'[w] = "none" => fate'[asked'[w]] = "asked"
             /\ \A v \in Callers : asked'[v] = asked'[w] => v = w
        /\ \A i, j \in 1 .. Len(accepted') : accepted'[i] = accepted'[j] => i = j
    BY DEF FateInv
  <1>9. /\ \A r \in Accepted' : fate'[r] \notin {"new", "asked", "refused"}
        /\ \A r \in Requests \ Accepted' : fate'[r] \in {"new", "asked", "refused", "lost"}
    BY <1>2 DEF FateInv
  <1>. QED
    BY <1>5, <1>6, <1>7, <1>8, <1>9 DEF FateInv

\* The two together: such a step keeps requests where they belong.
LEMMA FlowKept ==
  ASSUME Types, Types', FateInv, OrderInv, UNCHANGED <<asked, verdict, fate, accepted>>,
         ArrivingLoses(0), held' \in {held, None}, pending' \in {pending, <<>>},
         sendAcknowledge' =>
           sendAcknowledge /\ sendAcknowledgeNumber' = sendAcknowledgeNumber
  PROVE  FateInv' /\ OrderInv'
  <1>1. FateInv'
    BY FateKept
  <1>2. \A r \in Requests : Handled(r)' => Handled(r)
    BY DEF Handled
  <1>. QED
    BY <1>1, <1>2, OrderKept

\* Nothing arrives or gets lost when the device's connection stays as it is.
LEMMA ArrivingSame ==
  ASSUME Types, UNCHANGED <<client, toDevice>>
  PROVE  Arriving' = Arriving /\ ArrivingLoses(0)
  <1>1. Arriving' = Arriving
    BY DEF Arriving
  <1>2. Len(Arriving) \in Nat
    BY ArrivingProperties, LenProperties
  <1>. QED
    BY <1>1, <1>2 DEF ArrivingLoses

\* What has arrived is lost with the connection.
LEMMA ArrivingGone ==
  ASSUME Types, Types', client' = None \/ toDevice'[client'] = <<>>
  PROVE  ArrivingLoses(0)
  <1>1. Len(Arriving) \in Nat
    BY ArrivingProperties, LenProperties
  <1>2. Len(Arriving') = 0
    BY ArrivingPropertiesNext, EmptySeq
  <1>. QED
    BY <1>1, <1>2 DEF ArrivingLoses

\* Of what is under way on its connection, the end may be lost.
LEMMA ArrivingCut ==
  ASSUME Types, Types', UNCHANGED client,
         client # None =>
           /\ Len(toDevice'[client]) <= Len(toDevice[client])
           /\ \A i \in 1 .. Len(toDevice'[client]) : toDevice'[client][i] = toDevice[client][i]
  PROVE  ArrivingLoses(0)
  <1>1. CASE client = None
    BY <1>1, ArrivingGone
  <1>2. CASE client # None
    <2>1. Len(toDevice[client]) \in Nat /\ Len(toDevice'[client]) \in Nat
      BY <1>2, LenProperties DEF Types, TypeOK
    <2>2. /\ Len(Arriving) = Len(toDevice[client])
          /\ \A i \in 1 .. Len(Arriving) : Arriving[i] = toDevice[client][i].request
      BY <1>2, ArrivingProperties
    <2>3. /\ Len(Arriving') = Len(toDevice'[client])
          /\ \A i \in 1 .. Len(Arriving') : Arriving'[i] = toDevice'[client][i].request
      BY <1>2, ArrivingPropertiesNext
    <2>. QED
      BY <1>2, <2>1, <2>2, <2>3 DEF ArrivingLoses
  <1>. QED
    BY <1>1, <1>2

-----------------------------------------------------------------------------
(* Requests from the callers to the LEDs.                                  *)

\* The queue grows at its end.
LEMMA PendingAppend ==
  ASSUME Types, NEW r \in Requests, pending' = Append(pending, r)
  PROVE  \A i \in 1 .. Len(pending') :
           \/ i \in 1 .. Len(pending) /\ pending'[i] = pending[i]
           \/ /\ pending'[i] = r
              /\ \A j \in 1 .. Len(pending') : ~(i < j)
  <1>1. pending \in Seq(Requests) /\ Len(pending) \in Nat
    BY LenProperties DEF Types, TypeOK
  <1>2. /\ Len(pending') = Len(pending) + 1
        /\ \A i \in 1 .. Len(pending) : pending'[i] = pending[i]
        /\ pending'[Len(pending) + 1] = r
    BY <1>1, AppendProperties
  <1>. QED
    BY <1>1, <1>2

\* A request that is accepted comes after all others.
LEMMA AcceptKeepsOrder ==
  ASSUME Types, FateInv, OrderInv, NEW r \in Requests,
         accepted' = Append(accepted, r), pending' = Append(pending, r),
         Arriving' = Arriving, UNCHANGED held,
         \A q \in Requests : Handled(q)' => Handled(q)
  PROVE  OrderInv'
  <1>. DEFINE After(p, q) ==
         \E i, j \in 1 .. Len(accepted') : i < j /\ accepted'[i] = p /\ accepted'[j] = q
  <1>1. (\A p, q : Before(p, q) => After(p, q)) /\ \A p \in Accepted : After(p, r)
    <2>1. /\ \A p, q : Before(p, q) => Before(p, q)'
          /\ \A p \in Accepted : Before(p, r)'
      BY AcceptedAppend
    <2>2. \A p, q : Before(p, q)' <=> After(p, q)
      BY DEF Before
    <2>. QED
      BY <2>1, <2>2
  <1>2. \A i \in 1 .. Len(pending') :
          \/ i \in 1 .. Len(pending) /\ pending'[i] = pending[i]
          \/ /\ pending'[i] = r
             /\ \A j \in 1 .. Len(pending') : ~(i < j)
    BY PendingAppend
  <1>3. /\ \A i \in 1 .. Len(Arriving) : Arriving[i] \in Accepted
        /\ \A i \in 1 .. Len(pending) : pending[i] \in Accepted
        /\ held # None => held \in Accepted
        /\ \A q \in Requests : Handled(q) => q \in Accepted
    BY RequestTypes DEF FateInv, Handled
  <1>. HIDE DEF After
  <1>4. \A i, j \in 1 .. Len(Arriving') : i < j => After(Arriving'[i], Arriving'[j])
    BY <1>1 DEF OrderInv
  <1>5. ASSUME NEW i \in 1 .. Len(pending'), NEW j \in 1 .. Len(pending'), i < j
        PROVE  After(pending'[i], pending'[j])
    <2>1. i \in 1 .. Len(pending) /\ pending'[i] = pending[i]
      BY <1>2, <1>5
    <2>2. CASE j \in 1 .. Len(pending) /\ pending'[j] = pending[j]
      BY <1>1, <1>5, <2>1, <2>2 DEF OrderInv
    <2>3. CASE pending'[j] = r
      BY <1>1, <1>3, <2>1, <2>3
    <2>. QED
      BY <1>2, <2>2, <2>3
  <1>6. \A i \in 1 .. Len(Arriving'), j \in 1 .. Len(pending') :
          After(Arriving'[i], pending'[j])
    BY <1>1, <1>2, <1>3 DEF OrderInv
  <1>7. held' # None =>
          /\ \A i \in 1 .. Len(Arriving') : After(Arriving'[i], held')
          /\ \A j \in 1 .. Len(pending') : After(held', pending'[j])
    BY <1>1, <1>2, <1>3 DEF OrderInv
  <1>8. \A q \in Requests : Handled(q)' =>
          /\ \A i \in 1 .. Len(Arriving') : After(q, Arriving'[i])
          /\ held' # None => After(q, held')
          /\ \A j \in 1 .. Len(pending') : After(q, pending'[j])
    BY <1>1, <1>2, <1>3 DEF OrderInv
  <1>. QED
    BY <1>4, <1>5, <1>6, <1>7, <1>8 DEF OrderInv, Before, After

\* A step of an HTTP handler keeps requests where they belong.
LEMMA HttpKeepsFlow ==
  ASSUME Types, Types', FateInv, OrderInv, Http, UNCHANGED deviceVars
  PROVE  FateInv' /\ OrderInv'
  <1>. USE DEF linkVars, waiting, streams, runVars, socketVars, deviceVars,
           messageVars, acknowledgeVars, lightVars
  <1>0. PICK w \in Callers :
          (\E r \in Requests : HttpRequest(w, r)) \/ HttpVerdict(w) \/ HttpRespond(w)
    BY DEF Http
  <1>1. toDevice' = toDevice /\ client' = client /\ held' = held
    BY <1>0 DEF HttpRequest, HttpVerdict, HttpRespond, Queue!Call, Queue!Accept,
                Queue!Refuse, Queue!Return
  <1>2. Arriving' = Arriving /\ ArrivingLoses(0)
    BY <1>1, ArrivingSame
  <1>3. CASE \E r \in Requests : HttpRequest(w, r)
    <2>1. PICK r \in Requests : HttpRequest(w, r)
      BY <1>3
    <2>2. /\ fate[r] = "new" /\ fate' = [fate EXCEPT ![r] = "asked"]
          /\ asked[w] = None /\ asked' = [asked EXCEPT ![w] = r]
          /\ UNCHANGED <<verdict, pending, accepted>>
      BY <2>1 DEF HttpRequest, Queue!Call, SetFate
    <2>3. /\ \A q \in Requests : fate'[q] = IF q = r THEN "asked" ELSE fate[q]
          /\ \A v \in Callers : asked'[v] = IF v = w THEN r ELSE asked[v]
      BY <2>2 DEF Types, TypeOK
    <2>4. r # None /\ \A v \in Callers : asked[v] # r
      BY <2>2, RequestTypes DEF FateInv
    <2>5. Accepted' = Accepted
      BY <2>2 DEF Accepted
    <2>6. ASSUME NEW v \in Callers, asked'[v] # None
          PROVE  /\ fate'[asked'[v]] # "new"
                 /\ verdict'[v] = "none" => fate'[asked'[v]] = "asked"
                 /\ \A u \in Callers : asked'[u] = asked'[v] => u = v
      <3>1. CASE v = w
        BY <2>3, <2>4, <3>1
      <3>2. CASE v # w
        BY <2>2, <2>3, <2>4, <2>6, <3>2, RequestTypes DEF FateInv
      <3>. QED
        BY <3>1, <3>2
    <2>7. /\ held' # None => fate'[held'] = "queued"
          /\ sendAcknowledge' => fate'[sendAcknowledgeNumber'.request] = "handled"
          /\ \A i \in 1 .. Len(Arriving') : fate'[Arriving'[i]] = "sent"
          /\ \A i \in 1 .. Len(pending') : fate'[pending'[i]] = "queued"
      BY <1>1, <1>2, <2>2, <2>3, RequestTypes DEF FateInv
    <2>8. /\ \A q \in Accepted : fate'[q] \notin {"new", "asked", "refused"}
          /\ \A q \in Requests \ Accepted : fate'[q] \in {"new", "asked", "refused", "lost"}
      BY <2>2, <2>3, RequestTypes DEF FateInv
    <2>9. FateInv'
      BY <2>2, <2>5, <2>6, <2>7, <2>8 DEF FateInv
    <2>10. \A q \in Requests : Handled(q)' => Handled(q)
      BY <2>3 DEF Handled
    <2>11. OrderInv'
      BY <1>1, <1>2, <2>2, <2>10, OrderKept
    <2>. QED
      BY <2>9, <2>11
  <1>4. CASE HttpVerdict(w)
    <2>. DEFINE r == asked[w]
    <2>1. r \in Requests /\ fate[r] = "asked" /\ r # None
      BY <1>4 DEF HttpVerdict, Queue!Accept, Queue!Refuse, FateInv, Types, TypeOK
    <2>2. PICK f \in {"queued", "refused"} :
            /\ \A q \in Requests : fate'[q] = IF q = r THEN f ELSE fate[q]
            /\ \A v \in Callers : v # w => verdict'[v] = verdict[v]
            /\ verdict'[w] # "none" /\ UNCHANGED asked
            /\ \/ /\ f = "queued" /\ accepted' = Append(accepted, r)
                  /\ pending' = Append(pending, r)
               \/ f = "refused" /\ UNCHANGED <<accepted, pending>>
      <3>1. CASE Queue!Accept(w)
        BY <1>4, <2>1, <3>1 DEF HttpVerdict, SetFate, Queue!Accept, Queue!Refuse, Types, TypeOK
      <3>2. CASE Queue!Refuse(w)
        BY <1>4, <2>1, <3>2 DEF HttpVerdict, SetFate, Queue!Accept, Queue!Refuse, Types, TypeOK
      <3>. QED
        BY <1>4, <3>1, <3>2 DEF HttpVerdict
    <2>3. ASSUME NEW v \in Callers, asked'[v] # None
          PROVE  /\ fate'[asked'[v]] # "new"
                 /\ verdict'[v] = "none" => fate'[asked'[v]] = "asked"
                 /\ \A u \in Callers : asked'[u] = asked'[v] => u = v
      <3>1. CASE v = w
        BY <2>1, <2>2, <3>1 DEF FateInv
      <3>2. CASE v # w
        BY <2>1, <2>2, <2>3, <3>2, RequestTypes DEF FateInv
      <3>. QED
        BY <3>1, <3>2
    <2>. HIDE DEF r
    <2>4. /\ held' # None => fate'[held'] = "queued"
          /\ sendAcknowledge' => fate'[sendAcknowledgeNumber'.request] = "handled"
          /\ \A i \in 1 .. Len(Arriving') : fate'[Arriving'[i]] = "sent"
          /\ \A i \in 1 .. Len(pending) : fate'[pending[i]] = "queued"
      BY <1>1, <1>2, <2>1, <2>2, RequestTypes DEF FateInv
    <2>5. \A q \in Requests : Handled(q)' => Handled(q)
      BY <2>2 DEF Handled
    <2>6. CASE UNCHANGED <<accepted, pending>> /\ f = "refused"
      <3>1. Accepted' = Accepted
        BY <2>6 DEF Accepted
      <3>2. /\ \A q \in Accepted : fate'[q] \notin {"new", "asked", "refused"}
            /\ \A q \in Requests \ Accepted : fate'[q] \in {"new", "asked", "refused", "lost"}
        BY <2>1, <2>2, <2>6, RequestTypes DEF FateInv
      <3>3. FateInv'
        BY <2>3, <2>4, <2>6, <3>1, <3>2 DEF FateInv
      <3>4. OrderInv'
        BY <1>1, <1>2, <2>5, <2>6, OrderKept
      <3>. QED
        BY <3>3, <3>4
    <2>7. CASE /\ accepted' = Append(accepted, r) /\ pending' = Append(pending, r)
               /\ f = "queued"
      <3>1. r \notin Accepted
        BY <2>1 DEF FateInv
      <3>2. Accepted' = Accepted \cup {r}
            /\ \A i, j \in 1 .. Len(accepted') : accepted'[i] = accepted'[j] => i = j
        <4>1. \A i, j \in 1 .. Len(accepted) : accepted[i] = accepted[j] => i = j
          BY DEF FateInv
        <4>. QED
          BY <2>1, <2>7, <3>1, <4>1, AcceptedAppend
      <3>3. /\ \A q \in Accepted' : fate'[q] \notin {"new", "asked", "refused"}
            /\ \A q \in Requests \ Accepted' :
                 fate'[q] \in {"new", "asked", "refused", "lost"}
        BY <2>1, <2>2, <2>7, <3>2, RequestTypes DEF FateInv
      <3>4. \A i \in 1 .. Len(pending') :
              \/ i \in 1 .. Len(pending) /\ pending'[i] = pending[i]
              \/ pending'[i] = r
        BY <2>1, <2>7, PendingAppend
      <3>5. \A i \in 1 .. Len(pending') : fate'[pending'[i]] = "queued"
        BY <2>1, <2>2, <2>4, <2>7, <3>4
      <3>6. FateInv'
        BY <2>3, <2>4, <3>2, <3>3, <3>5 DEF FateInv
      <3>7. OrderInv'
        BY <1>1, <1>2, <2>1, <2>5, <2>7, AcceptKeepsOrder
      <3>. QED
        BY <3>6, <3>7
    <2>. QED
      BY <2>2, <2>6, <2>7
  <1>5. CASE HttpRespond(w)
    <2>1. /\ \A v \in Callers : asked'[v] = IF v = w THEN None ELSE asked[v]
          /\ \A v \in Callers : v # w => verdict'[v] = verdict[v]
          /\ UNCHANGED <<fate, accepted, pending>>
      BY <1>5 DEF HttpRespond, Queue!Return, Types, TypeOK
    <2>2. ASSUME NEW v \in Callers, asked'[v] # None
          PROVE  /\ fate'[asked'[v]] # "new"
                 /\ verdict'[v] = "none" => fate'[asked'[v]] = "asked"
                 /\ \A u \in Callers : asked'[u] = asked'[v] => u = v
      BY <2>1, <2>2 DEF FateInv
    <2>3. Accepted' = Accepted
      BY <2>1 DEF Accepted
    <2>4. FateInv'
      BY <1>1, <1>2, <2>1, <2>2, <2>3 DEF FateInv
    <2>5. OrderInv'
      BY <1>1, <1>2, <2>1, OrderKept DEF Handled
    <2>. QED
      BY <2>4, <2>5
  <1>. QED
    BY <1>0, <1>3, <1>4, <1>5

\* The end of the process keeps what is left of the requests where it belongs.
LEMMA ProcessEndsKeepsFlow ==
  ASSUME Types, Types', FateInv, OrderInv, NEW how \in {"closed", "orphan"},
         ProcessEnds(how), UNCHANGED deviceVars
  PROVE  FateInv' /\ OrderInv'
  <1>1. PICK received \in 0 .. Room : EndServer(how, received)
    BY DEF ProcessEnds
  <1>2. /\ \A w \in Callers : asked'[w] = None
        /\ pending' = <<>> /\ held' = None /\ UNCHANGED accepted
    BY DEF ProcessEnds
  <1>3. UNCHANGED <<client, sendAcknowledge, sendAcknowledgeNumber>>
    BY DEF deviceVars, messageVars, acknowledgeVars
  <1>4. \A r \in Requests :
          fate'[r] = IF fate[r] \in {"asked", "queued"} THEN "lost" ELSE fate[r]
    BY <1>1 DEF EndServer
  <1>5. client # None =>
          /\ Len(toDevice'[client]) <= Len(toDevice[client])
          /\ \A i \in 1 .. Len(toDevice'[client]) : toDevice'[client][i] = toDevice[client][i]
    <2>. SUFFICES ASSUME client # None
                  PROVE  /\ Len(toDevice'[client]) <= Len(toDevice[client])
                         /\ \A i \in 1 .. Len(toDevice'[client]) :
                              toDevice'[client][i] = toDevice[client][i]
      OBVIOUS
    <2>1. /\ client \in Conns /\ toDevice[client] \in Seq(FromServer)
          /\ Len(toDevice[client]) \in Nat
      BY LenProperties DEF Types, TypeOK
    <2>2. CASE toDevice'[client] = toDevice[client]
      BY <2>1, <2>2
    <2>3. CASE /\ received < Len(toDevice[client])
               /\ toDevice'[client] = Prefix(toDevice[client], received)
      <3>1. received \in 0 .. Len(toDevice[client])
        BY <2>1, <2>3
      <3>2. /\ Len(toDevice'[client]) = received
            /\ \A i \in 1 .. received : toDevice'[client][i] = toDevice[client][i]
        BY <2>1, <2>3, <3>1, PrefixProperties
      <3>. QED
        BY <2>1, <2>3, <3>2
    <2>. QED
      BY <1>1, <2>1, <2>2, <2>3 DEF EndServer
  <1>6. ArrivingLoses(0)
    BY <1>3, <1>5, ArrivingCut
  <1>7. Len(Arriving) \in Nat /\ Len(Arriving') \in Nat
    BY ArrivingProperties, ArrivingPropertiesNext
  <1>8. \A i \in 1 .. Len(Arriving') : i \in 1 .. Len(Arriving) /\ Arriving'[i] = Arriving[i]
    BY <1>6, <1>7 DEF ArrivingLoses
  <1>9. Accepted' = Accepted
    BY <1>2 DEF Accepted
  <1>10. \A i \in 1 .. Len(Arriving') : fate'[Arriving'[i]] = "sent"
    BY <1>4, <1>8, RequestTypes DEF FateInv
  <1>11. sendAcknowledge' => fate'[sendAcknowledgeNumber'.request] = "handled"
    BY <1>3, <1>4, RequestTypes DEF FateInv
  <1>12. /\ \A r \in Accepted : fate'[r] \notin {"new", "asked", "refused"}
         /\ \A r \in Requests \ Accepted : fate'[r] \in {"new", "asked", "refused", "lost"}
    BY <1>4, RequestTypes DEF FateInv
  <1>13. \A i \in 1 .. Len(pending') : fate'[pending'[i]] = "queued"
    BY <1>2, EmptySeq
  <1>14. FateInv'
    BY <1>2, <1>9, <1>10, <1>11, <1>12, <1>13 DEF FateInv
  <1>15. \A r \in Requests : Handled(r)' => Handled(r)
    BY <1>4 DEF Handled
  <1>16. OrderInv'
    BY <1>2, <1>6, <1>15, OrderKept
  <1>. QED
    BY <1>14, <1>16

\* The request in the server's hand goes: onto the wire, or nowhere.
LEMMA HeldLeaves ==
  ASSUME Types, Types', FateInv, OrderInv,
         UNCHANGED <<asked, verdict, accepted, pending, sendAcknowledge,
                     sendAcknowledgeNumber>>,
         held # None, held' = None,
         NEW f \in {"sent", "failed"}, fate' = [fate EXCEPT ![held] = f],
         \A i \in 1 .. Len(Arriving') :
           \/ i \in 1 .. Len(Arriving) /\ Arriving'[i] = Arriving[i]
           \/ f = "sent" /\ Arriving'[i] = held
  PROVE  FateInv' /\ \A r \in Requests : Handled(r)' => Handled(r)
  <1>1. held \in Requests /\ fate[held] = "queued"
    BY RequestTypes DEF FateInv
  <1>2. \A r \in Requests : fate'[r] = IF r = held THEN f ELSE fate[r]
    BY <1>1, RequestTypes
  <1>3. \A j \in 1 .. Len(pending) : pending[j] # held
    BY BeforeDistinct DEF OrderInv
  <1>4. Accepted' = Accepted
    BY DEF Accepted
  <1>5. \A i \in 1 .. Len(pending') : fate'[pending'[i]] = "queued"
    BY <1>2, <1>3, RequestTypes DEF FateInv
  <1>6. \A i \in 1 .. Len(Arriving') : fate'[Arriving'[i]] = "sent"
    BY <1>1, <1>2, RequestTypes DEF FateInv
  <1>7. sendAcknowledge' => fate'[sendAcknowledgeNumber'.request] = "handled"
    BY <1>1, <1>2, RequestTypes DEF FateInv
  <1>8. /\ \A r \in Accepted : fate'[r] \notin {"new", "asked", "refused"}
        /\ \A r \in Requests \ Accepted : fate'[r] \in {"new", "asked", "refused", "lost"}
    BY <1>1, <1>2, RequestTypes DEF FateInv
  <1>9. \A w \in Callers : asked'[w] # None =>
          /\ fate'[asked'[w]] # "new"
          /\ verdict'[w] = "none" => fate'[asked'[w]] = "asked"
          /\ \A v \in Callers : asked'[v] = asked'[w] => v = w
    BY <1>1, <1>2, RequestTypes DEF FateInv
  <1>10. FateInv'
    BY <1>4, <1>5, <1>6, <1>7, <1>8, <1>9 DEF FateInv
  <1>. QED
    BY <1>1, <1>2, <1>10 DEF Handled

\* A message on its way comes after all that are.
LEMMA WriteKeepsOrder ==
  ASSUME Types, OrderInv, UNCHANGED <<accepted, pending>>,
         held # None, held' = None,
         \A i \in 1 .. Len(Arriving') :
           \/ i \in 1 .. Len(Arriving) /\ Arriving'[i] = Arriving[i]
           \/ /\ Arriving'[i] = held
              /\ \A j \in 1 .. Len(Arriving') : ~(i < j),
         \A r \in Requests : Handled(r)' => Handled(r)
  PROVE  OrderInv'
  <1>1. \A p, q : Before(p, q)' <=> Before(p, q)
    BY DEF Before
  <1>2. ASSUME NEW i \in 1 .. Len(Arriving'), NEW j \in 1 .. Len(Arriving'), i < j
        PROVE  Before(Arriving'[i], Arriving'[j])
    BY <1>2 DEF OrderInv
  <1>3. \A i \in 1 .. Len(Arriving'), j \in 1 .. Len(pending) :
          Before(Arriving'[i], pending[j])
    BY DEF OrderInv
  <1>4. \A r \in Requests : Handled(r)' =>
          /\ \A i \in 1 .. Len(Arriving') : Before(r, Arriving'[i])
          /\ \A j \in 1 .. Len(pending') : Before(r, pending'[j])
    BY DEF OrderInv
  <1>. QED
    BY <1>1, <1>2, <1>3, <1>4 DEF OrderInv

\* A step of the device thread keeps requests where they belong.
LEMMA RunKeepsFlow ==
  ASSUME Types, Types', FateInv, OrderInv, Run, UNCHANGED deviceVars
  PROVE  FateInv' /\ OrderInv'
  <1>0. UNCHANGED <<client, sendAcknowledge, sendAcknowledgeNumber>>
    BY DEF deviceVars, messageVars, acknowledgeVars
  <1>1. CASE Accept \/ ReadMessages \/ ReadCut \/ ReadNothing \/ ReadError \/ DrainEmpty
    <2>1. UNCHANGED <<toDevice, fate, asked, verdict, accepted, pending, held>>
      BY <1>1 DEF Accept, ReadMessages, ReadCut, Read, ReadNothing, ReadError, DrainEmpty,
                  linkVars, streams, queueVars
    <2>2. ArrivingLoses(0)
      BY <1>0, <2>1, ArrivingSame
    <2>. QED
      BY <1>0, <2>1, <2>2, FlowKept
  <1>2. CASE AcceptError
    BY <1>2, ProcessEndsKeepsFlow DEF AcceptError
  <1>3. CASE DrainTake
    <2>1. /\ held = None /\ pending # <<>>
          /\ held' = Head(pending) /\ pending' = Tail(pending)
          /\ UNCHANGED <<asked, verdict, accepted, toDevice, fate>>
      BY <1>3 DEF DrainTake, Queue!Take, linkVars, streams
    <2>2. /\ pending \in Seq(Requests) /\ Len(pending) \in Nat
      BY LenProperties DEF Types, TypeOK
    <2>3. /\ Len(pending') = Len(pending) - 1 /\ 1 \in 1 .. Len(pending)
          /\ held' = pending[1]
          /\ \A i \in 1 .. Len(pending') : pending'[i] = pending[i + 1]
      <3>1. /\ Len(Tail(pending)) = Len(pending) - 1
            /\ \A i \in 1 .. Len(Tail(pending)) : Tail(pending)[i] = pending[i + 1]
            /\ Head(pending) = pending[1]
        BY <2>1, <2>2, HeadTailProperties
      <3>2. Len(pending) # 0
        BY <2>1, <2>2, EmptySeq
      <3>. QED
        BY <2>1, <2>2, <3>1, <3>2
    <2>4. \A i \in 1 .. Len(pending') :
            i + 1 \in 1 .. Len(pending) /\ pending'[i] = pending[i + 1] /\ 1 < i + 1
      BY <2>2, <2>3
    <2>5. Arriving' = Arriving /\ Accepted' = Accepted
      BY <1>0, <2>1, ArrivingSame DEF Accepted
    <2>6. FateInv'
      BY <1>0, <2>1, <2>3, <2>4, <2>5 DEF FateInv
    <2>7. \A p, q : Before(p, q)' <=> Before(p, q)
      BY <2>1 DEF Before
    <2>8. ASSUME NEW i \in 1 .. Len(pending'), NEW j \in 1 .. Len(pending'), i < j
          PROVE  Before(pending'[i], pending'[j])
      <3>1. i + 1 < j + 1
        BY <2>2, <2>3, <2>8
      <3>. QED
        BY <2>4, <3>1 DEF OrderInv
    <2>9. OrderInv'
      BY <2>1, <2>3, <2>4, <2>5, <2>7, <2>8 DEF OrderInv, Handled
    <2>. QED
      BY <2>6, <2>9
  <1>4. CASE WriteMessage \/ WriteError
    <2>1. PICK f \in {"sent", "failed"} : fate' = [fate EXCEPT ![held] = f]
      BY <1>4 DEF WriteMessage, WriteError, SetFate
    <2>2. /\ held # None /\ held' = None
          /\ UNCHANGED <<asked, verdict, accepted, pending>>
      BY <1>4 DEF WriteMessage, WriteError, Write, QueueAfterWrite, QueueAfterError
    <2>3. CASE UNCHANGED toDevice
      <3>1. Arriving' = Arriving
        BY <1>0, <2>3, ArrivingSame
      <3>2. FateInv' /\ \A r \in Requests : Handled(r)' => Handled(r)
        BY <1>0, <2>1, <2>2, <3>1, HeldLeaves
      <3>3. OrderInv'
        BY <2>2, <3>1, <3>2, WriteKeepsOrder
      <3>. QED
        BY <3>2, <3>3
    <2>4. CASE /\ WriteMessage /\ peer[openSocket] = "open"
               /\ toDevice' = [toDevice EXCEPT ![openSocket] =
                    Append(@, [number |-> currentMessageNumber, request |-> held])]
      <3>. DEFINE m == [number |-> currentMessageNumber, request |-> held]
      <3>1. openSocket = client /\ client \in Conns /\ client # None
        BY <2>4, RequestTypes DEF WriteMessage, SGoto, Types, TypeOK, ConnectionInv
      <3>2. /\ toDevice[client] \in Seq(FromServer) /\ Len(toDevice[client]) \in Nat
            /\ m \in FromServer /\ m.request = held
        BY <2>2, <3>1, RequestTypes, LenProperties DEF FromServer, Types, TypeOK
      <3>. HIDE DEF m
      <3>3. toDevice'[client] = Append(toDevice[client], m)
        <4>1. toDevice' = [toDevice EXCEPT ![client] = Append(@, m)]
          BY <2>4, <3>1 DEF m
        <4>. QED
          BY <3>1, <4>1 DEF Types, TypeOK
      <3>4. /\ Len(toDevice'[client]) = Len(toDevice[client]) + 1
            /\ \A i \in 1 .. Len(toDevice[client]) :
                 toDevice'[client][i] = toDevice[client][i]
            /\ toDevice'[client][Len(toDevice[client]) + 1] = m
        BY <3>2, <3>3, AppendProperties
      <3>5. /\ Len(Arriving) = Len(toDevice[client])
            /\ \A i \in 1 .. Len(Arriving) : Arriving[i] = toDevice[client][i].request
        BY <3>1, ArrivingProperties
      <3>6. /\ Len(Arriving') = Len(toDevice'[client])
            /\ \A i \in 1 .. Len(Arriving') : Arriving'[i] = toDevice'[client][i].request
        BY <1>0, <3>1, ArrivingPropertiesNext
      <3>7. \A i \in 1 .. Len(Arriving') :
              \/ i \in 1 .. Len(Arriving) /\ Arriving'[i] = Arriving[i]
              \/ /\ Arriving'[i] = held
                 /\ \A j \in 1 .. Len(Arriving') : ~(i < j)
        BY <3>2, <3>4, <3>5, <3>6
      <3>8. FateInv' /\ \A r \in Requests : Handled(r)' => Handled(r)
        <4>1. fate' = [fate EXCEPT ![held] = "sent"]
          BY <2>4 DEF WriteMessage, SetFate
        <4>. QED
          BY <1>0, <2>2, <3>7, <4>1, HeldLeaves
      <3>9. OrderInv'
        BY <2>2, <3>7, <3>8, WriteKeepsOrder
      <3>. QED
        BY <3>8, <3>9
    <2>. QED
      BY <1>4, <2>3, <2>4 DEF WriteMessage, WriteError
  <1>. QED
    BY <1>1, <1>2, <1>3, <1>4 DEF Run

\* A step of the network keeps what is left of the requests where it belongs.
LEMMA EnvironmentKeepsFlow ==
  ASSUME Types, Types', FateInv, OrderInv, Environment,
         UNCHANGED <<serverVars, deviceVars>>
  PROVE  FateInv' /\ OrderInv'
  <1>1. UNCHANGED <<client, sendAcknowledge, sendAcknowledgeNumber, asked, verdict,
                    accepted, pending, held>>
    BY DEF deviceVars, messageVars, acknowledgeVars, serverVars, queueVars
  <1>2. ArrivingLoses(0) /\ fate' = fate
    <2>1. CASE UNCHANGED <<toDevice, fate>>
      BY <1>1, <2>1, ArrivingSame
    <2>2. CASE \E c \in Conns : Drop(c)
      <3>1. PICK c \in Conns, how \in Ends, i \in Nat, j \in Nat : End(c, how, i, j)
        BY <2>2, LinkAssumption DEF Drop
      <3>2. /\ fate' = fate
            /\ \A d \in Conns :
                 /\ Len(toDevice'[d]) <= Len(toDevice[d])
                 /\ \A k \in 1 .. Len(toDevice'[d]) : toDevice'[d][k] = toDevice[d][k]
        BY <3>1, EndTypes
      <3>3. client \in Conns \cup {None}
        BY DEF Types, TypeOK
      <3>. QED
        BY <1>1, <3>2, <3>3, ArrivingCut
    <2>. QED
      BY <2>1, <2>2 DEF Environment, Traffic, ResetByTraffic, CloseOrphan, streams
  <1>. QED
    BY <1>1, <1>2, FlowKept

\* The device takes k messages and acts on the first.
LEMMA ReceiveKeepsFlow ==
  ASSUME Types, Types', FateInv, OrderInv, NEW k \in Nat, Receive(k),
         UNCHANGED serverVars
  PROVE  /\ FateInv' /\ OrderInv' /\ ArrivingLoses(k) /\ 1 \in 1 .. Len(Arriving)
         /\ setLighting' = Arriving[1]
         /\ \A r \in Requests : fate'[r] = IF r = Arriving[1] THEN "handled" ELSE fate[r]
  <1>1. UNCHANGED <<client, asked, verdict, accepted, pending, held>>
    BY DEF Receive, serverVars, queueVars
  <1>2. client \in Conns /\ client # None /\ k \in 1 .. Len(toDevice[client])
    BY RequestTypes DEF Receive, Available, Types, TypeOK
  <1>3. /\ toDevice[client] \in Seq(FromServer) /\ Len(toDevice[client]) \in Nat
        /\ toDevice[client] # <<>> /\ k \in 0 .. Len(toDevice[client])
        /\ 1 \in 1 .. Len(toDevice[client])
    <2>1. toDevice[client] \in Seq(FromServer) /\ Len(toDevice[client]) \in Nat
      BY <1>2, LenProperties DEF Types, TypeOK
    <2>2. toDevice[client] # <<>>
      BY <1>2, EmptySeq
    <2>. QED
      BY <1>2, <2>1, <2>2
  <1>4. /\ Len(Arriving) = Len(toDevice[client])
        /\ \A i \in 1 .. Len(Arriving) : Arriving[i] = toDevice[client][i].request
    BY <1>2, ArrivingProperties
  <1>5. /\ Len(Arriving') = Len(toDevice'[client])
        /\ \A i \in 1 .. Len(Arriving') : Arriving'[i] = toDevice'[client][i].request
    BY <1>1, <1>2, ArrivingPropertiesNext
  <1>6. Head(toDevice[client]).request = Arriving[1]
    BY <1>3, <1>4, HeadTailProperties
  <1>7. toDevice'[client] = Rest(toDevice[client], k)
    BY <1>2 DEF Receive, Consumed, Types, TypeOK
  <1>8. /\ Len(toDevice'[client]) = Len(toDevice[client]) - k
        /\ \A i \in 1 .. Len(toDevice[client]) - k :
             toDevice'[client][i] = toDevice[client][i + k]
    BY <1>3, <1>7, RestProperties
  <1>9. ArrivingLoses(k)
    BY <1>2, <1>3, <1>4, <1>5, <1>8 DEF ArrivingLoses
  <1>. DEFINE q == Arriving[1]
  <1>10. /\ fate' = [fate EXCEPT ![q] = "handled"] /\ setLighting' = q
         /\ sendAcknowledge' = TRUE /\ sendAcknowledgeNumber'.request = q
    BY <1>6 DEF Receive
  <1>11. 1 \in 1 .. Len(Arriving) /\ q \in Requests /\ fate[q] = "sent"
    BY <1>3, <1>4, RequestTypes DEF FateInv
  <1>12. \A r \in Requests : fate'[r] = IF r = q THEN "handled" ELSE fate[r]
    BY <1>10, <1>11, RequestTypes
  <1>13. \A r \in Requests : Handled(r)' => Handled(r) \/ (k > 0 /\ r = Arriving[1])
    BY <1>2, <1>12 DEF Handled
  <1>14. OrderInv'
    BY <1>1, <1>9, <1>13, OrderKept
  <1>15. \A i \in 1 .. Len(Arriving') :
           i + k \in 1 .. Len(Arriving) /\ Arriving'[i] = Arriving[i + k] /\ 1 < i + k
    <2>1. Len(Arriving) \in Nat /\ Len(Arriving') \in Nat /\ 0 < k
      BY <1>2, ArrivingProperties, ArrivingPropertiesNext
    <2>. QED
      BY <1>9, <2>1 DEF ArrivingLoses
  <1>16. \A i \in 1 .. Len(Arriving') : Arriving'[i] # q
    BY <1>11, <1>15, BeforeDistinct DEF OrderInv
  <1>. HIDE DEF q
  <1>17. \A i \in 1 .. Len(Arriving') : fate'[Arriving'[i]] = "sent"
    <2>. SUFFICES ASSUME NEW i \in 1 .. Len(Arriving') PROVE fate'[Arriving'[i]] = "sent"
      OBVIOUS
    <2>1. i + k \in 1 .. Len(Arriving) /\ Arriving'[i] = Arriving[i + k]
      BY <1>15
    <2>2. Arriving'[i] \in Requests /\ fate[Arriving'[i]] = "sent"
      BY <2>1, RequestTypes DEF FateInv
    <2>. QED
      BY <1>12, <1>16, <2>2
  <1>18. \A i \in 1 .. Len(pending') : fate'[pending'[i]] = "queued"
    BY <1>1, <1>11, <1>12, RequestTypes DEF FateInv
  <1>19. held' # None => fate'[held'] = "queued"
    BY <1>1, <1>11, <1>12, RequestTypes DEF FateInv
  <1>20. Accepted' = Accepted
    BY <1>1 DEF Accepted
  <1>21. /\ \A r \in Accepted : fate'[r] \notin {"new", "asked", "refused"}
         /\ \A r \in Requests \ Accepted : fate'[r] \in {"new", "asked", "refused", "lost"}
    BY <1>11, <1>12, RequestTypes DEF FateInv
  <1>22. \A w \in Callers : asked'[w] # None =>
           /\ fate'[asked'[w]] # "new"
           /\ verdict'[w] = "none" => fate'[asked'[w]] = "asked"
           /\ \A v \in Callers : asked'[v] = asked'[w] => v = w
    BY <1>1, <1>11, <1>12, RequestTypes DEF FateInv
  <1>23. sendAcknowledge' => fate'[sendAcknowledgeNumber'.request] = "handled"
    BY <1>10, <1>11, <1>12
  <1>24. FateInv'
    BY <1>1, <1>17, <1>18, <1>19, <1>20, <1>21, <1>22, <1>23 DEF FateInv
  <1>. QED
    BY <1>9, <1>10, <1>11, <1>12, <1>14, <1>24 DEF q

\* The device acknowledges what it has acted on.
LEMMA AcknowledgeKeepsFlow ==
  ASSUME Types, Types', FateInv, OrderInv, SendAcknowledge, UNCHANGED serverVars
  PROVE  FateInv' /\ OrderInv'
  <1>. DEFINE q == sendAcknowledgeNumber.request
  <1>1. /\ sendAcknowledge /\ ~sendAcknowledge'
        /\ fate' = [fate EXCEPT ![q] = "acknowledged"]
    BY DEF SendAcknowledge, AcknowledgeDone
  <1>2. UNCHANGED <<client, toDevice, asked, verdict, accepted, pending, held>>
    BY DEF SendAcknowledge, Send, serverVars, queueVars
  <1>3. q \in Requests /\ fate[q] = "handled"
    BY <1>1, RequestTypes DEF FateInv
  <1>. HIDE DEF q
  <1>4. \A r \in Requests : fate'[r] = IF r = q THEN "acknowledged" ELSE fate[r]
    BY <1>1, <1>3, RequestTypes
  <1>5. Arriving' = Arriving /\ ArrivingLoses(0) /\ Accepted' = Accepted
    BY <1>2, ArrivingSame DEF Accepted
  <1>6. /\ \A i \in 1 .. Len(Arriving) : fate'[Arriving[i]] = "sent"
        /\ \A i \in 1 .. Len(pending) : fate'[pending[i]] = "queued"
        /\ held # None => fate'[held] = "queued"
    BY <1>3, <1>4, RequestTypes DEF FateInv
  <1>7. /\ \A r \in Accepted : fate'[r] \notin {"new", "asked", "refused"}
        /\ \A r \in Requests \ Accepted : fate'[r] \in {"new", "asked", "refused", "lost"}
    BY <1>3, <1>4, RequestTypes DEF FateInv
  <1>8. \A w \in Callers : asked[w] # None =>
          /\ fate'[asked[w]] # "new"
          /\ verdict[w] = "none" => fate'[asked[w]] = "asked"
          /\ \A v \in Callers : asked[v] = asked[w] => v = w
    BY <1>3, <1>4, RequestTypes DEF FateInv
  <1>9. FateInv'
    BY <1>1, <1>2, <1>5, <1>6, <1>7, <1>8 DEF FateInv
  <1>10. \A r \in Requests : Handled(r)' => Handled(r)
    BY <1>3, <1>4 DEF Handled
  <1>11. OrderInv'
    BY <1>2, <1>5, <1>10, OrderKept
  <1>. QED
    BY <1>9, <1>11

\* A step of the device keeps what is left of the requests where it belongs.
LEMMA DeviceKeepsFlow ==
  ASSUME Types, Types', FateInv, OrderInv, Device, UNCHANGED serverVars
  PROVE  FateInv' /\ OrderInv'
  <1>. USE DEF linkVars, streams, waiting, messageVars, acknowledgeVars, lightVars
  <1>0. UNCHANGED <<asked, verdict, accepted, pending, held>>
    BY DEF serverVars, queueVars
  <1>1. CASE Connect
    <2>1. /\ client' = opened + 1 /\ opened + 1 \in Conns
          /\ UNCHANGED <<toDevice, fate, sendAcknowledge, sendAcknowledgeNumber>>
      BY <1>1 DEF Connect, Establish
    <2>2. opened + 1 > opened
      BY DEF Types, TypeOK
    <2>3. toDevice'[client'] = <<>>
      BY <2>1, <2>2 DEF Types, ConnectionInv
    <2>. QED
      BY <1>0, <2>1, <2>3, ArrivingGone, FlowKept
  <1>2. CASE ConnectFails
    <2>1. client' = None /\ UNCHANGED <<fate, sendAcknowledge, sendAcknowledgeNumber>>
      BY <1>2 DEF ConnectFails
    <2>. QED
      BY <1>0, <2>1, ArrivingGone, FlowKept
  <1>3. CASE Show \/ Leave \/ ReceiveNothing \/ SendConnected \/ SendNothing
    <2>1. UNCHANGED <<client, toDevice, fate, sendAcknowledge, sendAcknowledgeNumber>>
      BY <1>3 DEF Show, Leave, ReceiveNothing, SendConnected, Send, SendNothing
    <2>2. ArrivingLoses(0)
      BY <2>1, ArrivingSame
    <2>. QED
      BY <1>0, <2>1, <2>2, FlowKept
  <1>4. CASE ReceiveOne \/ ReceiveMany
    <2>1. PICK k \in Nat : Receive(k)
      BY <1>4, LinkAssumption DEF ReceiveOne, ReceiveMany
    <2>. QED
      BY <2>1, ReceiveKeepsFlow
  <1>5. CASE SendAcknowledge
    BY <1>5, AcknowledgeKeepsFlow
  <1>6. CASE Reboot
    <2>1. client' = None /\ ~sendAcknowledge' /\ fate' = fate
      BY <1>6 DEF Reboot, End, CloseOrphan
    <2>. QED
      BY <1>0, <2>1, ArrivingGone, FlowKept
  <1>. QED
    BY <1>1, <1>2, <1>3, <1>4, <1>5, <1>6 DEF Device, Loop

\* So every step keeps requests where they belong.
LEMMA StepKeepsFlow ==
  Types /\ Types' /\ FateInv /\ OrderInv /\ [Next]_vars => FateInv' /\ OrderInv'
  <1>. SUFFICES ASSUME Types, Types', FateInv, OrderInv, [Next]_vars
                PROVE  FateInv' /\ OrderInv'
    OBVIOUS
  <1>1. CASE UNCHANGED <<asked, verdict, accepted, pending, held, client, toDevice, fate,
                         sendAcknowledge, sendAcknowledgeNumber>>
    BY <1>1, ArrivingSame, FlowKept
  <1>2. CASE UNCHANGED vars
    BY <1>1, <1>2 DEF vars, linkVars, streams, serverVars, queueVars, deviceVars,
                      messageVars, acknowledgeVars
  <1>3. CASE Crash /\ UNCHANGED deviceVars
    BY <1>3, ProcessEndsKeepsFlow DEF Crash
  <1>4. CASE Restart /\ UNCHANGED deviceVars
    BY <1>1, <1>4 DEF Restart, streams, queueVars, deviceVars, messageVars, acknowledgeVars
  <1>. QED
    BY <1>2, <1>3, <1>4, HttpKeepsFlow, RunKeepsFlow, DeviceKeepsFlow,
       EnvironmentKeepsFlow DEF Next

\* Nothing is on its way at the start.
LEMMA FlowInit == Init => FateInv /\ OrderInv
  <1>. SUFFICES ASSUME Init PROVE FateInv /\ OrderInv
    OBVIOUS
  <1>1. Types
    BY TypesInit
  <1>2. /\ accepted = <<>> /\ pending = <<>> /\ held = None /\ client = None
        /\ ~sendAcknowledge /\ \A w \in Callers : asked[w] = None
        /\ \A r \in Requests : fate[r] = "new"
    BY DEF Init, LinkInit, ServerInit, DeviceInit, Queue!Init
  <1>3. Len(Arriving) = 0 /\ Len(pending) = 0 /\ Len(accepted) = 0
    BY <1>1, <1>2, ArrivingProperties, EmptySeq
  <1>. QED
    BY <1>2, <1>3 DEF FateInv, OrderInv, Accepted, Handled

\* From the queue to the device's read, and from one connection to the next,
\* requests stay in the order of acceptance, each at most once, and none that
\* the device has already handled comes after one it is still to read.
LEMMA OrderIsStreamOrder ==
  ASSUME Types, OrderInv
  PROVE  StreamOrder
  <1>. DEFINE hand == IF held = None THEN <<>> ELSE <<held>>
              front == Arriving \o hand
  <1>1. /\ Arriving \in Seq(Requests) /\ Len(Arriving) \in Nat
        /\ pending \in Seq(Requests) /\ Len(pending) \in Nat
    BY ArrivingProperties, LenProperties DEF Types, TypeOK
  <1>2. /\ hand \in Seq(Requests) /\ Len(hand) \in Nat
        /\ \A i \in 1 .. Len(hand) : i = 1 /\ hand[i] = held /\ held # None
    <2>1. CASE held = None
      BY <2>1, EmptySeq
    <2>2. CASE held # None
      BY <2>2, RequestTypes
    <2>. QED
      BY <2>1, <2>2
  <1>. HIDE DEF hand
  <1>3. /\ front \in Seq(Requests) /\ Len(front) = Len(Arriving) + Len(hand)
        /\ \A i \in 1 .. Len(Arriving) + Len(hand) :
             front[i] = IF i <= Len(Arriving) THEN Arriving[i] ELSE hand[i - Len(Arriving)]
    BY <1>1, <1>2, ConcatProperties
  <1>. HIDE DEF front
  <1>4. /\ Len(front \o pending) = Len(front) + Len(pending)
        /\ \A i \in 1 .. Len(front) + Len(pending) :
             (front \o pending)[i] =
               IF i <= Len(front) THEN front[i] ELSE pending[i - Len(front)]
    <2>1. front \in Seq(Requests)
      BY <1>3
    <2>. QED
      BY <1>1, <2>1, ConcatProperties
  <1>5. Downstream = front \o pending
    BY DEF Downstream, front, hand
  <1>6. \A i \in 1 .. Len(front) :
          \/ i \in 1 .. Len(Arriving) /\ front[i] = Arriving[i]
          \/ i = Len(Arriving) + 1 /\ front[i] = held /\ held # None /\ Len(front) = i
    BY <1>1, <1>2, <1>3
  <1>7. Len(front) \in Nat
    BY <1>1, <1>2, <1>3
  <1>8. \A i \in 1 .. Len(Downstream) :
          \/ i \in 1 .. Len(front) /\ Downstream[i] = front[i]
          \/ /\ i - Len(front) \in 1 .. Len(pending)
             /\ Downstream[i] = pending[i - Len(front)]
    BY <1>1, <1>4, <1>5, <1>7
  <1>9. \A i, j \in 1 .. Len(front) : i < j => Before(front[i], front[j])
    BY <1>1, <1>6 DEF OrderInv
  <1>10. \A i \in 1 .. Len(front), j \in 1 .. Len(pending) : Before(front[i], pending[j])
    BY <1>6 DEF OrderInv
  <1>11. ASSUME NEW i \in 1 .. Len(Downstream), NEW j \in 1 .. Len(Downstream), i < j
         PROVE  Before(Downstream[i], Downstream[j])
    <2>1. CASE j \in 1 .. Len(front)
      <3>1. i \in 1 .. Len(front)
        BY <1>7, <1>11, <2>1
      <3>. QED
        BY <1>1, <1>7, <1>8, <1>9, <1>11, <2>1, <3>1
    <2>2. CASE j \notin 1 .. Len(front)
      <3>1. CASE i \in 1 .. Len(front)
        BY <1>1, <1>7, <1>8, <1>10, <2>2, <3>1
      <3>2. CASE i \notin 1 .. Len(front)
        <4>1. i - Len(front) < j - Len(front)
          BY <1>7, <1>11
        <4>. QED
          BY <1>8, <2>2, <3>2, <4>1 DEF OrderInv
      <3>. QED
        BY <3>1, <3>2
    <2>. QED
      BY <2>1, <2>2
  <1>12. \A i \in 1 .. Len(front), r \in Requests : Handled(r) => Before(r, front[i])
    BY <1>6 DEF OrderInv
  <1>13. \A i \in 1 .. Len(Downstream), r \in Requests :
           Handled(r) => Before(r, Downstream[i])
    BY <1>8, <1>12 DEF OrderInv
  <1>. QED
    BY <1>11, <1>13 DEF StreamOrder

\* Where every request is, in every reachable state.
LEMMA FlowAlways == Spec => [](Types /\ FateInv /\ OrderInv)
  <1>1. Init => Types /\ FateInv /\ OrderInv
    BY TypesInit, FlowInit
  <1>2. (Types /\ FateInv /\ OrderInv) /\ [Next]_vars => (Types /\ FateInv /\ OrderInv)'
    BY StepKeepsTypes, StepKeepsFlow
  <1>. QED
    BY <1>1, <1>2, PTL DEF Spec

\* Nothing is replayed, nothing overtakes: whatever is lost with a connection, a
\* write, a restart or a crash, in the queue, in the server's hand and on the
\* wire the requests are in the order of acceptance, each once, after all those
\* the device has acted on.
THEOREM InOrder == Spec => []StreamOrder
  <1>1. Types /\ FateInv /\ OrderInv => StreamOrder
    BY OrderIsStreamOrder
  <1>. QED
    BY <1>1, FlowAlways, PTL

-----------------------------------------------------------------------------
(* The system implements LightingService.                                  *)

\* Applied, as a function of the accepted requests and of their fates.
LastHandled(order, how) ==
  LET places == {i \in 1 .. Len(order) : how[order[i]] \in {"handled", "acknowledged"}}
  IN  CHOOSE i \in places \cup {0} : \A j \in places : j <= i

\* The place n is the last one, or 0, and so there is a last one.
IsLast(order, how, n) ==
  /\ n \in 0 .. Len(order)
  /\ n > 0 => how[order[n]] \in {"handled", "acknowledged"}
  /\ \A j \in 1 .. Len(order) : how[order[j]] \in {"handled", "acknowledged"} => j <= n

\* There is only one last place.
LEMMA LastIsUnique ==
  ASSUME NEW order, NEW how, Len(order) \in Nat, NEW n, IsLast(order, how, n)
  PROVE  LastHandled(order, how) = n
  <1>. DEFINE places == {i \in 1 .. Len(order) : how[order[i]] \in {"handled", "acknowledged"}}
              Last(m) == m \in places \cup {0} /\ \A j \in places : j <= m
  <1>1. Last(n)
    BY DEF IsLast
  <1>2. \A m : Last(m) => m = n
    <2>. SUFFICES ASSUME NEW m, Last(m) PROVE m = n
      OBVIOUS
    <2>1. m \in Nat /\ n \in Nat
      BY DEF IsLast
    <2>2. m <= n
      BY <2>1 DEF IsLast
    <2>3. n <= m
      BY <1>1, <2>1
    <2>. QED
      BY <2>1, <2>2, <2>3
  <1>3. LastHandled(order, how) = CHOOSE m : Last(m)
    BY DEF LastHandled
  <1>. HIDE DEF Last
  <1>. QED
    BY <1>1, <1>2, <1>3

\* The last request acted on is at the place Applied.
AppliedInv == IsLast(accepted, fate, Applied)

\* The place is known when there is one.
LEMMA AppliedIs ==
  ASSUME Types, NEW n, IsLast(accepted, fate, n)
  PROVE  Applied = n
  <1>1. Len(accepted) \in Nat
    BY LenProperties DEF Types, TypeOK
  <1>2. Applied = LastHandled(accepted, fate)
    BY DEF Applied, LastHandled, Handled
  <1>. QED
    BY <1>1, <1>2, LastIsUnique

\* And in the next state.
LEMMA AppliedIsNext ==
  ASSUME Types', NEW n, IsLast(accepted', fate', n)
  PROVE  Applied' = n /\ AppliedInv'
  <1>1. Len(accepted') \in Nat
    BY LenProperties DEF Types, TypeOK
  <1>2. Applied' = LastHandled(accepted', fate')
    BY DEF Applied, LastHandled, Handled
  <1>3. Applied' = n
    BY <1>1, <1>2, LastIsUnique
  <1>. QED
    BY <1>3 DEF AppliedInv

\* No step but the device's read of a message acts on a request, and an
\* acknowledgement is not taken back.
LEMMA HandledSame ==
  ASSUME Types, FateInv, [Next]_vars, ~(ReceiveOne \/ ReceiveMany)
  PROVE  \A r \in Requests :
           /\ Handled(r)' <=> Handled(r)
           /\ fate[r] = "acknowledged" => fate'[r] = "acknowledged"
  <1>. DEFINE Same == \A r \in Requests :
                        /\ Handled(r)' <=> Handled(r)
                        /\ fate[r] = "acknowledged" => fate'[r] = "acknowledged"
  <1>1. CASE fate' = fate
    BY <1>1 DEF Handled
  <1>2. ASSUME NEW r \in Requests, fate[r] \in {"new", "asked", "queued"},
               NEW f \in {"asked", "queued", "refused", "sent", "failed"},
               fate' = [fate EXCEPT ![r] = f]
        PROVE  Same
    <2>1. \A q \in Requests : fate'[q] = IF q = r THEN f ELSE fate[q]
      BY <1>2, RequestTypes
    <2>. QED
      BY <1>2, <2>1 DEF Handled
  <1>3. CASE Http
    <2>1. PICK w \in Callers :
            (\E r \in Requests : HttpRequest(w, r)) \/ HttpVerdict(w) \/ HttpRespond(w)
      BY <1>3 DEF Http
    <2>2. CASE \E r \in Requests : HttpRequest(w, r)
      BY <1>2, <2>2 DEF HttpRequest, SetFate
    <2>3. CASE HttpVerdict(w)
      <3>1. asked[w] # None /\ verdict[w] = "none"
        BY <2>3 DEF HttpVerdict, Queue!Accept, Queue!Refuse
      <3>2. asked[w] \in Requests /\ fate[asked[w]] = "asked"
        BY <3>1, RequestTypes DEF FateInv
      <3>. QED
        BY <1>2, <2>3, <3>2 DEF HttpVerdict, SetFate
    <2>4. CASE HttpRespond(w)
      BY <1>1, <2>4 DEF HttpRespond, linkVars
    <2>. QED
      BY <2>1, <2>2, <2>3, <2>4
  <1>4. ASSUME NEW how, ProcessEnds(how)
        PROVE  Same
    <2>1. \A q \in Requests :
            fate'[q] = IF fate[q] \in {"asked", "queued"} THEN "lost" ELSE fate[q]
      BY <1>4 DEF ProcessEnds, EndServer
    <2>. QED
      BY <2>1 DEF Handled
  <1>5. CASE Run
    <2>1. CASE \/ Accept \/ ReadMessages \/ ReadCut \/ ReadNothing \/ ReadError
               \/ DrainTake \/ DrainEmpty
      BY <1>1, <2>1 DEF Accept, ReadMessages, ReadCut, Read, ReadNothing, ReadError,
                        DrainTake, DrainEmpty, linkVars
    <2>2. CASE WriteMessage \/ WriteError
      <3>1. held \in Requests /\ fate[held] = "queued"
        BY <2>2, RequestTypes DEF WriteMessage, WriteError, Write, FateInv
      <3>. QED
        BY <1>2, <2>2, <3>1 DEF WriteMessage, WriteError, SetFate
    <2>. QED
      BY <1>4, <1>5, <2>1, <2>2 DEF Run, AcceptError
  <1>6. CASE Crash
    BY <1>4, <1>6 DEF Crash
  <1>7. CASE Restart \/ Environment \/ UNCHANGED vars
    BY <1>1, <1>7 DEF Restart, Environment, Traffic, ResetByTraffic, CloseOrphan, Drop, End,
                      vars, linkVars
  <1>8. CASE SendAcknowledge
    <2>1. sendAcknowledge
      BY <1>8 DEF SendAcknowledge
    <2>. DEFINE q == sendAcknowledgeNumber.request
    <2>2. q \in Requests /\ fate[q] = "handled" /\ fate' = [fate EXCEPT ![q] = "acknowledged"]
      BY <1>8, <2>1, RequestTypes DEF SendAcknowledge, FateInv
    <2>. HIDE DEF q
    <2>3. \A r \in Requests : fate'[r] = IF r = q THEN "acknowledged" ELSE fate[r]
      BY <2>2, RequestTypes
    <2>. QED
      BY <2>2, <2>3 DEF Handled
  <1>9. CASE Device /\ ~SendAcknowledge
    BY <1>1, <1>9 DEF Device, Loop, Connect, Establish, ConnectFails, Show, Leave,
         ReceiveNothing, SendConnected, SendNothing, Reboot, End, CloseOrphan, linkVars
  <1>. QED
    BY <1>3, <1>5, <1>6, <1>7, <1>8, <1>9 DEF Next

\* A step that accepts nothing and acts on nothing leaves the place.
LEMMA AppliedSame ==
  ASSUME Types, Types', AppliedInv, UNCHANGED accepted,
         \A r \in Requests : Handled(r)' <=> Handled(r)
  PROVE  Applied' = Applied /\ AppliedInv'
  <1>1. \A i \in 1 .. Len(accepted) : accepted[i] \in Requests
    BY ElementOfSeq DEF Types, TypeOK
  <1>2. IsLast(accepted', fate', Applied)
    BY <1>1 DEF AppliedInv, IsLast, Handled
  <1>. QED
    BY <1>2, AppliedIsNext

\* A handler's verdict is an Accept of the service, or nothing to it.
LEMMA HttpServes ==
  ASSUME Types, Types', FateInv, AppliedInv, Http, UNCHANGED deviceVars,
         \A r \in Requests : Handled(r)' <=> Handled(r)
  PROVE  [Service!Next]_Service!serviceVars /\ AppliedInv'
  <1>1. UNCHANGED <<setLighting, shown>>
    BY DEF deviceVars, lightVars
  <1>2. CASE UNCHANGED accepted
    <2>1. Applied' = Applied /\ AppliedInv'
      BY <1>2, AppliedSame
    <2>. QED
      BY <1>1, <1>2, <2>1 DEF Service!serviceVars
  <1>3. CASE \E r \in Requests : fate[r] = "asked" /\ accepted' = Append(accepted, r)
    <2>1. PICK r \in Requests : fate[r] = "asked" /\ accepted' = Append(accepted, r)
      BY <1>3
    <2>2. \A i \in 1 .. Len(accepted) : accepted[i] \in Requests
      BY ElementOfSeq DEF Types, TypeOK
    <2>3. \A i \in 1 .. Len(accepted) : accepted[i] # r
      BY <2>1 DEF FateInv, Accepted
    <2>4. accepted \in Seq(Requests) /\ Len(accepted) \in Nat
      BY LenProperties DEF Types, TypeOK
    <2>5. /\ Len(accepted') = Len(accepted) + 1 /\ accepted'[Len(accepted) + 1] = r
          /\ \A i \in 1 .. Len(accepted) : accepted'[i] = accepted[i]
      BY <2>1, <2>4, AppendProperties
    <2>6. ~Handled(r)'
      BY <2>1 DEF Handled
    <2>7. IsLast(accepted', fate', Applied)
      <3>1. Applied \in 0 .. Len(accepted') /\ (Applied > 0 => Applied \in 1 .. Len(accepted))
        BY <2>4, <2>5 DEF AppliedInv, IsLast
      <3>2. Applied > 0 => Handled(accepted[Applied])
        BY DEF AppliedInv, IsLast, Handled
      <3>3. Applied > 0 => fate'[accepted'[Applied]] \in {"handled", "acknowledged"}
        BY <2>2, <2>5, <3>1, <3>2 DEF Handled
      <3>4. ASSUME NEW j \in 1 .. Len(accepted'),
                   fate'[accepted'[j]] \in {"handled", "acknowledged"}
            PROVE  j <= Applied
        <4>1. j \in 1 .. Len(accepted) /\ accepted'[j] = accepted[j]
          BY <2>4, <2>5, <2>6, <3>4 DEF Handled
        <4>2. Handled(accepted[j])
          BY <2>2, <3>4, <4>1 DEF Handled
        <4>. QED
          BY <4>1, <4>2 DEF AppliedInv, IsLast, Handled
      <3>. QED
        BY <3>1, <3>3, <3>4 DEF IsLast
    <2>8. Applied' = Applied /\ AppliedInv'
      BY <2>7, AppliedIsNext
    <2>9. Service!Accept(r)
      BY <1>1, <2>1, <2>3, <2>8 DEF Service!Accept
    <2>. QED
      BY <2>8, <2>9 DEF Service!Next
  <1>. QED
    <2>1. PICK w \in Callers :
            (\E r \in Requests : HttpRequest(w, r)) \/ HttpVerdict(w) \/ HttpRespond(w)
      BY DEF Http
    <2>2. CASE UNCHANGED accepted
      BY <1>2, <2>2
    <2>3. CASE HttpVerdict(w) /\ Queue!Accept(w) /\ accepted' = Append(accepted, asked[w])
      <3>1. asked[w] \in Requests /\ fate[asked[w]] = "asked"
        BY <2>3, RequestTypes DEF Queue!Accept, FateInv
      <3>. QED
        BY <1>3, <2>3, <3>1
    <2>. QED
      BY <2>1, <2>2, <2>3 DEF HttpRequest, HttpVerdict, HttpRespond

\* A read of the device is an Apply of the service.
LEMMA ReceiveServes ==
  ASSUME Types, Types', FateInv, OrderInv, AppliedInv, NEW k \in Nat, Receive(k),
         UNCHANGED serverVars
  PROVE  [Service!Next]_Service!serviceVars /\ AppliedInv'
  <1>. DEFINE q == Arriving[1]
  <1>1. /\ setLighting' = q /\ 1 \in 1 .. Len(Arriving)
        /\ \A r \in Requests : fate'[r] = IF r = q THEN "handled" ELSE fate[r]
    BY ReceiveKeepsFlow
  <1>2. UNCHANGED <<accepted, shown>>
    BY DEF Receive, serverVars, queueVars
  <1>3. q \in Requests /\ fate[q] = "sent"
    BY <1>1, RequestTypes DEF FateInv
  <1>4. \A r \in Requests : Handled(r) => Before(r, q)
    BY <1>1 DEF OrderInv
  <1>. HIDE DEF q
  <1>5. PICK n \in 1 .. Len(accepted) : accepted[n] = q
    BY <1>3 DEF FateInv, Accepted
  <1>6. /\ \A i \in 1 .. Len(accepted) : accepted[i] \in Requests
        /\ Len(accepted) \in Nat
    BY ElementOfSeq, LenProperties DEF Types, TypeOK
  <1>7. \A i \in 1 .. Len(accepted) : Handled(accepted[i]) => i < n
    <2>. SUFFICES ASSUME NEW i \in 1 .. Len(accepted), Handled(accepted[i]) PROVE i < n
      OBVIOUS
    <2>1. PICK a, b \in 1 .. Len(accepted) :
            a < b /\ accepted[a] = accepted[i] /\ accepted[b] = q
      BY <1>4, <1>6 DEF Before
    <2>2. a = i /\ b = n
      BY <1>5, <2>1 DEF FateInv
    <2>. QED
      BY <2>1, <2>2
  <1>8. Applied < n /\ Applied \in Nat
    BY <1>6, <1>7 DEF AppliedInv, IsLast, Handled
  <1>9. IsLast(accepted', fate', n)
    <2>1. n \in 0 .. Len(accepted')
      BY <1>2, <1>6
    <2>2. fate'[accepted'[n]] \in {"handled", "acknowledged"}
      BY <1>1, <1>2, <1>3, <1>5
    <2>3. ASSUME NEW j \in 1 .. Len(accepted'),
                 fate'[accepted'[j]] \in {"handled", "acknowledged"}
          PROVE  j <= n
      <3>1. CASE accepted[j] = q
        BY <1>2, <1>5, <1>6, <2>3, <3>1 DEF FateInv
      <3>2. CASE Handled(accepted[j])
        BY <1>2, <1>6, <1>7, <2>3, <3>2
      <3>. QED
        BY <1>1, <1>2, <1>6, <2>3, <3>1, <3>2 DEF Handled
    <2>. QED
      BY <2>1, <2>2, <2>3 DEF IsLast
  <1>10. Applied' = n /\ AppliedInv'
    BY <1>9, AppliedIsNext
  <1>11. Service!Apply(n)
    <2>1. n \in Applied + 1 .. Len(accepted)
      BY <1>6, <1>8
    <2>. QED
      BY <1>1, <1>2, <1>5, <1>10, <2>1 DEF Service!Apply
  <1>. QED
    BY <1>10, <1>11 DEF Service!Next

\* So every step is one of the service, or nothing to it.
LEMMA StepServes ==
  ASSUME Types, Types', FateInv, OrderInv, AppliedInv, [Next]_vars
  PROVE  [Service!Next]_Service!serviceVars /\ AppliedInv'
  <1>1. CASE (ReceiveOne \/ ReceiveMany) /\ UNCHANGED serverVars
    BY <1>1, LinkAssumption, ReceiveServes DEF ReceiveOne, ReceiveMany
  <1>2. CASE ~(ReceiveOne \/ ReceiveMany)
    <2>1. \A r \in Requests : Handled(r)' <=> Handled(r)
      BY <1>2, HandledSame
    <2>2. CASE Http /\ UNCHANGED deviceVars
      BY <2>1, <2>2, HttpServes
    <2>3. CASE UNCHANGED accepted
      <3>1. Applied' = Applied /\ AppliedInv'
        BY <2>1, <2>3, AppliedSame
      <3>2. CASE UNCHANGED <<setLighting, shown>>
        BY <2>3, <3>1, <3>2 DEF Service!serviceVars
      <3>3. CASE Show
        <4>1. Service!Show
          BY <2>3, <3>1, <3>3 DEF Show, Service!Show
        <4>. QED
          BY <3>1, <4>1 DEF Service!Next
      <3>4. CASE Reboot
        <4>1. Service!Forget
          BY <2>3, <3>1, <3>4 DEF Reboot, Service!Forget
        <4>. QED
          BY <3>1, <4>1 DEF Service!Next
      <3>. QED
        <4>1. CASE Device
          BY <1>2, <3>2, <3>3, <3>4, <4>1 DEF Device, Loop, Connect, ConnectFails, Leave,
               ReceiveNothing, SendConnected, SendAcknowledge, SendNothing, Send, lightVars
        <4>2. CASE Http /\ UNCHANGED deviceVars
          BY <2>2, <4>2
        <4>. QED
          BY <3>2, <4>1, <4>2 DEF Next, vars, deviceVars, lightVars
    <2>4. CASE UNCHANGED vars
      BY <2>3, <2>4 DEF vars, serverVars, queueVars
    <2>5. CASE Run
      BY <2>3, <2>5 DEF Run, Accept, AcceptError, ProcessEnds, ReadMessages, ReadCut, Read,
           ReadNothing, ReadError, DrainTake, DrainEmpty, WriteMessage, WriteError, Write, queueVars
    <2>. QED
      BY <2>2, <2>3, <2>4, <2>5 DEF Next, Crash, ProcessEnds, Restart, serverVars, queueVars
  <1>. QED
    <2>1. CASE ReceiveOne \/ ReceiveMany
      <3>1. dpc' # dpc
        BY <2>1 DEF ReceiveOne, ReceiveMany, DGoto
      <3>. QED
        BY <1>1, <2>1, <3>1 DEF Next, vars, deviceVars
    <2>. QED
      BY <1>2, <2>1

\* The service starts with the system.
LEMMA InitServes == Init => Service!Init /\ AppliedInv
  <1>. SUFFICES ASSUME Init PROVE Service!Init /\ AppliedInv
    OBVIOUS
  <1>1. accepted = <<>> /\ setLighting = None /\ shown = None /\ Types
    BY TypesInit DEF Init, ServerInit, DeviceInit
  <1>2. IsLast(accepted, fate, 0)
    BY <1>1, EmptySeq DEF IsLast
  <1>3. Applied = 0
    BY <1>1, <1>2, AppliedIs
  <1>. QED
    BY <1>1, <1>2, <1>3 DEF Service!Init, AppliedInv

\* Through lost connections, failed writes, crashes, restarts and reboots the
\* LEDs follow the accepted requests in the order of acceptance, with gaps, each
\* at most once, without ever going back: the system implements LightingService.
THEOREM Implements == Spec => ImplementsLighting
  <1>. DEFINE Inv == Types /\ FateInv /\ OrderInv
  <1>1. Init => Service!Init /\ AppliedInv
    BY InitServes
  <1>2. Inv /\ Inv' /\ AppliedInv /\ [Next]_vars
          => [Service!Next]_Service!serviceVars /\ AppliedInv'
    BY StepServes
  <1>3. Spec => []Inv
    BY FlowAlways
  <1>. HIDE DEF Inv
  <1>. QED
    BY <1>1, <1>2, <1>3, PTL DEF Spec, ImplementsLighting, Service!Spec

-----------------------------------------------------------------------------
(* The device's messages to the server.                                   *)

(* Sequences.                                                              *)

\* A sequence is its first n elements and those behind them.
LEMMA PrefixAndRest ==
  ASSUME NEW S, NEW s \in Seq(S), NEW n \in 0 .. Len(s)
  PROVE  Prefix(s, n) \o Rest(s, n) = s
  <1>1. /\ Len(s) \in Nat /\ 1 \in 1 .. Len(s) + 1 /\ n \in 1 - 1 .. Len(s)
        /\ Len(s) \in n .. Len(s)
    BY LenProperties
  <1>2. SubSeq(s, 1, n) \o SubSeq(s, n + 1, Len(s)) = SubSeq(s, 1, Len(s))
    BY <1>1, ConcatAdjacentSubSeq
  <1>3. SubSeq(s, 1, Len(s)) = s
    BY SubSeqFull
  <1>. QED
    BY <1>2, <1>3 DEF Prefix, Rest

\* Behind l, a stream that agrees with t as far as it goes.
LEMMA ConcatCut ==
  ASSUME NEW S, NEW l \in Seq(S), NEW t \in Seq(S), NEW u \in Seq(S),
         Len(u) <= Len(t), \A i \in 1 .. Len(u) : u[i] = t[i]
  PROVE  /\ Len(l \o u) <= Len(l \o t)
         /\ \A i \in 1 .. Len(l \o u) : (l \o u)[i] = (l \o t)[i]
  <1>. DEFINE n == Len(l)
  <1>1. n \in Nat /\ Len(t) \in Nat /\ Len(u) \in Nat
    BY LenProperties
  <1>2. /\ Len(l \o u) = n + Len(u)
        /\ \A i \in 1 .. n + Len(u) :
             (l \o u)[i] = IF i <= n THEN l[i] ELSE u[i - n]
    BY ConcatProperties
  <1>3. /\ Len(l \o t) = n + Len(t)
        /\ \A i \in 1 .. n + Len(t) :
             (l \o t)[i] = IF i <= n THEN l[i] ELSE t[i - n]
    BY ConcatProperties
  <1>. HIDE DEF n
  <1>4. ASSUME NEW i \in 1 .. n + Len(u)
        PROVE  (l \o u)[i] = (l \o t)[i]
    <2>1. i \in 1 .. n + Len(t)
      BY <1>1
    <2>2. ~(i <= n) => i - n \in 1 .. Len(u)
      BY <1>1
    <2>. QED
      BY <1>2, <1>3, <2>1, <2>2
  <1>. QED
    BY <1>1, <1>2, <1>3, <1>4

-----------------------------------------------------------------------------
(* What the device says on a connection.                                   *)

\* In this state,
LEMMA StreamProperties ==
  ASSUME Types, NEW c \in Conns
  PROVE  /\ logged[c] \in Seq(FromDevice) /\ toServer[c] \in Seq(FromDevice)
         /\ Stream(c) \in Seq(FromDevice) /\ Len(Stream(c)) \in Nat
         /\ \A i \in 1 .. Len(Stream(c)) : Stream(c)[i] \in FromDevice
  <1>1. logged[c] \in Seq(FromDevice) /\ toServer[c] \in Seq(FromDevice)
    BY DEF Types, TypeOK
  <1>2. Stream(c) \in Seq(FromDevice)
    BY <1>1, ConcatProperties DEF Stream
  <1>. QED
    BY <1>1, <1>2, ElementOfSeq, LenProperties

\* and in the next.
LEMMA StreamPropertiesNext ==
  ASSUME Types', NEW c \in Conns
  PROVE  /\ logged'[c] \in Seq(FromDevice) /\ toServer'[c] \in Seq(FromDevice)
         /\ Stream(c)' \in Seq(FromDevice) /\ Len(Stream(c)') \in Nat
         /\ \A i \in 1 .. Len(Stream(c)') : Stream(c)'[i] \in FromDevice
  <1>1. logged'[c] \in Seq(FromDevice) /\ toServer'[c] \in Seq(FromDevice)
    BY DEF Types, TypeOK
  <1>2. Stream(c)' \in Seq(FromDevice)
    BY <1>1, ConcatProperties DEF Stream
  <1>. QED
    BY <1>1, <1>2, ElementOfSeq, LenProperties

\* What an acknowledgement carries.
LEMMA AcknowledgeHas ==
  ASSUME NEW m \in FromDevice
  PROVE  IsAcknowledge(m) => m.request \in Requests
  BY DEF FromDevice, IsAcknowledge

\* A step takes nothing from the stream of c but its end.
StreamCut(c) ==
  /\ Len(Stream(c)') <= Len(Stream(c))
  /\ \A i \in 1 .. Len(Stream(c)') : Stream(c)'[i] = Stream(c)[i]

\* A stream that stays is cut nowhere.
LEMMA StreamSame ==
  ASSUME Types, NEW c \in Conns, Stream(c)' = Stream(c)
  PROVE  StreamCut(c)
  BY StreamProperties DEF StreamCut

\* The end may be lost of what is under way.
LEMMA WayCut ==
  ASSUME Types, Types', NEW c \in Conns, logged'[c] = logged[c],
         Len(toServer'[c]) <= Len(toServer[c]),
         \A i \in 1 .. Len(toServer'[c]) : toServer'[c][i] = toServer[c][i]
  PROVE  StreamCut(c)
  <1>1. /\ logged[c] \in Seq(FromDevice) /\ toServer[c] \in Seq(FromDevice)
        /\ toServer'[c] \in Seq(FromDevice)
    BY StreamProperties, StreamPropertiesNext
  <1>. DEFINE old == logged[c]  way == toServer[c]  left == toServer'[c]
  <1>2. Stream(c) = old \o way /\ Stream(c)' = old \o left
    BY DEF Stream
  <1>3. /\ old \in Seq(FromDevice) /\ way \in Seq(FromDevice) /\ left \in Seq(FromDevice)
        /\ Len(left) <= Len(way) /\ \A i \in 1 .. Len(left) : left[i] = way[i]
    BY <1>1
  <1>. HIDE DEF old, way, left
  <1>4. /\ Len(old \o left) <= Len(old \o way)
        /\ \A i \in 1 .. Len(old \o left) : (old \o left)[i] = (old \o way)[i]
    BY <1>3, ConcatCut
  <1>. QED
    BY <1>2, <1>4 DEF StreamCut

\* What the server reads was under way.
LEMMA ReadKeepsStream ==
  ASSUME Types, Types', ReadMessages \/ ReadCut, NEW c \in Conns
  PROVE  Stream(c)' = Stream(c)
  <1>. DEFINE s == openSocket
  <1>1. s \in Conns
    BY DEF ReadMessages, ReadCut, SGoto, Types, TypeOK, ConnectionInv
  <1>2. PICK k \in 0 .. Len(toServer[s]) :
          /\ logged' = [logged EXCEPT ![s] = @ \o Prefix(toServer[s], k)]
          /\ toServer' = [toServer EXCEPT ![s] = Rest(@, k)]
    <2>1. Len(toServer[s]) \in Nat
      BY <1>1, StreamProperties, LenProperties
    <2>2. CASE ReadMessages
      <3>1. PICK j \in 1 .. Len(toServer[s]) : Read(j)
        BY <2>2 DEF ReadMessages
      <3>2. j \in 0 .. Len(toServer[s])
        BY <2>1, <3>1
      <3>. QED
        BY <3>1, <3>2 DEF Read
    <2>3. CASE ReadCut
      <3>1. PICK j \in 1 .. Len(toServer[s]) : Read(j - 1)
        BY <2>3 DEF ReadCut
      <3>2. j - 1 \in 0 .. Len(toServer[s])
        BY <2>1, <3>1
      <3>. QED
        BY <3>1, <3>2 DEF Read
    <2>. QED
      BY <2>2, <2>3
  <1>. HIDE DEF s
  <1>3. CASE c = s
    <2>. DEFINE front == Prefix(toServer[s], k)
                back == Rest(toServer[s], k)
                old == logged[s]
    <2>1. old \in Seq(FromDevice) /\ toServer[s] \in Seq(FromDevice)
      BY <1>1, StreamProperties
    <2>2. k \in 0 .. Len(toServer[s])
      BY <2>1, LenProperties
    <2>3. Stream(c)' = (old \o front) \o back /\ Stream(c) = old \o toServer[s]
      BY <1>1, <1>2, <1>3 DEF Stream, Types, TypeOK
    <2>4. front \in Seq(FromDevice) /\ back \in Seq(FromDevice)
      BY <2>1, <2>2, PrefixProperties, RestProperties
    <2>5. front \o back = toServer[s]
      BY <2>1, <2>2, PrefixAndRest
    <2>. HIDE DEF front, back, old
    <2>6. (old \o front) \o back = old \o (front \o back)
      BY <2>1, <2>4, ConcatAssociative
    <2>. QED
      BY <2>3, <2>5, <2>6
  <1>4. CASE c # s
    BY <1>2, <1>4 DEF Stream, Types, TypeOK
  <1>. QED
    BY <1>3, <1>4

\* What the device sends comes last.
LEMMA SendAppends ==
  ASSUME Types, Types', NEW c \in Conns, NEW m \in FromDevice, logged' = logged,
         toServer' = [toServer EXCEPT ![c] = Append(@, m)]
  PROVE  /\ Len(Stream(c)') = Len(Stream(c)) + 1
         /\ \A i \in 1 .. Len(Stream(c)) : Stream(c)'[i] = Stream(c)[i]
         /\ Stream(c)'[Len(Stream(c)) + 1] = m
         /\ \A d \in Conns \ {c} : Stream(d)' = Stream(d)
  <1>1. /\ logged[c] \in Seq(FromDevice) /\ toServer[c] \in Seq(FromDevice)
        /\ Stream(c) \in Seq(FromDevice)
    BY StreamProperties
  <1>2. \A d \in Conns : toServer'[d] =
          IF d = c THEN Append(toServer[d], m) ELSE toServer[d]
    BY DEF Types, TypeOK
  <1>3. \A d \in Conns \ {c} : Stream(d)' = Stream(d)
    BY <1>2 DEF Stream
  <1>4. /\ Append(toServer[c], m) = toServer[c] \o <<m>>
        /\ Append(Stream(c), m) = Stream(c) \o <<m>>
    BY <1>1, AppendIsConcat
  <1>5. Stream(c)' = Append(Stream(c), m)
    <2>. DEFINE old == logged[c]  way == toServer[c]  last == <<m>>
    <2>1. Stream(c)' = old \o (way \o last) /\ Append(Stream(c), m) = (old \o way) \o last
      BY <1>2, <1>4 DEF Stream
    <2>2. old \in Seq(FromDevice) /\ way \in Seq(FromDevice) /\ last \in Seq(FromDevice)
      BY <1>1
    <2>. HIDE DEF old, way, last
    <2>3. (old \o way) \o last = old \o (way \o last)
      BY <2>2, ConcatAssociative
    <2>. QED
      BY <2>1, <2>3
  <1>6. /\ Len(Append(Stream(c), m)) = Len(Stream(c)) + 1
        /\ \A i \in 1 .. Len(Stream(c)) : Append(Stream(c), m)[i] = Stream(c)[i]
        /\ Append(Stream(c), m)[Len(Stream(c)) + 1] = m
    BY <1>1, AppendProperties
  <1>. QED
    BY <1>3, <1>5, <1>6

\* To a connection nothing happens but that it ends, and with it its stream.
Quiet(c) ==
  /\ StreamCut(c)
  /\ peer'[c] = "open" => peer[c] = "open" /\ Stream(c)' = Stream(c)

\* The server and the network put nothing into the device's mouth.
LEMMA ServerQuiet ==
  ASSUME Types, Types', NEW c \in Conns,
         Http \/ Run \/ Crash \/ Restart \/ (Environment /\ UNCHANGED serverVars)
  PROVE  Quiet(c)
  <1>1. CASE UNCHANGED <<logged, toServer>> /\ (peer'[c] = "open" => peer[c] = "open")
    <2>1. Stream(c)' = Stream(c)
      BY <1>1 DEF Stream
    <2>. QED
      BY <1>1, <2>1, StreamSame DEF Quiet
  <1>2. ASSUME NEW how \in {"closed", "orphan"}, ProcessEnds(how)
        PROVE  Quiet(c)
    <2>1. peer'[c] # "open" /\ logged' = logged /\ toServer'[c] = <<>>
      BY <1>2 DEF ProcessEnds, EndServer, Ends
    <2>2. Len(toServer[c]) \in Nat /\ Len(<<>>) = 0
      BY StreamProperties, LenProperties, EmptySeq
    <2>3. StreamCut(c)
      BY <2>1, <2>2, WayCut
    <2>. QED
      BY <2>1, <2>3 DEF Quiet
  <1>3. CASE Http
    <2>1. UNCHANGED <<logged, toServer, peer>>
      BY <1>3 DEF Http, HttpRequest, HttpVerdict, HttpRespond, linkVars, streams, runVars
    <2>. QED
      BY <1>1, <2>1
  <1>4. CASE Run
    <2>1. CASE ReadMessages \/ ReadCut
      <3>1. Stream(c)' = Stream(c) /\ peer' = peer
        BY <2>1, ReadKeepsStream DEF ReadMessages, ReadCut, Read
      <3>. QED
        BY <3>1, StreamSame DEF Quiet
    <2>2. CASE AcceptError
      BY <1>2, <2>2 DEF AcceptError
    <2>3. CASE Accept \/ ReadNothing \/ DrainTake \/ DrainEmpty \/ WriteMessage
      <3>1. UNCHANGED <<logged, toServer, peer>>
        BY <2>3 DEF Accept, ReadNothing, DrainTake, DrainEmpty, WriteMessage, Write,
                    linkVars, streams
      <3>. QED
        BY <1>1, <3>1
    <2>4. CASE ReadError \/ WriteError
      <3>1. PICK what \in {"dead", "mute"} :
              /\ UNCHANGED <<logged, toServer>>
              /\ peer' = peer \/ peer' = [peer EXCEPT ![openSocket] = what]
        BY <2>4 DEF ReadError, WriteError, Write, streams
      <3>2. peer'[c] = "open" => peer[c] = "open"
        BY <3>1 DEF Types, TypeOK
      <3>. QED
        BY <1>1, <3>1, <3>2
    <2>. QED
      BY <1>4, <2>1, <2>2, <2>3, <2>4 DEF Run
  <1>5. CASE Crash
    BY <1>2, <1>5 DEF Crash
  <1>6. CASE Restart
    BY <1>1, <1>6 DEF Restart, streams
  <1>7. CASE Environment /\ UNCHANGED serverVars
    <2>1. logged' = logged
      BY <1>7 DEF serverVars, runVars
    <2>2. CASE \E d \in Conns : ResetByTraffic(d) \/ CloseOrphan(d)
      <3>1. PICK d \in Conns, what \in {"reset", "mute", "closed"} :
              peer' = [peer EXCEPT ![d] = what] /\ toServer' = toServer
        BY <2>2 DEF ResetByTraffic, CloseOrphan, streams
      <3>2. peer'[c] = "open" => peer[c] = "open"
        BY <3>1 DEF Types, TypeOK
      <3>. QED
        BY <1>1, <2>1, <3>1, <3>2
    <2>3. CASE \E d \in Conns : Drop(d)
      <3>1. PICK d \in Conns, how \in Ends, i \in Nat, j \in Nat : End(d, how, i, j)
        BY <2>3, LinkAssumption DEF Drop
      <3>2. StreamCut(c)
        BY <2>1, <3>1, EndTypes, WayCut
      <3>3. CASE d = c
        <4>1. peer'[c] # "open"
          BY <3>1, <3>3 DEF End, Ends, Types, TypeOK
        <4>. QED
          BY <3>2, <4>1 DEF Quiet
      <3>4. CASE d # c
        <4>1. peer'[c] = peer[c] /\ toServer'[c] = toServer[c]
          BY <3>1, <3>4 DEF End, Types, TypeOK
        <4>2. Stream(c)' = Stream(c)
          BY <2>1, <4>1 DEF Stream
        <4>. QED
          BY <3>2, <4>1, <4>2 DEF Quiet
      <3>. QED
        BY <3>3, <3>4
    <2>. QED
      BY <1>7, <2>2, <2>3 DEF Environment, Traffic
  <1>. QED
    BY <1>3, <1>4, <1>5, <1>6, <1>7

\* What the device's flags say stays right as long as it does nothing itself.
LEMMA GreetingKept ==
  ASSUME Types, GreetingInv,
         UNCHANGED <<client, sendConnected, sendAcknowledge, sendAcknowledgeNumber,
                     deviceMessageNumber>>,
         dpc' = "acknowledge" => dpc = "acknowledge",
         client # None => Quiet(client)
  PROVE  GreetingInv'
  <1>1. client' # None /\ peer'[client'] = "open" =>
          client # None /\ peer[client] = "open" /\ Stream(client)' = Stream(client)
    BY DEF Quiet
  <1>. QED
    BY <1>1 DEF GreetingInv

\* What has been said stays true when the streams only lose their ends.
LEMMA CutKeepsReplies ==
  ASSUME Types, Types', FateInv', Acknowledgements, IntroducedFirst,
         \A c \in Conns : StreamCut(c),
         \A r \in Requests : fate[r] = "acknowledged" => fate'[r] = "acknowledged"
  PROVE  Acknowledgements' /\ IntroducedFirst'
  <1>1. \A c \in Conns : Len(Stream(c)) \in Nat /\ Len(Stream(c)') \in Nat
    BY StreamProperties, StreamPropertiesNext
  <1>2. \A c \in Conns : \A i \in 1 .. Len(Stream(c)') :
          i \in 1 .. Len(Stream(c)) /\ Stream(c)'[i] = Stream(c)[i]
    BY <1>1 DEF StreamCut
  <1>3. \A c \in Conns : \A i \in 1 .. Len(Stream(c)) :
          IsAcknowledge(Stream(c)[i]) => Stream(c)[i].request \in Requests
    BY StreamProperties, AcknowledgeHas
  <1>4. ASSUME NEW c \in Conns, NEW i \in 1 .. Len(Stream(c)'),
               IsAcknowledge(Stream(c)[i])
        PROVE  /\ fate'[Stream(c)[i].request] = "acknowledged"
               /\ i > 2 => Stream(c)[i].conn = c
               /\ \A d \in Conns : \A j \in 1 .. Len(Stream(d)') :
                    /\ IsAcknowledge(Stream(d)[j])
                    /\ Stream(d)[j].request = Stream(c)[i].request
                    => d = c /\ j = i
    BY <1>2, <1>3, <1>4 DEF Acknowledgements
  <1>5. Acknowledgements'
    BY <1>2, <1>4 DEF Acknowledgements, FateInv, IsAcknowledge
  <1>6. ASSUME NEW c \in Conns, NEW i \in 1 .. Len(Stream(c)')
        PROVE  /\ IsAcknowledge(Stream(c)'[i]) <=> i > 1
               /\ i > 1 => Stream(c)'[i].number
                             = (Stream(c)'[i - 1].number + 1) % DeviceNumberLimit
    <2>1. i > 1 => i - 1 \in 1 .. Len(Stream(c)')
      BY <1>1
    <2>. QED
      BY <1>2, <2>1 DEF IntroducedFirst, IsAcknowledge
  <1>7. IntroducedFirst'
    BY <1>6 DEF IntroducedFirst, IsAcknowledge
  <1>. QED
    BY <1>5, <1>7

\* And when one of them gains a message m that fits.
LEMMA AppendKeepsReplies ==
  ASSUME Types, Types', FateInv', Acknowledgements, IntroducedFirst,
         NEW c \in Conns, NEW m \in FromDevice,
         Len(Stream(c)') = Len(Stream(c)) + 1,
         \A i \in 1 .. Len(Stream(c)) : Stream(c)'[i] = Stream(c)[i],
         Stream(c)'[Len(Stream(c)) + 1] = m,
         \A d \in Conns \ {c} : Stream(d)' = Stream(d),
         \A r \in Requests : fate[r] = "acknowledged" => fate'[r] = "acknowledged",
         IsAcknowledge(m) <=> Len(Stream(c)) > 0,
         Len(Stream(c)) > 0 =>
           m.number = (Stream(c)[Len(Stream(c))].number + 1) % DeviceNumberLimit,
         IsAcknowledge(m) =>
           /\ fate'[m.request] = "acknowledged" /\ fate[m.request] # "acknowledged"
           /\ Len(Stream(c)) > 1 => m.conn = c
  PROVE  Acknowledgements' /\ IntroducedFirst'
  <1>. DEFINE n == Len(Stream(c))
  <1>1. \A d \in Conns : Len(Stream(d)) \in Nat /\ Len(Stream(d)') \in Nat
    BY StreamProperties, StreamPropertiesNext
  <1>2. \A d \in Conns : \A i \in 1 .. Len(Stream(d)') :
          \/ d = c /\ i = n + 1 /\ Stream(d)'[i] = m
          \/ /\ ~(d = c /\ i = n + 1)
             /\ i \in 1 .. Len(Stream(d)) /\ Stream(d)'[i] = Stream(d)[i]
    BY <1>1
  <1>3. \A d \in Conns : \A i \in 1 .. Len(Stream(d)) :
          IsAcknowledge(Stream(d)[i]) =>
            /\ Stream(d)[i].request \in Requests
            /\ fate[Stream(d)[i].request] = "acknowledged"
    BY StreamProperties, AcknowledgeHas DEF Acknowledgements
  <1>. HIDE DEF n
  <1>4. ASSUME NEW d \in Conns, NEW i \in 1 .. Len(Stream(d)'),
               IsAcknowledge(Stream(d)'[i])
        PROVE  /\ fate'[Stream(d)'[i].request] = "acknowledged"
               /\ i > 2 => Stream(d)'[i].conn = d
    <2>1. CASE d = c /\ i = n + 1 /\ Stream(d)'[i] = m
      BY <1>1, <1>4, <2>1 DEF n
    <2>2. CASE i \in 1 .. Len(Stream(d)) /\ Stream(d)'[i] = Stream(d)[i]
      BY <1>3, <1>4, <2>2 DEF Acknowledgements
    <2>. QED
      BY <1>2, <2>1, <2>2
  <1>5. ASSUME NEW d \in Conns, NEW i \in 1 .. Len(Stream(d)'),
               NEW e \in Conns, NEW j \in 1 .. Len(Stream(e)'),
               IsAcknowledge(Stream(d)'[i]), IsAcknowledge(Stream(e)'[j]),
               Stream(e)'[j].request = Stream(d)'[i].request
        PROVE  e = d /\ j = i
    <2>1. CASE d = c /\ i = n + 1 /\ Stream(d)'[i] = m
      BY <1>2, <1>3, <1>5, <2>1
    <2>2. CASE /\ i \in 1 .. Len(Stream(d)) /\ Stream(d)'[i] = Stream(d)[i]
               /\ e = c /\ j = n + 1 /\ Stream(e)'[j] = m
      BY <1>3, <1>5, <2>2
    <2>3. CASE /\ i \in 1 .. Len(Stream(d)) /\ Stream(d)'[i] = Stream(d)[i]
               /\ j \in 1 .. Len(Stream(e)) /\ Stream(e)'[j] = Stream(e)[j]
      BY <1>5, <2>3 DEF Acknowledgements
    <2>. QED
      BY <1>2, <2>1, <2>2, <2>3
  <1>6. Acknowledgements'
    BY <1>4, <1>5 DEF Acknowledgements, FateInv, IsAcknowledge
  <1>7. ASSUME NEW d \in Conns, NEW i \in 1 .. Len(Stream(d)')
        PROVE  /\ IsAcknowledge(Stream(d)'[i]) <=> i > 1
               /\ i > 1 => Stream(d)'[i].number
                             = (Stream(d)'[i - 1].number + 1) % DeviceNumberLimit
    <2>1. CASE d = c /\ i = n + 1 /\ Stream(d)'[i] = m
      <3>1. n \in Nat /\ (n > 0 => n \in 1 .. n)
        BY <1>1 DEF n
      <3>2. n > 0 => Stream(d)'[i - 1] = Stream(c)[n]
        BY <2>1, <3>1 DEF n
      <3>. QED
        BY <2>1, <3>1, <3>2 DEF n
    <2>2. CASE i \in 1 .. Len(Stream(d)) /\ Stream(d)'[i] = Stream(d)[i]
      <3>1. i > 1 => i - 1 \in 1 .. Len(Stream(d)') /\ i - 1 \in 1 .. Len(Stream(d))
        BY <1>1, <2>2
      <3>2. i > 1 => Stream(d)'[i - 1] = Stream(d)[i - 1]
        BY <3>1
      <3>. QED
        BY <2>2, <3>1, <3>2 DEF IntroducedFirst
    <2>. QED
      BY <1>2, <2>1, <2>2
  <1>8. IntroducedFirst'
    BY <1>7 DEF IntroducedFirst, IsAcknowledge
  <1>. QED
    BY <1>6, <1>8

\* The parts of the invariant that speak of replies.
ReplyInv == Acknowledgements /\ IntroducedFirst /\ GreetingInv

\* An acknowledgement is not taken back.
LEMMA AcknowledgedStays ==
  ASSUME Types, Types', FateInv, OrderInv, [Next]_vars
  PROVE  \A r \in Requests : fate[r] = "acknowledged" => fate'[r] = "acknowledged"
  <1>1. CASE ReceiveOne \/ ReceiveMany
    <2>1. dpc' # dpc
      BY <1>1 DEF ReceiveOne, ReceiveMany, DGoto
    <2>2. UNCHANGED serverVars
      BY <2>1 DEF Next, vars, deviceVars
    <2>3. PICK k \in Nat : Receive(k)
      BY <1>1, LinkAssumption DEF ReceiveOne, ReceiveMany
    <2>4. /\ 1 \in 1 .. Len(Arriving)
          /\ \A r \in Requests : fate'[r] = IF r = Arriving[1] THEN "handled" ELSE fate[r]
      BY <2>2, <2>3, ReceiveKeepsFlow
    <2>. QED
      BY <2>4 DEF FateInv
  <1>2. CASE ~(ReceiveOne \/ ReceiveMany)
    BY <1>2, HandledSame
  <1>. QED
    BY <1>1, <1>2

\* The device sends its greeting.
LEMMA ConnectedReplies ==
  ASSUME Types, Types', FateInv, FateInv', ReplyInv, SendConnected, UNCHANGED serverVars
  PROVE  ReplyInv'
  <1>. DEFINE m == [type |-> "Connected", number |-> deviceMessageNumber]
  <1>. Acknowledgements /\ IntroducedFirst /\ GreetingInv
    BY DEF ReplyInv
  <1>1. /\ client \in Conns /\ client # None
        /\ UNCHANGED <<client, peer, fate, logged, sendAcknowledge, sendAcknowledgeNumber>>
        /\ sendConnected /\ ~sendConnected'
        /\ deviceMessageNumber' = (deviceMessageNumber + 1) % DeviceNumberLimit
    BY DEF SendConnected, Send, CanSend, Connected, acknowledgeVars, serverVars, runVars,
           Types, TypeOK
  <1>2. CASE /\ peer[client] = "open"
             /\ toServer' = [toServer EXCEPT ![client] = Append(@, m)]
    <2>1. m \in FromDevice /\ ~IsAcknowledge(m) /\ m.number = deviceMessageNumber
      BY DEF FromDevice, IsAcknowledge, Types, TypeOK
    <2>2. Len(Stream(client)) = 0
      BY <1>1, <1>2, EmptySeq DEF GreetingInv
    <2>. HIDE DEF m
    <2>3. /\ Len(Stream(client)') = Len(Stream(client)) + 1
          /\ \A i \in 1 .. Len(Stream(client)) : Stream(client)'[i] = Stream(client)[i]
          /\ Stream(client)'[Len(Stream(client)) + 1] = m
          /\ \A d \in Conns \ {client} : Stream(d)' = Stream(d)
      BY <1>1, <1>2, <2>1, SendAppends
    <2>4. Acknowledgements' /\ IntroducedFirst'
      <3>1. /\ ~(Len(Stream(client)) > 0)
            /\ \A r \in Requests : fate[r] = "acknowledged" => fate'[r] = "acknowledged"
        BY <1>1, <2>2
      <3>. QED
        BY <1>1, <2>1, <2>3, <3>1, AppendKeepsReplies
    <2>5. GreetingInv'
      <3>1. Len(Stream(client)') = 1 /\ Stream(client)'[1] = m /\ Stream(client)' # <<>>
        BY <2>2, <2>3, EmptySeq
      <3>. QED
        BY <1>1, <2>1, <3>1 DEF GreetingInv
    <2>. QED
      BY <2>4, <2>5 DEF ReplyInv
  <1>3. CASE peer[client] # "open" /\ UNCHANGED toServer
    <2>1. \A c \in Conns : Stream(c)' = Stream(c)
      BY <1>1, <1>3 DEF Stream
    <2>2. Acknowledgements' /\ IntroducedFirst'
      BY <1>1, <2>1, StreamSame, CutKeepsReplies
    <2>3. GreetingInv'
      BY <1>1, <1>3 DEF GreetingInv
    <2>. QED
      BY <2>2, <2>3 DEF ReplyInv
  <1>. QED
    BY <1>2, <1>3 DEF SendConnected, Send

\* The device acknowledges what it has acted on.
LEMMA AcknowledgeReplies ==
  ASSUME Types, Types', FateInv, FateInv', ReplyInv, SendAcknowledge, UNCHANGED serverVars
  PROVE  ReplyInv'
  <1>. DEFINE q == sendAcknowledgeNumber.request
              m == [type |-> "Acknowledge", number |-> deviceMessageNumber,
                    responseTo |-> sendAcknowledgeNumber.number, request |-> q,
                    conn |-> sendAcknowledgeNumber.conn]
  <1>. Acknowledgements /\ IntroducedFirst /\ GreetingInv
    BY DEF ReplyInv
  <1>1. /\ client \in Conns /\ client # None
        /\ UNCHANGED <<client, peer, logged, sendConnected>>
        /\ sendAcknowledge /\ ~sendAcknowledge' /\ dpc' = "show"
        /\ dpc = "acknowledge" \/ ~sendConnected
        /\ deviceMessageNumber' = (deviceMessageNumber + 1) % DeviceNumberLimit
        /\ fate' = [fate EXCEPT ![q] = "acknowledged"]
    BY DEF SendAcknowledge, AcknowledgeDone, DGoto, Send, Connected, serverVars, runVars,
           Types, TypeOK, ConnectionInv
  <1>2. q \in Requests /\ fate[q] = "handled" /\ fate'[q] = "acknowledged"
    BY <1>1, RequestTypes DEF FateInv
  <1>3. \A r \in Requests : fate[r] = "acknowledged" => fate'[r] = "acknowledged"
    BY <1>1, <1>2, RequestTypes
  <1>4. CASE /\ peer[client] = "open"
             /\ toServer' = [toServer EXCEPT ![client] = Append(@, m)]
    <2>1. /\ m \in FromDevice /\ IsAcknowledge(m) /\ m.number = deviceMessageNumber
          /\ m.request = q /\ m.conn = sendAcknowledgeNumber.conn
      <3>1. /\ sendAcknowledgeNumber.number \in 0 .. NumberLimit - 1
            /\ sendAcknowledgeNumber.conn \in Conns
            /\ deviceMessageNumber \in 0 .. DeviceNumberLimit - 1
        BY <1>1 DEF Types, TypeOK, ConnectionInv
      <3>. QED
        BY <1>2, <3>1 DEF FromDevice, IsAcknowledge
    <2>2. Stream(client) # <<>> /\ Len(Stream(client)) > 0
      <3>1. Stream(client) # <<>>
        BY <1>1, <1>4 DEF GreetingInv
      <3>. QED
        BY <1>1, <3>1, StreamProperties, EmptySeq
    <2>3. deviceMessageNumber =
            (Stream(client)[Len(Stream(client))].number + 1) % DeviceNumberLimit
      BY <1>1, <1>4, <2>2 DEF GreetingInv
    <2>4. Len(Stream(client)) > 1 => sendAcknowledgeNumber.conn = client
      <3>1. Len(Stream(client)) \in Nat
        BY <1>1, StreamProperties
      <3>. QED
        BY <1>1, <1>4, <3>1 DEF GreetingInv
    <2>. HIDE DEF m
    <2>5. /\ Len(Stream(client)') = Len(Stream(client)) + 1
          /\ \A i \in 1 .. Len(Stream(client)) : Stream(client)'[i] = Stream(client)[i]
          /\ Stream(client)'[Len(Stream(client)) + 1] = m
          /\ \A d \in Conns \ {client} : Stream(d)' = Stream(d)
      BY <1>1, <1>4, <2>1, SendAppends
    <2>6. Acknowledgements' /\ IntroducedFirst'
      BY <1>1, <1>2, <1>3, <2>1, <2>2, <2>3, <2>4, <2>5, AppendKeepsReplies
    <2>7. GreetingInv'
      <3>1. /\ Stream(client)'[Len(Stream(client)')] = m
            /\ Stream(client)' # <<>>
        BY <1>1, <2>5, EmptySeq, StreamProperties
      <3>2. ~sendConnected
        BY <1>1, <1>4 DEF GreetingInv
      <3>. QED
        BY <1>1, <2>1, <3>1, <3>2 DEF GreetingInv
    <2>. QED
      BY <2>6, <2>7 DEF ReplyInv
  <1>5. CASE peer[client] # "open" /\ UNCHANGED toServer
    <2>1. \A c \in Conns : Stream(c)' = Stream(c)
      BY <1>1, <1>5 DEF Stream
    <2>2. Acknowledgements' /\ IntroducedFirst'
      BY <1>3, <2>1, StreamSame, CutKeepsReplies
    <2>3. GreetingInv'
      BY <1>1, <1>5 DEF GreetingInv
    <2>. QED
      BY <2>2, <2>3 DEF ReplyInv
  <1>. QED
    BY <1>4, <1>5 DEF SendAcknowledge, Send

\* A step of the device keeps what it has said right.
LEMMA DeviceKeepsReplies ==
  ASSUME Types, Types', FateInv, FateInv', ReplyInv, Device, UNCHANGED serverVars,
         \A r \in Requests : fate[r] = "acknowledged" => fate'[r] = "acknowledged"
  PROVE  ReplyInv'
  <1>. USE DEF linkVars, streams, waiting, messageVars, acknowledgeVars, lightVars
  <1>. Acknowledgements /\ IntroducedFirst /\ GreetingInv
    BY DEF ReplyInv
  <1>0. logged' = logged
    BY DEF serverVars, runVars
  <1>1. CASE SendConnected
    BY <1>1, ConnectedReplies
  <1>2. CASE SendAcknowledge
    BY <1>2, AcknowledgeReplies
  <1>3. CASE UNCHANGED toServer /\ GreetingInv'
    <2>1. \A c \in Conns : Stream(c)' = Stream(c)
      BY <1>0, <1>3 DEF Stream
    <2>2. \A c \in Conns : StreamCut(c)
      BY <2>1, StreamSame
    <2>3. Acknowledgements' /\ IntroducedFirst'
      BY <2>2, CutKeepsReplies
    <2>. QED
      BY <1>3, <2>3 DEF ReplyInv
  <1>4. CASE Connect
    <2>0. PICK c \in Conns : c = opened + 1
      BY <1>4 DEF Connect, Establish
    <2>1. /\ client' = c /\ c > opened /\ sendConnected' = TRUE
          /\ dpc' = "show" /\ UNCHANGED toServer
      BY <1>4, <2>0 DEF Connect, Establish, Greeting, DGoto, Types, TypeOK
    <2>2. toServer[c] = <<>> /\ logged[c] = <<>>
      BY <2>1 DEF Types, ConnectionInv
    <2>3. /\ logged'[c] \in Seq(FromDevice) /\ toServer'[c] \in Seq(FromDevice)
          /\ logged'[c] = <<>> /\ toServer'[c] = <<>>
      BY <1>0, <2>1, <2>2, StreamPropertiesNext
    <2>4. Stream(c)' = <<>> /\ Len(<<>>) = 0
      BY <2>3, ConcatEqualIffEmpty, EmptySeq DEF Stream
    <2>5. GreetingInv'
      BY <2>1, <2>4 DEF GreetingInv
    <2>. QED
      BY <1>3, <2>1, <2>5
  <1>5. CASE ConnectFails
    BY <1>3, <1>5 DEF ConnectFails, GreetingInv
  <1>6. CASE Show \/ Leave \/ ReceiveNothing \/ SendNothing
    <2>1. /\ UNCHANGED <<client, peer, toServer, sendConnected, sendAcknowledge,
                         sendAcknowledgeNumber, deviceMessageNumber>>
          /\ dpc' # "acknowledge"
      BY <1>6 DEF Show, Leave, ReceiveNothing, SendNothing, DGoto
    <2>2. client # None => Stream(client)' = Stream(client)
      BY <1>0, <2>1 DEF Stream
    <2>3. GreetingInv'
      BY <2>1, <2>2 DEF GreetingInv
    <2>. QED
      BY <1>3, <2>1, <2>3
  <1>7. CASE ReceiveOne \/ ReceiveMany
    <2>1. /\ UNCHANGED <<client, peer, toServer, sendConnected, deviceMessageNumber>>
          /\ sendAcknowledgeNumber'.conn = client /\ dpc' # "acknowledge"
      BY <1>7 DEF ReceiveOne, ReceiveMany, Receive, DGoto
    <2>2. client # None => Stream(client)' = Stream(client)
      BY <1>0, <2>1 DEF Stream
    <2>3. GreetingInv'
      BY <2>1, <2>2 DEF GreetingInv
    <2>. QED
      BY <1>3, <2>1, <2>3
  <1>8. CASE Reboot
    <2>1. GreetingInv'
      BY <1>8 DEF Reboot, GreetingInv
    <2>2. CASE UNCHANGED toServer
      BY <1>3, <2>1, <2>2
    <2>3. CASE client # None /\ \E j \in 0 .. Room : End(client, "gone", 0, j)
      <3>1. PICK j \in Nat : End(client, "gone", 0, j)
        BY <2>3, LinkAssumption
      <3>2. client \in Conns /\ "gone" \in Ends /\ 0 \in Nat
        BY <2>3 DEF Ends, Types, TypeOK
      <3>3. \A c \in Conns :
              /\ Len(toServer'[c]) <= Len(toServer[c])
              /\ \A k \in 1 .. Len(toServer'[c]) : toServer'[c][k] = toServer[c][k]
        BY <3>1, <3>2, EndTypes
      <3>4. \A c \in Conns : StreamCut(c)
        BY <1>0, <3>3, WayCut
      <3>5. Acknowledgements' /\ IntroducedFirst'
        BY <3>4, CutKeepsReplies
      <3>. QED
        BY <2>1, <3>5 DEF ReplyInv
    <2>. QED
      BY <1>8, <2>2, <2>3 DEF Reboot, CloseOrphan
  <1>. QED
    BY <1>1, <1>2, <1>4, <1>5, <1>6, <1>7, <1>8 DEF Device, Loop

\* So every step keeps it right.
LEMMA StepKeepsReplies ==
  ASSUME Types, Types', FateInv, FateInv', OrderInv, ReplyInv, [Next]_vars
  PROVE  ReplyInv'
  <1>. Acknowledgements /\ IntroducedFirst /\ GreetingInv
    BY DEF ReplyInv
  <1>1. \A r \in Requests : fate[r] = "acknowledged" => fate'[r] = "acknowledged"
    BY AcknowledgedStays
  <1>2. CASE Device /\ UNCHANGED serverVars
    BY <1>1, <1>2, DeviceKeepsReplies
  <1>3. ASSUME UNCHANGED deviceVars, \A c \in Conns : Quiet(c)
        PROVE  ReplyInv'
    <2>1. \A c \in Conns : StreamCut(c)
      BY <1>3 DEF Quiet
    <2>2. Acknowledgements' /\ IntroducedFirst'
      BY <1>1, <2>1, CutKeepsReplies
    <2>3. client # None => Quiet(client)
      BY <1>3 DEF Types, TypeOK
    <2>4. GreetingInv'
      BY <1>3, <2>3, GreetingKept DEF deviceVars, messageVars, acknowledgeVars
    <2>. QED
      BY <2>2, <2>4 DEF ReplyInv
  <1>4. CASE UNCHANGED vars
    <2>1. /\ UNCHANGED <<logged, toServer, peer, deviceVars>>
      BY <1>4 DEF vars, linkVars, streams, serverVars, runVars
    <2>2. \A c \in Conns : Stream(c)' = Stream(c)
      BY <2>1 DEF Stream
    <2>3. \A c \in Conns : Quiet(c)
      BY <2>1, <2>2, StreamSame DEF Quiet
    <2>. QED
      BY <1>3, <2>1, <2>3
  <1>. QED
    BY <1>2, <1>3, <1>4, ServerQuiet DEF Next

\* Nothing has been said at the start.
LEMMA RepliesInit == Init => ReplyInv
  <1>. SUFFICES ASSUME Init PROVE ReplyInv
    OBVIOUS
  <1>1. /\ \A c \in Conns : logged[c] = <<>> /\ toServer[c] = <<>>
        /\ client = None /\ sendAcknowledge = FALSE /\ Types
    BY TypesInit DEF Init, LinkInit, ServerInit, DeviceInit
  <1>2. \A c \in Conns : Stream(c) = <<>>
    BY <1>1, StreamProperties, ConcatEqualIffEmpty DEF Stream
  <1>3. \A c \in Conns : Len(Stream(c)) = 0
    BY <1>2, EmptySeq
  <1>. QED
    BY <1>1, <1>3 DEF ReplyInv, Acknowledgements, IntroducedFirst, GreetingInv

\* The invariant that all of it rests on.
LEMMA SystemAlways == Spec => [](Types /\ SystemInv)
  <1>. DEFINE Flow == Types /\ FateInv /\ OrderInv
  <1>1. Init => ReplyInv
    BY RepliesInit
  <1>2. Flow /\ Flow' /\ ReplyInv /\ [Next]_vars => ReplyInv'
    BY StepKeepsReplies
  <1>3. Spec => []Flow
    BY FlowAlways
  <1>4. Flow /\ ReplyInv => Types /\ SystemInv
    BY DEF SystemInv, ReplyInv, Types
  <1>. HIDE DEF Flow
  <1>. QED
    BY <1>1, <1>2, <1>3, <1>4, PTL DEF Spec

\* Where requests, replies and connections are is settled in every reachable
\* state, however often programs and connections have ended.
THEOREM SystemCorrect == Spec => []SystemInv
  BY SystemAlways, PTL

\* At most one acknowledgement of a request ever comes, over all connections and
\* restarts, only of one the device has acted on; only the first on a connection
\* can mean a command of an earlier one.
THEOREM AcknowledgedOnce == Spec => []Acknowledgements
  <1>1. SystemInv => Acknowledgements
    BY DEF SystemInv
  <1>. QED
    BY <1>1, SystemCorrect, PTL

\* On every connection the device introduces itself first and once, and numbers
\* its messages without a gap.
THEOREM Introduced == Spec => []IntroducedFirst
  <1>1. SystemInv => IntroducedFirst
    BY DEF SystemInv
  <1>. QED
    BY <1>1, SystemCorrect, PTL
==============================================================================
