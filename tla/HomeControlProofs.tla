-------------------------- MODULE HomeControlProofs --------------------------
(***************************************************************************)
(* Theorems about HomeControl.                                             *)
(***************************************************************************)
EXTENDS HomeControl, SequenceTheorems, TLAPS

(* Sequences.                                                              *)

\* The first n elements of a sequence.
LEMMA PrefixProperties ==
  ASSUME NEW S, NEW s \in Seq(S), NEW n \in 0 .. Len(s)
  PROVE  /\ Prefix(s, n) \in Seq(S) /\ Len(Prefix(s, n)) = n
         /\ \A i \in 1 .. n : Prefix(s, n)[i] = s[i]
  <1>1. \A i \in 1 .. n : s[i] \in S
    BY ElementOfSeq, LenProperties
  <1>2. n \in Nat /\ 1 \in Int /\ n \in Int
    BY LenProperties
  <1>3. /\ SubSeq(s, 1, n) \in Seq(S)
        /\ Len(SubSeq(s, 1, n)) = IF 1 <= n THEN n - 1 + 1 ELSE 0
        /\ \A i \in 1 .. n - 1 + 1 : SubSeq(s, 1, n)[i] = s[1 + i - 1]
    BY <1>1, <1>2, SubSeqProperties
  <1>. QED
    BY <1>2, <1>3 DEF Prefix

\* The elements behind the first n.
LEMMA RestProperties ==
  ASSUME NEW S, NEW s \in Seq(S), NEW n \in 0 .. Len(s)
  PROVE  /\ Rest(s, n) \in Seq(S) /\ Len(Rest(s, n)) = Len(s) - n
         /\ \A i \in 1 .. Len(s) - n : Rest(s, n)[i] = s[i + n]
  <1>. DEFINE m == n + 1  l == Len(s)
  <1>1. l \in Nat /\ n \in Nat /\ m \in Int /\ l \in Int /\ n <= l /\ 1 <= m
    BY LenProperties
  <1>2. \A i \in m .. l : s[i] \in S
    BY <1>1, ElementOfSeq
  <1>. HIDE DEF m, l
  <1>3. /\ SubSeq(s, m, l) \in Seq(S)
        /\ Len(SubSeq(s, m, l)) = IF m <= l THEN l - m + 1 ELSE 0
        /\ \A i \in 1 .. l - m + 1 : SubSeq(s, m, l)[i] = s[m + i - 1]
    BY <1>1, <1>2, SubSeqProperties
  <1>. QED
    BY <1>1, <1>3 DEF Rest, m, l

-----------------------------------------------------------------------------
(* Types and connections.                                                  *)

Types == TypeOK /\ ConnectionInv

\* The types hold at the start.
LEMMA TypesInit == Init => Types
  <1>. SUFFICES ASSUME Init PROVE Types
    OBVIOUS
  <1>. USE LinkAssumption, ServerAssumption, DeviceAssumption
       DEF Init, LinkInit, ServerInit, DeviceInit, Queue!Init
  <1>1. \A S : <<>> \in Seq(S)
    BY EmptySeq
  <1>2. Len(<<>>) = 0
    BY EmptySeq
  <1>3. /\ 0 \in 0 .. MaxConns /\ 0 \in 0 .. MaxFds /\ 1 \in 1 .. MaxStarts
        /\ 0 \in 0 .. NumberLimit - 1 /\ 0 \in 0 .. DeviceNumberLimit - 1
        /\ 0 <= Backlog /\ 0 <= Room /\ 0 <= Capacity
    OBVIOUS
  <1>4. TypeOK
    BY <1>1, <1>2, <1>3 DEF TypeOK, PeerStates, Fates, NoMessage
  <1>5. ConnectionInv
    BY <1>3 DEF ConnectionInv, None, Conns
  <1>. QED
    BY <1>4, <1>5 DEF Types

\* The next message number is one.
LEMMA NumberWraps == \A n \in Nat, m \in Nat \ {0} : (n + 1) % m \in 0 .. m - 1
  OBVIOUS

\* The fate of a request can be set to any other.
LEMMA SetFateTypes ==
  ASSUME TypeOK, NEW r \in Requests, NEW f \in Fates, SetFate(r, f)
  PROVE  fate' \in [Requests -> Fates]
  BY DEF TypeOK, SetFate

\* A step of an HTTP handler keeps the types.
LEMMA HttpKeepsTypes ==
  ASSUME Types, Http, UNCHANGED deviceVars
  PROVE  Types'
  <1>. USE DEF Types, linkVars, waiting, streams, runVars, socketVars, deviceVars,
           messageVars, acknowledgeVars, lightVars
  <1>1. PICK w \in Callers :
          (\E r \in Requests : HttpRequest(w, r)) \/ HttpVerdict(w) \/ HttpRespond(w)
    BY DEF Http
  <1>2. CASE \E r \in Requests : HttpRequest(w, r)
    <2>1. PICK r \in Requests : HttpRequest(w, r)
      BY <1>2
    <2>2. fate' \in [Requests -> Fates]
      BY <2>1, SetFateTypes DEF HttpRequest, Fates
    <2>3. /\ UNCHANGED <<waiting, peer, probed, streams, verdict, pending, held, accepted,
                         runVars>>
          /\ asked' = [asked EXCEPT ![w] = r]
      BY <2>1 DEF HttpRequest, Queue!Call
    <2>4. asked' \in [Callers -> Requests \cup {None}]
      BY <2>3 DEF TypeOK
    <2>5. TypeOK'
      BY <2>2, <2>3, <2>4, SMTT(60) DEF TypeOK
    <2>. QED
      BY <2>3, <2>5 DEF ConnectionInv
  <1>3. CASE HttpVerdict(w)
    <2>1. asked[w] \in Requests
      BY <1>3 DEF HttpVerdict, Queue!Accept, Queue!Refuse, TypeOK
    <2>2. fate' \in [Requests -> Fates]
      BY <1>3, <2>1, SetFateTypes DEF HttpVerdict, Fates
    <2>3. pending' \in Seq(Requests) /\ Len(pending') <= Capacity
      <3>1. pending \in Seq(Requests) /\ Len(pending) \in Nat /\ Len(pending) <= Capacity
        BY LenProperties DEF TypeOK
      <3>2. /\ Append(pending, asked[w]) \in Seq(Requests)
            /\ Len(Append(pending, asked[w])) = Len(pending) + 1
        BY <2>1, <3>1, AppendProperties
      <3>3. \/ Len(pending) < Capacity /\ pending' = Append(pending, asked[w])
            \/ pending' = pending
        BY <1>3 DEF HttpVerdict, Queue!Accept, Queue!Refuse
      <3>. QED
        BY <3>1, <3>2, <3>3, ServerAssumption
    <2>4. accepted' \in Seq(Requests)
      <3>1. accepted \in Seq(Requests)
        BY DEF TypeOK
      <3>2. Append(accepted, asked[w]) \in Seq(Requests)
        BY <2>1, <3>1, AppendProperties
      <3>. QED
        BY <1>3, <3>1, <3>2 DEF HttpVerdict
    <2>5. verdict' \in [Callers -> {"none", "accepted", "refused"}]
      <3>1. verdict \in [Callers -> {"none", "accepted", "refused"}]
        BY DEF TypeOK
      <3>2. \/ verdict' = [verdict EXCEPT ![w] = "accepted"]
            \/ verdict' = [verdict EXCEPT ![w] = "refused"]
        BY <1>3 DEF HttpVerdict, Queue!Accept, Queue!Refuse
      <3>. QED
        BY <3>1, <3>2
    <2>6. UNCHANGED <<waiting, peer, probed, streams, asked, held, runVars>>
      BY <1>3 DEF HttpVerdict, Queue!Accept, Queue!Refuse
    <2>7. TypeOK'
      BY <2>2, <2>3, <2>4, <2>5, <2>6, SMTT(60) DEF TypeOK
    <2>. QED
      BY <2>6, <2>7 DEF ConnectionInv
  <1>4. CASE HttpRespond(w)
    <2>1. /\ UNCHANGED <<linkVars, accepted, runVars, pending, held>>
          /\ asked' = [asked EXCEPT ![w] = None]
          /\ verdict' = [verdict EXCEPT ![w] = "none"]
      BY <1>4 DEF HttpRespond, Queue!Return
    <2>2. /\ asked' \in [Callers -> Requests \cup {None}]
          /\ verdict' \in [Callers -> {"none", "accepted", "refused"}]
      BY <2>1 DEF TypeOK
    <2>3. TypeOK'
      BY <2>1, <2>2, SMTT(60) DEF TypeOK
    <2>. QED
      BY <2>1, <2>3 DEF ConnectionInv
  <1>. QED
    BY <1>1, <1>2, <1>3, <1>4

\* The end of the process keeps the types.
LEMMA ProcessEndsKeepsTypes ==
  ASSUME Types, NEW how \in {"closed", "orphan"}, ProcessEnds(how),
         UNCHANGED deviceVars
  PROVE  Types'
  <1>. USE DEF Types, deviceVars, messageVars, acknowledgeVars, lightVars
  <1>1. PICK received \in 0 .. Room : EndServer(how, received)
    BY DEF ProcessEnds
  <1>2. peer' \in [Conns -> PeerStates]
    BY <1>1 DEF EndServer, TypeOK, PeerStates
  <1>3. ASSUME NEW c \in Conns
        PROVE  /\ toDevice'[c] \in Seq(FromServer) /\ Len(toDevice'[c]) <= Room
               /\ toDevice[c] = <<>> => toDevice'[c] = <<>>
    <2>1. toDevice[c] \in Seq(FromServer) /\ Len(toDevice[c]) <= Room
      BY DEF TypeOK
    <2>2. CASE toDevice'[c] = toDevice[c]
      BY <2>1, <2>2
    <2>3. CASE received < Len(toDevice[c]) /\ toDevice'[c] = Prefix(toDevice[c], received)
      BY <2>1, <2>3, PrefixProperties, LenProperties, EmptySeq
    <2>. QED
      BY <1>1, <2>2, <2>3 DEF EndServer
  <1>4. toDevice' \in [Conns -> Seq(FromServer)]
    BY <1>1, <1>3 DEF EndServer
  <1>5. toServer' \in [Conns -> Seq(FromDevice)] /\ \A c \in Conns : toServer'[c] = <<>>
    BY <1>1, EmptySeq DEF EndServer
  <1>6. fate' \in [Requests -> Fates]
    BY <1>1 DEF EndServer, TypeOK, Fates
  <1>7. /\ pending' \in Seq(Requests) /\ Len(pending') <= Capacity
        /\ backlog' \in Seq(Conns) /\ Len(backlog') <= Backlog
    BY <1>1, EmptySeq, ServerAssumption, LinkAssumption DEF EndServer, ProcessEnds
  <1>8. \A c \in Conns : Len(toServer'[c]) <= Room
    BY <1>5, LinkAssumption, EmptySeq
  <1>9. /\ asked' \in [Callers -> Requests \cup {None}]
        /\ verdict' \in [Callers -> {"none", "accepted", "refused"}]
    BY DEF ProcessEnds
  <1>10. /\ UNCHANGED <<opened, probed, accepted, starts, usedFds,
                        currentMessageNumber, logged>>
         /\ UNCHANGED <<dpc, client, sendConnected, sendAcknowledge,
                        sendAcknowledgeNumber, deviceMessageNumber, setLighting,
                        shown>>
         /\ spc' = "exited" /\ openSocket' = None /\ held' = None
         /\ listening' = FALSE
    BY <1>1 DEF EndServer, ProcessEnds
  <1>11. \A c \in Conns : Len(toDevice'[c]) <= Room /\ Len(toServer'[c]) <= Room
    BY <1>3, <1>8
  <1>. HIDE DEF Types, deviceVars
  <1>12. TypeOK
    BY DEF Types
  <1>13. /\ dpc' \in {"connect", "show", "receive", "greet", "acknowledge", "spin"}
         /\ client' \in Conns \cup {None}
         /\ sendConnected' \in BOOLEAN /\ sendAcknowledge' \in BOOLEAN
         /\ sendAcknowledgeNumber' \in
              [number : 0 .. NumberLimit - 1, request : Requests \cup {None},
               conn : Conns \cup {None}]
         /\ deviceMessageNumber' \in 0 .. DeviceNumberLimit - 1
         /\ setLighting' \in Requests \cup {None}
         /\ shown' \in Requests \cup {None}
    BY <1>10, <1>12 DEF TypeOK
  <1>14. /\ opened' \in 0 .. MaxConns /\ probed' \subseteq Conns
         /\ logged' \in [Conns -> Seq(FromDevice)] /\ accepted' \in Seq(Requests)
         /\ starts' \in 1 .. MaxStarts /\ usedFds' \in 0 .. MaxFds
         /\ currentMessageNumber' \in 0 .. NumberLimit - 1
    BY <1>10, <1>12 DEF TypeOK
  <1>15. /\ listening' \in BOOLEAN /\ held' \in Requests \cup {None}
         /\ openSocket' \in Conns \cup {None}
         /\ spc' \in {"accept", "read", "drain", "write", "exited"}
    BY <1>10
  <1>16. TypeOK'
    BY <1>2, <1>4, <1>5, <1>6, <1>7, <1>9, <1>11, <1>13, <1>14, <1>15, Zenon
       DEF TypeOK
  <1>. USE DEF Types, deviceVars
  <1>17. ConnectionInv'
    BY <1>1, <1>3, <1>5, SMTT(60) DEF EndServer, ProcessEnds, ConnectionInv, TypeOK, Ends
  <1>. QED
    BY <1>17, <1>16

\* A step of the device thread keeps the types.
LEMMA RunKeepsTypes ==
  ASSUME Types, Run, UNCHANGED deviceVars
  PROVE  Types'
  <1>. USE DEF SGoto, linkVars, waiting, streams, queueVars, socketVars, deviceVars,
           messageVars, acknowledgeVars, lightVars
  <1>. TypeOK /\ ConnectionInv
    BY DEF Types
  <1>1. CASE Accept
    <2>1. Head(backlog) \in Conns
      BY <1>1, HeadTailProperties DEF Accept, TypeOK
    <2>2. backlog' \in Seq(Conns) /\ Len(backlog') <= Backlog
      <3>1. /\ Tail(backlog) \in Seq(Conns)
            /\ Len(Tail(backlog)) = Len(backlog) - 1 /\ Len(backlog) \in Nat
        BY <1>1, HeadTailProperties, LenProperties DEF Accept, TypeOK
      <3>. QED
        BY <1>1, <3>1, LinkAssumption DEF Accept, TypeOK
    <2>3. usedFds' \in 0 .. MaxFds
      BY <1>1, ServerAssumption DEF Accept, TypeOK
    <2>4. /\ UNCHANGED <<listening, opened, peer, probed, streams, fate, queueVars,
                         starts, currentMessageNumber, logged>>
          /\ spc' = "read" /\ openSocket' \in Conns
      BY <1>1, <2>1 DEF Accept
    <2>5. TypeOK'
      BY <2>2, <2>3, <2>4, SMTT(60) DEF TypeOK
    <2>6. ConnectionInv'
      BY <2>4 DEF ConnectionInv, Conns, None
    <2>. QED
      BY <2>5, <2>6 DEF Types
  <1>2. CASE AcceptError
    BY <1>2, ProcessEndsKeepsTypes DEF AcceptError
  <1>3. CASE ReadMessages \/ ReadCut
    <2>1. openSocket \in Conns
      BY <1>3 DEF ReadMessages, ReadCut, TypeOK, ConnectionInv
    <2>2. /\ toServer[openSocket] \in Seq(FromDevice)
          /\ logged[openSocket] \in Seq(FromDevice)
          /\ Len(toServer[openSocket]) \in Nat /\ Len(toServer[openSocket]) <= Room
      BY <2>1, LenProperties DEF TypeOK
    <2>3. PICK k \in 0 .. Len(toServer[openSocket]) :
             Len(toServer[openSocket]) > 0 /\ Read(k)
      <3>1. CASE ReadMessages
        BY <2>2, <3>1 DEF ReadMessages
      <3>2. CASE ReadCut
        <4>1. PICK j \in 1 .. Len(toServer[openSocket]) : Read(j - 1)
          BY <3>2 DEF ReadCut
        <4>2. j - 1 \in 0 .. Len(toServer[openSocket]) /\ Len(toServer[openSocket]) > 0
          BY <2>2, <4>1
        <4>. QED
          BY <4>1, <4>2
      <3>. QED
        BY <1>3, <3>1, <3>2
    <2>4. /\ logged' = [logged EXCEPT ![openSocket] =
                          @ \o Prefix(toServer[openSocket], k)]
          /\ toServer' = [toServer EXCEPT ![openSocket] = Rest(@, k)]
      BY <2>3 DEF Read
    <2>5. Prefix(toServer[openSocket], k) \in Seq(FromDevice)
      BY <2>2, PrefixProperties
    <2>6. logged[openSocket] \o Prefix(toServer[openSocket], k) \in Seq(FromDevice)
      BY <2>2, <2>5, ConcatProperties
    <2>7. /\ Rest(toServer[openSocket], k) \in Seq(FromDevice)
          /\ Len(Rest(toServer[openSocket], k)) = Len(toServer[openSocket]) - k
      BY <2>2, RestProperties
    <2>8. /\ toServer' \in [Conns -> Seq(FromDevice)]
          /\ logged' \in [Conns -> Seq(FromDevice)]
          /\ \A c \in Conns : Len(toServer'[c]) <= Room
      <3>1. /\ toServer' \in [Conns -> Seq(FromDevice)]
            /\ logged' \in [Conns -> Seq(FromDevice)]
        BY <2>1, <2>4, <2>6, <2>7 DEF TypeOK
      <3>2. Len(Rest(toServer[openSocket], k)) <= Room
        BY <2>2, <2>7, LinkAssumption
      <3>3. \A c \in Conns : toServer'[c] =
              IF c = openSocket THEN Rest(toServer[c], k) ELSE toServer[c]
        BY <2>1, <2>4 DEF TypeOK
      <3>. QED
        BY <3>1, <3>2, <3>3 DEF TypeOK
    <2>9. UNCHANGED <<waiting, peer, probed, toDevice, fate, queueVars, socketVars,
                      currentMessageNumber>> /\ spc' \in {"drain", "spin"} /\ spc = "read"
      BY <1>3, <2>3 DEF ReadMessages, ReadCut, Read
    <2>10. TypeOK'
      BY <2>8, <2>9, SMTT(60) DEF TypeOK
    <2>11. openSocket <= opened
      <3>1. toServer[openSocket] # <<>>
        BY <2>3, EmptySeq
      <3>. QED
        BY <2>1, <3>1 DEF TypeOK, ConnectionInv, Conns
    <2>12. ConnectionInv'
      <3>1. \A c \in Conns : c > opened =>
              toServer'[c] = toServer[c] /\ logged'[c] = logged[c]
        BY <2>1, <2>4, <2>11 DEF TypeOK, Conns
      <3>. QED
        BY <2>1, <2>9, <3>1, SMTT(60) DEF ConnectionInv
    <2>. QED
      BY <2>10, <2>12 DEF Types
  <1>4. CASE ReadNothing
    BY <1>4, SMTT(60) DEF ReadNothing, AfterNothing, Types, TypeOK, ConnectionInv
  <1>5. CASE ReadError
    <2>1. peer' \in [Conns -> PeerStates]
      BY <1>5 DEF ReadError, TypeOK, PeerStates
    <2>2. TypeOK'
      BY <1>5, <2>1, SMTT(60) DEF ReadError, AfterError, TypeOK
    <2>3. ConnectionInv'
      BY <1>5, SMTT(60) DEF ReadError, AfterError, TypeOK, ConnectionInv
    <2>. QED
      BY <2>2, <2>3 DEF Types
  <1>6. CASE DrainTake
    <2>1. Head(pending) \in Requests
      BY <1>6, HeadTailProperties DEF DrainTake, Queue!Take, TypeOK
    <2>2. Tail(pending) \in Seq(Requests) /\ Len(Tail(pending)) <= Capacity
      <3>1. /\ Tail(pending) \in Seq(Requests)
            /\ Len(Tail(pending)) = Len(pending) - 1 /\ Len(pending) \in Nat
        BY <1>6, HeadTailProperties, LenProperties DEF DrainTake, Queue!Take, TypeOK
      <3>. QED
        BY <3>1, ServerAssumption DEF TypeOK
    <2>3. /\ UNCHANGED <<linkVars, accepted, socketVars, currentMessageNumber, logged,
                         asked, verdict>>
          /\ spc = "drain" /\ spc' = "write"
          /\ pending' = Tail(pending) /\ held' = Head(pending)
      BY <1>6 DEF DrainTake, Queue!Take
    <2>4. TypeOK'
      BY <2>1, <2>2, <2>3, SMTT(60) DEF TypeOK
    <2>5. ConnectionInv'
      BY <2>3 DEF ConnectionInv
    <2>. QED
      BY <2>4, <2>5 DEF Types
  <1>7. CASE DrainEmpty
    BY <1>7, SMTT(60) DEF DrainEmpty, Types, TypeOK, ConnectionInv
  <1>8. CASE WriteMessage
    <2>1. openSocket \in Conns /\ held \in Requests
      BY <1>8 DEF WriteMessage, Write, TypeOK, ConnectionInv
    <2>2. fate' \in [Requests -> Fates]
      BY <1>8, <2>1, SetFateTypes DEF WriteMessage, Types, Fates
    <2>3. currentMessageNumber' \in 0 .. NumberLimit - 1
      <3>1. currentMessageNumber \in Nat /\ NumberLimit \in Nat \ {0}
        BY ServerAssumption DEF TypeOK
      <3>2. currentMessageNumber' = (currentMessageNumber + 1) % NumberLimit
        BY <1>8 DEF WriteMessage, Write, NextNumber
      <3>. QED
        BY <3>1, <3>2, NumberWraps
    <2>4. /\ UNCHANGED <<waiting, toServer, asked, verdict, accepted, socketVars,
                         logged, peer>>
          /\ held' = None /\ pending' = pending /\ spc = "write" /\ spc' = "drain"
      BY <1>8 DEF WriteMessage, Write, QueueAfterWrite
    <2>5. CASE /\ peer[openSocket] = "open" /\ HasRoom(toDevice[openSocket])
               /\ toDevice' = [toDevice EXCEPT ![openSocket] =
                    Append(@, [number |-> currentMessageNumber, request |-> held])]
               /\ UNCHANGED probed
      <3>. DEFINE m == [number |-> currentMessageNumber, request |-> held]
                  line == toDevice[openSocket]
      <3>1. m \in FromServer /\ line \in Seq(FromServer) /\ Len(line) \in Nat
        BY <2>1, LenProperties DEF FromServer, TypeOK
      <3>2. Append(line, m) \in Seq(FromServer) /\ Len(Append(line, m)) = Len(line) + 1
        BY <3>1, AppendProperties
      <3>. HIDE DEF m
      <3>3. /\ toDevice' \in [Conns -> Seq(FromServer)]
            /\ \A c \in Conns : Len(toDevice'[c]) <= Room
        <4>1. toDevice' = [toDevice EXCEPT ![openSocket] = Append(line, m)]
          BY <2>5 DEF m
        <4>2. Len(Append(line, m)) <= Room
          BY <2>5, <3>1, <3>2, LinkAssumption DEF HasRoom
        <4>. QED
          BY <2>1, <3>2, <4>1, <4>2 DEF TypeOK
      <3>4. TypeOK'
        BY <2>2, <2>3, <2>4, <2>5, <3>3, SMTT(60) DEF TypeOK
      <3>5. openSocket <= opened
        BY <2>1, <2>5 DEF TypeOK, ConnectionInv, Conns
      <3>6. ConnectionInv'
        BY <2>1, <2>4, <2>5, <3>5, SMTT(60) DEF TypeOK, ConnectionInv
      <3>. QED
        BY <3>4, <3>6 DEF Types
    <2>6. CASE probed' = probed \cup {openSocket} /\ UNCHANGED toDevice
      <3>1. TypeOK'
        BY <2>1, <2>2, <2>3, <2>4, <2>6, SMTT(60) DEF TypeOK
      <3>2. ConnectionInv'
        BY <2>4, <2>6, SMTT(60) DEF Types, ConnectionInv
      <3>. QED
        BY <3>1, <3>2 DEF Types
    <2>. QED
      BY <1>8, <2>5, <2>6 DEF WriteMessage
  <1>9. CASE WriteError
    <2>1. openSocket \in Conns /\ held \in Requests
      BY <1>9 DEF WriteError, Write, TypeOK, ConnectionInv
    <2>2. fate' \in [Requests -> Fates]
      BY <1>9, <2>1, SetFateTypes DEF WriteError, Types, Fates
    <2>3. currentMessageNumber' \in 0 .. NumberLimit - 1
      <3>1. currentMessageNumber \in Nat /\ NumberLimit \in Nat \ {0}
        BY ServerAssumption DEF TypeOK
      <3>2. currentMessageNumber' = (currentMessageNumber + 1) % NumberLimit
        BY <1>9 DEF WriteError, Write, NextNumber
      <3>. QED
        BY <3>1, <3>2, NumberWraps
    <2>4. peer' = peer \/ peer' = [peer EXCEPT ![openSocket] = "mute"]
      BY <1>9 DEF WriteError
    <2>5. peer' \in [Conns -> PeerStates]
      BY <2>4 DEF TypeOK, PeerStates
    <2>6. /\ UNCHANGED <<waiting, streams, asked, verdict, accepted, socketVars,
                         logged, probed>>
          /\ held' = None /\ pending' = pending /\ spc = "write" /\ spc' = "read"
      BY <1>9 DEF WriteError, Write, QueueAfterError
    <2>7. TypeOK'
      BY <2>2, <2>3, <2>5, <2>6, SMTT(60) DEF TypeOK
    <2>8. peer[openSocket] = "none" => peer' = peer
      BY <1>9 DEF WriteError
    <2>9. ConnectionInv'
      BY <2>1, <2>4, <2>6, <2>8, SMTT(60) DEF TypeOK, ConnectionInv
    <2>. QED
      BY <2>7, <2>9 DEF Types
  <1>. QED
    BY <1>1, <1>2, <1>3, <1>4, <1>5, <1>6, <1>7, <1>8, <1>9 DEF Run

\* A crash, an exit and a new start of the server keep the types.
LEMMA ProcessKeepsTypes ==
  ASSUME Types, Crash \/ Restart, UNCHANGED deviceVars
  PROVE  Types'
  <1>1. CASE Crash
    BY <1>1, ProcessEndsKeepsTypes DEF Crash
  <1>2. CASE Restart
    <2>1. starts' \in 1 .. MaxStarts /\ listening' \in BOOLEAN
      BY <1>2, ServerAssumption DEF Restart, Types, TypeOK
    <2>2. usedFds' \in 0 .. MaxFds /\ currentMessageNumber' \in 0 .. NumberLimit - 1
      BY <1>2, ServerAssumption DEF Restart
    <2>3. /\ UNCHANGED <<opened, backlog, peer, probed, toDevice, toServer, fate, asked,
                         verdict, pending, held, accepted, openSocket, logged>>
          /\ spc' = "accept"
      BY <1>2 DEF Restart, SGoto, streams, queueVars
    <2>4. UNCHANGED <<dpc, client, sendConnected, sendAcknowledge, sendAcknowledgeNumber,
                      deviceMessageNumber, setLighting, shown>>
      BY DEF deviceVars, messageVars, acknowledgeVars, lightVars
    <2>5. TypeOK'
      BY <2>1, <2>2, <2>3, <2>4, SMTT(60) DEF Types, TypeOK
    <2>6. ConnectionInv'
      BY <2>3, <2>4 DEF Types, ConnectionInv
    <2>. QED
      BY <2>5, <2>6 DEF Types
  <1>. QED
    BY <1>1, <1>2

\* The end of the device's side of a connection leaves types and links in order,
\* whether the sketch forgets its state with it or not.
LEMMA EndTypes ==
  ASSUME Types, NEW c \in Conns, NEW how \in Ends, NEW i \in Nat, NEW j \in Nat,
         End(c, how, i, j)
  PROVE  /\ peer' = [peer EXCEPT ![c] = how] /\ peer[c] = "open" /\ client = c
         /\ UNCHANGED <<listening, opened, backlog, probed, fate>>
         /\ toDevice' \in [Conns -> Seq(FromServer)]
         /\ toServer' \in [Conns -> Seq(FromDevice)]
         /\ \A d \in Conns :
              /\ Len(toDevice'[d]) <= Len(toDevice[d]) /\ Len(toDevice'[d]) <= Room
              /\ Len(toServer'[d]) <= Len(toServer[d]) /\ Len(toServer'[d]) <= Room
              /\ \A k \in 1 .. Len(toDevice'[d]) : toDevice'[d][k] = toDevice[d][k]
              /\ \A k \in 1 .. Len(toServer'[d]) : toServer'[d][k] = toServer[d][k]
              /\ toDevice[d] = <<>> => toDevice'[d] = <<>>
              /\ toServer[d] = <<>> => toServer'[d] = <<>>
  <1>1. /\ i \in 0 .. Len(toDevice[c]) /\ j \in 0 .. Len(toServer[c])
        /\ toDevice' = [toDevice EXCEPT ![c] = Prefix(@, i)]
        /\ toServer' = [toServer EXCEPT ![c] = Prefix(@, j)]
    BY DEF End
  <1>2. peer' = [peer EXCEPT ![c] = how] /\ peer[c] = "open"
        /\ UNCHANGED <<listening, opened, backlog, probed, fate>>
    BY DEF End, waiting
  <1>3. client = c
    BY <1>2 DEF Types, ConnectionInv
  <1>4. /\ toDevice \in [Conns -> Seq(FromServer)]
        /\ toServer \in [Conns -> Seq(FromDevice)]
    BY DEF Types, TypeOK
  <1>5. \A d \in Conns : Len(toDevice[d]) \in Nat /\ Len(toServer[d]) \in Nat
    BY <1>4, LenProperties
  <1>6. /\ Prefix(toDevice[c], i) \in Seq(FromServer) /\ Len(Prefix(toDevice[c], i)) = i
        /\ \A k \in 1 .. i : Prefix(toDevice[c], i)[k] = toDevice[c][k]
    BY <1>1, <1>4, PrefixProperties
  <1>7. /\ Prefix(toServer[c], j) \in Seq(FromDevice) /\ Len(Prefix(toServer[c], j)) = j
        /\ \A k \in 1 .. j : Prefix(toServer[c], j)[k] = toServer[c][k]
    BY <1>1, <1>4, PrefixProperties
  <1>8. /\ toDevice' \in [Conns -> Seq(FromServer)]
        /\ toServer' \in [Conns -> Seq(FromDevice)]
    BY <1>1, <1>4, <1>6, <1>7
  <1>9. ASSUME NEW d \in Conns
        PROVE  /\ Len(toDevice'[d]) <= Len(toDevice[d])
               /\ \A k \in 1 .. Len(toDevice'[d]) : toDevice'[d][k] = toDevice[d][k]
               /\ toDevice[d] = <<>> => toDevice'[d] = <<>>
    <2>1. CASE d = c
      <3>1. toDevice'[d] = Prefix(toDevice[c], i)
        BY <1>1, <1>4, <2>1
      <3>2. toDevice[d] = <<>> => Prefix(toDevice[c], i) = <<>>
        BY <1>1, <1>6, <2>1, EmptySeq
      <3>. QED
        BY <1>1, <1>5, <1>6, <2>1, <3>1, <3>2
    <2>2. CASE d # c
      BY <1>1, <1>4, <1>5, <2>2
    <2>. QED
      BY <2>1, <2>2
  <1>10. ASSUME NEW d \in Conns
         PROVE  /\ Len(toServer'[d]) <= Len(toServer[d])
                /\ \A k \in 1 .. Len(toServer'[d]) : toServer'[d][k] = toServer[d][k]
                /\ toServer[d] = <<>> => toServer'[d] = <<>>
    <2>1. CASE d = c
      <3>1. toServer'[d] = Prefix(toServer[c], j)
        BY <1>1, <1>4, <2>1
      <3>2. toServer[d] = <<>> => Prefix(toServer[c], j) = <<>>
        BY <1>1, <1>7, <2>1, EmptySeq
      <3>. QED
        BY <1>1, <1>5, <1>7, <2>1, <3>1, <3>2
    <2>2. CASE d # c
      BY <1>1, <1>4, <1>5, <2>2
    <2>. QED
      BY <2>1, <2>2
  <1>11. ASSUME NEW d \in Conns
         PROVE  Len(toDevice'[d]) <= Room /\ Len(toServer'[d]) <= Room
    <2>1. Len(toDevice[d]) <= Room /\ Len(toServer[d]) <= Room /\ Room \in Nat
      BY LinkAssumption DEF Types, TypeOK
    <2>2. Len(toDevice'[d]) \in Nat /\ Len(toServer'[d]) \in Nat
      BY <1>8, LenProperties
    <2>. QED
      BY <1>5, <1>9, <1>10, <2>1, <2>2
  <1>. QED
    BY <1>2, <1>3, <1>8, <1>9, <1>10, <1>11

\* A step of the network keeps the types.
LEMMA EnvironmentKeepsTypes ==
  ASSUME Types, Environment, UNCHANGED <<serverVars, deviceVars>>
  PROVE  Types'
  <1>. USE DEF streams, waiting, serverVars, queueVars, runVars, socketVars, deviceVars,
           messageVars, acknowledgeVars, lightVars
  <1>. TypeOK /\ ConnectionInv
    BY DEF Types
  <1>1. CASE \E c \in Conns : ResetByTraffic(c) \/ CloseOrphan(c)
    <2>1. PICK c \in Conns, what \in {"reset", "mute", "closed"} :
            /\ peer' = [peer EXCEPT ![c] = what] /\ peer[c] \in {"gone", "fin", "orphan"}
            /\ UNCHANGED <<waiting, probed, streams, fate>>
      BY <1>1 DEF ResetByTraffic, CloseOrphan
    <2>2. peer' \in [Conns -> PeerStates]
      BY <2>1 DEF TypeOK, PeerStates, Ends
    <2>3. TypeOK'
      BY <2>1, <2>2, SMTT(60) DEF TypeOK
    <2>4. ConnectionInv'
      BY <2>1, SMTT(60) DEF TypeOK, ConnectionInv
    <2>. QED
      BY <2>3, <2>4 DEF Types
  <1>2. CASE \E c \in Conns : Drop(c)
    <2>1. PICK c \in Conns, how \in Ends, i \in Nat, j \in Nat : End(c, how, i, j)
      BY <1>2, LinkAssumption DEF Drop
    <2>2. /\ peer' = [peer EXCEPT ![c] = how] /\ peer[c] = "open"
          /\ UNCHANGED <<listening, opened, backlog, probed, fate>>
          /\ toDevice' \in [Conns -> Seq(FromServer)]
          /\ toServer' \in [Conns -> Seq(FromDevice)]
          /\ \A d \in Conns :
               /\ Len(toDevice'[d]) <= Room /\ Len(toServer'[d]) <= Room
               /\ toDevice[d] = <<>> => toDevice'[d] = <<>>
               /\ toServer[d] = <<>> => toServer'[d] = <<>>
      BY <2>1, EndTypes
    <2>4. peer' \in [Conns -> PeerStates]
      BY <2>2 DEF TypeOK, PeerStates
    <2>5. TypeOK'
      BY <2>2, <2>4, SMTT(60) DEF TypeOK
    <2>6. ConnectionInv'
      BY <2>2, SMTT(60) DEF TypeOK, ConnectionInv, Ends
    <2>. QED
      BY <2>5, <2>6 DEF Types
  <1>. QED
    BY <1>1, <1>2 DEF Environment, Traffic

\* A step of the device keeps the types.
LEMMA DeviceKeepsTypes ==
  ASSUME Types, Device, UNCHANGED serverVars
  PROVE  Types'
  <1>. USE DEF DGoto, linkVars, streams, waiting, serverVars, queueVars, runVars, socketVars,
           messageVars, acknowledgeVars, lightVars
  <1>. TypeOK /\ ConnectionInv
    BY DEF Types
  <1>1. CASE Connect
    <2>. DEFINE c == opened + 1
    <2>1. /\ c \in Conns /\ client' = c /\ opened' = c /\ dpc' = "show" /\ dpc = "connect"
          /\ peer' = [peer EXCEPT ![c] = "open"] /\ sendConnected' = TRUE
          /\ UNCHANGED <<listening, probed, streams, fate, sendAcknowledge,
                         sendAcknowledgeNumber, deviceMessageNumber, setLighting, shown>>
      BY <1>1 DEF Connect, Establish, Greeting
    <2>2. backlog' \in Seq(Conns) /\ Len(backlog') <= Backlog
      <3>1. /\ Append(backlog, c) \in Seq(Conns)
            /\ Len(Append(backlog, c)) = Len(backlog) + 1 /\ Len(backlog) \in Nat
        BY <2>1, AppendProperties, LenProperties DEF TypeOK
      <3>2. backlog' = Append(backlog, c) /\ Len(backlog) < Backlog
        BY <1>1 DEF Connect, Establish
      <3>. QED
        BY <3>1, <3>2, LinkAssumption
    <2>3. peer' \in [Conns -> PeerStates]
      BY <2>1 DEF TypeOK, PeerStates
    <2>4. opened' \in 0 .. MaxConns
      BY <2>1, LinkAssumption DEF TypeOK, Conns
    <2>. HIDE DEF c
    <2>5. TypeOK'
      BY <2>1, <2>2, <2>3, <2>4, SMTT(60) DEF TypeOK
    <2>. USE DEF c
    <2>6. ASSUME NEW d \in Conns
          PROVE  /\ peer'[d] \in {"open", "orphan"} => d = c
                 /\ d > c => d > opened /\ peer'[d] = peer[d]
      BY <2>1 DEF TypeOK, ConnectionInv, Conns
    <2>7. ConnectionInv'
      BY <2>1, <2>6, SMTT(60) DEF ConnectionInv, None, Conns, TypeOK
    <2>. QED
      BY <2>5, <2>7 DEF Types
  <1>2. CASE ConnectFails
    <2>1. TypeOK'
      BY <1>2, SMTT(60) DEF ConnectFails, TypeOK
    <2>2. ConnectionInv'
      BY <1>2, SMTT(60) DEF ConnectFails, ConnectionInv, TypeOK, None
    <2>. QED
      BY <2>1, <2>2 DEF Types
  <1>3. CASE Show
    <2>1. TypeOK'
      BY <1>3, SMTT(60) DEF Show, TypeOK
    <2>2. ConnectionInv'
      BY <1>3 DEF Show, ConnectionInv
    <2>. QED
      BY <2>1, <2>2 DEF Types
  <1>4. CASE Leave
    <2>1. TypeOK'
      BY <1>4, SMTT(60) DEF Leave, TypeOK
    <2>2. ConnectionInv'
      BY <1>4 DEF Leave, Connected, ConnectionInv
    <2>. QED
      BY <2>1, <2>2 DEF Types
  <1>5. CASE ReceiveOne \/ ReceiveMany
    <2>1. PICK k \in 1 .. Available : Receive(k)
      BY <1>5, LinkAssumption DEF ReceiveOne, ReceiveMany, Receive
    <2>2. client \in Conns /\ k \in 1 .. Len(toDevice[client])
      BY <2>1 DEF Available, TypeOK
    <2>3. /\ toDevice[client] \in Seq(FromServer) /\ Len(toDevice[client]) \in Nat
          /\ toDevice[client] # <<>>
      BY <2>2, LenProperties, EmptySeq DEF TypeOK
    <2>4. Head(toDevice[client]) \in FromServer
      BY <2>3, HeadTailProperties
    <2>5. PICK m \in FromServer :
            /\ setLighting' = m.request /\ sendAcknowledge' = TRUE
            /\ sendAcknowledgeNumber' =
                 [number |-> m.number, request |-> m.request, conn |-> client]
            /\ fate' = [fate EXCEPT ![m.request] = "handled"]
      BY <2>1, <2>4 DEF Receive
    <2>6. m.request \in Requests /\ m.number \in 0 .. NumberLimit - 1
      BY <2>5 DEF FromServer
    <2>7. /\ Rest(toDevice[client], k) \in Seq(FromServer)
          /\ Len(Rest(toDevice[client], k)) = Len(toDevice[client]) - k
      <3>1. k \in 0 .. Len(toDevice[client])
        BY <2>2, <2>3
      <3>. QED
        BY <2>3, <3>1, RestProperties
    <2>8. \A d \in Conns : toDevice'[d] =
            IF d = client THEN Rest(toDevice[d], k) ELSE toDevice[d]
      BY <2>1, <2>2 DEF Receive, Consumed, TypeOK
    <2>9. /\ toDevice' \in [Conns -> Seq(FromServer)]
          /\ \A d \in Conns : Len(toDevice'[d]) <= Room
      <3>1. toDevice' = [toDevice EXCEPT ![client] = Rest(@, k)]
        BY <2>1 DEF Receive, Consumed
      <3>2. toDevice' \in [Conns -> Seq(FromServer)]
        BY <2>2, <2>7, <3>1 DEF TypeOK
      <3>3. Len(toDevice[client]) <= Room /\ Room \in Nat
        BY <2>2, LinkAssumption DEF TypeOK
      <3>4. Len(Rest(toDevice[client], k)) <= Room
        BY <2>2, <2>3, <2>7, <3>3
      <3>. QED
        BY <2>8, <3>2, <3>4 DEF TypeOK
    <2>10. fate' \in [Requests -> Fates]
      BY <2>5, <2>6 DEF TypeOK, Fates
    <2>11. /\ UNCHANGED <<waiting, peer, probed, toServer, client, sendConnected,
                          deviceMessageNumber, shown>>
           /\ dpc = "receive" /\ dpc' \in {"greet", "spin"}
      BY <1>5, <2>1 DEF ReceiveOne, ReceiveMany, Receive
    <2>12. sendAcknowledgeNumber' \in
             [number : 0 .. NumberLimit - 1, request : Requests \cup {None},
              conn : Conns \cup {None}]
      BY <2>2, <2>5, <2>6
    <2>13. TypeOK'
      BY <2>5, <2>6, <2>9, <2>10, <2>11, <2>12, SMTT(60) DEF TypeOK
    <2>14. client <= opened /\ client # None /\ m.request # None
      BY <2>2, <2>6 DEF ConnectionInv, Conns, Requests, None
    <2>15. ConnectionInv'
      BY <2>2, <2>5, <2>8, <2>11, <2>14, SMTT(60) DEF ConnectionInv, Conns, TypeOK
    <2>. QED
      BY <2>13, <2>15 DEF Types
  <1>6. CASE ReceiveNothing
    <2>1. TypeOK'
      BY <1>6, SMTT(60) DEF ReceiveNothing, TypeOK
    <2>2. ConnectionInv'
      BY <1>6 DEF ReceiveNothing, ConnectionInv
    <2>. QED
      BY <2>1, <2>2 DEF Types
  <1>7. CASE SendConnected \/ SendAcknowledge
    <2>1. PICK m \in FromDevice : Send(m)
      <3>1. CASE SendConnected
        <4>1. [type |-> "Connected", number |-> deviceMessageNumber] \in FromDevice
          BY DEF FromDevice, TypeOK
        <4>. QED
          BY <3>1, <4>1 DEF SendConnected
      <3>2. CASE SendAcknowledge
        <4>. DEFINE n == sendAcknowledgeNumber
        <4>1. /\ n.number \in 0 .. NumberLimit - 1 /\ n.request \in Requests
              /\ n.conn \in Conns /\ deviceMessageNumber \in 0 .. DeviceNumberLimit - 1
          BY <3>2 DEF SendAcknowledge, TypeOK, ConnectionInv
        <4>. HIDE DEF n
        <4>2. [type |-> "Acknowledge", number |-> deviceMessageNumber,
               responseTo |-> n.number, request |-> n.request, conn |-> n.conn]
                 \in FromDevice
          BY <4>1 DEF FromDevice
        <4>. QED
          BY <3>2, <4>2 DEF SendAcknowledge, n
      <3>. QED
        BY <1>7, <3>1, <3>2
    <2>2. client \in Conns /\ HasRoom(toServer[client])
      BY <1>7 DEF SendConnected, SendAcknowledge, CanSend, Connected, TypeOK,
         ConnectionInv
    <2>3. deviceMessageNumber' \in 0 .. DeviceNumberLimit - 1
      <3>1. deviceMessageNumber \in Nat /\ DeviceNumberLimit \in Nat \ {0}
        BY DeviceAssumption DEF TypeOK
      <3>2. deviceMessageNumber' = (deviceMessageNumber + 1) % DeviceNumberLimit
        BY <2>1 DEF Send
      <3>. QED
        BY <3>1, <3>2, NumberWraps
    <2>4. /\ UNCHANGED <<waiting, peer, toDevice, client, setLighting, shown,
                         sendAcknowledgeNumber>>
          /\ dpc \in {"greet", "acknowledge"} /\ dpc' \in {"acknowledge", "show"}
      BY <1>7, <2>1 DEF Send, SendConnected, SendAcknowledge
    <2>5. /\ sendConnected' \in BOOLEAN /\ sendAcknowledge' \in BOOLEAN
          /\ sendAcknowledge' => sendAcknowledge
      <3>1. sendConnected \in BOOLEAN /\ sendAcknowledge \in BOOLEAN
        BY DEF TypeOK
      <3>2. CASE SendConnected
        BY <3>1, <3>2 DEF SendConnected
      <3>3. CASE SendAcknowledge
        BY <3>1, <3>3 DEF SendAcknowledge, AcknowledgeDone
      <3>. QED
        BY <1>7, <3>2, <3>3
    <2>6. fate' \in [Requests -> Fates]
      BY <1>7 DEF SendConnected, SendAcknowledge, TypeOK, Fates
    <2>7. /\ probed' \subseteq Conns /\ toServer' \in [Conns -> Seq(FromDevice)]
          /\ \A d \in Conns : /\ Len(toServer'[d]) <= Room
                              /\ d > opened => toServer'[d] = <<>>
      <3>1. CASE /\ toServer' = [toServer EXCEPT ![client] = Append(@, m)]
                 /\ peer[client] = "open" /\ UNCHANGED probed
        <4>1. toServer[client] \in Seq(FromDevice) /\ Len(toServer[client]) \in Nat
          BY <2>2, LenProperties DEF TypeOK
        <4>2. /\ Append(toServer[client], m) \in Seq(FromDevice)
              /\ Len(Append(toServer[client], m)) = Len(toServer[client]) + 1
          BY <2>1, <4>1, AppendProperties
        <4>3. Len(Append(toServer[client], m)) <= Room
          BY <2>2, <4>1, <4>2, LinkAssumption DEF HasRoom
        <4>4. \A d \in Conns : toServer'[d] =
                IF d = client THEN Append(toServer[d], m) ELSE toServer[d]
          BY <2>2, <3>1 DEF TypeOK
        <4>5. toServer' \in [Conns -> Seq(FromDevice)]
          BY <2>2, <3>1, <4>2 DEF TypeOK
        <4>6. \A d \in Conns : d > opened => d # client
          BY <3>1 DEF ConnectionInv
        <4>. QED
          BY <3>1, <4>3, <4>4, <4>5, <4>6 DEF TypeOK, ConnectionInv
      <3>2. CASE probed' = probed \cup {client} /\ UNCHANGED toServer
        BY <2>2, <3>2, SMTT(60) DEF TypeOK, ConnectionInv
      <3>. QED
        BY <2>1, <3>1, <3>2 DEF Send
    <2>8. TypeOK'
      BY <2>3, <2>4, <2>5, <2>6, <2>7, SMTT(60) DEF TypeOK
    <2>9. ConnectionInv'
      BY <2>2, <2>4, <2>5, <2>7, SMTT(60) DEF ConnectionInv, None, Conns
    <2>. QED
      BY <2>8, <2>9 DEF Types
  <1>8. CASE SendNothing
    <2>1. TypeOK'
      BY <1>8, SMTT(60) DEF SendNothing, TypeOK
    <2>2. ConnectionInv'
      BY <1>8 DEF SendNothing, ConnectionInv
    <2>. QED
      BY <2>1, <2>2 DEF Types
  <1>9. CASE Reboot
    <2>1. /\ client' = None /\ dpc' = "connect" /\ ~sendConnected' /\ ~sendAcknowledge'
          /\ sendConnected' \in BOOLEAN /\ sendAcknowledge' \in BOOLEAN
          /\ setLighting' = None /\ shown' \in {shown, None}
          /\ sendAcknowledgeNumber' = NoMessage
      BY <1>9 DEF Reboot
    <2>2. deviceMessageNumber' \in 0 .. DeviceNumberLimit - 1
      BY <1>9, DeviceAssumption DEF Reboot
    <2>3. NoMessage \in [number : 0 .. NumberLimit - 1, request : Requests \cup {None},
                         conn : Conns \cup {None}]
      BY ServerAssumption DEF NoMessage
    <2>4. /\ UNCHANGED <<waiting, probed, fate>>
          /\ peer' \in [Conns -> PeerStates]
          /\ toDevice' \in [Conns -> Seq(FromServer)]
          /\ toServer' \in [Conns -> Seq(FromDevice)]
          /\ \A d \in Conns :
               /\ Len(toDevice'[d]) <= Room /\ Len(toServer'[d]) <= Room
               /\ toDevice[d] = <<>> => toDevice'[d] = <<>>
               /\ toServer[d] = <<>> => toServer'[d] = <<>>
               /\ peer'[d] \notin {"open", "orphan"} /\ (peer[d] = "none" => peer'[d] = "none")
      <3>1. CASE client # None /\ \E j \in 0 .. Room : End(client, "gone", 0, j)
        <4>1. PICK j \in Nat : End(client, "gone", 0, j)
          BY <3>1, LinkAssumption
        <4>2. client \in Conns
          BY <3>1 DEF TypeOK
        <4>3. "gone" \in Ends
          BY DEF Ends
        <4>4. /\ peer' = [peer EXCEPT ![client] = "gone"] /\ peer[client] = "open"
              /\ UNCHANGED <<listening, opened, backlog, probed, fate>>
              /\ toDevice' \in [Conns -> Seq(FromServer)]
              /\ toServer' \in [Conns -> Seq(FromDevice)]
              /\ \A d \in Conns :
                   /\ Len(toDevice'[d]) <= Room /\ Len(toServer'[d]) <= Room
                   /\ toDevice[d] = <<>> => toDevice'[d] = <<>>
                   /\ toServer[d] = <<>> => toServer'[d] = <<>>
          BY <4>1, <4>2, <4>3, EndTypes
        <4>. QED
          BY <4>2, <4>4 DEF TypeOK, ConnectionInv, PeerStates, Ends
      <3>2. CASE client # None /\ CloseOrphan(client)
        <4>1. /\ peer' = [peer EXCEPT ![client] = "closed"] /\ peer[client] = "orphan"
              /\ UNCHANGED <<waiting, probed, streams, fate>> /\ client \in Conns
          BY <3>2 DEF CloseOrphan, TypeOK
        <4>. QED
          BY <4>1 DEF TypeOK, ConnectionInv, PeerStates
      <3>3. CASE ~Connected /\ UNCHANGED linkVars
        BY <3>3 DEF Connected, TypeOK, ConnectionInv
      <3>. QED
        BY <1>9, <3>1, <3>2, <3>3 DEF Reboot
    <2>5. TypeOK'
      BY <2>1, <2>2, <2>3, <2>4, SMTT(60) DEF TypeOK
    <2>6. ConnectionInv'
      BY <2>1, <2>4, SMTT(60) DEF ConnectionInv, None, TypeOK
    <2>. QED
      BY <2>5, <2>6 DEF Types
  <1>. QED
    BY <1>1, <1>2, <1>3, <1>4, <1>5, <1>6, <1>7, <1>8, <1>9 DEF Device, Loop

\* So every step keeps the types.
LEMMA StepKeepsTypes == Types /\ [Next]_vars => Types'
  <1>. SUFFICES ASSUME Types, [Next]_vars PROVE Types'
    OBVIOUS
  <1>1. CASE UNCHANGED vars
    <2>1. TypeOK' /\ ConnectionInv'
      BY <1>1, SMTT(60) DEF Types, TypeOK, ConnectionInv, vars, linkVars, waiting, streams,
           serverVars, queueVars, runVars, socketVars, deviceVars, messageVars,
           acknowledgeVars, lightVars
    <2>. QED
      BY <2>1 DEF Types
  <1>. QED
    BY <1>1, HttpKeepsTypes, RunKeepsTypes, ProcessKeepsTypes, DeviceKeepsTypes,
       EnvironmentKeepsTypes DEF Next

\* Every variable holds a value of its type, in every reachable state.
LEMMA TypesAlways == Spec => []Types
  BY TypesInit, StepKeepsTypes, PTL DEF Spec

\* No value leaves its range and no stream outgrows its buffer, whatever callers,
\* programs and network do.
THEOREM TypeCorrect == Spec => []TypeOK
  <1>1. Types => TypeOK
    BY DEF Types
  <1>. QED
    BY <1>1, TypesAlways, PTL
==============================================================================
