---------------------------- MODULE ServerParser -----------------------------
(***************************************************************************)
(* How DeviceServer_run() finds the device's messages in the byte stream:  *)
(* each read() returns some of the bytes that have arrived and is searched *)
(* on its own, in a buffer cleared before.  TCP may cut the stream anywhere.*)
(***************************************************************************)
EXTENDS DeviceProtocol

Sketch == INSTANCE SketchProtocol

CONSTANTS
  Messages,   \* the messages the device sends, in order
  BufferSize, \* 128 in the code
  Stray,      \* values a byte of the stack behind the buffer can have
  MaxLogged   \* bound: messages kept in logged, all that are sent at least

ASSUME ParserAssumption ==
  /\ Messages \in Seq([type : {MsgType.Connected, MsgType.Acknowledge},
                        number : Uint16, value : Uint16])
  /\ BufferSize \in Nat \ {0}
  /\ MaxLogged \in Nat /\ Len(Messages) <= MaxLogged
  /\ Stray \subseteq Byte

VARIABLES
  consumed,  \* how many bytes of the stream read() has returned
  buffer, readBytes, bufferItr,
  identityBytesFound, messageStart, scanItr, \* locals of findMessageStart()
  ppc,       \* "read", "parse" or "scan": in findMessageStart()
  logged,    \* what the server has printed: type and value
  whole      \* history: every read() so far ended at the end of a message

scanVars == <<identityBytesFound, messageStart, scanItr>>
vars == <<consumed, buffer, readBytes, bufferItr, scanVars, ppc, logged, whole>>

Blank == [i \in 0 .. 9 |-> 0]
Encode(m) ==
  LET bytes == IF m.type = MsgType.Connected
               THEN Sketch!writeConnected(Blank, [number |-> m.number, deviceName |-> m.value])
               ELSE Sketch!writeAcknowledge(Blank, [number |-> m.number, responseTo |-> m.value])
  IN [i \in 1 .. 10 |-> bytes[i - 1]]

\* All the device sends.  Each of its messages is 10 bytes long.
Stream == [i \in 1 .. MsgLen.Connected * Len(Messages) |->
             Encode(Messages[(i - 1) \div MsgLen.Connected + 1])
               [((i - 1) % MsgLen.Connected) + 1]]
Boundary(n) == n % MsgLen.Connected = 0

Init ==
  /\ consumed = 0
  /\ buffer = [i \in 0 .. BufferSize - 1 |-> 0]
  /\ readBytes = 0 /\ bufferItr = 0
  /\ identityBytesFound = 0 /\ messageStart = 0 /\ scanItr = 0
  /\ ppc = "read"
  /\ logged = <<>>
  /\ whole = TRUE

PGoto(from, to) == ppc = from /\ ppc' = to

\* A faulty variant: the terminating zero gets no room.
ReadSizeFull == BufferSize
\* How many bytes one read() asks for.
ReadSize == BufferSize - 1

\* bzero() and a read() of n bytes.
Read(n) ==
  /\ PGoto("read", "parse")
  /\ n <= ReadSize /\ n <= Len(Stream) - consumed
  /\ buffer' = [i \in 0 .. BufferSize - 1 |->
                  IF i < n THEN Stream[consumed + i + 1] ELSE 0]
  /\ readBytes' = n /\ bufferItr' = 0
  /\ consumed' = consumed + n
  /\ whole' = (whole /\ Boundary(consumed + n))
  /\ UNCHANGED <<scanVars, logged>>

\* EAGAIN: nothing has arrived.
ReadNothing == ppc = "read" /\ UNCHANGED vars

\* A faulty variant: the count of a search before is kept.
ScanBeginStale ==
  /\ PGoto("parse", "scan")
  /\ bufferItr < readBytes
  /\ messageStart' = bufferItr /\ scanItr' = bufferItr
  /\ UNCHANGED <<consumed, buffer, readBytes, bufferItr, identityBytesFound, logged, whole>>

\* findMessageStart() is called for the bytes from bufferItr on.
ScanBegin ==
  /\ PGoto("parse", "scan")
  /\ bufferItr < readBytes
  /\ identityBytesFound' = 0 /\ messageStart' = bufferItr /\ scanItr' = bufferItr
  /\ UNCHANGED <<consumed, buffer, readBytes, bufferItr, logged, whole>>

Matches == buffer[scanItr] = ProtocolIdentity[identityBytesFound + 1]

\* A faulty variant: messageStart does not move when a byte does not match.
StartKept == messageStart
StartBehind == scanItr + 1

\* One turn of the scanning loop.  A byte that does not continue the identity is
\* not tried as its beginning.
ScanByte ==
  /\ ppc = "scan" /\ identityBytesFound < ProtocolIdentityLength /\ scanItr # readBytes
  /\ identityBytesFound' = IF Matches THEN identityBytesFound + 1 ELSE 0
  /\ messageStart' = IF Matches THEN messageStart ELSE StartBehind
  /\ scanItr' = scanItr + 1
  /\ UNCHANGED <<consumed, buffer, readBytes, bufferItr, ppc, logged, whole>>

\* findMessageStart() returns messageStart, or NULL.
FoundOne == ppc = "scan" /\ identityBytesFound = ProtocolIdentityLength
FoundNone ==
  /\ ppc = "scan" /\ scanItr = readBytes
  /\ identityBytesFound < ProtocolIdentityLength

\* The buffer as the code reads it: fields of a message found close to the end
\* of the buffer lie behind it.
Memory(stray) == [i \in 0 .. BufferSize + MsgLen.SetLighting |->
                    IF i < BufferSize THEN buffer[i] ELSE stray]

\* What is printed about the message found; a type the server does not expect
\* is passed over.  Past MaxLogged the history is not kept.
Printed(memory) ==
  CASE getMessageType(memory, messageStart) = MsgType.Acknowledge ->
         <<[type |-> MsgType.Acknowledge,
            value |-> readMessageAcknowledge(memory, messageStart).responseTo]>>
    [] getMessageType(memory, messageStart) = MsgType.Connected ->
         <<[type |-> MsgType.Connected,
            value |-> readMessageConnected(memory, messageStart).deviceName]>>
    [] OTHER -> <<>>

\* A faulty variant: the length byte is taken for a fixed header length.
NextMessageAfterHeader(memory) == messageStart + 8
\* A faulty variant: the search goes on at the message just parsed.
NextMessageSame(memory) == messageStart

\* Where the search goes on: the message's length byte leads to the next.
NextMessage(memory) == messageStart + getMessageLength(memory, messageStart)

ParseMessage ==
  /\ FoundOne /\ ppc' = "parse"
  /\ \E stray \in Stray : LET memory == Memory(stray) IN
       /\ logged' = IF Len(logged) = MaxLogged THEN logged
                    ELSE logged \o Printed(memory)
       /\ bufferItr' = NextMessage(memory)
  /\ UNCHANGED <<consumed, buffer, readBytes, scanVars, whole>>

ParseNone ==
  /\ FoundNone /\ ppc' = "parse"
  /\ bufferItr' = readBytes
  /\ UNCHANGED <<consumed, buffer, readBytes, scanVars, logged, whole>>

ParseDone ==
  /\ PGoto("parse", "read")
  /\ bufferItr >= readBytes
  /\ UNCHANGED <<consumed, buffer, readBytes, bufferItr, scanVars, logged, whole>>

Parse == ScanBegin \/ ScanByte \/ ParseMessage \/ ParseNone \/ ParseDone
Next == (\E n \in 1 .. BufferSize : Read(n)) \/ ReadNothing \/ Parse
Spec == Init /\ [][Next]_vars /\ WF_vars(Parse)

-----------------------------------------------------------------------------
(* Properties.                                                             *)

Log == [type : {MsgType.Connected, MsgType.Acknowledge}, value : Uint16]

\* Every variable holds a value of its type; a read leaves the last byte of the
\* buffer zero, and the scan stays inside the bytes read.
TypeOK ==
  /\ consumed \in 0 .. Len(Stream)
  /\ buffer \in [0 .. BufferSize - 1 -> Byte]
  /\ readBytes \in 0 .. BufferSize - 1
  /\ bufferItr \in 0 .. BufferSize + 255
  /\ identityBytesFound \in 0 .. ProtocolIdentityLength
  /\ ppc \in {"read", "parse", "scan"}
  /\ messageStart \in Nat /\ scanItr \in Nat
  /\ ppc = "scan" => messageStart <= scanItr /\ scanItr <= readBytes
  /\ logged \in Seq(Log)
  /\ whole \in BOOLEAN

\* However the stream is cut, what findMessageStart returns is the first byte of
\* a message the device sent, never a place inside one.
SoundStart == FoundOne => Boundary(consumed - readBytes + messageStart)

\* The messages in the first n bytes of the stream, as the server logs them.
SentBefore(n) ==
  [i \in 1 .. n \div MsgLen.Connected |->
     [type |-> Messages[i].type, value |-> Messages[i].value]]

\* As long as TCP cuts the stream only between messages, the server logs every
\* message, in order, with the values sent, however many one read returns.
WholeReadsLogAll == whole /\ ppc = "read" => logged = SentBefore(consumed)

\* The bytes searched are those of the stream.
BufferInv ==
  /\ readBytes <= consumed
  /\ \A i \in 0 .. readBytes - 1 : buffer[i] = Stream[consumed - readBytes + i + 1]

\* What the scan has found of the identity stands at messageStart, right before
\* the byte it looks at.
ScanInv ==
  ppc = "scan" =>
    /\ scanItr = messageStart + identityBytesFound
    /\ \A j \in 1 .. identityBytesFound :
         buffer[messageStart + j - 1] = ProtocolIdentity[j]

\* When reads end between messages, so does every search, and no scan fails.
WholeInv ==
  whole =>
    /\ Boundary(consumed) /\ Boundary(readBytes)
    /\ ppc = "read" => logged = SentBefore(consumed)
    /\ ppc # "read" =>
         /\ Boundary(bufferItr) /\ bufferItr <= readBytes
         /\ logged = SentBefore(consumed - readBytes + bufferItr)
    /\ ppc = "scan" => messageStart = bufferItr /\ bufferItr < readBytes

\* The inductive invariant of the search.
SearchInv == BufferInv /\ ScanInv /\ WholeInv

\* Under the same condition the parse of a read comes to its end.  (Cut after
\* the identity, the length byte reads as zero and the loop stays where it is.)
WholeReadsEnd == (ppc = "parse" /\ whole) ~> (ppc = "read")

\* The comment at DeviceProtocol.c:24, "Find start of proper message": the
\* search finds the first identity there is.
FindsStart ==
  LET starts == {i \in bufferItr .. readBytes : IdentityAt(buffer, i, readBytes)}
  IN /\ FoundOne => /\ messageStart \in starts
                     /\ \A i \in starts : messageStart <= i
     /\ FoundNone => starts = {}
==============================================================================
