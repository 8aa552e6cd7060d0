---------------------------- MODULE DeviceParser -----------------------------
(***************************************************************************)
(* How loop() of RgbLedControl.ino finds the server's messages in the byte *)
(* stream: it reads what is available, up to the size of readBuffer, over  *)
(* what earlier reads left there, and looks for messages in it.  TCP may   *)
(* cut the stream anywhere.                                                *)
(***************************************************************************)
EXTENDS SketchProtocol

Server == INSTANCE DeviceProtocol

CONSTANTS
  Commands,       \* the SetLighting messages the server sends, in order
  ReadBufferSize, \* READ_BUFFER_SIZE: 128 in the code
  Stray,          \* values a byte of the memory behind readBuffer can have
  ReadSizes       \* bound: how many bytes a read may return

ASSUME ParserAssumption ==
  /\ Commands \in Seq(Server!MessageSetLighting)
  /\ ReadBufferSize \in Nat \ {0} /\ Stray \subseteq Byte
  /\ ReadSizes \subseteq Nat \ {0}

VARIABLES
  consumed,     \* how many bytes of the stream have been read
  readBuffer, readBytes, bufferByteIndex,
  identityBytesFound, messageStart,
  ppc,          \* "wait": outside the parse; "search": at the outer loop;
                \* "scan": in the inner loop
  setLighting,  \* setAnimation, setAnimSpeed, setHue, setBrightness, and the
                \* number to acknowledge; or None
  whole,        \* history: every read so far ended at the end of a message
  single        \* history: every read so far was exactly one message

None == [number |-> 0, animationType |-> 0, animationSpeed |-> 0, hue |-> 0,
         brightness |-> 0]

scanVars == <<identityBytesFound, messageStart>>
vars == <<consumed, readBuffer, readBytes, bufferByteIndex, scanVars, ppc,
          setLighting, whole, single>>

Blank == [i \in 0 .. 11 |-> 0]
Encode(m) == LET bytes == Server!writeMessageSetLighting(Blank, m)
             IN [i \in 1 .. 12 |-> bytes[i - 1]]

\* All the server sends.  Each of its messages is 12 bytes long.
Stream == [i \in 1 .. MsgLen.SetLighting * Len(Commands) |->
             Encode(Commands[(i - 1) \div MsgLen.SetLighting + 1])
               [((i - 1) % MsgLen.SetLighting) + 1]]
Boundary(n) == n % MsgLen.SetLighting = 0

Init ==
  /\ consumed = 0
  /\ readBuffer = [i \in 0 .. ReadBufferSize - 1 |-> 0]
  /\ readBytes = 0 /\ bufferByteIndex = 0
  /\ identityBytesFound = 0 /\ messageStart = 0
  /\ ppc = "wait"
  /\ setLighting = None
  /\ whole = TRUE /\ single = TRUE

PGoto(from, to) == ppc = from /\ ppc' = to

\* A faulty variant: as many bytes are read as are available.
ReadUncapped == Len(Stream)
\* What is read at most; the rest waits for the next read.
ReadLimit == ReadBufferSize

\* A read of n bytes overwrites the first n of the buffer.
Read(n) ==
  /\ PGoto("wait", "search")
  /\ n <= ReadLimit /\ n <= Len(Stream) - consumed
  /\ readBuffer' = [i \in 0 .. ReadBufferSize - 1 |->
                      IF i < n THEN Stream[consumed + i + 1] ELSE readBuffer[i]]
  /\ readBytes' = n /\ bufferByteIndex' = 0
  /\ consumed' = consumed + n
  /\ whole' = (whole /\ Boundary(consumed + n))
  /\ single' = (single /\ whole' /\ n = MsgLen.SetLighting)
  /\ UNCHANGED <<scanVars, setLighting>>

\* client.available() = 0: the rest of loop() goes round.
ReadNothing == ppc = "wait" /\ UNCHANGED vars

\* A faulty variant: what the search before has found still counts.
SearchBeginStale ==
  /\ PGoto("search", "scan")
  /\ bufferByteIndex < readBytes
  /\ messageStart' = 0
  /\ UNCHANGED <<consumed, readBuffer, readBytes, bufferByteIndex, identityBytesFound,
                 setLighting, whole, single>>

\* The search for a message starts at bufferByteIndex, but messageStart at 0.
SearchBegin ==
  /\ PGoto("search", "scan")
  /\ bufferByteIndex < readBytes
  /\ identityBytesFound' = 0 /\ messageStart' = 0
  /\ UNCHANGED <<consumed, readBuffer, readBytes, bufferByteIndex, setLighting,
                 whole, single>>

Matches == readBuffer[bufferByteIndex] = ProtocolIdentity[identityBytesFound + 1]
Scanning == identityBytesFound < ProtocolIdentityLength /\ bufferByteIndex < readBytes

ScanByte ==
  /\ ppc = "scan" /\ Scanning
  /\ identityBytesFound' = IF Matches THEN identityBytesFound + 1 ELSE 0
  /\ messageStart' = IF Matches THEN messageStart ELSE bufferByteIndex + 1
  /\ bufferByteIndex' = bufferByteIndex + 1
  /\ UNCHANGED <<consumed, readBuffer, readBytes, ppc, setLighting, whole, single>>

HeaderMissing == readBytes - messageStart < MessageHeaderLength
FoundOne == identityBytesFound = ProtocolIdentityLength /\ ~HeaderMissing

\* Too few bytes for a header, or no identity: the outer loop goes on from where
\* the scan stopped.
SearchFails ==
  /\ PGoto("scan", "search")
  /\ ~Scanning /\ ~FoundOne
  /\ UNCHANGED <<consumed, readBuffer, readBytes, bufferByteIndex, scanVars,
                 setLighting, whole, single>>

\* readBuffer as the code reads it: the fields of a message near its end lie
\* behind it.
Memory(stray) == [i \in 0 .. ReadBufferSize + MsgLen.SetLighting |->
                    IF i < ReadBufferSize THEN readBuffer[i] ELSE stray]

\* A faulty variant: the search goes on at the message just handled.
NextSearchSame(memory) == messageStart
NextSearch(memory) == messageStart + memory[messageStart + MsgPos.Length]

\* The message at messageStart is handled, whether or not the identity just
\* found is its own, and whether or not all its bytes have been read.
Handle ==
  /\ PGoto("scan", "search")
  /\ ~Scanning /\ FoundOne
  /\ \E stray \in Stray : LET memory == Memory(stray) IN
       /\ setLighting' = IF memory[messageStart + MsgPos.Type] = MsgType.SetLighting
                         THEN readSetLighting(memory, messageStart) ELSE setLighting
       /\ bufferByteIndex' = NextSearch(memory)
  /\ UNCHANGED <<consumed, readBuffer, readBytes, scanVars, whole, single>>

SearchDone ==
  /\ PGoto("search", "wait")
  /\ bufferByteIndex >= readBytes
  /\ UNCHANGED <<consumed, readBuffer, readBytes, bufferByteIndex, scanVars,
                 setLighting, whole, single>>

Parse == SearchBegin \/ ScanByte \/ SearchFails \/ Handle \/ SearchDone
Next == (\E n \in ReadSizes : Read(n)) \/ ReadNothing \/ Parse
Spec == Init /\ [][Next]_vars /\ WF_vars(Parse)

-----------------------------------------------------------------------------
(* Properties.                                                             *)

\* Every variable holds a value of its type; the scan stays inside the read.
TypeOK ==
  /\ consumed \in 0 .. Len(Stream)
  /\ readBuffer \in [0 .. ReadBufferSize - 1 -> Byte]
  /\ readBytes \in 0 .. ReadBufferSize
  /\ bufferByteIndex \in 0 .. ReadBufferSize + 255
  /\ identityBytesFound \in 0 .. ProtocolIdentityLength
  /\ messageStart \in 0 .. ReadBufferSize
  /\ ppc \in {"wait", "search", "scan"}
  /\ ppc = "scan" => bufferByteIndex <= readBytes
  /\ setLighting \in Server!MessageSetLighting
  /\ whole \in BOOLEAN /\ single \in BOOLEAN

CommandsIn(from, to) ==
  {Commands[i] : i \in {j \in 1 .. Len(Commands) :
     from <= (j - 1) * MsgLen.SetLighting /\ j * MsgLen.SetLighting <= to}}

\* As long as every read returns exactly one message, the lighting is, after
\* each read, the one last sent.
SingleReadsFollow ==
  single /\ ppc = "wait" /\ consumed > 0 =>
    setLighting = Commands[consumed \div MsgLen.SetLighting]

\* As long as TCP cuts the stream only between messages, what the lighting is set
\* to is a command that was sent and read, however many one read returns: no byte
\* of an earlier read or of another message gets in.
WholeReadsUntorn ==
  whole => setLighting \in CommandsIn(0, consumed) \cup {None}

\* The bytes searched are those of the stream.
BufferInv ==
  /\ readBytes <= consumed
  /\ \A i \in 0 .. readBytes - 1 : readBuffer[i] = Stream[consumed - readBytes + i + 1]

\* The message that ends n bytes into the last read.
EndingAt(n) == Commands[(consumed - readBytes + n) \div MsgLen.SetLighting]

\* When reads end between messages, a search begins at a message of the read, and
\* the lighting is the one of the message right before; the bytes scanned match the
\* identity from the beginning of a message on; and what is taken for the start of
\* the message is one, not behind the identity being matched.
WholeInv ==
  whole =>
    /\ Boundary(consumed) /\ Boundary(readBytes)
    /\ setLighting \in CommandsIn(0, consumed) \cup {None}
    /\ ppc # "wait" => readBytes > 0
    /\ ppc = "search" =>
         /\ Boundary(bufferByteIndex) /\ bufferByteIndex <= readBytes
         /\ bufferByteIndex > 0 => setLighting = EndingAt(bufferByteIndex)
    /\ ppc = "scan" =>
         LET begin == bufferByteIndex - identityBytesFound IN
         /\ begin \in 0 .. readBytes - 1 /\ Boundary(begin)
         /\ messageStart \in 0 .. begin /\ Boundary(messageStart)

\* A parse that has come to its end leaves the lighting of the last message read.
EndedInv ==
  whole /\ ppc = "wait" /\ consumed > 0 =>
    setLighting = Commands[consumed \div MsgLen.SetLighting]

\* The inductive invariant of the search.
SearchInv == BufferInv /\ (single => whole) /\ WholeInv /\ EndedInv

\* The parse of a read of exactly one message ends.
SingleReadsEnd == (ppc = "search" /\ single) ~> (ppc = "wait")

\* The comments at RgbLedControl.ino:174 and 194, "Find start of proper message"
\* and "We found message start": what is handled as a message is what the
\* identity just found begins.
StartIsIdentity ==
  ppc = "scan" /\ ~Scanning /\ FoundOne =>
    messageStart = bufferByteIndex - ProtocolIdentityLength
==============================================================================
