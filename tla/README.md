# home-mcu-control: a verification project

TLA+ modules that model the LED controller and the Linux server of this
repository, TLC configurations that check them on small instances, and theorems
that TLAPS proves for every value of the constants. `PROJECT.json` lists the
components, runs, mutants, hazards and theorems, and for each definition the
source lines it stands for.

    tlc -workers 2 -config RequestQueue_safety.cfg RequestQueue
    tlapm RequestQueueProofs.tla

## The system

`DS` is `src/device-server/src/DeviceServer.c`, `WS` is `WebServer.c` and `DP` is
`DeviceProtocol.c` beside it, `INO` is `src/mcu/RgbLedControl/RgbLedControl.ino`.

    HTTP client --> civetweb worker threads: handler()           [WS]
                        |  DeviceServer_requestReceive()         [DS:227]
                        v
                    request queue: ring of 8 behind requestMutex
                        |  drain loop                            [DS:161]
                        v
                    device thread: DeviceServer_run()            [DS:87]
                        |  TCP port 3123, messages of 10 or 12 bytes [DP]
                        v
                    LED controller: loop()                       [INO:88]

| Component | State | Operations | Correct when |
|---|---|---|---|
| Request queue | `requestQueue`, `requestQueueStart`, `requestQueueCount`, `requestMutex` | `requestReceive`, the drain loop's take | it is a bounded FIFO for any interleaving; the drain loop empties it |
| HTTP handler | its locals | `handler` | what it answers is what happened to the request |
| Device server loop | `openSocket`, `currentMessageNumber`, file descriptors | accept, read, drain, write, each failing; the process ends and starts again | requests reach the device in order and at most once; it stays with a connection that lives, and turns to the next when `read` reports that it is dead |
| Server message search | `buffer`, `bufferItr`, locals of `findMessageStart` | one read's parse | it logs what was sent, however TCP cuts the stream, and ends |
| Message protocol | the two programs' buffers | write and read each message | what is read is what was written, whatever the buffer held |
| LED controller loop | the statics of `loop()`, the `WiFiClient` | connect, receive, send `Connected`, send `Acknowledge`, restart | it acts on a command once, in order; acknowledges it at most once; introduces itself first on every connection |
| LED controller message search | `readBuffer`, `bufferByteIndex`, `messageStart` | one read's parse | it acts on commands that were sent, and ends |
| LED animation | `currentAnimStep`, FastLED's brightness, `leds` | one turn's update | the strip shows the command in force and nothing of an earlier one |
| Network | connections, streams, backlog | handshake, loss, reset, orphaned ends | external |
| Startup and shutdown | `main`'s two structs, the queue's fields and mutex before `init` | `main`, `WebServer_init`, `init`, `initListenSocket` | the queue is used only once it is initialised; the web server serves once it is started |
| civetweb, web application | | | not modelled, see below |

What is hard here: worker threads and the device thread share the ring; two
programs restart and lose their connection independently, and what each end
learns of it differs; flags set for one connection are acted on in the next; the
web server runs before what it uses is initialised;
TCP delivers bytes, and both programs parse each read on its own. `hazards` in
`PROJECT.json` lists each such place with its line and the properties for it.

## The modules

| Module | Models |
|---|---|
| `RequestFifo` | what the queue promises: an abstract bounded FIFO with callers and one taker |
| `RequestQueue` | the ring and its mutex, one step per statement that touches shared memory |
| `RequestQueueProofs` | theorems about `RequestQueue` |
| `Startup` | `main` until the run loop, with handlers that run before, during and after `init` |
| `StartupProofs` | theorems about `Startup` |
| `LightingService` | what the whole system promises its callers: requests acted on in order, at most once |
| `Link` | the TCP connections between device and server (external) |
| `DeviceServer` | `DeviceServer_run` by messages; takes the queue as `RequestFifo` |
| `RgbLedControl` | the sketch's `loop()` by messages |
| `HomeControl` | the two programs composed over `Link`; implements `LightingService` |
| `HomeControlProofs` | theorems about `HomeControl`: types |
| `HomeControlFlowProofs` | theorems about `HomeControl`: the way of requests to the LEDs, and of the device's messages back |
| `LedAnimation` | what the sketch makes of a command, turn by turn |
| `LedAnimationProofs` | theorems about `LedAnimation` |
| `DeviceProtocolConstants` | the header both programs include |
| `DeviceProtocol` | the server's messages byte by byte, as operators on buffers |
| `SketchProtocol` | the same for the sketch's own code |
| `MessageBuffer` | both programs' buffers and the messages written over one another in them |
| `DeviceProtocolProofs` | theorems about the three modules before it |
| `ServerParser` | the server's parse of its byte stream |
| `ServerParserProofs` | theorems about `ServerParser` |
| `DeviceParser` | the sketch's parse of its byte stream |
| `DeviceParserProofs` | theorems about `DeviceParser` |
| `MC...` | instances for TLC |

The system is modelled at three levels that lean on one another. `RequestQueue`
shows that the ring implements `RequestFifo`, so `DeviceServer` uses
`RequestFifo`'s actions for its queue. `ServerParser` and `DeviceParser` show
what a read makes of the bytes, so `DeviceServer` and `RgbLedControl` handle
whole messages. Parsing changes control where it does not end, which either
program has a step for: the sketch's `ReceiveMany`, when a read returns more than
one message (INO:172 makes it handle the first again and again, see
`DeviceParser_start`), and the server's `ReadCut`, when a read ends right behind an
identity (the length byte it then finds is 0, and DS:143 does not move on).
`Startup` ends where `RequestQueue` and
`HomeControl` begin, and shows when they may: its `Sound` is what they assume.
`LedAnimation` refines `RgbLedControl`'s step `Show`. `LightingService` is the view from outside: `HomeControl` implements it under
the mapping `order <- accepted`, `applied <-` the place of the last request the
device has handled, `lighting <- setLighting`, `shown <- shown`.

### State and actions

**RequestQueue.** `wpc[w]` is where a worker is in `handler`/`requestReceive`:
`ReceiveLock` (DS:231), `ReceiveCheck` (233-235, 241-244), `ReceiveStore` (236),
`ReceiveCount` (237), `ReceiveUnlock` (246). `dpc` is where the device thread is:
`DrainLock` (168) to `DrainUnlock` (179) and `DrainWrite` (181-216), after which
the loop goes on, or is left because the write failed. Accept, read, parse and
sleep do not touch the queue and are one step, `ServeSocket`. `wIndex`,
`wRequest`, `dRequest` and `dFound` are the locals the code keeps across
statements. A failing `pthread_mutex_lock` is not modelled.

**Startup.** `mpc` follows `main`: `web` and `handler` are `WebServer_init`
(WS:37-51), `init` is DS:27-38, `listen` DS:40-60, then the run loop. The structs
are uninitialised locals of `main`, so their first contents are a choice:
`StackWords` for the numbers, NULL or a wild pointer, a mutex whose bytes look free,
locked or invalid. `init` has no lock, so its writes may be seen in any order
(`InitField`). A store through a wild pointer, or an index out of the array,
crashes the process or goes to memory the program does not look at. What
`mg_start` may return and what a registered handler is are what civetweb's header
declares, and `civetweb.c` does so (19278 and 19488 return NULL, 14155-14249 call
the handler); that `mg_set_request_handler` passes over a NULL context and a lack of
memory in silence is civetweb.c:13551-13680.

**Link.** `toDevice[c]` and `toServer[c]` are the messages of connection `c` that
are written and not yet read. `peer[c]` is what has become of the device's end:
`open`; `gone` without a word; `fin`, closed in order; `reset`, an error waits at
the server's socket; `dead`, `read` has reported it; `mute`, `read` returns 0 and
will never report anything; and, when the server's end is
the one that has ended, `closed` if the device knows and `orphan` if it does not. This follows Linux:
a pending socket error is reported once, by whichever of `read` and `write` comes
first; after it `read` returns 0 and `write` fails with EPIPE (the signal is
ignored: civetweb does that for the process). The first write after the other end
has closed or vanished succeeds and provokes a reset (`ResetByTraffic`). To an end
that had only vanished that is an error `read` reports, unless a write comes first.
After an orderly close it is not: `read` has come to the end of the stream and
returns 0 whatever follows, and the reset only makes writes fail. A
connection ends with any part of what was under way delivered; only an orderly
close delivers all. A write of 12 bytes succeeds or fails as a whole. `fate` is a
history variable; so are `accepted`, `logged`, `whole` and `single` elsewhere.

**DeviceServer.** `spc` is the device thread: `accept` (DS:98), `read` (104-159),
`drain` (163-181), `write` (185-211), `spin` (the parse that does not end), `exited`
(`error()`). `ReadMessages` reads and logs whole messages; `ReadCut` is the read
that ends behind an identity, at any time when something has arrived. `ReadNothing` is EAGAIN and also the
0 of an ended stream, as in the code. `WriteError` loses the request and leaves
the drain for the next read. `usedFds` counts the sockets `accept` has returned,
none of which the code closes; at `MaxFds` `accept` fails and the process ends
(`AcceptError`). `Crash` ends it at any other point, killed or with its whole host;
either way the queue and what was unread is gone. `Restart` is `main` again, with
number 0 and an empty queue. It stands for the start that succeeds: a `bind` that
fails because the old connections linger (the code does not set SO_REUSEADDR)
ends the process before anything has changed, and is a step of `Startup`. `MaxStarts` bounds the starts;
in the runs that do not say otherwise it is 1.
The descriptors that HTTP connections use are not counted. What a request sets
is `rand()`: the message carries the request's identity instead.

**RgbLedControl.** `dpc` follows `loop()` between the places where it waits:
`connect`, `show` (the head of `while`, LEDs), `receive`, `greet`, `acknowledge`,
and `spin`, the endless parse that only a restart ends. `connected()` is asked once
before the two flags are looked at (INO:230), so an acknowledgement behind the
introduction may be written to a connection that has just ended. `shown` is the request
the LEDs show, `setLighting` the one last received. `Reboot` is power loss or the
watchdog, at any point.

**LedAnimation.** `brightness` is FastLED's, `leds` each LED's colour; both keep
what the last turn left. A factor `cos(2 pi step / 256) / 2 + 1/2` is kept as the
step it was computed from, 0 for no dimming: the properties ask which dimming is
in force, not how bright it is. The step is a byte, and wraps. `Spin` is the endless
parse, seen from here: the strip stays as it is until a `Reboot`.

**MessageBuffer.** The server writes its messages into the buffer it reads into
(DS:89), the sketch all of its own into `sendBuffer`. `Read` leaves what the
sketch had sent in the server's buffer. Each writer in use sets every byte it sends;
`SetName` is written by a function nothing
calls yet, which leaves the name out: it is modelled as the library's code, and
`ReadsBack` says nothing of the name.

**ServerParser, DeviceParser.** One step per read, per byte scanned and per
message handled. `Stray` are the values of memory behind the buffer that a field
of a message near its end may be read from.

## What the runs show

| Run | Instance | Shows |
|---|---|---|
| `RequestQueue_safety` | 3 workers, 2 requests, ring of 2 | `TypeOK`; `QueueInv`, what each thread relies on between its steps; `ImplementsFifo`, refinement of `RequestFifo!Spec`; `QueueDrains` |
| `RequestQueue_added` | 2 workers, ring of 1 | finding: `AnsweredMeansAdded` fails |
| `Startup_order` | 2 workers, 3 requests, ring of 2, any stack of 0, 1 and 3 | `OnlyRacesHarm`: a handler that runs at the wrong time is the only way to a bad start; `StartInv`, its inductive invariant |
| `HomeControl_safety` | 3 requests, 2 connections, queue and send buffers of 2, 2 descriptors, message numbers modulo 2 and 3 | `StreamOrder`, `Acknowledgements`, `IntroducedFirst`; `SystemInv`, the inductive invariant they rest on; `ImplementsLighting`, refinement of `LightingService!Spec` |
| `HomeControl_live` | as `_safety` with 2 requests, 2 starts of the server, numbers left out | `StreamOrder`, `Acknowledgements`, `ImplementsLighting` across the server's restart; `Settles`, `Reunion` |
| `HomeControl_send` | 2 requests, 1 connection | finding: `TakenIsSent` fails |
| `MessageBuffer_reuse` | two numbers, names and settings each, with bytes that also occur in the frame; every read of up to 10 bytes | `ReadsBack` |
| `ServerParser_cut` | 3 messages of 10 bytes, buffer of 24, every cut | `SoundStart`, `WholeReadsLogAll`; `SearchInv`, their inductive invariant; `WholeReadsEnd` |
| `ServerParser_find` | the same | finding: `FindsStart` fails |
| `DeviceParser_cut` | 3 messages of 12 bytes, buffer of 30, nine read sizes and one too large | `SingleReadsFollow`, `WholeReadsUntorn`; `SearchInv`, their inductive invariant; `SingleReadsEnd` |
| `DeviceParser_start` | the same, whole messages | finding: `StartIsIdentity` fails |
| `LedAnimation_show` | five commands: the three animations, one of them twice, and an unknown one; speed 5, which the server sends; 8 LEDs | `NoResidue`, `Breathes` |

Bounds. A ring of 2 with three workers is full, empty and wrapped in every phase
of every thread, and no step of `RequestQueue` looks at more than one slot; the
theorems below lift the bound. Two connections are what a property about losing
one and serving the next needs: the second must be accepted, so there are two
descriptors, and the third `accept` fails. Three requests fill the queue of two while a
third is in the thread's hand, let a later one overtake, and wrap the server's
numbers. Small numbers wrap early; nothing but the acknowledgement's
`responseTo` depends on them, and the properties follow `request`, not the number.
`Room = 2` is the least that lets two messages arrive in one read. Two starts are one
restart, and a second adds nothing: what survives the server's end is in the
device. The parsers'
buffers hold two messages and a part of a third, so that a message meets the
buffer's end. The server's stream is cut at every byte; the device's at sizes that
fall before, in and after identity, header and fields, since its parse differs
only there. The values of the messages contain bytes of the identity at their
end, where a scan that starts inside a message would go wrong.

Violations found and kept as runs: a full queue is answered with 200; a failed
write loses its request; `findMessageStart` misses a message whose identity
follows a partial match; the sketch handles the first message again when a second
one is in the same read. Three more things showed while modelling: a request
answered while `init` runs may be dropped by it (what `raced` in `Startup` is
about); a web server that did not start is not noticed (`mg_start`); a SetName
message, which nothing sends yet, lacks its name.

`Reunion` says as much as the code gives: when the device comes to keep a
connection, the server comes to serve it, unless the system is `Deaf`. `Deaf` names
the states in which one side has no way to learn that the other has gone, and in
them the code leaves the device waiting:

- the device closed its connection in order: `read` returns 0 for ever, which
  DS:108 counts as data, and what is written is lost;
- it vanished and no request has been written since (there is no timeout and no
  keepalive);
- a write was the first to report the reset, after which no read fails;
- the server's host vanished and the sketch, which has nothing to send, keeps the
  orphaned end (INO:114);
- the server's process has ended, or its parse does not end.

What `Reunion` leaves is the way back that does exist: after a write to a device
that vanished the reset comes, `read` reports it, and `accept` returns the next
connections one after the other until it is at the one the device holds, though each
of them may itself be dead by then. No comment or doc of the repository promises
more, so none of these states is a finding.

### Fairness

`RequestQueue!FairSpec` gives weak fairness to each thread, as a scheduler does,
and nothing about who gets a contended mutex; callers need not call. It assumes a
device is connected, since the thread otherwise waits in `accept`.
`HomeControl!FairSpec` gives weak fairness to the server's loop and to the
sketch's: both poll without end. Strong fairness of the reads that return
something says that what was written to a live connection arrives: each loop
polls again and again, each time finds nothing only for so long. Weak fairness of
`Traffic` says that TCP's retransmissions to an end that is no more are answered
or time out. There is none for callers, faults, reconnections, reboots or
restarts of the server. `LedAnimation!Spec` gives weak fairness to the two halves
of a turn: the loop goes on while it is connected, unless its parse does not end,
which `Breathes` supposes.

## What is proved

Every safety invariant and every action property that a run checks, and both
refinements, for every value of the constants. Each run's `TypeOK`, too. The
assumptions on the constants are named in the module that declares them, and TLC
evaluates them in the runs; none goes beyond what the code fixes (a ring has at
least one slot, thread names are distinct, a message's fields have their width).

### The request queue

`RequestQueueProofs`, for every set of workers and requests and every
`Capacity >= 1` (`QueueAssumption`):

- `TypeCorrect`: `Spec => []TypeOK`.
- `QueueCorrect`: `Spec => []QueueInv`.
- `Refinement`: `Spec => Fifo!Spec`.

The inductive invariant is `TypeOK /\ QueueInv`. `MutexInv` alone is not
inductive enough for the ring: that a slot computed at DS:235 is still the one
behind the last request at DS:236 needs `ReceiveInv`, which needs that nobody
else is inside, which is `MutexInv`. `DrainInv` says the same of the device
thread, and that no stored slot is empty. Between DS:175 and DS:176 the start has
moved and the count has not; `Stored` accounts for the difference, and `Pending`,
the refinement's sequence, is read from the ring through it. The arithmetic is in
`WindowInjective` (different positions are different slots) and `ShiftStart`
(moving the start moves each position by one). The refinement then goes action by
action: `ReceiveCount` is `Append` (`AppendAsFunction`), `DrainAdvance` is `Tail`
(`TailAsFunction`), and steps that leave the window alone leave `Pending` alone
(`SamePending`).

### The whole system

`HomeControlProofs` and `HomeControlFlowProofs`, for every number of callers,
requests, connections, starts and descriptors and every size of queue, backlog and
stream (`LinkAssumption`, `ServerAssumption`, `DeviceAssumption`: these are natural
numbers, and those that are sizes are not 0):

- `TypeCorrect`: `Spec => []TypeOK`.
- `InOrder`: `Spec => []StreamOrder`.
- `Implements`: `Spec => ImplementsLighting`, the refinement of `LightingService`.
- `AcknowledgedOnce`: `Spec => []Acknowledgements`.
- `Introduced`: `Spec => []IntroducedFirst`.
- `SystemCorrect`: `Spec => []SystemInv`.

The inductive invariant is `TypeOK /\ SystemInv`. Its first two conjuncts, `TypeOK`
and `ConnectionInv`, are inductive together (`TypesAlways`), `FateInv` and
`OrderInv` on top of them (`FlowAlways`), and the rest on top of those
(`SystemAlways`).

- `ConnectionInv` ties the two programs to `Link`. An end that is open or orphaned
  at the device is the one the sketch holds; a connection not yet made has empty
  streams. Without it a new connection could inherit what an old one left.
- `FateInv` says of every request where it is, by its `fate`: asked, queued, on the
  wire of the connection the device holds, handled. The places exclude one another,
  so a request that moves leaves nothing behind. What is on the wire of another
  connection may have any fate, since nobody will read it.
- `OrderInv` is `StreamOrder` place by place (on the wire, in the server's hand, in
  the queue). A step moves one request over one border, so it disturbs few of its
  conjuncts; `OrderIsStreamOrder` leads back from the places to the
  concatenation. That nothing handled comes after what is still to be read is what
  keeps the order from one connection to the next: the wire is lost, while what is
  in the queue was accepted later than anything the device has handled.
- `GreetingInv` reads the sketch's flags against the connection it holds: as long as
  it is open, `sendConnected` says that nothing has been sent on it, the message
  number is the one behind the last sent, and a leftover acknowledgement finds at
  most the introduction before it. Once the connection is lost the flags mean
  nothing until the next.

`Acknowledgements` and `IntroducedFirst` are about what has been sent; a
connection that ends cuts a stream (`CutKeepsReplies`), the device appends to it
(`AppendKeepsReplies`), the server's read moves a message from one part of it to
the other (`ReadKeepsStream`).

The refinement maps `applied` to the place of the last request handled.
`Applied` chooses a maximum; `AppliedInv` says that the choice has one to find, and
`LastIsUnique` that there is no other. `ReceiveServes` is the one step that applies:
by `OrderInv` the message read was accepted after everything handled, so its place
is ahead of `applied`. `HttpServes` is acceptance; the sketch's `Show` and
`Reboot` are `Show` and `Forget`; all other steps handle nothing (`HandledSame`) and
are stutters.

### Startup

`StartupProofs`, for every set of workers and requests, every `Capacity >= 1` and
every set of words the stack may hold (`StartupAssumption`):

- `TypeCorrect`: `Spec => []TypeOK`, raced or not.
- `StartCorrect`: `Spec => []StartInv`.
- `SoundStartUp`: `Spec => []OnlyRacesHarm`.

`SetInv` is needed in raced states too: what `init` has set stays set, since a
handler only ever changes the count, so that the main thread stays inside the
ring. Without a race the invariant has two halves. `EarlyInv`, before `init` has
ended: on a stack that was zero a handler finds a queue without capacity and adds
nothing; otherwise none is inside. `ServingInv`, after it: the mutex
separates the threads and what a handler has checked still holds when it stores.
`RingGrows`, `RingShrinks` and `RingKept` are the three steps that touch the ring.

### The parsers

`ServerParserProofs`, for every sequence of messages with any numbers and values
and every size of the buffer (`ParserAssumption`; `MaxLogged`, the bound on the
history of what is printed, must let it hold all that is sent):

- `NoFalseStart`: the identity stands in the stream only where a message begins.
- `TypeCorrect`, `SearchCorrect`: `Spec => []TypeOK`, `Spec => []SearchInv`.
- `FoundIsSent`: `Spec => []SoundStart`.
- `AllLogged`: `Spec => []WholeReadsLogAll`.

`NoFalseStart` is about the bytes: length and type, at fixed places of every
message, are no bytes of the identity, and between them and the next message there is
too little room for it. `BufferInv` (what is searched is the stream's) and
`ScanInv` (what has matched stands at `messageStart`, right before the byte looked
at) then give `SoundStart`, for every cut. `WholeInv`, under cuts between
messages: a search begins where a message does, no byte breaks the match
(`WholeMatches`), and handling a message prints it and leads to the next
(`NextOne`).

`DeviceParserProofs`, for every sequence of commands with any values, every size
of the buffer and any sizes of reads (`ParserAssumption`):

- `TypeCorrect`, `SearchCorrect`: `Spec => []TypeOK`, `Spec => []SearchInv`.
- `SingleFollows`: `Spec => []SingleReadsFollow`.
- `NeverTorn`: `Spec => []WholeReadsUntorn`.

Here a command's fields may hold the identity, and the proofs do not need that
they do not. Under cuts between messages (`WholeInv`) a search begins where a
message of the read does (`MessagePlace`), each byte it reads is the one of the
identity it expects (`ReadByte`, `WholeMatches`), so it finds the identity at once
(`WholeFinds`). What it then takes for the start of the message is the start of one,
the same or an earlier one; handling it sets the lighting to that message and leads
to the place behind it (`WholeHandled`). So the lighting is never torn
(`WholeReadsUntorn`), and a parse that ends has come to the last message of its read
with the lighting of that one (`EndedInv`), which is `SingleReadsFollow` when each
read is one message.

### Codecs and animation

`DeviceProtocolProofs`, for every message and every buffer of 128 bytes:
`SetLightingRoundTrip`, `ConnectedRoundTrip`, `AcknowledgeRoundTrip`: what one
side writes the other reads, with the frame (identity, length, type) the searches
rely on. They rest on `BytesOfUint16` (a 16-bit value is its two bytes) and
`HeaderWritten`. `BufferReuse` is `Spec => []ReadsBack` of `MessageBuffer`, for all
values of all fields: since each round trip holds for every buffer, the type of the
two buffers (bytes in every place) is the strengthening it needs.

`LedAnimationProofs`, for every set of commands (`SettingsAssumption`):
`NothingLeft` is `Spec => []NoResidue`. It needs no strengthening: each branch of
the update sets everything the strip shows, which is what the proof goes through.

### Only model-checked

Liveness, which is beyond the prover: `QueueDrains`, `Settles`, `Reunion`,
`WholeReadsEnd`, `SingleReadsEnd`, `Breathes`. The findings are
counterexamples on small instances and need no more than that. That the levels fit
together (that `DeviceServer` may take the queue as `RequestFifo`, and whole
messages for what the parsers make of bytes) is an argument of the section
"The modules", not a theorem: the modules have no behaviour in common that one
formula could speak of.

## Not modelled

- **Shutdown.** `deinit` (DS:77), `WebServer_deinit` (WS:53) and the end of `main`
  cannot be reached: `DeviceServer_run` does not return.
- **civetweb** is vendored; it appears as threads that call `handler`, and in
  `Startup` by what starting it and registering a handler do.
- **Colours and cosines** as numbers: see `LedAnimation`.
- **WiFi joining** in `setup()`: it may fail, and `loop()` then fails to connect;
  `ConnectFails` covers both.
- **The network** below messages: retransmission, partial writes of 12 bytes,
  keepalive (nobody sets it). How TCP cuts the stream is in the parsers' modules.
- **Web application**: named in the repository's README, not in the repository.

## Plan

Done: the queue with its refinement; startup; the composed system with restarts of
both programs and its refinement of `LightingService`; both parsers; the protocol's
codecs and buffers and the animation; proofs of every safety property that the runs
check.

What is left:

1. Safety lemmas below the liveness properties: that each step which fairness
   pushes on is enabled where it must be is beyond the prover, that it brings the
   end nearer (a measure that falls with every byte scanned, every request
   drained) is not.
2. The strongest statements the cuts allow for `DeviceParser`: what a read that
   ends inside a message can make of it.
