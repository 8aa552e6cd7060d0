---------------------------- MODULE RgbLedControl ----------------------------
(***************************************************************************)
(* The sketch on the LED controller, RgbLedControl.ino, at the level of    *)
(* messages.  The sketch is one thread that other code (the WiFi stack)    *)
(* runs between, only where it waits: each step here is what it does from  *)
(* one such place to the next.                                             *)
(***************************************************************************)
EXTENDS Link

CONSTANT DeviceNumberLimit \* its message number wraps here: 2^16 in the code

ASSUME DeviceAssumption == DeviceNumberLimit \in Nat \ {0}

VARIABLES
  dpc,              \* where loop() is
  client,           \* the connection of the static WiFiClient, or None
  sendConnected, sendAcknowledge,
  sendAcknowledgeNumber, \* the message to acknowledge: its number, and as
                         \* history its request and the connection it came on
  deviceMessageNumber,   \* the sketch's own currentMessageNumber
  setLighting,      \* the request setAnimation, setHue, ... were last set by
  shown             \* the request the LEDs show

acknowledgeVars == <<sendAcknowledge, sendAcknowledgeNumber>>
messageVars == <<sendConnected, acknowledgeVars, deviceMessageNumber>>
lightVars == <<setLighting, shown>>
deviceVars == <<dpc, client, messageVars, lightVars>>

NoMessage == [number |-> 0, request |-> None, conn |-> None]

\* The statics of loop() at boot; setup() leaves for loop() with or without a
\* WiFi connection.
DeviceInit ==
  /\ dpc = "connect"
  /\ client = None
  /\ sendConnected = FALSE /\ sendAcknowledge = FALSE
  /\ sendAcknowledgeNumber = NoMessage
  /\ deviceMessageNumber = 0
  /\ setLighting = None
  /\ shown = None

DGoto(from, to) == dpc = from /\ dpc' = to

\* client.connected() and client.available()
Connected == client # None /\ peer[client] \in {"open", "orphan"}
Available == IF client = None THEN 0 ELSE Len(toDevice[client])

\* A faulty variant: sendConnected is left as it is.
GreetingForgotten == sendConnected
Greeting == TRUE

\* client.connect() succeeds.
Connect ==
  /\ DGoto("connect", "show")
  /\ Establish(opened + 1)
  /\ client' = opened + 1
  /\ sendConnected' = Greeting
  /\ UNCHANGED <<acknowledgeVars, deviceMessageNumber, lightVars>>

\* client.connect() fails: the server does not answer, or the WiFi is down.
ConnectFails ==
  /\ DGoto("connect", "connect")
  /\ client' = None
  /\ UNCHANGED <<linkVars, messageVars, lightVars>>

\* The head of the while loop, and the LEDs.
Show ==
  /\ DGoto("show", "receive")
  /\ Available > 0 \/ Connected
  /\ shown' = setLighting
  /\ UNCHANGED <<linkVars, client, messageVars, setLighting>>

Leave ==
  /\ DGoto("show", "connect")
  /\ Available = 0 /\ ~Connected
  /\ UNCHANGED <<linkVars, client, messageVars, lightVars>>

\* A faulty variant: what is read stays in the stream.
Peeked(stream, k) == stream
Consumed(stream, k) == Rest(stream, k)

\* Read k messages and handle the first.
Receive(k) ==
  /\ k \in 1 .. Available
  /\ LET m == Head(toDevice[client]) IN
       /\ setLighting' = m.request
       /\ sendAcknowledge' = TRUE
       /\ sendAcknowledgeNumber' =
            [number |-> m.number, request |-> m.request, conn |-> client]
       /\ fate' = [fate EXCEPT ![m.request] = "handled"]
  /\ toDevice' = [toDevice EXCEPT ![client] = Consumed(@, k)]
  /\ UNCHANGED <<waiting, peer, probed, toServer, client, sendConnected,
                 deviceMessageNumber, shown>>

ReceiveOne == DGoto("receive", "greet") /\ Receive(1)

\* With more than one message in the read, the scan for the second leaves
\* messageStart at 0, so the first is handled again, and so on without end.
ReceiveMany == DGoto("receive", "spin") /\ \E k \in 2 .. Room : Receive(k)

\* client.available() = 0: nothing has been sent, or it has not arrived yet.
ReceiveNothing ==
  /\ DGoto("receive", "greet")
  /\ UNCHANGED <<linkVars, client, messageVars, lightVars>>

CanSend == Connected /\ HasRoom(toServer[client])

\* A message to a server that is no more goes nowhere.
Send(message) ==
  /\ deviceMessageNumber' = (deviceMessageNumber + 1) % DeviceNumberLimit
  /\ \/ /\ peer[client] = "open"
        /\ toServer' = [toServer EXCEPT ![client] = Append(@, message)]
        /\ UNCHANGED probed
     \/ /\ peer[client] \in {"orphan", "closed"}
        /\ probed' = probed \cup {client}
        /\ UNCHANGED toServer
  /\ UNCHANGED <<waiting, peer, toDevice, client, lightVars>>

SendConnected ==
  /\ DGoto("greet", "acknowledge")
  /\ sendConnected /\ CanSend
  /\ Send([type |-> "Connected", number |-> deviceMessageNumber])
  /\ sendConnected' = FALSE
  /\ UNCHANGED <<fate, acknowledgeVars>>

\* A faulty variant: the flag stays set.
AcknowledgeStays == sendAcknowledge
AcknowledgeDone == FALSE

\* Behind an introduction, whose write may wait, only the room is asked for: the
\* server's end may be gone meanwhile.
SendAcknowledge ==
  /\ \/ DGoto("greet", "show") /\ Connected /\ ~sendConnected
     \/ DGoto("acknowledge", "show")
  /\ sendAcknowledge /\ HasRoom(toServer[client])
  /\ Send([type |-> "Acknowledge", number |-> deviceMessageNumber,
           responseTo |-> sendAcknowledgeNumber.number,
           request |-> sendAcknowledgeNumber.request,
           conn |-> sendAcknowledgeNumber.conn])
  /\ sendAcknowledge' = AcknowledgeDone
  /\ fate' = [fate EXCEPT ![sendAcknowledgeNumber.request] = "acknowledged"]
  /\ UNCHANGED <<sendConnected, sendAcknowledgeNumber>>

\* Nothing to send, or no room for it now.
SendNothing ==
  /\ \/ DGoto("greet", "show") /\ ~(CanSend /\ (sendConnected \/ sendAcknowledge))
     \/ DGoto("acknowledge", "show") /\ ~(sendAcknowledge /\ CanSend)
  /\ UNCHANGED <<linkVars, client, messageVars, lightVars>>

Loop ==
  \/ Show \/ Leave \/ ReceiveOne \/ ReceiveMany \/ ReceiveNothing
  \/ SendConnected \/ SendAcknowledge \/ SendNothing

\* Power loss or the watchdog, which alone ends "spin".  Of the connection the
\* sketch held nobody tells the server; the LED strip may keep its power.
Reboot ==
  /\ dpc' = "connect"
  /\ client' = None
  /\ sendConnected' = FALSE /\ sendAcknowledge' = FALSE
  /\ sendAcknowledgeNumber' = NoMessage
  /\ deviceMessageNumber' = 0
  /\ setLighting' = None
  /\ shown' \in {shown, None}
  /\ \/ client # None /\ \E j \in 0 .. Room : End(client, "gone", 0, j)
     \/ client # None /\ CloseOrphan(client)
     \/ ~Connected /\ UNCHANGED linkVars

Device == Connect \/ ConnectFails \/ Loop \/ Reboot
==============================================================================
