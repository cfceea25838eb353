------------------------------ MODULE HciBridge ------------------------------
(***************************************************************************)
(* The data path of the emulator while the agent is initialised.           *)
(*                                                                         *)
(*   Bluetooth stack -> bthemul -> bthemulcom =writeQ=> agent WorkingThread *)
(*      -> Remote Tools transport (up) -> plug-in receiver -> fbtrt         *)
(*   fbtrt listener threads -> plug-in -> transport (down)                  *)
(*      -> agent CommandCallback =readQ / errorQ=> bthemulcom -> stack      *)
(*                                                                         *)
(* Every message queue holds one message (dwMaxMessages = 1) and a full or *)
(* empty queue blocks for ever, so a queue is its one message or None.  A  *)
(* command sent down keeps its desktop thread inside ProcessCommand until  *)
(* the agent's CommandCallback has returned; CommandCallback runs one      *)
(* command at a time.  Commands sent up (PushCommand) do not block.        *)
(***************************************************************************)
EXTENDS Naturals, Sequences

CONSTANTS
  Writers,    (* threads of the stack inside HCI_WritePacket                *)
  Packets,    (* HCI command and data packets the stack writes              *)
  Oversize,   (* those HCI_WritePacket lets through (at most PACKET_SIZE_W
                 bytes) that do not fit a Packet next to its two headers    *)
  Listeners,  (* threads of fbtrt that carry an event or data to the plug-in *)
  Events,     (* HCI event and data packets of the adapter                  *)
  None

Success == "ERROR_SUCCESS"
Failure == "error"
Results == {Success, Failure}

Receiver == "receiver"      \* the plug-in thread of OnCommandPacketReceived
Timer == "timer"            \* the plug-in's watchdog timer
DesktopThreads == Listeners \cup {Receiver, Timer}
Sent == "sent"              \* the receiver has an answer on its way

\* What a message queue of the COM driver holds.
DataMessage(body) == [type |-> "HCI_DATA_PACKET", body |-> body]
Message == [type |-> "MESSAGE_PACKET", body |-> None]
Messages == {Message} \cup {DataMessage(b) : b \in Packets \cup {None}}

\* What a desktop thread sends with ProcessCommand.
PingCommand == [type |-> "AGENT_PING_MSG", body |-> None]
DataCommand(e) == [type |-> "HCI_DATA_PACKET", body |-> e]
ErrorCommand(r) == [type |-> "HCI_DATA_ERROR_PACKET", body |-> r]
Commands == {PingCommand} \cup {DataCommand(e) : e \in Events}
                          \cup {ErrorCommand(r) : r \in Results}

\* In place of a thread's command while CommandCallback executes it.
Executing == [type |-> "executing", body |-> None]

ASSUME BridgeAssumption ==
  /\ Oversize \subseteq Packets
  /\ Receiver \notin Listeners /\ Timer \notin Listeners
  /\ None \notin Packets \cup Events \cup Results \cup {Sent}
  /\ None \notin DesktopThreads
  /\ None \notin Messages \cup Commands \cup {Executing}
  /\ None \notin [thread : DesktopThreads, command : Commands]

VARIABLES
  opened,     (* the stack has opened the COM device                        *)
  write,      (* write[w]: the BTE_Write call of stack thread w             *)
  writeQ,     (* message queue device -> agent                              *)
  readQ,      (* message queue agent -> device                              *)
  errorQ,     (* message queue agent -> device, results of BTE_Write        *)
  worker,     (* message WorkingThread has read and not yet sent up         *)
  cmd,        (* Bytes parameter held by g_pCmd, None when it has none      *)
  up,         (* HCI_DATA commands pushed to the desktop, by parameter      *)
  receiver,   (* None, the result to report, or Sent                        *)
  down,       (* down[t]: the command thread t is blocked on                *)
  callback,   (* the command CommandCallback is executing                   *)
  listener,   (* listener[l]: the packet l carries                          *)
  lock,       (* holder of CBthEmulHci::s_criticalSection                   *)
  connected,  (* CommandTransport.ConnectionState = Connected               *)
  adapter     (* last packet given to the adapter, its answer, parity of
                 the number of packets given                                *)

stackVars == <<opened, write>>
agentVars == <<worker, cmd, callback>>
desktopVars == <<receiver, listener, lock>>
vars == <<opened, write, writeQ, readQ, errorQ, worker, cmd, up, receiver,
          down, callback, listener, lock, connected, adapter>>

Init ==
  /\ opened = FALSE
  /\ write = [w \in Writers |-> [pc |-> "idle", packet |-> None, ret |-> None]]
  /\ writeQ = None /\ readQ = None /\ errorQ = None
  /\ worker = None /\ cmd = None /\ callback = None
  /\ up = <<>>
  /\ receiver = None
  /\ down = [t \in DesktopThreads |-> None]
  /\ listener = [l \in Listeners |-> None]
  /\ lock = None
  /\ connected = TRUE
  /\ adapter = [packet |-> None, result |-> None, parity |-> 0]

-----------------------------------------------------------------------------
(* The stack and the COM driver (device.exe).                              *)

\* HCI_OpenConnection: BTE_Open announces itself to the agent.
BTE_Open ==
  /\ ~opened
  /\ writeQ = None
  /\ opened' = TRUE
  /\ writeQ' = Message
  /\ UNCHANGED <<write, readQ, errorQ, agentVars, up, desktopVars, down, connected, adapter>>

\* HCI_WritePacket hands a packet to BTE_Write.
HCI_WritePacket(w, p) ==
  /\ opened
  /\ write[w].pc = "idle"
  /\ write' = [write EXCEPT ![w] = [pc |-> "writing", packet |-> p, ret |-> None]]
  /\ UNCHANGED <<opened, writeQ, readQ, errorQ, agentVars, up, desktopVars, down, connected, adapter>>

\* The message BTE_Write builds: writeUCharArray refuses a packet that does
\* not fit, BTE_Write ignores the refusal and sends the type alone.
Serialized(p) == DataMessage(IF p \in Oversize THEN None ELSE p)

\* WritePacket: WriteMsgQueue, blocking while the queue is full.
WritePacket(w) ==
  /\ write[w].pc = "writing"
  /\ writeQ = None
  /\ writeQ' = Serialized(write[w].packet)
  /\ write' = [write EXCEPT ![w].pc = "waiting"]
  /\ UNCHANGED <<opened, readQ, errorQ, agentVars, up, desktopVars, down, connected, adapter>>

\* Faulty variant: the result is peeked at and left in the queue.
BTE_Write_Return_Peek(w) ==
  /\ write[w].pc = "waiting"
  /\ errorQ # None
  /\ write' = [write EXCEPT ![w] = [pc |-> "idle", packet |-> None, ret |-> errorQ]]
  /\ UNCHANGED <<opened, writeQ, readQ, errorQ, agentVars, up, desktopVars, down, connected, adapter>>

\* BTE_Write returns what it finds in the error queue: dwCount or -1.
BTE_Write_Return(w) ==
  /\ write[w].pc = "waiting"
  /\ errorQ # None
  /\ write' = [write EXCEPT ![w] = [pc |-> "idle", packet |-> None, ret |-> errorQ]]
  /\ errorQ' = None
  /\ UNCHANGED <<opened, writeQ, readQ, agentVars, up, desktopVars, down, connected, adapter>>

\* HCI_ReadPacket reads one packet, to its last byte, through BTE_Read.
HCI_ReadPacket ==
  /\ opened
  /\ readQ # None
  /\ readQ' = None
  /\ UNCHANGED <<stackVars, writeQ, errorQ, agentVars, up, desktopVars, down, connected, adapter>>

-----------------------------------------------------------------------------
(* The agent.                                                              *)

\* PushCommand queues a command for the desktop and fails once the
\* connection is down; the agent ignores the failure.
PushCommand(body) == up' = IF connected THEN Append(up, body) ELSE up

\* WorkingThread is woken by the queue and reads the message.
WorkingThread_Read ==
  /\ worker = None
  /\ writeQ # None
  /\ worker' = writeQ
  /\ writeQ' = None
  /\ UNCHANGED <<stackVars, readQ, errorQ, cmd, callback, up, desktopVars, down, connected, adapter>>

\* Faulty variant: a second parameter is ignored, g_pCmd not being emptied.
SendCommandBytes_Stale(body) ==
  LET parameter == IF cmd # None THEN cmd ELSE body
  IN  cmd' = parameter /\ PushCommand(parameter)

\* SendCommand( HCI_DATA_PACKET, buffer, size ): an empty buffer leaves
\* g_pCmd as the last command left it.
SendCommandBytes(body) ==
  LET parameter == IF body = None THEN cmd ELSE body
  IN  cmd' = parameter /\ PushCommand(parameter)

\* SendCommand( MESSAGE_PACKET, id ): resets g_pCmd and adds a DWORD.  The
\* plug-in ignores the messages that occur here (open, ping), so they are not
\* kept in up.
SendCommandMessage == cmd' = None /\ UNCHANGED up

\* ReadDeviceWriteDesktop: the switch on the type of the message read.
WorkingThread_Send ==
  /\ worker # None
  /\ IF worker.type = "HCI_DATA_PACKET"
     THEN SendCommandBytes(worker.body)
     ELSE SendCommandMessage
  /\ worker' = None
  /\ UNCHANGED <<stackVars, writeQ, readQ, errorQ, callback, desktopVars, down, connected, adapter>>

\* The transport hands the command of a blocked desktop thread to the agent.
CommandCallback_Enter(t) ==
  /\ callback = None
  /\ down[t] \notin {None, Executing}
  /\ callback' = [thread |-> t, command |-> down[t]]
  /\ down' = [down EXCEPT ![t] = Executing]
  /\ UNCHANGED <<stackVars, writeQ, readQ, errorQ, worker, cmd, up, desktopVars, connected, adapter>>

\* CommandCallback returns: ProcessCommand of the desktop thread returns.
Respond ==
  /\ callback' = None
  /\ down' = [down EXCEPT ![callback.thread] = None]

CommandCallback_Ping ==
  /\ callback # None
  /\ callback.command.type = "AGENT_PING_MSG"
  /\ SendCommandMessage
  /\ Respond
  /\ UNCHANGED <<stackVars, writeQ, readQ, errorQ, worker, desktopVars, connected, adapter>>

\* Faulty variant: no check of the command's type.
CommandCallback_Data_AnyType ==
  /\ callback # None
  /\ readQ = None
  /\ readQ' = callback.command.body
  /\ Respond
  /\ UNCHANGED <<stackVars, writeQ, errorQ, worker, cmd, up, desktopVars, connected, adapter>>

\* ReadDesktopWriteDevicePacket: WriteMsgQueue blocks while readQ is full.
CommandCallback_Data ==
  /\ callback # None
  /\ callback.command.type = "HCI_DATA_PACKET"
  /\ readQ = None
  /\ readQ' = callback.command.body
  /\ Respond
  /\ UNCHANGED <<stackVars, writeQ, errorQ, worker, cmd, up, desktopVars, connected, adapter>>

CommandCallback_Error ==
  /\ callback # None
  /\ callback.command.type = "HCI_DATA_ERROR_PACKET"
  /\ errorQ = None
  /\ errorQ' = callback.command.body
  /\ Respond
  /\ UNCHANGED <<stackVars, writeQ, readQ, worker, cmd, up, desktopVars, connected, adapter>>

-----------------------------------------------------------------------------
(* The plug-in and the USB runtime on the desktop.                         *)

\* PluginClass.SendCommand: nothing is sent once the connection is down.
SendCommand(t, command) == down' = IF connected THEN [down EXCEPT ![t] = command] ELSE down

\* Faulty variant: a refusal of the adapter is not reported.
OnCommandPacketReceived_SuccessOnly ==
  /\ receiver = None
  /\ up # <<>>
  /\ up' = Tail(up)
  /\ \E r \in Results :
       /\ adapter' = [packet |-> Head(up), result |-> r, parity |-> 1 - adapter.parity]
       /\ receiver' = IF r = Success THEN r ELSE None
  /\ UNCHANGED <<stackVars, writeQ, readQ, errorQ, agentVars, listener, lock, down, connected>>

\* OnCommandPacketReceived: a Bytes parameter goes to the adapter, which
\* accepts it or not; a command without one is ignored.
OnCommandPacketReceived ==
  /\ receiver = None
  /\ up # <<>>
  /\ up' = Tail(up)
  /\ \/ /\ Head(up) = None
        /\ UNCHANGED <<receiver, adapter>>
     \/ /\ Head(up) # None
        /\ \E r \in Results :
             /\ adapter' = [packet |-> Head(up), result |-> r, parity |-> 1 - adapter.parity]
             /\ receiver' = r
  /\ UNCHANGED <<stackVars, writeQ, readQ, errorQ, agentVars, listener, lock, down, connected>>

\* OnDeviceDataReceived reports the adapter's answer to the device.
OnDeviceDataReceived_Reply ==
  /\ receiver \in Results
  /\ SendCommand(Receiver, ErrorCommand(receiver))
  /\ receiver' = IF connected THEN Sent ELSE None
  /\ UNCHANGED <<stackVars, writeQ, readQ, errorQ, agentVars, up, listener, lock, connected, adapter>>

OnDeviceDataReceived_Return ==
  /\ receiver = Sent
  /\ down[Receiver] = None
  /\ receiver' = None
  /\ UNCHANGED <<stackVars, writeQ, readQ, errorQ, agentVars, up, listener, lock, down, connected, adapter>>

\* The adapter delivers a packet: fbtrt starts a thread for it.
EventReceived(l, e) ==
  /\ listener[l] = None
  /\ listener' = [listener EXCEPT ![l] = e]
  /\ UNCHANGED <<stackVars, writeQ, readQ, errorQ, agentVars, up, receiver, lock, down, connected, adapter>>

\* Faulty variant: the packet is sent without entering s_criticalSection.
OnEvent_Unlocked(l) ==
  /\ listener[l] # None
  /\ lock # l
  /\ lock' = l
  /\ SendCommand(l, DataCommand(listener[l]))
  /\ UNCHANGED <<stackVars, writeQ, readQ, errorQ, agentVars, up, receiver, listener, connected, adapter>>

\* OnEvent / DataEventHandler: under s_criticalSection the plug-in's
\* OnHciEvent sends the packet down and waits for the agent.
OnEvent(l) ==
  /\ listener[l] # None
  /\ lock = None
  /\ lock' = l
  /\ SendCommand(l, DataCommand(listener[l]))
  /\ UNCHANGED <<stackVars, writeQ, readQ, errorQ, agentVars, up, receiver, listener, connected, adapter>>

\* Faulty variant: s_criticalSection is not left.
OnEvent_Return_Locked(l) ==
  /\ lock = l
  /\ down[l] = None
  /\ listener' = [listener EXCEPT ![l] = None]
  /\ UNCHANGED <<stackVars, writeQ, readQ, errorQ, agentVars, up, receiver, lock, down, connected, adapter>>

OnEvent_Return(l) ==
  /\ lock = l
  /\ down[l] = None
  /\ lock' = None
  /\ listener' = [listener EXCEPT ![l] = None]
  /\ UNCHANGED <<stackVars, writeQ, readQ, errorQ, agentVars, up, receiver, down, connected, adapter>>

\* WatchDogTimerEvent pings a connected agent.
WatchDogTimerEvent ==
  /\ connected
  /\ down[Timer] = None
  /\ SendCommand(Timer, PingCommand)
  /\ UNCHANGED <<stackVars, writeQ, readQ, errorQ, agentVars, up, desktopVars, connected, adapter>>

\* The connection breaks: what is on the wire is lost and every blocked
\* ProcessCommand ends.
Disconnect ==
  /\ connected
  /\ connected' = FALSE
  /\ up' = <<>>
  /\ down' = [t \in DesktopThreads |-> None]
  /\ UNCHANGED <<stackVars, writeQ, readQ, errorQ, agentVars, desktopVars, adapter>>

-----------------------------------------------------------------------------
Next ==
  \/ BTE_Open
  \/ \E w \in Writers, p \in Packets : HCI_WritePacket(w, p)
  \/ \E w \in Writers : WritePacket(w)
  \/ \E w \in Writers : BTE_Write_Return(w)
  \/ HCI_ReadPacket
  \/ WorkingThread_Read
  \/ WorkingThread_Send
  \/ \E t \in DesktopThreads : CommandCallback_Enter(t)
  \/ CommandCallback_Ping
  \/ CommandCallback_Data
  \/ CommandCallback_Error
  \/ OnCommandPacketReceived
  \/ OnDeviceDataReceived_Reply
  \/ OnDeviceDataReceived_Return
  \/ \E l \in Listeners, e \in Events : EventReceived(l, e)
  \/ \E l \in Listeners : OnEvent(l)
  \/ \E l \in Listeners : OnEvent_Return(l)
  \/ WatchDogTimerEvent
  \/ Disconnect

Spec == Init /\ [][Next]_vars

(***************************************************************************)
(* Every thread that can run eventually does.  The transport serves the    *)
(* commands of the desktop in order, so none is passed over for ever (SF). *)
(* Nothing is assumed of the stack's writes, of the adapter's events, of   *)
(* the timer, of s_criticalSection's choice of a waiter, or of the         *)
(* connection.                                                             *)
(***************************************************************************)
Fairness ==
  /\ \A w \in Writers : WF_vars(WritePacket(w)) /\ WF_vars(BTE_Write_Return(w))
  /\ WF_vars(HCI_ReadPacket)
  /\ WF_vars(WorkingThread_Read) /\ WF_vars(WorkingThread_Send)
  /\ \A t \in DesktopThreads : SF_vars(CommandCallback_Enter(t))
  /\ WF_vars(CommandCallback_Ping) /\ WF_vars(CommandCallback_Data) /\ WF_vars(CommandCallback_Error)
  /\ WF_vars(OnCommandPacketReceived)
  /\ WF_vars(OnDeviceDataReceived_Reply) /\ WF_vars(OnDeviceDataReceived_Return)
  /\ \A l \in Listeners : WF_vars(OnEvent_Return(l))

FairSpec == Spec /\ Fairness

-----------------------------------------------------------------------------
(* Where the request of a write, or the answer to it, is on its way.       *)

RequestInWriteQ == writeQ # None /\ writeQ.type = "HCI_DATA_PACKET"
RequestInWorker == worker # None /\ worker.type = "HCI_DATA_PACKET"
RequestInUp == up # <<>>
ReplyInReceiver == receiver \in Results
ReplyInDown == down[Receiver] \notin {None, Executing}
ReplyInCallback == callback # None /\ callback.command.type = "HCI_DATA_ERROR_PACKET"
ReplyInErrorQ == errorQ # None

RequestInFlight == RequestInWriteQ \/ RequestInWorker \/ RequestInUp
ReplyInFlight == ReplyInReceiver \/ ReplyInDown \/ ReplyInCallback \/ ReplyInErrorQ

\* The types of the variables, and which thread may be blocked on what.
TypeOK ==
  /\ opened \in BOOLEAN
  /\ write \in [Writers -> [pc : {"idle", "writing", "waiting"},
                            packet : Packets \cup {None}, ret : Results \cup {None}]]
  /\ writeQ \in Messages \cup {None}
  /\ readQ \in Events \cup {None}
  /\ errorQ \in Results \cup {None}
  /\ worker \in Messages \cup {None}
  /\ cmd \in Packets \cup {None}
  /\ up \in Seq(Packets \cup {None})
  /\ receiver \in Results \cup {None, Sent}
  /\ down \in [DesktopThreads -> Commands \cup {None, Executing}]
  /\ callback \in [thread : DesktopThreads, command : Commands] \cup {None}
  /\ listener \in [Listeners -> Events \cup {None}]
  /\ lock \in Listeners \cup {None}
  /\ connected \in BOOLEAN
  /\ adapter \in [packet : Packets \cup {None}, result : Results \cup {None}, parity : {0, 1}]

-----------------------------------------------------------------------------
(* Properties.                                                             *)

(* With one writing thread there is at most one request or answer between  *)
(* the stack and the adapter, it belongs to the write that waits, and while *)
(* the connection holds a waiting write has one (BTE_Write waits for the   *)
(* error queue for ever: an answer lost on the way would hang the stack).  *)
(* In particular CommandCallback never blocks on a full error queue, when  *)
(* the agent would answer no ping and deliver no event.                    *)
AtMostOne ==
  /\ RequestInWriteQ => ~(RequestInWorker \/ RequestInUp \/ ReplyInFlight)
  /\ RequestInWorker => ~(RequestInUp \/ ReplyInFlight)
  /\ RequestInUp => Len(up) = 1 /\ ~ReplyInFlight
  /\ ReplyInReceiver => ~(ReplyInDown \/ ReplyInCallback \/ ReplyInErrorQ)
  /\ ReplyInDown => ~(ReplyInCallback \/ ReplyInErrorQ)
  /\ ReplyInCallback => ~ReplyInErrorQ

AnswerOnItsWay ==
  \A w \in Writers :
    /\ RequestInFlight \/ ReplyInFlight => write[w].pc = "waiting"
    /\ write[w].pc = "waiting" /\ connected => RequestInFlight \/ ReplyInFlight

(* The request is the packet the waiting write was given and the answer is *)
(* the adapter's answer to that packet.                                    *)
OwnRequest ==
  \A w \in Writers :
    write[w].pc = "waiting" =>
      /\ RequestInWriteQ => writeQ.body = write[w].packet
      /\ RequestInWorker => worker.body = write[w].packet
      /\ RequestInUp => Head(up) = write[w].packet

OwnAnswer ==
  \A w \in Writers :
    write[w].pc = "waiting" /\ ReplyInFlight =>
      /\ adapter.packet = write[w].packet
      /\ ReplyInReceiver => adapter.result = receiver
      /\ ReplyInDown => adapter.result = down[Receiver].body
      /\ ReplyInCallback => adapter.result = callback.command.body
      /\ ReplyInErrorQ => adapter.result = errorQ

(* Which desktop thread waits for which command: only the receiver reports *)
(* results, only the owner of s_criticalSection sends adapter packets, and *)
(* a broken connection leaves nothing on the wire.                         *)
Threads ==
  /\ down[Receiver] # None => receiver = Sent
  /\ \A l \in Listeners : down[l] # None => lock = l
  /\ \A t \in DesktopThreads : down[t] \notin {None, Executing} =>
       /\ (t = Receiver) = (down[t].type = "HCI_DATA_ERROR_PACKET")
       /\ (t \in Listeners) = (down[t].type = "HCI_DATA_PACKET")
  /\ callback # None =>
       /\ (callback.thread = Receiver) = (callback.command.type = "HCI_DATA_ERROR_PACKET")
       /\ (callback.thread \in Listeners) = (callback.command.type = "HCI_DATA_PACKET")
       /\ connected => down[callback.thread] = Executing
  /\ \A t \in DesktopThreads : down[t] = Executing => callback # None /\ callback.thread = t
  /\ ~connected => up = <<>> /\ \A t \in DesktopThreads : down[t] = None

BridgeInv == TypeOK /\ AtMostOne /\ AnswerOnItsWay /\ OwnRequest /\ OwnAnswer /\ Threads

(* The writes seen through HciWriteService: a call is accepted until the   *)
(* adapter has its packet, performed until BTE_Write returns, lost when    *)
(* neither its request nor its answer is on its way any more.              *)
Answer ==
  IF ReplyInReceiver THEN receiver
  ELSE IF ReplyInDown THEN down[Receiver].body
  ELSE IF ReplyInCallback THEN callback.command.body
  ELSE errorQ

CallOf(w) ==
  LET stage == CASE write[w].pc = "idle" -> "idle"
                 [] write[w].pc = "writing" -> "accepted"
                 [] write[w].pc = "waiting" ->
                      IF RequestInFlight THEN "accepted"
                      ELSE IF ReplyInFlight THEN "performed" ELSE "lost"
  IN  [stage  |-> stage,
       packet |-> write[w].packet,
       result |-> CASE stage = "idle" -> write[w].ret
                    [] stage = "performed" -> Answer
                    [] OTHER -> None]

WriteService == INSTANCE HciWriteService
                  WITH call <- [w \in Writers |-> CallOf(w)]

(* Every write hands its own packet to the adapter exactly once and then   *)
(* returns the adapter's answer to it (BTE_Write: "the length returned is  *)
(* guaranteed to be the length requested unless an error condition occurs"). *)
WritesAreServed == WriteService!Spec

(* BTE_Write returns the length only when the adapter's last packet was the *)
(* packet of the call, and the adapter took it ("the length returned is    *)
(* guaranteed to be the length requested unless an error condition occurs"). *)
ReturnsLengthSent(w) ==
  write[w].pc = "waiting" /\ write'[w].ret = Success =>
    adapter.packet = write[w].packet /\ adapter.result = Success

LengthReturnedWasSent == [][\A w \in Writers : ReturnsLengthSent(w)]_vars

(* The packets of the adapter on their way to the stack, oldest first: the *)
(* one in the read queue, then the one CommandCallback or the transport    *)
(* holds for the owner of the lock.                                        *)
InReadQ == IF readQ = None THEN <<>> ELSE <<readQ>>
InCallback ==
  IF callback # None /\ callback.command.type = "HCI_DATA_PACKET"
  THEN <<callback.command.body>> ELSE <<>>
InTransport ==
  IF lock # None /\ down[lock] \notin {None, Executing} THEN <<down[lock].body>> ELSE <<>>

EventsInFlight == InReadQ \o InCallback \o InTransport

EventFifo == INSTANCE HciEventFifo WITH queue <- EventsInFlight, Capacity <- 2

(* Adapter packets reach the stack in the order in which their threads     *)
(* took s_criticalSection, none lost or repeated while connected, never    *)
(* more than two under way (the lock is held until the agent answers).     *)
EventsInOrder == EventFifo!Spec

(* A write that waits for its result gets it, unless the connection breaks. *)
WriteReturns ==
  \A w \in Writers : write[w].pc = "waiting" ~> (write[w].pc = "idle" \/ ~connected)

(* The thread that holds s_criticalSection lets it go, once the stack has  *)
(* opened the device: the next packet of the adapter can follow.           *)
LockIsReleased ==
  \A l \in Listeners : lock = l /\ opened ~> lock # l
=============================================================================
