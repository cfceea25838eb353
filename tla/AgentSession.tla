----------------------------- MODULE AgentSession -----------------------------
(***************************************************************************)
(* The life of a session: how the desktop has the device agent initialise, *)
(* give up and initialise again the message queues, the COM driver and the *)
(* thread that serves them, and how the agent ends.                        *)
(*                                                                         *)
(*   plug-in ACK -> agent ACK -> plug-in INITIALIZE -> agent Initialize()   *)
(*   stack closes the COM port -> COM_CLOSE -> plug-in UNINITIALIZE         *)
(*      -> agent Uninitialize() -> UNINITIALIZE -> plug-in INITIALIZE ...   *)
(*                                                                         *)
(* The data path of one session is HciBridge; here HCI packets go one way, *)
(* to the device, where they can block CommandCallback.  Messages that the *)
(* plug-in ignores are not kept.                                           *)
(***************************************************************************)
EXTENDS Integers, Sequences, FiniteSets

CONSTANTS
  MaxCounter,   (* WATCHDOG_MAX_COUNTER                                      *)
  MaxThreads,   (* bound: WorkingThreads ever started                        *)
  Impatient     (* the stack opens a driver again that it has closed         *)

ASSUME SessionAssumption ==
  MaxCounter \in Nat \ {0} /\ MaxThreads \in Nat \ {0} /\ Impatient \in BOOLEAN

VARIABLES
  main,         (* WinMain                                                   *)
  quit,         (* g_hQuitEvent is signalled                                 *)
  watchDog,     (* g_lWatchDogCounter, and whether WatchDogThread runs       *)
  callback,     (* CommandCallback: whose command it runs, and its step      *)
  queues,       (* g_hWriteQueue, g_hReadQueue and g_hErrorQueue are open    *)
  device,       (* g_hDevice: index of the driver instance, 0 for NULL       *)
  threads,      (* the WorkingThreads: step, and whether handles[1] is open  *)
  lastThread,   (* g_hWorkingThread                                          *)
  failed,       (* a step of Initialize has failed                           *)
  registered,   (* driver instances registered with the device manager       *)
  used,         (* the stack has closed the latest of them                   *)
  stack,        (* the stack's handle of the COM port, g_hFile               *)
  toAgent,      (* message queue driver -> agent                             *)
  toDevice,     (* message queue agent -> driver holds a packet              *)
  up,           (* messages pushed to the desktop                            *)
  down,         (* down[t]: the command desktop thread t is blocked on       *)
  connected,    (* CommandTransport.ConnectionState = Connected              *)
  attached      (* HardwareState = ATTACHED                                  *)

DesktopThreads == {"receiver", "timer", "listener"}
Commands == {"ACK", "PING", "INITIALIZE", "UNINITIALIZE", "LOGGING", "HCI_DATA"}
Indexes == 1 .. 9

agentVars == <<queues, device, threads, lastThread, failed>>
driverVars == <<registered, used, stack, toAgent, toDevice>>
desktopVars == <<up, down, connected, attached>>
vars == <<main, quit, watchDog, callback, agentVars, driverVars, desktopVars>>

NoCallback == [thread |-> "none", command |-> "none", pc |-> "none"]

\* WinMain waits for the quit event; the plug-in has opened the adapter
\* (OnInit) and sends the first message (OnStart).
Init ==
  /\ main = "waiting" /\ quit = FALSE
  /\ watchDog = [counter |-> MaxCounter, running |-> TRUE]
  /\ callback = NoCallback
  /\ queues = FALSE /\ device = 0 /\ failed = FALSE
  /\ threads = <<>> /\ lastThread = 0
  /\ registered = {} /\ used = FALSE /\ stack = "closed"
  /\ toAgent = "none" /\ toDevice = FALSE
  /\ up = <<>> /\ connected = TRUE /\ attached = TRUE
  /\ down = [t \in DesktopThreads |-> IF t = "receiver" THEN "ACK" ELSE "none"]

-----------------------------------------------------------------------------
(* The plug-in.                                                            *)

\* SendCommand: ProcessCommand blocks the thread until the agent has answered.
SendCommand(t, command) ==
  down' = IF connected THEN [down EXCEPT ![t] = command] ELSE down

\* Faulty variant: a closed port is answered with a new session at once.
OnCommandPacketReceived_InitializeOnClose ==
  /\ down["receiver"] = "none" /\ up # <<>>
  /\ SendCommand("receiver", IF Head(up) = "INITIALIZE" THEN "LOGGING" ELSE "INITIALIZE")
  /\ up' = Tail(up)
  /\ UNCHANGED <<main, quit, watchDog, callback, agentVars, driverVars, connected, attached>>

\* Faulty variant: the answer to UNINITIALIZE is not awaited.
OnCommandPacketReceived_NoRestart ==
  /\ down["receiver"] = "none" /\ up # <<>>
  /\ LET answer == [ACK |-> "INITIALIZE", INITIALIZE |-> "LOGGING",
                    UNINITIALIZE |-> "LOGGING", COM_CLOSE |-> "UNINITIALIZE"]
     IN  SendCommand("receiver", answer[Head(up)])
  /\ up' = Tail(up)
  /\ UNCHANGED <<main, quit, watchDog, callback, agentVars, driverVars, connected, attached>>

OnCommandPacketReceived ==
  /\ down["receiver"] = "none" /\ up # <<>>
  /\ LET answer == [ACK |-> "INITIALIZE", INITIALIZE |-> "LOGGING",
                    UNINITIALIZE |-> "INITIALIZE", COM_CLOSE |-> "UNINITIALIZE"]
     IN  SendCommand("receiver", answer[Head(up)])
  /\ up' = Tail(up)
  /\ UNCHANGED <<main, quit, watchDog, callback, agentVars, driverVars, connected, attached>>

\* WatchDogTimerEvent while connected: a ping.
WatchDogTimerEvent ==
  /\ connected /\ down["timer"] = "none"
  /\ SendCommand("timer", "PING")
  /\ UNCHANGED <<main, quit, watchDog, callback, agentVars, driverVars, up, connected, attached>>

\* WatchDogTimerEvent or ConnectionMonitorTimerEvent after the connection is gone.
CloseDevice ==
  /\ ~connected /\ attached
  /\ attached' = FALSE
  /\ UNCHANGED <<main, quit, watchDog, callback, agentVars, driverVars, up, down, connected>>

\* The adapter has an event or data for the device.
OnHciEvent ==
  /\ attached /\ connected /\ down["listener"] = "none"
  /\ SendCommand("listener", "HCI_DATA")
  /\ UNCHANGED <<main, quit, watchDog, callback, agentVars, driverVars, up, connected, attached>>

\* The connection breaks: what is on its way is lost, blocked threads return.
Disconnect ==
  /\ connected /\ connected' = FALSE
  /\ up' = <<>> /\ down' = [t \in DesktopThreads |-> "none"]
  /\ UNCHANGED <<main, quit, watchDog, callback, agentVars, driverVars, attached>>

-----------------------------------------------------------------------------
(* CommandCallback runs the commands of the desktop, one at a time, until  *)
(* WinMain has stopped the command handler.                                *)

CallbackGoTo(pc) == callback' = [callback EXCEPT !.pc = pc]

CommandCallback(t) ==
  /\ main = "waiting" /\ callback = NoCallback /\ down[t] \in Commands
  /\ callback' = [thread |-> t, command |-> down[t],
                  pc |-> CASE down[t] = "INITIALIZE" -> "queues"
                           [] down[t] = "UNINITIALIZE" -> "close"
                           [] down[t] = "HCI_DATA" -> "write"
                           [] OTHER -> "reply"]
  /\ down' = [down EXCEPT ![t] = "executing"]
  /\ watchDog' = IF down[t] \in {"PING", "HCI_DATA"}
                 THEN [watchDog EXCEPT !.counter = MaxCounter] ELSE watchDog
  /\ UNCHANGED <<main, quit, agentVars, driverVars, up, connected, attached>>

\* What WorkingThreads and CommandCallback push reaches a connected desktop.
Push(message) ==
  up' = IF connected /\ main = "waiting" THEN Append(up, message) ELSE up

CallbackReturns ==
  /\ callback' = NoCallback
  /\ down' = [down EXCEPT ![callback.thread] = "none"]

\* Faulty variant: the desktop thread is let go and the answer runs on.
CommandCallback_Reply_Early ==
  /\ callback.pc = "reply"
  /\ Push(callback.command)
  /\ down' = [down EXCEPT ![callback.thread] = "none"]
  /\ CallbackGoTo("write")
  /\ UNCHANGED <<main, quit, watchDog, agentVars, driverVars, connected, attached>>

\* The message is sent back, whatever became of Initialize or Uninitialize.
\* The plug-in ignores pings and logging messages.
CommandCallback_Reply ==
  /\ callback.pc = "reply"
  /\ IF callback.command \in {"PING", "LOGGING"} THEN UNCHANGED up ELSE Push(callback.command)
  /\ CallbackReturns
  /\ UNCHANGED <<main, quit, watchDog, agentVars, driverVars, connected, attached>>

\* ReadDesktopWriteDevicePacket: WriteMsgQueue waits for the driver to read
\* (MSG_QUEUE_WRITE_TIMEOUT); without a queue the packet is dropped.
ReadDesktopWriteDevicePacket ==
  /\ callback.pc = "write"
  /\ queues => ~toDevice
  /\ toDevice' = (toDevice \/ queues)
  /\ CallbackReturns
  /\ UNCHANGED <<main, quit, watchDog, agentVars, registered, used, stack, toAgent,
                 up, connected, attached>>

\* END_COMMAND, the last the framework sends: PulseEvent lets go the threads
\* that wait, and leaves the event reset.
EndCommand ==
  /\ connected /\ main = "waiting" /\ callback = NoCallback
  /\ main' = "stopping" /\ quit' = FALSE
  /\ watchDog' = [watchDog EXCEPT !.running = FALSE]
  /\ threads' = [i \in DOMAIN threads |->
                   IF threads[i].pc = "waiting" THEN [threads[i] EXCEPT !.pc = "exited"]
                   ELSE threads[i]]
  /\ connected' = FALSE /\ up' = <<>> /\ down' = [t \in DesktopThreads |-> "none"]
  /\ UNCHANGED <<callback, queues, device, lastThread, failed, driverVars, attached>>

-----------------------------------------------------------------------------
(* Initialize, step by step.                                               *)

\* CreateMsgQueues, then ProvisionDevice and CopyDriversToWindowsDir.  The
\* queues are named: a queue the driver still has is the same queue.
CreateMsgQueues ==
  /\ callback.pc = "queues"
  /\ queues' = TRUE
  /\ CallbackGoTo("driver")
  /\ UNCHANGED <<main, quit, watchDog, device, threads, lastThread, failed, driverVars,
                 desktopVars>>

\* One of the three fails; the queues stay open when it is not the first.
CreateMsgQueues_Failed ==
  /\ callback.pc = "queues"
  /\ queues' \in {queues, TRUE}
  /\ failed' = TRUE
  /\ CallbackGoTo("reply")
  /\ UNCHANGED <<main, quit, watchDog, device, threads, lastThread, driverVars, desktopVars>>

\* RegisterDevice takes the first index that is free; BTE_Init opens the
\* driver's end of the queues.
ActivateDriver ==
  /\ callback.pc = "driver" /\ registered # Indexes
  /\ device' = CHOOSE i \in Indexes \ registered : \A j \in Indexes \ registered : i <= j
  /\ registered' = registered \cup {device'}
  /\ used' = FALSE
  /\ CallbackGoTo("thread")
  /\ UNCHANGED <<main, quit, watchDog, queues, threads, lastThread, failed, stack, toAgent,
                 toDevice, desktopVars>>

\* RegisterDevice returns NULL for every index.
ActivateDriver_Failed ==
  /\ callback.pc = "driver"
  /\ device' = 0
  /\ failed' = TRUE
  /\ CallbackGoTo("reply")
  /\ UNCHANGED <<main, quit, watchDog, queues, threads, lastThread, driverVars, desktopVars>>

CreateWorkingThread ==
  /\ callback.pc = "thread"
  /\ threads' = Append(threads, [pc |-> "looping", handle |-> TRUE])
  /\ lastThread' = Len(threads')
  /\ CallbackGoTo("reply")
  /\ UNCHANGED <<main, quit, watchDog, queues, device, failed, driverVars, desktopVars>>

CreateWorkingThread_Failed ==
  /\ callback.pc = "thread"
  /\ lastThread' = 0
  /\ failed' = TRUE
  /\ CallbackGoTo("reply")
  /\ UNCHANGED <<main, quit, watchDog, queues, device, threads, driverVars, desktopVars>>

-----------------------------------------------------------------------------
(* Uninitialize, called by CommandCallback and by WinMain.                 *)

\* Faulty variant: the read queue is not closed.
CloseMsgQueues_NotRead ==
  /\ queues' = FALSE
  /\ UNCHANGED <<device, threads, lastThread, failed, driverVars>>

\* The queue handle each WorkingThread has copied becomes invalid.
CloseMsgQueues ==
  /\ queues' = FALSE
  /\ threads' = [i \in DOMAIN threads |-> [threads[i] EXCEPT !.handle = FALSE]]
  /\ UNCHANGED <<device, lastThread, failed, driverVars>>

\* DeregisterDevice: BTE_Deinit closes the last handles of the queues, a call
\* of the stack that waits for room in one fails.
DeactivateDriver ==
  /\ IF device = 0
     THEN UNCHANGED driverVars
     ELSE /\ registered' = registered \ {device}
          /\ toAgent' = "none" /\ toDevice' = FALSE
          /\ stack' = IF stack \in {"closed", "opening", "closing"} THEN "closed" ELSE "stale"
          /\ UNCHANGED used
  /\ device' = 0
  /\ UNCHANGED <<queues, threads, lastThread, failed>>

CommandCallback_Uninitialize ==
  /\ \/ callback.pc = "close" /\ CallbackGoTo("deactivate") /\ CloseMsgQueues
     \/ callback.pc = "deactivate" /\ CallbackGoTo("reply") /\ DeactivateDriver
  /\ UNCHANGED <<main, quit, watchDog, desktopVars>>

-----------------------------------------------------------------------------
(* WinMain and the threads of the agent.                                   *)

\* The wait for the quit event returns.
WinMain_Quit ==
  /\ main = "waiting" /\ quit
  /\ main' = "stopping"
  /\ UNCHANGED <<quit, watchDog, callback, agentVars, driverVars, desktopVars>>

\* StopCommandHandler: a running CommandCallback ends first.
WinMain_StopCommandHandler ==
  /\ main = "stopping" /\ callback = NoCallback
  /\ main' = "closing"
  /\ UNCHANGED <<quit, watchDog, callback, agentVars, driverVars, desktopVars>>

WinMain_Uninitialize ==
  /\ \/ main = "closing" /\ main' = "deactivating" /\ CloseMsgQueues
     \/ main = "deactivating" /\ main' = "pulsing" /\ DeactivateDriver
  /\ UNCHANGED <<quit, watchDog, callback, desktopVars>>

\* PulseEvent, if a WorkingThread was started.
WinMain_Pulse ==
  /\ main = "pulsing"
  /\ main' = IF lastThread = 0 THEN "exited" ELSE "joining"
  /\ IF lastThread = 0 THEN UNCHANGED <<quit, threads>>
     ELSE /\ quit' = FALSE
          /\ threads' = [i \in DOMAIN threads |->
                           IF threads[i].pc = "waiting" THEN [threads[i] EXCEPT !.pc = "exited"]
                           ELSE threads[i]]
  /\ UNCHANGED <<watchDog, callback, queues, device, lastThread, failed, driverVars, desktopVars>>

\* The wait for the latest WorkingThread returns; the process ends.
WinMain_Exit ==
  /\ main = "joining" /\ threads[lastThread].pc = "exited"
  /\ main' = "exited"
  /\ UNCHANGED <<quit, watchDog, callback, agentVars, driverVars, desktopVars>>

\* Faulty variant: the thread ends in place of the agent.
WatchDogThread_Silent ==
  /\ watchDog.running /\ main # "exited"
  /\ watchDog' = IF quit \/ watchDog.counter <= 1
                 THEN [counter |-> 0, running |-> FALSE]
                 ELSE [watchDog EXCEPT !.counter = @ - 1]
  /\ UNCHANGED <<main, quit, callback, agentVars, driverVars, desktopVars>>

\* WATCHDOG_SLEEP_TIMEOUT has passed, or the quit event is signalled.
WatchDogThread ==
  /\ watchDog.running /\ main # "exited"
  /\ IF quit
     THEN watchDog' = [watchDog EXCEPT !.running = FALSE] /\ UNCHANGED quit
     ELSE /\ watchDog' = [watchDog EXCEPT !.counter = IF @ > 0 THEN @ - 1 ELSE 0]
          /\ quit' = (watchDog'.counter = 0)
  /\ UNCHANGED <<main, callback, agentVars, driverVars, desktopVars>>

ThreadGoTo(i, pc) == threads' = [threads EXCEPT ![i].pc = pc]

\* WaitForMultipleObjects: a closed handle makes the call fail, at its start
\* always and under a wait perhaps, and the loop repeats it for ever.
WorkingThread_Wait(i) ==
  /\ main # "exited"
  /\ \/ threads[i].pc = "looping" /\ threads[i].handle /\ ThreadGoTo(i, "waiting")
     \/ threads[i].pc \in {"looping", "waiting"} /\ ~threads[i].handle /\ ThreadGoTo(i, "failing")
     \/ threads[i].pc = "waiting" /\ quit /\ ThreadGoTo(i, "exited")
     \/ /\ threads[i].pc = "waiting" /\ ~quit /\ threads[i].handle /\ toAgent # "none"
        /\ ThreadGoTo(i, "reading")
  /\ UNCHANGED <<main, quit, watchDog, callback, queues, device, lastThread, failed, driverVars,
                 desktopVars>>

\* ReadDeviceWriteDesktop takes what g_hReadQueue has by now.
ReadDeviceWriteDesktop(i) ==
  /\ main # "exited" /\ threads[i].pc = "reading"
  /\ toAgent' = IF queues THEN "none" ELSE toAgent
  /\ ThreadGoTo(i, IF queues /\ toAgent = "COM_CLOSE" THEN "sending" ELSE "looping")
  /\ UNCHANGED <<main, quit, watchDog, callback, queues, device, lastThread, failed, registered,
                 used, stack, toDevice, desktopVars>>

\* ... and sends it up.
SendToDesktop(i) ==
  /\ main # "exited" /\ threads[i].pc = "sending"
  /\ Push("COM_CLOSE")
  /\ ThreadGoTo(i, "looping")
  /\ UNCHANGED <<main, quit, watchDog, callback, queues, device, lastThread, failed, driverVars,
                 down, connected, attached>>

-----------------------------------------------------------------------------
(* The Bluetooth stack, bthemul.dll and the COM driver.  They outlive the  *)
(* agent, which takes the driver with it.                                  *)

StackUnchanged == UNCHANGED <<main, quit, watchDog, callback, agentVars, registered, desktopVars>>

\* HCI_OpenConnection, once the driver announces itself or, impatiently, at
\* any time the port exists.  Bound: MaxThreads sessions.
HCI_OpenConnection ==
  /\ stack = "closed" /\ registered # {}
  /\ Impatient \/ ~used
  /\ lastThread < MaxThreads
  /\ stack' = "opening"
  /\ StackUnchanged /\ UNCHANGED <<used, toAgent, toDevice>>

HCI_CloseConnection ==
  /\ stack \in {"open", "stale"}
  /\ stack' = IF stack = "open" THEN "closing" ELSE "closed"
  /\ StackUnchanged /\ UNCHANGED <<used, toAgent, toDevice>>

\* BTE_Open announces itself; WriteMsgQueue waits for room.
BTE_Open ==
  /\ stack = "opening" /\ toAgent = "none"
  /\ stack' = "open" /\ toAgent' = "COM_OPEN"
  /\ StackUnchanged /\ UNCHANGED <<used, toDevice>>

BTE_Close ==
  /\ stack = "closing" /\ toAgent = "none"
  /\ stack' = "closed" /\ toAgent' = "COM_CLOSE" /\ used' = TRUE
  /\ StackUnchanged /\ UNCHANGED toDevice

\* HCI_ReadPacket: BTE_Read takes a packet.
BTE_Read ==
  /\ stack = "open" /\ toDevice
  /\ toDevice' = FALSE
  /\ StackUnchanged /\ UNCHANGED <<used, stack, toAgent>>

-----------------------------------------------------------------------------
Initialize_Failed == CreateMsgQueues_Failed \/ ActivateDriver_Failed \/ CreateWorkingThread_Failed

\* What goes on by itself: the plug-in, the transport, the agent.
Desktop == OnCommandPacketReceived \/ WatchDogTimerEvent \/ CloseDevice

Callback ==
  \/ \E t \in DesktopThreads : CommandCallback(t)
  \/ CommandCallback_Reply \/ ReadDesktopWriteDevicePacket
  \/ CreateMsgQueues \/ ActivateDriver \/ CreateWorkingThread \/ CommandCallback_Uninitialize

WinMain ==
  \/ WinMain_Quit \/ WinMain_StopCommandHandler \/ WinMain_Uninitialize
  \/ WinMain_Pulse \/ WinMain_Exit

Threads(i) == WorkingThread_Wait(i) \/ ReadDeviceWriteDesktop(i) \/ SendToDesktop(i)

Next ==
  \/ Desktop \/ OnHciEvent \/ Disconnect \/ EndCommand
  \/ Callback \/ Initialize_Failed
  \/ WinMain \/ WatchDogThread
  \/ \E i \in DOMAIN threads : Threads(i)
  \/ HCI_OpenConnection \/ HCI_CloseConnection \/ BTE_Open \/ BTE_Close \/ BTE_Read

Spec == Init /\ [][Next]_vars

\* The operating system runs every thread that can go on, and each command
\* blocked on the agent gets its turn; the stack owes nothing but the call it
\* is in, and nothing has to fail or to disconnect.
FairSpec ==
  /\ Spec
  /\ WF_vars(OnCommandPacketReceived) /\ WF_vars(WatchDogTimerEvent) /\ WF_vars(CloseDevice)
  /\ WF_vars(Callback) /\ SF_vars(CommandCallback("receiver"))
  /\ WF_vars(WinMain) /\ WF_vars(WatchDogThread)
  /\ \A i \in 1 .. MaxThreads : WF_vars(i \in DOMAIN threads /\ Threads(i))
  /\ WF_vars(BTE_Open) /\ WF_vars(BTE_Close)

-----------------------------------------------------------------------------
(* Properties.                                                             *)

\* The types of the variables, and which desktop thread CommandCallback keeps
\* waiting: none but the one whose command it runs, until it returns.
AgentTypeOK ==
  /\ main \in {"waiting", "stopping", "closing", "deactivating", "pulsing", "joining", "exited"}
  /\ quit \in BOOLEAN /\ queues \in BOOLEAN /\ failed \in BOOLEAN /\ used \in BOOLEAN
  /\ watchDog \in [counter : 0 .. MaxCounter, running : BOOLEAN]
  /\ callback \in {NoCallback} \cup
       [thread : DesktopThreads, command : Commands,
        pc : {"queues", "driver", "thread", "close", "deactivate", "write", "reply"}]
  /\ device \in Indexes \cup {0} /\ registered \subseteq Indexes
  /\ threads \in Seq([pc : {"looping", "waiting", "reading", "sending", "failing", "exited"},
                      handle : BOOLEAN])
  /\ lastThread \in 0 .. Len(threads)
  /\ stack \in {"closed", "opening", "open", "closing", "stale"}
  /\ toAgent \in {"none", "COM_OPEN", "COM_CLOSE"} /\ toDevice \in BOOLEAN
  /\ up \in Seq({"ACK", "INITIALIZE", "UNINITIALIZE", "COM_CLOSE"})
  /\ down \in [DesktopThreads -> Commands \cup {"none", "executing"}]
  /\ connected \in BOOLEAN /\ attached \in BOOLEAN
  /\ \A t \in DesktopThreads : connected => (down[t] = "executing" <=> callback.thread = t)

\* The driver instances of the device manager are those the agent can still
\* deregister: sessions do not pile up instances, and none is left when the
\* agent has uninitialised itself, whichever way it ended.
OneDriver ==
  /\ registered = IF device = 0 THEN {} ELSE {device}
  /\ main \in {"pulsing", "joining", "exited"} => registered = {}

\* WorkingThread i can still take a message, or is on its way with one.
Reads(i) ==
  \/ threads[i].pc \in {"looping", "waiting"} /\ threads[i].handle
  \/ threads[i].pc \in {"reading", "sending"}

\* One WorkingThread at most can take the messages of the device, however
\* many sessions there were: with two, one could overtake the other.
OneReader == Cardinality({i \in DOMAIN threads : Reads(i)}) <= 1

\* ActivateDriver: ASSERT( g_hDevice == NULL ).
AssertNoDevice == callback.pc = "driver" => device = 0

Serving == main = "waiting" /\ connected /\ ~failed

\* When the stack has closed the COM port, the agent comes up again with a
\* driver the stack has not used, or it does not go on: it is told to quit or
\* cut off, or a step of Initialize fails.  The plug-in's pings do not keep a
\* finished session alive, and an event stuck in the queue of the closed
\* port, with the UNINITIALIZE command behind it, is the watchdog's business.
Recovers == (toAgent = "COM_CLOSE" /\ Serving) ~> (~Serving \/ (device # 0 /\ ~used))

\* An agent that the desktop has left ends its wait, although WinMain's wait
\* has no time limit.
WatchDogEnds == ~connected ~> main # "waiting"

=============================================================================
