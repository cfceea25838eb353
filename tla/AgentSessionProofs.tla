-------------------------- MODULE AgentSessionProofs --------------------------
(* Proofs about AgentSession, for any watchdog limit and any number of      *)
(* sessions: the types of the variables, and, while the stack opens each    *)
(* driver instance once, that sessions leave neither driver instances nor   *)
(* readers of the message queue behind.                                     *)
EXTENDS AgentSession, FiniteSetTheorems, TLAPS

USE DEF agentVars, driverVars, desktopVars, CallbackGoTo, ThreadGoTo, DesktopThreads

(* Which step of CommandCallback runs which command, and whose it can be.   *)
CallbackOK ==
  \/ callback = NoCallback
  \/ /\ callback # NoCallback
     /\ main \in {"waiting", "stopping"}
     /\ \/ callback.command \in {"ACK", "PING", "LOGGING"} /\ callback.pc = "reply"
        \/ /\ callback.command = "INITIALIZE"
           /\ callback.pc \in {"queues", "driver", "thread", "reply"}
        \/ callback.command = "UNINITIALIZE" /\ callback.pc \in {"close", "deactivate", "reply"}
        \/ callback.command = "HCI_DATA" /\ callback.pc = "write"
     /\ callback.command \in {"ACK", "INITIALIZE", "UNINITIALIZE"} => callback.thread = "receiver"

(* Which thread of the plug-in sends which command.                         *)
DownOK ==
  /\ down["receiver"] # "HCI_DATA" /\ down["receiver"] # "PING"
  /\ down["timer"] \in {"none", "executing", "PING"}
  /\ down["listener"] \in {"none", "executing", "HCI_DATA"}
  /\ ~connected => up = <<>> /\ \A t \in DesktopThreads : down[t] = "none"

(* AgentTypeOK in two parts, of which the first is for Zenon.               *)
Flags == /\ quit \in BOOLEAN /\ queues \in BOOLEAN /\ failed \in BOOLEAN /\ used \in BOOLEAN
         /\ toDevice \in BOOLEAN /\ connected \in BOOLEAN /\ attached \in BOOLEAN

ThreadSteps == {"looping", "waiting", "reading", "sending", "failing", "exited"}
ThreadRecord == [pc : ThreadSteps, handle : BOOLEAN]

Shapes ==
  /\ main \in {"waiting", "stopping", "closing", "deactivating", "pulsing", "joining", "exited"}
  /\ watchDog \in [counter : 0 .. MaxCounter, running : BOOLEAN]
  /\ callback \in {NoCallback} \cup
       [thread : DesktopThreads, command : Commands,
        pc : {"queues", "driver", "thread", "close", "deactivate", "write", "reply"}]
  /\ device \in Indexes \cup {0} /\ registered \subseteq Indexes
  /\ threads \in Seq(ThreadRecord)
  /\ lastThread \in 0 .. Len(threads)
  /\ stack \in {"closed", "opening", "open", "closing", "stale"}
  /\ toAgent \in {"none", "COM_OPEN", "COM_CLOSE"}
  /\ up \in Seq({"ACK", "INITIALIZE", "UNINITIALIZE", "COM_CLOSE"})
  /\ down \in [DesktopThreads -> Commands \cup {"none", "executing"}]
  /\ \A t \in DesktopThreads : connected => (down[t] = "executing" <=> callback.thread = t)

LEMMA NextFlags == Flags /\ [Next]_vars => Flags'
<1> SUFFICES ASSUME Flags, [Next]_vars PROVE Flags'
  OBVIOUS
<1> USE DEF Flags
<1>1. CASE Desktop \/ OnHciEvent \/ Disconnect \/ EndCommand
  BY <1>1, Zenon DEF Desktop, OnCommandPacketReceived, WatchDogTimerEvent, CloseDevice, OnHciEvent,
     Disconnect, EndCommand
<1>2. CASE Callback \/ Initialize_Failed
  <2>1. ASSUME NEW t \in DesktopThreads, CommandCallback(t) PROVE Flags'
    BY <2>1, Zenon DEF CommandCallback
  <2>2. CASE CommandCallback_Reply \/ ReadDesktopWriteDevicePacket
    BY <2>2, Zenon DEF CommandCallback_Reply, ReadDesktopWriteDevicePacket
  <2>3. CASE CreateMsgQueues \/ ActivateDriver \/ CreateWorkingThread
    BY <2>3, Zenon DEF CreateMsgQueues, ActivateDriver, CreateWorkingThread
  <2>4. CASE CommandCallback_Uninitialize
    BY <2>4, Zenon DEF CommandCallback_Uninitialize, CloseMsgQueues, DeactivateDriver
  <2>5. CASE Initialize_Failed
    BY <2>5, Zenon DEF Initialize_Failed, CreateMsgQueues_Failed, ActivateDriver_Failed,
       CreateWorkingThread_Failed
  <2> QED
    BY <1>2, <2>1, <2>2, <2>3, <2>4, <2>5, Zenon DEF Callback
<1>3. CASE WinMain
  BY <1>3, Zenon DEF WinMain, WinMain_Quit, WinMain_StopCommandHandler, WinMain_Uninitialize,
     WinMain_Pulse, WinMain_Exit, CloseMsgQueues, DeactivateDriver
<1>4. CASE WatchDogThread
  BY <1>4, Zenon DEF WatchDogThread
<1>5. ASSUME NEW i \in DOMAIN threads, Threads(i) PROVE Flags'
  BY <1>5, Zenon DEF Threads, WorkingThread_Wait, ReadDeviceWriteDesktop, SendToDesktop
<1>6. CASE HCI_OpenConnection \/ HCI_CloseConnection \/ BTE_Open \/ BTE_Close \/ BTE_Read
  BY <1>6, Zenon DEF HCI_OpenConnection, HCI_CloseConnection, BTE_Open, BTE_Close, BTE_Read,
     StackUnchanged
<1>7. CASE UNCHANGED vars
  BY <1>7 DEF vars
<1> QED
  BY <1>1, <1>2, <1>3, <1>4, <1>5, <1>6, <1>7 DEF Next

Types == Flags /\ Shapes /\ CallbackOK /\ DownOK

LEMMA InitTypes == Init => Types
<1> SUFFICES ASSUME Init PROVE Types
  OBVIOUS
<1>1. Flags
  BY Zenon DEF Init, Flags
<1>2. watchDog \in [counter : 0 .. MaxCounter, running : BOOLEAN]
  BY SessionAssumption DEF Init
<1>3. /\ threads \in Seq(ThreadRecord) /\ lastThread \in 0 .. Len(threads)
      /\ up \in Seq({"ACK", "INITIALIZE", "UNINITIALIZE", "COM_CLOSE"})
  BY DEF Init
<1>4. down \in [DesktopThreads -> Commands \cup {"none", "executing"}]
  BY DEF Init, Commands
<1>5. Shapes
  BY <1>2, <1>3, <1>4 DEF Init, Shapes, NoCallback
<1>6. CallbackOK /\ DownOK
  BY DEF Init, CallbackOK, DownOK
<1> QED
  BY <1>1, <1>5, <1>6 DEF Types

\* A WorkingThread goes on; all of them lose the queue; those that wait end.
LEMMA RecordTypes ==
  ASSUME NEW r \in ThreadRecord
  PROVE  /\ [r EXCEPT !.handle = FALSE] \in ThreadRecord
         /\ \A pc \in ThreadSteps : [r EXCEPT !.pc = pc] \in ThreadRecord
BY DEF ThreadRecord

LEMMA MapTypes ==
  ASSUME NEW s \in Seq(ThreadRecord), NEW f, f = [i \in DOMAIN s |-> f[i]],
         \A i \in DOMAIN s : f[i] \in ThreadRecord
  PROVE  f \in Seq(ThreadRecord) /\ Len(f) = Len(s)
OBVIOUS

LEMMA ThreadGoToTypes ==
  ASSUME threads \in Seq(ThreadRecord), NEW i \in DOMAIN threads, NEW pc \in ThreadSteps,
         ThreadGoTo(i, pc)
  PROVE  threads' \in Seq(ThreadRecord) /\ Len(threads') = Len(threads)
<1>1. threads[i] \in ThreadRecord
  OBVIOUS
<1>2. [threads[i] EXCEPT !.pc = pc] \in ThreadRecord
  BY <1>1, RecordTypes
<1> QED
  BY <1>2

LEMMA CloseTypes ==
  ASSUME threads \in Seq(ThreadRecord), CloseMsgQueues
  PROVE  threads' \in Seq(ThreadRecord) /\ Len(threads') = Len(threads)
<1>1. \A i \in DOMAIN threads : threads[i] \in ThreadRecord
  OBVIOUS
<1>2. \A i \in DOMAIN threads : [threads[i] EXCEPT !.handle = FALSE] \in ThreadRecord
  BY <1>1, RecordTypes
<1>3. threads' = [i \in DOMAIN threads |-> [threads[i] EXCEPT !.handle = FALSE]]
  BY DEF CloseMsgQueues
<1>4. /\ threads' = [i \in DOMAIN threads |-> threads'[i]]
      /\ \A i \in DOMAIN threads : threads'[i] \in ThreadRecord
  BY <1>2, <1>3
<1> QED
  BY <1>4, MapTypes

LetGo == [i \in DOMAIN threads |->
            IF threads[i].pc = "waiting" THEN [threads[i] EXCEPT !.pc = "exited"] ELSE threads[i]]

LEMMA LetGoTypes ==
  ASSUME threads \in Seq(ThreadRecord), threads' = LetGo
  PROVE  threads' \in Seq(ThreadRecord) /\ Len(threads') = Len(threads)
<1>1. \A i \in DOMAIN threads : threads[i] \in ThreadRecord
  OBVIOUS
<1>2. \A i \in DOMAIN threads : [threads[i] EXCEPT !.pc = "exited"] \in ThreadRecord
  BY <1>1, RecordTypes DEF ThreadSteps
<1>3. /\ threads' = [i \in DOMAIN threads |-> threads'[i]]
      /\ \A i \in DOMAIN threads : threads'[i] \in ThreadRecord
  BY <1>1, <1>2 DEF LetGo
<1> QED
  BY <1>3, MapTypes

LEMMA FreeIndex ==
  ASSUME NEW S \in SUBSET Indexes, S # {} PROVE \E i \in S : \A j \in S : i <= j
<1>1. Indexes = {1, 2, 3, 4, 5, 6, 7, 8, 9}
  BY DEF Indexes
<1>2. PICK k \in S : TRUE
  OBVIOUS
<1> DEFINE Above(n) == \A j \in S : n <= j
<1>3. Above(1)
  BY <1>1
<1>4. ASSUME NEW n \in Int, Above(n), n \notin S PROVE Above(n + 1)
  BY <1>1, <1>4
<1> HIDE DEF Above
<1>5. CASE \E n \in 1 .. 9 : n \in S /\ Above(n)
  BY <1>5 DEF Above
<1>6. CASE \A n \in 1 .. 9 : ~(n \in S /\ Above(n))
  <2>1. Above(2) /\ Above(3)
    BY <1>3, <1>4, <1>6
  <2>2. Above(4) /\ Above(5)
    BY <2>1, <1>4, <1>6
  <2>3. Above(6) /\ Above(7)
    BY <2>2, <1>4, <1>6
  <2>4. Above(8) /\ Above(9)
    BY <2>3, <1>4, <1>6
  <2>5. Above(10)
    BY <2>4, <1>4, <1>6
  <2> QED
    BY <2>5, <1>1, <1>2 DEF Above
<1> QED
  BY <1>5, <1>6

\* What the plug-in answers to the message it takes.
LEMMA AnswerStep ==
  ASSUME OnCommandPacketReceived, connected,
         Head(up) \in {"ACK", "INITIALIZE", "UNINITIALIZE", "COM_CLOSE"}
  PROVE  \/ /\ Head(up) \in {"ACK", "UNINITIALIZE"}
            /\ down' = [down EXCEPT !["receiver"] = "INITIALIZE"]
         \/ Head(up) = "INITIALIZE" /\ down' = [down EXCEPT !["receiver"] = "LOGGING"]
         \/ Head(up) = "COM_CLOSE" /\ down' = [down EXCEPT !["receiver"] = "UNINITIALIZE"]
<1> DEFINE answer == [ACK |-> "INITIALIZE", INITIALIZE |-> "LOGGING",
                      UNINITIALIZE |-> "INITIALIZE", COM_CLOSE |-> "UNINITIALIZE"]
<1>1. down' = [down EXCEPT !["receiver"] = answer[Head(up)]]
  BY DEF OnCommandPacketReceived, SendCommand
<1>2. /\ answer["ACK"] = "INITIALIZE" /\ answer["INITIALIZE"] = "LOGGING"
      /\ answer["UNINITIALIZE"] = "INITIALIZE" /\ answer["COM_CLOSE"] = "UNINITIALIZE"
  OBVIOUS
<1> HIDE DEF answer
<1> QED
  BY <1>1, <1>2

LEMMA DesktopTypes ==
  ASSUME Types, Desktop \/ OnHciEvent \/ Disconnect \/ EndCommand PROVE Shapes' /\ CallbackOK' /\ DownOK'
<1> USE DEF Types, Shapes, CallbackOK, DownOK
<1>1. CASE OnCommandPacketReceived
  <2>1. /\ up' = Tail(up) /\ up # <<>> /\ connected /\ down["receiver"] = "none"
        /\ UNCHANGED <<main, quit, watchDog, callback, agentVars, driverVars, connected, attached>>
    BY <1>1 DEF OnCommandPacketReceived
  <2>2. up' \in Seq({"ACK", "INITIALIZE", "UNINITIALIZE", "COM_CLOSE"})
        /\ Head(up) \in {"ACK", "INITIALIZE", "UNINITIALIZE", "COM_CLOSE"}
    BY <2>1
  <2>3. PICK c \in {"INITIALIZE", "LOGGING", "UNINITIALIZE"} : down' = [down EXCEPT !["receiver"] = c]
    BY <2>1, <2>2, AnswerStep, <1>1
  <2>4. down' \in [DesktopThreads -> Commands \cup {"none", "executing"}]
    BY <2>3 DEF Commands
  <2>5. /\ down'["receiver"] = c
        /\ \A t \in DesktopThreads : t # "receiver" => down'[t] = down[t]
    BY <2>3
  <2>6. Shapes'
    BY <2>1, <2>2, <2>4, <2>5
  <2>7. CallbackOK' /\ DownOK'
    BY <2>1, <2>5
  <2> QED
    BY <2>6, <2>7
<1>2. CASE WatchDogTimerEvent
  BY <1>2 DEF WatchDogTimerEvent, SendCommand, Commands
<1>3. CASE CloseDevice
  BY <1>3 DEF CloseDevice
<1>4. CASE OnHciEvent
  BY <1>4 DEF OnHciEvent, SendCommand, Commands
<1>5. CASE Disconnect
  BY <1>5 DEF Disconnect, NoCallback
<1>6. CASE EndCommand
  <2>1. threads' \in Seq(ThreadRecord) /\ Len(threads') = Len(threads)
    BY <1>6, LetGoTypes DEF EndCommand, LetGo
  <2>2. watchDog' \in [counter : 0 .. MaxCounter, running : BOOLEAN]
    BY <1>6 DEF EndCommand
  <2>3. down' \in [DesktopThreads -> Commands \cup {"none", "executing"}] /\ ~connected'
        /\ callback' = NoCallback /\ up' = <<>> /\ \A t \in DesktopThreads : down'[t] = "none"
    BY <1>6 DEF EndCommand
  <2> QED
    BY <1>6, <2>1, <2>2, <2>3 DEF EndCommand
<1> QED
  BY <1>1, <1>2, <1>3, <1>4, <1>5, <1>6 DEF Desktop

\* Pushed messages are of the plug-in's protocol.
LEMMA PushTypes ==
  ASSUME Types, NEW m \in {"ACK", "INITIALIZE", "UNINITIALIZE", "COM_CLOSE"}, Push(m)
  PROVE  /\ up' \in Seq({"ACK", "INITIALIZE", "UNINITIALIZE", "COM_CLOSE"})
         /\ ~connected => up' = <<>>
BY DEF Types, Shapes, DownOK, Push

LEMMA CallbackTypes ==
  ASSUME Types, Callback \/ Initialize_Failed PROVE Shapes' /\ CallbackOK' /\ DownOK'
<1> USE DEF Types, Shapes, CallbackOK, DownOK
<1>1. ASSUME NEW t \in DesktopThreads, CommandCallback(t) PROVE Shapes' /\ CallbackOK' /\ DownOK'
  <2>1. /\ callback = NoCallback /\ main = "waiting" /\ down[t] \in Commands
        /\ callback'.thread = t /\ callback'.command = down[t]
        /\ callback'.pc = CASE down[t] = "INITIALIZE" -> "queues"
                            [] down[t] = "UNINITIALIZE" -> "close"
                            [] down[t] = "HCI_DATA" -> "write"
                            [] OTHER -> "reply"
        /\ callback' \in [thread : DesktopThreads, command : Commands,
             pc : {"queues", "driver", "thread", "close", "deactivate", "write", "reply"}]
    BY <1>1 DEF CommandCallback, Commands
  <2>2. /\ down' = [down EXCEPT ![t] = "executing"]
        /\ UNCHANGED <<main, agentVars, driverVars, up, connected, attached>>
    BY <1>1 DEF CommandCallback
  <2>3. watchDog' \in [counter : 0 .. MaxCounter, running : BOOLEAN]
    BY <1>1, SessionAssumption DEF CommandCallback
  <2>4. CallbackOK'
    BY <2>1, <2>2 DEF Commands, NoCallback
  <2>5. DownOK'
    BY <2>1, <2>2 DEF Commands
  <2>6. \A u \in DesktopThreads : connected' => (down'[u] = "executing" <=> callback'.thread = u)
    BY <2>1, <2>2 DEF Commands, NoCallback
  <2> QED
    BY <2>1, <2>2, <2>3, <2>4, <2>5, <2>6
<1>2. CASE CommandCallback_Reply
  BY <1>2, PushTypes DEF CommandCallback_Reply, CallbackReturns, Commands, NoCallback
<1>3. CASE ReadDesktopWriteDevicePacket
  BY <1>3 DEF ReadDesktopWriteDevicePacket, CallbackReturns, Commands, NoCallback
<1>4. CASE CreateMsgQueues
  BY <1>4 DEF CreateMsgQueues, Commands, NoCallback
<1>5. CASE ActivateDriver
  <2>1. device' \in Indexes
    <3> DEFINE S == Indexes \ registered
    <3>1. S \in SUBSET Indexes /\ S # {} /\ device' = CHOOSE i \in S : \A j \in S : i <= j
      BY <1>5 DEF ActivateDriver
    <3> QED
      BY <3>1, FreeIndex
  <2>2. registered' \subseteq Indexes
    BY <1>5, <2>1 DEF ActivateDriver
  <2> QED
    BY <1>5, <2>1, <2>2 DEF ActivateDriver, Commands, NoCallback
<1>6. CASE CreateWorkingThread
  <2>1. threads' \in Seq(ThreadRecord) /\ Len(threads') = Len(threads) + 1
    BY <1>6 DEF CreateWorkingThread, ThreadRecord, ThreadSteps
  <2>2. lastThread' \in 0 .. Len(threads')
    BY <1>6, <2>1 DEF CreateWorkingThread
  <2> QED
    BY <1>6, <2>1, <2>2 DEF CreateWorkingThread, Commands, NoCallback
<1>7. CASE CommandCallback_Uninitialize
  <2>1. CASE callback.pc = "close"
    <3>1. threads' \in Seq(ThreadRecord) /\ Len(threads') = Len(threads)
      BY <1>7, <2>1, CloseTypes DEF CommandCallback_Uninitialize
    <3> QED
      BY <1>7, <2>1, <3>1 DEF CommandCallback_Uninitialize, CloseMsgQueues, Commands, NoCallback
  <2>2. CASE callback.pc = "deactivate"
    BY <1>7, <2>2 DEF CommandCallback_Uninitialize, DeactivateDriver, Commands, NoCallback
  <2> QED
    BY <1>7, <2>1, <2>2 DEF CommandCallback_Uninitialize
<1>8. CASE CreateMsgQueues_Failed
  BY <1>8 DEF CreateMsgQueues_Failed, Commands, NoCallback
<1>9. CASE ActivateDriver_Failed
  BY <1>9 DEF ActivateDriver_Failed, Commands, NoCallback
<1>10. CASE CreateWorkingThread_Failed
  BY <1>10 DEF CreateWorkingThread_Failed, Commands, NoCallback
<1> QED
  BY <1>1, <1>2, <1>3, <1>4, <1>5, <1>6, <1>7, <1>8, <1>9, <1>10 DEF Callback, Initialize_Failed

LEMMA WinMainTypes ==
  ASSUME Types, WinMain \/ WatchDogThread PROVE Shapes' /\ CallbackOK' /\ DownOK'
<1> USE DEF Types, Shapes, CallbackOK, DownOK
<1>1. CASE WinMain_Quit
  BY <1>1 DEF WinMain_Quit
<1>2. CASE WinMain_StopCommandHandler
  BY <1>2 DEF WinMain_StopCommandHandler
<1>3. CASE WinMain_Uninitialize
  <2>1. CASE main = "closing"
    <3>1. threads' \in Seq(ThreadRecord) /\ Len(threads') = Len(threads)
      BY <1>3, <2>1, CloseTypes DEF WinMain_Uninitialize
    <3> QED
      BY <1>3, <2>1, <3>1 DEF WinMain_Uninitialize, CloseMsgQueues
  <2>2. CASE main = "deactivating"
    BY <1>3, <2>2 DEF WinMain_Uninitialize, DeactivateDriver
  <2> QED
    BY <1>3, <2>1, <2>2 DEF WinMain_Uninitialize
<1>4. CASE WinMain_Pulse
  <2>1. threads' \in Seq(ThreadRecord) /\ Len(threads') = Len(threads)
    BY <1>4, LetGoTypes DEF WinMain_Pulse, LetGo
  <2> QED
    BY <1>4, <2>1 DEF WinMain_Pulse
<1>5. CASE WinMain_Exit
  BY <1>5 DEF WinMain_Exit
<1>6. CASE WatchDogThread
  <2>1. watchDog' \in [counter : 0 .. MaxCounter, running : BOOLEAN]
    <3>1. watchDog.counter \in 0 .. MaxCounter /\ MaxCounter \in Nat
      BY SessionAssumption
    <3>2. CASE quit
      BY <1>6, <3>2 DEF WatchDogThread
    <3>3. CASE ~quit
      BY <1>6, <3>1, <3>3 DEF WatchDogThread
    <3> QED
      BY <3>2, <3>3
  <2> QED
    BY <1>6, <2>1 DEF WatchDogThread
<1> QED
  BY <1>1, <1>2, <1>3, <1>4, <1>5, <1>6 DEF WinMain

LEMMA ThreadTypes ==
  ASSUME Types, NEW i \in DOMAIN threads, Threads(i) PROVE Shapes' /\ CallbackOK' /\ DownOK'
<1> USE DEF Types, Shapes, CallbackOK, DownOK
<1>1. CASE WorkingThread_Wait(i)
  <2>1. threads' \in Seq(ThreadRecord) /\ Len(threads') = Len(threads)
    BY <1>1, ThreadGoToTypes DEF WorkingThread_Wait, ThreadSteps
  <2> QED
    BY <1>1, <2>1 DEF WorkingThread_Wait
<1>2. CASE ReadDeviceWriteDesktop(i)
  <2>1. threads' \in Seq(ThreadRecord) /\ Len(threads') = Len(threads)
    BY <1>2, ThreadGoToTypes DEF ReadDeviceWriteDesktop, ThreadSteps
  <2> QED
    BY <1>2, <2>1 DEF ReadDeviceWriteDesktop
<1>3. CASE SendToDesktop(i)
  <2>1. threads' \in Seq(ThreadRecord) /\ Len(threads') = Len(threads)
    BY <1>3, ThreadGoToTypes DEF SendToDesktop, ThreadSteps
  <2> QED
    BY <1>3, <2>1, PushTypes DEF SendToDesktop
<1> QED
  BY <1>1, <1>2, <1>3 DEF Threads

LEMMA StackTypes ==
  ASSUME Types, HCI_OpenConnection \/ HCI_CloseConnection \/ BTE_Open \/ BTE_Close \/ BTE_Read
  PROVE  Shapes' /\ CallbackOK' /\ DownOK'
BY DEF Types, Shapes, CallbackOK, DownOK, HCI_OpenConnection, HCI_CloseConnection, BTE_Open,
       BTE_Close, BTE_Read, StackUnchanged

LEMMA NextTypes == Types /\ [Next]_vars => Types'
<1> SUFFICES ASSUME Types, [Next]_vars PROVE Types'
  OBVIOUS
<1>1. CASE UNCHANGED vars
  BY <1>1 DEF vars, Types, Flags, Shapes, CallbackOK, DownOK
<1>2. Flags'
  BY NextFlags DEF Types
<1> QED
  BY <1>1, <1>2, DesktopTypes, CallbackTypes, WinMainTypes, ThreadTypes, StackTypes DEF Next, Types

LEMMA TypesCorrect == Spec => []Types
  BY InitTypes, NextTypes, PTL DEF Spec

(* The variables keep their types, and of the desktop's threads none but    *)
(* the one whose command CommandCallback runs is kept waiting by it.        *)
THEOREM AgentTypesCorrect == Spec => []AgentTypeOK
<1>1. Types => AgentTypeOK
  BY DEF Types, Flags, Shapes, ThreadSteps, ThreadRecord, AgentTypeOK
<1> QED
  BY <1>1, TypesCorrect, PTL
-----------------------------------------------------------------------------
(* What starts the next session and what ends this one: a message or a      *)
(* command, in one of five places at a time.  A start makes the agent       *)
(* initialise a driver, an end makes it deactivate the one it has.          *)
UpStart == \E i \in DOMAIN up : up[i] \in {"ACK", "UNINITIALIZE"}
DownStart == down["receiver"] \in {"ACK", "INITIALIZE"}
CallStart ==
  \/ callback.command = "ACK"
  \/ callback.command = "UNINITIALIZE" /\ callback.pc = "reply"
  \/ callback.pc \in {"queues", "driver"}

QueueEnd == toAgent = "COM_CLOSE"
ThreadEnd == \E i \in DOMAIN threads : threads[i].pc = "sending"
UpEnd == \E i \in DOMAIN up : up[i] = "COM_CLOSE"
DownEnd == down["receiver"] = "UNINITIALIZE"
CallEnd == callback.pc \in {"close", "deactivate"}

Starting == UpStart \/ DownStart \/ CallStart
Ending == QueueEnd \/ ThreadEnd \/ UpEnd \/ DownEnd \/ CallEnd

\* The start or end in up, if any, is one message.
OneInUp == \A i, j \in DOMAIN up : up[i] # "INITIALIZE" /\ up[j] # "INITIALIZE" => i = j

\* There is one of them.
OneControl ==
  /\ OneInUp
  /\ UpStart \/ UpEnd => ~(DownStart \/ DownEnd \/ CallStart \/ CallEnd \/ QueueEnd \/ ThreadEnd)
  /\ DownStart \/ DownEnd => ~(CallStart \/ CallEnd \/ QueueEnd \/ ThreadEnd)
  /\ CallStart \/ CallEnd => ~(QueueEnd \/ ThreadEnd)
  /\ QueueEnd => ~ThreadEnd

NoReader == \A i \in DOMAIN threads : ~Reads(i)

\* A session starts without a driver and without a reader.
FreshStart ==
  /\ Starting => device = 0 /\ NoReader
  /\ callback.pc \in {"thread", "deactivate"} => NoReader
  /\ callback.pc = "thread" => device # 0

\* It ends because the stack has closed its driver, which it opens once.
UsedOnce ==
  /\ Ending => used
  /\ used => stack \in {"closed", "stale"} /\ toAgent # "COM_OPEN"
  /\ stack \in {"opening", "open", "closing"} \/ toAgent # "none" => device # 0

Ended == main \in {"pulsing", "joining", "exited"}

\* A WorkingThread has been woken by a message, which only it takes.
ReaderHasMessage ==
  ~Ended => \A i \in DOMAIN threads : threads[i].pc = "reading" => toAgent # "none"

OneReads == \A i, j \in DOMAIN threads : Reads(i) /\ Reads(j) => i = j

DriverOfDevice == registered = (IF device = 0 THEN {} ELSE {device}) /\ (Ended => device = 0)

SessionInv == OneControl /\ FreshStart /\ UsedOnce /\ ReaderHasMessage /\ OneReads /\ DriverOfDevice

LEMMA InitSession == Init => SessionInv
<1> SUFFICES ASSUME Init PROVE SessionInv
  OBVIOUS
<1>1. /\ ~UpStart /\ ~UpEnd /\ ~DownEnd /\ ~CallStart /\ ~CallEnd /\ ~QueueEnd /\ ~ThreadEnd
      /\ OneInUp /\ NoReader /\ ~Ended /\ callback.pc = "none"
  BY DEF Init, UpStart, UpEnd, DownEnd, CallStart, CallEnd, QueueEnd, ThreadEnd, OneInUp, NoReader,
         NoCallback, Ended
<1> QED
  BY <1>1 DEF Init, SessionInv, OneControl, FreshStart, UsedOnce, Ending, ReaderHasMessage, OneReads,
              NoReader, DriverOfDevice

-----------------------------------------------------------------------------
\* A step that starts, ends and wakes nothing.
SessionStays ==
  /\ UpStart' => UpStart
  /\ UpEnd' => UpEnd
  /\ OneInUp => OneInUp'
  /\ DownStart' => DownStart
  /\ DownEnd' => DownEnd
  /\ CallStart' => CallStart
  /\ CallEnd' => CallEnd
  /\ ThreadEnd' => ThreadEnd
  /\ callback'.pc \in {"thread", "deactivate"} => callback'.pc = callback.pc
  /\ DOMAIN threads' = DOMAIN threads
  /\ \A i \in DOMAIN threads :
       /\ Reads(i)' => Reads(i)
       /\ threads'[i].pc = "reading" => threads[i].pc = "reading"
  /\ Ended' <=> Ended
  /\ UNCHANGED <<device, registered, used, stack, toAgent>>

LEMMA StayingKeepsSession == ASSUME SessionInv, SessionStays PROVE SessionInv'
<1>1. QueueEnd' <=> QueueEnd
  BY DEF SessionStays, QueueEnd
<1>2. (Starting' => Starting) /\ (Ending' => Ending)
  BY <1>1 DEF SessionStays, Starting, Ending
<1>3. NoReader => NoReader'
  BY DEF SessionStays, NoReader
<1>4. OneControl'
  BY <1>1 DEF SessionInv, SessionStays, OneControl
<1>5. FreshStart' /\ UsedOnce'
  BY <1>2, <1>3 DEF SessionInv, SessionStays, FreshStart, UsedOnce
<1>6. ReaderHasMessage' /\ OneReads'
  BY DEF SessionInv, SessionStays, ReaderHasMessage, OneReads
<1>7. DriverOfDevice'
  BY DEF SessionInv, SessionStays, DriverOfDevice
<1> QED
  BY <1>4, <1>5, <1>6, <1>7 DEF SessionInv

\* Messages arrive at the desktop and are taken from there.
LEMMA PushUp ==
  ASSUME Types, NEW m \in {"ACK", "INITIALIZE", "UNINITIALIZE", "COM_CLOSE"}, Push(m)
  PROVE  /\ UpStart' => UpStart \/ m \in {"ACK", "UNINITIALIZE"}
         /\ UpEnd' => UpEnd \/ m = "COM_CLOSE"
         /\ OneInUp /\ (m = "INITIALIZE" \/ ~(UpStart \/ UpEnd)) => OneInUp'
<1>1. CASE up' = up
  BY <1>1 DEF UpStart, UpEnd, OneInUp
<1>2. CASE up' = Append(up, m)
  <2>1. /\ DOMAIN up' = DOMAIN up \cup {Len(up) + 1} /\ up'[Len(up) + 1] = m
        /\ \A i \in DOMAIN up : up'[i] = up[i] /\ i # Len(up) + 1
        /\ \A i \in DOMAIN up : up[i] \in {"ACK", "INITIALIZE", "UNINITIALIZE", "COM_CLOSE"}
    BY <1>2 DEF Types, Shapes
  <2> QED
    BY <2>1 DEF UpStart, UpEnd, OneInUp
<1> QED
  BY <1>1, <1>2 DEF Push

LEMMA TakeUp ==
  ASSUME Types, up # <<>>, up' = Tail(up)
  PROVE  /\ Head(up) \in {"ACK", "INITIALIZE", "UNINITIALIZE", "COM_CLOSE"}
         /\ Head(up) \in {"ACK", "UNINITIALIZE"} => UpStart
         /\ Head(up) = "COM_CLOSE" => UpEnd
         /\ (UpStart' => UpStart) /\ (UpEnd' => UpEnd) /\ (OneInUp => OneInUp')
         /\ OneInUp /\ Head(up) # "INITIALIZE" => ~UpStart' /\ ~UpEnd'
<1>1. /\ 1 \in DOMAIN up /\ Head(up) = up[1] /\ DOMAIN up \subseteq Nat
      /\ Head(up) \in {"ACK", "INITIALIZE", "UNINITIALIZE", "COM_CLOSE"}
  <2>1. up \in Seq({"ACK", "INITIALIZE", "UNINITIALIZE", "COM_CLOSE"}) /\ Len(up) \in Nat \ {0}
        /\ DOMAIN up = 1 .. Len(up)
    BY DEF Types, Shapes
  <2> QED
    BY <2>1
<1>2. \A i \in DOMAIN up' : i + 1 \in DOMAIN up /\ up'[i] = up[i + 1] /\ i + 1 # 1 /\ i \in Nat
  <2>1. up \in Seq({"ACK", "INITIALIZE", "UNINITIALIZE", "COM_CLOSE"}) /\ Len(up) \in Nat \ {0}
        /\ DOMAIN up = 1 .. Len(up)
    BY DEF Types, Shapes
  <2>2. DOMAIN up' = 1 .. Len(up) - 1 /\ \A i \in 1 .. Len(up) - 1 : up'[i] = up[i + 1]
    BY <2>1
  <2> QED
    BY <2>1, <2>2
<1>3. (UpStart' => UpStart) /\ (UpEnd' => UpEnd)
  BY <1>2 DEF UpStart, UpEnd
<1>4. OneInUp => OneInUp'
  BY <1>2 DEF OneInUp
<1>5. OneInUp /\ Head(up) # "INITIALIZE" => ~UpStart' /\ ~UpEnd'
  BY <1>1, <1>2 DEF OneInUp, UpStart, UpEnd
<1> QED
  BY <1>1, <1>3, <1>4, <1>5 DEF UpStart, UpEnd
-----------------------------------------------------------------------------
\* The threads go on, end or lose the queue, and read no more than before.
LEMMA SameThreads ==
  ASSUME threads' = threads
  PROVE  /\ DOMAIN threads' = DOMAIN threads /\ (ThreadEnd' <=> ThreadEnd)
         /\ \A i \in DOMAIN threads :
              /\ Reads(i)' => Reads(i)
              /\ threads'[i].pc = "reading" => threads[i].pc = "reading"
BY DEF ThreadEnd, Reads

LEMMA LetGoReads ==
  ASSUME Types, threads' = LetGo
  PROVE  /\ DOMAIN threads' = DOMAIN threads /\ (ThreadEnd' => ThreadEnd)
         /\ \A i \in DOMAIN threads :
              /\ Reads(i)' => Reads(i)
              /\ threads'[i].pc = "reading" => threads[i].pc = "reading"
<1>1. DOMAIN threads' = DOMAIN threads
  BY DEF LetGo
<1>2. ASSUME NEW i \in DOMAIN threads
      PROVE  /\ threads'[i].pc \in {"exited", threads[i].pc}
             /\ threads'[i].handle = threads[i].handle
  <2>1. threads[i] \in ThreadRecord
    BY DEF Types, Shapes
  <2>2. threads'[i] = IF threads[i].pc = "waiting" THEN [threads[i] EXCEPT !.pc = "exited"] ELSE threads[i]
    BY DEF LetGo
  <2> QED
    BY <2>1, <2>2 DEF ThreadRecord
<1> QED
  BY <1>1, <1>2 DEF ThreadEnd, Reads

LEMMA CloseReads ==
  ASSUME Types, CloseMsgQueues
  PROVE  /\ DOMAIN threads' = DOMAIN threads /\ (ThreadEnd' => ThreadEnd)
         /\ \A i \in DOMAIN threads :
              /\ Reads(i)' => Reads(i) /\ threads[i].pc \in {"reading", "sending"}
              /\ threads'[i].pc = threads[i].pc
<1>1. DOMAIN threads' = DOMAIN threads
  BY DEF CloseMsgQueues
<1>2. ASSUME NEW i \in DOMAIN threads
      PROVE  threads'[i].pc = threads[i].pc /\ threads'[i].handle = FALSE
  <2>1. threads[i] \in ThreadRecord
    BY DEF Types, Shapes
  <2>2. threads'[i] = [threads[i] EXCEPT !.handle = FALSE]
    BY DEF CloseMsgQueues
  <2> QED
    BY <2>1, <2>2 DEF ThreadRecord
<1> QED
  BY <1>1, <1>2 DEF ThreadEnd, Reads

LEMMA ThreadGoToReads ==
  ASSUME Types, NEW i \in DOMAIN threads, NEW pc, ThreadGoTo(i, pc)
  PROVE  /\ DOMAIN threads' = DOMAIN threads
         /\ threads'[i].pc = pc /\ (threads'[i].handle <=> threads[i].handle)
         /\ \A j \in DOMAIN threads : j # i => threads'[j] = threads[j]
<1>1. threads[i] \in ThreadRecord
  BY DEF Types, Shapes
<1> QED
  BY <1>1 DEF Types, Shapes, ThreadRecord

LEMMA CallbackGoToFields ==
  ASSUME Types, callback # NoCallback, NEW pc, CallbackGoTo(pc)
  PROVE  callback'.pc = pc /\ callback'.command = callback.command
BY DEF Types, Shapes

LEMMA CallbackReturnsFields ==
  ASSUME Types, callback # NoCallback, CallbackReturns
  PROVE  /\ callback'.pc = "none" /\ callback'.command = "none"
         /\ DownStart' => DownStart
         /\ DownEnd' => DownEnd
<1>1. down'["receiver"] \in {down["receiver"], "none"}
  BY DEF Types, Shapes, CallbackReturns
<1> QED
  BY <1>1 DEF CallbackReturns, NoCallback, DownStart, DownEnd

LEMMA Fields == NoCallback.pc = "none" /\ NoCallback.command = "none"
BY DEF NoCallback

LEMMA DesktopStays ==
  ASSUME Types, SessionInv, \/ WatchDogTimerEvent \/ CloseDevice \/ OnHciEvent \/ Disconnect \/ EndCommand
  PROVE  SessionStays
<1>1. CASE WatchDogTimerEvent \/ CloseDevice \/ OnHciEvent
  <2>1. UNCHANGED <<main, callback, agentVars, driverVars, up>>
    BY <1>1 DEF WatchDogTimerEvent, CloseDevice, OnHciEvent
  <2>2. down'["receiver"] = down["receiver"]
    BY <1>1 DEF WatchDogTimerEvent, CloseDevice, OnHciEvent, SendCommand, Types, Shapes
  <2> QED
    BY <2>1, <2>2, SameThreads
       DEF SessionStays, UpStart, UpEnd, OneInUp, DownStart, DownEnd, CallStart, CallEnd, Ended
<1>2. CASE Disconnect
  <2>1. UNCHANGED <<main, callback, agentVars, driverVars>> /\ up' = <<>> /\ down'["receiver"] = "none"
    BY <1>2 DEF Disconnect
  <2> QED
    BY <2>1, SameThreads
       DEF SessionStays, UpStart, UpEnd, OneInUp, DownStart, DownEnd, CallStart, CallEnd, Ended
<1>3. CASE EndCommand
  <2>1. /\ main = "waiting" /\ main' = "stopping" /\ threads' = LetGo
        /\ up' = <<>> /\ down'["receiver"] = "none"
        /\ UNCHANGED <<callback, queues, device, lastThread, failed, driverVars>>
    BY <1>3 DEF EndCommand, LetGo
  <2> QED
    BY <2>1, LetGoReads
       DEF SessionStays, UpStart, UpEnd, OneInUp, DownStart, DownEnd, CallStart, CallEnd, Ended
<1> QED
  BY <1>1, <1>2, <1>3

\* The plug-in passes the start or the end on as a command.
LEMMA OnCommandPacketReceivedSession ==
  ASSUME Types, SessionInv, OnCommandPacketReceived PROVE SessionInv'
<1>1. /\ up' = Tail(up) /\ up # <<>> /\ connected /\ down["receiver"] = "none"
      /\ UNCHANGED <<main, callback, agentVars, driverVars>>
  BY DEF OnCommandPacketReceived, Types, DownOK
<1>2. /\ Head(up) \in {"ACK", "INITIALIZE", "UNINITIALIZE", "COM_CLOSE"}
      /\ Head(up) \in {"ACK", "UNINITIALIZE"} => UpStart
      /\ Head(up) = "COM_CLOSE" => UpEnd
      /\ (UpStart' => UpStart) /\ (UpEnd' => UpEnd) /\ OneInUp'
      /\ Head(up) # "INITIALIZE" => ~UpStart' /\ ~UpEnd'
  BY <1>1, TakeUp DEF SessionInv, OneControl
<1>3. /\ DownStart' => Head(up) \in {"ACK", "UNINITIALIZE"}
      /\ DownEnd' => Head(up) = "COM_CLOSE"
  BY <1>1, <1>2, AnswerStep DEF DownStart, DownEnd, Types, Shapes
<1>4. /\ (CallStart' <=> CallStart) /\ (CallEnd' <=> CallEnd) /\ (QueueEnd' <=> QueueEnd)
      /\ (ThreadEnd' <=> ThreadEnd) /\ (NoReader => NoReader') /\ (Ended' <=> Ended)
      /\ ReaderHasMessage' /\ OneReads'
  BY <1>1, SameThreads DEF CallStart, CallEnd, QueueEnd, NoReader, Ended, SessionInv, ReaderHasMessage, OneReads
<1>5. (Starting' => Starting) /\ (Ending' => Ending)
  BY <1>2, <1>3, <1>4 DEF Starting, Ending
<1>6. OneControl'
  BY <1>2, <1>3, <1>4 DEF SessionInv, OneControl
<1>7. FreshStart' /\ UsedOnce' /\ DriverOfDevice'
  BY <1>1, <1>4, <1>5 DEF SessionInv, FreshStart, UsedOnce, DriverOfDevice
<1> QED
  BY <1>4, <1>6, <1>7 DEF SessionInv

\* CommandCallback takes it over from there.
LEMMA CommandCallbackSession ==
  ASSUME Types, SessionInv, NEW t \in DesktopThreads, CommandCallback(t) PROVE SessionInv'
<1>1. /\ callback = NoCallback /\ down[t] \in Commands /\ down' = [down EXCEPT ![t] = "executing"]
      /\ UNCHANGED <<main, agentVars, driverVars, up>>
  BY DEF CommandCallback
<1>2. /\ (UpStart' <=> UpStart) /\ (UpEnd' <=> UpEnd) /\ OneInUp' /\ (QueueEnd' <=> QueueEnd)
      /\ (ThreadEnd' <=> ThreadEnd) /\ (NoReader => NoReader') /\ (Ended' <=> Ended)
      /\ ReaderHasMessage' /\ OneReads' /\ ~CallStart /\ ~CallEnd
  BY <1>1, Fields, SameThreads DEF UpStart, UpEnd, OneInUp, QueueEnd, NoReader, Ended, SessionInv,
     OneControl, ReaderHasMessage, OneReads, CallStart, CallEnd
<1>3. /\ callback'.command = down[t]
      /\ callback'.pc = CASE down[t] = "INITIALIZE" -> "queues"
                          [] down[t] = "UNINITIALIZE" -> "close"
                          [] down[t] = "HCI_DATA" -> "write"
                          [] OTHER -> "reply"
  BY DEF CommandCallback
<1>4. /\ CallStart' => down[t] \in {"ACK", "INITIALIZE"}
      /\ CallEnd' => down[t] = "UNINITIALIZE"
      /\ callback'.pc \notin {"thread", "deactivate"}
  BY <1>3 DEF CallStart, CallEnd
<1>5. CASE t = "receiver"
  <2>1. (CallStart' => DownStart) /\ (CallEnd' => DownEnd) /\ ~DownStart' /\ ~DownEnd'
    BY <1>1, <1>4, <1>5 DEF DownStart, DownEnd, Types, Shapes
  <2>2. (Starting' => Starting) /\ (Ending' => Ending)
    BY <1>2, <2>1 DEF Starting, Ending
  <2>3. OneControl'
    BY <1>2, <2>1 DEF SessionInv, OneControl
  <2>4. FreshStart' /\ UsedOnce' /\ DriverOfDevice'
    BY <1>1, <1>2, <1>4, <2>2 DEF SessionInv, FreshStart, UsedOnce, DriverOfDevice
  <2> QED
    BY <1>2, <2>3, <2>4 DEF SessionInv
<1>6. CASE t # "receiver"
  <2>1. ~CallStart' /\ ~CallEnd'
    BY <1>1, <1>4, <1>6 DEF Types, DownOK, Commands
  <2>2. (DownStart' <=> DownStart) /\ (DownEnd' <=> DownEnd)
    BY <1>1, <1>6 DEF DownStart, DownEnd, Types, Shapes
  <2>3. (Starting' => Starting) /\ (Ending' => Ending)
    BY <1>2, <2>1, <2>2 DEF Starting, Ending
  <2>4. OneControl'
    BY <1>2, <2>1, <2>2 DEF SessionInv, OneControl
  <2>5. FreshStart' /\ UsedOnce' /\ DriverOfDevice'
    BY <1>1, <1>2, <1>4, <2>3 DEF SessionInv, FreshStart, UsedOnce, DriverOfDevice
  <2> QED
    BY <1>2, <2>4, <2>5 DEF SessionInv
<1> QED
  BY <1>5, <1>6

\* The answer to ACK and to UNINITIALIZE starts the next session.
LEMMA CommandCallback_ReplySession ==
  ASSUME Types, SessionInv, CommandCallback_Reply PROVE SessionInv'
<1>1. /\ callback.pc = "reply" /\ callback # NoCallback /\ CallbackReturns
      /\ UNCHANGED <<main, agentVars, driverVars>>
      /\ callback.command \in {"ACK", "PING", "LOGGING", "INITIALIZE", "UNINITIALIZE"}
  BY Fields DEF CommandCallback_Reply, Types, CallbackOK
<1>2. /\ callback'.pc = "none" /\ ~CallStart' /\ ~CallEnd' /\ ~CallEnd
      /\ (DownStart' => DownStart) /\ (DownEnd' => DownEnd)
  BY <1>1, CallbackReturnsFields DEF CallStart, CallEnd
<1>3. /\ (QueueEnd' <=> QueueEnd) /\ (ThreadEnd' <=> ThreadEnd) /\ (NoReader => NoReader')
      /\ (Ended' <=> Ended) /\ ReaderHasMessage' /\ OneReads'
  BY <1>1, SameThreads DEF QueueEnd, NoReader, Ended, SessionInv, ReaderHasMessage, OneReads
<1>4. /\ UpStart' => UpStart \/ (CallStart /\ callback.command \in {"ACK", "UNINITIALIZE"})
      /\ UpEnd' => UpEnd
      /\ OneInUp'
  <2>1. CASE callback.command \in {"PING", "LOGGING"}
    BY <2>1 DEF CommandCallback_Reply, UpStart, UpEnd, OneInUp, SessionInv, OneControl
  <2>2. CASE callback.command \in {"ACK", "UNINITIALIZE"}
    <3>1. CallStart /\ Push(callback.command)
      BY <1>1, <2>2 DEF CallStart, CommandCallback_Reply
    <3>2. ~UpStart /\ ~UpEnd /\ OneInUp
      BY <3>1 DEF SessionInv, OneControl
    <3> QED
      BY <2>2, <3>1, <3>2, PushUp
  <2>3. CASE callback.command = "INITIALIZE"
    <3>1. Push("INITIALIZE") /\ OneInUp
      BY <2>3 DEF CommandCallback_Reply, SessionInv, OneControl
    <3> QED
      BY <3>1, PushUp
  <2> QED
    BY <1>1, <2>1, <2>2, <2>3
<1>5. (Starting' => Starting) /\ (Ending' => Ending)
  BY <1>2, <1>3, <1>4 DEF Starting, Ending
<1>6. OneControl'
  BY <1>2, <1>3, <1>4 DEF SessionInv, OneControl
<1>7. FreshStart' /\ UsedOnce' /\ DriverOfDevice'
  BY <1>1, <1>2, <1>3, <1>5 DEF SessionInv, FreshStart, UsedOnce, DriverOfDevice
<1> QED
  BY <1>3, <1>6, <1>7 DEF SessionInv

LEMMA CallbackStays ==
  ASSUME Types, SessionInv,
         \/ ReadDesktopWriteDevicePacket \/ CreateMsgQueues \/ CreateMsgQueues_Failed
         \/ ActivateDriver_Failed \/ CreateWorkingThread_Failed
  PROVE  SessionStays
<1>1. CASE ReadDesktopWriteDevicePacket
  <2>1. /\ callback # NoCallback /\ CallbackReturns
        /\ UNCHANGED <<main, agentVars, registered, used, stack, toAgent, up>>
    BY <1>1, Fields DEF ReadDesktopWriteDevicePacket
  <2>2. /\ callback'.pc = "none" /\ callback'.command = "none"
        /\ (DownStart' => DownStart) /\ (DownEnd' => DownEnd)
    BY <2>1, CallbackReturnsFields
  <2> QED
    BY <2>1, <2>2, SameThreads DEF SessionStays, UpStart, UpEnd, OneInUp, CallStart, CallEnd, Ended
<1>2. CASE CreateMsgQueues \/ CreateMsgQueues_Failed \/ ActivateDriver_Failed \/ CreateWorkingThread_Failed
  <2>1. /\ callback # NoCallback /\ callback.pc \in {"queues", "driver", "thread"}
        /\ UNCHANGED <<main, threads, driverVars, up, down>>
    BY <1>2, Fields DEF CreateMsgQueues, CreateMsgQueues_Failed, ActivateDriver_Failed,
       CreateWorkingThread_Failed
  <2>2. callback.command = "INITIALIZE"
    BY <2>1 DEF Types, CallbackOK
  <2>3. callback'.command = "INITIALIZE" /\ callback'.pc \in {"driver", "reply"}
    BY <1>2, <2>1, <2>2, CallbackGoToFields DEF CreateMsgQueues, CreateMsgQueues_Failed,
       ActivateDriver_Failed, CreateWorkingThread_Failed
  <2>4. CallStart' => CallStart
    BY <1>2, <2>1, <2>3, <2>2, CallbackGoToFields DEF CallStart, CreateMsgQueues,
       CreateMsgQueues_Failed, ActivateDriver_Failed, CreateWorkingThread_Failed
  <2>5. device' = device
    <3>1. callback.pc = "driver" => device = 0
      BY DEF SessionInv, FreshStart, Starting, CallStart
    <3> QED
      BY <1>2, <3>1 DEF CreateMsgQueues, CreateMsgQueues_Failed, ActivateDriver_Failed,
         CreateWorkingThread_Failed
  <2> QED
    BY <2>1, <2>3, <2>4, <2>5, SameThreads
       DEF SessionStays, UpStart, UpEnd, OneInUp, DownStart, DownEnd, CallEnd, Ended
<1> QED
  BY <1>1, <1>2

\* The driver is registered where none was: the session has started.
LEMMA ActivateDriverSession ==
  ASSUME Types, SessionInv, ActivateDriver PROVE SessionInv'
<1>1. /\ callback.pc = "driver" /\ callback # NoCallback /\ callback.command = "INITIALIZE"
      /\ UNCHANGED <<main, threads, stack, toAgent, up, down>> /\ registered' = registered \cup {device'}
      /\ ~used'
  BY Fields DEF ActivateDriver, Types, CallbackOK
<1>2. callback'.pc = "thread" /\ callback'.command = "INITIALIZE"
  BY <1>1, CallbackGoToFields DEF ActivateDriver
<1>3. CallStart /\ ~CallEnd /\ ~CallStart' /\ ~CallEnd'
  BY <1>1, <1>2 DEF CallStart, CallEnd
<1>4. device = 0 /\ NoReader /\ ~Ending /\ ~UpStart /\ ~DownStart
  BY <1>3 DEF SessionInv, FreshStart, OneControl, Starting, Ending
<1>5. device' # 0
  <2> DEFINE S == Indexes \ registered
  <2>1. S \in SUBSET Indexes /\ S # {} /\ device' = CHOOSE i \in S : \A j \in S : i <= j
    BY DEF ActivateDriver, Types, Shapes
  <2> QED
    BY <2>1, FreeIndex DEF Indexes
<1>6. ~Starting' /\ ~Ending' /\ OneInUp' /\ NoReader' /\ (Ended' <=> Ended)
  BY <1>1, <1>3, <1>4, SameThreads
     DEF Starting, Ending, UpStart, UpEnd, DownStart, DownEnd, QueueEnd, OneInUp, NoReader, Ended,
         SessionInv, OneControl
<1>7. OneControl' /\ FreshStart'
  BY <1>2, <1>5, <1>6 DEF OneControl, FreshStart, Starting, Ending
<1>8. UsedOnce' /\ ReaderHasMessage' /\ OneReads'
  BY <1>1, <1>5, <1>6, SameThreads DEF UsedOnce, ReaderHasMessage, OneReads, SessionInv
<1>9. DriverOfDevice'
  BY <1>1, <1>4, <1>5, <1>6 DEF DriverOfDevice, SessionInv, Types, CallbackOK, Ended
<1> QED
  BY <1>7, <1>8, <1>9 DEF SessionInv

\* Its WorkingThread is the only one that reads.
LEMMA CreateWorkingThreadSession ==
  ASSUME Types, SessionInv, CreateWorkingThread PROVE SessionInv'
<1>1. /\ callback.pc = "thread" /\ callback # NoCallback /\ callback.command = "INITIALIZE"
      /\ threads' = Append(threads, [pc |-> "looping", handle |-> TRUE])
      /\ UNCHANGED <<main, device, driverVars, up, down>>
  BY Fields DEF CreateWorkingThread, Types, CallbackOK
<1>2. callback'.pc = "reply" /\ callback'.command = "INITIALIZE"
  BY <1>1, CallbackGoToFields DEF CreateWorkingThread
<1>3. NoReader /\ device # 0
  BY <1>1 DEF SessionInv, FreshStart
<1>4. /\ ~CallStart' /\ ~CallEnd' /\ ~CallStart /\ ~CallEnd
      /\ (UpStart' <=> UpStart) /\ (UpEnd' <=> UpEnd) /\ (OneInUp' <=> OneInUp)
      /\ (DownStart' <=> DownStart) /\ (DownEnd' <=> DownEnd) /\ (QueueEnd' <=> QueueEnd)
      /\ (Ended' <=> Ended)
  BY <1>1, <1>2 DEF UpStart, UpEnd, OneInUp, DownStart, DownEnd, CallStart, CallEnd, QueueEnd, Ended
<1>5. /\ DOMAIN threads' = DOMAIN threads \cup {Len(threads) + 1}
      /\ threads'[Len(threads) + 1].pc = "looping"
      /\ \A i \in DOMAIN threads : threads'[i] = threads[i]
  BY <1>1 DEF Types, Shapes
<1>6. \A i \in DOMAIN threads' : Reads(i)' => i = Len(threads) + 1
  BY <1>3, <1>5 DEF NoReader, Reads
<1>7. ThreadEnd' <=> ThreadEnd
  BY <1>5 DEF ThreadEnd
<1>8. ~Starting
  BY <1>3 DEF SessionInv, FreshStart
<1>9. ~Starting' /\ (Ending' => Ending)
  BY <1>4, <1>7, <1>8 DEF Starting, Ending
<1>10. OneControl'
  BY <1>4, <1>7 DEF SessionInv, OneControl
<1>11. FreshStart' /\ UsedOnce' /\ DriverOfDevice'
  BY <1>1, <1>2, <1>4, <1>9 DEF SessionInv, FreshStart, UsedOnce, DriverOfDevice
<1>12. ReaderHasMessage'
  BY <1>1, <1>4, <1>5 DEF SessionInv, ReaderHasMessage
<1>13. OneReads'
  BY <1>6 DEF OneReads
<1> QED
  BY <1>10, <1>11, <1>12, <1>13 DEF SessionInv

\* The message that ends the session has been taken by the one thread that
\* reads: when the queues are closed no thread is on its way with another.
LEMMA CloseSession ==
  ASSUME Types, SessionInv, CommandCallback_Uninitialize, callback.pc = "close" PROVE SessionInv'
<1>1. /\ callback # NoCallback /\ callback.command = "UNINITIALIZE" /\ ~Ended
      /\ CloseMsgQueues /\ CallbackGoTo("deactivate")
      /\ UNCHANGED <<main, device, driverVars, up, down>>
  BY Fields DEF CommandCallback_Uninitialize, CloseMsgQueues, Types, CallbackOK, Ended
<1>2. callback'.pc = "deactivate" /\ callback'.command = "UNINITIALIZE"
  BY <1>1, CallbackGoToFields
<1>3. CallEnd /\ CallEnd' /\ ~CallStart /\ ~CallStart'
  BY <1>1, <1>2 DEF CallStart, CallEnd
<1>4. ~QueueEnd /\ ~ThreadEnd /\ used
  BY <1>3 DEF SessionInv, OneControl, UsedOnce, Ending
<1>5. toAgent = "none"
  BY <1>4 DEF SessionInv, UsedOnce, QueueEnd, Types, Shapes
<1>6. \A i \in DOMAIN threads : threads[i].pc \notin {"reading", "sending"}
  BY <1>1, <1>4, <1>5 DEF SessionInv, ReaderHasMessage, ThreadEnd
<1>7. /\ NoReader' /\ ~ThreadEnd' /\ DOMAIN threads' = DOMAIN threads
      /\ \A i \in DOMAIN threads : threads'[i].pc = threads[i].pc
  BY <1>1, <1>4, <1>6, CloseReads DEF NoReader
<1>8. /\ (UpStart' <=> UpStart) /\ (UpEnd' <=> UpEnd) /\ (OneInUp' <=> OneInUp)
      /\ (DownStart' <=> DownStart) /\ (DownEnd' <=> DownEnd) /\ (QueueEnd' <=> QueueEnd)
      /\ (Ended' <=> Ended)
  BY <1>1 DEF UpStart, UpEnd, OneInUp, DownStart, DownEnd, QueueEnd, Ended
<1>9. (Starting' => Starting) /\ (Ending' => Ending)
  BY <1>3, <1>4, <1>7, <1>8 DEF Starting, Ending
<1>10. OneControl'
  BY <1>3, <1>4, <1>7, <1>8 DEF SessionInv, OneControl
<1>11. FreshStart' /\ UsedOnce' /\ DriverOfDevice'
  BY <1>1, <1>2, <1>7, <1>8, <1>9 DEF SessionInv, FreshStart, UsedOnce, DriverOfDevice
<1>12. ReaderHasMessage' /\ OneReads'
  BY <1>6, <1>7 DEF ReaderHasMessage, OneReads, NoReader
<1> QED
  BY <1>10, <1>11, <1>12 DEF SessionInv

\* The device manager lets the driver go, and with it what is in its queue.
LEMMA DeactivateDriverStep ==
  ASSUME Types, SessionInv, DeactivateDriver
  PROVE  /\ registered' = {} /\ device' = 0 /\ toAgent' = "none"
         /\ stack' \in {"closed", "stale"}
         /\ UNCHANGED <<queues, threads, lastThread, failed, used>>
<1>1. CASE device = 0
  <2>1. UNCHANGED <<driverVars, queues, threads, lastThread, failed>> /\ device' = 0
    BY <1>1 DEF DeactivateDriver
  <2>2. registered = {} /\ toAgent = "none" /\ stack \notin {"opening", "open", "closing"}
    BY <1>1 DEF SessionInv, DriverOfDevice, UsedOnce
  <2> QED
    BY <1>1, <2>1, <2>2 DEF DeactivateDriver, SessionInv, UsedOnce, Types, Shapes
<1>2. CASE device # 0
  BY <1>2 DEF DeactivateDriver, SessionInv, DriverOfDevice
<1> QED
  BY <1>1, <1>2

LEMMA DeactivateSession ==
  ASSUME Types, SessionInv, CommandCallback_Uninitialize, callback.pc = "deactivate" PROVE SessionInv'
<1>1. /\ callback # NoCallback /\ callback.command = "UNINITIALIZE"
      /\ DeactivateDriver /\ CallbackGoTo("reply") /\ UNCHANGED <<main, up, down>>
  BY Fields DEF CommandCallback_Uninitialize, Types, CallbackOK
<1>2. callback'.pc = "reply" /\ callback'.command = "UNINITIALIZE"
  BY <1>1, CallbackGoToFields
<1>3. /\ registered' = {} /\ device' = 0 /\ toAgent' = "none" /\ stack' \in {"closed", "stale"}
      /\ UNCHANGED <<threads, used>>
  BY <1>1, DeactivateDriverStep
<1>4. CallEnd /\ ~CallEnd' /\ ~QueueEnd'
  BY <1>1, <1>2, <1>3 DEF CallEnd, QueueEnd
<1>5. ~UpStart /\ ~UpEnd /\ ~DownStart /\ ~DownEnd /\ ~ThreadEnd /\ NoReader
  BY <1>4 DEF SessionInv, OneControl, FreshStart
<1>6. /\ ~UpStart' /\ ~UpEnd' /\ ~DownStart' /\ ~DownEnd' /\ ~ThreadEnd' /\ NoReader' /\ OneInUp'
  BY <1>1, <1>3, <1>5, SameThreads
     DEF UpStart, UpEnd, DownStart, DownEnd, OneInUp, NoReader, SessionInv, OneControl
<1>7. OneControl' /\ ~Ending'
  BY <1>4, <1>6 DEF OneControl, Ending
<1>8. FreshStart' /\ UsedOnce' /\ DriverOfDevice'
  BY <1>2, <1>3, <1>6, <1>7 DEF FreshStart, UsedOnce, DriverOfDevice
<1>9. ReaderHasMessage' /\ OneReads'
  BY <1>6 DEF ReaderHasMessage, OneReads, NoReader, Reads
<1> QED
  BY <1>7, <1>8, <1>9 DEF SessionInv

LEMMA WinMainSession ==
  ASSUME Types, SessionInv, WinMain \/ WatchDogThread PROVE SessionInv'
<1>1. CASE WinMain_Quit \/ WinMain_StopCommandHandler \/ WinMain_Exit \/ WatchDogThread
  <2>1. UNCHANGED <<callback, agentVars, driverVars, up, down>> /\ (Ended' <=> Ended)
    BY <1>1 DEF WinMain_Quit, WinMain_StopCommandHandler, WinMain_Exit, WatchDogThread, Ended
  <2>2. SessionStays
    BY <2>1, SameThreads
       DEF SessionStays, UpStart, UpEnd, OneInUp, DownStart, DownEnd, CallStart, CallEnd
  <2> QED
    BY <2>2, StayingKeepsSession
<1>2. CASE WinMain_Uninitialize /\ main = "closing"
  <2>1. CloseMsgQueues /\ main' = "deactivating" /\ UNCHANGED <<callback, device, driverVars, up, down>>
    BY <1>2 DEF WinMain_Uninitialize, CloseMsgQueues
  <2>2. SessionStays
    BY <1>2, <2>1, CloseReads
       DEF SessionStays, UpStart, UpEnd, OneInUp, DownStart, DownEnd, CallStart, CallEnd, Ended
  <2> QED
    BY <2>2, StayingKeepsSession
<1>3. CASE WinMain_Uninitialize /\ main = "deactivating"
  <2>1. DeactivateDriver /\ main' = "pulsing" /\ UNCHANGED <<callback, up, down>>
    BY <1>3 DEF WinMain_Uninitialize
  <2>2. /\ registered' = {} /\ device' = 0 /\ toAgent' = "none" /\ stack' \in {"closed", "stale"}
        /\ UNCHANGED <<threads, used>>
    BY <2>1, DeactivateDriverStep
  <2>3. callback.pc = "none"
    BY <1>3, Fields DEF Types, CallbackOK
  <2>4. /\ (UpStart' <=> UpStart) /\ (UpEnd' <=> UpEnd) /\ (OneInUp' <=> OneInUp)
        /\ (DownStart' <=> DownStart) /\ (DownEnd' <=> DownEnd) /\ ~QueueEnd'
        /\ (CallStart' <=> CallStart) /\ (CallEnd' <=> CallEnd) /\ (ThreadEnd' <=> ThreadEnd)
        /\ (NoReader => NoReader') /\ OneReads' /\ Ended'
    BY <2>1, <2>2, SameThreads DEF UpStart, UpEnd, OneInUp, DownStart, DownEnd, CallStart, CallEnd,
       QueueEnd, NoReader, OneReads, SessionInv, Ended
  <2>5. (Starting' => Starting) /\ (Ending' => Ending)
    BY <2>4 DEF Starting, Ending
  <2>6. OneControl'
    BY <2>4 DEF SessionInv, OneControl
  <2>7. FreshStart' /\ UsedOnce' /\ DriverOfDevice' /\ ReaderHasMessage'
    BY <2>1, <2>2, <2>3, <2>4, <2>5 DEF SessionInv, FreshStart, UsedOnce, DriverOfDevice, ReaderHasMessage
  <2> QED
    BY <2>4, <2>6, <2>7 DEF SessionInv
<1>4. CASE WinMain_Pulse
  <2>1. /\ main = "pulsing" /\ main' \in {"exited", "joining"} /\ threads' \in {threads, LetGo}
        /\ UNCHANGED <<callback, device, driverVars, up, down>>
    BY <1>4 DEF WinMain_Pulse, LetGo
  <2>2. SessionStays
    BY <2>1, SameThreads, LetGoReads
       DEF SessionStays, UpStart, UpEnd, OneInUp, DownStart, DownEnd, CallStart, CallEnd, Ended
  <2> QED
    BY <2>2, StayingKeepsSession
<1> QED
  BY <1>1, <1>2, <1>3, <1>4 DEF WinMain, WinMain_Uninitialize

\* One thread reads: the others are untouched by its step.
LEMMA ThreadSession ==
  ASSUME Types, SessionInv, NEW i \in DOMAIN threads, Threads(i) PROVE SessionInv'
<1>1. UNCHANGED <<main, callback, device, registered, used, stack, down>> /\ (Ended' <=> Ended)
  BY DEF Threads, WorkingThread_Wait, ReadDeviceWriteDesktop, SendToDesktop, Ended
<1>2. /\ (DownStart' <=> DownStart) /\ (DownEnd' <=> DownEnd)
      /\ (CallStart' <=> CallStart) /\ (CallEnd' <=> CallEnd)
  BY <1>1 DEF DownStart, DownEnd, CallStart, CallEnd
<1>3. ASSUME NEW pc, ThreadGoTo(i, pc), Reads(i)' => Reads(i)
      PROVE  /\ (NoReader => NoReader') /\ OneReads'
             /\ DOMAIN threads' = DOMAIN threads /\ threads'[i].pc = pc
             /\ \A j \in DOMAIN threads : j # i => threads'[j] = threads[j]
  <2>1. /\ DOMAIN threads' = DOMAIN threads /\ threads'[i].pc = pc
        /\ \A j \in DOMAIN threads : j # i => threads'[j] = threads[j]
    BY <1>3, ThreadGoToReads
  <2>2. \A j \in DOMAIN threads : Reads(j)' => Reads(j)
    BY <1>3, <2>1 DEF Reads
  <2> QED
    BY <2>1, <2>2 DEF NoReader, OneReads, SessionInv
<1>4. CASE WorkingThread_Wait(i)
  <2>1. PICK pc \in {"waiting", "failing", "exited", "reading"} :
          /\ ThreadGoTo(i, pc) /\ threads[i].pc \in {"looping", "waiting"}
          /\ pc \in {"waiting", "reading"} => threads[i].handle
          /\ pc = "reading" => toAgent # "none"
    BY <1>4 DEF WorkingThread_Wait
  <2>2. Reads(i)' => Reads(i)
    BY <2>1, ThreadGoToReads DEF Reads
  <2>3. UNCHANGED <<toAgent, up>>
    BY <1>4 DEF WorkingThread_Wait
  <2>4. /\ (UpStart' <=> UpStart) /\ (UpEnd' <=> UpEnd) /\ (OneInUp' <=> OneInUp)
        /\ (QueueEnd' <=> QueueEnd)
    BY <2>3 DEF UpStart, UpEnd, OneInUp, QueueEnd
  <2>5. ThreadEnd' => ThreadEnd
    BY <1>3, <2>1, <2>2 DEF ThreadEnd
  <2>6. (Starting' => Starting) /\ (Ending' => Ending)
    BY <1>2, <2>4, <2>5 DEF Starting, Ending
  <2>7. OneControl'
    BY <1>2, <2>4, <2>5 DEF SessionInv, OneControl
  <2>8. FreshStart' /\ UsedOnce' /\ DriverOfDevice' /\ OneReads'
    BY <1>1, <1>3, <2>1, <2>2, <2>3, <2>6 DEF SessionInv, FreshStart, UsedOnce, DriverOfDevice
  <2>9. ReaderHasMessage'
    BY <1>1, <1>3, <2>1, <2>2, <2>3 DEF SessionInv, ReaderHasMessage
  <2> QED
    BY <2>7, <2>8, <2>9 DEF SessionInv
<1>5. CASE ReadDeviceWriteDesktop(i)
  <2>1. PICK pc \in {"sending", "looping"} :
          /\ ThreadGoTo(i, pc) /\ threads[i].pc = "reading" /\ UNCHANGED up
          /\ pc = "sending" => toAgent = "COM_CLOSE" /\ toAgent' = "none"
          /\ toAgent' \in {toAgent, "none"}
    BY <1>5 DEF ReadDeviceWriteDesktop
  <2>2. Reads(i) /\ \A j \in DOMAIN threads : threads[j].pc = "reading" => j = i
    BY <2>1 DEF Reads, SessionInv, OneReads
  <2>3. /\ (UpStart' <=> UpStart) /\ (UpEnd' <=> UpEnd) /\ (OneInUp' <=> OneInUp)
        /\ (QueueEnd' => QueueEnd)
    BY <2>1 DEF UpStart, UpEnd, OneInUp, QueueEnd
  <2>4. ThreadEnd' => ThreadEnd \/ (QueueEnd /\ ~QueueEnd')
    BY <1>3, <2>1, <2>2 DEF ThreadEnd, QueueEnd
  <2>5. (Starting' => Starting) /\ (Ending' => Ending)
    BY <1>2, <2>3, <2>4 DEF Starting, Ending
  <2>6. OneControl'
    BY <1>2, <2>3, <2>4 DEF SessionInv, OneControl
  <2>7. FreshStart' /\ DriverOfDevice' /\ OneReads'
    BY <1>1, <1>3, <2>1, <2>2, <2>5 DEF SessionInv, FreshStart, DriverOfDevice
  <2>8. UsedOnce'
    BY <1>1, <2>1, <2>5 DEF SessionInv, UsedOnce
  <2>9. ReaderHasMessage'
    BY <1>3, <2>1, <2>2 DEF ReaderHasMessage
  <2> QED
    BY <2>6, <2>7, <2>8, <2>9 DEF SessionInv
<1>6. CASE SendToDesktop(i)
  <2>1. ThreadGoTo(i, "looping") /\ threads[i].pc = "sending" /\ Push("COM_CLOSE") /\ UNCHANGED toAgent
    BY <1>6 DEF SendToDesktop
  <2>2. Reads(i) /\ ThreadEnd /\ \A j \in DOMAIN threads : threads[j].pc = "sending" => j = i
    BY <2>1 DEF Reads, SessionInv, OneReads, ThreadEnd
  <2>3. ~UpStart /\ ~UpEnd /\ ~DownStart /\ ~DownEnd /\ ~CallStart /\ ~CallEnd /\ ~QueueEnd /\ OneInUp
    BY <2>2 DEF SessionInv, OneControl
  <2>4. ~UpStart' /\ OneInUp' /\ ~QueueEnd'
    BY <2>1, <2>3, PushUp DEF QueueEnd
  <2>5. ~ThreadEnd'
    BY <1>3, <2>1, <2>2 DEF ThreadEnd
  <2>6. ~Starting' /\ Ending
    BY <1>2, <2>2, <2>3, <2>4 DEF Starting, Ending
  <2>7. OneControl'
    BY <1>2, <2>3, <2>4, <2>5 DEF OneControl
  <2>8. FreshStart' /\ DriverOfDevice' /\ OneReads'
    BY <1>1, <1>3, <2>1, <2>2, <2>6 DEF SessionInv, FreshStart, DriverOfDevice
  <2>9. UsedOnce' /\ ReaderHasMessage'
    BY <1>1, <1>3, <2>1, <2>2, <2>6 DEF SessionInv, UsedOnce, ReaderHasMessage
  <2> QED
    BY <2>7, <2>8, <2>9 DEF SessionInv
<1> QED
  BY <1>4, <1>5, <1>6 DEF Threads

\* The stack opens a driver once, and closes what it has opened: when it closes
\* one nothing else ends the session, and nothing has started the next.
LEMMA StackSession ==
  ASSUME Types, SessionInv, ~Impatient,
         HCI_OpenConnection \/ HCI_CloseConnection \/ BTE_Open \/ BTE_Close \/ BTE_Read
  PROVE  SessionInv'
<1>1. UNCHANGED <<main, callback, agentVars, registered, up, down>>
  BY DEF HCI_OpenConnection, HCI_CloseConnection, BTE_Open, BTE_Close, BTE_Read, StackUnchanged
<1>2. /\ (UpStart' <=> UpStart) /\ (UpEnd' <=> UpEnd) /\ (OneInUp' <=> OneInUp)
      /\ (DownStart' <=> DownStart) /\ (DownEnd' <=> DownEnd)
      /\ (CallStart' <=> CallStart) /\ (CallEnd' <=> CallEnd)
      /\ (ThreadEnd' <=> ThreadEnd) /\ (NoReader' <=> NoReader) /\ (Starting' <=> Starting)
      /\ (OneReads' <=> OneReads) /\ (Ended' <=> Ended)
  BY <1>1 DEF UpStart, UpEnd, OneInUp, DownStart, DownEnd, CallStart, CallEnd, ThreadEnd, NoReader,
     Reads, OneReads, Starting, Ended
<1>3. FreshStart' /\ DriverOfDevice' /\ OneReads'
  BY <1>1, <1>2 DEF SessionInv, FreshStart, DriverOfDevice
<1>4. ReaderHasMessage'
  <2>1. toAgent' = toAgent \/ toAgent' # "none"
    BY DEF HCI_OpenConnection, HCI_CloseConnection, BTE_Open, BTE_Close, BTE_Read
  <2> QED
    BY <1>1, <1>2, <2>1 DEF SessionInv, ReaderHasMessage
<1>5. CASE HCI_OpenConnection \/ HCI_CloseConnection \/ BTE_Open \/ BTE_Read
  <2>1. QueueEnd' => QueueEnd
    BY <1>5 DEF QueueEnd, HCI_OpenConnection, HCI_CloseConnection, BTE_Open, BTE_Read
  <2>2. OneControl' /\ (Ending' => Ending)
    BY <1>2, <2>1 DEF SessionInv, OneControl, Ending
  <2>3. registered # {} => device # 0
    BY DEF SessionInv, DriverOfDevice
  <2>4. UsedOnce'
    BY <1>1, <1>5, <2>2, <2>3 DEF SessionInv, UsedOnce, HCI_OpenConnection, HCI_CloseConnection,
       BTE_Open, BTE_Read
  <2> QED
    BY <1>3, <1>4, <2>2, <2>4 DEF SessionInv
<1>6. CASE BTE_Close
  <2>1. stack = "closing" /\ stack' = "closed" /\ toAgent' = "COM_CLOSE" /\ used'
    BY <1>6 DEF BTE_Close
  <2>2. device # 0 /\ ~used
    BY <2>1 DEF SessionInv, UsedOnce
  <2>3. ~Starting /\ ~Ending
    BY <2>2 DEF SessionInv, FreshStart, UsedOnce
  <2>4. OneControl'
    BY <1>2, <2>3 DEF SessionInv, OneControl, Starting, Ending
  <2>5. UsedOnce'
    BY <1>1, <2>1, <2>2 DEF UsedOnce
  <2> QED
    BY <1>3, <1>4, <2>4, <2>5 DEF SessionInv
<1> QED
  BY <1>5, <1>6

LEMMA NextSession == ASSUME ~Impatient PROVE Types /\ SessionInv /\ [Next]_vars => SessionInv'
<1> SUFFICES ASSUME Types, SessionInv, [Next]_vars PROVE SessionInv'
  OBVIOUS
<1>1. CASE Desktop \/ OnHciEvent \/ Disconnect \/ EndCommand
  BY <1>1, DesktopStays, StayingKeepsSession, OnCommandPacketReceivedSession DEF Desktop
<1>2. CASE Callback
  <2>1. CASE CommandCallback_Uninitialize
    BY <2>1, CloseSession, DeactivateSession DEF CommandCallback_Uninitialize
  <2> QED
    BY <1>2, <2>1, CommandCallbackSession, CommandCallback_ReplySession, CallbackStays,
       StayingKeepsSession, ActivateDriverSession, CreateWorkingThreadSession DEF Callback
<1>3. CASE Initialize_Failed
  BY <1>3, CallbackStays, StayingKeepsSession DEF Initialize_Failed
<1>4. CASE WinMain \/ WatchDogThread
  BY <1>4, WinMainSession
<1>5. ASSUME NEW i \in DOMAIN threads, Threads(i) PROVE SessionInv'
  BY <1>5, ThreadSession
<1>6. CASE HCI_OpenConnection \/ HCI_CloseConnection \/ BTE_Open \/ BTE_Close \/ BTE_Read
  BY <1>6, StackSession
<1>7. CASE UNCHANGED vars
  <2>1. SessionStays
    BY <1>7 DEF vars, SessionStays, UpStart, UpEnd, OneInUp, DownStart, DownEnd, CallStart, CallEnd,
       ThreadEnd, Reads, Ended
  <2> QED
    BY <2>1, StayingKeepsSession
<1> QED
  BY <1>1, <1>2, <1>3, <1>4, <1>5, <1>6, <1>7 DEF Next

LEMMA SessionCorrect == ASSUME ~Impatient PROVE Spec => []SessionInv
<1>1. Types /\ SessionInv /\ [Next]_vars => SessionInv'
  BY NextSession
<1> QED
  BY <1>1, InitSession, TypesCorrect, PTL DEF Spec

(* While the stack opens a driver instance once: the instances that are     *)
(* registered are those the agent can still deregister, however many        *)
(* sessions there were and whichever step of Initialize failed, and none is *)
(* left when the agent has uninitialised itself.                            *)
THEOREM OneDriverCorrect == ASSUME ~Impatient PROVE Spec => []OneDriver
<1>1. SessionInv => OneDriver
  BY DEF SessionInv, DriverOfDevice, OneDriver, Ended
<1>2. Spec => []SessionInv
  BY SessionCorrect
<1> QED
  BY <1>1, <1>2, PTL

(* And two WorkingThreads never read the messages of the device at a time:  *)
(* the thread of a finished session has lost its queue before the next one  *)
(* starts, and has sent on what it had taken.                               *)
THEOREM OneReaderCorrect == ASSUME ~Impatient PROVE Spec => []OneReader
<1>1. SessionInv => OneReader
  <2> SUFFICES ASSUME OneReads PROVE OneReader
    BY DEF SessionInv
  <2> DEFINE S == {i \in DOMAIN threads : Reads(i)}
  <2>1. CASE S = {}
    BY <2>1, FS_EmptySet DEF OneReader
  <2>2. ASSUME NEW i \in S PROVE Cardinality(S) = 1
    <3>1. S = {i}
      BY <2>2 DEF OneReads
    <3> QED
      BY <3>1, FS_Singleton
  <2> QED
    BY <2>1, <2>2 DEF OneReader
<1>2. Spec => []SessionInv
  BY SessionCorrect
<1> QED
  BY <1>1, <1>2, PTL
=============================================================================
