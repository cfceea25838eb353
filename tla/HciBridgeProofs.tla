--------------------------- MODULE HciBridgeProofs ---------------------------
(* Proofs about HciBridge, for any number of threads, packets and events.  *)
EXTENDS HciBridge, TLAPS

USE DEF Success, Failure, Receiver, Timer, Sent, stackVars, agentVars, desktopVars

LEMMA ThreadNames ==
  Receiver \in DesktopThreads /\ Timer \in DesktopThreads /\ Listeners \subseteq DesktopThreads
BY DEF DesktopThreads

(* The types of the variables hold in every reachable state.               *)
LEMMA InitType == Init => TypeOK
<1> SUFFICES ASSUME Init PROVE TypeOK
  OBVIOUS
<1>1. write \in [Writers -> [pc : {"idle", "writing", "waiting"},
                            packet : Packets \cup {None}, ret : Results \cup {None}]]
  BY DEF Init
<1>2. up \in Seq(Packets \cup {None})
  BY DEF Init
<1>3. /\ down \in [DesktopThreads -> Commands \cup {None, Executing}]
      /\ listener \in [Listeners -> Events \cup {None}]
  BY DEF Init
<1>4. adapter \in [packet : Packets \cup {None}, result : Results \cup {None}, parity : {0, 1}]
  BY DEF Init
<1> QED
  BY <1>1, <1>2, <1>3, <1>4 DEF Init, TypeOK

(* ProcessCommand of one thread leaves the others' commands alone.         *)
LEMMA SendType ==
  ASSUME TypeOK, NEW t \in DesktopThreads, NEW c \in Commands, SendCommand(t, c)
  PROVE  down' \in [DesktopThreads -> Commands \cup {None, Executing}]
BY DEF TypeOK, SendCommand

LEMMA NextType == TypeOK /\ [Next]_vars => TypeOK'
<1> SUFFICES ASSUME TypeOK, [Next]_vars PROVE TypeOK'
  OBVIOUS
<1> USE DEF TypeOK
<1>1. CASE BTE_Open
  BY <1>1 DEF BTE_Open, Messages
<1>2. ASSUME NEW w \in Writers, NEW p \in Packets, HCI_WritePacket(w, p) PROVE TypeOK'
  BY <1>2 DEF HCI_WritePacket
<1>3. ASSUME NEW w \in Writers, WritePacket(w) PROVE TypeOK'
  BY <1>3 DEF WritePacket, Serialized, Messages
<1>4. ASSUME NEW w \in Writers, BTE_Write_Return(w) PROVE TypeOK'
  BY <1>4 DEF BTE_Write_Return
<1>5. CASE HCI_ReadPacket
  BY <1>5 DEF HCI_ReadPacket
<1>6. CASE WorkingThread_Read
  BY <1>6 DEF WorkingThread_Read
<1>7. CASE WorkingThread_Send
  <2>1. CASE worker.type = "HCI_DATA_PACKET"
    <3>1. worker.body \in Packets \cup {None}
      BY <1>7, <2>1, BridgeAssumption DEF WorkingThread_Send, Messages, Message, DataMessage
    <3>2. PICK parameter \in Packets \cup {None} : cmd' = parameter /\ PushCommand(parameter)
      BY <1>7, <2>1, <3>1 DEF WorkingThread_Send, SendCommandBytes
    <3>3. up' \in Seq(Packets \cup {None})
      BY <3>2 DEF PushCommand
    <3> QED
      BY <1>7, <3>2, <3>3 DEF WorkingThread_Send
  <2>2. CASE worker.type # "HCI_DATA_PACKET"
    BY <1>7, <2>2 DEF WorkingThread_Send, SendCommandMessage
  <2> QED
    BY <2>1, <2>2
<1>8. ASSUME NEW t \in DesktopThreads, CommandCallback_Enter(t) PROVE TypeOK'
  BY <1>8 DEF CommandCallback_Enter
<1>9. CASE CommandCallback_Ping
  BY <1>9 DEF CommandCallback_Ping, SendCommandMessage, Respond
<1>10. CASE CommandCallback_Data
  <2>1. readQ' \in Events \cup {None}
    BY <1>10, BridgeAssumption DEF CommandCallback_Data, Commands, PingCommand, DataCommand, ErrorCommand
  <2> QED
    BY <1>10, <2>1 DEF CommandCallback_Data, Respond
<1>11. CASE CommandCallback_Error
  <2>1. errorQ' \in Results \cup {None}
    BY <1>11, BridgeAssumption DEF CommandCallback_Error, Commands, PingCommand, DataCommand, ErrorCommand
  <2> QED
    BY <1>11, <2>1 DEF CommandCallback_Error, Respond
<1>12. CASE OnCommandPacketReceived
  BY <1>12 DEF OnCommandPacketReceived
<1>13. CASE OnDeviceDataReceived_Reply
  <2>1. ErrorCommand(receiver) \in Commands
    BY <1>13 DEF OnDeviceDataReceived_Reply, Commands
  <2> QED
    BY <1>13, <2>1, ThreadNames, SendType DEF OnDeviceDataReceived_Reply
<1>14. CASE OnDeviceDataReceived_Return
  BY <1>14 DEF OnDeviceDataReceived_Return
<1>15. ASSUME NEW l \in Listeners, NEW e \in Events, EventReceived(l, e) PROVE TypeOK'
  BY <1>15 DEF EventReceived
<1>16. ASSUME NEW l \in Listeners, OnEvent(l) PROVE TypeOK'
  <2>1. DataCommand(listener[l]) \in Commands
    BY <1>16 DEF OnEvent, Commands
  <2> QED
    BY <1>16, <2>1, ThreadNames, SendType DEF OnEvent
<1>17. ASSUME NEW l \in Listeners, OnEvent_Return(l) PROVE TypeOK'
  BY <1>17 DEF OnEvent_Return
<1>18. CASE WatchDogTimerEvent
  <2>1. PingCommand \in Commands
    BY DEF Commands
  <2> QED
    BY <1>18, <2>1, ThreadNames, SendType DEF WatchDogTimerEvent
<1>19. CASE Disconnect
  <2>1. up' \in Seq(Packets \cup {None})
    BY <1>19 DEF Disconnect
  <2>2. down' \in [DesktopThreads -> Commands \cup {None, Executing}]
    BY <1>19 DEF Disconnect
  <2>3. connected' \in BOOLEAN
    BY <1>19, Zenon DEF Disconnect
  <2>4. UNCHANGED <<opened, write, writeQ, readQ, errorQ, worker, cmd, callback,
                    receiver, listener, lock, adapter>>
    BY <1>19 DEF Disconnect
  <2> QED
    BY <2>1, <2>2, <2>3, <2>4
<1>20. CASE UNCHANGED vars
  BY <1>20 DEF vars
<1> QED
  BY <1>1, <1>2, <1>3, <1>4, <1>5, <1>6, <1>7, <1>8, <1>9, <1>10, <1>11, <1>12, <1>13,
     <1>14, <1>15, <1>16, <1>17, <1>18, <1>19, <1>20 DEF Next

THEOREM TypeCorrect == Spec => []TypeOK
  BY InitType, NextType, PTL DEF Spec
-----------------------------------------------------------------------------
(* A command is blocked in the transport or in CommandCallback only on     *)
(* behalf of the thread that Threads says.                                 *)
LEMMA NoneIsNoCommand ==
  /\ None # Executing /\ None \notin Commands
  /\ \A c \in Commands : c # Executing
BY BridgeAssumption DEF Executing, Commands, PingCommand, DataCommand, ErrorCommand

LEMMA InitThreads == Init => Threads
BY ThreadNames, NoneIsNoCommand DEF Init, Threads

LEMMA RespondThreads ==
  ASSUME TypeOK, Threads, callback # None, Respond, UNCHANGED <<receiver, lock, connected>>,
         connected \/ up' = up
  PROVE  Threads'
BY ThreadNames, NoneIsNoCommand DEF TypeOK, Threads, Respond

LEMMA NextThreads == TypeOK /\ Threads /\ [Next]_vars => Threads'
<1> SUFFICES ASSUME TypeOK, Threads, [Next]_vars PROVE Threads'
  OBVIOUS
<1>1. ASSUME UNCHANGED <<receiver, lock, down, callback, up, connected>> PROVE Threads'
  BY <1>1 DEF Threads
<1>2. CASE BTE_Open
  BY <1>1, <1>2 DEF BTE_Open
<1>3. ASSUME NEW w \in Writers, NEW p \in Packets, HCI_WritePacket(w, p) PROVE Threads'
  BY <1>1, <1>3 DEF HCI_WritePacket
<1>4. ASSUME NEW w \in Writers, WritePacket(w) PROVE Threads'
  BY <1>1, <1>4 DEF WritePacket
<1>5. ASSUME NEW w \in Writers, BTE_Write_Return(w) PROVE Threads'
  BY <1>1, <1>5 DEF BTE_Write_Return
<1>6. CASE HCI_ReadPacket
  BY <1>1, <1>6 DEF HCI_ReadPacket
<1>7. CASE WorkingThread_Read
  BY <1>1, <1>7 DEF WorkingThread_Read
<1>8. CASE WorkingThread_Send
  BY <1>8 DEF Threads, WorkingThread_Send, SendCommandBytes, SendCommandMessage, PushCommand
<1>9. ASSUME NEW t \in DesktopThreads, CommandCallback_Enter(t) PROVE Threads'
  <2>1. /\ callback = None /\ down[t] \notin {None, Executing}
        /\ callback' = [thread |-> t, command |-> down[t]]
        /\ down' = [down EXCEPT ![t] = Executing]
        /\ UNCHANGED <<receiver, lock, up, connected>>
    BY <1>9 DEF CommandCallback_Enter
  <2>2. \A s \in DesktopThreads : down[s] # Executing
    BY <2>1 DEF Threads
  <2>3. callback' # None /\ callback'.thread = t /\ callback'.command = down[t]
    BY <2>1, BridgeAssumption DEF TypeOK
  <2>4. connected
    BY <2>1 DEF Threads
  <2>5. /\ down'[t] = Executing
        /\ \A s \in DesktopThreads : s # t => down'[s] = down[s]
    BY <2>1 DEF TypeOK
  <2> QED
    BY <2>1, <2>2, <2>3, <2>4, <2>5, ThreadNames, NoneIsNoCommand DEF Threads
<1>10. CASE CommandCallback_Ping
  BY <1>10, RespondThreads DEF CommandCallback_Ping, SendCommandMessage
<1>11. CASE CommandCallback_Data
  BY <1>11, RespondThreads DEF CommandCallback_Data
<1>12. CASE CommandCallback_Error
  BY <1>12, RespondThreads DEF CommandCallback_Error
<1>13. CASE OnCommandPacketReceived
  BY <1>13, BridgeAssumption DEF OnCommandPacketReceived, Threads, TypeOK
<1>14. CASE OnDeviceDataReceived_Reply
  BY <1>14, ThreadNames, BridgeAssumption
     DEF OnDeviceDataReceived_Reply, SendCommand, Threads, TypeOK, ErrorCommand, Results, Executing
<1>15. CASE OnDeviceDataReceived_Return
  BY <1>15 DEF OnDeviceDataReceived_Return, Threads, TypeOK
<1>16. ASSUME NEW l \in Listeners, NEW e \in Events, EventReceived(l, e) PROVE Threads'
  BY <1>1, <1>16 DEF EventReceived
<1>17. ASSUME NEW l \in Listeners, OnEvent(l) PROVE Threads'
  BY <1>17, ThreadNames, BridgeAssumption
     DEF OnEvent, SendCommand, Threads, TypeOK, DataCommand, Executing
<1>18. ASSUME NEW l \in Listeners, OnEvent_Return(l) PROVE Threads'
  BY <1>18 DEF OnEvent_Return, Threads, TypeOK
<1>19. CASE WatchDogTimerEvent
  BY <1>19, ThreadNames, BridgeAssumption
     DEF WatchDogTimerEvent, SendCommand, Threads, TypeOK, PingCommand, Executing
<1>20. CASE Disconnect
  BY <1>20, ThreadNames, NoneIsNoCommand DEF Disconnect, Threads, TypeOK
<1>21. CASE UNCHANGED vars
  BY <1>1, <1>21 DEF vars
<1> QED
  BY <1>2, <1>3, <1>4, <1>5, <1>6, <1>7, <1>8, <1>9, <1>10, <1>11, <1>12, <1>13, <1>14,
     <1>15, <1>16, <1>17, <1>18, <1>19, <1>20, <1>21 DEF Next

THEOREM ThreadsCorrect == Spec => []Threads
  BY TypeCorrect, InitThreads, NextThreads, PTL DEF Spec
=============================================================================
