------------------------ MODULE HciBridgeEventProofs ------------------------
(* Proof that HciBridge implements HciEventFifo: adapter packets reach the *)
(* stack in order, for any number of listener threads, with any number of  *)
(* writing threads.                                                        *)
EXTENDS HciBridgeProofs, SequenceTheorems

USE DEF Success, Failure, Receiver, Timer, Sent, stackVars, agentVars, desktopVars,
        EventFifo!vars

-----------------------------------------------------------------------------
(* Sequences of three parts.                                               *)

LEMMA ConcatEmpty ==
  ASSUME NEW S, NEW s \in Seq(S)
  PROVE  s \o <<>> = s /\ <<>> \o s = s
BY ConcatEmptySeq

LEMMA AppendConcat ==
  ASSUME NEW S, NEW s \in Seq(S), NEW e \in S
  PROVE  s \o <<e>> = Append(s, e) /\ Len(s \o <<e>>) = Len(s) + 1
OBVIOUS

LEMMA FrontOfAppend ==
  ASSUME NEW S, NEW s \in Seq(S), NEW e \in S
  PROVE  s \o <<e>> # <<>> /\ SubSeq(s \o <<e>>, 1, Len(s \o <<e>>) - 1) = s
OBVIOUS

LEMMA TailOfConcat ==
  ASSUME NEW S, NEW s \in Seq(S), NEW e \in S
  PROVE  <<e>> \o s # <<>> /\ Tail(<<e>> \o s) = s
OBVIOUS

-----------------------------------------------------------------------------
(* Where adapter packets can be: at most one in each place, and never in   *)
(* CommandCallback and the transport at once, since only the owner of      *)
(* s_criticalSection sends them.                                           *)
LEMMA Places ==
  ASSUME TypeOK, Threads
  PROVE  /\ InReadQ \in Seq(Events) /\ InCallback \in Seq(Events) /\ InTransport \in Seq(Events)
         /\ Len(InReadQ) <= 1 /\ Len(InReadQ) \in Nat
         /\ InCallback = <<>> \/ InTransport = <<>>
         /\ lock = None => InCallback = <<>> \/ ~connected
<1>1. InReadQ \in Seq(Events) /\ Len(InReadQ) <= 1 /\ Len(InReadQ) \in Nat
  BY DEF TypeOK, InReadQ
<1>2. InCallback \in Seq(Events)
  BY DEF TypeOK, InCallback, Commands, PingCommand, DataCommand, ErrorCommand
<1>3. InTransport \in Seq(Events)
  <2>1. CASE lock # None /\ down[lock] \notin {None, Executing}
    <3>1. lock \in Listeners /\ down[lock] \in Commands /\ down[lock].type = "HCI_DATA_PACKET"
      BY <2>1, ThreadNames DEF TypeOK, Threads
    <3>2. down[lock].body \in Events
      BY <3>1 DEF Commands, PingCommand, DataCommand, ErrorCommand
    <3> QED
      BY <2>1, <3>2 DEF InTransport
  <2>2. CASE ~(lock # None /\ down[lock] \notin {None, Executing})
    BY <2>2 DEF InTransport
  <2> QED
    BY <2>1, <2>2
<1>4. callback # None /\ callback.command.type = "HCI_DATA_PACKET" /\ connected
        => lock = callback.thread /\ lock # None /\ down[lock] = Executing
  BY ThreadNames, NoneIsNoCommand, BridgeAssumption DEF TypeOK, Threads
<1>5. ~connected => InTransport = <<>>
  BY ThreadNames DEF TypeOK, Threads, InTransport
<1>6. (InCallback = <<>> \/ InTransport = <<>>) /\ (lock = None => InCallback = <<>> \/ ~connected)
  BY <1>4, <1>5 DEF InCallback, InTransport
<1> QED
  BY <1>1, <1>2, <1>3, <1>6

LEMMA InitEvents == Init => EventFifo!Init
<1> SUFFICES ASSUME Init PROVE EventFifo!Init
  OBVIOUS
<1>1. InReadQ = <<>> /\ InCallback = <<>> /\ InTransport = <<>>
  BY DEF Init, InReadQ, InCallback, InTransport
<1> QED
  BY <1>1 DEF EventFifo!Init, EventsInFlight, Init

(* A command moves from the transport into CommandCallback.                *)
LEMMA EnterEvents ==
  ASSUME TypeOK, Threads, NEW t \in DesktopThreads, CommandCallback_Enter(t)
  PROVE  UNCHANGED <<EventsInFlight, connected>>
<1>1. /\ callback = None /\ down[t] \in Commands /\ down[t] \notin {None, Executing}
      /\ callback' = [thread |-> t, command |-> down[t]]
      /\ down' = [down EXCEPT ![t] = Executing]
      /\ UNCHANGED <<readQ, lock, connected>>
  BY DEF CommandCallback_Enter, TypeOK
<1>2. InReadQ' = InReadQ /\ InCallback = <<>>
  BY <1>1 DEF InReadQ, InCallback
<1>3. callback' # None /\ callback'.command = down[t]
  BY <1>1, BridgeAssumption
<1>4. CASE t = lock
  <2>1. lock # None /\ down[lock].type = "HCI_DATA_PACKET"
    BY <1>1, <1>4, ThreadNames, BridgeAssumption DEF Threads, TypeOK, DesktopThreads
  <2>2. InCallback' = <<down[lock].body>> /\ InTransport = <<down[lock].body>> /\ InTransport' = <<>>
    BY <1>1, <1>3, <1>4, <2>1 DEF InCallback, InTransport, TypeOK
  <2>3. InReadQ \in Seq(Events) /\ InTransport \in Seq(Events)
    BY Places
  <2> QED
    BY <1>1, <1>2, <2>2, <2>3, ConcatEmpty DEF EventsInFlight
<1>5. CASE t # lock
  <2>1. t \notin Listeners
    BY <1>1, <1>5, NoneIsNoCommand DEF Threads
  <2>2. InCallback' = <<>>
    BY <1>1, <1>3, <2>1 DEF InCallback, Threads
  <2>3. InTransport' = InTransport
    BY <1>1, <1>5, ThreadNames DEF InTransport, TypeOK
  <2> QED
    BY <1>1, <1>2, <2>2, <2>3 DEF EventsInFlight
<1> QED
  BY <1>4, <1>5

(* CommandCallback returns: the thread it served had nothing in the        *)
(* transport.                                                              *)
LEMMA RespondTransport ==
  ASSUME TypeOK, Threads, callback # None, Respond, UNCHANGED lock
  PROVE  UNCHANGED InTransport
<1>1. callback.thread \in DesktopThreads /\ down[callback.thread] \in {None, Executing}
  BY DEF TypeOK, Threads
<1> QED
  BY <1>1, ThreadNames DEF InTransport, TypeOK, Respond

LEMMA DataEvents ==
  ASSUME TypeOK, Threads, CommandCallback_Data
  PROVE  UNCHANGED <<EventsInFlight, connected>>
<1>1. /\ callback # None /\ callback.command.type = "HCI_DATA_PACKET" /\ readQ = None
      /\ readQ' = callback.command.body /\ callback' = None /\ UNCHANGED connected
  BY DEF CommandCallback_Data, Respond
<1>2. callback.command.body \in Events
  BY <1>1 DEF TypeOK, Commands, PingCommand, DataCommand, ErrorCommand
<1>3. /\ InReadQ = <<>> /\ InCallback = <<callback.command.body>>
      /\ InReadQ' = <<callback.command.body>> /\ InCallback' = <<>>
  BY <1>1, <1>2, BridgeAssumption DEF InReadQ, InCallback
<1>4. UNCHANGED InTransport
  BY <1>1, RespondTransport DEF CommandCallback_Data
<1> QED
  BY <1>1, <1>2, <1>3, <1>4, ConcatEmpty DEF EventsInFlight

LEMMA ReadEvents ==
  ASSUME TypeOK, Threads, HCI_ReadPacket
  PROVE  EventFifo!Get
<1>1. readQ \in Events /\ InReadQ = <<readQ>> /\ InReadQ' = <<>>
  BY DEF HCI_ReadPacket, TypeOK, InReadQ
<1>2. UNCHANGED <<InCallback, InTransport>>
  BY DEF HCI_ReadPacket, agentVars, InCallback, InTransport, desktopVars
<1>3. InCallback \in Seq(Events) /\ InTransport \in Seq(Events)
  BY Places
<1>4. DEFINE rest == InCallback \o InTransport
<1>5. rest \in Seq(Events)
  BY <1>3
<1>6. EventsInFlight = <<readQ>> \o rest
  BY <1>1, <1>3, ConcatAssociative DEF EventsInFlight
<1>7. EventsInFlight' = rest
  BY <1>1, <1>2, <1>3, ConcatEmpty DEF EventsInFlight
<1> HIDE DEF rest
<1> QED
  BY <1>1, <1>5, <1>6, <1>7, TailOfConcat DEF EventFifo!Get, HCI_ReadPacket

(* The thread that takes s_criticalSection puts its packet last.           *)
LEMMA SendEvents ==
  ASSUME TypeOK, Threads, NEW l \in Listeners, OnEvent(l)
  PROVE  (\E e \in Events : EventFifo!Put(e)) \/ UNCHANGED <<EventsInFlight, connected>>
<1>1. /\ lock = None /\ lock' = l /\ listener[l] \in Events /\ l # None
      /\ UNCHANGED <<readQ, callback, connected>>
      /\ SendCommand(l, DataCommand(listener[l]))
  BY BridgeAssumption DEF OnEvent, TypeOK, DesktopThreads
<1>2. InTransport = <<>> /\ UNCHANGED <<InReadQ, InCallback>>
  BY <1>1 DEF InReadQ, InCallback, InTransport
<1>3. CASE connected
  <2>1. down'[l] = DataCommand(listener[l]) /\ DataCommand(listener[l]) \in Commands
    BY <1>1, <1>3, ThreadNames DEF SendCommand, TypeOK, Commands
  <2>2. InTransport' = <<listener[l]>>
    BY <1>1, <2>1, NoneIsNoCommand DEF InTransport, DataCommand
  <2>3. InCallback = <<>> /\ InReadQ \in Seq(Events) /\ Len(InReadQ) <= 1 /\ Len(InReadQ) \in Nat
    BY <1>1, <1>3, Places
  <2>4. EventsInFlight = InReadQ /\ EventsInFlight' = InReadQ \o <<listener[l]>>
    BY <1>1, <1>2, <2>2, <2>3, ConcatEmpty DEF EventsInFlight
  <2>5. EventFifo!Put(listener[l])
    BY <1>1, <1>3, <2>3, <2>4, AppendConcat DEF EventFifo!Put
  <2> QED
    BY <1>1, <2>5
<1>4. CASE ~connected
  <2>1. down' = down /\ down[l] = None
    BY <1>1, <1>4, ThreadNames DEF SendCommand, Threads
  <2>2. InTransport' = <<>>
    BY <1>1, <2>1 DEF InTransport
  <2> QED
    BY <1>1, <1>2, <2>2 DEF EventsInFlight
<1> QED
  BY <1>3, <1>4 DEF TypeOK

(* A broken connection loses at most the packet still in the transport.    *)
LEMMA DisconnectEvents ==
  ASSUME TypeOK, Threads, Disconnect
  PROVE  EventFifo!Break
<1>1. UNCHANGED <<InReadQ, InCallback>> /\ connected
  BY DEF Disconnect, agentVars, InReadQ, InCallback
<1>2. InTransport' = <<>> /\ connected' = FALSE
  BY ThreadNames DEF Disconnect, desktopVars, InTransport, TypeOK
<1>3. CASE InTransport = <<>>
  BY <1>1, <1>2, <1>3 DEF EventsInFlight, EventFifo!Break
<1>4. CASE InTransport # <<>>
  <2>1. InCallback = <<>> /\ InReadQ \in Seq(Events)
    BY <1>4, Places
  <2>2. PICK e \in Events : InTransport = <<e>>
    <3>1. InTransport = <<down[lock].body>> /\ InTransport \in Seq(Events)
      BY <1>4, Places DEF InTransport
    <3> QED
      BY <3>1
  <2>3. EventsInFlight = InReadQ \o <<e>> /\ EventsInFlight' = InReadQ
    BY <1>1, <1>2, <2>1, <2>2, ConcatEmpty DEF EventsInFlight
  <2> QED
    BY <1>1, <1>2, <2>1, <2>3, FrontOfAppend DEF EventFifo!Break
<1> QED
  BY <1>3, <1>4

-----------------------------------------------------------------------------
LEMMA NextEvents ==
  TypeOK /\ Threads /\ [Next]_vars => [EventFifo!Next]_(EventFifo!vars)
<1> SUFFICES ASSUME TypeOK, Threads, [Next]_vars PROVE [EventFifo!Next]_(EventFifo!vars)
  OBVIOUS
<1>1. ASSUME UNCHANGED <<readQ, callback, down, lock, connected>>
      PROVE  UNCHANGED <<EventsInFlight, connected>>
  BY <1>1 DEF EventsInFlight, InReadQ, InCallback, InTransport
<1>2. CASE BTE_Open
  BY <1>1, <1>2 DEF BTE_Open
<1>3. ASSUME NEW w \in Writers, NEW p \in Packets, HCI_WritePacket(w, p)
      PROVE  UNCHANGED <<EventsInFlight, connected>>
  BY <1>1, <1>3 DEF HCI_WritePacket
<1>4. ASSUME NEW w \in Writers, WritePacket(w) PROVE UNCHANGED <<EventsInFlight, connected>>
  BY <1>1, <1>4 DEF WritePacket
<1>5. ASSUME NEW w \in Writers, BTE_Write_Return(w) PROVE UNCHANGED <<EventsInFlight, connected>>
  BY <1>1, <1>5 DEF BTE_Write_Return
<1>6. CASE HCI_ReadPacket
  BY <1>6, ReadEvents DEF EventFifo!Next
<1>7. CASE WorkingThread_Read
  BY <1>1, <1>7 DEF WorkingThread_Read
<1>8. CASE WorkingThread_Send
  BY <1>1, <1>8 DEF WorkingThread_Send
<1>9. ASSUME NEW t \in DesktopThreads, CommandCallback_Enter(t) PROVE UNCHANGED <<EventsInFlight, connected>>
  BY <1>9, EnterEvents
<1>10. CASE CommandCallback_Ping
  BY <1>10, RespondTransport
     DEF CommandCallback_Ping, Respond, EventsInFlight, InReadQ, InCallback
<1>11. CASE CommandCallback_Data
  BY <1>11, DataEvents
<1>12. CASE CommandCallback_Error
  BY <1>12, RespondTransport
     DEF CommandCallback_Error, Respond, EventsInFlight, InReadQ, InCallback
<1>13. CASE OnCommandPacketReceived
  BY <1>1, <1>13 DEF OnCommandPacketReceived
<1>14. CASE OnDeviceDataReceived_Reply
  BY <1>14, BridgeAssumption
     DEF OnDeviceDataReceived_Reply, SendCommand, TypeOK, EventsInFlight, InReadQ, InCallback, InTransport
<1>15. CASE OnDeviceDataReceived_Return
  BY <1>1, <1>15 DEF OnDeviceDataReceived_Return
<1>16. ASSUME NEW l \in Listeners, NEW e \in Events, EventReceived(l, e)
       PROVE  UNCHANGED <<EventsInFlight, connected>>
  BY <1>1, <1>16 DEF EventReceived
<1>17. ASSUME NEW l \in Listeners, OnEvent(l) PROVE [EventFifo!Next]_(EventFifo!vars)
  BY <1>17, SendEvents DEF EventFifo!Next
<1>18. ASSUME NEW l \in Listeners, OnEvent_Return(l) PROVE UNCHANGED <<EventsInFlight, connected>>
  BY <1>18 DEF OnEvent_Return, EventsInFlight, InReadQ, InCallback, InTransport
<1>19. CASE WatchDogTimerEvent
  BY <1>19, BridgeAssumption
     DEF WatchDogTimerEvent, SendCommand, TypeOK, EventsInFlight, InReadQ, InCallback, InTransport
<1>20. CASE Disconnect
  BY <1>20, DisconnectEvents DEF EventFifo!Next
<1>21. CASE UNCHANGED vars
  BY <1>1, <1>21 DEF vars
<1> QED
  BY <1>2, <1>3, <1>4, <1>5, <1>6, <1>7, <1>8, <1>9, <1>10, <1>11, <1>12, <1>13, <1>14,
     <1>15, <1>16, <1>17, <1>18, <1>19, <1>20, <1>21 DEF Next

(* Adapter packets reach the stack in the order in which their threads took *)
(* s_criticalSection, none lost or repeated while connected (OnEvent,      *)
(* DataEventHandler, ReadDesktopWriteDevicePacket, ReadCommPort).          *)
THEOREM EventOrder == Spec => EventsInOrder
<1>1. Init => EventFifo!Init
  BY InitEvents
<1>2. TypeOK /\ Threads /\ [Next]_vars => [EventFifo!Next]_(EventFifo!vars)
  BY NextEvents
<1> QED
  BY <1>1, <1>2, TypeCorrect, ThreadsCorrect, PTL DEF Spec, EventsInOrder, EventFifo!Spec
=============================================================================
