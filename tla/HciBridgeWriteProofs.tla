------------------------ MODULE HciBridgeWriteProofs ------------------------
(* Proofs that a write of the stack gets the adapter's answer to its own    *)
(* packet: the request and the answer are in one of seven places, and each  *)
(* step of the bridge leaves them where they are, moves them to the next    *)
(* place, or loses them with the connection.                                *)
EXTENDS HciBridgeProofs

USE DEF Success, Failure, Receiver, Timer, Sent, stackVars, agentVars, desktopVars

\* What the stack of Windows CE does: it serialises HCI_WritePacket, and its
\* packets fit a Packet with its headers.
OneWriter(w) == Writers = {w} /\ Oversize = {}

-----------------------------------------------------------------------------
(* The seven places.                                                       *)

\* A call that is under way has a packet, and no result yet.
Calls ==
  \A w \in Writers :
    write[w].pc # "idle" => write[w].packet \in Packets /\ write[w].ret = None

PathInv == AtMostOne /\ AnswerOnItsWay /\ OwnRequest /\ OwnAnswer /\ Calls

\* A step that leaves the request or the answer of a write where it is.
PathStays ==
  /\ UNCHANGED <<write, up, adapter, connected>>
  /\ RequestInWriteQ' <=> RequestInWriteQ
  /\ RequestInWriteQ => writeQ' = writeQ
  /\ RequestInWorker' <=> RequestInWorker
  /\ RequestInWorker => worker' = worker
  /\ ReplyInReceiver' <=> ReplyInReceiver
  /\ ReplyInReceiver => receiver' = receiver
  /\ ReplyInDown' <=> ReplyInDown
  /\ down'[Receiver].body = down[Receiver].body \/ ~ReplyInDown
  /\ ReplyInCallback' <=> ReplyInCallback
  /\ ReplyInCallback => callback'.command.body = callback.command.body
  /\ ReplyInErrorQ' <=> ReplyInErrorQ
  /\ ReplyInErrorQ => errorQ' = errorQ

LEMMA StayingKeepsPath == ASSUME PathInv, PathStays PROVE PathInv'
<1>1. RequestInUp' <=> RequestInUp
  BY DEF PathStays, RequestInUp
<1>2. (RequestInFlight' <=> RequestInFlight) /\ (ReplyInFlight' <=> ReplyInFlight)
  BY <1>1 DEF PathStays, RequestInFlight, ReplyInFlight
<1>3. AtMostOne'
  BY <1>1, <1>2 DEF PathInv, PathStays, AtMostOne
<1>4. AnswerOnItsWay' /\ Calls'
  BY <1>2 DEF PathInv, PathStays, AnswerOnItsWay, Calls
<1>5. OwnRequest'
  BY <1>1 DEF PathInv, PathStays, OwnRequest
<1>6. OwnAnswer'
  BY <1>2 DEF PathInv, PathStays, OwnAnswer
<1> QED
  BY <1>3, <1>4, <1>5, <1>6 DEF PathInv

\* In terms of the threads: the answer is in the hands of the receiver's call.
LEMMA ReplyThreads ==
  ASSUME TypeOK, Threads
  PROVE  /\ ReplyInCallback <=> callback # None /\ callback.thread = Receiver
         /\ ReplyInDown => down[Receiver].type = "HCI_DATA_ERROR_PACKET" /\ receiver = Sent
BY ThreadNames DEF TypeOK, Threads, ReplyInCallback, ReplyInDown

\* The steps of other threads and of other messages.
LEMMA OtherSteps ==
  ASSUME TypeOK, Threads,
         \/ BTE_Open \/ HCI_ReadPacket
         \/ WorkingThread_Read /\ ~RequestInWriteQ
         \/ WorkingThread_Send /\ ~RequestInWorker
         \/ \E t \in DesktopThreads : CommandCallback_Enter(t) /\ t # Receiver
         \/ CommandCallback_Ping \/ CommandCallback_Data
         \/ OnDeviceDataReceived_Return
         \/ \E l \in Listeners, e \in Events : EventReceived(l, e)
         \/ \E l \in Listeners : OnEvent(l)
         \/ \E l \in Listeners : OnEvent_Return(l)
         \/ WatchDogTimerEvent
         \/ UNCHANGED vars
  PROVE  PathStays
<1> USE DEF PathStays
<1>1. CASE BTE_Open
  BY <1>1, BridgeAssumption
     DEF BTE_Open, RequestInWriteQ, RequestInWorker, ReplyInReceiver, ReplyInDown, ReplyInCallback,
         ReplyInErrorQ, Message
<1>2. CASE HCI_ReadPacket
  BY <1>2 DEF HCI_ReadPacket, RequestInWriteQ, RequestInWorker, ReplyInReceiver, ReplyInDown,
              ReplyInCallback, ReplyInErrorQ
<1>3. CASE WorkingThread_Read /\ ~RequestInWriteQ
  BY <1>3 DEF WorkingThread_Read, RequestInWriteQ, RequestInWorker, ReplyInReceiver, ReplyInDown,
              ReplyInCallback, ReplyInErrorQ
<1>4. CASE WorkingThread_Send /\ ~RequestInWorker
  BY <1>4 DEF WorkingThread_Send, SendCommandMessage, RequestInWriteQ, RequestInWorker,
              ReplyInReceiver, ReplyInDown, ReplyInCallback, ReplyInErrorQ
<1>5. ASSUME NEW t \in DesktopThreads, CommandCallback_Enter(t), t # Receiver PROVE PathStays
  <2>1. callback = None /\ callback' # None /\ callback'.command.type # "HCI_DATA_ERROR_PACKET"
    BY <1>5, BridgeAssumption DEF CommandCallback_Enter, TypeOK, Threads
  <2>2. ~ReplyInCallback /\ ~ReplyInCallback'
    BY <2>1 DEF ReplyInCallback
  <2>3. down'[Receiver] = down[Receiver]
    BY <1>5, ThreadNames DEF CommandCallback_Enter, TypeOK
  <2> QED
    BY <1>5, <2>2, <2>3 DEF CommandCallback_Enter, RequestInWriteQ, RequestInWorker,
              ReplyInReceiver, ReplyInDown, ReplyInErrorQ
<1>6. ASSUME CommandCallback_Ping \/ CommandCallback_Data PROVE PathStays
  <2>1. callback # None /\ callback.command.type # "HCI_DATA_ERROR_PACKET" /\ Respond
    BY <1>6 DEF CommandCallback_Ping, CommandCallback_Data
  <2>2. callback.thread # Receiver
    BY <2>1 DEF Threads
  <2>3. down'[Receiver] = down[Receiver]
    BY <2>1, <2>2, ThreadNames DEF Respond, TypeOK
  <2>4. ~ReplyInCallback /\ ~ReplyInCallback'
    BY <2>1 DEF ReplyInCallback, Respond
  <2> QED
    BY <1>6, <2>3, <2>4 DEF CommandCallback_Ping, CommandCallback_Data, SendCommandMessage,
       RequestInWriteQ, RequestInWorker, ReplyInReceiver, ReplyInDown, ReplyInErrorQ
<1>7. CASE OnDeviceDataReceived_Return
  <2>1. ~ReplyInReceiver /\ ~ReplyInReceiver'
    BY <1>7, BridgeAssumption DEF OnDeviceDataReceived_Return, ReplyInReceiver, Results
  <2> QED
    BY <1>7, <2>1 DEF OnDeviceDataReceived_Return, RequestInWriteQ, RequestInWorker,
       ReplyInDown, ReplyInCallback, ReplyInErrorQ
<1>8. ASSUME NEW l \in Listeners, NEW e \in Events, EventReceived(l, e) PROVE PathStays
  BY <1>8 DEF EventReceived, RequestInWriteQ, RequestInWorker, ReplyInReceiver, ReplyInDown,
              ReplyInCallback, ReplyInErrorQ
<1>9. ASSUME NEW t \in DesktopThreads, NEW c, SendCommand(t, c), t # Receiver
      PROVE  down'[Receiver] = down[Receiver]
  BY <1>9, ThreadNames DEF SendCommand, TypeOK
<1>10. ASSUME NEW l \in Listeners, OnEvent(l) PROVE PathStays
  <2>1. down'[Receiver] = down[Receiver]
    BY <1>9, <1>10, ThreadNames, BridgeAssumption DEF OnEvent
  <2> QED
    BY <1>10, <2>1 DEF OnEvent, RequestInWriteQ, RequestInWorker, ReplyInReceiver, ReplyInDown,
                       ReplyInCallback, ReplyInErrorQ
<1>11. ASSUME NEW l \in Listeners, OnEvent_Return(l) PROVE PathStays
  BY <1>11 DEF OnEvent_Return, RequestInWriteQ, RequestInWorker, ReplyInReceiver, ReplyInDown,
               ReplyInCallback, ReplyInErrorQ
<1>12. CASE WatchDogTimerEvent
  <2>1. down'[Receiver] = down[Receiver]
    BY <1>9, <1>12, ThreadNames DEF WatchDogTimerEvent
  <2> QED
    BY <1>12, <2>1 DEF WatchDogTimerEvent, RequestInWriteQ, RequestInWorker, ReplyInReceiver,
                       ReplyInDown, ReplyInCallback, ReplyInErrorQ
<1>13. CASE UNCHANGED vars
  BY <1>13 DEF vars, RequestInWriteQ, RequestInWorker, ReplyInReceiver, ReplyInDown,
               ReplyInCallback, ReplyInErrorQ
<1> QED
  BY <1>1, <1>2, <1>3, <1>4, <1>5, <1>6, <1>7, <1>8, <1>10, <1>11, <1>12, <1>13

-----------------------------------------------------------------------------
(* The steps that move the request or the answer of a write.               *)

\* Nothing of a write is under way.
Quiet == ~RequestInFlight /\ ~ReplyInFlight

LEMMA QuietWhileNotWaiting ==
  ASSUME PathInv, NEW w \in Writers, write[w].pc # "waiting" PROVE Quiet
BY DEF PathInv, AnswerOnItsWay, Quiet

LEMMA PacketsAreNotNone == None \notin Packets /\ None \notin Results
BY BridgeAssumption

LEMMA HCI_WritePacketStep ==
  ASSUME TypeOK, PathInv, NEW w, OneWriter(w), NEW p \in Packets, HCI_WritePacket(w, p)
  PROVE  PathInv' /\ Quiet /\ Quiet'
<1>1. Quiet
  BY QuietWhileNotWaiting DEF OneWriter, HCI_WritePacket
<1>2. Quiet'
  BY <1>1 DEF HCI_WritePacket, Quiet, RequestInFlight, ReplyInFlight, RequestInWriteQ, RequestInWorker,
              RequestInUp, ReplyInReceiver, ReplyInDown, ReplyInCallback, ReplyInErrorQ
<1>3. write' = [write EXCEPT ![w] = [pc |-> "writing", packet |-> p, ret |-> None]]
  BY DEF HCI_WritePacket
<1>4. /\ write'[w].pc = "writing" /\ write'[w].packet = p /\ write'[w].ret = None
      /\ \A x \in Writers : x = w
  BY <1>3 DEF TypeOK, OneWriter
<1> QED
  BY <1>1, <1>2, <1>4 DEF PathInv, Quiet, RequestInFlight, ReplyInFlight, AtMostOne, AnswerOnItsWay,
                         OwnRequest, OwnAnswer, Calls

LEMMA WritePacketStep ==
  ASSUME TypeOK, PathInv, NEW w, OneWriter(w), WritePacket(w)
  PROVE  PathInv' /\ Quiet /\ RequestInFlight'
<1>1. Quiet
  BY QuietWhileNotWaiting DEF OneWriter, WritePacket
<1>2. /\ ~RequestInWorker' /\ ~RequestInUp' /\ ~ReplyInReceiver' /\ ~ReplyInDown'
      /\ ~ReplyInCallback' /\ ~ReplyInErrorQ'
  BY <1>1 DEF WritePacket, Quiet, RequestInFlight, ReplyInFlight, RequestInWorker,
              RequestInUp, ReplyInReceiver, ReplyInDown, ReplyInCallback, ReplyInErrorQ
<1>3. write' = [write EXCEPT ![w].pc = "waiting"]
  BY DEF WritePacket
<1>4. /\ write'[w].pc = "waiting" /\ write'[w].packet = write[w].packet
      /\ write'[w].ret = write[w].ret
      /\ \A x \in Writers : x = w
  BY <1>3 DEF TypeOK, OneWriter
<1>5. write[w].packet \in Packets /\ write[w].ret = None
  BY DEF PathInv, Calls, OneWriter, WritePacket
<1>6. writeQ' = DataMessage(write[w].packet)
  BY DEF WritePacket, Serialized, OneWriter
<1>7. RequestInWriteQ' /\ writeQ'.body = write[w].packet
  BY <1>5, <1>6, BridgeAssumption DEF RequestInWriteQ, Messages, DataMessage
<1> QED
  BY <1>1, <1>2, <1>4, <1>5, <1>7 DEF PathInv, RequestInFlight, ReplyInFlight, AtMostOne,
     AnswerOnItsWay, OwnRequest, OwnAnswer, Calls

LEMMA WorkingThread_ReadStep ==
  ASSUME TypeOK, PathInv, WorkingThread_Read, RequestInWriteQ
  PROVE  PathInv' /\ (RequestInFlight /\ RequestInFlight')
<1>1. /\ ~RequestInWorker /\ ~RequestInUp /\ ~ReplyInReceiver /\ ~ReplyInDown
      /\ ~ReplyInCallback /\ ~ReplyInErrorQ
  BY DEF PathInv, AtMostOne, ReplyInFlight
<1>2. /\ ~RequestInUp' /\ ~ReplyInReceiver' /\ ~ReplyInDown'
      /\ ~ReplyInCallback' /\ ~ReplyInErrorQ'
  BY <1>1 DEF WorkingThread_Read, RequestInUp, ReplyInReceiver, ReplyInDown, ReplyInCallback,
              ReplyInErrorQ
<1>3. ~RequestInWriteQ' /\ RequestInWorker' /\ worker'.body = writeQ.body
  BY DEF WorkingThread_Read, RequestInWriteQ, RequestInWorker
<1>4. UNCHANGED <<write, connected>>
  BY DEF WorkingThread_Read
<1> QED
  BY <1>1, <1>2, <1>3, <1>4 DEF PathInv, RequestInFlight, ReplyInFlight, AtMostOne,
     AnswerOnItsWay, OwnRequest, OwnAnswer, Calls
LEMMA WorkingThread_SendStep ==
  ASSUME TypeOK, PathInv, Threads, NEW w, OneWriter(w), WorkingThread_Send, RequestInWorker
  PROVE  /\ PathInv' /\ RequestInFlight
         /\ IF connected THEN RequestInFlight' ELSE Quiet'
<1>1. /\ ~RequestInWriteQ /\ ~RequestInUp /\ ~ReplyInReceiver /\ ~ReplyInDown
      /\ ~ReplyInCallback /\ ~ReplyInErrorQ
  BY DEF PathInv, AtMostOne, ReplyInFlight
<1>2. /\ ~RequestInWriteQ' /\ ~RequestInWorker' /\ ~ReplyInReceiver' /\ ~ReplyInDown'
      /\ ~ReplyInCallback' /\ ~ReplyInErrorQ'
  BY <1>1 DEF WorkingThread_Send, RequestInWriteQ, RequestInWorker, ReplyInReceiver, ReplyInDown,
              ReplyInCallback, ReplyInErrorQ
<1>3. UNCHANGED <<write, connected>>
  BY DEF WorkingThread_Send
<1>4. /\ write[w].pc = "waiting" /\ worker.body = write[w].packet /\ write[w].packet \in Packets
      /\ \A x \in Writers : x = w
  BY DEF PathInv, AnswerOnItsWay, RequestInFlight, OwnRequest, Calls, OneWriter
<1>5. up = <<>> /\ up' = IF connected THEN Append(up, write[w].packet) ELSE up
  BY <1>1, <1>4, PacketsAreNotNone
     DEF WorkingThread_Send, SendCommandBytes, PushCommand, RequestInWorker, RequestInUp
<1>6. CASE connected
  <2>1. RequestInUp' /\ Len(up') = 1 /\ Head(up') = write[w].packet
    BY <1>4, <1>5, <1>6 DEF RequestInUp
  <2> QED
    BY <1>1, <1>2, <1>3, <1>4, <1>6, <2>1 DEF PathInv, RequestInFlight, ReplyInFlight, AtMostOne,
       AnswerOnItsWay, OwnRequest, OwnAnswer, Calls
<1>7. CASE ~connected
  <2>1. ~RequestInUp'
    BY <1>5, <1>7 DEF RequestInUp
  <2> QED
    BY <1>1, <1>2, <1>3, <1>4, <1>7, <2>1 DEF PathInv, RequestInFlight, ReplyInFlight, AtMostOne,
       AnswerOnItsWay, OwnRequest, OwnAnswer, Calls, Quiet
<1> QED
  BY <1>6, <1>7

\* The adapter gets the packet of the one waiting write.
LEMMA OnCommandPacketReceivedStep ==
  ASSUME TypeOK, PathInv, Threads, NEW w, OneWriter(w), OnCommandPacketReceived
  PROVE  /\ PathInv' /\ RequestInFlight /\ ~RequestInFlight' /\ ReplyInReceiver'
         /\ write[w].pc = "waiting" /\ UNCHANGED <<write, connected>>
         /\ receiver' \in Results
         /\ adapter' = [packet |-> write[w].packet, result |-> receiver', parity |-> 1 - adapter.parity]
<1>1. RequestInUp
  BY DEF OnCommandPacketReceived, RequestInUp
<1>2. /\ ~RequestInWriteQ /\ ~RequestInWorker /\ ~ReplyInReceiver /\ ~ReplyInDown
      /\ ~ReplyInCallback /\ ~ReplyInErrorQ
  BY <1>1 DEF PathInv, AtMostOne, ReplyInFlight
<1>3. /\ ~RequestInWriteQ' /\ ~RequestInWorker' /\ ~ReplyInDown'
      /\ ~ReplyInCallback' /\ ~ReplyInErrorQ'
  BY <1>2 DEF OnCommandPacketReceived, RequestInWriteQ, RequestInWorker, ReplyInDown,
              ReplyInCallback, ReplyInErrorQ
<1>4. UNCHANGED <<write, connected>>
  BY DEF OnCommandPacketReceived
<1>5. /\ write[w].pc = "waiting" /\ Head(up) = write[w].packet /\ write[w].packet \in Packets
      /\ \A x \in Writers : x = w
  BY <1>1 DEF PathInv, AnswerOnItsWay, RequestInFlight, OwnRequest, Calls, OneWriter
<1>6. Len(up) = 1 /\ up' = Tail(up)
  BY <1>1 DEF PathInv, AtMostOne, OnCommandPacketReceived
<1>7. ~RequestInUp'
  BY <1>6 DEF TypeOK, RequestInUp
<1>8. PICK r \in Results :
        /\ receiver' = r
        /\ adapter' = [packet |-> write[w].packet, result |-> r, parity |-> 1 - adapter.parity]
  BY <1>5, PacketsAreNotNone DEF OnCommandPacketReceived
<1>9. ReplyInReceiver' /\ adapter'.packet = write[w].packet /\ adapter'.result = receiver'
  BY <1>8 DEF ReplyInReceiver
<1>10. PathInv'
  BY <1>2, <1>3, <1>4, <1>5, <1>7, <1>9 DEF PathInv, RequestInFlight, ReplyInFlight, AtMostOne,
     AnswerOnItsWay, OwnRequest, OwnAnswer, Calls
<1> QED
  BY <1>1, <1>3, <1>4, <1>5, <1>7, <1>8, <1>9, <1>10 DEF RequestInFlight

LEMMA OnDeviceDataReceived_ReplyStep ==
  ASSUME TypeOK, PathInv, Threads, OnDeviceDataReceived_Reply
  PROVE  /\ PathInv' /\ ~RequestInFlight /\ ReplyInFlight /\ ~RequestInFlight'
         /\ IF connected THEN ReplyInFlight' /\ Answer' = Answer ELSE Quiet'
<1>1. ReplyInReceiver
  BY DEF OnDeviceDataReceived_Reply, ReplyInReceiver
<1>2. /\ ~RequestInWriteQ /\ ~RequestInWorker /\ ~RequestInUp /\ ~ReplyInDown
      /\ ~ReplyInCallback /\ ~ReplyInErrorQ
  BY <1>1 DEF PathInv, AtMostOne, ReplyInFlight
<1>3. /\ ~RequestInWriteQ' /\ ~RequestInWorker' /\ ~RequestInUp'
      /\ ~ReplyInCallback' /\ ~ReplyInErrorQ'
  BY <1>2 DEF OnDeviceDataReceived_Reply, RequestInWriteQ, RequestInWorker, RequestInUp,
              ReplyInCallback, ReplyInErrorQ
<1>4. ~ReplyInReceiver'
  BY BridgeAssumption DEF OnDeviceDataReceived_Reply, ReplyInReceiver, Results
<1>5. UNCHANGED <<write, connected, adapter>>
  BY DEF OnDeviceDataReceived_Reply
<1>6. CASE connected
  <2>1. down'[Receiver] = ErrorCommand(receiver)
    BY <1>6, ThreadNames DEF OnDeviceDataReceived_Reply, SendCommand, TypeOK
  <2>2. ReplyInDown' /\ down'[Receiver].body = receiver
    BY <2>1, NoneIsNoCommand DEF OnDeviceDataReceived_Reply, ReplyInDown, Commands, ErrorCommand
  <2>3. PathInv'
    BY <1>1, <1>2, <1>3, <1>4, <1>5, <2>2 DEF PathInv, RequestInFlight, ReplyInFlight, AtMostOne,
       AnswerOnItsWay, OwnRequest, OwnAnswer, Calls
  <2> QED
    BY <1>1, <1>2, <1>3, <1>4, <1>6, <2>2, <2>3 DEF RequestInFlight, ReplyInFlight, Answer
<1>7. CASE ~connected
  <2>1. ~ReplyInDown'
    BY <1>2, <1>7 DEF OnDeviceDataReceived_Reply, SendCommand, ReplyInDown
  <2>2. PathInv'
    BY <1>1, <1>2, <1>3, <1>4, <1>5, <1>7, <2>1 DEF PathInv, RequestInFlight, ReplyInFlight, AtMostOne,
       AnswerOnItsWay, OwnRequest, OwnAnswer, Calls
  <2> QED
    BY <1>1, <1>2, <1>3, <1>4, <1>7, <2>1, <2>2 DEF RequestInFlight, ReplyInFlight, Quiet
<1> QED
  BY <1>6, <1>7

LEMMA CommandCallback_EnterStep ==
  ASSUME TypeOK, PathInv, Threads, CommandCallback_Enter(Receiver)
  PROVE  /\ PathInv' /\ ~RequestInFlight /\ ReplyInFlight /\ ~RequestInFlight'
         /\ ReplyInFlight' /\ Answer' = Answer
<1>1. ReplyInDown
  BY DEF CommandCallback_Enter, ReplyInDown
<1>2. /\ ~RequestInWriteQ /\ ~RequestInWorker /\ ~RequestInUp /\ ~ReplyInReceiver
      /\ ~ReplyInCallback /\ ~ReplyInErrorQ
  BY <1>1 DEF PathInv, AtMostOne, ReplyInFlight
<1>3. /\ ~RequestInWriteQ' /\ ~RequestInWorker' /\ ~RequestInUp'
      /\ ~ReplyInReceiver' /\ ~ReplyInErrorQ'
  BY <1>2 DEF CommandCallback_Enter, RequestInWriteQ, RequestInWorker, RequestInUp,
              ReplyInReceiver, ReplyInErrorQ
<1>4. ~ReplyInDown'
  BY ThreadNames DEF CommandCallback_Enter, ReplyInDown, TypeOK
<1>5. UNCHANGED <<write, connected, adapter>>
  BY DEF CommandCallback_Enter
<1>6. ReplyInCallback' /\ callback'.command.body = down[Receiver].body
  <2>1. down[Receiver] \in Commands /\ down[Receiver].type = "HCI_DATA_ERROR_PACKET"
    BY <1>1, ThreadNames DEF TypeOK, Threads, ReplyInDown
  <2>2. callback' = [thread |-> Receiver, command |-> down[Receiver]]
    BY DEF CommandCallback_Enter
  <2> QED
    BY <2>1, <2>2, ThreadNames, BridgeAssumption DEF ReplyInCallback
<1>7. PathInv'
  BY <1>1, <1>2, <1>3, <1>4, <1>5, <1>6 DEF PathInv, RequestInFlight, ReplyInFlight, AtMostOne,
     AnswerOnItsWay, OwnRequest, OwnAnswer, Calls
<1> QED
  BY <1>1, <1>2, <1>3, <1>4, <1>6, <1>7 DEF RequestInFlight, ReplyInFlight, Answer

LEMMA CommandCallback_ErrorStep ==
  ASSUME TypeOK, PathInv, Threads, CommandCallback_Error
  PROVE  /\ PathInv' /\ ~RequestInFlight /\ ReplyInFlight /\ ~RequestInFlight'
         /\ ReplyInFlight' /\ Answer' = Answer
<1>1. ReplyInCallback
  BY DEF CommandCallback_Error, ReplyInCallback
<1>2. /\ ~RequestInWriteQ /\ ~RequestInWorker /\ ~RequestInUp /\ ~ReplyInReceiver
      /\ ~ReplyInDown /\ ~ReplyInErrorQ
  BY <1>1 DEF PathInv, AtMostOne, ReplyInFlight
<1>3. /\ ~RequestInWriteQ' /\ ~RequestInWorker' /\ ~RequestInUp'
      /\ ~ReplyInReceiver' /\ ~ReplyInCallback'
  BY <1>2 DEF CommandCallback_Error, Respond, RequestInWriteQ, RequestInWorker, RequestInUp,
              ReplyInReceiver, ReplyInCallback
<1>4. ~ReplyInDown'
  BY <1>2, ThreadNames DEF CommandCallback_Error, Respond, ReplyInDown, TypeOK
<1>5. UNCHANGED <<write, connected, adapter>>
  BY DEF CommandCallback_Error
<1>6. ReplyInErrorQ' /\ errorQ' = callback.command.body
  <2>1. callback.command \in Commands /\ callback.command.type = "HCI_DATA_ERROR_PACKET"
    BY <1>1 DEF TypeOK, ReplyInCallback
  <2>2. callback.command.body \in Results
    BY <2>1 DEF Commands, PingCommand, DataCommand, ErrorCommand
  <2> QED
    BY <2>2, PacketsAreNotNone DEF CommandCallback_Error, ReplyInErrorQ
<1>7. PathInv'
  BY <1>1, <1>2, <1>3, <1>4, <1>5, <1>6 DEF PathInv, RequestInFlight, ReplyInFlight, AtMostOne,
     AnswerOnItsWay, OwnRequest, OwnAnswer, Calls
<1> QED
  BY <1>1, <1>2, <1>3, <1>4, <1>6, <1>7 DEF RequestInFlight, ReplyInFlight, Answer

LEMMA BTE_Write_ReturnStep ==
  ASSUME TypeOK, PathInv, NEW w, OneWriter(w), BTE_Write_Return(w)
  PROVE  /\ PathInv' /\ ~RequestInFlight /\ ReplyInFlight /\ Quiet' /\ errorQ = Answer
         /\ adapter.packet = write[w].packet /\ adapter.result = errorQ
<1>1. ReplyInErrorQ
  BY DEF BTE_Write_Return, ReplyInErrorQ
<1>2. /\ ~RequestInWriteQ /\ ~RequestInWorker /\ ~RequestInUp /\ ~ReplyInReceiver
      /\ ~ReplyInDown /\ ~ReplyInCallback
  BY <1>1 DEF PathInv, AtMostOne, ReplyInFlight
<1>3. /\ ~RequestInWriteQ' /\ ~RequestInWorker' /\ ~RequestInUp' /\ ~ReplyInReceiver'
      /\ ~ReplyInDown' /\ ~ReplyInCallback' /\ ~ReplyInErrorQ'
  BY <1>2 DEF BTE_Write_Return, RequestInWriteQ, RequestInWorker, RequestInUp,
              ReplyInReceiver, ReplyInDown, ReplyInCallback, ReplyInErrorQ
<1>4. write' = [write EXCEPT ![w] = [pc |-> "idle", packet |-> None, ret |-> errorQ]]
  BY DEF BTE_Write_Return
<1>5. write'[w].pc = "idle" /\ \A x \in Writers : x = w
  BY <1>4 DEF TypeOK, OneWriter
<1>6. PathInv'
  BY <1>3, <1>5 DEF PathInv, RequestInFlight, ReplyInFlight, AtMostOne, AnswerOnItsWay,
     OwnRequest, OwnAnswer, Calls
<1>7. adapter.packet = write[w].packet /\ adapter.result = errorQ
  BY <1>1 DEF PathInv, OwnAnswer, ReplyInFlight, OneWriter, BTE_Write_Return
<1> QED
  BY <1>1, <1>2, <1>3, <1>6, <1>7 DEF RequestInFlight, ReplyInFlight, Answer, Quiet

LEMMA DisconnectStep ==
  ASSUME TypeOK, PathInv, Disconnect
  PROVE  /\ PathInv'
         /\ RequestInFlight' => RequestInFlight
         /\ RequestInFlight /\ ~RequestInFlight' => Quiet'
         /\ ReplyInFlight' => ReplyInFlight /\ Answer' = Answer
<1>1. ~RequestInUp' /\ ~ReplyInDown'
  BY ThreadNames DEF Disconnect, RequestInUp, ReplyInDown
<1>2. UNCHANGED <<write, writeQ, worker, receiver, callback, errorQ, adapter>>
  BY DEF Disconnect
<1>3. /\ RequestInWriteQ' <=> RequestInWriteQ
      /\ RequestInWorker' <=> RequestInWorker
      /\ ReplyInReceiver' <=> ReplyInReceiver
      /\ ReplyInCallback' <=> ReplyInCallback
      /\ ReplyInErrorQ' <=> ReplyInErrorQ
  BY <1>2 DEF RequestInWriteQ, RequestInWorker, ReplyInReceiver, ReplyInCallback, ReplyInErrorQ
<1>4. ~connected'
  BY DEF Disconnect
<1>5. AtMostOne' /\ AnswerOnItsWay'
  BY <1>1, <1>2, <1>3, <1>4 DEF PathInv, RequestInFlight, ReplyInFlight, AtMostOne, AnswerOnItsWay
<1>6. OwnRequest' /\ OwnAnswer' /\ Calls'
  BY <1>1, <1>2, <1>3 DEF PathInv, ReplyInFlight, OwnRequest, OwnAnswer, Calls
<1>7. ReplyInFlight' => ReplyInFlight /\ Answer' = Answer
  BY <1>1, <1>2, <1>3 DEF PathInv, AtMostOne, ReplyInFlight, Answer
<1> QED
  BY <1>1, <1>3, <1>5, <1>6, <1>7 DEF PathInv, AtMostOne, RequestInFlight, ReplyInFlight, Quiet
-----------------------------------------------------------------------------
(* The steps together.                                                     *)

\* What a step of the bridge is to the write of w.
Steps(w) ==
  \/ PathStays
  \/ \E p \in Packets : HCI_WritePacket(w, p)
  \/ WritePacket(w)
  \/ WorkingThread_Read /\ RequestInWriteQ
  \/ WorkingThread_Send /\ RequestInWorker
  \/ OnCommandPacketReceived
  \/ OnDeviceDataReceived_Reply
  \/ CommandCallback_Enter(Receiver)
  \/ CommandCallback_Error
  \/ BTE_Write_Return(w)
  \/ Disconnect

LEMMA NextSteps ==
  ASSUME TypeOK, Threads, NEW w, OneWriter(w), [Next]_vars PROVE Steps(w)
BY OtherSteps DEF Next, Steps, OneWriter

LEMMA InitPath == Init => PathInv
<1> SUFFICES ASSUME Init PROVE PathInv
  OBVIOUS
<1>1. /\ ~RequestInWriteQ /\ ~RequestInWorker /\ ~RequestInUp /\ ~ReplyInReceiver
      /\ ~ReplyInDown /\ ~ReplyInCallback /\ ~ReplyInErrorQ
  BY ThreadNames, PacketsAreNotNone DEF Init, RequestInWriteQ, RequestInWorker, RequestInUp,
     ReplyInReceiver, ReplyInDown, ReplyInCallback, ReplyInErrorQ
<1>2. \A w \in Writers : write[w].pc = "idle"
  BY DEF Init
<1> QED
  BY <1>1, <1>2 DEF PathInv, RequestInFlight, ReplyInFlight, AtMostOne, AnswerOnItsWay,
     OwnRequest, OwnAnswer, Calls

LEMMA NextPath ==
  ASSUME NEW w, OneWriter(w), TypeOK, Threads, PathInv, [Next]_vars PROVE PathInv'
BY NextSteps, StayingKeepsPath, HCI_WritePacketStep, WritePacketStep, WorkingThread_ReadStep,
   WorkingThread_SendStep, OnCommandPacketReceivedStep, OnDeviceDataReceived_ReplyStep,
   CommandCallback_EnterStep, CommandCallback_ErrorStep, BTE_Write_ReturnStep, DisconnectStep
   DEF Steps

LEMMA PathCorrect == ASSUME NEW w, OneWriter(w) PROVE Spec => []PathInv
<1>1. TypeOK /\ Threads /\ PathInv /\ [Next]_vars => PathInv'
  BY NextPath
<1> QED
  BY <1>1, InitPath, TypeCorrect, ThreadsCorrect, PTL DEF Spec

(* The stack's one writing thread has at most one request or answer under   *)
(* way, which is its own: BridgeInv, for any packets, events and listeners. *)
THEOREM BridgeCorrect == ASSUME NEW w, OneWriter(w) PROVE Spec => []BridgeInv
<1>1. TypeOK /\ Threads /\ PathInv => BridgeInv
  BY DEF PathInv, BridgeInv
<1> QED
  BY <1>1, PathCorrect, TypeCorrect, ThreadsCorrect, PTL

-----------------------------------------------------------------------------
(* BTE_Write returns the length only for a packet the adapter took.        *)
LEMMA ReturnStep ==
  ASSUME NEW w, OneWriter(w), TypeOK, Threads, PathInv, [Next]_vars
  PROVE  ReturnsLengthSent(w)
<1> SUFFICES ASSUME write[w].pc = "waiting", write'[w].ret = Success
             PROVE  adapter.packet = write[w].packet /\ adapter.result = Success
  BY DEF ReturnsLengthSent
<1>1. PathInv' /\ Steps(w)
  BY NextPath, NextSteps
<1>2. Success # None
  BY BridgeAssumption DEF Results
<1>3. write'[w].pc = "idle"
  BY <1>1, <1>2 DEF PathInv, Calls, OneWriter
<1>4. write' # write /\ ~WritePacket(w) /\ \A p \in Packets : ~HCI_WritePacket(w, p)
  BY <1>3 DEF WritePacket, HCI_WritePacket
<1>5. BTE_Write_Return(w)
  BY <1>1, <1>4 DEF Steps, PathStays, WorkingThread_Read, WorkingThread_Send,
     OnCommandPacketReceived, OnDeviceDataReceived_Reply, CommandCallback_Enter,
     CommandCallback_Error, Disconnect
<1>6. write'[w].ret = errorQ
  BY <1>5 DEF BTE_Write_Return, TypeOK, OneWriter
<1> QED
  BY <1>5, <1>6, BTE_Write_ReturnStep

(* "The length returned is guaranteed to be the length requested unless an  *)
(* error condition occurs": the adapter's last packet was the packet of the *)
(* call, and it took it.                                                   *)
THEOREM LengthReturned == ASSUME NEW u, OneWriter(u) PROVE Spec => LengthReturnedWasSent
<1>1. TypeOK /\ Threads /\ PathInv /\ [Next]_vars =>
        [\A w \in Writers : ReturnsLengthSent(w)]_vars
  <2> SUFFICES ASSUME TypeOK, Threads, PathInv, [Next]_vars, NEW w \in Writers
               PROVE  ReturnsLengthSent(w)
    OBVIOUS
  <2>1. w = u
    BY DEF OneWriter
  <2> QED
    BY <2>1, ReturnStep
<1>2. Spec => []PathInv
  BY PathCorrect
<1> QED
  BY <1>1, <1>2, TypeCorrect, ThreadsCorrect, PTL DEF Spec, LengthReturnedWasSent

-----------------------------------------------------------------------------
(* The bridge implements HciWriteService.                                  *)
Call == [x \in Writers |-> CallOf(x)]

Forms ==
  \A w \in Writers :
    /\ write[w].pc = "idle" =>
         CallOf(w) = [stage |-> "idle", packet |-> write[w].packet, result |-> write[w].ret]
    /\ write[w].pc = "writing" \/ (write[w].pc = "waiting" /\ RequestInFlight) =>
         CallOf(w) = [stage |-> "accepted", packet |-> write[w].packet, result |-> None]
    /\ write[w].pc = "waiting" /\ ~RequestInFlight /\ ReplyInFlight =>
         CallOf(w) = [stage |-> "performed", packet |-> write[w].packet, result |-> Answer]
    /\ write[w].pc = "waiting" /\ Quiet =>
         CallOf(w) = [stage |-> "lost", packet |-> write[w].packet, result |-> None]

LEMMA CallForms == Forms /\ Forms'
<1>1. Forms
  BY DEF Forms, CallOf, Quiet
<1> QED
  BY <1>1, PTL


\* What the service does to the record of a call.
Updated(c, stage, result) == [c EXCEPT !.stage = stage, !.result = result]
Cleared(c, stage) == [c EXCEPT !.stage = stage, !.packet = None]

LEMMA CallChanges ==
  ASSUME NEW c, NEW s, NEW p, NEW r, c = [stage |-> s, packet |-> p, result |-> r],
         NEW t, NEW u
  PROVE  /\ Updated(c, t, u) = [stage |-> t, packet |-> p, result |-> u]
         /\ Cleared(c, t) = [stage |-> t, packet |-> None, result |-> r]
<1> DEFINE staged == [c EXCEPT !.stage = t]
<1>1. staged = [stage |-> t, packet |-> p, result |-> r]
  OBVIOUS
<1> HIDE DEF staged
<1>2. [staged EXCEPT !.result = u] = [stage |-> t, packet |-> p, result |-> u]
  BY <1>1
<1>3. [staged EXCEPT !.packet = None] = [stage |-> t, packet |-> None, result |-> r]
  BY <1>1
<1> QED
  BY <1>2, <1>3 DEF staged, Updated, Cleared

\* The connection has broken, and with it perhaps the call.
LEMMA BreakStep ==
  ASSUME NEW w, OneWriter(w), ~connected', connected' \in BOOLEAN, UNCHANGED <<write, adapter>>,
         \/ CallOf(w)' = CallOf(w)
         \/ write[w].pc = "waiting" /\ (RequestInFlight \/ ReplyInFlight) /\ Quiet'
  PROVE  WriteService!Break
<1>1. CASE CallOf(w)' = CallOf(w)
  <2>1. {} \in SUBSET {x \in Writers : Call[x].stage \in {"accepted", "performed"}}
    OBVIOUS
  <2>2. Call' = [x \in Writers |-> IF x \in {} THEN [Call[x] EXCEPT !.stage = "lost", !.result = None]
                                   ELSE Call[x]]
    BY <1>1 DEF Call, OneWriter
  <2> QED
    BY <2>1, <2>2 DEF WriteService!Break, Call
<1>2. CASE write[w].pc = "waiting" /\ (RequestInFlight \/ ReplyInFlight) /\ Quiet'
  <2>1. PICK s, r :
          /\ s \in {"accepted", "performed"}
          /\ CallOf(w) = [stage |-> s, packet |-> write[w].packet, result |-> r]
    BY <1>2, CallForms DEF Forms, OneWriter
  <2>2. CallOf(w)' = Updated(CallOf(w), "lost", None)
    <3>1. CallOf(w)' = [stage |-> "lost", packet |-> write[w].packet, result |-> None]
      BY <1>2, CallForms DEF Forms, OneWriter
    <3> QED
      BY <2>1, <3>1, CallChanges
  <2>3. {w} \in SUBSET {x \in Writers : Call[x].stage \in {"accepted", "performed"}}
    BY <2>1 DEF Call, OneWriter
  <2>4. Call' = [x \in Writers |-> IF x \in {w} THEN [Call[x] EXCEPT !.stage = "lost", !.result = None]
                                   ELSE Call[x]]
    BY <2>2 DEF Call, OneWriter, Updated
  <2> QED
    BY <2>3, <2>4 DEF WriteService!Break, Call
<1> QED
  BY <1>1, <1>2

LEMMA SameCall ==
  ASSUME NEW w, OneWriter(w), UNCHANGED <<write, adapter, connected>>, CallOf(w)' = CallOf(w)
  PROVE  UNCHANGED WriteService!vars
BY DEF OneWriter, WriteService!vars

LEMMA ServiceStep ==
  ASSUME NEW w, OneWriter(w), TypeOK, Threads, PathInv, [Next]_vars
  PROVE  [WriteService!Next]_(WriteService!vars)
<1> DEFINE ServiceNext == [WriteService!Next]_(WriteService!vars)
<1>1. CASE PathStays
  <2>1. (RequestInFlight' <=> RequestInFlight) /\ (ReplyInFlight' <=> ReplyInFlight)
    BY <1>1 DEF PathStays, RequestInFlight, ReplyInFlight, RequestInUp
  <2>2. ReplyInFlight => Answer' = Answer
    BY <1>1 DEF PathStays, ReplyInFlight, Answer
  <2>3. CallOf(w)' = CallOf(w)
    BY <1>1, <2>1, <2>2, CallForms DEF PathStays, Forms, OneWriter, Quiet, TypeOK
  <2> QED
    BY <1>1, <2>3, SameCall DEF PathStays
<1>2. ASSUME NEW p \in Packets, HCI_WritePacket(w, p) PROVE ServiceNext
  <2>1. write' = [write EXCEPT ![w] = [pc |-> "writing", packet |-> p, ret |-> None]]
    BY <1>2 DEF HCI_WritePacket
  <2>2. write[w].pc = "idle" /\ write'[w].pc = "writing" /\ write'[w].packet = p
    BY <1>2, <2>1 DEF HCI_WritePacket, OneWriter, TypeOK
  <2>3. CallOf(w).stage = "idle" /\ CallOf(w)' = [stage |-> "accepted", packet |-> p, result |-> None]
    BY <2>2, CallForms DEF Forms, OneWriter
  <2>4. Call' = [Call EXCEPT ![w] = [stage |-> "accepted", packet |-> p, result |-> None]]
    BY <2>3 DEF Call, OneWriter
  <2>5. WriteService!Request(w, p)
    BY <1>2, <2>3, <2>4 DEF WriteService!Request, Call, OneWriter, HCI_WritePacket
  <2> QED
    BY <2>5 DEF WriteService!Next, OneWriter
<1>3. CASE WritePacket(w)
  <2>1. write' = [write EXCEPT ![w].pc = "waiting"]
    BY <1>3 DEF WritePacket
  <2>2. write[w].pc = "writing" /\ write'[w].pc = "waiting" /\ write'[w].packet = write[w].packet
    BY <1>3, <2>1 DEF WritePacket, OneWriter, TypeOK
  <2>3. CallOf(w)' = CallOf(w)
    BY <1>3, <2>2, WritePacketStep, CallForms DEF Forms, OneWriter
  <2> QED
    BY <1>3, <2>3 DEF OneWriter, WriteService!vars, WritePacket
<1>4. CASE WorkingThread_Read /\ RequestInWriteQ
  <2>1. CallOf(w)' = CallOf(w)
    BY <1>4, WorkingThread_ReadStep, CallForms
       DEF Forms, OneWriter, PathInv, AnswerOnItsWay, WorkingThread_Read
  <2> QED
    BY <1>4, <2>1, SameCall DEF WorkingThread_Read
<1>5. CASE WorkingThread_Send /\ RequestInWorker
  <2>1. RequestInFlight /\ write[w].pc = "waiting" /\ UNCHANGED <<write, adapter, connected>>
    BY <1>5, WorkingThread_SendStep DEF OneWriter, PathInv, AnswerOnItsWay, WorkingThread_Send
  <2>2. CASE connected
    <3>1. CallOf(w)' = CallOf(w)
      BY <1>5, <2>1, <2>2, WorkingThread_SendStep, CallForms DEF Forms, OneWriter
    <3> QED
      BY <2>1, <3>1, SameCall
  <2>3. CASE ~connected
    <3>1. WriteService!Break
      BY <1>5, <2>1, <2>3, WorkingThread_SendStep, BreakStep DEF TypeOK
    <3> QED
      BY <3>1 DEF WriteService!Next
  <2> QED
    BY <2>2, <2>3
<1>6. CASE OnCommandPacketReceived
  <2>1. /\ RequestInFlight /\ ~RequestInFlight' /\ ReplyInReceiver' /\ write[w].pc = "waiting"
        /\ UNCHANGED <<write, connected>> /\ receiver' \in Results
        /\ adapter' = [packet |-> write[w].packet, result |-> receiver', parity |-> 1 - adapter.parity]
    BY <1>6, OnCommandPacketReceivedStep
  <2>2. ReplyInFlight' /\ Answer' = receiver'
    BY <2>1 DEF ReplyInFlight, Answer
  <2>3. CallOf(w) = [stage |-> "accepted", packet |-> write[w].packet, result |-> None]
    BY <2>1, CallForms DEF Forms, OneWriter
  <2>4. CallOf(w)' = [stage |-> "performed", packet |-> write[w].packet, result |-> receiver']
    BY <2>1, <2>2, CallForms DEF Forms, OneWriter
  <2>5. Call' = [Call EXCEPT ![w].stage = "performed", ![w].result = receiver']
    <3>1. CallOf(w)' = Updated(CallOf(w), "performed", receiver')
      BY <2>3, <2>4, CallChanges
    <3> QED
      BY <3>1 DEF Call, OneWriter, Updated, Cleared
  <2>6. WriteService!Perform(w, receiver')
    BY <2>1, <2>3, <2>5 DEF WriteService!Perform, Call, OneWriter
  <2> QED
    BY <2>1, <2>6 DEF WriteService!Next, OneWriter
<1>7. CASE OnDeviceDataReceived_Reply
  <2>1. /\ ~RequestInFlight /\ ReplyInFlight /\ ~RequestInFlight' /\ write[w].pc = "waiting"
        /\ IF connected THEN ReplyInFlight' /\ Answer' = Answer ELSE Quiet'
        /\ UNCHANGED <<write, adapter, connected>>
    BY <1>7, OnDeviceDataReceived_ReplyStep
       DEF OneWriter, PathInv, AnswerOnItsWay, OnDeviceDataReceived_Reply
  <2>2. CASE connected
    <3>1. CallOf(w)' = CallOf(w)
      BY <2>1, <2>2, CallForms DEF Forms, OneWriter
    <3> QED
      BY <2>1, <3>1, SameCall
  <2>3. CASE ~connected
    <3>1. WriteService!Break
      BY <2>1, <2>3, BreakStep DEF TypeOK
    <3> QED
      BY <3>1 DEF WriteService!Next
  <2> QED
    BY <2>2, <2>3
<1>8. CASE CommandCallback_Enter(Receiver) \/ CommandCallback_Error
  <2>1. /\ ~RequestInFlight /\ ReplyInFlight /\ ~RequestInFlight' /\ write[w].pc = "waiting"
        /\ ReplyInFlight' /\ Answer' = Answer
        /\ UNCHANGED <<write, adapter, connected>>
    BY <1>8, CommandCallback_EnterStep, CommandCallback_ErrorStep
       DEF OneWriter, PathInv, AnswerOnItsWay, CommandCallback_Enter, CommandCallback_Error
  <2>2. CallOf(w)' = CallOf(w)
    BY <2>1, CallForms DEF Forms, OneWriter
  <2> QED
    BY <2>1, <2>2, SameCall
<1>9. CASE BTE_Write_Return(w)
  <2>1. write' = [write EXCEPT ![w] = [pc |-> "idle", packet |-> None, ret |-> errorQ]]
    BY <1>9 DEF BTE_Write_Return
  <2>2. /\ write[w].pc = "waiting" /\ write'[w].pc = "idle" /\ write'[w].packet = None
        /\ write'[w].ret = errorQ
    BY <1>9, <2>1 DEF BTE_Write_Return, OneWriter, TypeOK
  <2>3. CallOf(w) = [stage |-> "performed", packet |-> write[w].packet, result |-> errorQ]
    BY <1>9, <2>2, BTE_Write_ReturnStep, CallForms DEF Forms, OneWriter
  <2>4. CallOf(w)' = [stage |-> "idle", packet |-> None, result |-> errorQ]
    BY <2>2, CallForms DEF Forms, OneWriter
  <2>5. Call' = [Call EXCEPT ![w].stage = "idle", ![w].packet = None]
    <3>1. CallOf(w)' = Cleared(CallOf(w), "idle")
      BY <2>3, <2>4, CallChanges
    <3> QED
      BY <3>1 DEF Call, OneWriter, Updated, Cleared
  <2>6. WriteService!Return(w)
    BY <1>9, <2>3, <2>5 DEF WriteService!Return, Call, OneWriter, BTE_Write_Return
  <2> QED
    BY <2>6 DEF WriteService!Next, OneWriter
<1>10. CASE Disconnect
  <2>1. ~connected' /\ connected' \in BOOLEAN /\ UNCHANGED <<write, adapter>>
    BY <1>10, Zenon DEF Disconnect
  <2>2. \/ CallOf(w)' = CallOf(w)
        \/ write[w].pc = "waiting" /\ (RequestInFlight \/ ReplyInFlight) /\ Quiet'
    BY <1>10, <2>1, DisconnectStep, CallForms DEF Forms, OneWriter, Quiet, TypeOK
  <2> QED
    BY <2>1, <2>2, BreakStep DEF WriteService!Next
<1> QED
  BY <1>1, <1>2, <1>3, <1>4, <1>5, <1>6, <1>7, <1>8, <1>9, <1>10, NextSteps DEF Steps

(* Each write hands its own packet to the adapter exactly once and returns  *)
(* the adapter's answer to it, or is lost with the connection and never     *)
(* reports success: the data path implements HciWriteService.              *)
THEOREM WriteServiceImplemented == ASSUME NEW w, OneWriter(w) PROVE Spec => WritesAreServed
<1>1. Init => WriteService!Init
  <2> SUFFICES ASSUME Init PROVE WriteService!Init
    OBVIOUS
  <2>1. CallOf(w) = [stage |-> "idle", packet |-> None, result |-> None]
    BY CallForms DEF Forms, Init, OneWriter
  <2> QED
    BY <2>1 DEF Init, WriteService!Init, OneWriter
<1>2. TypeOK /\ Threads /\ PathInv /\ [Next]_vars => [WriteService!Next]_(WriteService!vars)
  BY ServiceStep
<1> QED
  BY <1>1, <1>2, PathCorrect, TypeCorrect, ThreadsCorrect, PTL
     DEF Spec, WritesAreServed, WriteService!Spec
=============================================================================
