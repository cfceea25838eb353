------------------------- MODULE RuntimeDevicesProofs -------------------------
(***************************************************************************)
(* Proofs about RuntimeDevices, for any number of plug-ins, slots, adapters*)
(* and reads per listener.  OwnInv says who owns the lock, the handles, the*)
(* slots and the reader threads at each step of an open or a close; it is  *)
(* inductive together with the types, and ReadersAreJoined follows from it.*)
(* AskInv, below it, follows the answers to GetDeviceInfo's commands on    *)
(* their way from the adapter to the slot of CHciLocal, and says whose     *)
(* information a slot will hold.                                           *)
(***************************************************************************)
EXTENDS RuntimeDevices, FiniteSetTheorems, SequenceTheorems, TLAPS

LEMMA Constants ==
  /\ Slots \subseteq Nat /\ Invalid \notin Slots /\ Listens \in Nat
  /\ None \notin Plugins /\ None \notin Threads /\ None \notin Adapters
<1>1. -1 \notin Nat
  OBVIOUS
<1> QED
  BY <1>1, RuntimeAssumption DEF Invalid, Threads

LEMMA Asked == \A k \in 1 .. Len(Queries) : Queries[k] \in Opcodes
  BY CommandsAssumption DEF Opcodes

(* Assignments to one entry of a function.                                 *)
LEMMA CallSet ==
  ASSUME CallType, NEW t \in Threads,
         NEW r \in [pc : StepsOf(t), id : Slots \cup {Invalid}, op : Opcodes \cup {None}],
         r.pc \in {"send", "close", "join"} => r.id \in Slots,
         r.pc = "send" => r.op \in Opcodes,
         call' = [call EXCEPT ![t] = r]
  PROVE  CallType'
  BY DEF CallType, StepsOf

LEMMA CallGoTo ==
  ASSUME CallType, NEW t \in Threads, NEW pc \in StepsOf(t), GoTo(t, pc),
         pc \notin {"send", "close"}, pc = "join" => call[t].id \in Slots
  PROVE  CallType'
  BY DEF CallType, GoTo, StepsOf

LEMMA SessionThread ==
  ASSUME NEW p \in Plugins
  PROVE  Session(p) \in Threads /\ StepsOf(Session(p)) = SessionSteps
  BY DEF Threads, StepsOf, Session

LEMMA ListenerSet ==
  ASSUME ThreadsType, NEW x \in Objects, NEW r \in ListenerStates,
         listener' = [listener EXCEPT ![x] = r]
  PROVE  listener' \in [Objects -> ListenerStates]
  BY DEF ThreadsType

LEMMA ReadsChanged ==
  ASSUME NEW r \in ListenerStates, NEW n \in 0 .. Listens, NEW S \in SUBSET Events,
         IsFiniteSet(S), n + Cardinality(S) <= Listens
  PROVE  [thread |-> r.thread, stop |-> r.stop, pending |-> n, signalled |-> S] \in ListenerStates
  BY DEF ListenerStates

LEMMA ReadsSet ==
  ASSUME listener \in [Objects -> ListenerStates], NEW x \in Objects, NEW n \in 0 .. Listens,
         NEW S \in SUBSET Events, IsFiniteSet(S), n + Cardinality(S) <= Listens,
         listener' = [listener EXCEPT ![x].pending = n, ![x].signalled = S]
  PROVE  listener' \in [Objects -> ListenerStates]
<1> DEFINE r == [thread |-> listener[x].thread, stop |-> listener[x].stop, pending |-> n,
                 signalled |-> S]
<1>1. listener[x] \in [thread : {"none", "running", "ended"}, stop : BOOLEAN,
                      pending : 0 .. Listens, signalled : SUBSET Events]
  BY DEF ListenerStates
<1>2. listener'[x] = r
  BY <1>1
<1>3. \A y \in Objects : y # x => listener'[y] = listener[y]
  OBVIOUS
<1>4. listener' = [y \in Objects |-> IF y = x THEN r ELSE listener[y]]
  BY <1>2, <1>3
<1>5. r \in ListenerStates
  BY ReadsChanged
<1> HIDE DEF r
<1> QED
  BY <1>4, <1>5

LEMMA StopSet ==
  ASSUME NEW r \in ListenerStates
  PROVE  [r EXCEPT !.stop = TRUE] \in ListenerStates
  BY DEF ListenerStates

LEMMA StopReads ==
  ASSUME NEW r \in ListenerStates
  PROVE  [r EXCEPT !.stop = TRUE].signalled = r.signalled
  BY DEF ListenerStates

LEMMA NewListeners ==
  /\ NoListener \in ListenerStates /\ Ended \in ListenerStates
  /\ \A p : Started(p) \in ListenerStates /\ [Started(p) EXCEPT !.stop = TRUE] \in ListenerStates
<1>1. IsFiniteSet({}) /\ Cardinality({}) = 0 /\ Listens \in Nat
  BY FS_EmptySet, Constants
<1>2. \A th \in {"none", "running", "ended"}, st \in BOOLEAN, n \in {0, Listens} :
        [thread |-> th, stop |-> st, pending |-> n, signalled |-> {}] \in ListenerStates
  BY <1>1 DEF ListenerStates
<1>3. \A p : (IF Plugged(p) THEN Listens ELSE 0) \in {0, Listens}
  OBVIOUS
<1>4. \A p : Started(p) \in ListenerStates
  BY <1>2, <1>3 DEF Started
<1> QED
  BY <1>2, <1>3, <1>4, StopSet DEF NoListener, Ended

(* What a step leaves alone keeps its type.                                *)
LEMMA SameTypes ==
  ASSUME DevicesTypeOK
  PROVE  /\ UNCHANGED plugin => PluginType'
         /\ UNCHANGED call => CallType'
         /\ UNCHANGED lock => LockType'
         /\ UNCHANGED <<slot, info>> => SlotType'
         /\ UNCHANGED handle => HandleType'
         /\ UNCHANGED query => QueryType'
         /\ UNCHANGED <<answers, known>> => AnswersType'
         /\ UNCHANGED <<listener, handlers, reading>> => ThreadsType'
         /\ UNCHANGED adapter => AdapterType'
  BY DEF DevicesTypeOK, PluginType, CallType, LockType, SlotType, HandleType, QueryType,
         AnswersType, ThreadsType, AdapterType

LEMMA PluggedAdapter ==
  ASSUME HandleType, NEW p \in Plugins, Plugged(p)
  PROVE  handle[p] \in Adapters
  BY DEF HandleType, Plugged

LEMMA NextIsOpcode ==
  ASSUME AnswersType, NEW p \in Plugins, Len(answers[p]) < Len(Queries)
  PROVE  NextQuery(p) \in Opcodes
  BY Asked, CommandsAssumption, LenProperties DEF AnswersType, NextQuery

LEMMA EventAppended ==
  ASSUME AdapterType, NEW a \in Adapters, NEW e \in Events,
         adapter' = [adapter EXCEPT ![a].events = Append(@, e)]
  PROVE  AdapterType'
<1>1. Append(adapter[a].events, e) \in Seq(Events)
  BY AppendProperties DEF AdapterType
<1> QED
  BY <1>1 DEF AdapterType

LEMMA SentCommand ==
  ASSUME DevicesTypeOK, NEW p \in Plugins, call[Session(p)].pc = "send"
  PROVE  /\ call[Session(p)].op \in Opcodes
         /\ slot[call[Session(p)].id] \in Plugins \cup {None}
  BY SessionThread DEF DevicesTypeOK, CallType, SlotType

LEMMA InitTypes == Init => DevicesTypeOK
<1> SUFFICES ASSUME Init PROVE DevicesTypeOK
  OBVIOUS
<1>1. PluginType
  <2>1. \A p \in Plugins : StackCommands[p] \subseteq Opcodes
    BY DEF Opcodes
  <2> QED
    BY <2>1 DEF Init, PluginType
<1>2. CallType
  BY DEF Init, CallType, Idle, StepsOf, SessionSteps, TimerSteps
<1>3. LockType /\ SlotType /\ HandleType /\ QueryType /\ AnswersType
  BY DEF Init, LockType, SlotType, HandleType, QueryType, AnswersType, NoQuery
<1>4. ThreadsType
  BY NewListeners DEF Init, ThreadsType
<1>5. AdapterType
  BY DEF Init, AdapterType
<1> QED
  BY <1>1, <1>2, <1>3, <1>4, <1>5 DEF DevicesTypeOK

LEMMA Distinct ==
  ASSUME NEW p \in Plugins, NEW q \in Plugins, Session(p) = Session(q)
  PROVE  p = q
  BY DEF Session


-----------------------------------------------------------------------------
(* Each action keeps the types.                                            *)

LEMMA OpenDevice_Types ==
  ASSUME DevicesTypeOK, NEW p \in Plugins, OpenDevice(p)
  PROVE  DevicesTypeOK'
<1>1. PluginType'
  BY DEF DevicesTypeOK, PluginType, OpenDevice
<1>2. CallType'
  BY CallGoTo, CallSet, SessionThread
     DEF DevicesTypeOK, CallType, OpenDevice, SessionSteps, OpeningSteps, TimerSteps
<1> QED
  BY <1>1, <1>2, SameTypes DEF DevicesTypeOK, OpenDevice

LEMMA OpenDevice_Return_Types ==
  ASSUME DevicesTypeOK, NEW p \in Plugins, OpenDevice_Return(p)
  PROVE  DevicesTypeOK'
<1>1. PluginType'
  <2> DEFINE id == call[Session(p)].id
  <2>1. id \in Slots \cup {Invalid}
    BY SessionThread DEF DevicesTypeOK, CallType
  <2>2. plugin' = [plugin EXCEPT ![p].dataId = id, ![p].devId = id]
    BY DEF OpenDevice_Return
  <2>3. plugin' = [plugin EXCEPT ![p] = [plugin[p] EXCEPT !.dataId = id, !.devId = id]]
    BY <2>2
  <2> HIDE DEF id
  <2>4. [plugin[p] EXCEPT !.dataId = id, !.devId = id]
          \in [started : BOOLEAN, connected : BOOLEAN, dataId : Slots \cup {Invalid},
               devId : Slots \cup {Invalid}, unsent : SUBSET Opcodes]
    BY <2>1 DEF DevicesTypeOK, PluginType
  <2> QED
    BY <2>3, <2>4 DEF DevicesTypeOK, PluginType
<1>2. CallType'
  BY CallGoTo, CallSet, SessionThread
     DEF DevicesTypeOK, CallType, OpenDevice_Return, SessionSteps, OpeningSteps,
         TimerSteps, Idle
<1> QED
  BY <1>1, <1>2, SameTypes DEF DevicesTypeOK, OpenDevice_Return

LEMMA OnDeviceDataReceived_Types ==
  ASSUME DevicesTypeOK, NEW p \in Plugins, NEW op \in Opcodes, OnDeviceDataReceived(p,op)
  PROVE  DevicesTypeOK'
<1>1. PluginType'
  BY DEF DevicesTypeOK, PluginType, OnDeviceDataReceived
<1>2. CallType'
  <2>1. plugin[p].devId \in Slots
    BY DEF DevicesTypeOK, PluginType, OnDeviceDataReceived
  <2>2. call' = [call EXCEPT ![Session(p)] = [pc |-> "send", id |-> plugin[p].devId, op |-> op]]
    BY DEF OnDeviceDataReceived
  <2> QED
    BY <2>1, <2>2, CallSet, SessionThread DEF DevicesTypeOK, SessionSteps
<1> QED
  BY <1>1, <1>2, SameTypes DEF DevicesTypeOK, OnDeviceDataReceived

LEMMA CloseDevice_Types ==
  ASSUME DevicesTypeOK, NEW t \in Threads, CloseDevice(t)
  PROVE  DevicesTypeOK'
<1>1. CallType'
  <2>1. t[1] \in Plugins /\ StepsOf(t) = TimerSteps
    BY DEF Threads, StepsOf, CloseDevice
  <2>2. plugin[t[1]].dataId \in Slots
    BY <2>1 DEF DevicesTypeOK, PluginType, CloseDevice
  <2>3. call' = [call EXCEPT ![t] = [pc |-> "close", id |-> plugin[t[1]].dataId, op |-> None]]
    BY DEF CloseDevice
  <2> QED
    BY <2>1, <2>2, <2>3, CallSet DEF DevicesTypeOK, TimerSteps
<1> QED
  BY <1>1, SameTypes DEF DevicesTypeOK, CloseDevice

LEMMA CloseDevice_Return_Types ==
  ASSUME DevicesTypeOK, NEW t \in Threads, CloseDevice_Return(t)
  PROVE  DevicesTypeOK'
<1>1. PluginType'
  BY DEF DevicesTypeOK, PluginType, CloseDevice_Return
<1>2. CallType'
  BY CallGoTo, CallSet
     DEF DevicesTypeOK, CallType, CloseDevice_Return, SessionSteps, OpeningSteps,
         TimerSteps, StepsOf, Idle
<1> QED
  BY <1>1, <1>2, SameTypes DEF DevicesTypeOK, CloseDevice_Return

LEMMA Disconnect_Types ==
  ASSUME DevicesTypeOK, NEW p \in Plugins, Disconnect(p)
  PROVE  DevicesTypeOK'
<1>1. PluginType'
  BY DEF DevicesTypeOK, PluginType, Disconnect
<1> QED
  BY <1>1, SameTypes DEF DevicesTypeOK, Disconnect

LEMMA ReadCompletes_Types ==
  ASSUME DevicesTypeOK, NEW x \in Objects, ReadCompletes(x)
  PROVE  DevicesTypeOK'
<1>1. ThreadsType'
  <2> DEFINE e == Head(adapter[handle[x[2]]].events)
             old == listener[x].signalled
             new == old \cup {e}
  <2>1. e \in Events
    BY PluggedAdapter, HeadTailProperties
       DEF ReadCompletes, DevicesTypeOK, AdapterType, Objects
  <2>2. /\ listener[x].pending \in 0 .. Listens /\ listener[x].pending > 0
        /\ old \subseteq Events /\ IsFiniteSet(old) /\ listener[x].pending + Cardinality(old) <= Listens
    BY DEF ReadCompletes, DevicesTypeOK, ThreadsType, ListenerStates
  <2>3. new \subseteq Events
    BY <2>1, <2>2
  <2>4. Cardinality(old) \in Nat
    BY <2>2, FS_CardinalityType
  <2>5. IsFiniteSet(new) /\ (Cardinality(new) = Cardinality(old) \/ Cardinality(new) = Cardinality(old) + 1)
    BY <2>2, FS_AddElement
  <2>6. listener' = [listener EXCEPT ![x].pending = listener[x].pending - 1, ![x].signalled = new]
    BY DEF ReadCompletes, DevicesTypeOK, ThreadsType
  <2> HIDE DEF new, old
  <2>7. listener[x].pending - 1 \in 0 .. Listens /\ (listener[x].pending - 1) + Cardinality(new) <= Listens
    BY <2>2, <2>4, <2>5, Constants
  <2> QED
    BY <2>3, <2>5, <2>6, <2>7, ReadsSet DEF ReadCompletes, DevicesTypeOK, ThreadsType
<1>2. AdapterType'
  <2>1. adapter[handle[x[2]]].events \in Seq(Events) /\ adapter[handle[x[2]]].events # <<>>
    BY PluggedAdapter DEF ReadCompletes, DevicesTypeOK, AdapterType, Objects
  <2>2. Tail(adapter[handle[x[2]]].events) \in Seq(Events)
    BY <2>1, HeadTailProperties
  <2> QED
    BY <2>2 DEF ReadCompletes, DevicesTypeOK, AdapterType
<1> QED
  BY <1>1, <1>2, SameTypes DEF DevicesTypeOK, ReadCompletes

LEMMA Listener_Event_Types ==
  ASSUME DevicesTypeOK, NEW x \in Objects, NEW e \in listener[x].signalled, Listener_Event(x,e)
  PROVE  DevicesTypeOK'
<1>1. ThreadsType'
  <2> DEFINE n == IF Plugged(x[2]) THEN listener[x].pending + 1 ELSE listener[x].pending
             old == listener[x].signalled
             new == old \ {e}
  <2>1. /\ listener[x].pending \in 0 .. Listens /\ e \in old /\ x[2] \in Plugins
        /\ old \subseteq Events /\ IsFiniteSet(old) /\ listener[x].pending + Cardinality(old) <= Listens
    BY DEF Listener_Event, DevicesTypeOK, ThreadsType, ListenerStates, Objects
  <2>2. new \subseteq Events
    BY <2>1
  <2>3. Cardinality(old) \in Nat
    BY <2>1, FS_CardinalityType
  <2>4. IsFiniteSet(new) /\ Cardinality(new) = Cardinality(old) - 1
    BY <2>1, FS_RemoveElement
  <2>5. listener' = [listener EXCEPT ![x].pending = n, ![x].signalled = new]
    BY DEF Listener_Event, DevicesTypeOK, ThreadsType
  <2>6. handlers' \subseteq [of : Plugins, event : Events, pc : {"started", "found"}]
    BY <2>1 DEF Listener_Event, Handled, DevicesTypeOK, ThreadsType
  <2>7. Cardinality(new) \in Nat
    BY <2>4, FS_CardinalityType
  <2> HIDE DEF new, old
  <2>8. n \in 0 .. Listens /\ n + Cardinality(new) <= Listens
    BY <2>1, <2>3, <2>4, <2>7, Constants
  <2> HIDE DEF n
  <2> QED
    BY <2>2, <2>4, <2>5, <2>6, <2>8, ReadsSet
       DEF Listener_Event, DevicesTypeOK, ThreadsType
<1> QED
  BY <1>1, SameTypes DEF DevicesTypeOK, Listener_Event

LEMMA Listener_Stop_Types ==
  ASSUME DevicesTypeOK, NEW x \in Objects, Listener_Stop(x)
  PROVE  DevicesTypeOK'
<1>1. ThreadsType'
  BY ListenerSet, NewListeners, StopSet
     DEF DevicesTypeOK, ThreadsType, Listener_Stop, Objects, Handled
<1> QED
  BY <1>1, SameTypes DEF DevicesTypeOK, Listener_Stop

LEMMA Listener_Failed_Types ==
  ASSUME DevicesTypeOK, NEW x \in Objects, Listener_Failed(x)
  PROVE  DevicesTypeOK'
<1>1. ThreadsType'
  BY ListenerSet, NewListeners, StopSet
     DEF DevicesTypeOK, ThreadsType, Listener_Failed, Objects, Handled
<1> QED
  BY <1>1, SameTypes DEF DevicesTypeOK, Listener_Failed

LEMMA Listener_NoHandle_Types ==
  ASSUME DevicesTypeOK, NEW x \in Objects, Listener_NoHandle(x)
  PROVE  DevicesTypeOK'
<1>1. ThreadsType'
  BY ListenerSet, NewListeners, StopSet
     DEF DevicesTypeOK, ThreadsType, Listener_NoHandle, Objects, Handled
<1> QED
  BY <1>1, SameTypes DEF DevicesTypeOK, Listener_NoHandle

LEMMA CommandCompleteHandler_Find_Types ==
  ASSUME DevicesTypeOK, NEW h \in handlers, CommandCompleteHandler_Find(h)
  PROVE  DevicesTypeOK'
<1>1. ThreadsType'
  BY ListenerSet, NewListeners, StopSet
     DEF DevicesTypeOK, ThreadsType, CommandCompleteHandler_Find, Objects, Handled
<1> QED
  BY <1>1, SameTypes DEF DevicesTypeOK, CommandCompleteHandler_Find

LEMMA CommandCompleteHandler_Complete_Types ==
  ASSUME DevicesTypeOK, NEW h \in handlers, CommandCompleteHandler_Complete(h)
  PROVE  DevicesTypeOK'
<1>1. QueryType'
  <2>1. h.event \in Events
    BY DEF DevicesTypeOK, ThreadsType
  <2> QED
    BY <2>1 DEF CommandCompleteHandler_Complete, DevicesTypeOK, QueryType
<1>2. ThreadsType'
  BY ListenerSet, NewListeners, StopSet
     DEF DevicesTypeOK, ThreadsType, CommandCompleteHandler_Complete, Objects, Handled
<1> QED
  BY <1>1, <1>2, SameTypes DEF DevicesTypeOK, CommandCompleteHandler_Complete

LEMMA CommandCompleteHandler_TooLong_Types ==
  ASSUME DevicesTypeOK, NEW h \in handlers, CommandCompleteHandler_TooLong(h)
  PROVE  DevicesTypeOK'
<1>1. QueryType'
  BY DEF CommandCompleteHandler_TooLong, DevicesTypeOK, QueryType
<1>2. ThreadsType'
  BY ListenerSet, NewListeners, StopSet
     DEF DevicesTypeOK, ThreadsType, CommandCompleteHandler_TooLong, Objects, Handled
<1> QED
  BY <1>1, <1>2, SameTypes DEF DevicesTypeOK, CommandCompleteHandler_TooLong

LEMMA Export_OpenDevice_Types ==
  ASSUME DevicesTypeOK, NEW p \in Plugins, Export_OpenDevice(p)
  PROVE  DevicesTypeOK'
<1>1. CallType'
  BY CallGoTo, CallSet, SessionThread
     DEF DevicesTypeOK, CallType, Export_OpenDevice, SessionSteps, OpeningSteps,
         TimerSteps, AttachHardware
<1>2. LockType'
  BY SessionThread DEF DevicesTypeOK, LockType, Export_OpenDevice, AttachHardware
<1>3. HandleType'
  BY DEF DevicesTypeOK, HandleType, Export_OpenDevice, AttachHardware
<1> QED
  BY <1>1, <1>2, <1>3, SameTypes DEF DevicesTypeOK, Export_OpenDevice, AttachHardware

LEMMA GetDeviceInfo_Types ==
  ASSUME DevicesTypeOK, NEW p \in Plugins, GetDeviceInfo(p)
  PROVE  DevicesTypeOK'
<1>1. CallType'
  BY CallGoTo, CallSet, SessionThread
     DEF DevicesTypeOK, CallType, GetDeviceInfo, SessionSteps, OpeningSteps, TimerSteps
<1>2. QueryType'
  BY DEF DevicesTypeOK, QueryType, GetDeviceInfo, NoQuery
<1>3. ThreadsType'
  BY ListenerSet, NewListeners, StopSet
     DEF DevicesTypeOK, ThreadsType, GetDeviceInfo, Objects, Handled
<1> QED
  BY <1>1, <1>2, <1>3, SameTypes DEF DevicesTypeOK, GetDeviceInfo

LEMMA GetDeviceInfo_NoListener_Types ==
  ASSUME DevicesTypeOK, NEW p \in Plugins, GetDeviceInfo_NoListener(p)
  PROVE  DevicesTypeOK'
<1>1. CallType'
  BY CallGoTo, CallSet, SessionThread
     DEF DevicesTypeOK, CallType, GetDeviceInfo_NoListener, SessionSteps, OpeningSteps, TimerSteps
<1>2. QueryType'
  BY DEF DevicesTypeOK, QueryType, GetDeviceInfo_NoListener, NoQuery
<1> QED
  BY <1>1, <1>2, SameTypes DEF DevicesTypeOK, GetDeviceInfo_NoListener

LEMMA SendRead_Types ==
  ASSUME DevicesTypeOK, NEW p \in Plugins, SendRead(p)
  PROVE  DevicesTypeOK'
<1>1. CallType'
  BY CallGoTo, CallSet, SessionThread
     DEF DevicesTypeOK, CallType, SendRead, SessionSteps, OpeningSteps, TimerSteps,
         QueueCommand, SendCommand
<1>2. QueryType'
  <2>1. NextQuery(p) \in Opcodes
    BY NextIsOpcode DEF DevicesTypeOK, SendRead, QueueCommand, SendCommand
  <2> QED
    BY <2>1 DEF SendRead, DevicesTypeOK, QueryType, QueueCommand, SendCommand
<1>3. AnswersType'
  <2>1. Append(answers[p], None) \in Seq(Events \cup {None})
    BY AppendProperties DEF DevicesTypeOK, AnswersType
  <2> QED
    BY <2>1 DEF SendRead, DevicesTypeOK, AnswersType, QueueCommand, SendCommand
<1>4. AdapterType'
  <2>1. Answer(NextQuery(p), p, "query") \in Events
    BY NextIsOpcode
       DEF DevicesTypeOK, SendRead, Answer, Events, QueueCommand, SendCommand
  <2> QED
    BY <2>1, PluggedAdapter, EventAppended
       DEF SendRead, DevicesTypeOK, AdapterType, QueueCommand, SendCommand
<1> QED
  BY <1>1, <1>2, <1>3, <1>4, SameTypes
     DEF DevicesTypeOK, SendRead, QueueCommand, SendCommand

LEMMA WaitForCommandComplete_Types ==
  ASSUME DevicesTypeOK, NEW p \in Plugins, WaitForCommandComplete(p)
  PROVE  DevicesTypeOK'
<1>1. CallType'
  BY CallGoTo, CallSet, SessionThread
     DEF DevicesTypeOK, CallType, WaitForCommandComplete, SessionSteps, OpeningSteps,
         TimerSteps, DeQueueCommand
<1>2. QueryType'
  BY DEF DevicesTypeOK, QueryType, WaitForCommandComplete, NoQuery, DeQueueCommand
<1>3. AnswersType'
  <2>1. query.buffer \in Events \cup {None}
    BY DEF DevicesTypeOK, QueryType
  <2>2. Append(answers[p], query.buffer) \in Seq(Events \cup {None})
    BY <2>1, AppendProperties DEF DevicesTypeOK, AnswersType
  <2>3. known' \subseteq Plugins
    BY DEF WaitForCommandComplete, Note, DevicesTypeOK, AnswersType
  <2> QED
    BY <2>2, <2>3 DEF WaitForCommandComplete, DevicesTypeOK, AnswersType, DeQueueCommand
<1> QED
  BY <1>1, <1>2, <1>3, SameTypes
     DEF DevicesTypeOK, WaitForCommandComplete, DeQueueCommand

LEMMA GetDeviceInfo_Stop_Types ==
  ASSUME DevicesTypeOK, NEW p \in Plugins, GetDeviceInfo_Stop(p)
  PROVE  DevicesTypeOK'
<1>1. CallType'
  BY CallGoTo, CallSet, SessionThread
     DEF DevicesTypeOK, CallType, GetDeviceInfo_Stop, SessionSteps, OpeningSteps,
         TimerSteps
<1>2. ThreadsType'
  BY ListenerSet, NewListeners, StopSet
     DEF DevicesTypeOK, ThreadsType, GetDeviceInfo_Stop, Objects, Handled
<1> QED
  BY <1>1, <1>2, SameTypes DEF DevicesTypeOK, GetDeviceInfo_Stop

LEMMA GetDeviceInfo_Return_Types ==
  ASSUME DevicesTypeOK, NEW p \in Plugins, GetDeviceInfo_Return(p)
  PROVE  DevicesTypeOK'
<1>1. CallType'
  BY CallGoTo, CallSet, SessionThread
     DEF DevicesTypeOK, CallType, GetDeviceInfo_Return, SessionSteps, OpeningSteps,
         TimerSteps
<1>2. SlotType'
  BY DEF DevicesTypeOK, SlotType, GetDeviceInfo_Return
<1>3. QueryType'
  BY DEF DevicesTypeOK, QueryType, GetDeviceInfo_Return, NoQuery
<1>4. ThreadsType'
  BY ListenerSet, NewListeners, StopSet
     DEF DevicesTypeOK, ThreadsType, GetDeviceInfo_Return, Objects, Handled
<1> QED
  BY <1>1, <1>2, <1>3, <1>4, SameTypes DEF DevicesTypeOK, GetDeviceInfo_Return

LEMMA StartEventListener_Types ==
  ASSUME DevicesTypeOK, NEW p \in Plugins, StartEventListener(p)
  PROVE  DevicesTypeOK'
<1>1. CallType'
  <2>1. PICK i \in Slots : call' = [call EXCEPT ![Session(p)].pc = "opened", ![Session(p)].id = i]
    BY DEF StartEventListener
  <2> QED
    BY <2>1, SessionThread DEF DevicesTypeOK, CallType, SessionSteps
<1>2. LockType'
  BY SessionThread DEF DevicesTypeOK, LockType, StartEventListener
<1>3. SlotType'
  BY DEF DevicesTypeOK, SlotType, StartEventListener
<1>4. ThreadsType'
  BY ListenerSet, NewListeners, StopSet
     DEF DevicesTypeOK, ThreadsType, StartEventListener, Objects, Handled
<1> QED
  BY <1>1, <1>2, <1>3, <1>4, SameTypes DEF DevicesTypeOK, StartEventListener

LEMMA StartEventListener_Failed_Types ==
  ASSUME DevicesTypeOK, NEW p \in Plugins, StartEventListener_Failed(p)
  PROVE  DevicesTypeOK'
<1>1. CallType'
  BY CallGoTo, CallSet, SessionThread
     DEF DevicesTypeOK, CallType, StartEventListener_Failed, SessionSteps, OpeningSteps,
         TimerSteps
<1>2. LockType'
  BY SessionThread DEF DevicesTypeOK, LockType, StartEventListener_Failed
<1> QED
  BY <1>1, <1>2, SameTypes DEF DevicesTypeOK, StartEventListener_Failed

LEMMA StartEventListener_ReaderFailed_Types ==
  ASSUME DevicesTypeOK, NEW p \in Plugins, StartEventListener_ReaderFailed(p)
  PROVE  DevicesTypeOK'
<1>1. CallType'
  BY CallGoTo, CallSet, SessionThread
     DEF DevicesTypeOK, CallType, StartEventListener_ReaderFailed, SessionSteps,
         OpeningSteps, TimerSteps
<1>2. ThreadsType'
  BY ListenerSet, NewListeners, StopSet
     DEF DevicesTypeOK, ThreadsType, StartEventListener_ReaderFailed, Objects, Handled
<1> QED
  BY <1>1, <1>2, SameTypes DEF DevicesTypeOK, StartEventListener_ReaderFailed

LEMMA DeleteDevice_Types ==
  ASSUME DevicesTypeOK, NEW p \in Plugins, DeleteDevice(p)
  PROVE  DevicesTypeOK'
<1>1. CallType'
  BY CallGoTo, CallSet, SessionThread
     DEF DevicesTypeOK, CallType, DeleteDevice, SessionSteps, OpeningSteps, TimerSteps
<1>2. LockType'
  BY SessionThread DEF DevicesTypeOK, LockType, DeleteDevice
<1>3. ThreadsType'
  BY ListenerSet, NewListeners, StopSet
     DEF DevicesTypeOK, ThreadsType, DeleteDevice, Objects, Handled
<1> QED
  BY <1>1, <1>2, <1>3, SameTypes DEF DevicesTypeOK, DeleteDevice

LEMMA Export_CloseDevice_Types ==
  ASSUME DevicesTypeOK, NEW t \in Threads, Export_CloseDevice(t)
  PROVE  DevicesTypeOK'
<1>1. CallType'
  BY CallGoTo, CallSet
     DEF DevicesTypeOK, CallType, Export_CloseDevice, SessionSteps, OpeningSteps,
         TimerSteps, StepsOf
<1>2. LockType'
  BY SessionThread DEF DevicesTypeOK, LockType, Export_CloseDevice
<1>3. ThreadsType'
  BY ListenerSet, NewListeners, StopSet
     DEF DevicesTypeOK, ThreadsType, Export_CloseDevice, Objects, Handled
<1> QED
  BY <1>1, <1>2, <1>3, SameTypes DEF DevicesTypeOK, Export_CloseDevice

LEMMA Export_CloseDevice_Return_Types ==
  ASSUME DevicesTypeOK, NEW t \in Threads, Export_CloseDevice_Return(t)
  PROVE  DevicesTypeOK'
<1>1. CallType'
  BY CallGoTo, CallSet
     DEF DevicesTypeOK, CallType, Export_CloseDevice_Return, SessionSteps, OpeningSteps,
         TimerSteps, StepsOf, Detach
<1>2. LockType'
  BY SessionThread DEF DevicesTypeOK, LockType, Export_CloseDevice_Return, Detach
<1>3. SlotType'
  BY DEF DevicesTypeOK, SlotType, Export_CloseDevice_Return, Detach
<1>4. HandleType'
  BY DEF DevicesTypeOK, HandleType, Export_CloseDevice_Return, Detach
<1>5. ThreadsType'
  BY ListenerSet, NewListeners, StopSet
     DEF DevicesTypeOK, ThreadsType, Export_CloseDevice_Return, Objects, Handled, Detach
<1> QED
  BY <1>1, <1>2, <1>3, <1>4, <1>5, SameTypes
     DEF DevicesTypeOK, Export_CloseDevice_Return, Detach

LEMMA Export_SendHCICommand_Types ==
  ASSUME DevicesTypeOK, NEW p \in Plugins, Export_SendHCICommand(p)
  PROVE  DevicesTypeOK'
<1>1. CallType'
  BY CallGoTo, CallSet, SessionThread
     DEF DevicesTypeOK, CallType, Export_SendHCICommand, SessionSteps, OpeningSteps,
         TimerSteps, Idle, SendCommand
<1>2. AdapterType'
  <2> DEFINE q == slot[call[Session(p)].id]
             e == Answer(call[Session(p)].op, p, "stack")
  <2>1. CASE q # None /\ Plugged(q)
    <3>1. q \in Plugins /\ e \in Events
      BY <2>1, SentCommand DEF Export_SendHCICommand, Answer, Events, SendCommand
    <3>2. adapter' = [adapter EXCEPT ![handle[q]].events = Append(@, e)]
      BY <2>1 DEF Export_SendHCICommand, SendCommand
    <3> HIDE DEF q, e
    <3> QED
      BY <2>1, <3>1, <3>2, PluggedAdapter, EventAppended DEF DevicesTypeOK
  <2>2. CASE ~(q # None /\ Plugged(q))
    BY <2>2 DEF Export_SendHCICommand, DevicesTypeOK, AdapterType, SendCommand
  <2> QED
    BY <2>1, <2>2
<1> QED
  BY <1>1, <1>2, SameTypes DEF DevicesTypeOK, Export_SendHCICommand, SendCommand

LEMMA Unplug_Types ==
  ASSUME DevicesTypeOK, NEW a \in Adapters, Unplug(a)
  PROVE  DevicesTypeOK'
<1>1. AdapterType'
  BY DEF DevicesTypeOK, AdapterType, Unplug
<1> QED
  BY <1>1, SameTypes DEF DevicesTypeOK, Unplug

-----------------------------------------------------------------------------
(* Who owns what.                                                          *)

\* A thread holds g_hciCritSection from the attach to the end of OpenDevice,
\* and from the stop event to the end of CloseDevice.
LockHeld == \A t \in Threads : call[t].pc \in OpeningSteps \cup {"join"} <=> lock = t
\* How far a plug-in has come with its one OpenDevice.
Sessions ==
  \A p \in Plugins :
    /\ call[Session(p)].pc \in {"open"} \cup OpeningSteps => plugin[p].started /\ plugin[p].devId = Invalid
    /\ call[Session(p)].pc \in {"idle", "open"} \cup OpeningSteps => call[Session(p)].id = Invalid
    /\ call[Session(p)].pc = "opened" => plugin[p].started
    /\ ~plugin[p].started => /\ call[Session(p)].pc = "idle" /\ plugin[p].devId = Invalid
                             /\ handle[p] = None
    /\ call[Session(p)].pc \in OpeningSteps => handle[p] # None
\* The device that is being closed is still in its slot.
Joins == \A t \in Threads : call[t].pc = "join" => slot[call[t].id] # None
\* A listener runs for an object that exists.
Readers ==
  \A p \in Plugins :
    /\ listener[<<"query", p>>].thread # "none" => call[Session(p)].pc \in {"ask", "answer", "stop"}
    /\ listener[<<"device", p>>].thread # "none" => InSlot(p) \/ call[Session(p)].pc = "undo"
    /\ p \in reading => InSlot(p)
OwnInv == LockHeld /\ Sessions /\ Joins /\ HandlesAreOwned /\ Readers

LEMMA ReadersKept ==
  ASSUME Readers, UNCHANGED slot, reading' \subseteq reading,
         \A x \in Objects : listener'[x].thread # "none" => listener[x].thread # "none",
         \A p \in Plugins :
           /\ call[Session(p)].pc \in {"ask", "answer", "stop"} => call'[Session(p)].pc \in {"ask", "answer", "stop"}
           /\ call[Session(p)].pc = "undo" => call'[Session(p)].pc = "undo"
  PROVE  Readers'
  BY DEF Readers, InSlot, Objects

LEMMA Moves ==
  ASSUME CallType, NEW t \in Threads, NEW pc, GoTo(t, pc)
  PROVE  \A u \in Threads : call'[u].id = call[u].id /\ call'[u].pc = IF u = t THEN pc ELSE call[u].pc
  BY DEF CallType, GoTo

LEMMA Closers ==
  ASSUME CallType, NEW t \in Threads, t[2] # "session" \/ call[t].pc \in {"close", "join", "closed"}
  PROVE  \A p \in Plugins : Session(p) # t
<1>1. CASE t[2] # "session"
  BY <1>1 DEF Session
<1>2. CASE call[t].pc \in {"close", "join", "closed"}
  BY <1>2, SessionThread DEF CallType, SessionSteps, OpeningSteps
<1> QED
  BY <1>1, <1>2

(* A step that moves no handle or slot, and changes no result of OpenDevice. *)
LEMMA HandlesKept ==
  ASSUME HandlesAreOwned, UNCHANGED <<slot, handle>>,
         \A p \in Plugins : /\ OpenResult(p)' = OpenResult(p)
                            /\ Opening(p) => Opening(p)'
                            /\ plugin[p].started => plugin'[p].started
  PROVE  HandlesAreOwned'
<1>1. \A p, q \in Plugins : handle'[p] = handle'[q] /\ handle'[p] # None => p = q
  BY DEF HandlesAreOwned
<1>2. \A i \in Slots, p \in Plugins : slot'[i] = p => handle'[p] # None /\ OpenResult(p)' = i
  BY DEF HandlesAreOwned
<1>3. \A p \in Plugins : InSlot(p)' <=> InSlot(p)
  BY DEF InSlot
<1>4. \A p \in Plugins : handle'[p] # None /\ ~InSlot(p)' /\ ~Opening(p)'
                          => plugin'[p].started /\ OpenResult(p)' = Invalid
  BY <1>3 DEF HandlesAreOwned
<1> QED
  BY <1>1, <1>2, <1>4 DEF HandlesAreOwned

(* A step that leaves the sessions alone.                                  *)
LEMMA SessionsKept ==
  ASSUME Sessions, HandlesAreOwned, UNCHANGED <<plugin, handle, slot>>,
         \A p \in Plugins : /\ call'[Session(p)] = call[Session(p)]
                            /\ lock' = Session(p) <=> lock = Session(p)
  PROVE  Sessions' /\ HandlesAreOwned'
<1>1. Sessions'
  BY DEF Sessions
<1>2. \A p \in Plugins : (Opening(p)' <=> Opening(p)) /\ OpenResult(p)' = OpenResult(p)
  BY DEF Opening, OpenResult
<1> QED
  BY <1>1, <1>2, HandlesKept

-----------------------------------------------------------------------------
(* Each action keeps OwnInv.                                               *)

LEMMA OpenDevice_Owned ==
  ASSUME DevicesTypeOK, OwnInv, NEW p \in Plugins, OpenDevice(p)
  PROVE  OwnInv'
<1>1. LockHeld'
  BY Moves, SessionThread
     DEF LockHeld, OwnInv, DevicesTypeOK, OpenDevice, Sessions, OpeningSteps
<1>2. Sessions'
  BY SessionThread, Distinct, Constants
     DEF Sessions, CallType, PluginType, HandleType, OpeningSteps, LockHeld, OwnInv,
         DevicesTypeOK, OpenDevice, GoTo, Idle
<1>3. Joins'
  BY SessionThread, Distinct, Constants
     DEF Joins, LockHeld, CallType, SlotType, OwnInv, DevicesTypeOK, OpenDevice, GoTo,
         Idle
<1>4. HandlesAreOwned'
  BY SessionThread, Distinct, Constants
     DEF HandlesAreOwned, InSlot, Opening, OpenResult, LockHeld, Sessions, Joins,
         SlotType, HandleType, PluginType, CallType, OpeningSteps, OwnInv,
         DevicesTypeOK, OpenDevice, GoTo, Idle
<1>5. Readers'
  BY ReadersKept, Moves, SessionThread, Distinct
     DEF OpenDevice, OwnInv, DevicesTypeOK, Sessions, CallType, ThreadsType, Ended,
         Idle, ListenerStates
<1> QED
  BY <1>1, <1>2, <1>3, <1>4, <1>5 DEF OwnInv

LEMMA OpenDevice_Return_Owned ==
  ASSUME DevicesTypeOK, OwnInv, NEW p \in Plugins, OpenDevice_Return(p)
  PROVE  OwnInv'
<1>1. LockHeld'
  BY SessionThread, Distinct, Constants
     DEF LockHeld, CallType, LockType, OpeningSteps, OwnInv, DevicesTypeOK,
         OpenDevice_Return, GoTo, Idle
<1>2. Sessions'
  BY SessionThread, Distinct, Constants
     DEF Sessions, CallType, PluginType, HandleType, OpeningSteps, LockHeld, OwnInv,
         DevicesTypeOK, OpenDevice_Return, GoTo, Idle
<1>3. Joins'
  BY SessionThread, Distinct, Constants
     DEF Joins, LockHeld, CallType, SlotType, OwnInv, DevicesTypeOK, OpenDevice_Return,
         GoTo, Idle
<1>4. HandlesAreOwned'
  BY SessionThread, Distinct, Constants
     DEF HandlesAreOwned, InSlot, Opening, OpenResult, LockHeld, Sessions, Joins,
         SlotType, HandleType, PluginType, CallType, OpeningSteps, OwnInv,
         DevicesTypeOK, OpenDevice_Return, GoTo, Idle
<1>5. Readers'
  BY ReadersKept, Moves, SessionThread, Distinct
     DEF OpenDevice_Return, OwnInv, DevicesTypeOK, Sessions, CallType, ThreadsType,
         Ended, Idle, ListenerStates
<1> QED
  BY <1>1, <1>2, <1>3, <1>4, <1>5 DEF OwnInv

LEMMA OnDeviceDataReceived_Owned ==
  ASSUME DevicesTypeOK, OwnInv, NEW p \in Plugins, NEW op \in Opcodes, OnDeviceDataReceived(p,op)
  PROVE  OwnInv'
<1>1. LockHeld'
  BY SessionThread, Distinct, Constants
     DEF LockHeld, CallType, LockType, OpeningSteps, OwnInv, DevicesTypeOK,
         OnDeviceDataReceived, GoTo, Idle
<1>2. Sessions'
  BY SessionThread, Distinct, Constants
     DEF Sessions, CallType, PluginType, HandleType, OpeningSteps, LockHeld, OwnInv,
         DevicesTypeOK, OnDeviceDataReceived, GoTo, Idle
<1>3. Joins'
  BY SessionThread, Distinct, Constants
     DEF Joins, LockHeld, CallType, SlotType, OwnInv, DevicesTypeOK,
         OnDeviceDataReceived, GoTo, Idle
<1>4. HandlesAreOwned'
  BY SessionThread, Distinct, Constants
     DEF HandlesAreOwned, InSlot, Opening, OpenResult, LockHeld, Sessions, Joins,
         SlotType, HandleType, PluginType, CallType, OpeningSteps, OwnInv,
         DevicesTypeOK, OnDeviceDataReceived, GoTo, Idle
<1>5. Readers'
  BY ReadersKept, Moves, SessionThread, Distinct
     DEF OnDeviceDataReceived, OwnInv, DevicesTypeOK, Sessions, CallType, ThreadsType,
         Ended, Idle, ListenerStates
<1> QED
  BY <1>1, <1>2, <1>3, <1>4, <1>5 DEF OwnInv

LEMMA CloseDevice_Owned ==
  ASSUME DevicesTypeOK, OwnInv, NEW t \in Threads, CloseDevice(t)
  PROVE  OwnInv'
<1>1. LockHeld'
  BY SessionThread, Distinct, Constants
     DEF LockHeld, CallType, LockType, OpeningSteps, OwnInv, DevicesTypeOK, CloseDevice,
         GoTo, Idle
<1>2. Sessions'
  BY SessionsKept, Closers DEF CloseDevice, OwnInv, DevicesTypeOK, CallType
<1>3. Joins'
  BY SessionThread, Distinct, Constants
     DEF Joins, LockHeld, CallType, SlotType, OwnInv, DevicesTypeOK, CloseDevice, GoTo,
         Idle
<1>4. HandlesAreOwned'
  BY SessionThread, Distinct, Constants
     DEF HandlesAreOwned, InSlot, Opening, OpenResult, LockHeld, Sessions, Joins,
         SlotType, HandleType, PluginType, CallType, OpeningSteps, OwnInv,
         DevicesTypeOK, CloseDevice, GoTo, Idle
<1>5. Readers'
  BY ReadersKept, Moves, Distinct
     DEF CloseDevice, OwnInv, DevicesTypeOK, Sessions, CallType, ThreadsType, Ended,
         Idle, ListenerStates
<1> QED
  BY <1>1, <1>2, <1>3, <1>4, <1>5 DEF OwnInv

LEMMA CloseDevice_Return_Owned ==
  ASSUME DevicesTypeOK, OwnInv, NEW t \in Threads, CloseDevice_Return(t)
  PROVE  OwnInv'
<1>1. LockHeld'
  BY SessionThread, Distinct, Constants
     DEF LockHeld, CallType, LockType, OpeningSteps, OwnInv, DevicesTypeOK,
         CloseDevice_Return, GoTo, Idle
<1>2. Sessions'
  BY SessionThread, Distinct, Constants
     DEF Sessions, CallType, PluginType, HandleType, OpeningSteps, LockHeld, OwnInv,
         DevicesTypeOK, CloseDevice_Return, GoTo, Idle
<1>3. Joins'
  BY SessionThread, Distinct, Constants
     DEF Joins, LockHeld, CallType, SlotType, OwnInv, DevicesTypeOK, CloseDevice_Return,
         GoTo, Idle
<1>4. HandlesAreOwned'
  BY SessionThread, Distinct, Constants
     DEF HandlesAreOwned, InSlot, Opening, OpenResult, LockHeld, Sessions, Joins,
         SlotType, HandleType, PluginType, CallType, OpeningSteps, OwnInv,
         DevicesTypeOK, CloseDevice_Return, GoTo, Idle
<1>5. Readers'
  BY ReadersKept, Moves, Distinct
     DEF CloseDevice_Return, OwnInv, DevicesTypeOK, Sessions, CallType, ThreadsType,
         Ended, Idle, ListenerStates
<1> QED
  BY <1>1, <1>2, <1>3, <1>4, <1>5 DEF OwnInv

LEMMA Disconnect_Owned ==
  ASSUME DevicesTypeOK, OwnInv, NEW p \in Plugins, Disconnect(p)
  PROVE  OwnInv'
<1>1. LockHeld'
  BY SessionThread, Distinct, Constants
     DEF LockHeld, CallType, LockType, OpeningSteps, OwnInv, DevicesTypeOK, Disconnect,
         GoTo, Idle
<1>2. Sessions'
  BY SessionThread, Distinct, Constants
     DEF Sessions, CallType, PluginType, HandleType, OpeningSteps, LockHeld, OwnInv,
         DevicesTypeOK, Disconnect, GoTo, Idle
<1>3. Joins'
  BY SessionThread, Distinct, Constants
     DEF Joins, LockHeld, CallType, SlotType, OwnInv, DevicesTypeOK, Disconnect, GoTo,
         Idle
<1>4. HandlesAreOwned'
  BY SessionThread, Distinct, Constants
     DEF HandlesAreOwned, InSlot, Opening, OpenResult, LockHeld, Sessions, Joins,
         SlotType, HandleType, PluginType, CallType, OpeningSteps, OwnInv,
         DevicesTypeOK, Disconnect, GoTo, Idle
<1>5. Readers'
  BY ReadersKept, Moves, SessionThread, Distinct
     DEF Disconnect, OwnInv, DevicesTypeOK, Sessions, CallType, ThreadsType, Ended,
         Idle, ListenerStates
<1> QED
  BY <1>1, <1>2, <1>3, <1>4, <1>5 DEF OwnInv

LEMMA ReadCompletes_Owned ==
  ASSUME DevicesTypeOK, OwnInv, NEW x \in Objects, ReadCompletes(x)
  PROVE  OwnInv'
<1>1. LockHeld'
  BY SessionThread, Distinct, Constants
     DEF LockHeld, CallType, LockType, OpeningSteps, OwnInv, DevicesTypeOK,
         ReadCompletes, GoTo, Idle
<1>2. Sessions'
  BY SessionThread, Distinct, Constants
     DEF Sessions, CallType, PluginType, HandleType, OpeningSteps, LockHeld, OwnInv,
         DevicesTypeOK, ReadCompletes, GoTo, Idle
<1>3. Joins'
  BY SessionThread, Distinct, Constants
     DEF Joins, LockHeld, CallType, SlotType, OwnInv, DevicesTypeOK, ReadCompletes,
         GoTo, Idle
<1>4. HandlesAreOwned'
  BY SessionThread, Distinct, Constants
     DEF HandlesAreOwned, InSlot, Opening, OpenResult, LockHeld, Sessions, Joins,
         SlotType, HandleType, PluginType, CallType, OpeningSteps, OwnInv,
         DevicesTypeOK, ReadCompletes, GoTo, Idle
<1>5. Readers'
  BY ReadersKept, Moves, Distinct
     DEF ReadCompletes, OwnInv, DevicesTypeOK, Sessions, CallType, ThreadsType, Ended,
         Idle, ListenerStates
<1> QED
  BY <1>1, <1>2, <1>3, <1>4, <1>5 DEF OwnInv

LEMMA Listener_Event_Owned ==
  ASSUME DevicesTypeOK, OwnInv, NEW x \in Objects, NEW e \in listener[x].signalled, Listener_Event(x,e)
  PROVE  OwnInv'
<1>1. LockHeld'
  BY SessionThread, Distinct, Constants
     DEF LockHeld, CallType, LockType, OpeningSteps, OwnInv, DevicesTypeOK,
         Listener_Event, GoTo, Idle
<1>2. Sessions'
  BY SessionThread, Distinct, Constants
     DEF Sessions, CallType, PluginType, HandleType, OpeningSteps, LockHeld, OwnInv,
         DevicesTypeOK, Listener_Event, GoTo, Idle
<1>3. Joins'
  BY SessionThread, Distinct, Constants
     DEF Joins, LockHeld, CallType, SlotType, OwnInv, DevicesTypeOK, Listener_Event,
         GoTo, Idle
<1>4. HandlesAreOwned'
  BY SessionThread, Distinct, Constants
     DEF HandlesAreOwned, InSlot, Opening, OpenResult, LockHeld, Sessions, Joins,
         SlotType, HandleType, PluginType, CallType, OpeningSteps, OwnInv,
         DevicesTypeOK, Listener_Event, GoTo, Idle
<1>5. Readers'
  BY ReadersKept, Moves, Distinct
     DEF Listener_Event, OwnInv, DevicesTypeOK, Sessions, CallType, ThreadsType, Ended,
         Idle, ListenerStates
<1> QED
  BY <1>1, <1>2, <1>3, <1>4, <1>5 DEF OwnInv

LEMMA Listener_Stop_Owned ==
  ASSUME DevicesTypeOK, OwnInv, NEW x \in Objects, Listener_Stop(x)
  PROVE  OwnInv'
<1>1. LockHeld'
  BY SessionThread, Distinct, Constants
     DEF LockHeld, CallType, LockType, OpeningSteps, OwnInv, DevicesTypeOK,
         Listener_Stop, GoTo, Idle
<1>2. Sessions'
  BY SessionThread, Distinct, Constants
     DEF Sessions, CallType, PluginType, HandleType, OpeningSteps, LockHeld, OwnInv,
         DevicesTypeOK, Listener_Stop, GoTo, Idle
<1>3. Joins'
  BY SessionThread, Distinct, Constants
     DEF Joins, LockHeld, CallType, SlotType, OwnInv, DevicesTypeOK, Listener_Stop,
         GoTo, Idle
<1>4. HandlesAreOwned'
  BY SessionThread, Distinct, Constants
     DEF HandlesAreOwned, InSlot, Opening, OpenResult, LockHeld, Sessions, Joins,
         SlotType, HandleType, PluginType, CallType, OpeningSteps, OwnInv,
         DevicesTypeOK, Listener_Stop, GoTo, Idle
<1>5. Readers'
  BY ReadersKept, Moves, Distinct
     DEF Listener_Stop, OwnInv, DevicesTypeOK, Sessions, CallType, ThreadsType, Ended,
         Idle, ListenerStates
<1> QED
  BY <1>1, <1>2, <1>3, <1>4, <1>5 DEF OwnInv

LEMMA Listener_Failed_Owned ==
  ASSUME DevicesTypeOK, OwnInv, NEW x \in Objects, Listener_Failed(x)
  PROVE  OwnInv'
<1>1. LockHeld'
  BY SessionThread, Distinct, Constants
     DEF LockHeld, CallType, LockType, OpeningSteps, OwnInv, DevicesTypeOK,
         Listener_Failed, GoTo, Idle
<1>2. Sessions'
  BY SessionThread, Distinct, Constants
     DEF Sessions, CallType, PluginType, HandleType, OpeningSteps, LockHeld, OwnInv,
         DevicesTypeOK, Listener_Failed, GoTo, Idle
<1>3. Joins'
  BY SessionThread, Distinct, Constants
     DEF Joins, LockHeld, CallType, SlotType, OwnInv, DevicesTypeOK, Listener_Failed,
         GoTo, Idle
<1>4. HandlesAreOwned'
  BY SessionThread, Distinct, Constants
     DEF HandlesAreOwned, InSlot, Opening, OpenResult, LockHeld, Sessions, Joins,
         SlotType, HandleType, PluginType, CallType, OpeningSteps, OwnInv,
         DevicesTypeOK, Listener_Failed, GoTo, Idle
<1>5. Readers'
  BY ReadersKept, Moves, Distinct
     DEF Listener_Failed, OwnInv, DevicesTypeOK, Sessions, CallType, ThreadsType, Ended,
         Idle, ListenerStates
<1> QED
  BY <1>1, <1>2, <1>3, <1>4, <1>5 DEF OwnInv

LEMMA Listener_NoHandle_Owned ==
  ASSUME DevicesTypeOK, OwnInv, NEW x \in Objects, Listener_NoHandle(x)
  PROVE  OwnInv'
<1>1. LockHeld'
  BY SessionThread, Distinct, Constants
     DEF LockHeld, CallType, LockType, OpeningSteps, OwnInv, DevicesTypeOK,
         Listener_NoHandle, GoTo, Idle
<1>2. Sessions'
  BY SessionThread, Distinct, Constants
     DEF Sessions, CallType, PluginType, HandleType, OpeningSteps, LockHeld, OwnInv,
         DevicesTypeOK, Listener_NoHandle, GoTo, Idle
<1>3. Joins'
  BY SessionThread, Distinct, Constants
     DEF Joins, LockHeld, CallType, SlotType, OwnInv, DevicesTypeOK, Listener_NoHandle,
         GoTo, Idle
<1>4. HandlesAreOwned'
  BY SessionThread, Distinct, Constants
     DEF HandlesAreOwned, InSlot, Opening, OpenResult, LockHeld, Sessions, Joins,
         SlotType, HandleType, PluginType, CallType, OpeningSteps, OwnInv,
         DevicesTypeOK, Listener_NoHandle, GoTo, Idle
<1>5. Readers'
  BY ReadersKept, Moves, Distinct
     DEF Listener_NoHandle, OwnInv, DevicesTypeOK, Sessions, CallType, ThreadsType, Ended,
         Idle, ListenerStates
<1> QED
  BY <1>1, <1>2, <1>3, <1>4, <1>5 DEF OwnInv

LEMMA CommandCompleteHandler_Find_Owned ==
  ASSUME DevicesTypeOK, OwnInv, NEW h \in handlers, CommandCompleteHandler_Find(h)
  PROVE  OwnInv'
<1>1. LockHeld'
  BY SessionThread, Distinct, Constants
     DEF LockHeld, CallType, LockType, OpeningSteps, OwnInv, DevicesTypeOK,
         CommandCompleteHandler_Find, GoTo, Idle
<1>2. Sessions'
  BY SessionThread, Distinct, Constants
     DEF Sessions, CallType, PluginType, HandleType, OpeningSteps, LockHeld, OwnInv,
         DevicesTypeOK, CommandCompleteHandler_Find, GoTo, Idle
<1>3. Joins'
  BY SessionThread, Distinct, Constants
     DEF Joins, LockHeld, CallType, SlotType, OwnInv, DevicesTypeOK,
         CommandCompleteHandler_Find, GoTo, Idle
<1>4. HandlesAreOwned'
  BY SessionThread, Distinct, Constants
     DEF HandlesAreOwned, InSlot, Opening, OpenResult, LockHeld, Sessions, Joins,
         SlotType, HandleType, PluginType, CallType, OpeningSteps, OwnInv,
         DevicesTypeOK, CommandCompleteHandler_Find, GoTo, Idle
<1>5. Readers'
  BY ReadersKept, Moves, Distinct
     DEF CommandCompleteHandler_Find, OwnInv, DevicesTypeOK, Sessions, CallType,
         ThreadsType, Ended, Idle, ListenerStates
<1> QED
  BY <1>1, <1>2, <1>3, <1>4, <1>5 DEF OwnInv

LEMMA CommandCompleteHandler_Complete_Owned ==
  ASSUME DevicesTypeOK, OwnInv, NEW h \in handlers, CommandCompleteHandler_Complete(h)
  PROVE  OwnInv'
<1>1. LockHeld'
  BY SessionThread, Distinct, Constants
     DEF LockHeld, CallType, LockType, OpeningSteps, OwnInv, DevicesTypeOK,
         CommandCompleteHandler_Complete, GoTo, Idle
<1>2. Sessions'
  BY SessionThread, Distinct, Constants
     DEF Sessions, CallType, PluginType, HandleType, OpeningSteps, LockHeld, OwnInv,
         DevicesTypeOK, CommandCompleteHandler_Complete, GoTo, Idle
<1>3. Joins'
  BY SessionThread, Distinct, Constants
     DEF Joins, LockHeld, CallType, SlotType, OwnInv, DevicesTypeOK,
         CommandCompleteHandler_Complete, GoTo, Idle
<1>4. HandlesAreOwned'
  BY SessionThread, Distinct, Constants
     DEF HandlesAreOwned, InSlot, Opening, OpenResult, LockHeld, Sessions, Joins,
         SlotType, HandleType, PluginType, CallType, OpeningSteps, OwnInv,
         DevicesTypeOK, CommandCompleteHandler_Complete, GoTo, Idle
<1>5. Readers'
  BY ReadersKept, Moves, Distinct
     DEF CommandCompleteHandler_Complete, OwnInv, DevicesTypeOK, Sessions, CallType,
         ThreadsType, Ended, Idle, ListenerStates
<1> QED
  BY <1>1, <1>2, <1>3, <1>4, <1>5 DEF OwnInv

LEMMA CommandCompleteHandler_TooLong_Owned ==
  ASSUME DevicesTypeOK, OwnInv, NEW h \in handlers, CommandCompleteHandler_TooLong(h)
  PROVE  OwnInv'
<1>1. LockHeld'
  BY SessionThread, Distinct, Constants
     DEF LockHeld, CallType, LockType, OpeningSteps, OwnInv, DevicesTypeOK,
         CommandCompleteHandler_TooLong, GoTo, Idle
<1>2. Sessions'
  BY SessionThread, Distinct, Constants
     DEF Sessions, CallType, PluginType, HandleType, OpeningSteps, LockHeld, OwnInv,
         DevicesTypeOK, CommandCompleteHandler_TooLong, GoTo, Idle
<1>3. Joins'
  BY SessionThread, Distinct, Constants
     DEF Joins, LockHeld, CallType, SlotType, OwnInv, DevicesTypeOK,
         CommandCompleteHandler_TooLong, GoTo, Idle
<1>4. HandlesAreOwned'
  BY SessionThread, Distinct, Constants
     DEF HandlesAreOwned, InSlot, Opening, OpenResult, LockHeld, Sessions, Joins,
         SlotType, HandleType, PluginType, CallType, OpeningSteps, OwnInv,
         DevicesTypeOK, CommandCompleteHandler_TooLong, GoTo, Idle
<1>5. Readers'
  BY ReadersKept, Moves, Distinct
     DEF CommandCompleteHandler_TooLong, OwnInv, DevicesTypeOK, Sessions, CallType,
         ThreadsType, Ended, Idle, ListenerStates
<1> QED
  BY <1>1, <1>2, <1>3, <1>4, <1>5 DEF OwnInv

LEMMA Export_OpenDevice_Owned ==
  ASSUME DevicesTypeOK, OwnInv, NEW p \in Plugins, Export_OpenDevice(p)
  PROVE  OwnInv'
<1>1. LockHeld'
  BY SessionThread, Distinct, Constants
     DEF LockHeld, CallType, LockType, OpeningSteps, OwnInv, DevicesTypeOK,
         Export_OpenDevice, GoTo, Idle, AttachHardware
<1>2. Sessions'
  BY SessionThread, Distinct, Constants
     DEF Sessions, CallType, PluginType, HandleType, OpeningSteps, LockHeld, OwnInv,
         DevicesTypeOK, Export_OpenDevice, GoTo, Idle, AttachHardware
<1>3. Joins'
  BY SessionThread, Distinct, Constants
     DEF Joins, LockHeld, CallType, SlotType, OwnInv, DevicesTypeOK, Export_OpenDevice,
         GoTo, Idle, AttachHardware
<1>4. HandlesAreOwned'
  <2>1. CASE UNCHANGED <<lock, handle>> /\ GoTo(Session(p), "opened")
    <3>1. \A q \in Plugins : OpenResult(q)' = OpenResult(q)
      BY <2>1, Moves, SessionThread, Distinct
         DEF Export_OpenDevice, OwnInv, DevicesTypeOK, Sessions, OpenResult,
             AttachHardware
    <3>2. \A q \in Plugins : Opening(q)' <=> Opening(q)
      BY <2>1 DEF Opening
    <3> QED
      BY <2>1, <3>1, <3>2, HandlesKept DEF Export_OpenDevice, OwnInv, AttachHardware
  <2>2. CASE /\ lock' = Session(p) /\ GoTo(Session(p), "attached")
             /\ \E a \in Adapters : Free(a) /\ handle' = [handle EXCEPT ![p] = a]
    <3>1. \A q \in Plugins : OpenResult(q)' = OpenResult(q) /\ (InSlot(q)' <=> InSlot(q))
      BY <2>2, Moves, SessionThread, Distinct
         DEF Export_OpenDevice, OwnInv, DevicesTypeOK, Sessions, OpenResult, InSlot,
             AttachHardware
    <3>2. \A q \in Plugins : Opening(q)' <=> q = p
      BY <2>2, Distinct DEF Opening
    <3>3. \A q \in Plugins : ~Opening(q)
      BY SessionThread, Constants DEF Export_OpenDevice, Opening, AttachHardware
    <3>4. PICK a \in Adapters : Free(a) /\ handle' = [handle EXCEPT ![p] = a]
      BY <2>2
    <3>5. handle'[p] = a /\ \A q \in Plugins : handle[q] # a /\ (q # p => handle'[q] = handle[q])
      BY <3>4 DEF Free, DevicesTypeOK, HandleType
    <3>6. a # None /\ UNCHANGED <<slot, plugin>>
      BY Constants DEF Export_OpenDevice, AttachHardware
    <3>7. \A q, r \in Plugins : handle'[q] = handle'[r] /\ handle'[q] # None => q = r
      BY <3>5 DEF OwnInv, HandlesAreOwned
    <3>8. \A i \in Slots, q \in Plugins : slot'[i] = q => handle'[q] # None /\ OpenResult(q)' = i
      BY <3>1, <3>5, <3>6 DEF OwnInv, HandlesAreOwned
    <3>9. \A q \in Plugins : handle'[q] # None /\ ~InSlot(q)' /\ ~Opening(q)'
                            => plugin'[q].started /\ OpenResult(q)' = Invalid
      BY <3>1, <3>2, <3>3, <3>5, <3>6 DEF OwnInv, HandlesAreOwned
    <3> QED
      BY <3>7, <3>8, <3>9 DEF HandlesAreOwned
  <2> QED
    BY <2>1, <2>2 DEF Export_OpenDevice, AttachHardware
<1>5. Readers'
  BY ReadersKept, Moves, SessionThread, Distinct
     DEF Export_OpenDevice, OwnInv, DevicesTypeOK, Sessions, CallType, ThreadsType,
         Ended, Idle, ListenerStates, AttachHardware
<1> QED
  BY <1>1, <1>2, <1>3, <1>4, <1>5 DEF OwnInv

LEMMA GetDeviceInfo_Owned ==
  ASSUME DevicesTypeOK, OwnInv, NEW p \in Plugins, GetDeviceInfo(p)
  PROVE  OwnInv'
<1>1. LockHeld'
  BY SessionThread, Distinct, Constants
     DEF LockHeld, CallType, LockType, OpeningSteps, OwnInv, DevicesTypeOK,
         GetDeviceInfo, GoTo, Idle
<1>2. Sessions'
  BY SessionThread, Distinct, Constants
     DEF Sessions, CallType, PluginType, HandleType, OpeningSteps, LockHeld, OwnInv,
         DevicesTypeOK, GetDeviceInfo, GoTo, Idle
<1>3. Joins'
  BY SessionThread, Distinct, Constants
     DEF Joins, LockHeld, CallType, SlotType, OwnInv, DevicesTypeOK, GetDeviceInfo,
         GoTo, Idle
<1>4. HandlesAreOwned'
  BY SessionThread, Distinct, Constants
     DEF HandlesAreOwned, InSlot, Opening, OpenResult, LockHeld, Sessions, Joins,
         SlotType, HandleType, PluginType, CallType, OpeningSteps, OwnInv,
         DevicesTypeOK, GetDeviceInfo, GoTo, Idle
<1>5. Readers'
  <2>1. Session(p) \in Threads /\ call'[Session(p)].pc = "ask"
        /\ \A q \in Plugins : q # p => call'[Session(q)].pc = call[Session(q)].pc
    BY SessionThread, Distinct DEF GetDeviceInfo, DevicesTypeOK, CallType, GoTo
  <2>2. \A q \in Plugins : InSlot(q)' <=> InSlot(q)
    BY Constants DEF GetDeviceInfo, InSlot, DevicesTypeOK, SlotType
  <2>3. \A q \in Plugins : <<"device", q>> \in Objects /\ <<"query", q>> \in Objects
    BY DEF Objects
  <2>4. /\ \A q \in Plugins : listener'[<<"device", q>>] = listener[<<"device", q>>]
        /\ \A q \in Plugins : q # p => listener'[<<"query", q>>] = listener[<<"query", q>>]
    BY <2>3 DEF GetDeviceInfo, NoListener, DevicesTypeOK, ThreadsType
  <2> QED
    BY <2>1, <2>2, <2>4 DEF GetDeviceInfo, Readers, OwnInv
<1> QED
  BY <1>1, <1>2, <1>3, <1>4, <1>5 DEF OwnInv

LEMMA GetDeviceInfo_NoListener_Owned ==
  ASSUME DevicesTypeOK, OwnInv, NEW p \in Plugins, GetDeviceInfo_NoListener(p)
  PROVE  OwnInv'
<1>1. LockHeld'
  BY SessionThread, Distinct, Constants
     DEF LockHeld, CallType, LockType, OpeningSteps, OwnInv, DevicesTypeOK,
         GetDeviceInfo_NoListener, GoTo, Idle
<1>2. Sessions'
  BY SessionThread, Distinct, Constants
     DEF Sessions, CallType, PluginType, HandleType, OpeningSteps, LockHeld, OwnInv,
         DevicesTypeOK, GetDeviceInfo_NoListener, GoTo, Idle
<1>3. Joins'
  BY SessionThread, Distinct, Constants
     DEF Joins, LockHeld, CallType, SlotType, OwnInv, DevicesTypeOK, GetDeviceInfo_NoListener,
         GoTo, Idle
<1>4. HandlesAreOwned'
  BY SessionThread, Distinct, Constants
     DEF HandlesAreOwned, InSlot, Opening, OpenResult, LockHeld, Sessions, Joins,
         SlotType, HandleType, PluginType, CallType, OpeningSteps, OwnInv,
         DevicesTypeOK, GetDeviceInfo_NoListener, GoTo, Idle
<1>5. Readers'
  <2>1. Session(p) \in Threads /\ call'[Session(p)].pc = "ask"
        /\ \A q \in Plugins : q # p => call'[Session(q)].pc = call[Session(q)].pc
    BY SessionThread, Distinct DEF GetDeviceInfo_NoListener, DevicesTypeOK, CallType, GoTo
  <2>2. \A q \in Plugins : InSlot(q)' <=> InSlot(q)
    BY Constants DEF GetDeviceInfo_NoListener, InSlot, DevicesTypeOK, SlotType
  <2>3. \A q \in Plugins : <<"device", q>> \in Objects /\ <<"query", q>> \in Objects
    BY DEF Objects
  <2>4. /\ \A q \in Plugins : listener'[<<"device", q>>] = listener[<<"device", q>>]
        /\ \A q \in Plugins : q # p => listener'[<<"query", q>>] = listener[<<"query", q>>]
    BY <2>3 DEF GetDeviceInfo_NoListener, NoListener, DevicesTypeOK, ThreadsType
  <2> QED
    BY <2>1, <2>2, <2>4 DEF GetDeviceInfo_NoListener, Readers, OwnInv
<1> QED
  BY <1>1, <1>2, <1>3, <1>4, <1>5 DEF OwnInv

LEMMA SendRead_Owned ==
  ASSUME DevicesTypeOK, OwnInv, NEW p \in Plugins, SendRead(p)
  PROVE  OwnInv'
<1>1. LockHeld'
  BY SessionThread, Distinct, Constants
     DEF LockHeld, CallType, LockType, OpeningSteps, OwnInv, DevicesTypeOK, SendRead,
         GoTo, Idle, QueueCommand, SendCommand
<1>2. Sessions'
  BY SessionThread, Distinct, Constants
     DEF Sessions, CallType, PluginType, HandleType, OpeningSteps, LockHeld, OwnInv,
         DevicesTypeOK, SendRead, GoTo, Idle, QueueCommand, SendCommand
<1>3. Joins'
  BY Moves, SessionThread
     DEF SendRead, OwnInv, DevicesTypeOK, Joins, QueueCommand, SendCommand
<1>4. HandlesAreOwned'
  <2>1. \A q \in Plugins : /\ call'[Session(q)].id = call[Session(q)].id
                           /\ call'[Session(q)].pc = "opened" <=> call[Session(q)].pc = "opened"
    BY Moves, SessionThread, Distinct
       DEF SendRead, DevicesTypeOK, QueueCommand, SendCommand
  <2>2. \A q \in Plugins : OpenResult(q)' = OpenResult(q) /\ (Opening(q)' <=> Opening(q))
    <3>1. UNCHANGED <<plugin, lock, slot, handle>>
      BY DEF SendRead, QueueCommand, SendCommand
    <3>2. TAKE q \in Plugins
    <3>3. OpenResult(q)' = OpenResult(q)
      BY <2>1, <3>1 DEF OpenResult
    <3>4. Opening(q)' <=> Opening(q)
      BY <3>1 DEF Opening
    <3> QED
      BY <3>3, <3>4
  <2> QED
    BY <2>2, HandlesKept DEF SendRead, OwnInv, QueueCommand, SendCommand
<1>5. Readers'
  BY ReadersKept, Moves, SessionThread, Distinct
     DEF SendRead, OwnInv, DevicesTypeOK, Sessions, CallType, ThreadsType, Ended, Idle,
         ListenerStates, QueueCommand, SendCommand
<1> QED
  BY <1>1, <1>2, <1>3, <1>4, <1>5 DEF OwnInv

LEMMA WaitForCommandComplete_Owned ==
  ASSUME DevicesTypeOK, OwnInv, NEW p \in Plugins, WaitForCommandComplete(p)
  PROVE  OwnInv'
<1>1. LockHeld'
  BY SessionThread, Distinct, Constants
     DEF LockHeld, CallType, LockType, OpeningSteps, OwnInv, DevicesTypeOK,
         WaitForCommandComplete, GoTo, Idle, DeQueueCommand
<1>2. Sessions'
  BY SessionThread, Distinct, Constants
     DEF Sessions, CallType, PluginType, HandleType, OpeningSteps, LockHeld, OwnInv,
         DevicesTypeOK, WaitForCommandComplete, GoTo, Idle, DeQueueCommand
<1>3. Joins'
  BY SessionThread, Distinct, Constants
     DEF Joins, LockHeld, CallType, SlotType, OwnInv, DevicesTypeOK,
         WaitForCommandComplete, GoTo, Idle, DeQueueCommand
<1>4. HandlesAreOwned'
  BY SessionThread, Distinct, Constants
     DEF HandlesAreOwned, InSlot, Opening, OpenResult, LockHeld, Sessions, Joins,
         SlotType, HandleType, PluginType, CallType, OpeningSteps, OwnInv,
         DevicesTypeOK, WaitForCommandComplete, GoTo, Idle, DeQueueCommand
<1>5. Readers'
  BY ReadersKept, Moves, SessionThread, Distinct
     DEF WaitForCommandComplete, OwnInv, DevicesTypeOK, Sessions, CallType, ThreadsType,
         Ended, Idle, ListenerStates, DeQueueCommand
<1> QED
  BY <1>1, <1>2, <1>3, <1>4, <1>5 DEF OwnInv

LEMMA GetDeviceInfo_Stop_Owned ==
  ASSUME DevicesTypeOK, OwnInv, NEW p \in Plugins, GetDeviceInfo_Stop(p)
  PROVE  OwnInv'
<1>1. LockHeld'
  BY SessionThread, Distinct, Constants
     DEF LockHeld, CallType, LockType, OpeningSteps, OwnInv, DevicesTypeOK,
         GetDeviceInfo_Stop, GoTo, Idle
<1>2. Sessions'
  BY SessionThread, Distinct, Constants
     DEF Sessions, CallType, PluginType, HandleType, OpeningSteps, LockHeld, OwnInv,
         DevicesTypeOK, GetDeviceInfo_Stop, GoTo, Idle
<1>3. Joins'
  BY SessionThread, Distinct, Constants
     DEF Joins, LockHeld, CallType, SlotType, OwnInv, DevicesTypeOK, GetDeviceInfo_Stop,
         GoTo, Idle
<1>4. HandlesAreOwned'
  BY SessionThread, Distinct, Constants
     DEF HandlesAreOwned, InSlot, Opening, OpenResult, LockHeld, Sessions, Joins,
         SlotType, HandleType, PluginType, CallType, OpeningSteps, OwnInv,
         DevicesTypeOK, GetDeviceInfo_Stop, GoTo, Idle
<1>5. Readers'
  <2>1. call[Session(p)].pc = "ask" /\ call'[Session(p)].pc = "stop"
        /\ \A q \in Plugins : q # p => call'[Session(q)].pc = call[Session(q)].pc
    BY SessionThread, Distinct DEF GetDeviceInfo_Stop, DevicesTypeOK, CallType, GoTo
  <2>2. \A x \in Objects : listener'[x].thread = listener[x].thread
    BY DEF GetDeviceInfo_Stop, DevicesTypeOK, ThreadsType, ListenerStates
  <2>3. UNCHANGED <<slot, reading>>
    BY DEF GetDeviceInfo_Stop
  <2> QED
    BY <2>1, <2>2, <2>3, ReadersKept DEF OwnInv
<1> QED
  BY <1>1, <1>2, <1>3, <1>4, <1>5 DEF OwnInv

LEMMA GetDeviceInfo_Return_Owned ==
  ASSUME DevicesTypeOK, OwnInv, NEW p \in Plugins, GetDeviceInfo_Return(p)
  PROVE  OwnInv'
<1>1. LockHeld'
  BY SessionThread, Distinct, Constants
     DEF LockHeld, CallType, LockType, OpeningSteps, OwnInv, DevicesTypeOK,
         GetDeviceInfo_Return, GoTo, Idle
<1>2. Sessions'
  BY SessionThread, Distinct, Constants
     DEF Sessions, CallType, PluginType, HandleType, OpeningSteps, LockHeld, OwnInv,
         DevicesTypeOK, GetDeviceInfo_Return, GoTo, Idle
<1>3. Joins'
  BY SessionThread, Distinct, Constants
     DEF Joins, LockHeld, CallType, SlotType, OwnInv, DevicesTypeOK,
         GetDeviceInfo_Return, GoTo, Idle
<1>4. HandlesAreOwned'
  BY SessionThread, Distinct, Constants
     DEF HandlesAreOwned, InSlot, Opening, OpenResult, LockHeld, Sessions, Joins,
         SlotType, HandleType, PluginType, CallType, OpeningSteps, OwnInv,
         DevicesTypeOK, GetDeviceInfo_Return, GoTo, Idle
<1>5. Readers'
  <2>1. Session(p) \in Threads /\ call'[Session(p)].pc = "listen"
        /\ \A q \in Plugins : q # p => call'[Session(q)].pc = call[Session(q)].pc
    BY SessionThread, Distinct DEF GetDeviceInfo_Return, DevicesTypeOK, CallType, GoTo
  <2>2. \A q \in Plugins : InSlot(q)' <=> InSlot(q)
    BY Constants DEF GetDeviceInfo_Return, InSlot, DevicesTypeOK, SlotType
  <2>3. \A q \in Plugins : <<"device", q>> \in Objects /\ <<"query", q>> \in Objects
    BY DEF Objects
  <2>4. /\ \A q \in Plugins : listener'[<<"device", q>>] = listener[<<"device", q>>]
        /\ \A q \in Plugins : q # p => listener'[<<"query", q>>] = listener[<<"query", q>>]
        /\ listener'[<<"query", p>>].thread = "none"
    BY <2>3 DEF GetDeviceInfo_Return, NoListener, DevicesTypeOK, ThreadsType
  <2> QED
    BY <2>1, <2>2, <2>4 DEF GetDeviceInfo_Return, Readers, OwnInv
<1> QED
  BY <1>1, <1>2, <1>3, <1>4, <1>5 DEF OwnInv

LEMMA StartEventListener_Owned ==
  ASSUME DevicesTypeOK, OwnInv, NEW p \in Plugins, StartEventListener(p)
  PROVE  OwnInv'
<1>1. LockHeld'
  BY SessionThread, Distinct, Constants
     DEF LockHeld, CallType, LockType, OpeningSteps, OwnInv, DevicesTypeOK,
         StartEventListener, GoTo, Idle
<1>2. Sessions'
  BY SessionThread, Distinct, Constants
     DEF Sessions, CallType, PluginType, HandleType, OpeningSteps, LockHeld, OwnInv,
         DevicesTypeOK, StartEventListener, GoTo, Idle
<1>3. Joins'
  BY SessionThread, Distinct, Constants
     DEF Joins, LockHeld, CallType, SlotType, OwnInv, DevicesTypeOK, StartEventListener,
         GoTo, Idle
<1>4. HandlesAreOwned'
  BY SessionThread, Distinct, Constants
     DEF HandlesAreOwned, InSlot, Opening, OpenResult, LockHeld, Sessions, Joins,
         SlotType, HandleType, PluginType, CallType, OpeningSteps, OwnInv,
         DevicesTypeOK, StartEventListener, GoTo, Idle
<1>5. Readers'
  <2>1. Session(p) \in Threads /\ call'[Session(p)].pc = "opened"
        /\ \A q \in Plugins : q # p => call'[Session(q)].pc = call[Session(q)].pc
    BY SessionThread, Distinct DEF StartEventListener, DevicesTypeOK, CallType, GoTo
  <2>2. \A q \in Plugins : (InSlot(q) => InSlot(q)') /\ InSlot(p)'
    <3>1. PICK i \in Slots : FirstFree(i) /\ slot' = [slot EXCEPT ![i] = p]
      BY DEF StartEventListener
    <3>2. slot'[i] = p /\ slot[i] = None /\ \A j \in Slots : j # i => slot'[j] = slot[j]
      BY <3>1 DEF FirstFree, DevicesTypeOK, SlotType
    <3> QED
      BY <3>2, Constants DEF InSlot
  <2>3. \A q \in Plugins : <<"device", q>> \in Objects /\ <<"query", q>> \in Objects
    BY DEF Objects
  <2>4. /\ \A q \in Plugins : q # p => listener'[<<"device", q>>] = listener[<<"device", q>>]
        /\ \A q \in Plugins : listener'[<<"query", q>>] = listener[<<"query", q>>]
    BY <2>3 DEF StartEventListener, NoListener, DevicesTypeOK, ThreadsType
  <2> QED
    BY <2>1, <2>2, <2>4 DEF StartEventListener, Readers, OwnInv
<1> QED
  BY <1>1, <1>2, <1>3, <1>4, <1>5 DEF OwnInv

LEMMA StartEventListener_Failed_Owned ==
  ASSUME DevicesTypeOK, OwnInv, NEW p \in Plugins, StartEventListener_Failed(p)
  PROVE  OwnInv'
<1>1. LockHeld'
  BY SessionThread, Distinct, Constants
     DEF LockHeld, CallType, LockType, OpeningSteps, OwnInv, DevicesTypeOK,
         StartEventListener_Failed, GoTo, Idle
<1>2. Sessions'
  BY SessionThread, Distinct, Constants
     DEF Sessions, CallType, PluginType, HandleType, OpeningSteps, LockHeld, OwnInv,
         DevicesTypeOK, StartEventListener_Failed, GoTo, Idle
<1>3. Joins'
  BY SessionThread, Distinct, Constants
     DEF Joins, LockHeld, CallType, SlotType, OwnInv, DevicesTypeOK,
         StartEventListener_Failed, GoTo, Idle
<1>4. HandlesAreOwned'
  BY SessionThread, Distinct, Constants
     DEF HandlesAreOwned, InSlot, Opening, OpenResult, LockHeld, Sessions, Joins,
         SlotType, HandleType, PluginType, CallType, OpeningSteps, OwnInv,
         DevicesTypeOK, StartEventListener_Failed, GoTo, Idle
<1>5. Readers'
  BY ReadersKept, Moves, SessionThread, Distinct
     DEF StartEventListener_Failed, OwnInv, DevicesTypeOK, Sessions, CallType,
         ThreadsType, Ended, Idle, ListenerStates
<1> QED
  BY <1>1, <1>2, <1>3, <1>4, <1>5 DEF OwnInv

LEMMA StartEventListener_ReaderFailed_Owned ==
  ASSUME DevicesTypeOK, OwnInv, NEW p \in Plugins, StartEventListener_ReaderFailed(p)
  PROVE  OwnInv'
<1>1. LockHeld'
  BY SessionThread, Distinct, Constants
     DEF LockHeld, CallType, LockType, OpeningSteps, OwnInv, DevicesTypeOK,
         StartEventListener_ReaderFailed, GoTo, Idle
<1>2. Sessions'
  BY SessionThread, Distinct, Constants
     DEF Sessions, CallType, PluginType, HandleType, OpeningSteps, LockHeld, OwnInv,
         DevicesTypeOK, StartEventListener_ReaderFailed, GoTo, Idle
<1>3. Joins'
  BY SessionThread, Distinct, Constants
     DEF Joins, LockHeld, CallType, SlotType, OwnInv, DevicesTypeOK,
         StartEventListener_ReaderFailed, GoTo, Idle
<1>4. HandlesAreOwned'
  BY SessionThread, Distinct, Constants
     DEF HandlesAreOwned, InSlot, Opening, OpenResult, LockHeld, Sessions, Joins,
         SlotType, HandleType, PluginType, CallType, OpeningSteps, OwnInv,
         DevicesTypeOK, StartEventListener_ReaderFailed, GoTo, Idle
<1>5. Readers'
  <2>1. Session(p) \in Threads /\ call'[Session(p)].pc = "undo"
        /\ \A q \in Plugins : q # p => call'[Session(q)].pc = call[Session(q)].pc
    BY SessionThread, Distinct
       DEF StartEventListener_ReaderFailed, DevicesTypeOK, CallType, GoTo
  <2>2. \A q \in Plugins : InSlot(q)' <=> InSlot(q)
    BY Constants DEF StartEventListener_ReaderFailed, InSlot, DevicesTypeOK, SlotType
  <2>3. \A q \in Plugins : <<"device", q>> \in Objects /\ <<"query", q>> \in Objects
    BY DEF Objects
  <2>4. /\ \A q \in Plugins : q # p => listener'[<<"device", q>>] = listener[<<"device", q>>]
        /\ \A q \in Plugins : listener'[<<"query", q>>] = listener[<<"query", q>>]
    BY <2>3 DEF StartEventListener_ReaderFailed, NoListener, DevicesTypeOK, ThreadsType
  <2> QED
    BY <2>1, <2>2, <2>4 DEF StartEventListener_ReaderFailed, Readers, OwnInv
<1> QED
  BY <1>1, <1>2, <1>3, <1>4, <1>5 DEF OwnInv

LEMMA DeleteDevice_Owned ==
  ASSUME DevicesTypeOK, OwnInv, NEW p \in Plugins, DeleteDevice(p)
  PROVE  OwnInv'
<1>1. LockHeld'
  BY SessionThread, Distinct, Constants
     DEF LockHeld, CallType, LockType, OpeningSteps, OwnInv, DevicesTypeOK,
         DeleteDevice, GoTo, Idle
<1>2. Sessions'
  BY SessionThread, Distinct, Constants
     DEF Sessions, CallType, PluginType, HandleType, OpeningSteps, LockHeld, OwnInv,
         DevicesTypeOK, DeleteDevice, GoTo, Idle
<1>3. Joins'
  BY SessionThread, Distinct, Constants
     DEF Joins, LockHeld, CallType, SlotType, OwnInv, DevicesTypeOK, DeleteDevice, GoTo,
         Idle
<1>4. HandlesAreOwned'
  BY SessionThread, Distinct, Constants
     DEF HandlesAreOwned, InSlot, Opening, OpenResult, LockHeld, Sessions, Joins,
         SlotType, HandleType, PluginType, CallType, OpeningSteps, OwnInv,
         DevicesTypeOK, DeleteDevice, GoTo, Idle
<1>5. Readers'
  <2>1. Session(p) \in Threads /\ call'[Session(p)].pc = "opened"
        /\ \A q \in Plugins : q # p => call'[Session(q)].pc = call[Session(q)].pc
    BY SessionThread, Distinct DEF DeleteDevice, DevicesTypeOK, CallType, GoTo
  <2>2. \A q \in Plugins : InSlot(q)' <=> InSlot(q)
    BY Constants DEF DeleteDevice, InSlot, DevicesTypeOK, SlotType
  <2>3. \A q \in Plugins : <<"device", q>> \in Objects /\ <<"query", q>> \in Objects
    BY DEF Objects
  <2>4. /\ \A q \in Plugins : q # p => listener'[<<"device", q>>] = listener[<<"device", q>>]
        /\ \A q \in Plugins : listener'[<<"query", q>>] = listener[<<"query", q>>]
        /\ listener'[<<"device", p>>].thread = "none"
    BY <2>3 DEF DeleteDevice, NoListener, DevicesTypeOK, ThreadsType
  <2> QED
    BY <2>1, <2>2, <2>4 DEF DeleteDevice, Readers, OwnInv
<1> QED
  BY <1>1, <1>2, <1>3, <1>4, <1>5 DEF OwnInv

LEMMA Export_CloseDevice_Owned ==
  ASSUME DevicesTypeOK, OwnInv, NEW t \in Threads, Export_CloseDevice(t)
  PROVE  OwnInv'
<1>1. LockHeld'
  BY SessionThread, Distinct, Constants
     DEF LockHeld, CallType, LockType, OpeningSteps, OwnInv, DevicesTypeOK,
         Export_CloseDevice, GoTo, Idle
<1>2. Sessions'
  <2>1. \A p \in Plugins : call'[Session(p)] = call[Session(p)]
    BY Closers, SessionThread DEF Export_CloseDevice, DevicesTypeOK, CallType, GoTo
  <2>2. \A p \in Plugins : lock' = Session(p) <=> lock = Session(p)
    BY Closers, SessionThread, Constants DEF Export_CloseDevice, DevicesTypeOK
  <2> QED
    BY <2>1, <2>2, SessionsKept DEF Export_CloseDevice, OwnInv
<1>3. Joins'
  BY SessionThread, Distinct, Constants
     DEF Joins, LockHeld, CallType, SlotType, OwnInv, DevicesTypeOK, Export_CloseDevice,
         GoTo, Idle
<1>4. HandlesAreOwned'
  <2>1. \A p \in Plugins : call'[Session(p)] = call[Session(p)]
    BY Closers, SessionThread DEF Export_CloseDevice, DevicesTypeOK, CallType, GoTo
  <2>2. \A p \in Plugins : lock' = Session(p) <=> lock = Session(p)
    BY Closers, SessionThread, Constants DEF Export_CloseDevice, DevicesTypeOK
  <2> QED
    BY <2>1, <2>2, SessionsKept DEF Export_CloseDevice, OwnInv
<1>5. Readers'
  <2>1. \A p \in Plugins : call'[Session(p)] = call[Session(p)]
    BY Closers, SessionThread DEF Export_CloseDevice, DevicesTypeOK, CallType, GoTo
  <2>2. \A x \in Objects : listener'[x].thread # "none" => listener[x].thread # "none"
    <3>1. CASE UNCHANGED listener
      BY <3>1
    <3>2. ASSUME NEW y \in Objects, listener' = [listener EXCEPT ![y].stop = TRUE]
          PROVE  \A x \in Objects : listener'[x].thread = listener[x].thread
      BY <3>2 DEF DevicesTypeOK, ThreadsType, ListenerStates
    <3>3. UNCHANGED listener \/ \E y \in Objects : listener' = [listener EXCEPT ![y].stop = TRUE]
      <4>1. call[t].id \in Slots
        BY DEF Export_CloseDevice, DevicesTypeOK, CallType
      <4>2. slot[call[t].id] # None => <<"device", slot[call[t].id]>> \in Objects
        BY <4>1 DEF DevicesTypeOK, SlotType, Objects
      <4> QED
        BY <4>2 DEF Export_CloseDevice
    <3> QED
      BY <3>1, <3>2, <3>3
  <2> QED
    BY <2>1, <2>2, ReadersKept DEF Export_CloseDevice, OwnInv
<1> QED
  BY <1>1, <1>2, <1>3, <1>4, <1>5 DEF OwnInv

LEMMA Export_CloseDevice_Return_Owned ==
  ASSUME DevicesTypeOK, OwnInv, NEW t \in Threads, Export_CloseDevice_Return(t)
  PROVE  OwnInv'
<1>1. LockHeld'
  BY SessionThread, Distinct, Constants
     DEF LockHeld, CallType, LockType, OpeningSteps, OwnInv, DevicesTypeOK,
         Export_CloseDevice_Return, GoTo, Idle, Detach
<1>2. Sessions'
  BY SessionThread, Distinct, Constants
     DEF Sessions, CallType, PluginType, HandleType, OpeningSteps, LockHeld, OwnInv,
         DevicesTypeOK, Export_CloseDevice_Return, GoTo, Idle, Detach
<1>3. Joins'
  BY SessionThread, Distinct, Constants
     DEF Joins, LockHeld, CallType, SlotType, OwnInv, DevicesTypeOK,
         Export_CloseDevice_Return, GoTo, Idle, Detach
<1>4. HandlesAreOwned'
  <2> DEFINE i == call[t].id
             o == slot[i]
  <2>1. i \in Slots /\ o \in Plugins
    BY DEF Export_CloseDevice_Return, OwnInv, Joins, DevicesTypeOK, CallType, SlotType,
           Detach
  <2>2. slot' = [slot EXCEPT ![i] = None] /\ handle' = [handle EXCEPT ![o] = None]
    BY DEF Export_CloseDevice_Return, Detach
  <2> HIDE DEF i, o
  <2>3. slot'[i] = None /\ \A j \in Slots : j # i => slot'[j] = slot[j]
    BY <2>1, <2>2 DEF DevicesTypeOK, SlotType
  <2>4. handle'[o] = None /\ \A q \in Plugins : q # o => handle'[q] = handle[q]
    BY <2>1, <2>2 DEF DevicesTypeOK, HandleType
  <2>5. \A j \in Slots : slot[j] = o => j = i
    BY <2>1 DEF OwnInv, HandlesAreOwned, i, o
  <2>6. \A q \in Plugins : OpenResult(q)' = OpenResult(q)
    BY Closers, Moves, SessionThread
       DEF Export_CloseDevice_Return, OpenResult, DevicesTypeOK, Detach
  <2>7. \A q \in Plugins : ~Opening(q) /\ ~Opening(q)'
    BY Closers, SessionThread, Constants
       DEF Export_CloseDevice_Return, Opening, OwnInv, LockHeld, DevicesTypeOK, Detach
  <2>8. \A q \in Plugins : q # o => (InSlot(q)' <=> InSlot(q))
    BY <2>1, <2>3, Constants DEF InSlot, o
  <2>9. \A q, r \in Plugins : handle'[q] = handle'[r] /\ handle'[q] # None => q = r
    BY <2>4 DEF OwnInv, HandlesAreOwned
  <2>10. \A j \in Slots, q \in Plugins : slot'[j] = q => handle'[q] # None /\ OpenResult(q)' = j
    BY <2>3, <2>4, <2>5, <2>6, Constants DEF OwnInv, HandlesAreOwned
  <2>11. \A q \in Plugins : handle'[q] # None /\ ~InSlot(q)' /\ ~Opening(q)'
                            => plugin'[q].started /\ OpenResult(q)' = Invalid
    BY <2>4, <2>6, <2>7, <2>8
       DEF Export_CloseDevice_Return, OwnInv, HandlesAreOwned, Detach
  <2> QED
    BY <2>9, <2>10, <2>11 DEF HandlesAreOwned
<1>5. Readers'
  <2> DEFINE i == call[t].id
             o == slot[i]
  <2>1. i \in Slots /\ o \in Plugins
    BY DEF Export_CloseDevice_Return, OwnInv, Joins, DevicesTypeOK, CallType, SlotType,
           Detach
  <2>2. /\ slot' = [slot EXCEPT ![i] = None] /\ reading' = reading \ {o}
        /\ listener' = [listener EXCEPT ![<<"device", o>>] = NoListener]
    BY DEF Export_CloseDevice_Return, Detach
  <2> HIDE DEF i
  <2>3. \A q \in Plugins : q # o => (InSlot(q) => InSlot(q)')
    BY <2>1, <2>2 DEF InSlot, DevicesTypeOK, SlotType
  <2> HIDE DEF o
  <2>4. <<"device", o>> \in Objects /\ \A q \in Plugins : <<"device", q>> \in Objects /\ <<"query", q>> \in Objects
    BY <2>1 DEF Objects
  <2>5. /\ listener'[<<"device", o>>].thread = "none"
        /\ \A q \in Plugins : q # o => listener'[<<"device", q>>] = listener[<<"device", q>>]
        /\ \A q \in Plugins : listener'[<<"query", q>>] = listener[<<"query", q>>]
    BY <2>2, <2>4 DEF NoListener, DevicesTypeOK, ThreadsType
  <2>6. \A q \in Plugins : call'[Session(q)] = call[Session(q)]
    BY Closers, SessionThread
       DEF Export_CloseDevice_Return, DevicesTypeOK, CallType, GoTo, Detach
  <2> QED
    BY <2>2, <2>3, <2>5, <2>6 DEF Readers, OwnInv
<1> QED
  BY <1>1, <1>2, <1>3, <1>4, <1>5 DEF OwnInv

LEMMA Export_SendHCICommand_Owned ==
  ASSUME DevicesTypeOK, OwnInv, NEW p \in Plugins, Export_SendHCICommand(p)
  PROVE  OwnInv'
<1>1. LockHeld'
  BY SessionThread, Distinct, Constants
     DEF LockHeld, CallType, LockType, OpeningSteps, OwnInv, DevicesTypeOK,
         Export_SendHCICommand, GoTo, Idle, SendCommand
<1>2. Sessions'
  BY SessionThread, Distinct, Constants
     DEF Sessions, CallType, PluginType, HandleType, OpeningSteps, LockHeld, OwnInv,
         DevicesTypeOK, Export_SendHCICommand, GoTo, Idle, SendCommand
<1>3. Joins'
  BY SessionThread, Distinct, Constants
     DEF Joins, LockHeld, CallType, SlotType, OwnInv, DevicesTypeOK,
         Export_SendHCICommand, GoTo, Idle, SendCommand
<1>4. HandlesAreOwned'
  <2>1. call' = [call EXCEPT ![Session(p)] = Idle] /\ UNCHANGED <<plugin, lock, slot, handle>>
    BY DEF Export_SendHCICommand, SendCommand
  <2>2. \A q \in Plugins : call'[Session(q)] = IF q = p THEN Idle ELSE call[Session(q)]
    BY <2>1, SessionThread, Distinct DEF DevicesTypeOK, CallType
  <2>3. \A q \in Plugins : OpenResult(q)' = OpenResult(q) /\ (Opening(q)' <=> Opening(q))
    <3>1. call[Session(p)].pc = "send" /\ Idle.pc = "idle"
      BY DEF Export_SendHCICommand, Idle
    <3> QED
      BY <2>1, <2>2, <3>1 DEF OpenResult, Opening
  <2> QED
    BY <2>1, <2>3, HandlesKept DEF OwnInv
<1>5. Readers'
  BY ReadersKept, Moves, SessionThread, Distinct
     DEF Export_SendHCICommand, OwnInv, DevicesTypeOK, Sessions, CallType, ThreadsType,
         Ended, Idle, ListenerStates, SendCommand
<1> QED
  BY <1>1, <1>2, <1>3, <1>4, <1>5 DEF OwnInv

LEMMA Unplug_Owned ==
  ASSUME DevicesTypeOK, OwnInv, NEW a \in Adapters, Unplug(a)
  PROVE  OwnInv'
<1>1. LockHeld'
  BY SessionThread, Distinct, Constants
     DEF LockHeld, CallType, LockType, OpeningSteps, OwnInv, DevicesTypeOK, Unplug,
         GoTo, Idle
<1>2. Sessions'
  BY SessionThread, Distinct, Constants
     DEF Sessions, CallType, PluginType, HandleType, OpeningSteps, LockHeld, OwnInv,
         DevicesTypeOK, Unplug, GoTo, Idle
<1>3. Joins'
  BY SessionThread, Distinct, Constants
     DEF Joins, LockHeld, CallType, SlotType, OwnInv, DevicesTypeOK, Unplug, GoTo, Idle
<1>4. HandlesAreOwned'
  BY SessionThread, Distinct, Constants
     DEF HandlesAreOwned, InSlot, Opening, OpenResult, LockHeld, Sessions, Joins,
         SlotType, HandleType, PluginType, CallType, OpeningSteps, OwnInv,
         DevicesTypeOK, Unplug, GoTo, Idle
<1>5. Readers'
  BY ReadersKept, Moves, Distinct
     DEF Unplug, OwnInv, DevicesTypeOK, Sessions, CallType, ThreadsType, Ended, Idle,
         ListenerStates
<1> QED
  BY <1>1, <1>2, <1>3, <1>4, <1>5 DEF OwnInv

-----------------------------------------------------------------------------
(* The theorems.                                                           *)

LEMMA InitOwned == Init => OwnInv
  BY Constants, SessionThread
     DEF Init, OwnInv, LockHeld, Sessions, Joins, HandlesAreOwned, Readers, InSlot,
         Opening, OpenResult, Idle, NoListener, Objects, OpeningSteps

LEMMA Unchanged ==
  ASSUME DevicesTypeOK, OwnInv, UNCHANGED vars
  PROVE  DevicesTypeOK' /\ OwnInv'
<1>1. DevicesTypeOK'
  BY SameTypes DEF DevicesTypeOK, vars
<1>2. LockHeld' /\ Sessions' /\ Joins' /\ Readers'
  BY DEF OwnInv, LockHeld, Sessions, Joins, Readers, InSlot, vars
<1>3. HandlesAreOwned'
  BY SessionsKept DEF OwnInv, vars
<1> QED
  BY <1>1, <1>2, <1>3 DEF OwnInv

LEMMA Step ==
  ASSUME DevicesTypeOK, OwnInv, [Next]_vars
  PROVE  DevicesTypeOK' /\ OwnInv'
<1>1. CASE UNCHANGED vars
  BY <1>1, Unchanged
<1>2. ASSUME NEW p \in Plugins, OpenSteps(p)
      PROVE  DevicesTypeOK' /\ OwnInv'
  <2>1. CASE OpenDevice_Return(p)
    BY <2>1, OpenDevice_Return_Types, OpenDevice_Return_Owned
  <2>2. CASE Export_OpenDevice(p)
    BY <2>2, Export_OpenDevice_Types, Export_OpenDevice_Owned
  <2>3. CASE GetDeviceInfo(p)
    BY <2>3, GetDeviceInfo_Types, GetDeviceInfo_Owned
  <2>12. CASE GetDeviceInfo_NoListener(p)
    BY <2>12, GetDeviceInfo_NoListener_Types, GetDeviceInfo_NoListener_Owned
  <2>4. CASE SendRead(p)
    BY <2>4, SendRead_Types, SendRead_Owned
  <2>5. CASE WaitForCommandComplete(p)
    BY <2>5, WaitForCommandComplete_Types, WaitForCommandComplete_Owned
  <2>6. CASE GetDeviceInfo_Stop(p)
    BY <2>6, GetDeviceInfo_Stop_Types, GetDeviceInfo_Stop_Owned
  <2>7. CASE GetDeviceInfo_Return(p)
    BY <2>7, GetDeviceInfo_Return_Types, GetDeviceInfo_Return_Owned
  <2>8. CASE StartEventListener(p)
    BY <2>8, StartEventListener_Types, StartEventListener_Owned
  <2>9. CASE StartEventListener_Failed(p)
    BY <2>9, StartEventListener_Failed_Types, StartEventListener_Failed_Owned
  <2>10. CASE StartEventListener_ReaderFailed(p)
    BY <2>10, StartEventListener_ReaderFailed_Types,
       StartEventListener_ReaderFailed_Owned
  <2>11. CASE DeleteDevice(p)
    BY <2>11, DeleteDevice_Types, DeleteDevice_Owned
  <2> QED
    BY <1>2, <2>1, <2>2, <2>3, <2>4, <2>5, <2>6, <2>7, <2>8, <2>9, <2>10, <2>11,
       <2>12 DEF OpenSteps
<1>3. ASSUME NEW p \in Plugins, SendSteps(p)
      PROVE  DevicesTypeOK' /\ OwnInv'
  <2>1. CASE Export_SendHCICommand(p)
    BY <2>1, Export_SendHCICommand_Types, Export_SendHCICommand_Owned
  <2> QED
    BY <1>3, <2>1 DEF SendSteps
<1>4. ASSUME NEW t \in Threads, CloseSteps(t)
      PROVE  DevicesTypeOK' /\ OwnInv'
  <2>1. CASE CloseDevice(t)
    BY <2>1, CloseDevice_Types, CloseDevice_Owned
  <2>2. CASE Export_CloseDevice(t)
    BY <2>2, Export_CloseDevice_Types, Export_CloseDevice_Owned
  <2>3. CASE Export_CloseDevice_Return(t)
    BY <2>3, Export_CloseDevice_Return_Types, Export_CloseDevice_Return_Owned
  <2>4. CASE CloseDevice_Return(t)
    BY <2>4, CloseDevice_Return_Types, CloseDevice_Return_Owned
  <2> QED
    BY <1>4, <2>1, <2>2, <2>3, <2>4 DEF CloseSteps
<1>5. ASSUME NEW x \in Objects, ReadCompletes(x)
      PROVE  DevicesTypeOK' /\ OwnInv'
  BY <1>5, ReadCompletes_Types, ReadCompletes_Owned
<1>6. ASSUME NEW x \in Objects, Listener(x)
      PROVE  DevicesTypeOK' /\ OwnInv'
  <2>1. CASE \E e \in listener[x].signalled : Listener_Event(x, e)
    BY <2>1, Listener_Event_Types, Listener_Event_Owned
  <2>2. CASE Listener_Stop(x)
    BY <2>2, Listener_Stop_Types, Listener_Stop_Owned
  <2>3. CASE Listener_Failed(x)
    BY <2>3, Listener_Failed_Types, Listener_Failed_Owned
  <2> QED
    BY <1>6, <2>1, <2>2, <2>3 DEF Listener
<1>7. ASSUME Handler
      PROVE  DevicesTypeOK' /\ OwnInv'
  <2>1. CASE \E h \in handlers : CommandCompleteHandler_Find(h)
    BY <2>1, CommandCompleteHandler_Find_Types, CommandCompleteHandler_Find_Owned
  <2>2. CASE \E h \in handlers : CommandCompleteHandler_Complete(h)
    BY <2>2, CommandCompleteHandler_Complete_Types,
       CommandCompleteHandler_Complete_Owned
  <2>3. CASE \E h \in handlers : CommandCompleteHandler_TooLong(h)
    BY <2>3, CommandCompleteHandler_TooLong_Types, CommandCompleteHandler_TooLong_Owned
  <2> QED
    BY <1>7, <2>1, <2>2, <2>3 DEF Handler
<1>8. ASSUME Environment
      PROVE  DevicesTypeOK' /\ OwnInv'
  <2>1. CASE \E p \in Plugins : OpenDevice(p)
    BY <2>1, OpenDevice_Types, OpenDevice_Owned
  <2>2. CASE \E p \in Plugins : Disconnect(p)
    BY <2>2, Disconnect_Types, Disconnect_Owned
  <2>3. CASE \E p \in Plugins, op \in Opcodes : OnDeviceDataReceived(p, op)
    BY <2>3, OnDeviceDataReceived_Types, OnDeviceDataReceived_Owned
  <2>4. CASE \E a \in Adapters : Unplug(a)
    BY <2>4, Unplug_Types, Unplug_Owned
  <2>5. CASE \E x \in Objects : Listener_NoHandle(x)
    BY <2>5, Listener_NoHandle_Types, Listener_NoHandle_Owned
  <2> QED
    BY <1>8, <2>1, <2>2, <2>3, <2>4, <2>5 DEF Environment
<1> QED
  BY <1>1, <1>2, <1>3, <1>4, <1>5, <1>6, <1>7, <1>8 DEF Next

(* The inductive invariant of fbtrt's devices holds: types, the owner of      *)
(* g_hciCritSection, and who has which handle, slot and reader thread.       *)
THEOREM DevicesInvariant == Spec => [](DevicesTypeOK /\ OwnInv)
<1>1. Init => DevicesTypeOK /\ OwnInv
  BY InitTypes, InitOwned
<1>2. DevicesTypeOK /\ OwnInv /\ [Next]_vars => (DevicesTypeOK /\ OwnInv)'
  BY Step
<1> QED
  BY <1>1, <1>2, PTL DEF Spec

(* Every variable keeps its type, a thread is only in steps of its own     *)
(* program, and a listener never has more reads in the driver than it      *)
(* began with, whatever the order of events (CHci::Listener).              *)
THEOREM DevicesTypes == Spec => []DevicesTypeOK
  BY DevicesInvariant, PTL

(* For any number of plug-ins, slots and adapters: no adapter is opened     *)
(* twice, a slot holds the device that its plug-in was told, and a handle   *)
(* without a slot is one OpenDevice works on or has lost in a failure.      *)
THEOREM HandlesOwned == Spec => []HandlesAreOwned
<1>1. OwnInv => HandlesAreOwned
  BY DEF OwnInv
<1> QED
  BY <1>1, DevicesInvariant, PTL

(* For any number of plug-ins, slots and adapters: no listener and no data *)
(* reader works on a handle that is closed or for a device without a slot. *)
THEOREM ReadersJoined == Spec => []ReadersAreJoined
<1>1. DevicesTypeOK /\ OwnInv => ReadersAreJoined
  <2> SUFFICES ASSUME DevicesTypeOK, OwnInv PROVE ReadersAreJoined
    OBVIOUS
  <2>1. \A p \in Plugins : InSlot(p) => handle[p] # None
    BY DEF OwnInv, HandlesAreOwned, InSlot
  <2>2. \A p \in Plugins : call[Session(p)].pc \in OpeningSteps => handle[p] # None /\ Opening(p)
    BY SessionThread DEF OwnInv, Sessions, LockHeld, Opening
  <2>3. \A p \in Plugins : listener[<<"query", p>>].thread # "none"
                             => handle[p] # None /\ Opening(p)
    BY <2>2 DEF OwnInv, Readers, OpeningSteps
  <2>4. \A p \in Plugins : listener[<<"device", p>>].thread # "none"
                             => handle[p] # None /\ (InSlot(p) \/ Opening(p))
    BY <2>1, <2>2 DEF OwnInv, Readers, OpeningSteps
  <2>5. \A p \in reading : InSlot(p)
    BY DEF OwnInv, Readers, DevicesTypeOK, ThreadsType
  <2> QED
    BY <2>3, <2>4, <2>5 DEF ReadersAreJoined
<1> QED
  BY <1>1, DevicesInvariant, PTL

-----------------------------------------------------------------------------
(* GetDeviceInfo's questions.  While no leftover has been taken, there is  *)
(* at most one answer to a command of GetDeviceInfo under way: in the      *)
(* adapter, in a completed read, in a handler thread or in the slot of     *)
(* CHciLocal; and it answers the command that GetDeviceInfo waits for.     *)

Own(e, p) == e.of = p /\ e.sender = "query"
AsksNow(p) == call[Session(p)].pc = "answer"
Current(e, p) == Own(e, p) => AsksNow(p) /\ e.op = NextQuery(p)

InAdapters(p) ==
  \E a \in Adapters : \E k \in DOMAIN adapter[a].events : Own(adapter[a].events[k], p)
InListeners(p) == \E x \in Objects : \E e \in listener[x].signalled : Own(e, p)
InHandlers(p) == \E h \in handlers : Own(h.event, p)
InBuffer(p) == query.buffer # None /\ Own(query.buffer, p)

AllCurrent(p) ==
  /\ \A a \in Adapters : \A k \in DOMAIN adapter[a].events : Current(adapter[a].events[k], p)
  /\ \A x \in Objects : \A e \in listener[x].signalled : Current(e, p)
  /\ \A h \in handlers : Current(h.event, p)
  /\ query.buffer # None => Current(query.buffer, p)
OneUnderWay(p) ==
  /\ \A a, b \in Adapters : \A j \in DOMAIN adapter[a].events, k \in DOMAIN adapter[b].events :
       Own(adapter[a].events[j], p) /\ Own(adapter[b].events[k], p) => a = b /\ j = k
  /\ \A x, y \in Objects : \A e \in listener[x].signalled, f \in listener[y].signalled :
       Own(e, p) /\ Own(f, p) => x = y /\ e = f
  /\ \A g, h \in handlers : Own(g.event, p) /\ Own(h.event, p) => g = h
  /\ InAdapters(p) => ~InListeners(p) /\ ~InHandlers(p) /\ ~InBuffer(p)
  /\ InListeners(p) => ~InHandlers(p) /\ ~InBuffer(p)
  /\ InHandlers(p) => ~InBuffer(p)
Tracked ==
  \A p \in Plugins : TookLeftover(p, Len(answers[p])) \/ (AllCurrent(p) /\ OneUnderWay(p))

\* The slot of CHciLocal is that of the session in GetDeviceInfo, and is in use
\* while it waits.
QueryOf ==
  /\ \A p \in Plugins : query.of = p <=> call[Session(p)].pc \in {"ask", "answer", "stop"}
  /\ \A p \in Plugins : AsksNow(p) => Len(answers[p]) < Len(Queries) /\ query.op = NextQuery(p)
  /\ query.op # None => query.of # None /\ AsksNow(query.of)
  /\ query.buffer # None => query.op # None
  /\ query.signal => query.buffer # None

\* A handler that has found the slot, and what fills the slot, carry an opcode
\* that has been asked.
Sent(p) == IF AsksNow(p) THEN Len(answers[p]) + 1 ELSE Len(answers[p])
AskedFor(p, op) == \E i \in 1 .. Sent(p) : op = Queries[i]
FoundAsked == \A h \in handlers : h.pc = "found" => AskedFor(h.of, h.event.op)
BufferAsked == query.buffer # None => AskedFor(query.of, query.buffer.op)

QueryInv == QueryOf /\ FoundAsked /\ BufferAsked /\ Tracked /\ AnswersAreTaken

LEMMA NoEvent == None \notin Events
<1>1. Opcodes \subseteq Nat
  BY CommandsAssumption DEF Opcodes
<1> QED
  BY <1>1, RuntimeAssumption DEF Events

LEMMA QueryKept ==
  ASSUME QueryType, QueryOf, UNCHANGED <<query, answers>>,
         \A p \in Plugins :
           /\ call'[Session(p)].pc \in {"ask", "answer", "stop"}
                <=> call[Session(p)].pc \in {"ask", "answer", "stop"}
           /\ AsksNow(p)' <=> AsksNow(p)
  PROVE  QueryOf'
  BY DEF QueryOf, QueryType, NextQuery

\* A step in which answers to GetDeviceInfo may be lost, and no more than that.
OnlyLost ==
  /\ UNCHANGED answers
  /\ \A p \in Plugins : AsksNow(p)' <=> AsksNow(p)
  /\ \A a \in Adapters : \A k \in DOMAIN adapter'[a].events :
       adapter'[a].events[k].sender = "query"
         => k \in DOMAIN adapter[a].events /\ adapter'[a].events[k] = adapter[a].events[k]
  /\ \A x \in Objects : listener'[x].signalled \subseteq listener[x].signalled
  /\ handlers' \subseteq handlers
  /\ query'.buffer # None => query'.buffer = query.buffer /\ query'.of = query.of

LEMMA CalmStep ==
  ASSUME DevicesTypeOK, QueryInv, QueryOf', OnlyLost
  PROVE  QueryInv'
<1>1. \A p \in Plugins : Sent(p)' = Sent(p) /\ NextQuery(p)' = NextQuery(p)
  BY DEF OnlyLost, Sent, NextQuery
<1>2. FoundAsked'
  <2>1. \A h \in handlers : h.of \in Plugins
    BY DEF DevicesTypeOK, ThreadsType
  <2> QED
    BY <1>1, <2>1 DEF OnlyLost, FoundAsked, AskedFor, QueryInv
<1>3. BufferAsked'
  <2> SUFFICES ASSUME query'.buffer # None PROVE AskedFor(query.of, query.buffer.op)'
    BY DEF BufferAsked
  <2>1. query'.buffer = query.buffer /\ query'.of = query.of
    BY DEF OnlyLost
  <2>2. query.of \in Plugins
    BY <2>1 DEF QueryInv, QueryOf, DevicesTypeOK, QueryType
  <2> QED
    BY <1>1, <2>1, <2>2 DEF BufferAsked, AskedFor, QueryInv
<1>4. ASSUME NEW p \in Plugins, AllCurrent(p), OneUnderWay(p)
      PROVE  AllCurrent(p)' /\ OneUnderWay(p)'
  <2>1. \A e : Current(e, p)' <=> Current(e, p)
    BY <1>1 DEF OnlyLost, Current, Own
  <2>2. \A a \in Adapters : \A k \in DOMAIN adapter'[a].events :
          Own(adapter'[a].events[k], p)
            => k \in DOMAIN adapter[a].events /\ adapter'[a].events[k] = adapter[a].events[k]
    BY DEF OnlyLost, Own
  <2>3. AllCurrent(p)'
    BY <1>4, <2>1, <2>2 DEF OnlyLost, AllCurrent, Current
  <2>4. /\ InAdapters(p)' => InAdapters(p)
        /\ InListeners(p)' => InListeners(p)
        /\ InHandlers(p)' => InHandlers(p)
        /\ InBuffer(p)' => InBuffer(p)
    BY <2>2 DEF OnlyLost, InAdapters, InListeners, InHandlers, InBuffer, Own
  <2>5. OneUnderWay(p)'
    BY <1>4, <2>2, <2>4 DEF OnlyLost, OneUnderWay, Own
  <2> QED
    BY <2>3, <2>5
<1>5. \A p \in Plugins : \A k : TookLeftover(p, k)' <=> TookLeftover(p, k)
  BY DEF OnlyLost, TookLeftover
<1>6. Tracked'
  BY <1>4, <1>5 DEF Tracked, QueryInv, OnlyLost
<1>7. AnswersAreTaken'
  BY <1>5 DEF AnswersAreTaken, QueryInv, OnlyLost
<1> QED
  BY <1>2, <1>3, <1>6, <1>7 DEF QueryInv

\* Steps around GetDeviceInfo, and those of the threads that it does not hear of.
LEMMA Bystander ==
  ASSUME DevicesTypeOK, QueryInv, UNCHANGED <<query, answers, handlers>>,
         \A p \in Plugins :
           /\ call'[Session(p)].pc \in {"ask", "answer", "stop"}
                <=> call[Session(p)].pc \in {"ask", "answer", "stop"}
           /\ AsksNow(p)' <=> AsksNow(p),
         \A x \in Objects : listener'[x].signalled \subseteq listener[x].signalled,
         \/ UNCHANGED adapter
         \/ \E a \in Adapters, e \in Events : SendCommand(a, e) /\ e.sender = "stack"
         \/ \E a \in Adapters : adapter' = [adapter EXCEPT ![a] = [plugged |-> FALSE, events |-> <<>>]]
  PROVE  QueryInv'
<1>1. QueryOf'
  BY QueryKept DEF QueryInv, DevicesTypeOK
<1> DEFINE Kept ==
      \A a \in Adapters : \A k \in DOMAIN adapter'[a].events :
        adapter'[a].events[k].sender = "query"
          => k \in DOMAIN adapter[a].events /\ adapter'[a].events[k] = adapter[a].events[k]
<1>2. Kept
  <2>1. CASE UNCHANGED adapter
    BY <2>1
  <2>2. ASSUME NEW a \in Adapters, NEW e \in Events, SendCommand(a, e), e.sender = "stack"
        PROVE  Kept
    <3>1. adapter[a].events \in Seq(Events)
      BY DEF DevicesTypeOK, AdapterType
    <3>2. /\ adapter'[a].events = Append(adapter[a].events, e)
          /\ \A b \in Adapters : b # a => adapter'[b] = adapter[b]
      BY <2>2 DEF SendCommand, DevicesTypeOK, AdapterType
    <3>3. \A k \in DOMAIN adapter'[a].events :
            adapter'[a].events[k].sender = "query"
              => k \in DOMAIN adapter[a].events /\ adapter'[a].events[k] = adapter[a].events[k]
      BY <2>2, <3>1, <3>2, AppendProperties
    <3> QED
      BY <3>2, <3>3
  <2>3. ASSUME NEW a \in Adapters,
               adapter' = [adapter EXCEPT ![a] = [plugged |-> FALSE, events |-> <<>>]]
        PROVE  Kept
    <3>1. adapter'[a].events = <<>> /\ \A b \in Adapters : b # a => adapter'[b] = adapter[b]
      BY <2>3 DEF DevicesTypeOK, AdapterType
    <3>2. DOMAIN adapter'[a].events = {}
      BY <3>1
    <3> QED
      BY <3>1, <3>2
  <2> QED
    BY <2>1, <2>2, <2>3
<1>3. OnlyLost
  BY <1>2 DEF OnlyLost
<1> QED
  BY <1>1, <1>3, CalmStep

-----------------------------------------------------------------------------
(* Each action keeps QueryInv.                                             *)

LEMMA OpenDevice_Asks ==
  ASSUME DevicesTypeOK, OwnInv, QueryInv, NEW p \in Plugins, OpenDevice(p)
  PROVE  QueryInv'
<1>1. \A q \in Plugins :
        /\ call'[Session(q)].pc \in {"ask", "answer", "stop"}
             <=> call[Session(q)].pc \in {"ask", "answer", "stop"}
        /\ AsksNow(q)' <=> AsksNow(q)
  BY SessionThread, Distinct DEF OpenDevice, AsksNow, DevicesTypeOK, CallType, GoTo, OwnInv, Sessions
<1> QED
  BY <1>1, Bystander DEF OpenDevice

LEMMA OpenDevice_Return_Asks ==
  ASSUME DevicesTypeOK, QueryInv, NEW p \in Plugins, OpenDevice_Return(p)
  PROVE  QueryInv'
<1>1. \A q \in Plugins :
        /\ call'[Session(q)].pc \in {"ask", "answer", "stop"}
             <=> call[Session(q)].pc \in {"ask", "answer", "stop"}
        /\ AsksNow(q)' <=> AsksNow(q)
  BY SessionThread, Distinct DEF OpenDevice_Return, AsksNow, DevicesTypeOK, CallType, Idle
<1> QED
  BY <1>1, Bystander DEF OpenDevice_Return

LEMMA OnDeviceDataReceived_Asks ==
  ASSUME DevicesTypeOK, QueryInv, NEW p \in Plugins, NEW op \in Opcodes, OnDeviceDataReceived(p, op)
  PROVE  QueryInv'
<1>1. \A q \in Plugins :
        /\ call'[Session(q)].pc \in {"ask", "answer", "stop"}
             <=> call[Session(q)].pc \in {"ask", "answer", "stop"}
        /\ AsksNow(q)' <=> AsksNow(q)
  BY SessionThread, Distinct DEF OnDeviceDataReceived, AsksNow, DevicesTypeOK, CallType
<1> QED
  BY <1>1, Bystander DEF OnDeviceDataReceived

LEMMA CloseDevice_Asks ==
  ASSUME DevicesTypeOK, QueryInv, NEW t \in Threads, CloseDevice(t)
  PROVE  QueryInv'
<1>1. \A q \in Plugins :
        /\ call'[Session(q)].pc \in {"ask", "answer", "stop"}
             <=> call[Session(q)].pc \in {"ask", "answer", "stop"}
        /\ AsksNow(q)' <=> AsksNow(q)
  BY SessionThread, Closers DEF CloseDevice, AsksNow, DevicesTypeOK, CallType
<1> QED
  BY <1>1, Bystander DEF CloseDevice

LEMMA CloseDevice_Return_Asks ==
  ASSUME DevicesTypeOK, QueryInv, NEW t \in Threads, CloseDevice_Return(t)
  PROVE  QueryInv'
<1>1. \A q \in Plugins :
        /\ call'[Session(q)].pc \in {"ask", "answer", "stop"}
             <=> call[Session(q)].pc \in {"ask", "answer", "stop"}
        /\ AsksNow(q)' <=> AsksNow(q)
  BY SessionThread, Closers DEF CloseDevice_Return, AsksNow, DevicesTypeOK, CallType, Idle
<1> QED
  BY <1>1, Bystander DEF CloseDevice_Return

LEMMA Disconnect_Asks ==
  ASSUME DevicesTypeOK, QueryInv, NEW p \in Plugins, Disconnect(p)
  PROVE  QueryInv'
<1>1. \A q \in Plugins : AsksNow(q)' <=> AsksNow(q)
  BY DEF Disconnect, AsksNow
<1> QED
  BY <1>1, Bystander DEF Disconnect

LEMMA Listener_Stop_Asks ==
  ASSUME DevicesTypeOK, QueryInv, NEW x \in Objects, Listener_Stop(x)
  PROVE  QueryInv'
<1>1. \A q \in Plugins : AsksNow(q)' <=> AsksNow(q)
  BY DEF Listener_Stop, AsksNow
<1>2. \A y \in Objects : listener'[y].signalled \subseteq listener[y].signalled
  BY DEF Listener_Stop, DevicesTypeOK, ThreadsType, Objects, Ended
<1> QED
  BY <1>1, <1>2, Bystander DEF Listener_Stop

LEMMA Listener_Failed_Asks ==
  ASSUME DevicesTypeOK, QueryInv, NEW x \in Objects, Listener_Failed(x)
  PROVE  QueryInv'
<1>1. \A q \in Plugins : AsksNow(q)' <=> AsksNow(q)
  BY DEF Listener_Failed, AsksNow
<1>2. \A y \in Objects : listener'[y].signalled \subseteq listener[y].signalled
  BY DEF Listener_Failed, DevicesTypeOK, ThreadsType, Objects, Ended
<1> QED
  BY <1>1, <1>2, Bystander DEF Listener_Failed

LEMMA Listener_NoHandle_Asks ==
  ASSUME DevicesTypeOK, QueryInv, NEW x \in Objects, Listener_NoHandle(x)
  PROVE  QueryInv'
<1>1. \A q \in Plugins : AsksNow(q)' <=> AsksNow(q)
  BY DEF Listener_NoHandle, AsksNow
<1>2. \A y \in Objects : listener'[y].signalled \subseteq listener[y].signalled
  BY DEF Listener_NoHandle, DevicesTypeOK, ThreadsType, Objects, Ended
<1> QED
  BY <1>1, <1>2, Bystander DEF Listener_NoHandle

LEMMA Export_OpenDevice_Asks ==
  ASSUME DevicesTypeOK, QueryInv, NEW p \in Plugins, Export_OpenDevice(p)
  PROVE  QueryInv'
<1>1. \A q \in Plugins :
        /\ call'[Session(q)].pc \in {"ask", "answer", "stop"}
             <=> call[Session(q)].pc \in {"ask", "answer", "stop"}
        /\ AsksNow(q)' <=> AsksNow(q)
  BY SessionThread, Distinct DEF Export_OpenDevice, AsksNow, DevicesTypeOK, CallType, GoTo
<1> QED
  BY <1>1, Bystander DEF Export_OpenDevice, AttachHardware

LEMMA GetDeviceInfo_Stop_Asks ==
  ASSUME DevicesTypeOK, QueryInv, NEW p \in Plugins, GetDeviceInfo_Stop(p)
  PROVE  QueryInv'
<1>1. \A q \in Plugins :
        /\ call'[Session(q)].pc \in {"ask", "answer", "stop"}
             <=> call[Session(q)].pc \in {"ask", "answer", "stop"}
        /\ AsksNow(q)' <=> AsksNow(q)
  BY SessionThread, Distinct DEF GetDeviceInfo_Stop, AsksNow, DevicesTypeOK, CallType, GoTo
<1>2. \A y \in Objects : listener'[y].signalled \subseteq listener[y].signalled
  <2>1. \A y \in Objects : listener'[y] \in {listener[y], [listener[y] EXCEPT !.stop = TRUE]}
    BY DEF GetDeviceInfo_Stop, DevicesTypeOK, ThreadsType
  <2> QED
    BY <2>1, StopReads DEF DevicesTypeOK, ThreadsType
<1> QED
  BY <1>1, <1>2, Bystander DEF GetDeviceInfo_Stop

LEMMA StartEventListener_Asks ==
  ASSUME DevicesTypeOK, QueryInv, NEW p \in Plugins, StartEventListener(p)
  PROVE  QueryInv'
<1>1. \A q \in Plugins :
        /\ call'[Session(q)].pc \in {"ask", "answer", "stop"}
             <=> call[Session(q)].pc \in {"ask", "answer", "stop"}
        /\ AsksNow(q)' <=> AsksNow(q)
  BY SessionThread, Distinct DEF StartEventListener, AsksNow, DevicesTypeOK, CallType
<1>2. \A y \in Objects : listener'[y].signalled \subseteq listener[y].signalled
  BY DEF StartEventListener, DevicesTypeOK, ThreadsType, Objects, Started
<1> QED
  BY <1>1, <1>2, Bystander DEF StartEventListener

LEMMA StartEventListener_Failed_Asks ==
  ASSUME DevicesTypeOK, QueryInv, NEW p \in Plugins, StartEventListener_Failed(p)
  PROVE  QueryInv'
<1>1. \A q \in Plugins :
        /\ call'[Session(q)].pc \in {"ask", "answer", "stop"}
             <=> call[Session(q)].pc \in {"ask", "answer", "stop"}
        /\ AsksNow(q)' <=> AsksNow(q)
  BY SessionThread, Distinct DEF StartEventListener_Failed, AsksNow, DevicesTypeOK, CallType, GoTo
<1> QED
  BY <1>1, Bystander DEF StartEventListener_Failed

LEMMA StartEventListener_ReaderFailed_Asks ==
  ASSUME DevicesTypeOK, QueryInv, NEW p \in Plugins, StartEventListener_ReaderFailed(p)
  PROVE  QueryInv'
<1>1. \A q \in Plugins :
        /\ call'[Session(q)].pc \in {"ask", "answer", "stop"}
             <=> call[Session(q)].pc \in {"ask", "answer", "stop"}
        /\ AsksNow(q)' <=> AsksNow(q)
  BY SessionThread, Distinct DEF StartEventListener_ReaderFailed, AsksNow, DevicesTypeOK, CallType, GoTo
<1>2. \A y \in Objects : listener'[y].signalled \subseteq listener[y].signalled
  BY DEF StartEventListener_ReaderFailed, DevicesTypeOK, ThreadsType, Objects, Started
<1> QED
  BY <1>1, <1>2, Bystander DEF StartEventListener_ReaderFailed

LEMMA DeleteDevice_Asks ==
  ASSUME DevicesTypeOK, QueryInv, NEW p \in Plugins, DeleteDevice(p)
  PROVE  QueryInv'
<1>1. \A q \in Plugins :
        /\ call'[Session(q)].pc \in {"ask", "answer", "stop"}
             <=> call[Session(q)].pc \in {"ask", "answer", "stop"}
        /\ AsksNow(q)' <=> AsksNow(q)
  BY SessionThread, Distinct DEF DeleteDevice, AsksNow, DevicesTypeOK, CallType, GoTo
<1>2. \A y \in Objects : listener'[y].signalled \subseteq listener[y].signalled
  BY DEF DeleteDevice, DevicesTypeOK, ThreadsType, Objects, NoListener
<1> QED
  BY <1>1, <1>2, Bystander DEF DeleteDevice

LEMMA Export_CloseDevice_Asks ==
  ASSUME DevicesTypeOK, OwnInv, QueryInv, NEW t \in Threads, Export_CloseDevice(t)
  PROVE  QueryInv'
<1>1. \A q \in Plugins :
        /\ call'[Session(q)].pc \in {"ask", "answer", "stop"}
             <=> call[Session(q)].pc \in {"ask", "answer", "stop"}
        /\ AsksNow(q)' <=> AsksNow(q)
  BY SessionThread, Closers DEF Export_CloseDevice, AsksNow, DevicesTypeOK, CallType, GoTo
<1>2. \A y \in Objects : listener'[y].signalled \subseteq listener[y].signalled
  <2>1. \A y \in Objects : listener'[y] \in {listener[y], [listener[y] EXCEPT !.stop = TRUE]}
    BY DEF Export_CloseDevice, DevicesTypeOK, ThreadsType
  <2> QED
    BY <2>1, StopReads DEF DevicesTypeOK, ThreadsType
<1> QED
  BY <1>1, <1>2, Bystander DEF Export_CloseDevice

LEMMA Export_CloseDevice_Return_Asks ==
  ASSUME DevicesTypeOK, OwnInv, QueryInv, NEW t \in Threads, Export_CloseDevice_Return(t)
  PROVE  QueryInv'
<1>1. \A q \in Plugins :
        /\ call'[Session(q)].pc \in {"ask", "answer", "stop"}
             <=> call[Session(q)].pc \in {"ask", "answer", "stop"}
        /\ AsksNow(q)' <=> AsksNow(q)
  BY SessionThread, Closers DEF Export_CloseDevice_Return, AsksNow, DevicesTypeOK, CallType, GoTo
<1>2. \A y \in Objects : listener'[y].signalled \subseteq listener[y].signalled
  BY DEF Export_CloseDevice_Return, DevicesTypeOK, ThreadsType, Objects, NoListener
<1> QED
  BY <1>1, <1>2, Bystander DEF Export_CloseDevice_Return, Detach

LEMMA Export_SendHCICommand_Asks ==
  ASSUME DevicesTypeOK, QueryInv, NEW p \in Plugins, Export_SendHCICommand(p)
  PROVE  QueryInv'
<1>1. \A q \in Plugins :
        /\ call'[Session(q)].pc \in {"ask", "answer", "stop"}
             <=> call[Session(q)].pc \in {"ask", "answer", "stop"}
        /\ AsksNow(q)' <=> AsksNow(q)
  BY SessionThread, Distinct DEF Export_SendHCICommand, AsksNow, DevicesTypeOK, CallType, Idle
<1>3. \/ UNCHANGED adapter
      \/ \E a \in Adapters, e \in Events : SendCommand(a, e) /\ e.sender = "stack"
  <2> DEFINE q == slot[call[Session(p)].id]
             e == Answer(call[Session(p)].op, p, "stack")
  <2>1. e \in Events /\ e.sender = "stack" /\ q \in Plugins \cup {None}
    BY SentCommand DEF Export_SendHCICommand, Events, Answer
  <2>2. q \in Plugins /\ Plugged(q) => handle[q] \in Adapters
    BY PluggedAdapter DEF DevicesTypeOK
  <2>3. IF q # None /\ Plugged(q) THEN SendCommand(handle[q], e) ELSE UNCHANGED adapter
    BY DEF Export_SendHCICommand
  <2> HIDE DEF q, e
  <2> QED
    BY <2>1, <2>2, <2>3
<1> QED
  BY <1>1, <1>3, Bystander DEF Export_SendHCICommand

LEMMA Unplug_Asks ==
  ASSUME DevicesTypeOK, QueryInv, NEW a \in Adapters, Unplug(a)
  PROVE  QueryInv'
<1>1. \A q \in Plugins : AsksNow(q)' <=> AsksNow(q)
  BY DEF Unplug, AsksNow
<1> QED
  BY <1>1, Bystander DEF Unplug


\* One session at a time is in GetDeviceInfo.
LEMMA OneOpens ==
  ASSUME OwnInv, NEW p \in Plugins, NEW q \in Plugins,
         call[Session(p)].pc \in OpeningSteps, call[Session(q)].pc \in OpeningSteps
  PROVE  p = q
  BY SessionThread, Distinct DEF OwnInv, LockHeld

LEMMA GetDeviceInfo_Asks ==
  ASSUME DevicesTypeOK, OwnInv, QueryInv, NEW p \in Plugins, GetDeviceInfo(p)
  PROVE  QueryInv'
<1>1. \A q \in Plugins : call'[Session(q)].pc = IF q = p THEN "ask" ELSE call[Session(q)].pc
  BY Moves, SessionThread, Distinct DEF GetDeviceInfo, DevicesTypeOK
<1>2. \A q \in Plugins : call[Session(q)].pc \in {"ask", "answer", "stop"} => FALSE
  BY OneOpens DEF GetDeviceInfo, OpeningSteps
<1>3. query' = [NoQuery EXCEPT !.of = p]
  BY DEF GetDeviceInfo
<1>4. query'.of = p /\ query'.op = None /\ query'.buffer = None /\ query'.signal = FALSE
  BY <1>3 DEF NoQuery
<1>5. QueryOf'
  BY <1>1, <1>2, <1>4 DEF QueryOf, AsksNow
<1>6. \A y \in Objects : listener'[y].signalled \subseteq listener[y].signalled
  BY DEF GetDeviceInfo, DevicesTypeOK, ThreadsType, Objects, Started
<1>7. \A q \in Plugins : AsksNow(q)' <=> AsksNow(q)
  BY <1>1, <1>2 DEF AsksNow, GetDeviceInfo
<1>8. OnlyLost
  BY <1>4, <1>6, <1>7 DEF OnlyLost, GetDeviceInfo
<1> QED
  BY <1>5, <1>8, CalmStep

LEMMA GetDeviceInfo_NoListener_Asks ==
  ASSUME DevicesTypeOK, OwnInv, QueryInv, NEW p \in Plugins, GetDeviceInfo_NoListener(p)
  PROVE  QueryInv'
<1>1. \A q \in Plugins : call'[Session(q)].pc = IF q = p THEN "ask" ELSE call[Session(q)].pc
  BY Moves, SessionThread, Distinct DEF GetDeviceInfo_NoListener, DevicesTypeOK
<1>2. \A q \in Plugins : call[Session(q)].pc \in {"ask", "answer", "stop"} => FALSE
  BY OneOpens DEF GetDeviceInfo_NoListener, OpeningSteps
<1>3. query' = [NoQuery EXCEPT !.of = p]
  BY DEF GetDeviceInfo_NoListener
<1>4. query'.of = p /\ query'.op = None /\ query'.buffer = None /\ query'.signal = FALSE
  BY <1>3 DEF NoQuery
<1>5. QueryOf'
  BY <1>1, <1>2, <1>4 DEF QueryOf, AsksNow
<1>6. \A y \in Objects : listener'[y].signalled \subseteq listener[y].signalled
  BY DEF GetDeviceInfo_NoListener
<1>7. \A q \in Plugins : AsksNow(q)' <=> AsksNow(q)
  BY <1>1, <1>2 DEF AsksNow, GetDeviceInfo_NoListener
<1>8. OnlyLost
  BY <1>4, <1>6, <1>7 DEF OnlyLost, GetDeviceInfo_NoListener
<1> QED
  BY <1>5, <1>8, CalmStep

LEMMA GetDeviceInfo_Return_Asks ==
  ASSUME DevicesTypeOK, OwnInv, QueryInv, NEW p \in Plugins, GetDeviceInfo_Return(p)
  PROVE  QueryInv'
<1>1. \A q \in Plugins : call'[Session(q)].pc = IF q = p THEN "listen" ELSE call[Session(q)].pc
  BY Moves, SessionThread, Distinct DEF GetDeviceInfo_Return, DevicesTypeOK
<1>2. \A q \in Plugins : call[Session(q)].pc \in {"ask", "answer", "stop"} => q = p
  BY OneOpens DEF GetDeviceInfo_Return, OpeningSteps
<1>3. query' = NoQuery /\ call[Session(p)].pc = "stop"
  BY DEF GetDeviceInfo_Return
<1>4. query'.of = None /\ query'.op = None /\ query'.buffer = None /\ query'.signal = FALSE
  BY <1>3 DEF NoQuery
<1>5. QueryOf'
  BY <1>1, <1>2, <1>4, Constants DEF QueryOf, AsksNow
<1>6. \A y \in Objects : listener'[y].signalled \subseteq listener[y].signalled
  BY DEF GetDeviceInfo_Return, DevicesTypeOK, ThreadsType, Objects, NoListener
<1>7. \A q \in Plugins : AsksNow(q)' <=> AsksNow(q)
  BY <1>1, <1>3 DEF AsksNow
<1>8. OnlyLost
  BY <1>4, <1>6, <1>7 DEF OnlyLost, GetDeviceInfo_Return
<1> QED
  BY <1>5, <1>8, CalmStep

LEMMA TailIndex ==
  ASSUME NEW S, NEW s \in Seq(S), s # <<>>
  PROVE  /\ 1 \in DOMAIN s /\ Head(s) = s[1]
         /\ \A k \in DOMAIN Tail(s) : k \in Nat /\ k >= 1 /\ k + 1 \in DOMAIN s /\ Tail(s)[k] = s[k + 1]
  BY HeadTailProperties

\* The adapter's first event is now that of a completed read.
LEMMA ReadCompletes_Asks ==
  ASSUME DevicesTypeOK, QueryInv, NEW x \in Objects, ReadCompletes(x)
  PROVE  QueryInv'
<1> DEFINE a == handle[x[2]]
           old == adapter[a].events
           e == Head(old)
<1>1. /\ a \in Adapters /\ old \in Seq(Events) /\ old # <<>>
      /\ adapter' = [adapter EXCEPT ![a].events = Tail(old)]
  BY PluggedAdapter DEF ReadCompletes, DevicesTypeOK, AdapterType, Objects
<1>2. /\ adapter'[a].events = Tail(old)
      /\ \A b \in Adapters : b # a => adapter'[b].events = adapter[b].events
  BY <1>1 DEF DevicesTypeOK, AdapterType
<1>3. /\ 1 \in DOMAIN old /\ e = old[1]
      /\ \A k \in DOMAIN Tail(old) : k >= 1 /\ k \in Nat /\ k + 1 \in DOMAIN old /\ Tail(old)[k] = old[k + 1]
  BY <1>1, TailIndex
<1>4. /\ listener'[x].signalled = listener[x].signalled \cup {e}
      /\ \A y \in Objects : y # x => listener'[y].signalled = listener[y].signalled
  BY DEF ReadCompletes, DevicesTypeOK, ThreadsType
<1>5. UNCHANGED <<call, query, answers, handlers>>
  BY DEF ReadCompletes
<1> HIDE DEF e
<1>6. QueryOf' /\ FoundAsked' /\ BufferAsked' /\ AnswersAreTaken'
  <2>1. QueryOf'
    BY <1>5 DEF QueryInv, QueryOf, AsksNow, NextQuery
  <2>2. FoundAsked' /\ BufferAsked'
    BY <1>5 DEF QueryInv, FoundAsked, BufferAsked, AskedFor, Sent, AsksNow
  <2>3. AnswersAreTaken'
    BY <1>5 DEF QueryInv, AnswersAreTaken, TookLeftover
  <2> QED
    BY <2>1, <2>2, <2>3
<1>7. ASSUME NEW p \in Plugins, AllCurrent(p), OneUnderWay(p)
      PROVE  AllCurrent(p)' /\ OneUnderWay(p)'
  <2>1. /\ \A f : Current(f, p)' <=> Current(f, p)
        /\ InHandlers(p)' <=> InHandlers(p)
        /\ InBuffer(p)' <=> InBuffer(p)
    BY <1>5 DEF Current, Own, AsksNow, NextQuery, InHandlers, InBuffer
  <2>2. \A b \in Adapters : \A k \in DOMAIN adapter'[b].events :
          \E j \in DOMAIN adapter[b].events :
            /\ adapter'[b].events[k] = adapter[b].events[j]
            /\ j = IF b = a THEN k + 1 ELSE k
            /\ b = a => k \in Nat /\ k >= 1
    BY <1>2, <1>3
  <2>3. Current(e, p)
    BY <1>1, <1>3, <1>7 DEF AllCurrent
  <2>4. AllCurrent(p)'
    <3>1. \A b \in Adapters : \A k \in DOMAIN adapter'[b].events : Current(adapter'[b].events[k], p)
      BY <1>7, <2>2 DEF AllCurrent
    <3>2. \A y \in Objects : \A f \in listener'[y].signalled : Current(f, p)
      BY <1>4, <1>7, <2>3 DEF AllCurrent
    <3> QED
      BY <1>5, <1>7, <3>1, <3>2 DEF AllCurrent, Current, Own, AsksNow, NextQuery
  <2>5. InAdapters(p)' => InAdapters(p)
    BY <2>2 DEF InAdapters
  <2>6. \A b, c \in Adapters : \A j \in DOMAIN adapter'[b].events, k \in DOMAIN adapter'[c].events :
          Own(adapter'[b].events[j], p) /\ Own(adapter'[c].events[k], p) => b = c /\ j = k
    <3> SUFFICES ASSUME NEW b \in Adapters, NEW c \in Adapters,
                        NEW j \in DOMAIN adapter'[b].events, NEW k \in DOMAIN adapter'[c].events,
                        Own(adapter'[b].events[j], p), Own(adapter'[c].events[k], p)
                 PROVE  b = c /\ j = k
      OBVIOUS
    <3>1. /\ (IF b = a THEN j + 1 ELSE j) \in DOMAIN adapter[b].events
          /\ Own(adapter[b].events[IF b = a THEN j + 1 ELSE j], p)
          /\ (IF c = a THEN k + 1 ELSE k) \in DOMAIN adapter[c].events
          /\ Own(adapter[c].events[IF c = a THEN k + 1 ELSE k], p)
      BY <2>2
    <3>2. /\ b = a => j \in Nat
          /\ c = a => k \in Nat
      BY <2>2
    <3>3. b = c /\ (IF b = a THEN j + 1 ELSE j) = (IF c = a THEN k + 1 ELSE k)
      BY <1>7, <3>1 DEF OneUnderWay
    <3> QED
      BY <3>2, <3>3
  <2>7. CASE ~Own(e, p)
    <3>1. \A y \in Objects : \A f \in listener'[y].signalled : Own(f, p) => f \in listener[y].signalled
      BY <1>4, <2>7
    <3>2. InListeners(p)' => InListeners(p)
      BY <3>1 DEF InListeners
    <3>3. OneUnderWay(p)'
      BY <1>5, <1>7, <2>1, <2>5, <2>6, <3>1, <3>2 DEF OneUnderWay
    <3> QED
      BY <2>4, <3>3
  <2>8. CASE Own(e, p)
    <3>1. InAdapters(p) /\ ~InListeners(p) /\ ~InHandlers(p) /\ ~InBuffer(p)
      BY <1>1, <1>3, <1>7, <2>8 DEF InAdapters, OneUnderWay
    <3>2. \A b \in Adapters : \A j \in DOMAIN adapter[b].events :
            Own(adapter[b].events[j], p) => b = a /\ j = 1
      BY <1>1, <1>3, <1>7, <2>8 DEF OneUnderWay
    <3>3. ~InAdapters(p)'
      <4> SUFFICES ASSUME NEW b \in Adapters, NEW k \in DOMAIN adapter'[b].events,
                          Own(adapter'[b].events[k], p)
                   PROVE  FALSE
        BY DEF InAdapters
      <4> PICK j \in DOMAIN adapter[b].events :
            /\ adapter'[b].events[k] = adapter[b].events[j]
            /\ j = IF b = a THEN k + 1 ELSE k
            /\ b = a => k \in Nat /\ k >= 1
        BY <2>2
      <4>1. b = a /\ j = 1
        BY <3>2
      <4> QED
        BY <4>1
    <3>4. \A y \in Objects : \A f \in listener'[y].signalled : Own(f, p) => y = x /\ f = e
      BY <1>4, <3>1 DEF InListeners
    <3>5. OneUnderWay(p)'
      BY <1>5, <1>7, <2>1, <2>6, <3>1, <3>3, <3>4 DEF OneUnderWay
    <3> QED
      BY <2>4, <3>5
  <2> QED
    BY <2>7, <2>8
<1>8. Tracked'
  BY <1>5, <1>7 DEF Tracked, QueryInv, TookLeftover
<1> QED
  BY <1>6, <1>8 DEF QueryInv

\* A completed read is now a handler thread of CHciLocal, or gone for a device.
LEMMA Listener_Event_Asks ==
  ASSUME DevicesTypeOK, QueryInv, NEW x \in Objects, NEW e \in listener[x].signalled,
         Listener_Event(x, e)
  PROVE  QueryInv'
<1> DEFINE new == [of |-> x[2], event |-> e, pc |-> "started"]
<1>1. UNCHANGED <<call, query, answers, adapter>> /\ handlers' \subseteq handlers \cup {new}
  BY DEF Listener_Event, Handled
<1>2. /\ listener'[x].signalled = listener[x].signalled \ {e}
      /\ \A y \in Objects : y # x => listener'[y].signalled = listener[y].signalled
  BY DEF Listener_Event, DevicesTypeOK, ThreadsType
<1>3. new.event = e /\ new.pc = "started"
  OBVIOUS
<1> HIDE DEF new
<1>4. QueryOf' /\ BufferAsked' /\ AnswersAreTaken'
  <2>1. QueryOf'
    BY <1>1 DEF QueryInv, QueryOf, AsksNow, NextQuery
  <2>2. BufferAsked'
    BY <1>1 DEF QueryInv, BufferAsked, AskedFor, Sent, AsksNow
  <2>3. AnswersAreTaken'
    BY <1>1 DEF QueryInv, AnswersAreTaken, TookLeftover
  <2> QED
    BY <2>1, <2>2, <2>3
<1>5. FoundAsked'
  BY <1>1, <1>3 DEF QueryInv, FoundAsked, AskedFor, Sent, AsksNow
<1>6. ASSUME NEW p \in Plugins, AllCurrent(p), OneUnderWay(p)
      PROVE  AllCurrent(p)' /\ OneUnderWay(p)'
  <2>1. /\ InAdapters(p)' <=> InAdapters(p)
        /\ InBuffer(p)' <=> InBuffer(p)
        /\ InListeners(p)' => InListeners(p)
    BY <1>1, <1>2 DEF InAdapters, InBuffer, InListeners
  <2>2. AllCurrent(p)'
    <3>1. Current(e, p)
      BY <1>6 DEF AllCurrent
    <3>2. \A h \in handlers' : Current(h.event, p)
      BY <1>1, <1>3, <1>6, <3>1 DEF AllCurrent
    <3>3. \A y \in Objects : \A f \in listener'[y].signalled : Current(f, p)
      BY <1>2, <1>6 DEF AllCurrent
    <3> QED
      BY <1>1, <1>6, <3>2, <3>3 DEF AllCurrent, Current, AsksNow, NextQuery
  <2>3. CASE ~Own(e, p)
    <3>1. \A h \in handlers' : Own(h.event, p) => h \in handlers
      BY <1>1, <1>3, <2>3
    <3>2. InHandlers(p)' => InHandlers(p)
      BY <3>1 DEF InHandlers
    <3> QED
      BY <1>1, <1>2, <1>6, <2>1, <2>2, <3>1, <3>2 DEF OneUnderWay
  <2>4. CASE Own(e, p)
    <3>1. InListeners(p) /\ ~InAdapters(p) /\ ~InHandlers(p) /\ ~InBuffer(p)
      BY <1>6, <2>4 DEF InListeners, OneUnderWay
    <3>2. ~InListeners(p)'
      BY <1>2, <1>6, <2>4 DEF InListeners, OneUnderWay
    <3>3. \A h \in handlers' : Own(h.event, p) => h = new
      BY <1>1, <3>1 DEF InHandlers
    <3> QED
      BY <1>1, <1>2, <1>6, <2>1, <2>2, <3>1, <3>2, <3>3 DEF OneUnderWay, InListeners
  <2> QED
    BY <2>3, <2>4
<1>7. Tracked'
  BY <1>1, <1>6 DEF Tracked, QueryInv, TookLeftover
<1> QED
  BY <1>4, <1>5, <1>7 DEF QueryInv

LEMMA CommandCompleteHandler_Find_Asks ==
  ASSUME DevicesTypeOK, QueryInv, NEW h \in handlers, CommandCompleteHandler_Find(h)
  PROVE  QueryInv'
<1> DEFINE new == [h EXCEPT !.pc = "found"]
           found == query.of = h.of /\ query.op = h.event.op
<1>1. UNCHANGED <<call, query, answers, adapter, listener>>
  BY DEF CommandCompleteHandler_Find
<1>2. handlers' = (handlers \ {h}) \cup (IF found THEN {new} ELSE {})
  BY DEF CommandCompleteHandler_Find
<1>3. /\ h.of \in Plugins /\ h.event \in Events
      /\ new.of = h.of /\ new.event = h.event
  BY DEF DevicesTypeOK, ThreadsType
<1> HIDE DEF new
<1>4. QueryOf' /\ BufferAsked' /\ AnswersAreTaken'
  <2>1. QueryOf'
    BY <1>1 DEF QueryInv, QueryOf, AsksNow, NextQuery
  <2>2. BufferAsked'
    BY <1>1 DEF QueryInv, BufferAsked, AskedFor, Sent, AsksNow
  <2>3. AnswersAreTaken'
    BY <1>1 DEF QueryInv, AnswersAreTaken, TookLeftover
  <2> QED
    BY <2>1, <2>2, <2>3
<1>5. FoundAsked'
  <2>1. found => AskedFor(h.of, h.event.op)
    <3> SUFFICES ASSUME found PROVE AskedFor(h.of, h.event.op)
      OBVIOUS
    <3>1. h.event.op \in Nat /\ h.event.op # None
      BY <1>3, CommandsAssumption, RuntimeAssumption DEF Events, Opcodes
    <3>2. AsksNow(h.of) /\ h.event.op = NextQuery(h.of)
      BY <1>3, <3>1 DEF QueryInv, QueryOf
    <3>3. Len(answers[h.of]) \in Nat
      BY <1>3, LenProperties DEF DevicesTypeOK, AnswersType
    <3> QED
      BY <3>2, <3>3 DEF AskedFor, Sent, NextQuery
  <2>2. \A g \in handlers : g.pc = "found" => AskedFor(g.of, g.event.op)
    BY DEF QueryInv, FoundAsked
  <2>3. \A g \in handlers' : g.pc = "found" => AskedFor(g.of, g.event.op)
    BY <1>2, <1>3, <2>1, <2>2
  <2> QED
    BY <1>1, <2>3 DEF FoundAsked, AskedFor, Sent, AsksNow
<1> HIDE DEF found
<1>6. ASSUME NEW p \in Plugins, AllCurrent(p), OneUnderWay(p)
      PROVE  AllCurrent(p)' /\ OneUnderWay(p)'
  <2>1. /\ InAdapters(p)' <=> InAdapters(p)
        /\ InBuffer(p)' <=> InBuffer(p)
        /\ InListeners(p)' <=> InListeners(p)
    BY <1>1 DEF InAdapters, InBuffer, InListeners
  <2>2. InHandlers(p)' => InHandlers(p)
    BY <1>2, <1>3 DEF InHandlers
  <2>3. AllCurrent(p)'
    <3>1. \A g \in handlers' : Current(g.event, p)
      BY <1>2, <1>3, <1>6 DEF AllCurrent
    <3> QED
      BY <1>1, <1>6, <3>1 DEF AllCurrent, Current, AsksNow, NextQuery
  <2>4. \A g, k \in handlers' : Own(g.event, p) /\ Own(k.event, p) => g = k
    BY <1>2, <1>3, <1>6 DEF OneUnderWay
  <2>5. OneUnderWay(p)'
    BY <1>1, <1>6, <2>1, <2>2, <2>4 DEF OneUnderWay
  <2> QED
    BY <2>3, <2>5
<1>7. Tracked'
  BY <1>1, <1>6 DEF Tracked, QueryInv, TookLeftover
<1> QED
  BY <1>4, <1>5, <1>7 DEF QueryInv

\* A handler's event is now in the slot, or gone with the slot.
LEMMA CommandCompleteHandler_Complete_Asks ==
  ASSUME DevicesTypeOK, QueryInv, NEW h \in handlers, CommandCompleteHandler_Complete(h)
  PROVE  QueryInv'
<1> DEFINE fills == query.of = h.of /\ query.op # None
<1>1. UNCHANGED <<call, answers, adapter, listener>> /\ handlers' = handlers \ {h} /\ h.pc = "found"
  BY DEF CommandCompleteHandler_Complete
<1>2. /\ query'.of = query.of /\ query'.op = query.op
      /\ query'.buffer = IF fills THEN h.event ELSE query.buffer
      /\ query'.signal = IF fills THEN TRUE ELSE query.signal
  BY DEF CommandCompleteHandler_Complete, DevicesTypeOK, QueryType
<1>3. h.of \in Plugins /\ h.event \in Events /\ h.event # None /\ None \notin Plugins
  BY Constants, NoEvent DEF DevicesTypeOK, ThreadsType
<1>4. QueryOf' /\ AnswersAreTaken'
  <2>1. QueryOf'
    BY <1>1, <1>2, <1>3 DEF QueryInv, QueryOf, AsksNow, NextQuery
  <2>2. AnswersAreTaken'
    BY <1>1 DEF QueryInv, AnswersAreTaken, TookLeftover
  <2> QED
    BY <2>1, <2>2
<1>5. FoundAsked' /\ BufferAsked'
  <2>1. FoundAsked'
    BY <1>1 DEF QueryInv, FoundAsked, AskedFor, Sent, AsksNow
  <2>2. query'.buffer # None => AskedFor(query'.of, query'.buffer.op)
    BY <1>1, <1>2 DEF QueryInv, FoundAsked, BufferAsked
  <2> QED
    BY <1>1, <2>1, <2>2 DEF BufferAsked, AskedFor, Sent, AsksNow
<1> HIDE DEF fills
<1>6. ASSUME NEW p \in Plugins, AllCurrent(p), OneUnderWay(p)
      PROVE  AllCurrent(p)' /\ OneUnderWay(p)'
  <2>1. /\ InAdapters(p)' <=> InAdapters(p)
        /\ InListeners(p)' <=> InListeners(p)
        /\ InHandlers(p)' => InHandlers(p)
    BY <1>1 DEF InAdapters, InListeners, InHandlers
  <2>2. AllCurrent(p)'
    <3>1. query'.buffer # None => Current(query'.buffer, p)
      BY <1>2, <1>6 DEF AllCurrent
    <3> QED
      BY <1>1, <1>6, <3>1 DEF AllCurrent, Current, AsksNow, NextQuery
  <2>3. CASE Own(h.event, p)
    <3>1. InHandlers(p) /\ ~InAdapters(p) /\ ~InListeners(p)
      BY <1>6, <2>3 DEF InHandlers, OneUnderWay
    <3>2. ~InHandlers(p)'
      BY <1>1, <1>6, <2>3 DEF InHandlers, OneUnderWay
    <3> QED
      BY <1>1, <1>6, <2>1, <2>2, <3>1, <3>2 DEF OneUnderWay, InAdapters, InListeners
  <2>4. CASE ~Own(h.event, p)
    <3>1. InBuffer(p)' => InBuffer(p)
      BY <1>2, <2>4 DEF InBuffer
    <3> QED
      BY <1>1, <1>6, <2>1, <2>2, <3>1 DEF OneUnderWay
  <2> QED
    BY <2>3, <2>4
<1>7. Tracked'
  BY <1>1, <1>6 DEF Tracked, QueryInv, TookLeftover
<1> QED
  BY <1>4, <1>5, <1>7 DEF QueryInv

\* A handler's event is gone, and the slot is not touched.
LEMMA CommandCompleteHandler_TooLong_Asks ==
  ASSUME DevicesTypeOK, QueryInv, NEW h \in handlers, CommandCompleteHandler_TooLong(h)
  PROVE  QueryInv'
<1>1. UNCHANGED <<call, answers, adapter, listener>> /\ handlers' = handlers \ {h}
  BY DEF CommandCompleteHandler_TooLong
<1>2. /\ query'.of = query.of /\ query'.op = query.op
      /\ query'.buffer = query.buffer /\ query'.signal = query.signal
  BY DEF CommandCompleteHandler_TooLong, DevicesTypeOK, QueryType
<1>3. QueryOf'
  BY <1>1, <1>2 DEF QueryInv, QueryOf, AsksNow, NextQuery
<1>4. OnlyLost
  BY <1>1, <1>2 DEF OnlyLost, AsksNow
<1> QED
  BY <1>3, <1>4, CalmStep

\* More answers of p, and no other's.
LEMMA AnswersGrow ==
  ASSUME AnswersType, NEW p \in Plugins, NEW v \in Events \cup {None},
         answers' = [answers EXCEPT ![p] = Append(@, v)]
  PROVE  /\ \A q \in Plugins : q # p => answers'[q] = answers[q]
         /\ Len(answers[p]) \in Nat /\ DOMAIN answers[p] = 1 .. Len(answers[p])
         /\ Len(answers'[p]) = Len(answers[p]) + 1 /\ DOMAIN answers'[p] = 1 .. Len(answers[p]) + 1
         /\ answers'[p][Len(answers[p]) + 1] = v
         /\ \A k \in 1 .. Len(answers[p]) : answers'[p][k] = answers[p][k]
<1>1. answers[p] \in Seq(Events \cup {None}) /\ answers'[p] = Append(answers[p], v)
  BY DEF AnswersType
<1>2. \A q \in Plugins : q # p => answers'[q] = answers[q]
  BY DEF AnswersType
<1> QED
  BY <1>1, <1>2, AppendProperties, LenProperties

LEMMA LeftoversStay ==
  ASSUME AnswersType, NEW p \in Plugins, NEW v \in Events \cup {None},
         answers' = [answers EXCEPT ![p] = Append(@, v)]
  PROVE  \A q \in Plugins :
           /\ \A k \in 1 .. Len(answers[q]) : TookLeftover(q, k) => TookLeftover(q, k)'
           /\ TookLeftover(q, Len(answers[q])) => TookLeftover(q, Len(answers[q]))'
<1>1. \A q \in Plugins : /\ Len(answers[q]) \in Nat /\ Len(answers'[q]) \in Nat
                         /\ Len(answers'[q]) >= Len(answers[q])
                         /\ \A k \in 1 .. Len(answers[q]) : answers'[q][k] = answers[q][k]
  <2>1. \A q \in Plugins : Len(answers[q]) \in Nat
    BY LenProperties DEF AnswersType
  <2> QED
    BY <2>1, AnswersGrow
<1>2. ASSUME NEW q \in Plugins, NEW k \in 1 .. Len(answers[q]), TookLeftover(q, k)
      PROVE  TookLeftover(q, k)'
  BY <1>1, <1>2 DEF TookLeftover
<1>3. ASSUME NEW q \in Plugins, TookLeftover(q, Len(answers[q]))
      PROVE  TookLeftover(q, Len(answers[q]))'
  <2> PICK j \in 1 .. Len(answers[q]), i \in 1 .. Len(answers[q]) :
        /\ answers[q][j] # None /\ answers[q][j].op = Queries[i]
        /\ answers[q][j].of # q \/ answers[q][j].sender = "stack"
    BY <1>3 DEF TookLeftover
  <2>1. j \in 1 .. Len(answers'[q]) /\ i \in 1 .. Len(answers'[q]) /\ answers'[q][j] = answers[q][j]
    BY <1>1
  <2> QED
    BY <2>1 DEF TookLeftover
<1> QED
  BY <1>2, <1>3

\* An answer that is taken is the one asked for, or a leftover.
LEMMA TakenKept ==
  ASSUME AnswersType, AnswersAreTaken, NEW p \in Plugins, NEW v \in Events \cup {None},
         answers' = [answers EXCEPT ![p] = Append(@, v)],
         v \in {None, Answer(NextQuery(p), p, "query")} \/ TookLeftover(p, Len(answers[p]))'
  PROVE  AnswersAreTaken'
<1> SUFFICES ASSUME NEW q \in Plugins, NEW k \in DOMAIN answers'[q]
             PROVE  \/ answers'[q][k] \in {None, Answer(Queries[k], q, "query")}
                    \/ TookLeftover(q, k)'
  BY DEF AnswersAreTaken
<1>1. CASE k \in DOMAIN answers[q]
  <2>1. k \in 1 .. Len(answers[q])
    BY <1>1, LenProperties DEF AnswersType
  <2>2. answers'[q][k] = answers[q][k]
    BY <2>1, AnswersGrow
  <2>3. answers[q][k] \in {None, Answer(Queries[k], q, "query")} \/ TookLeftover(q, k)
    BY <1>1 DEF AnswersAreTaken
  <2> QED
    BY <2>1, <2>2, <2>3, LeftoversStay
<1>2. CASE k \notin DOMAIN answers[q]
  <2>1. q = p /\ k = Len(answers[p]) + 1 /\ answers'[p][k] = v /\ k = Len(answers'[p])
    BY <1>2, AnswersGrow
  <2>2. NextQuery(p) = Queries[k]
    BY <2>1 DEF NextQuery
  <2> QED
    BY <2>1, <2>2 DEF TookLeftover
<1> QED
  BY <1>1, <1>2

\* Of a plug-in that does not ask, nothing is under way.
LEMMA NoneUnderWay ==
  ASSUME NEW p \in Plugins, AllCurrent(p), ~AsksNow(p)
  PROVE  ~InAdapters(p) /\ ~InListeners(p) /\ ~InHandlers(p) /\ ~InBuffer(p)
  BY DEF AllCurrent, Current, InAdapters, InListeners, InHandlers, InBuffer

LEMMA NothingToTrack ==
  ASSUME NEW p \in Plugins,
         ~InAdapters(p) /\ ~InListeners(p) /\ ~InHandlers(p) /\ ~InBuffer(p)
  PROVE  AllCurrent(p) /\ OneUnderWay(p)
  BY DEF AllCurrent, OneUnderWay, Current, InAdapters, InListeners, InHandlers, InBuffer

LEMMA FoundKept ==
  ASSUME DevicesTypeOK, FoundAsked, UNCHANGED handlers,
         \A q \in Plugins : Sent(q) \in Nat /\ Sent(q)' \in Nat /\ Sent(q)' >= Sent(q)
  PROVE  FoundAsked'
<1>1. \A q \in Plugins : \A op : AskedFor(q, op) => AskedFor(q, op)'
  BY DEF AskedFor
<1> QED
  BY <1>1 DEF FoundAsked, DevicesTypeOK, ThreadsType

LEMMA AnswersCounted ==
  ASSUME AnswersType
  PROVE  \A q \in Plugins : Len(answers[q]) \in Nat /\ Sent(q) \in Nat
<1>1. \A q \in Plugins : Len(answers[q]) \in Nat
  BY LenProperties DEF AnswersType
<1> QED
  BY <1>1 DEF Sent

\* Before a command is sent, no answer to GetDeviceInfo is under way.
LEMMA BeforeSendRead ==
  ASSUME DevicesTypeOK, QueryInv, NEW p \in Plugins, SendRead(p)
  PROVE  /\ query.of = p /\ query.op = None /\ query.buffer = None /\ query.signal = FALSE
         /\ \A q \in Plugins : ~AsksNow(q)
         /\ \A q \in Plugins : AllCurrent(q) =>
              ~InAdapters(q) /\ ~InListeners(q) /\ ~InHandlers(q) /\ ~InBuffer(q)
<1>1. call[Session(p)].pc = "ask" /\ query.signal \in BOOLEAN
  BY DEF SendRead, DevicesTypeOK, QueryType
<1>2. query.of = p
  BY <1>1 DEF QueryInv, QueryOf
<1>3. \A q \in Plugins : ~AsksNow(q)
  BY <1>1, <1>2 DEF QueryInv, QueryOf, AsksNow
<1>4. query.op = None /\ query.buffer = None /\ query.signal = FALSE
  BY <1>1, <1>2, <1>3 DEF QueryInv, QueryOf
<1> QED
  BY <1>2, <1>3, <1>4, NoneUnderWay

LEMMA SendRead_Sent_Asks ==
  ASSUME DevicesTypeOK, QueryInv, NEW p \in Plugins, SendRead(p), Plugged(p)
  PROVE  QueryInv'
<1> DEFINE a == handle[p]
           op == NextQuery(p)
           e == Answer(op, p, "query")
           old == adapter[a].events
<1>1. /\ call[Session(p)].pc = "ask" /\ Len(answers[p]) < Len(Queries)
      /\ query' = [query EXCEPT !.op = op, !.signal = FALSE]
      /\ adapter' = [adapter EXCEPT ![a].events = Append(@, e)]
      /\ GoTo(Session(p), "answer") /\ UNCHANGED <<answers, listener, handlers>>
  BY DEF SendRead, QueueCommand, SendCommand
<1>2. a \in Adapters /\ old \in Seq(Events)
  BY PluggedAdapter DEF DevicesTypeOK, AdapterType
<1>3. op \in Opcodes /\ e \in Events
  BY <1>1, NextIsOpcode DEF DevicesTypeOK, Events, Answer
<1>4. /\ query'.of = p /\ query'.op = op /\ query'.buffer = None /\ query'.signal = FALSE
  BY <1>1, BeforeSendRead DEF DevicesTypeOK, QueryType
<1>5. \A q \in Plugins : call'[Session(q)].pc = IF q = p THEN "answer" ELSE call[Session(q)].pc
  BY <1>1, Moves, SessionThread, Distinct DEF DevicesTypeOK
<1>6. \A q \in Plugins : NextQuery(q)' = NextQuery(q) /\ (AsksNow(q)' <=> q = p) /\ ~AsksNow(q)
  BY <1>1, <1>5, BeforeSendRead DEF NextQuery, AsksNow
<1>7. QueryOf'
  <2>1. query.of = p
    BY BeforeSendRead
  <2>2. \A q \in Plugins : query'.of = q <=> call'[Session(q)].pc \in {"ask", "answer", "stop"}
    BY <1>1, <1>4, <1>5, <2>1 DEF QueryInv, QueryOf
  <2> QED
    BY <1>1, <1>4, <1>5, <1>6, <2>2, Constants DEF QueryOf, AsksNow
<1>8. FoundAsked' /\ BufferAsked'
  <2>1. \A q \in Plugins : Sent(q) \in Nat /\ Sent(q)' \in Nat /\ Sent(q)' >= Sent(q)
    BY <1>1, <1>6, AnswersCounted DEF Sent, DevicesTypeOK
  <2> QED
    BY <1>1, <1>4, <2>1, FoundKept DEF BufferAsked, QueryInv
<1>9. AnswersAreTaken'
  BY <1>1 DEF QueryInv, AnswersAreTaken, TookLeftover
<1>10. /\ adapter'[a].events = Append(old, e)
       /\ \A b \in Adapters : b # a => adapter'[b].events = adapter[b].events
  BY <1>1, <1>2 DEF DevicesTypeOK, AdapterType
<1>11. \A b \in Adapters : \A k \in DOMAIN adapter'[b].events :
         \/ k \in DOMAIN adapter[b].events /\ adapter'[b].events[k] = adapter[b].events[k]
         \/ b = a /\ k = Len(old) + 1 /\ adapter'[b].events[k] = e
  <2>1. \A k \in DOMAIN Append(old, e) : \/ k \in DOMAIN old /\ Append(old, e)[k] = old[k]
                                         \/ k = Len(old) + 1 /\ Append(old, e)[k] = e
    BY <1>2, <1>3, AppendProperties
  <2> QED
    BY <1>10, <2>1
<1>12. ASSUME NEW q \in Plugins, AllCurrent(q)
       PROVE  AllCurrent(q)' /\ OneUnderWay(q)'
  <2>1. ~InAdapters(q) /\ ~InListeners(q) /\ ~InHandlers(q) /\ ~InBuffer(q)
    BY <1>12, BeforeSendRead
  <2>2. ~InListeners(q)' /\ ~InHandlers(q)' /\ ~InBuffer(q)'
    BY <1>1, <1>4, <2>1 DEF InListeners, InHandlers, InBuffer
  <2>3. \A b \in Adapters : \A k \in DOMAIN adapter'[b].events :
          Own(adapter'[b].events[k], q)
            => b = a /\ k = Len(old) + 1 /\ adapter'[b].events[k] = e
    BY <1>11, <2>1 DEF InAdapters
  <2>4. Own(e, q) => q = p /\ e.op = NextQuery(q)
    BY DEF Own, Answer
  <2>5. \A b \in Adapters : \A k \in DOMAIN adapter'[b].events :
          Own(adapter'[b].events[k], q) => q = p /\ adapter'[b].events[k].op = NextQuery(q)
    BY <2>3, <2>4
  <2>6. AllCurrent(q)'
    BY <1>6, <2>2, <2>5 DEF AllCurrent, Current, InListeners, InHandlers, InBuffer, Own
  <2>7. OneUnderWay(q)'
    BY <2>2, <2>3 DEF OneUnderWay, InListeners, InHandlers, Own
  <2> QED
    BY <2>6, <2>7
<1>13. Tracked'
  BY <1>1, <1>12 DEF Tracked, QueryInv, TookLeftover
<1> QED
  BY <1>7, <1>8, <1>9, <1>13 DEF QueryInv

LEMMA SendRead_Refused_Asks ==
  ASSUME DevicesTypeOK, QueryInv, NEW p \in Plugins, SendRead(p), ~Plugged(p)
  PROVE  QueryInv'
<1>1. /\ call[Session(p)].pc = "ask" /\ Len(answers[p]) < Len(Queries)
      /\ answers' = [answers EXCEPT ![p] = Append(@, None)]
      /\ UNCHANGED <<query, adapter, call, listener, handlers>>
  BY DEF SendRead
<1>2. AnswersType /\ None \in Events \cup {None}
  BY DEF DevicesTypeOK
<1>3. \A q \in Plugins : ~AsksNow(q) /\ ~AsksNow(q)'
  BY <1>1, BeforeSendRead DEF AsksNow
<1>4. QueryOf'
  BY <1>1, <1>3 DEF QueryInv, QueryOf
<1>5. FoundAsked' /\ BufferAsked'
  <2>1. /\ Len(answers'[p]) = Len(answers[p]) + 1
        /\ \A q \in Plugins : q # p => answers'[q] = answers[q]
    BY <1>1, <1>2, AnswersGrow
  <2>2. \A q \in Plugins : Sent(q) \in Nat /\ Sent(q)' \in Nat /\ Sent(q)' >= Sent(q)
    BY <1>2, <1>3, <2>1, AnswersCounted DEF Sent
  <2> QED
    BY <1>1, <2>2, FoundKept, BeforeSendRead DEF BufferAsked, QueryInv
<1>6. AnswersAreTaken'
  BY <1>1, <1>2, TakenKept DEF QueryInv
<1>7. ASSUME NEW q \in Plugins, AllCurrent(q)
      PROVE  AllCurrent(q)' /\ OneUnderWay(q)'
  <2>1. ~InAdapters(q) /\ ~InListeners(q) /\ ~InHandlers(q) /\ ~InBuffer(q)
    BY <1>7, BeforeSendRead
  <2>2. ~InAdapters(q)' /\ ~InListeners(q)' /\ ~InHandlers(q)' /\ ~InBuffer(q)'
    BY <1>1, <2>1 DEF InAdapters, InListeners, InHandlers, InBuffer
  <2> QED
    BY <2>2 DEF AllCurrent, OneUnderWay, Current, InAdapters, InListeners, InHandlers, InBuffer
<1>8. Tracked'
  BY <1>1, <1>2, <1>7, LeftoversStay DEF Tracked, QueryInv
<1> QED
  BY <1>4, <1>5, <1>6, <1>8 DEF QueryInv

LEMMA WaitForCommandComplete_Asks ==
  ASSUME DevicesTypeOK, OwnInv, QueryInv, NEW p \in Plugins, WaitForCommandComplete(p)
  PROVE  QueryInv'
<1> DEFINE v == query.buffer
           n == Len(answers[p])
<1>1. /\ call[Session(p)].pc = "answer" /\ query.signal
      /\ answers' = [answers EXCEPT ![p] = Append(@, v)]
      /\ query' = [NoQuery EXCEPT !.of = p]
      /\ GoTo(Session(p), "ask") /\ UNCHANGED <<adapter, listener, handlers>>
  BY DEF WaitForCommandComplete, DeQueueCommand
<1>2. AnswersType /\ v \in Events /\ v \in Events \cup {None} /\ n \in Nat /\ v # None
  BY <1>1, AnswersCounted DEF DevicesTypeOK, QueryType, QueryInv, QueryOf
<1>3. query.of = p /\ n < Len(Queries)
  BY <1>1 DEF QueryInv, QueryOf, AsksNow
<1>4. query'.of = p /\ query'.op = None /\ query'.buffer = None /\ query'.signal = FALSE
  BY <1>1 DEF NoQuery
<1>5. \A q \in Plugins : call'[Session(q)].pc = IF q = p THEN "ask" ELSE call[Session(q)].pc
  BY <1>1, Moves, SessionThread, Distinct DEF DevicesTypeOK
<1>6. \A q \in Plugins : (AsksNow(q) <=> q = p) /\ ~AsksNow(q)'
  BY <1>1, <1>3, <1>5 DEF AsksNow, QueryInv, QueryOf
<1>7. QueryOf'
  BY <1>1, <1>3, <1>4, <1>5, <1>6 DEF QueryInv, QueryOf
<1>8. /\ Len(answers'[p]) = n + 1 /\ answers'[p][n + 1] = v
      /\ \A q \in Plugins : q # p => answers'[q] = answers[q]
  BY <1>1, <1>2, AnswersGrow
<1>9. FoundAsked' /\ BufferAsked'
  <2>1. \A q \in Plugins : Sent(q) \in Nat /\ Sent(q)' = Sent(q)
    BY <1>2, <1>6, <1>8, AnswersCounted DEF Sent
  <2> QED
    BY <1>1, <1>4, <2>1, FoundKept DEF BufferAsked, QueryInv
<1>10. v = Answer(NextQuery(p), p, "query") \/ TookLeftover(p, Len(answers[p]))'
  <2>1. CASE Own(v, p) /\ AllCurrent(p)
    <3>1. v.op = NextQuery(p) /\ v.of = p /\ v.sender = "query"
      BY <1>2, <2>1 DEF AllCurrent, Current, Own
    <3> QED
      BY <1>2, <3>1 DEF Events, Answer
  <2>2. CASE ~Own(v, p)
    <3>1. v.of # p \/ v.sender = "stack"
      BY <1>2, <2>2 DEF Events, Own
    <3>2. PICK i \in 1 .. n + 1 : v.op = Queries[i]
      BY <1>2, <1>3, <1>6 DEF QueryInv, BufferAsked, AskedFor, Sent
    <3>3. n + 1 \in 1 .. Len(answers'[p]) /\ i \in 1 .. Len(answers'[p])
      BY <1>2, <1>8
    <3> QED
      BY <1>2, <1>8, <3>1, <3>2, <3>3 DEF TookLeftover
  <2>3. CASE TookLeftover(p, n)
    BY <1>1, <1>2, <2>3, LeftoversStay
  <2> QED
    BY <2>1, <2>2, <2>3 DEF QueryInv, Tracked
<1>11. AnswersAreTaken'
  BY <1>1, <1>2, <1>10, TakenKept DEF QueryInv
<1>12. ASSUME NEW q \in Plugins, AllCurrent(q), OneUnderWay(q), q # p \/ Own(v, p)
       PROVE  AllCurrent(q)' /\ OneUnderWay(q)'
  <2>1. ~InAdapters(q) /\ ~InListeners(q) /\ ~InHandlers(q)
    <3>1. CASE q # p
      BY <1>6, <1>12, <3>1, NoneUnderWay
    <3>2. CASE q = p
      BY <1>2, <1>12, <3>2 DEF OneUnderWay, InBuffer
    <3> QED
      BY <3>1, <3>2
  <2>2. ~InAdapters(q)' /\ ~InListeners(q)' /\ ~InHandlers(q)' /\ ~InBuffer(q)'
    BY <1>1, <1>4, <2>1 DEF InAdapters, InListeners, InHandlers, InBuffer
  <2> QED
    BY <2>2 DEF AllCurrent, OneUnderWay, Current, InAdapters, InListeners, InHandlers, InBuffer
<1>13. ASSUME NEW q \in Plugins
       PROVE  TookLeftover(q, Len(answers[q]))' \/ (AllCurrent(q)' /\ OneUnderWay(q)')
  <2>1. CASE TookLeftover(q, Len(answers[q]))
    BY <1>1, <1>2, <2>1, LeftoversStay
  <2>2. CASE AllCurrent(q) /\ OneUnderWay(q) /\ (q # p \/ Own(v, p))
    BY <1>12, <2>2
  <2>3. CASE q = p /\ ~Own(v, p)
    <3>1. v # Answer(NextQuery(p), p, "query")
      BY <2>3 DEF Own, Answer
    <3> QED
      BY <1>10, <2>3, <3>1
  <2> QED
    BY <2>1, <2>2, <2>3 DEF QueryInv, Tracked
<1>14. Tracked'
  BY <1>13 DEF Tracked
<1> QED
  BY <1>7, <1>9, <1>11, <1>14 DEF QueryInv

-----------------------------------------------------------------------------
(* The information of a slot.  OpenDevice looks for the first free slot    *)
(* twice, in GetDeviceInfo and when it stores the device; with the lock    *)
(* held in between, both find the same one.                                *)

InfoReady ==
  \A p \in Plugins : call[Session(p)].pc = "listen" /\ p \in known =>
    \A i \in Slots : FirstFree(i) => info[i] = p
InfoInv == InfoIsCurrent /\ InfoReady

LEMMA InfoKept ==
  ASSUME InfoInv, UNCHANGED <<slot, info, known>>,
         \A p \in Plugins : call'[Session(p)].pc = "listen" => call[Session(p)].pc = "listen"
  PROVE  InfoInv'
<1>1. InfoIsCurrent'
  BY DEF InfoInv, InfoIsCurrent
<1>2. \A i \in Slots : FirstFree(i)' <=> FirstFree(i)
  BY DEF FirstFree
<1>3. InfoReady'
  BY <1>2 DEF InfoInv, InfoReady
<1> QED
  BY <1>1, <1>3 DEF InfoInv

LEMMA OneFirstFree ==
  ASSUME NEW i \in Slots, NEW j \in Slots, FirstFree(i), FirstFree(j)
  PROVE  i = j
<1>1. i \in Nat /\ j \in Nat
  BY RuntimeAssumption
<1> QED
  BY <1>1 DEF FirstFree

LEMMA OpeningNoSlot ==
  ASSUME OwnInv, NEW p \in Plugins, call[Session(p)].pc \in OpeningSteps
  PROVE  \A i \in Slots : slot[i] # p
<1>1. plugin[p].devId = Invalid /\ call[Session(p)].pc # "opened"
  BY DEF OwnInv, Sessions, OpeningSteps
<1> QED
  BY <1>1, Constants DEF OwnInv, HandlesAreOwned, OpenResult

\* A first answer for a plug-in that has no slot yet.
LEMMA AnswerNoInfo ==
  ASSUME DevicesTypeOK, OwnInv, InfoInv, NEW p \in Plugins, call[Session(p)].pc \in {"ask", "answer"},
         known' \in {known, known \cup {p}},
         UNCHANGED <<slot, info>>,
         \A q \in Plugins : call'[Session(q)].pc = "listen" => call[Session(q)].pc = "listen" /\ q # p
  PROVE  InfoInv'
<1>1. \A i \in Slots : slot[i] # p /\ slot[i] \in Plugins \cup {None}
  BY OpeningNoSlot DEF OpeningSteps, DevicesTypeOK, SlotType
<1>2. InfoIsCurrent'
  BY <1>1 DEF InfoInv, InfoIsCurrent
<1>3. \A i \in Slots : FirstFree(i)' <=> FirstFree(i)
  BY DEF FirstFree
<1>4. InfoReady'
  BY <1>3 DEF InfoInv, InfoReady
<1> QED
  BY <1>2, <1>4 DEF InfoInv

LEMMA SendRead_Info ==
  ASSUME DevicesTypeOK, InfoInv, NEW p \in Plugins, SendRead(p)
  PROVE  InfoInv'
<1>1. call[Session(p)].pc = "ask" /\ UNCHANGED <<slot, info, known>>
  BY DEF SendRead
<1>2. \A q \in Plugins : call'[Session(q)].pc = "listen" => call[Session(q)].pc = "listen"
  BY <1>1, Moves, SessionThread, Distinct DEF SendRead, DevicesTypeOK
<1> QED
  BY <1>1, <1>2, InfoKept

LEMMA WaitForCommandComplete_Info ==
  ASSUME DevicesTypeOK, OwnInv, InfoInv, NEW p \in Plugins, WaitForCommandComplete(p)
  PROVE  InfoInv'
<1>1. call[Session(p)].pc = "answer" /\ UNCHANGED <<slot, info>>
  BY DEF WaitForCommandComplete
<1>2. \A q \in Plugins : call'[Session(q)].pc = "listen" => call[Session(q)].pc = "listen" /\ q # p
  BY <1>1, Moves, SessionThread, Distinct DEF WaitForCommandComplete, DevicesTypeOK
<1>3. known' \in {known, known \cup {p}}
  BY DEF WaitForCommandComplete, Note
<1> QED
  BY <1>1, <1>2, <1>3, AnswerNoInfo

LEMMA GetDeviceInfo_Return_Info ==
  ASSUME DevicesTypeOK, OwnInv, InfoInv, NEW p \in Plugins, GetDeviceInfo_Return(p)
  PROVE  InfoInv'
<1>1. PICK i \in Slots :
        FirstFree(i) /\ info' = IF p \in known THEN [info EXCEPT ![i] = p] ELSE info
  BY DEF GetDeviceInfo_Return
<1>2. call[Session(p)].pc = "stop" /\ UNCHANGED <<slot, known>>
  BY DEF GetDeviceInfo_Return
<1>3. \A q \in Plugins : call'[Session(q)].pc = "listen" => q = p
  BY <1>2, Moves, SessionThread, OneOpens DEF GetDeviceInfo_Return, DevicesTypeOK, OpeningSteps
<1>4. \A j \in Slots : info'[j] = IF j = i /\ p \in known THEN p ELSE info[j]
  BY <1>1 DEF DevicesTypeOK, SlotType
<1>5. slot[i] = None
  BY <1>1 DEF FirstFree
<1>6. InfoIsCurrent'
  <2>1. None \notin known
    BY Constants DEF DevicesTypeOK, AnswersType
  <2> QED
    BY <1>2, <1>4, <1>5, <2>1 DEF InfoInv, InfoIsCurrent
<1>7. \A j \in Slots : FirstFree(j)' => j = i
  BY <1>1, <1>2, OneFirstFree DEF FirstFree
<1>8. InfoReady'
  BY <1>2, <1>3, <1>4, <1>7 DEF InfoReady
<1> QED
  BY <1>6, <1>8 DEF InfoInv

LEMMA StartEventListener_Info ==
  ASSUME DevicesTypeOK, OwnInv, InfoInv, NEW p \in Plugins, StartEventListener(p)
  PROVE  InfoInv'
<1>1. PICK i \in Slots :
        /\ FirstFree(i)
        /\ slot' = [slot EXCEPT ![i] = p]
        /\ call' = [call EXCEPT ![Session(p)].pc = "opened", ![Session(p)].id = i]
  BY DEF StartEventListener
<1>2. call[Session(p)].pc = "listen" /\ UNCHANGED <<info, known>>
  BY DEF StartEventListener
<1>3. \A q \in Plugins : call'[Session(q)].pc # "listen"
  <2>1. \A q \in Plugins : call[Session(q)].pc = "listen" => q = p
    BY <1>2, OneOpens DEF OpeningSteps
  <2>2. \A q \in Plugins : call'[Session(q)].pc = IF q = p THEN "opened" ELSE call[Session(q)].pc
    BY <1>1, SessionThread, Distinct DEF DevicesTypeOK, CallType
  <2> QED
    BY <2>1, <2>2
<1>4. p \in known => info[i] = p
  BY <1>1, <1>2 DEF InfoInv, InfoReady
<1>5. \A j \in Slots : slot'[j] = IF j = i THEN p ELSE slot[j]
  BY <1>1 DEF DevicesTypeOK, SlotType
<1>6. InfoIsCurrent'
  BY <1>2, <1>4, <1>5 DEF InfoInv, InfoIsCurrent
<1>7. InfoReady'
  BY <1>3 DEF InfoReady
<1> QED
  BY <1>6, <1>7 DEF InfoInv

LEMMA Export_CloseDevice_Return_Info ==
  ASSUME DevicesTypeOK, OwnInv, InfoInv, NEW t \in Threads, Export_CloseDevice_Return(t)
  PROVE  InfoInv'
<1>1. /\ call[t].pc = "join" /\ slot' = [slot EXCEPT ![call[t].id] = None]
      /\ GoTo(t, "closed") /\ UNCHANGED <<info, known>>
  BY DEF Export_CloseDevice_Return
<1>2. \A q \in Plugins : call[Session(q)].pc # "listen"
  BY <1>1, Closers, SessionThread DEF OwnInv, LockHeld, OpeningSteps, DevicesTypeOK
<1>3. \A q \in Plugins : call'[Session(q)].pc # "listen"
  BY <1>1, <1>2, Moves, SessionThread DEF DevicesTypeOK
<1>4. \A j \in Slots : slot'[j] \in known => slot'[j] = slot[j]
  <2>1. None \notin known
    BY Constants DEF DevicesTypeOK, AnswersType
  <2> QED
    BY <1>1, <2>1 DEF DevicesTypeOK, SlotType
<1>5. InfoIsCurrent'
  BY <1>1, <1>4 DEF InfoInv, InfoIsCurrent
<1>6. InfoReady'
  BY <1>3 DEF InfoReady
<1> QED
  BY <1>5, <1>6 DEF InfoInv

(* The other actions leave the slots, the answers and the information.     *)
LEMMA OpenDevice_Info ==
  ASSUME DevicesTypeOK, InfoInv, NEW p \in Plugins,
         OpenDevice(p)
  PROVE  InfoInv'
  BY InfoKept, SessionThread, Distinct
     DEF OpenDevice, DevicesTypeOK, CallType, GoTo

LEMMA OpenDevice_Return_Info ==
  ASSUME DevicesTypeOK, InfoInv, NEW p \in Plugins,
         OpenDevice_Return(p)
  PROVE  InfoInv'
  BY InfoKept, SessionThread, Distinct
     DEF OpenDevice_Return, DevicesTypeOK, CallType, Idle

LEMMA OnDeviceDataReceived_Info ==
  ASSUME DevicesTypeOK, InfoInv, NEW p \in Plugins, NEW op \in Opcodes,
         OnDeviceDataReceived(p, op)
  PROVE  InfoInv'
  BY InfoKept, SessionThread, Distinct
     DEF OnDeviceDataReceived, DevicesTypeOK, CallType

LEMMA CloseDevice_Info ==
  ASSUME DevicesTypeOK, InfoInv, NEW t \in Threads,
         CloseDevice(t)
  PROVE  InfoInv'
  BY InfoKept, SessionThread, Closers
     DEF CloseDevice, DevicesTypeOK, CallType

LEMMA CloseDevice_Return_Info ==
  ASSUME DevicesTypeOK, InfoInv, NEW t \in Threads,
         CloseDevice_Return(t)
  PROVE  InfoInv'
  BY InfoKept, SessionThread, Closers
     DEF CloseDevice_Return, DevicesTypeOK, CallType, Idle

LEMMA Disconnect_Info ==
  ASSUME DevicesTypeOK, InfoInv, NEW p \in Plugins,
         Disconnect(p)
  PROVE  InfoInv'
  BY InfoKept DEF Disconnect

LEMMA ReadCompletes_Info ==
  ASSUME DevicesTypeOK, InfoInv, NEW x \in Objects,
         ReadCompletes(x)
  PROVE  InfoInv'
  BY InfoKept DEF ReadCompletes

LEMMA Listener_Event_Info ==
  ASSUME DevicesTypeOK, InfoInv, NEW x \in Objects, NEW e \in listener[x].signalled,
         Listener_Event(x, e)
  PROVE  InfoInv'
  BY InfoKept DEF Listener_Event

LEMMA Listener_Stop_Info ==
  ASSUME DevicesTypeOK, InfoInv, NEW x \in Objects,
         Listener_Stop(x)
  PROVE  InfoInv'
  BY InfoKept DEF Listener_Stop

LEMMA Listener_Failed_Info ==
  ASSUME DevicesTypeOK, InfoInv, NEW x \in Objects,
         Listener_Failed(x)
  PROVE  InfoInv'
  BY InfoKept DEF Listener_Failed

LEMMA Listener_NoHandle_Info ==
  ASSUME DevicesTypeOK, InfoInv, NEW x \in Objects,
         Listener_NoHandle(x)
  PROVE  InfoInv'
  BY InfoKept DEF Listener_NoHandle

LEMMA CommandCompleteHandler_Find_Info ==
  ASSUME DevicesTypeOK, InfoInv, NEW h \in handlers,
         CommandCompleteHandler_Find(h)
  PROVE  InfoInv'
  BY InfoKept DEF CommandCompleteHandler_Find

LEMMA CommandCompleteHandler_Complete_Info ==
  ASSUME DevicesTypeOK, InfoInv, NEW h \in handlers,
         CommandCompleteHandler_Complete(h)
  PROVE  InfoInv'
  BY InfoKept DEF CommandCompleteHandler_Complete

LEMMA CommandCompleteHandler_TooLong_Info ==
  ASSUME DevicesTypeOK, InfoInv, NEW h \in handlers,
         CommandCompleteHandler_TooLong(h)
  PROVE  InfoInv'
  BY InfoKept DEF CommandCompleteHandler_TooLong

LEMMA Export_OpenDevice_Info ==
  ASSUME DevicesTypeOK, InfoInv, NEW p \in Plugins,
         Export_OpenDevice(p)
  PROVE  InfoInv'
  BY InfoKept, SessionThread, Distinct
     DEF Export_OpenDevice, DevicesTypeOK, CallType, GoTo

LEMMA GetDeviceInfo_Info ==
  ASSUME DevicesTypeOK, InfoInv, NEW p \in Plugins,
         GetDeviceInfo(p)
  PROVE  InfoInv'
  BY InfoKept, SessionThread, Distinct
     DEF GetDeviceInfo, DevicesTypeOK, CallType, GoTo

LEMMA GetDeviceInfo_NoListener_Info ==
  ASSUME DevicesTypeOK, InfoInv, NEW p \in Plugins,
         GetDeviceInfo_NoListener(p)
  PROVE  InfoInv'
  BY InfoKept, SessionThread, Distinct
     DEF GetDeviceInfo_NoListener, DevicesTypeOK, CallType, GoTo

LEMMA GetDeviceInfo_Stop_Info ==
  ASSUME DevicesTypeOK, InfoInv, NEW p \in Plugins,
         GetDeviceInfo_Stop(p)
  PROVE  InfoInv'
  BY InfoKept, SessionThread, Distinct
     DEF GetDeviceInfo_Stop, DevicesTypeOK, CallType, GoTo

LEMMA StartEventListener_Failed_Info ==
  ASSUME DevicesTypeOK, InfoInv, NEW p \in Plugins,
         StartEventListener_Failed(p)
  PROVE  InfoInv'
  BY InfoKept, SessionThread, Distinct
     DEF StartEventListener_Failed, DevicesTypeOK, CallType, GoTo

LEMMA StartEventListener_ReaderFailed_Info ==
  ASSUME DevicesTypeOK, InfoInv, NEW p \in Plugins,
         StartEventListener_ReaderFailed(p)
  PROVE  InfoInv'
  BY InfoKept, SessionThread, Distinct
     DEF StartEventListener_ReaderFailed, DevicesTypeOK, CallType, GoTo

LEMMA DeleteDevice_Info ==
  ASSUME DevicesTypeOK, InfoInv, NEW p \in Plugins,
         DeleteDevice(p)
  PROVE  InfoInv'
  BY InfoKept, SessionThread, Distinct
     DEF DeleteDevice, DevicesTypeOK, CallType, GoTo

LEMMA Export_CloseDevice_Info ==
  ASSUME DevicesTypeOK, InfoInv, NEW t \in Threads,
         Export_CloseDevice(t)
  PROVE  InfoInv'
  BY InfoKept, SessionThread, Closers
     DEF Export_CloseDevice, DevicesTypeOK, CallType, GoTo

LEMMA Export_SendHCICommand_Info ==
  ASSUME DevicesTypeOK, InfoInv, NEW p \in Plugins,
         Export_SendHCICommand(p)
  PROVE  InfoInv'
  BY InfoKept, SessionThread, Distinct
     DEF Export_SendHCICommand, DevicesTypeOK, CallType, Idle

LEMMA Unplug_Info ==
  ASSUME DevicesTypeOK, InfoInv, NEW a \in Adapters,
         Unplug(a)
  PROVE  InfoInv'
  BY InfoKept DEF Unplug

-----------------------------------------------------------------------------
(* The invariant of GetDeviceInfo, and what follows from it.               *)

AskInv == QueryInv /\ InfoInv

LEMMA InitAsks == Init => AskInv
<1> SUFFICES ASSUME Init PROVE AskInv
  OBVIOUS
<1>1. \A p \in Plugins : call[Session(p)].pc = "idle" /\ answers[p] = <<>>
  BY SessionThread DEF Init, Idle
<1>2. query.of = None /\ query.op = None /\ query.buffer = None /\ query.signal = FALSE
  BY DEF Init, NoQuery
<1>3. QueryOf
  BY <1>1, <1>2, Constants DEF QueryOf, AsksNow
<1>4. FoundAsked /\ BufferAsked /\ AnswersAreTaken
  BY <1>1, <1>2 DEF Init, FoundAsked, BufferAsked, AnswersAreTaken
<1>5. \A p \in Plugins : ~InAdapters(p) /\ ~InListeners(p) /\ ~InHandlers(p) /\ ~InBuffer(p)
  BY <1>2 DEF Init, InAdapters, InListeners, InHandlers, InBuffer, NoListener
<1>6. Tracked
  BY <1>5, NothingToTrack DEF Tracked
<1>7. InfoInv
  BY <1>1 DEF Init, InfoInv, InfoIsCurrent, InfoReady
<1> QED
  BY <1>3, <1>4, <1>6, <1>7 DEF AskInv, QueryInv

LEMMA AsksUnchanged ==
  ASSUME DevicesTypeOK, AskInv, UNCHANGED vars
  PROVE  AskInv'
<1>1. QueryInv'
  BY Bystander DEF vars, AskInv, AsksNow
<1>2. InfoInv'
  BY InfoKept DEF vars, AskInv
<1> QED
  BY <1>1, <1>2 DEF AskInv

LEMMA AsksStep ==
  ASSUME DevicesTypeOK, OwnInv, AskInv, [Next]_vars
  PROVE  AskInv'
<1> USE DEF AskInv
<1>1. CASE UNCHANGED vars
  BY <1>1, AsksUnchanged
<1>2. ASSUME NEW p \in Plugins, OpenSteps(p)
      PROVE  AskInv'
  <2>1. CASE OpenDevice_Return(p)
    BY <2>1, OpenDevice_Return_Asks, OpenDevice_Return_Info
  <2>2. CASE Export_OpenDevice(p)
    BY <2>2, Export_OpenDevice_Asks, Export_OpenDevice_Info
  <2>3. CASE GetDeviceInfo(p)
    BY <2>3, GetDeviceInfo_Asks, GetDeviceInfo_Info
  <2>12. CASE GetDeviceInfo_NoListener(p)
    BY <2>12, GetDeviceInfo_NoListener_Asks, GetDeviceInfo_NoListener_Info
  <2>4. CASE SendRead(p)
    BY <2>4, SendRead_Sent_Asks, SendRead_Refused_Asks, SendRead_Info
  <2>5. CASE WaitForCommandComplete(p)
    BY <2>5, WaitForCommandComplete_Asks, WaitForCommandComplete_Info
  <2>6. CASE GetDeviceInfo_Stop(p)
    BY <2>6, GetDeviceInfo_Stop_Asks, GetDeviceInfo_Stop_Info
  <2>7. CASE GetDeviceInfo_Return(p)
    BY <2>7, GetDeviceInfo_Return_Asks, GetDeviceInfo_Return_Info
  <2>8. CASE StartEventListener(p)
    BY <2>8, StartEventListener_Asks, StartEventListener_Info
  <2>9. CASE StartEventListener_Failed(p)
    BY <2>9, StartEventListener_Failed_Asks, StartEventListener_Failed_Info
  <2>10. CASE StartEventListener_ReaderFailed(p)
    BY <2>10, StartEventListener_ReaderFailed_Asks, StartEventListener_ReaderFailed_Info
  <2>11. CASE DeleteDevice(p)
    BY <2>11, DeleteDevice_Asks, DeleteDevice_Info
  <2> QED
    BY <1>2, <2>1, <2>2, <2>3, <2>4, <2>5, <2>6, <2>7, <2>8, <2>9, <2>10, <2>11,
       <2>12 DEF OpenSteps
<1>3. ASSUME NEW p \in Plugins, SendSteps(p)
      PROVE  AskInv'
  BY <1>3, Export_SendHCICommand_Asks, Export_SendHCICommand_Info DEF SendSteps
<1>4. ASSUME NEW t \in Threads, CloseSteps(t)
      PROVE  AskInv'
  <2>1. CASE CloseDevice(t)
    BY <2>1, CloseDevice_Asks, CloseDevice_Info
  <2>2. CASE Export_CloseDevice(t)
    BY <2>2, Export_CloseDevice_Asks, Export_CloseDevice_Info
  <2>3. CASE Export_CloseDevice_Return(t)
    BY <2>3, Export_CloseDevice_Return_Asks, Export_CloseDevice_Return_Info
  <2>4. CASE CloseDevice_Return(t)
    BY <2>4, CloseDevice_Return_Asks, CloseDevice_Return_Info
  <2> QED
    BY <1>4, <2>1, <2>2, <2>3, <2>4 DEF CloseSteps
<1>5. ASSUME NEW x \in Objects, ReadCompletes(x)
      PROVE  AskInv'
  BY <1>5, ReadCompletes_Asks, ReadCompletes_Info
<1>6. ASSUME NEW x \in Objects, Listener(x)
      PROVE  AskInv'
  <2>1. CASE \E e \in listener[x].signalled : Listener_Event(x, e)
    BY <2>1, Listener_Event_Asks, Listener_Event_Info
  <2>2. CASE Listener_Stop(x)
    BY <2>2, Listener_Stop_Asks, Listener_Stop_Info
  <2>3. CASE Listener_Failed(x)
    BY <2>3, Listener_Failed_Asks, Listener_Failed_Info
  <2> QED
    BY <1>6, <2>1, <2>2, <2>3 DEF Listener
<1>7. ASSUME Handler
      PROVE  AskInv'
  <2>1. CASE \E h \in handlers : CommandCompleteHandler_Find(h)
    BY <2>1, CommandCompleteHandler_Find_Asks, CommandCompleteHandler_Find_Info
  <2>2. CASE \E h \in handlers : CommandCompleteHandler_Complete(h)
    BY <2>2, CommandCompleteHandler_Complete_Asks, CommandCompleteHandler_Complete_Info
  <2>3. CASE \E h \in handlers : CommandCompleteHandler_TooLong(h)
    BY <2>3, CommandCompleteHandler_TooLong_Asks, CommandCompleteHandler_TooLong_Info
  <2> QED
    BY <1>7, <2>1, <2>2, <2>3 DEF Handler
<1>8. ASSUME Environment
      PROVE  AskInv'
  <2>1. CASE \E p \in Plugins : OpenDevice(p)
    BY <2>1, OpenDevice_Asks, OpenDevice_Info
  <2>2. CASE \E p \in Plugins : Disconnect(p)
    BY <2>2, Disconnect_Asks, Disconnect_Info
  <2>3. CASE \E p \in Plugins, op \in Opcodes : OnDeviceDataReceived(p, op)
    BY <2>3, OnDeviceDataReceived_Asks, OnDeviceDataReceived_Info
  <2>4. CASE \E a \in Adapters : Unplug(a)
    BY <2>4, Unplug_Asks, Unplug_Info
  <2>5. CASE \E x \in Objects : Listener_NoHandle(x)
    BY <2>5, Listener_NoHandle_Asks, Listener_NoHandle_Info
  <2> QED
    BY <1>8, <2>1, <2>2, <2>3, <2>4, <2>5 DEF Environment
<1> QED
  BY <1>1, <1>2, <1>3, <1>4, <1>5, <1>6, <1>7, <1>8 DEF Next

(* Of each plug-in, unless its GetDeviceInfo has taken a leftover, at most    *)
(* one answer to GetDeviceInfo is under way, and to the command that it waits *)
(* for; and the slot of CHciLocal is that of the session that asks.           *)
THEOREM AnswersTracked == Spec => []AskInv
<1>1. Init => AskInv
  BY InitAsks
<1>2. DevicesTypeOK /\ OwnInv /\ AskInv /\ [Next]_vars => AskInv'
  BY AsksStep
<1>3. Spec => [](DevicesTypeOK /\ OwnInv)
  BY DevicesInvariant
<1> QED
  BY <1>1, <1>2, <1>3, PTL DEF Spec

(* For any number of plug-ins, adapters, queries and reads, and any opcodes   *)
(* that the emulators send: each answer that GetDeviceInfo takes is that of   *)
(* the command it has asked last, unless it is, or follows, one that an       *)
(* earlier session left in the adapter for an opcode of GetDeviceInfo's own.  *)
THEOREM AnswersTaken == Spec => []AnswersAreTaken
<1>1. AskInv => AnswersAreTaken
  BY DEF AskInv, QueryInv
<1> QED
  BY <1>1, AnswersTracked, PTL

(* A handler thread of GetDeviceInfo's CHciLocal that carries an answer to    *)
(* GetDeviceInfo does not outlive that object, unless a leftover was taken.   *)
THEOREM HandlersFind == Spec => []HandlersFindQuery
<1>1. DevicesTypeOK /\ AskInv => HandlersFindQuery
  <2> SUFFICES ASSUME DevicesTypeOK, AskInv, NEW h \in handlers,
                      h.event.of = h.of, h.event.sender = "query", query.of # h.of
               PROVE  TookLeftover(h.of, Len(answers[h.of]))
    BY DEF HandlersFindQuery
  <2>1. h.of \in Plugins /\ Own(h.event, h.of)
    BY DEF DevicesTypeOK, ThreadsType, Own
  <2>2. ~AsksNow(h.of)
    BY <2>1 DEF AskInv, QueryInv, QueryOf, AsksNow
  <2>3. ~AllCurrent(h.of)
    BY <2>1, <2>2 DEF AllCurrent, Current
  <2> QED
    BY <2>1, <2>3 DEF AskInv, QueryInv, Tracked
<1> QED
  BY <1>1, AnswersTracked, DevicesTypes, PTL

(* For any number of plug-ins and slots, and any answers: a slot in use shows *)
(* the information of its device if and only if GetDeviceInfo's first query   *)
(* was answered with success, although the two searches for a free slot are   *)
(* two steps, and slots are reused with the information of a device before.   *)
THEOREM InfoCurrent == Spec => []InfoIsCurrent
<1>1. AskInv => InfoIsCurrent
  BY DEF AskInv, InfoInv
<1> QED
  BY <1>1, AnswersTracked, PTL

=============================================================================
