---------------------------- MODULE RuntimeDevices ----------------------------
(***************************************************************************)
(* fbtrt.dll: the slots of the open adapters, and the threads around them. *)
(*                                                                         *)
(* Each plug-in (one per connected emulator) opens an adapter when it      *)
(* starts, sends commands to it, and has two timers that close it when the *)
(* connection is gone.  Export_OpenDevice asks the adapter for information *)
(* with an HCI object of its own (CHciLocal), whose Listener keeps a       *)
(* number of event reads in the driver and hands each event to a new       *)
(* thread; then it starts the listener of the device proper.  All of this  *)
(* happens in g_hciCritSection.                                            *)
(*                                                                         *)
(* An event that reaches the device's listener continues in HciBridge      *)
(* (EventReceived) and is not kept here; neither is data.                  *)
(***************************************************************************)
EXTENDS Integers, Sequences, FiniteSets

CONSTANTS
  Plugins,       (* plug-ins, one per emulator                               *)
  Slots,         (* 0 .. MAX_DEVICES - 1                                     *)
  Adapters,      (* numbers of the device names \\.\FbtUsb00, 01, ...        *)
  Listens,       (* HCI_NUMBER_OF_OVERLAPPED_LISTENS                         *)
  Queries,       (* opcodes of GetDeviceInfo's commands, in their order      *)
  StackCommands, (* bound: opcodes that an emulator sends, once each         *)
  Leaving,       (* bound: plug-ins that lose their connection               *)
  Failing,       (* bound: listeners that may fail to get a handle           *)
  Removable,     (* bound: adapters that may be pulled out                   *)
  None

ASSUME RuntimeAssumption ==
  /\ Slots \subseteq Nat /\ Adapters \subseteq Nat /\ Listens \in Nat \ {0}
  /\ None \notin Nat /\ None \notin Plugins
  /\ None \notin Plugins \X {"session", "watchDog", "monitor"}
  /\ None \notin [op : Nat, of : Plugins, sender : {"query", "stack"}]

\* GetDeviceInfo asks each question once, so that no two events are the same.
ASSUME CommandsAssumption ==
  /\ Queries \in Seq(Nat) /\ \A j, k \in DOMAIN Queries : Queries[j] = Queries[k] => j = k
  /\ StackCommands \in [Plugins -> SUBSET Nat] /\ Leaving \subseteq Plugins
  /\ Failing \subseteq {"query", "device"} \X Plugins /\ Removable \subseteq Adapters

VARIABLES
  plugin,    (* per plug-in: connected, the devId of ControlPanelData and    *)
             (* of Plugin, and the commands still to send                    *)
  call,      (* per thread: the runtime call it is in, its step, its devId   *)
  lock,      (* owner of g_hciCritSection                                    *)
  slot,      (* g_bthHw and g_bthHci: the plug-in whose device is in a slot  *)
  handle,    (* m_hDriver of the CBTHW made for a plug-in                    *)
  info,      (* g_bthDevInfo: the plug-in whose OpenDevice has written it    *)
  query,     (* GetDeviceInfo's CHciLocal: the command in its first slot     *)
  answers,   (* what GetDeviceInfo took for the answers to its commands      *)
  known,     (* plug-ins whose GetDeviceInfo returns TRUE (its bRet)         *)
  listener,  (* per CHci object: its thread, stop event and event reads      *)
  handlers,  (* EventHandler threads of GetDeviceInfo's CHciLocal            *)
  reading,   (* plug-ins whose DataReader thread runs                        *)
  adapter    (* per adapter: plugged in, events it has for the host          *)

vars == <<plugin, call, lock, slot, handle, info, query, answers, known, listener,
          handlers, reading, adapter>>

Invalid == -1                               \* INVALID_DEVICE_ID
Threads == Plugins \X {"session", "watchDog", "monitor"}
Session(p) == <<p, "session">>              \* the thread of the plug-in itself
Objects == {"query", "device"} \X Plugins   \* CHciLocal, CBthEmulHci

\* Command Complete of a command that GetDeviceInfo or the emulator has sent.
Answer(op, p, sender) == [op |-> op, of |-> p, sender |-> sender]
Opcodes == {Queries[k] : k \in DOMAIN Queries} \cup UNION {StackCommands[p] : p \in Plugins}
Events == [op : Opcodes, of : Plugins, sender : {"query", "stack"}]

OpeningSteps == {"attached", "ask", "answer", "stop", "listen", "undo"}   \* with the lock
SessionSteps == {"idle", "open", "opened", "send"} \cup OpeningSteps
TimerSteps == {"idle", "close", "join", "closed"}
StepsOf(t) == IF t[2] = "session" THEN SessionSteps ELSE TimerSteps

NoQuery == [of |-> None, op |-> None, signal |-> FALSE, buffer |-> None, tooLong |-> FALSE]
NoListener == [thread |-> "none", stop |-> FALSE, pending |-> 0, signalled |-> {}]
Idle == [pc |-> "idle", id |-> Invalid, op |-> None]

Init ==
  /\ plugin = [p \in Plugins |-> [started |-> FALSE, connected |-> TRUE, dataId |-> Invalid,
                                  devId |-> Invalid, unsent |-> StackCommands[p]]]
  /\ call = [t \in Threads |-> Idle]
  /\ lock = None
  /\ slot = [i \in Slots |-> None] /\ info = [i \in Slots |-> None]
  /\ handle = [p \in Plugins |-> None]
  /\ query = NoQuery /\ answers = [p \in Plugins |-> <<>>] /\ known = {}
  /\ listener = [x \in Objects |-> NoListener]
  /\ handlers = {} /\ reading = {}
  /\ adapter = [a \in Adapters |-> [plugged |-> TRUE, events |-> <<>>]]

FirstFree(i) == slot[i] = None /\ \A j \in Slots : slot[j] = None => i <= j
Free(a) == adapter[a].plugged /\ \A p \in Plugins : handle[p] # a
Plugged(p) == handle[p] # None /\ adapter[handle[p]].plugged
GoTo(t, pc) == call' = [call EXCEPT ![t].pc = pc]

\* CBTHW::SendCommand: the adapter will answer with event e.
SendCommand(a, e) == adapter' = [adapter EXCEPT ![a].events = Append(@, e)]

-----------------------------------------------------------------------------
(* The plug-in.                                                            *)

\* Plugin.OpenDevice, called once when the plug-in is set up.
OpenDevice(p) ==
  /\ ~plugin[p].started
  /\ plugin' = [plugin EXCEPT ![p].started = TRUE]
  /\ GoTo(Session(p), "open")
  /\ UNCHANGED <<lock, slot, handle, info, query, answers, known, listener, handlers,
                 reading, adapter>>

OpenDevice_Return(p) ==
  /\ call[Session(p)].pc = "opened"
  /\ LET id == call[Session(p)].id
     IN  plugin' = [plugin EXCEPT ![p].dataId = id, ![p].devId = id]
  /\ call' = [call EXCEPT ![Session(p)] = Idle]
  /\ UNCHANGED <<lock, slot, handle, info, query, answers, known, listener, handlers,
                 reading, adapter>>

\* OnDeviceDataReceived: the devId of Plugin is never reset.
OnDeviceDataReceived(p, op) ==
  /\ call[Session(p)].pc = "idle"
  /\ plugin[p].connected /\ plugin[p].devId # Invalid /\ op \in plugin[p].unsent
  /\ plugin' = [plugin EXCEPT ![p].unsent = @ \ {op}]
  /\ call' = [call EXCEPT ![Session(p)] = [pc |-> "send", id |-> plugin[p].devId, op |-> op]]
  /\ UNCHANGED <<lock, slot, handle, info, query, answers, known, listener, handlers,
                 reading, adapter>>

\* ControlPanelData.CloseDevice from either timer: the test of devId ...
CloseDevice(t) ==
  /\ t[2] # "session" /\ call[t].pc = "idle"
  /\ ~plugin[t[1]].connected /\ plugin[t[1]].dataId # Invalid
  /\ call' = [call EXCEPT ![t] = [pc |-> "close", id |-> plugin[t[1]].dataId, op |-> None]]
  /\ UNCHANGED <<plugin, lock, slot, handle, info, query, answers, known, listener, handlers,
                 reading, adapter>>

\* ... and its reset once the runtime has returned.
CloseDevice_Return(t) ==
  /\ call[t].pc = "closed"
  /\ plugin' = [plugin EXCEPT ![t[1]].dataId = Invalid]
  /\ call' = [call EXCEPT ![t] = Idle]
  /\ UNCHANGED <<lock, slot, handle, info, query, answers, known, listener, handlers,
                 reading, adapter>>

Disconnect(p) ==
  /\ p \in Leaving /\ plugin[p].connected
  /\ plugin' = [plugin EXCEPT ![p].connected = FALSE]
  /\ UNCHANGED <<call, lock, slot, handle, info, query, answers, known, listener, handlers,
                 reading, adapter>>

-----------------------------------------------------------------------------
(* CHci: the Listener thread and its event reads.  The driver completes a  *)
(* read with the adapter's next event; what a thread has left unread when  *)
(* it ends is cancelled.                                                   *)

Started(p) ==
  [thread |-> "running", stop |-> FALSE, pending |-> IF Plugged(p) THEN Listens ELSE 0,
   signalled |-> {}]
Ended == [thread |-> "ended", stop |-> FALSE, pending |-> 0, signalled |-> {}]

\* The adapter's next event completes a read.
ReadCompletes(x) ==
  /\ listener[x].pending > 0 /\ Plugged(x[2])
  /\ LET a == handle[x[2]]
     IN  /\ adapter[a].events # <<>>
         /\ adapter' = [adapter EXCEPT ![a].events = Tail(@)]
         /\ listener' = [listener EXCEPT ![x].pending = @ - 1,
                                         ![x].signalled = @ \cup {Head(adapter[a].events)}]
  /\ UNCHANGED <<plugin, call, lock, slot, handle, info, query, answers, known, handlers, reading>>

Handled(x, e) ==
  handlers' = IF x[1] = "query"
              THEN handlers \cup {[of |-> x[2], event |-> e, pc |-> "started"]} ELSE handlers

\* Faulty variant: the read is issued twice.
Listener_Event_Twice(x, e) ==
  /\ listener[x].thread = "running" /\ ~listener[x].stop /\ e \in listener[x].signalled
  /\ Handled(x, e)
  /\ listener' = [listener EXCEPT ![x].pending = IF Plugged(x[2]) THEN @ + 2 ELSE @,
                                  ![x].signalled = @ \ {e}]
  /\ UNCHANGED <<plugin, call, lock, slot, handle, info, query, answers, known, reading, adapter>>

\* An event is copied to a new thread and its read is issued again.
Listener_Event(x, e) ==
  /\ listener[x].thread = "running" /\ ~listener[x].stop /\ e \in listener[x].signalled
  /\ Handled(x, e)
  /\ listener' = [listener EXCEPT ![x].pending = IF Plugged(x[2]) THEN @ + 1 ELSE @,
                                  ![x].signalled = @ \ {e}]
  /\ UNCHANGED <<plugin, call, lock, slot, handle, info, query, answers, known, reading, adapter>>

\* The stop event is the first that WaitForMultipleObjects looks at.
Listener_Stop(x) ==
  /\ listener[x].thread = "running" /\ listener[x].stop
  /\ listener' = [listener EXCEPT ![x] = Ended]
  /\ UNCHANGED <<plugin, call, lock, slot, handle, info, query, answers, known, handlers, reading,
                 adapter>>

\* A read that the loss of the adapter has failed ends the thread.
Listener_Failed(x) ==
  /\ listener[x].thread = "running" /\ ~listener[x].stop
  /\ listener[x].pending > 0 /\ ~Plugged(x[2])
  /\ listener' = [listener EXCEPT ![x] = Ended]
  /\ UNCHANGED <<plugin, call, lock, slot, handle, info, query, answers, known, handlers, reading,
                 adapter>>

\* A handle that cannot be created ends the thread: that of a read, so that
\* WaitForMultipleObjects fails, or that of the thread for an event.
Listener_NoHandle(x) ==
  /\ x \in Failing /\ listener[x].thread = "running" /\ ~listener[x].stop
  /\ listener' = [listener EXCEPT ![x] = Ended]
  /\ UNCHANGED <<plugin, call, lock, slot, handle, info, query, answers, known, handlers, reading,
                 adapter>>

\* Faulty variant: the opcode of the event is not looked at.
CommandCompleteHandler_Find_Any(h) ==
  /\ h \in handlers /\ h.pc = "started"
  /\ handlers' = (handlers \ {h}) \cup
                 (IF query.of = h.of /\ query.op # None THEN {[h EXCEPT !.pc = "found"]} ELSE {})
  /\ UNCHANGED <<plugin, call, lock, slot, handle, info, query, answers, known, listener, reading,
                 adapter>>

\* CHciLocal::CommandCompleteHandler finds the slot of the command ...
CommandCompleteHandler_Find(h) ==
  /\ h \in handlers /\ h.pc = "started"
  /\ handlers' = (handlers \ {h}) \cup
                 (IF query.of = h.of /\ query.op = h.event.op THEN {[h EXCEPT !.pc = "found"]} ELSE {})
  /\ UNCHANGED <<plugin, call, lock, slot, handle, info, query, answers, known, listener, reading,
                 adapter>>

\* ... and fills it, unless the slot has been emptied meanwhile.  (Without
\* parameters nothing is copied, and the zero that is there reads as success.)
CommandCompleteHandler_Complete(h) ==
  /\ h \in handlers /\ h.pc = "found"
  /\ handlers' = handlers \ {h}
  /\ query' = IF query.of = h.of /\ query.op # None
              THEN [query EXCEPT !.buffer = h.event, !.signal = TRUE] ELSE query
  /\ UNCHANGED <<plugin, call, lock, slot, handle, info, answers, known, listener, reading, adapter>>

\* An answer longer than the structure of the slot is dropped, unsignalled.
CommandCompleteHandler_TooLong(h) ==
  /\ h \in handlers /\ h.pc = "found"
  /\ query.of = h.of /\ query.op # None
  /\ handlers' = handlers \ {h}
  /\ query' = [query EXCEPT !.tooLong = TRUE]
  /\ UNCHANGED <<plugin, call, lock, slot, handle, info, answers, known, listener, reading, adapter>>

-----------------------------------------------------------------------------
(* Export_OpenDevice.                                                      *)

\* The first adapter that can be opened.
AttachHardware(p, a) ==
  /\ Free(a) /\ \A b \in Adapters : Free(b) => a <= b
  /\ handle' = [handle EXCEPT ![p] = a]

\* In the first free slot, with the first adapter that can be opened; the
\* driver refuses a second handle (FreeBT_DispatchCreate).
Export_OpenDevice(p) ==
  /\ call[Session(p)].pc = "open" /\ lock = None
  /\ \/ /\ (\A a \in Adapters : ~Free(a)) \/ (\A i \in Slots : slot[i] # None)
        /\ GoTo(Session(p), "opened")
        /\ UNCHANGED <<lock, handle>>
     \/ /\ \E i \in Slots : slot[i] = None
        /\ \E a \in Adapters : AttachHardware(p, a)
        /\ lock' = Session(p) /\ GoTo(Session(p), "attached")
  /\ UNCHANGED <<plugin, slot, info, query, answers, known, listener, handlers,
                 reading, adapter>>

\* GetDeviceInfo: a CHciLocal with a listener of its own.
GetDeviceInfo(p) ==
  /\ call[Session(p)].pc = "attached"
  /\ query' = [NoQuery EXCEPT !.of = p]
  /\ listener' = [listener EXCEPT ![<<"query", p>>] = Started(p)]
  /\ GoTo(Session(p), "ask")
  /\ UNCHANGED <<plugin, lock, slot, handle, info, answers, known, handlers, reading, adapter>>

\* That its listener was not created is ignored.
GetDeviceInfo_NoListener(p) ==
  /\ call[Session(p)].pc = "attached"
  /\ query' = [NoQuery EXCEPT !.of = p]
  /\ GoTo(Session(p), "ask")
  /\ UNCHANGED <<plugin, lock, slot, handle, info, answers, known, listener, handlers,
                 reading, adapter>>

NextQuery(p) == Queries[Len(answers[p]) + 1]
QueueCommand(op) == query' = [query EXCEPT !.op = op, !.signal = FALSE]

\* GetDeviceInfo's bRet: what the first query returns, the status in its buffer.
Note(p, success) ==
  known' = IF answers[p] = <<>> /\ success THEN known \cup {p} ELSE known

\* SendReadBDADDR and its like: QueueCommand, then the command itself, which
\* an unplugged adapter refuses.
SendRead(p) ==
  /\ call[Session(p)].pc = "ask" /\ Len(answers[p]) < Len(Queries)
  /\ LET op == NextQuery(p)
     IN  IF Plugged(p)
         THEN /\ QueueCommand(op)
              /\ SendCommand(handle[p], Answer(op, p, "query"))
              /\ GoTo(Session(p), "answer")
              /\ UNCHANGED answers
         ELSE /\ answers' = [answers EXCEPT ![p] = Append(@, None)]
              /\ UNCHANGED <<query, adapter, call>>
  /\ UNCHANGED <<plugin, lock, slot, handle, info, known, listener, handlers, reading>>

DeQueueCommand(p) == query' = [NoQuery EXCEPT !.of = p]

\* Faulty variant: an answer that is late is not waited for.
WaitForCommandComplete_NoWait(p) ==
  /\ call[Session(p)].pc = "answer"
  /\ answers' = [answers EXCEPT ![p] = Append(@, query.buffer)]
  /\ \E success \in BOOLEAN : Note(p, success)
  /\ DeQueueCommand(p)
  /\ GoTo(Session(p), "ask")
  /\ UNCHANGED <<plugin, lock, slot, handle, info, listener, handlers, reading, adapter>>

\* The signal of the slot; DeQueueCommand empties it, and the query returns the
\* status that the adapter gave.
WaitForCommandComplete(p) ==
  /\ call[Session(p)].pc = "answer" /\ query.signal
  /\ answers' = [answers EXCEPT ![p] = Append(@, query.buffer)]
  /\ \E success \in BOOLEAN : Note(p, success)
  /\ DeQueueCommand(p)
  /\ GoTo(Session(p), "ask")
  /\ UNCHANGED <<plugin, lock, slot, handle, info, listener, handlers, reading, adapter>>

\* CHci::StopEventListener sets the stop event and then waits for the thread.
GetDeviceInfo_Stop(p) ==
  /\ call[Session(p)].pc = "ask" /\ Len(answers[p]) = Len(Queries)
  /\ listener' = [listener EXCEPT ![<<"query", p>>].stop = TRUE]
  /\ GoTo(Session(p), "stop")
  /\ UNCHANGED <<plugin, lock, slot, handle, info, query, answers, known, handlers, reading, adapter>>

\* Faulty variant: information that is there is not replaced.
GetDeviceInfo_Return_Kept(p) ==
  /\ call[Session(p)].pc = "stop" /\ listener[<<"query", p>>].thread # "running"
  /\ \E i \in Slots :
       /\ FirstFree(i)
       /\ info' = IF p \in known /\ info[i] = None THEN [info EXCEPT ![i] = p] ELSE info
  /\ query' = NoQuery
  /\ listener' = [listener EXCEPT ![<<"query", p>>] = NoListener]
  /\ GoTo(Session(p), "listen")
  /\ UNCHANGED <<plugin, lock, slot, handle, answers, known, handlers, reading, adapter>>

\* The thread has ended, or there is none to wait for, and the CHciLocal goes;
\* if the first query has failed the information of the slot stays as it was.
GetDeviceInfo_Return(p) ==
  /\ call[Session(p)].pc = "stop" /\ listener[<<"query", p>>].thread # "running"
  /\ \E i \in Slots :
       FirstFree(i) /\ info' = IF p \in known THEN [info EXCEPT ![i] = p] ELSE info
  /\ query' = NoQuery
  /\ listener' = [listener EXCEPT ![<<"query", p>>] = NoListener]
  /\ GoTo(Session(p), "listen")
  /\ UNCHANGED <<plugin, lock, slot, handle, answers, known, handlers, reading, adapter>>

\* CBthEmulHci::StartEventListener: the Listener, then the DataReader.
StartEventListener(p) ==
  /\ call[Session(p)].pc = "listen"
  /\ listener' = [listener EXCEPT ![<<"device", p>>] = Started(p)]
  /\ reading' = reading \cup {p}
  /\ \E i \in Slots :
       /\ FirstFree(i)
       /\ slot' = [slot EXCEPT ![i] = p]
       /\ call' = [call EXCEPT ![Session(p)].pc = "opened", ![Session(p)].id = i]
  /\ lock' = None
  /\ UNCHANGED <<plugin, handle, info, query, answers, known, handlers, adapter>>

\* The Listener thread cannot be created: CBthEmulHci and CBTHW are deleted,
\* with the driver's handle left open.
StartEventListener_Failed(p) ==
  /\ call[Session(p)].pc = "listen"
  /\ lock' = None /\ GoTo(Session(p), "opened")
  /\ UNCHANGED <<plugin, slot, handle, info, query, answers, known, listener, handlers,
                 reading, adapter>>

\* The DataReader thread cannot be created: ~CHci has the Listener to stop.
StartEventListener_ReaderFailed(p) ==
  /\ call[Session(p)].pc = "listen"
  /\ listener' = [listener EXCEPT ![<<"device", p>>] = [Started(p) EXCEPT !.stop = TRUE]]
  /\ GoTo(Session(p), "undo")
  /\ UNCHANGED <<plugin, lock, slot, handle, info, query, answers, known, handlers, reading, adapter>>

DeleteDevice(p) ==
  /\ call[Session(p)].pc = "undo" /\ listener[<<"device", p>>].thread = "ended"
  /\ listener' = [listener EXCEPT ![<<"device", p>>] = NoListener]
  /\ lock' = None /\ GoTo(Session(p), "opened")
  /\ UNCHANGED <<plugin, slot, handle, info, query, answers, known, handlers, reading, adapter>>

-----------------------------------------------------------------------------
(* Export_CloseDevice and Export_SendHCICommand.                           *)

\* Faulty variant: the early return for an empty slot keeps the lock.
Export_CloseDevice_KeepsLock(t) ==
  /\ call[t].pc = "close" /\ lock = None
  /\ LET p == slot[call[t].id]
     IN  /\ lock' = t
         /\ IF p = None
            THEN GoTo(t, "closed") /\ UNCHANGED listener
            ELSE /\ listener' = [listener EXCEPT ![<<"device", p>>].stop = TRUE]
                 /\ GoTo(t, "join")
  /\ UNCHANGED <<plugin, slot, handle, info, query, answers, known, handlers, reading, adapter>>

\* Faulty variant: the stop event is not set.
Export_CloseDevice_NoStop(t) ==
  /\ call[t].pc = "close" /\ lock = None
  /\ IF slot[call[t].id] = None
     THEN GoTo(t, "closed") /\ UNCHANGED lock
     ELSE GoTo(t, "join") /\ lock' = t
  /\ UNCHANGED <<plugin, slot, handle, info, query, answers, known, listener, handlers,
                 reading, adapter>>

\* CBthEmulHci::StopEventListener, from DetachHardware, sets the stop event.
Export_CloseDevice(t) ==
  /\ call[t].pc = "close" /\ lock = None
  /\ LET p == slot[call[t].id]
     IN  IF p = None
         THEN /\ GoTo(t, "closed")
              /\ UNCHANGED <<lock, listener>>
         ELSE /\ lock' = t
              /\ listener' = [listener EXCEPT ![<<"device", p>>].stop = TRUE]
              /\ GoTo(t, "join")
  /\ UNCHANGED <<plugin, slot, handle, info, query, answers, known, handlers, reading, adapter>>

Detach(p) == handle' = [handle EXCEPT ![p] = None]

\* Faulty variant: the Listener is not waited for.
Export_CloseDevice_Return_NoJoin(t) ==
  /\ call[t].pc = "join"
  /\ LET p == slot[call[t].id]
     IN  /\ reading' = reading \ {p}
         /\ Detach(p)
         /\ slot' = [slot EXCEPT ![call[t].id] = None]
  /\ lock' = None /\ GoTo(t, "closed")
  /\ UNCHANGED <<plugin, info, query, answers, known, listener, handlers, adapter>>

\* Faulty variant: the slot is freed and the handle forgotten.
Export_CloseDevice_Return_NoDetach(t) ==
  /\ call[t].pc = "join"
  /\ LET p == slot[call[t].id]
     IN  /\ listener[<<"device", p>>].thread = "ended"
         /\ listener' = [listener EXCEPT ![<<"device", p>>] = NoListener]
         /\ reading' = reading \ {p}
         /\ slot' = [slot EXCEPT ![call[t].id] = None]
  /\ lock' = None /\ GoTo(t, "closed")
  /\ UNCHANGED <<plugin, handle, info, query, answers, known, handlers, adapter>>

\* The Listener has ended; the DataReader ends on its event, or is terminated
\* after five seconds; the handle is closed and the slot is free.
Export_CloseDevice_Return(t) ==
  /\ call[t].pc = "join"
  /\ LET p == slot[call[t].id]
     IN  /\ listener[<<"device", p>>].thread = "ended"
         /\ listener' = [listener EXCEPT ![<<"device", p>>] = NoListener]
         /\ reading' = reading \ {p}
         /\ Detach(p)
         /\ slot' = [slot EXCEPT ![call[t].id] = None]
  /\ lock' = None /\ GoTo(t, "closed")
  /\ UNCHANGED <<plugin, info, query, answers, known, handlers, adapter>>

\* The command goes to whatever device the slot holds now.
Export_SendHCICommand(p) ==
  /\ call[Session(p)].pc = "send" /\ lock = None
  /\ LET q == slot[call[Session(p)].id]
     IN  IF q # None /\ Plugged(q)
         THEN SendCommand(handle[q], Answer(call[Session(p)].op, p, "stack"))
         ELSE UNCHANGED adapter
  /\ call' = [call EXCEPT ![Session(p)] = Idle]
  /\ UNCHANGED <<plugin, lock, slot, handle, info, query, answers, known, listener, handlers,
                 reading>>

\* An adapter is pulled out.
Unplug(a) ==
  /\ a \in Removable /\ adapter[a].plugged
  /\ adapter' = [adapter EXCEPT ![a] = [plugged |-> FALSE, events |-> <<>>]]
  /\ UNCHANGED <<plugin, call, lock, slot, handle, info, query, answers, known, listener, handlers,
                 reading>>

-----------------------------------------------------------------------------
OpenSteps(p) ==
  \/ OpenDevice_Return(p)
  \/ Export_OpenDevice(p) \/ GetDeviceInfo(p) \/ GetDeviceInfo_NoListener(p)
  \/ SendRead(p) \/ WaitForCommandComplete(p)
  \/ GetDeviceInfo_Stop(p) \/ GetDeviceInfo_Return(p)
  \/ StartEventListener(p) \/ StartEventListener_Failed(p) \/ StartEventListener_ReaderFailed(p)
  \/ DeleteDevice(p)
SendSteps(p) == Export_SendHCICommand(p)
CloseSteps(t) ==
  CloseDevice(t) \/ Export_CloseDevice(t) \/ Export_CloseDevice_Return(t) \/ CloseDevice_Return(t)
Listener(x) ==
  (\E e \in listener[x].signalled : Listener_Event(x, e)) \/ Listener_Stop(x) \/ Listener_Failed(x)
Handler ==
  \E h \in handlers : \/ CommandCompleteHandler_Find(h) \/ CommandCompleteHandler_Complete(h)
                      \/ CommandCompleteHandler_TooLong(h)
Environment ==
  \/ \E p \in Plugins : \/ OpenDevice(p) \/ Disconnect(p)
                        \/ \E op \in Opcodes : OnDeviceDataReceived(p, op)
  \/ \E a \in Adapters : Unplug(a)
  \/ \E x \in Objects : Listener_NoHandle(x)

Next ==
  \/ \E p \in Plugins : OpenSteps(p) \/ SendSteps(p)
  \/ \E t \in Threads : CloseSteps(t)
  \/ \E x \in Objects : ReadCompletes(x) \/ Listener(x)
  \/ Handler
  \/ Environment

Spec == Init /\ [][Next]_vars

\* Threads are scheduled, timers fire, and the adapter's events complete the
\* driver's reads.  A call waits for g_hciCritSection behind finitely many
\* others, so that weak fairness is enough.
FairSpec ==
  /\ Spec
  /\ \A p \in Plugins : WF_vars(OpenSteps(p)) /\ WF_vars(SendSteps(p))
  /\ \A t \in Threads : WF_vars(CloseSteps(t))
  /\ \A x \in Objects : WF_vars(ReadCompletes(x)) /\ WF_vars(Listener(x))
  /\ WF_vars(Handler)

-----------------------------------------------------------------------------
(* Properties.                                                             *)

InSlot(p) == \E i \in Slots : slot[i] = p
Opening(p) == lock = Session(p)
OpenResult(p) == IF call[Session(p)].pc = "opened" THEN call[Session(p)].id
                 ELSE plugin[p].devId

PluginType ==
  plugin \in [Plugins -> [started : BOOLEAN, connected : BOOLEAN, dataId : Slots \cup {Invalid},
                         devId : Slots \cup {Invalid}, unsent : SUBSET Opcodes]]
CallType ==
  /\ call \in [Threads -> [pc : SessionSteps \cup TimerSteps, id : Slots \cup {Invalid},
                           op : Opcodes \cup {None}]]
  /\ \A t \in Threads : /\ call[t].pc \in StepsOf(t)
                        /\ call[t].pc \in {"send", "close", "join"} => call[t].id \in Slots
                        /\ call[t].pc = "send" => call[t].op \in Opcodes
LockType == lock \in Threads \cup {None}
SlotType ==
  slot \in [Slots -> Plugins \cup {None}] /\ info \in [Slots -> Plugins \cup {None}]
HandleType == handle \in [Plugins -> Adapters \cup {None}]
QueryType ==
  query \in [of : Plugins \cup {None}, op : Opcodes \cup {None}, signal : BOOLEAN,
            buffer : Events \cup {None}, tooLong : BOOLEAN]
AnswersType == answers \in [Plugins -> Seq(Events \cup {None})] /\ known \subseteq Plugins
ListenerStates ==
  {r \in [thread : {"none", "running", "ended"}, stop : BOOLEAN,
          pending : 0 .. Listens, signalled : SUBSET Events] :
     IsFiniteSet(r.signalled) /\ r.pending + Cardinality(r.signalled) <= Listens}
ThreadsType ==
  /\ listener \in [Objects -> ListenerStates]
  /\ handlers \subseteq [of : Plugins, event : Events, pc : {"started", "found"}]
  /\ reading \subseteq Plugins
AdapterType == adapter \in [Adapters -> [plugged : BOOLEAN, events : Seq(Events)]]

\* Every variable has its type, a call is in a step of its thread's own, and no
\* listener has more reads than it began with.
DevicesTypeOK ==
  /\ PluginType /\ CallType /\ LockType /\ SlotType /\ HandleType
  /\ QueryType /\ AnswersType /\ ThreadsType /\ AdapterType

\* An adapter has one handle, a device one slot, the one its plug-in was told;
\* a handle without a slot is one that OpenDevice is working on or one it has
\* lost in a failure.  Slots are reused while closers of the previous device
\* are still on their way (ControlPanelData.cs:246).
HandlesAreOwned ==
  /\ \A p, q \in Plugins : handle[p] = handle[q] /\ handle[p] # None => p = q
  /\ \A i \in Slots, p \in Plugins : slot[i] = p => handle[p] # None /\ OpenResult(p) = i
  /\ \A p \in Plugins : handle[p] # None /\ ~InSlot(p) /\ ~Opening(p)
                          => plugin[p].started /\ OpenResult(p) = Invalid

\* No thread reads events or data with a handle that is closed, or for a device
\* that is in no slot: StopEventListener waits for both before Detach.
ReadersAreJoined ==
  /\ \A p \in Plugins : listener[<<"query", p>>].thread # "none" => handle[p] # None /\ Opening(p)
  /\ \A p \in Plugins : listener[<<"device", p>>].thread # "none"
                          => handle[p] # None /\ (InSlot(p) \/ Opening(p))
  /\ \A p \in reading : InSlot(p)

\* GetDeviceInfo of p has taken an answer that an earlier session has left in
\* the adapter, to one of its own commands so far.
TookLeftover(p, k) ==
  \E j \in 1 .. k, i \in 1 .. k :
    /\ answers[p][j] # None /\ answers[p][j].op = Queries[i]
    /\ answers[p][j].of # p \/ answers[p][j].sender = "stack"

\* A slot in use shows the information of its own device if and only if that
\* device answered the first of its queries with success; else what the slot
\* shows is left from a device before it (fbtrt.cpp:97, :152), or nothing.
InfoIsCurrent ==
  \A i \in Slots :
    /\ slot[i] \in known => info[i] = slot[i]
    /\ info[i] # None => info[i] \in known

\* Each answer that GetDeviceInfo takes is the adapter's to that very command,
\* until it takes one that an earlier session has left there for an opcode of
\* its own: nothing else goes wrong between the handler threads, which find and
\* fill the slot in two steps, and the thread that empties and reuses it.
AnswersAreTaken ==
  \A p \in Plugins : \A k \in DOMAIN answers[p] :
    answers[p][k] \in {None, Answer(Queries[k], p, "query")} \/ TookLeftover(p, k)

\* A handler thread with an answer to GetDeviceInfo does not outlive the
\* CHciLocal on GetDeviceInfo's stack, unless a leftover was taken before.
HandlersFindQuery ==
  \A h \in handlers :
    h.event.of = h.of /\ h.event.sender = "query" /\ query.of # h.of
      => TookLeftover(h.of, Len(answers[h.of]))

\* GetDeviceInfo waits for an answer that cannot come or was dropped: its
\* adapter is gone, no listener reads events, or the answer was too long.
Stuck ==
  \E p \in Plugins : /\ call[Session(p)].pc = "answer"
                     /\ \/ ~Plugged(p) \/ listener[<<"query", p>>].thread # "running"
                        \/ query.tooLong

\* Every call of the runtime returns, unless GetDeviceInfo is stuck:
\* WaitForCommandComplete has no timeout, and holds g_hciCritSection for ever.
CallsReturn ==
  \A t \in Threads : call[t].pc # "idle" ~> (call[t].pc = "idle" \/ []Stuck)

\* A plug-in that has lost its connection gives up its device, with two timers
\* in each other's way.
DisconnectCloses ==
  \A p \in Plugins : ~plugin[p].connected /\ plugin[p].dataId # Invalid
                       ~> (plugin[p].dataId = Invalid \/ []Stuck)
=============================================================================
