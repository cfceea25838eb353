------------------------------ MODULE FbtUsbPnp ------------------------------
(***************************************************************************)
(* The FreeBT USB driver: how the plug and play handlers, which stop and   *)
(* remove the device, keep clear of the I/O requests of the applications.  *)
(*                                                                         *)
(* OutStandingIO counts the requests inside the driver, biased to one.     *)
(* "Transition to 0 during remove device means IO is finished.  Transition *)
(* to 1 means the device can be stopped" (fbtusb.c:196).                   *)
(*                                                                         *)
(* Selective suspend and wait-wake are off (SSEnable = WaitWakeEnable = 0).*)
(* NewRequestsQueue is always empty: no code calls QueueRequest, so that   *)
(* ProcessQueuedRequests and the scan of FreeBT_DispatchClean do nothing;  *)
(* FreeBT_AbortPipes finds no pipe, PipeOpen being only ever set to FALSE. *)
(***************************************************************************)
EXTENDS Integers, FiniteSets

CONSTANTS
  Requests,   (* I/O requests an application may have in the driver         *)
  Transfers,  (* those that are reads and writes (fbtrwr.c); the others are
                 HCI commands and event reads (fbtdev.c)                    *)
  EventReads, (* event reads: they end only when the adapter has an event   *)
  Failing,    (* requests whose IoCallDriver may return a failure           *)
  Handles,    (* file objects of the applications                           *)
  FileOf      (* FileOf[r]: the file object of request r                    *)

ASSUME PnpAssumption ==
  /\ IsFiniteSet(Requests) /\ IsFiniteSet(Handles)
  /\ Transfers \subseteq Requests
  /\ EventReads \subseteq Requests \ Transfers
  /\ Failing \subseteq Requests \ Transfers
  /\ FileOf \in [Requests -> Handles]

DeviceStates == {"NotStarted", "Stopped", "Working", "PendingStop",
                 "PendingRemove", "SurpriseRemoved", "Removed"}
QueueStates == {"HoldRequests", "AllowRequests", "FailRequests"}
Queries == {"QUERY_STOP", "QUERY_REMOVE"}
PnpIrps == {"START", "STOP", "CANCEL_STOP", "CANCEL_REMOVE",
            "SURPRISE_REMOVAL", "REMOVE", "OTHER"} \cup Queries

VARIABLES
  devState,         (* DeviceState                                          *)
  prevDevState,     (* PrevDevState                                         *)
  queueState,       (* QueueState                                           *)
  usbInterface,     (* UsbInterface is not NULL                             *)
  outStandingIO,    (* OutStandingIO                                        *)
  stopEvent,        (* StopEvent, a synchronization (auto-reset) event      *)
  stopWaiters,      (* threads blocked on it                                *)
  removeEvent,      (* RemoveEvent, a synchronization event                 *)
  openHandleCount,  (* OpenHandleCount                                      *)
  handle,           (* handle[h]: where file object h stands                *)
  request,          (* request[r]: where I/O request r stands               *)
  wmi,              (* the WMI request in FreeBT_DispatchSysCtrl            *)
  pnp               (* the PnP request in FreeBT_DispatchPnP and its step   *)

pnpVars == <<devState, prevDevState, queueState, usbInterface, pnp>>
countVars == <<outStandingIO, stopEvent, stopWaiters, removeEvent>>
ioVars == <<openHandleCount, handle, request, wmi>>
vars == <<pnpVars, countVars, ioVars>>

\* FreeBT_AddDevice.
Init ==
  /\ devState = "NotStarted" /\ prevDevState = "NotStarted"
  /\ queueState = "HoldRequests"
  /\ usbInterface = FALSE
  /\ outStandingIO = 1
  /\ stopEvent = TRUE /\ stopWaiters = {}
  /\ removeEvent = FALSE
  /\ openHandleCount = 0
  /\ handle = [h \in Handles |-> "closed"]
  /\ request = [r \in Requests |-> "idle"]
  /\ wmi = "idle"
  /\ pnp = [irp |-> "none", pc |-> "idle"]

-----------------------------------------------------------------------------
(* The count and its events, changed under IOCountLock.                    *)

\* Faulty variant: the StopEvent is cleared one request too late.
FreeBT_IoIncrement_ClearLate ==
  /\ outStandingIO' = outStandingIO + 1
  /\ stopEvent' = IF outStandingIO' = 3 THEN FALSE ELSE stopEvent
  /\ UNCHANGED <<stopWaiters, removeEvent>>

FreeBT_IoIncrement ==
  /\ outStandingIO' = outStandingIO + 1
  /\ stopEvent' = IF outStandingIO' = 2 THEN FALSE ELSE stopEvent
  /\ UNCHANGED <<stopWaiters, removeEvent>>

\* KeSetEvent on an auto-reset event releases one waiter or stays signalled.
KeSetStopEvent ==
  IF stopWaiters = {}
    THEN stopEvent' = TRUE /\ stopWaiters' = {}
    ELSE \E t \in stopWaiters : /\ stopWaiters' = stopWaiters \ {t}
                                /\ UNCHANGED stopEvent

\* KeWaitForSingleObject: a signalled event is consumed, else t blocks.
KeWaitForStopEvent(t) ==
  /\ stopEvent' = FALSE
  /\ stopWaiters' = IF stopEvent THEN stopWaiters ELSE stopWaiters \cup {t}

\* Faulty variant: the StopEvent is signalled by the last decrement only.
FreeBT_IoDecrement_NoStopEvent ==
  /\ outStandingIO' = outStandingIO - 1
  /\ removeEvent' = (removeEvent \/ outStandingIO' = 0)
  /\ UNCHANGED <<stopEvent, stopWaiters>>

FreeBT_IoDecrement ==
  /\ outStandingIO' = outStandingIO - 1
  /\ removeEvent' = (removeEvent \/ outStandingIO' = 0)
  /\ IF outStandingIO' = 1 THEN KeSetStopEvent ELSE UNCHANGED <<stopEvent, stopWaiters>>

-----------------------------------------------------------------------------
(* Handles: IRP_MJ_CREATE, IRP_MJ_CLEANUP, IRP_MJ_CLOSE.                   *)

SetHandle(h, s) == handle' = [handle EXCEPT ![h] = s]

\* FreeBT_DispatchCreate has found the device usable and without a handle...
FreeBT_DispatchCreate_Check(h) ==
  /\ handle[h] = "closed"
  /\ devState = "Working" /\ usbInterface /\ openHandleCount = 0
  /\ SetHandle(h, "checked")
  /\ UNCHANGED <<pnpVars, countVars, openHandleCount, request, wmi>>

\* Faulty variant: the handle is granted and not counted.
FreeBT_DispatchCreate_Open_Uncounted(h) ==
  /\ handle[h] = "checked"
  /\ SetHandle(h, "open")
  /\ UNCHANGED <<pnpVars, countVars, openHandleCount, request, wmi>>

\* ... and counts the handle it grants.
FreeBT_DispatchCreate_Open(h) ==
  /\ handle[h] = "checked"
  /\ SetHandle(h, "open")
  /\ openHandleCount' = openHandleCount + 1
  /\ UNCHANGED <<pnpVars, countVars, request, wmi>>

\* The application closes its last handle to the file object.
FreeBT_DispatchClean(h) ==
  /\ handle[h] = "open"
  /\ SetHandle(h, "cleaning")
  /\ FreeBT_IoIncrement
  /\ UNCHANGED <<pnpVars, openHandleCount, request, wmi>>

FreeBT_DispatchClean_Done(h) ==
  /\ handle[h] = "cleaning"
  /\ SetHandle(h, "cleaned")
  /\ FreeBT_IoDecrement
  /\ UNCHANGED <<pnpVars, openHandleCount, request, wmi>>

\* A request that is over: never sent, completed, or completed twice.
Over(r) == request[r] \in {"idle", "twice"}

\* The I/O manager closes a file object once none of its requests is left.
FreeBT_DispatchClose(h) ==
  /\ handle[h] = "cleaned"
  /\ \A r \in Requests : FileOf[r] = h => Over(r)
  /\ SetHandle(h, "closed")
  /\ openHandleCount' = openHandleCount - 1
  /\ UNCHANGED <<pnpVars, countVars, request, wmi>>

-----------------------------------------------------------------------------
(* I/O requests: IRP_MJ_DEVICE_CONTROL, IRP_MJ_READ, IRP_MJ_WRITE.         *)

Below(r) == request[r] \in {"sent", "pending"}   \* the USB stack has its URB
SetRequest(r, s) == request' = [request EXCEPT ![r] = s]
Commands == Requests \ Transfers

\* The dispatch routine has found the device Working; else it fails r.
Admit(r) ==
  /\ request[r] = "idle"
  /\ handle[FileOf[r]] = "open"
  /\ devState = "Working"
  /\ SetRequest(r, "dispatched")
  /\ UNCHANGED <<pnpVars, countVars, openHandleCount, handle, wmi>>

FreeBT_DispatchDevCtrl(r) == r \in Commands /\ Admit(r)
FreeBT_DispatchReadWrite(r) == r \in Transfers /\ Admit(r)

\* The dispatch routine fails r before it is counted or sent: a bad length or
\* code, an empty transfer, no memory for its URB.
FreeBT_DispatchExit(r) ==
  /\ request[r] = "dispatched"
  /\ SetRequest(r, "idle")
  /\ UNCHANGED <<pnpVars, countVars, openHandleCount, handle, wmi>>

\* FreeBT_SendHCICommand, FreeBT_GetHCIEvent: count r, then IoCallDriver.
FreeBT_SendHCICommand_Count(r) ==
  /\ r \in Commands /\ request[r] = "dispatched"
  /\ SetRequest(r, "counted")
  /\ FreeBT_IoIncrement
  /\ UNCHANGED <<pnpVars, openHandleCount, handle, wmi>>

FreeBT_SendHCICommand_Call(r) ==
  /\ request[r] = "counted"
  /\ SetRequest(r, "pending")
  /\ UNCHANGED <<pnpVars, countVars, openHandleCount, handle, wmi>>

\* FreeBT_HCISendCompletion, FreeBT_HCIEventCompletion, FreeBT_ReadCompletion,
\* FreeBT_WriteCompletion of a request that has been counted.
FreeBT_Completion(r) ==
  /\ request[r] = "pending"
  /\ SetRequest(r, "idle")
  /\ FreeBT_IoDecrement
  /\ UNCHANGED <<pnpVars, openHandleCount, handle, wmi>>

\* IoCallDriver returns a failure: the completion routine has run by then,
\* and FreeBT_SendHCICommand decrements and completes r once more.
FreeBT_SendHCICommand_Refused(r) ==
  /\ r \in Failing /\ request[r] = "counted"
  /\ SetRequest(r, "refused")
  /\ FreeBT_IoDecrement
  /\ UNCHANGED <<pnpVars, openHandleCount, handle, wmi>>

\* Bound: r is not issued again after this, so that each request spoils the
\* count at most once.
FreeBT_SendHCICommand_Fails(r) ==
  /\ request[r] = "refused"
  /\ SetRequest(r, "twice")
  /\ FreeBT_IoDecrement
  /\ UNCHANGED <<pnpVars, openHandleCount, handle, wmi>>

\* FreeBT_DispatchRead and FreeBT_DispatchWrite call the driver first...
FreeBT_DispatchReadWrite_Call(r) ==
  /\ r \in Transfers /\ request[r] = "dispatched"
  /\ SetRequest(r, "sent")
  /\ UNCHANGED <<pnpVars, countVars, openHandleCount, handle, wmi>>

\* ... which may complete r, with success or failure, before they count it...
FreeBT_ReadWriteCompletion_Early(r) ==
  /\ request[r] = "sent"
  /\ SetRequest(r, "early")
  /\ FreeBT_IoDecrement
  /\ UNCHANGED <<pnpVars, openHandleCount, handle, wmi>>

\* Faulty variant: the count is raised only for a request still pending.
FreeBT_DispatchReadWrite_Count_IfPending(r) ==
  /\ request[r] \in {"sent", "early"}
  /\ SetRequest(r, IF request[r] = "sent" THEN "pending" ELSE "idle")
  /\ IF request[r] = "sent" THEN FreeBT_IoIncrement ELSE UNCHANGED countVars
  /\ UNCHANGED <<pnpVars, openHandleCount, handle, wmi>>

\* ... and count it afterwards.
FreeBT_DispatchReadWrite_Count(r) ==
  /\ request[r] \in {"sent", "early"}
  /\ SetRequest(r, IF request[r] = "sent" THEN "pending" ELSE "idle")
  /\ FreeBT_IoIncrement
  /\ UNCHANGED <<pnpVars, openHandleCount, handle, wmi>>

\* What the threads inside the dispatch routines still have to do for r.
RequestStep(r) ==
  \/ FreeBT_DispatchExit(r)
  \/ FreeBT_SendHCICommand_Count(r)
  \/ FreeBT_SendHCICommand_Call(r)
  \/ FreeBT_SendHCICommand_Refused(r)
  \/ FreeBT_SendHCICommand_Fails(r)
  \/ FreeBT_DispatchReadWrite_Call(r)
  \/ FreeBT_DispatchReadWrite_Count(r)

Completion(r) == FreeBT_Completion(r) \/ FreeBT_ReadWriteCompletion_Early(r)

-----------------------------------------------------------------------------
(* WMI requests: FreeBT_DispatchSysCtrl, until the driver deregisters.     *)

FreeBT_DispatchSysCtrl_Check ==
  /\ wmi = "idle"
  /\ devState # "Removed"
  /\ wmi' = "checked"
  /\ UNCHANGED <<pnpVars, countVars, openHandleCount, handle, request>>

FreeBT_DispatchSysCtrl_Count ==
  /\ wmi = "checked"
  /\ wmi' = "counted"
  /\ FreeBT_IoIncrement
  /\ UNCHANGED <<pnpVars, openHandleCount, handle, request>>

FreeBT_DispatchSysCtrl_Done ==
  /\ wmi = "counted"
  /\ wmi' = "idle"
  /\ FreeBT_IoDecrement
  /\ UNCHANGED <<pnpVars, openHandleCount, handle, request>>

WmiStep == FreeBT_DispatchSysCtrl_Count \/ FreeBT_DispatchSysCtrl_Done

-----------------------------------------------------------------------------
(* Plug and play: IRP_MJ_PNP, one request at a time.                       *)

At(irp, pc) == pnp = [irp |-> irp, pc |-> pc]
GoTo(pc) == pnp' = [pnp EXCEPT !.pc = pc]
Answered == pnp' = [irp |-> "none", pc |-> "idle"]
NewPnpState(s) == prevDevState' = devState /\ devState' = s

\* The requests the PnP manager sends a device in each state; REMOVE it
\* sends only when every file object has been closed.
MaySend(irp) ==
  CASE irp = "START" -> devState \in {"NotStarted", "Stopped"}
    [] irp = "QUERY_STOP" -> devState = "Working"
    [] irp = "STOP" -> devState = "PendingStop"
    [] irp = "CANCEL_STOP" -> devState \in {"Working", "PendingStop"}
    [] irp = "QUERY_REMOVE" -> devState \in {"NotStarted", "Working", "Stopped"}
    [] irp = "CANCEL_REMOVE" -> devState \in {"Working", "PendingRemove"}
    [] irp = "SURPRISE_REMOVAL" ->
         devState \in {"Working", "Stopped", "PendingStop", "PendingRemove"}
    [] irp = "REMOVE" ->
         /\ devState \in {"NotStarted", "Stopped", "PendingRemove", "SurpriseRemoved"}
         /\ \A h \in Handles : handle[h] = "closed"
    [] OTHER -> TRUE

FreeBT_DispatchPnP(irp) ==
  /\ At("none", "idle")
  /\ devState # "Removed"
  /\ MaySend(irp)
  /\ pnp' = [irp |-> irp, pc |-> "entered"]
  /\ FreeBT_IoIncrement
  /\ UNCHANGED <<devState, prevDevState, queueState, usbInterface, ioVars>>

\* The handlers that leave completing the request to FreeBT_DispatchPnP.
FreeBT_DispatchPnP_Done ==
  /\ pnp.pc = "handled"
  /\ Answered
  /\ FreeBT_IoDecrement
  /\ UNCHANGED <<devState, prevDevState, queueState, usbInterface, ioVars>>

\* HandleQueryCapabilities, and the default case, which passes irp down.
HandleOther ==
  /\ At("OTHER", "entered")
  /\ GoTo("handled")
  /\ UNCHANGED <<devState, prevDevState, queueState, usbInterface, countVars, ioVars>>

\* HandleStartDevice: the lower drivers start first...
HandleStartDevice_Send ==
  /\ At("START", "entered")
  /\ GoTo("starting")
  /\ usbInterface' = FALSE
  /\ UNCHANGED <<devState, prevDevState, queueState, countVars, ioVars>>

\* ... they, the descriptors or the device interface may fail...
HandleStartDevice_Fail ==
  /\ At("START", "starting")
  /\ GoTo("handled")
  /\ usbInterface' \in BOOLEAN
  /\ UNCHANGED <<devState, prevDevState, queueState, countVars, ioVars>>

\* ... else the interface is selected and the device becomes Working.
HandleStartDevice_Work ==
  /\ At("START", "starting")
  /\ GoTo("handled")
  /\ usbInterface' = TRUE
  /\ NewPnpState("Working")
  /\ queueState' = "AllowRequests"
  /\ UNCHANGED <<countVars, ioVars>>

\* HandleQueryStopDevice, HandleQueryRemoveDevice: shut the door, ...
HandleQuery_Hold ==
  /\ \/ At("QUERY_STOP", "entered") /\ NewPnpState("PendingStop")
     \/ At("QUERY_REMOVE", "entered") /\ NewPnpState("PendingRemove")
  /\ GoTo("holding")
  /\ queueState' = "HoldRequests"
  /\ UNCHANGED <<usbInterface, countVars, ioVars>>

\* ... give up this request's own count, ...
HandleQuery_Release ==
  /\ pnp.irp \in Queries /\ pnp.pc = "holding"
  /\ GoTo("released")
  /\ FreeBT_IoDecrement
  /\ UNCHANGED <<devState, prevDevState, queueState, usbInterface, ioVars>>

\* ... wait for the requests inside ...
HandleQuery_Wait ==
  /\ pnp.irp \in Queries /\ pnp.pc = "released"
  /\ GoTo("waiting")
  /\ KeWaitForStopEvent("pnp")
  /\ UNCHANGED <<devState, prevDevState, queueState, usbInterface, outStandingIO,
                 removeEvent, ioVars>>

\* Faulty variant: the query leaves through the common exit, which decrements.
HandleQuery_Return_Break ==
  /\ pnp.irp \in Queries /\ pnp.pc = "waiting" /\ "pnp" \notin stopWaiters
  /\ GoTo("handled")
  /\ UNCHANGED <<devState, prevDevState, queueState, usbInterface, countVars, ioVars>>

\* ... and pass the query down.
HandleQuery_Return ==
  /\ pnp.irp \in Queries /\ pnp.pc = "waiting" /\ "pnp" \notin stopWaiters
  /\ Answered
  /\ UNCHANGED <<devState, prevDevState, queueState, usbInterface, countVars, ioVars>>

\* RESTORE_PREVIOUS_PNP_STATE and AllowRequests, when the lower drivers have
\* accepted the cancellation.
HandleCancel_Restore ==
  /\ \/ At("CANCEL_STOP", "entered") /\ devState = "PendingStop"
     \/ At("CANCEL_REMOVE", "entered") /\ devState = "PendingRemove"
  /\ GoTo("handled")
  /\ devState' = prevDevState
  /\ queueState' = "AllowRequests"
  /\ UNCHANGED <<prevDevState, usbInterface, countVars, ioVars>>

\* A spurious cancellation, or one the lower drivers refuse.
HandleCancel_Nothing ==
  /\ At("CANCEL_STOP", "entered") \/ At("CANCEL_REMOVE", "entered")
  /\ GoTo("handled")
  /\ UNCHANGED <<devState, prevDevState, queueState, usbInterface, countVars, ioVars>>

HandleStopDevice ==
  /\ At("STOP", "entered")
  /\ GoTo("stopped")
  /\ NewPnpState("Stopped")
  /\ UNCHANGED <<queueState, usbInterface, countVars, ioVars>>

\* ReleaseMemory; DeconfigureDevice; the request is passed down.
HandleStopDevice_Release ==
  /\ At("STOP", "stopped")
  /\ GoTo("handled")
  /\ usbInterface' = FALSE
  /\ UNCHANGED <<devState, prevDevState, queueState, countVars, ioVars>>

HandleSurpriseRemoval ==
  /\ At("SURPRISE_REMOVAL", "entered")
  /\ GoTo("handled")
  /\ NewPnpState("SurpriseRemoved")
  /\ queueState' = "FailRequests"
  /\ UNCHANGED <<usbInterface, countVars, ioVars>>

\* HandleRemoveDevice: fail the requests, unless surprise removal has.
HandleRemoveDevice_Fail ==
  /\ At("REMOVE", "entered")
  /\ GoTo("failing")
  /\ queueState' = IF devState = "SurpriseRemoved" THEN queueState ELSE "FailRequests"
  /\ UNCHANGED <<devState, prevDevState, usbInterface, countVars, ioVars>>

HandleRemoveDevice ==
  /\ At("REMOVE", "failing")
  /\ GoTo("removed")
  /\ NewPnpState("Removed")
  /\ UNCHANGED <<queueState, usbInterface, countVars, ioVars>>

\* Faulty variant: the driver stays registered with WMI.
FreeBT_WmiDeRegistration_Not ==
  /\ At("REMOVE", "removed")
  /\ GoTo("deregistered")
  /\ UNCHANGED <<devState, prevDevState, queueState, usbInterface, countVars, ioVars>>

\* Deregistering waits for the WMI request in progress.
FreeBT_WmiDeRegistration ==
  /\ At("REMOVE", "removed")
  /\ wmi = "idle"
  /\ wmi' = "deregistered"
  /\ GoTo("deregistered")
  /\ UNCHANGED <<devState, prevDevState, queueState, usbInterface, countVars,
                 openHandleCount, handle, request>>

\* Two decrements: this request's own count and the bias.
HandleRemoveDevice_Decrement ==
  /\ \/ At("REMOVE", "deregistered") /\ GoTo("biased")
     \/ At("REMOVE", "biased") /\ GoTo("waiting")
  /\ FreeBT_IoDecrement
  /\ UNCHANGED <<devState, prevDevState, queueState, usbInterface, ioVars>>

\* The RemoveEvent is awaited, the memory freed, the device detached, deleted.
HandleRemoveDevice_Delete ==
  /\ At("REMOVE", "waiting")
  /\ removeEvent
  /\ removeEvent' = FALSE
  /\ usbInterface' = FALSE
  /\ pnp' = [irp |-> "none", pc |-> "deleted"]
  /\ UNCHANGED <<devState, prevDevState, queueState, outStandingIO, stopEvent,
                 stopWaiters, ioVars>>

PnpStep ==
  \/ FreeBT_DispatchPnP_Done
  \/ HandleOther
  \/ HandleStartDevice_Send \/ HandleStartDevice_Fail \/ HandleStartDevice_Work
  \/ HandleQuery_Hold \/ HandleQuery_Release \/ HandleQuery_Wait \/ HandleQuery_Return
  \/ HandleCancel_Restore \/ HandleCancel_Nothing
  \/ HandleStopDevice \/ HandleStopDevice_Release
  \/ HandleSurpriseRemoval
  \/ HandleRemoveDevice_Fail \/ HandleRemoveDevice \/ FreeBT_WmiDeRegistration
  \/ HandleRemoveDevice_Decrement \/ HandleRemoveDevice_Delete

-----------------------------------------------------------------------------
Next ==
  \/ PnpStep
  \/ WmiStep
  \/ FreeBT_DispatchSysCtrl_Check
  \/ \E irp \in PnpIrps : FreeBT_DispatchPnP(irp)
  \/ \E h \in Handles :
       \/ FreeBT_DispatchCreate_Check(h)
       \/ FreeBT_DispatchCreate_Open(h)
       \/ FreeBT_DispatchClean(h)
       \/ FreeBT_DispatchClean_Done(h)
       \/ FreeBT_DispatchClose(h)
  \/ \E r \in Requests :
       \/ FreeBT_DispatchDevCtrl(r)
       \/ FreeBT_DispatchReadWrite(r)
       \/ RequestStep(r)
       \/ Completion(r)

Spec == Init /\ [][Next]_vars

\* Threads inside the driver are scheduled, and the USB stack completes every
\* URB but those that wait for an event of the adapter.
Fairness ==
  /\ WF_vars(PnpStep)
  /\ WF_vars(WmiStep)
  /\ \A h \in Handles : WF_vars(FreeBT_DispatchClean_Done(h))
  /\ \A r \in Requests : WF_vars(RequestStep(r))
  /\ \A r \in Requests \ EventReads : WF_vars(Completion(r))

FairSpec == Spec /\ Fairness

-----------------------------------------------------------------------------
(* Properties.                                                             *)

\* Every variable has its type; who waits for the StopEvent is left to TypeOK.
DriverTypeOK ==
  /\ devState \in DeviceStates /\ prevDevState \in DeviceStates
  /\ queueState \in QueueStates
  /\ usbInterface \in BOOLEAN
  /\ outStandingIO \in Int
  /\ stopEvent \in BOOLEAN /\ removeEvent \in BOOLEAN
  /\ openHandleCount \in Nat
  /\ handle \in [Handles -> {"closed", "checked", "open", "cleaning", "cleaned"}]
  /\ request \in [Requests -> {"idle", "dispatched", "counted", "pending",
                               "refused", "twice", "sent", "early"}]
  /\ wmi \in {"idle", "checked", "counted", "deregistered"}
  /\ pnp \in [irp : PnpIrps \cup {"none"},
              pc : {"idle", "entered", "handled", "starting", "holding",
                    "released", "waiting", "stopped", "failing", "removed",
                    "deregistered", "biased", "deleted"}]

\* Every variable has its type, and only the PnP request waits for the StopEvent.
TypeOK == DriverTypeOK /\ stopWaiters \subseteq {"pnp"}

\* The requests that OutStandingIO counts, those it lacks, and the files
\* being cleaned up.
Counted == {r \in Requests : request[r] \in {"counted", "pending"}}
Lacking == {r \in Requests : request[r] \in {"early", "twice"}}
Cleaning == {h \in Handles : handle[h] = "cleaning"}
Granted == {h \in Handles : handle[h] \in {"open", "cleaning", "cleaned"}}

\* The bias, and the count of the PnP request inside the driver.
PnpCount ==
  CASE pnp.pc \in {"idle", "released", "biased"} -> 1
    [] pnp.pc = "waiting" -> IF pnp.irp = "REMOVE" THEN 0 ELSE 1
    [] pnp.pc = "deleted" -> 0
    [] OTHER -> 2

\* The driver's requests account for all of OutStandingIO but n, and the files
\* open for OpenHandleCount.
CountIs(n) ==
  /\ outStandingIO = n + PnpCount + (IF wmi = "counted" THEN 1 ELSE 0)
                     + Cardinality(Cleaning) + Cardinality(Counted) - Cardinality(Lacking)
  /\ openHandleCount = Cardinality(Granted)

\* OutStandingIO is, at every step of every thread, the bias plus the requests
\* inside the driver, less one for each read or write that has completed before
\* its dispatch routine counted it, and for each command that was refused: the
\* brackets of IoIncrement and IoDecrement match on every path but that one.
\* OpenHandleCount is the number of files open.
CountExact == CountIs(0)

\* No one in the driver: what StopEvent and RemoveEvent are waited for.
NobodyInside == Counted = {} /\ Cleaning = {} /\ wmi # "counted"

\* The wait of a query for the StopEvent is over.
WaitOver == pnp.irp \in Queries /\ pnp.pc = "waiting" /\ "pnp" \notin stopWaiters

\* HandleQueryStopDevice and HandleQueryRemoveDevice "wait for the existing ones
\* to be finished": when the wait ends, no other request is in the driver.
WaitEndsIdle == [][~WaitOver /\ WaitOver' => NobodyInside']_vars

\* Once the device object is deleted no thread of the driver touches its
\* extension again or sends a URB down from it.
NothingAfterDelete == [][pnp.pc = "deleted" => UNCHANGED vars]_vars

\* ASSERT(Removed == DeviceState) of FreeBT_IoDecrement (fbtpnp.c:1754).
AssertRemoved == [][outStandingIO' = 0 /\ outStandingIO # 0 => devState = "Removed"]_vars

\* The driver's other assertions: requestCount > 0 after the first decrement of
\* HandleRemoveDevice (fbtpnp.c:1185), Working after a cancelled stop (:836).
AssertsHold ==
  /\ AssertRemoved
  /\ [][pnp'.pc = "biased" /\ pnp.pc # "biased" => outStandingIO' > 0]_vars
  /\ [][devState = "PendingStop" /\ pnp.irp = "CANCEL_STOP" /\ devState' # devState
          => devState' = "Working"]_vars

\* "after the stop Irp is sent to the lower driver object, the driver must not
\* send any more Irps down that touch the device until another Start has
\* occurred" (fbtpnp.c:897).
StopMeansNoIo ==
  [][(\E r \in Requests : ~Below(r) /\ Below(r)')
       => ~(devState = "Stopped" /\ pnp.irp \notin {"STOP", "START"})]_vars

\* Every PnP request is answered in the end, unless an event read stays in the
\* USB stack for ever: the queries wait for it like for any request.
PnpIsAnswered ==
  \/ []<>(pnp.irp = "none")
  \/ <>[](\E r \in EventReads : request[r] = "pending")
=============================================================================
