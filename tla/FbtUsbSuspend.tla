----------------------------- MODULE FbtUsbSuspend -----------------------------
(***************************************************************************)
(* The FreeBT USB driver: selective suspend of an idle adapter.            *)
(*                                                                         *)
(* A timer finds the device idle, a work item sends an idle request to the *)
(* USB hub driver, which calls back when the device may be powered down.   *)
(* An application that opens the device, or a PnP request, cancels the     *)
(* idle request; its completion routine powers the device up again.        *)
(*                                                                         *)
(* The I/O count and its StopEvent are those of FbtUsbPnp.  The device has *)
(* one file object with one request at a time, and of the PnP requests     *)
(* those that stop, start or take it away.  Wait-wake is off, and so are   *)
(* system power changes (FbtUsbPower).                                     *)
(***************************************************************************)
EXTENDS Integers

CONSTANTS
  Irps,       (* memory for idle requests                                   *)
  NoIrp,      (* NULL                                                       *)
  HubWaits,   (* the hub returns an idle request only between callbacks     *)
  MaxLeaks,   (* bound: how often PoRequestPowerIrp may fail                *)
  PnpSent     (* the PnP requests that are sent                             *)

PnpIrps == {"START", "QUERY_STOP", "CANCEL_STOP", "STOP", "SURPRISE_REMOVAL", "OTHER"}

ASSUME SuspendAssumption ==
  NoIrp \notin Irps /\ HubWaits \in BOOLEAN /\ MaxLeaks \in Nat /\ PnpSent \subseteq PnpIrps

VARIABLES
  devState,             (* DeviceState                                      *)
  pnp,                  (* the PnP request and the step of its handler      *)
  handle, request,      (* the file object, its request                     *)
  outStandingIO, stopEvent, stopWaiters, removeEvent,   (* as in FbtUsbPnp  *)
  ssEnable, timer,      (* SSEnable; Timer is armed                         *)
  dpc,                  (* DpcRoutine is queued, the timer having expired   *)
  noDpcWorkItemPending, (* NoDpcWorkItemPendingEvent is signalled           *)
  noIdleReqPend,        (* NoIdleReqPendEvent is signalled                  *)
  idleReqPend,          (* IdleReqPend                                      *)
  pendingIdleIrp,       (* PendingIdleIrp                                   *)
  freeIdleIrpCount,     (* FreeIdleIrpCount                                 *)
  worker,               (* IdleRequestWorkerRoutine: its step and its irp   *)
  canceller,            (* CancelSelectSuspend in two threads               *)
  completion,           (* IdleNotificationRequestComplete of each irp      *)
  allocated,            (* idle requests whose memory is not freed          *)
  below, cancelled,     (* those the hub has, those that were cancelled     *)
  callback,             (* IdleNotificationCallback                         *)
  devPower,             (* DevPower                                         *)
  power,                (* the device power IRP in the driver               *)
  requested,            (* power IRPs requested and not yet delivered       *)
  leaked                (* counts taken for a power IRP that was refused    *)

P == INSTANCE FbtUsbPnp WITH
       Requests <- {}, Transfers <- {}, EventReads <- {}, Failing <- {},
       Handles <- {}, FileOf <- [r \in {} |-> r],
       prevDevState <- "Working", queueState <- "AllowRequests",
       usbInterface <- TRUE, openHandleCount <- 0, wmi <- "idle"

countVars == <<outStandingIO, stopEvent, stopWaiters, removeEvent>>
appVars == <<handle, request>>
pnpVars == <<devState, pnp>>
timerVars == <<ssEnable, timer, dpc, noDpcWorkItemPending>>
idleVars == <<noIdleReqPend, idleReqPend, pendingIdleIrp, freeIdleIrpCount>>
irpVars == <<allocated, below, cancelled>>
threadVars == <<worker, canceller, completion>>
powerVars == <<callback, devPower, power, requested, leaked>>
vars == <<countVars, appVars, pnpVars, timerVars, idleVars, irpVars, threadVars, powerVars>>

Idle == [pc |-> "none", irp |-> NoIrp]
NoPowerIrp == [to |-> "none", pc |-> "none"]

\* FreeBT_AddDevice, and HandleStartDevice with selective suspend enabled.
Init ==
  /\ devState = "Working" /\ pnp = [irp |-> "none", pc |-> "idle"]
  /\ handle = "closed" /\ request = "none"
  /\ outStandingIO = 1 /\ stopEvent = TRUE /\ stopWaiters = {} /\ removeEvent = FALSE
  /\ ssEnable = TRUE /\ timer = TRUE /\ dpc = FALSE /\ noDpcWorkItemPending = TRUE
  /\ noIdleReqPend = TRUE /\ idleReqPend = FALSE /\ pendingIdleIrp = NoIrp
  /\ freeIdleIrpCount = 0
  /\ worker = Idle
  /\ canceller = [t \in {"create", "pnp"} |-> Idle]
  /\ completion = [i \in Irps |-> "none"]
  /\ allocated = {} /\ below = {} /\ cancelled = {}
  /\ callback = "none" /\ devPower = "D0" /\ power = NoPowerIrp
  /\ requested = [D0 |-> 0, D2 |-> 0]
  /\ leaked = 0

CanDeviceSuspend == handle = "closed" /\ outStandingIO = 1

-----------------------------------------------------------------------------
(* The timer and the work item.                                            *)

Timer_Expires ==
  /\ timer /\ ~dpc
  /\ dpc' = TRUE
  /\ UNCHANGED <<countVars, appVars, pnpVars, ssEnable, timer, noDpcWorkItemPending, idleVars,
                 irpVars, threadVars, powerVars>>

\* DpcRoutine finds the device idle and queues a work item.  Bound: one work
\* item at a time.
DpcRoutine_Idle ==
  /\ dpc /\ dpc' = FALSE
  /\ CanDeviceSuspend /\ worker.pc = "none"
  /\ noDpcWorkItemPending' = FALSE
  /\ worker' = [worker EXCEPT !.pc = "queued"]
  /\ UNCHANGED <<countVars, appVars, pnpVars, ssEnable, timer, idleVars, irpVars,
                 canceller, completion, powerVars>>

\* DpcRoutine finds the device busy, or no memory for the work item.
DpcRoutine_Busy ==
  /\ dpc /\ dpc' = FALSE
  /\ noDpcWorkItemPending' = TRUE
  /\ UNCHANGED <<countVars, appVars, pnpVars, ssEnable, timer, idleVars, irpVars,
                 threadVars, powerVars>>

WorkerGoTo(pc) == worker' = [worker EXCEPT !.pc = pc]
WorkItemEnds == worker' = Idle /\ noDpcWorkItemPending' = TRUE

FreeMemory == {i \in Irps \ allocated : completion[i] = "none"}

\* IdleRequestWorkerRoutine and SubmitIdleRequestIrp find the device idle, in
\* D0, or not.
IdleRequestWorkerRoutine ==
  /\ worker.pc = "queued"
  /\ IF CanDeviceSuspend /\ devPower = "D0"
       THEN WorkerGoTo("submit") /\ UNCHANGED noDpcWorkItemPending
       ELSE WorkItemEnds
  /\ UNCHANGED <<countVars, appVars, pnpVars, ssEnable, timer, dpc, idleVars, irpVars,
                 canceller, completion, powerVars>>

\* SubmitIdleRequestIrp, under IdleReqStateLock: a request is pending already, ...
SubmitIdleRequestIrp_Busy ==
  /\ worker.pc = "submit" /\ idleReqPend
  /\ WorkItemEnds
  /\ UNCHANGED <<countVars, appVars, pnpVars, ssEnable, timer, dpc, idleVars, irpVars,
                 canceller, completion, powerVars>>

\* ... there is no memory for it, ...
SubmitIdleRequestIrp_NoMemory ==
  /\ worker.pc = "submit" /\ ~idleReqPend
  /\ WorkItemEnds
  /\ noIdleReqPend' = TRUE
  /\ UNCHANGED <<countVars, appVars, pnpVars, ssEnable, timer, dpc, idleReqPend,
                 pendingIdleIrp, freeIdleIrpCount, irpVars, canceller, completion, powerVars>>

\* Faulty variant: those who may free the request are added to the count.
SubmitIdleRequestIrp_Prepare_Add ==
  /\ worker.pc = "submit" /\ ~idleReqPend
  /\ FreeMemory # {}
  /\ idleReqPend' = TRUE /\ noIdleReqPend' = FALSE
  /\ LET i == CHOOSE j \in FreeMemory : TRUE IN
       /\ allocated' = allocated \cup {i}
       /\ pendingIdleIrp' = i
       /\ worker' = [pc |-> "recheck", irp |-> i]
  /\ freeIdleIrpCount' = freeIdleIrpCount + 2
  /\ UNCHANGED <<countVars, appVars, pnpVars, timerVars, below, cancelled, canceller,
                 completion, powerVars>>

\* ... or the idle request is prepared.  Which memory it gets does not matter.
SubmitIdleRequestIrp_Prepare ==
  /\ worker.pc = "submit" /\ ~idleReqPend
  /\ FreeMemory # {}
  /\ idleReqPend' = TRUE /\ noIdleReqPend' = FALSE
  /\ LET i == CHOOSE j \in FreeMemory : TRUE IN
       /\ allocated' = allocated \cup {i}
       /\ pendingIdleIrp' = i
       /\ worker' = [pc |-> "recheck", irp |-> i]
  /\ freeIdleIrpCount' = 2
  /\ UNCHANGED <<countVars, appVars, pnpVars, timerVars, below, cancelled, canceller,
                 completion, powerVars>>

\* Faulty variant: the device is not tested again.
SubmitIdleRequestIrp_Recheck_Not ==
  /\ worker.pc = "recheck"
  /\ WorkerGoTo("call") /\ timer' = FALSE
  /\ UNCHANGED <<countVars, appVars, pnpVars, ssEnable, dpc, noDpcWorkItemPending, idleVars,
                 irpVars, canceller, completion, powerVars>>

\* "A check here ensures that a race condition did not completely reverse the
\* call sequence of SubmitIdleRequestIrp and CancelSelectiveSuspend."
SubmitIdleRequestIrp_Recheck ==
  /\ worker.pc = "recheck"
  /\ IF CanDeviceSuspend /\ devPower = "D0"
       THEN WorkerGoTo("call") /\ timer' = FALSE
       ELSE WorkerGoTo("fail") /\ UNCHANGED timer
  /\ UNCHANGED <<countVars, appVars, pnpVars, ssEnable, dpc, noDpcWorkItemPending, idleVars,
                 irpVars, canceller, completion, powerVars>>

\* It is not idle: the request is withdrawn under the lock...
SubmitIdleRequestIrp_Withdraw ==
  /\ worker.pc = "fail"
  /\ WorkerGoTo("free")
  /\ pendingIdleIrp' = NoIrp
  /\ noIdleReqPend' = TRUE /\ idleReqPend' = FALSE
  /\ UNCHANGED <<countVars, appVars, pnpVars, timerVars, freeIdleIrpCount, irpVars,
                 canceller, completion, powerVars>>

\* ... and freed, whoever else has it.
SubmitIdleRequestIrp_Free ==
  /\ worker.pc = "free"
  /\ WorkItemEnds
  /\ allocated' = allocated \ {worker.irp} /\ cancelled' = cancelled \ {worker.irp}
  /\ UNCHANGED <<countVars, appVars, pnpVars, ssEnable, timer, dpc, idleVars, below, canceller,
                 completion, powerVars>>

SubmitIdleRequestIrp_Call ==
  /\ worker.pc = "call"
  /\ WorkItemEnds
  /\ below' = below \cup {worker.irp}
  /\ UNCHANGED <<countVars, appVars, pnpVars, ssEnable, timer, dpc, idleVars, allocated,
                 cancelled, canceller, completion, powerVars>>

WorkerStep ==
  \/ IdleRequestWorkerRoutine
  \/ SubmitIdleRequestIrp_Busy \/ SubmitIdleRequestIrp_NoMemory
  \/ SubmitIdleRequestIrp_Prepare \/ SubmitIdleRequestIrp_Recheck
  \/ SubmitIdleRequestIrp_Withdraw \/ SubmitIdleRequestIrp_Free
  \/ SubmitIdleRequestIrp_Call

-----------------------------------------------------------------------------
(* CancelSelectSuspend, in the thread t of an open or of a PnP request.    *)

CancellerGoTo(t, pc) == canceller' = [canceller EXCEPT ![t].pc = pc]
CancellerDone(t) == canceller' = [canceller EXCEPT ![t] = Idle]

\* Faulty variant: the canceller takes the request for gone.
CancelSelectSuspend_Grab_NotPending(t) ==
  /\ canceller[t].pc = "enter"
  /\ IF CanDeviceSuspend \/ pendingIdleIrp = NoIrp
       THEN CancellerDone(t) /\ UNCHANGED <<pendingIdleIrp, idleReqPend>>
       ELSE /\ canceller' = [canceller EXCEPT ![t] = [pc |-> "grabbed", irp |-> pendingIdleIrp]]
            /\ pendingIdleIrp' = NoIrp /\ idleReqPend' = FALSE
  /\ UNCHANGED <<countVars, appVars, pnpVars, timerVars, noIdleReqPend, freeIdleIrpCount,
                 irpVars, worker, completion, powerVars>>

CancelSelectSuspend_Grab(t) ==
  /\ canceller[t].pc = "enter"
  /\ IF CanDeviceSuspend \/ pendingIdleIrp = NoIrp
       THEN CancellerDone(t) /\ UNCHANGED pendingIdleIrp
       ELSE /\ canceller' = [canceller EXCEPT ![t] = [pc |-> "grabbed", irp |-> pendingIdleIrp]]
            /\ pendingIdleIrp' = NoIrp
  /\ UNCHANGED <<countVars, appVars, pnpVars, timerVars, noIdleReqPend, idleReqPend,
                 freeIdleIrpCount, irpVars, worker, completion, powerVars>>

\* IoCancelIrp, which finds the request still on its way, or not.
IoCancelIrp(t) ==
  /\ canceller[t].pc = "grabbed"
  /\ CancellerGoTo(t, "cancelled")
  /\ cancelled' = cancelled \cup {i \in allocated \cap {canceller[t].irp} :
                                    completion[i] \in {"none", "called"}}
  /\ UNCHANGED <<countVars, appVars, pnpVars, timerVars, idleVars, allocated, below, worker,
                 completion, powerVars>>

\* The last of the canceller and the completion routine frees the request.
FreeIdleIrp(i) ==
  /\ freeIdleIrpCount' = freeIdleIrpCount - 1
  /\ IF freeIdleIrpCount' = 0
       THEN allocated' = allocated \ {i} /\ noIdleReqPend' = TRUE
       ELSE UNCHANGED <<allocated, noIdleReqPend>>

CancelSelectSuspend_Free(t) ==
  /\ canceller[t].pc = "cancelled"
  /\ CancellerDone(t)
  /\ FreeIdleIrp(canceller[t].irp)
  /\ UNCHANGED <<countVars, appVars, pnpVars, timerVars, idleReqPend, pendingIdleIrp,
                 below, cancelled, worker, completion, powerVars>>

CancelSelectSuspend(t) ==
  CancelSelectSuspend_Grab(t) \/ IoCancelIrp(t) \/ CancelSelectSuspend_Free(t)

-----------------------------------------------------------------------------
(* The hub returns the idle request: IdleNotificationRequestComplete.      *)

CompletionGoTo(i, pc) == completion' = [completion EXCEPT ![i] = pc]

\* Cancelled or refused; or quietly: done, not supported, system going down.
Hub_Return(i) ==
  /\ i \in below
  /\ HubWaits => callback = "none"
  /\ below' = below \ {i} /\ cancelled' = cancelled \ {i}
  /\ \E pc \in {"error", "quiet"} : (i \in cancelled => pc = "error") /\ CompletionGoTo(i, pc)
  /\ UNCHANGED <<countVars, appVars, pnpVars, timerVars, idleVars, allocated, worker,
                 canceller, powerVars>>

\* "If in error, issue a SetD0."
IdleNotificationRequestComplete_PowerUp(i) ==
  /\ completion[i] = "error"
  /\ CompletionGoTo(i, "quiet")
  /\ P!FreeBT_IoIncrement
  /\ \/ requested' = [requested EXCEPT !["D0"] = @ + 1] /\ UNCHANGED leaked
     \/ leaked < MaxLeaks /\ leaked' = leaked + 1 /\ UNCHANGED requested
  /\ UNCHANGED <<appVars, pnpVars, timerVars, idleVars, irpVars, worker, canceller,
                 callback, devPower, power>>

IdleNotificationRequestComplete_Lock(i) ==
  /\ completion[i] = "quiet"
  /\ CompletionGoTo(i, IF pendingIdleIrp = NoIrp THEN "shared" ELSE "own")
  /\ pendingIdleIrp' = NoIrp /\ idleReqPend' = FALSE
  /\ UNCHANGED <<countVars, appVars, pnpVars, timerVars, noIdleReqPend, freeIdleIrpCount,
                 irpVars, worker, canceller, powerVars>>

\* Then SSEnable says whether the timer is to be armed...
IdleNotificationRequestComplete_Free(i) ==
  /\ \/ /\ completion[i] = "own"
        /\ allocated' = allocated \ {i} /\ noIdleReqPend' = TRUE
        /\ UNCHANGED freeIdleIrpCount
     \/ completion[i] = "shared" /\ FreeIdleIrp(i)
  /\ CompletionGoTo(i, IF ssEnable THEN "arm" ELSE "none")
  /\ UNCHANGED <<countVars, appVars, pnpVars, timerVars, idleReqPend, pendingIdleIrp,
                 below, cancelled, worker, canceller, powerVars>>

\* ... and armed.
IdleNotificationRequestComplete_Arm(i) ==
  /\ completion[i] = "arm"
  /\ CompletionGoTo(i, "none")
  /\ timer' = TRUE
  /\ UNCHANGED <<countVars, appVars, pnpVars, ssEnable, dpc, noDpcWorkItemPending, idleVars,
                 irpVars, worker, canceller, powerVars>>

IdleNotificationRequestComplete(i) ==
  \/ IdleNotificationRequestComplete_PowerUp(i) \/ IdleNotificationRequestComplete_Lock(i)
  \/ IdleNotificationRequestComplete_Free(i) \/ IdleNotificationRequestComplete_Arm(i)

-----------------------------------------------------------------------------
(* The hub finds the port idle: IdleNotificationCallback.                  *)

PowerGoTo(pc) == power' = [power EXCEPT !.pc = pc]

\* Once for a request, and not for a cancelled one.
IdleNotificationCallback(i) ==
  /\ i \in below \ cancelled /\ completion[i] = "none" /\ callback = "none"
  /\ CompletionGoTo(i, "called")
  /\ callback' = IF devState = "Working" THEN "entered" ELSE "none"
  /\ UNCHANGED <<countVars, appVars, pnpVars, timerVars, idleVars, irpVars, worker, canceller,
                 devPower, power, requested, leaked>>

IdleNotificationCallback_NoMemory ==
  /\ callback = "entered" /\ callback' = "none"
  /\ UNCHANGED <<countVars, appVars, pnpVars, timerVars, idleVars, irpVars, threadVars,
                 devPower, power, requested, leaked>>

\* "An increment here compensates for the system irp."
IdleNotificationCallback_PowerDown ==
  /\ callback = "entered"
  /\ P!FreeBT_IoIncrement
  /\ \/ /\ callback' = "waiting" /\ requested' = [requested EXCEPT !["D2"] = @ + 1]
        /\ UNCHANGED leaked
     \/ /\ leaked < MaxLeaks /\ leaked' = leaked + 1 /\ callback' = "none"
        /\ UNCHANGED requested
  /\ UNCHANGED <<appVars, pnpVars, timerVars, idleVars, irpVars, threadVars, devPower, power>>

CallbackStep == IdleNotificationCallback_NoMemory \/ IdleNotificationCallback_PowerDown

-----------------------------------------------------------------------------
(* The device power IRPs, which the power manager sends one at a time, as  *)
(* in FbtUsbPower.                                                         *)

powerAlone == <<appVars, pnpVars, timerVars, idleVars, irpVars, threadVars>>

\* FreeBT_DispatchPower counts it, HandleDeviceSetPower holds it or not.
FreeBT_DispatchPower(to) ==
  /\ power.pc = "none" /\ requested[to] > 0
  /\ requested' = [requested EXCEPT ![to] = @ - 1]
  /\ power' = [to |-> to, pc |-> IF to = "D2" /\ devPower = "D0" THEN "held" ELSE "down"]
  /\ P!FreeBT_IoIncrement
  /\ UNCHANGED <<powerAlone, callback, devPower, leaked>>

\* HoldIoRequests finds no memory.
HoldIoRequests_Failed ==
  /\ power.pc = "held"
  /\ PowerGoTo("completed")
  /\ P!FreeBT_IoDecrement
  /\ UNCHANGED <<powerAlone, callback, devPower, requested, leaked>>

\* HoldIoRequestsWorkerRoutine.
Worker_Release ==
  /\ \/ power.pc = "held" /\ PowerGoTo("releasing")
     \/ power.pc = "releasing" /\ PowerGoTo("released")
  /\ P!FreeBT_IoDecrement
  /\ UNCHANGED <<powerAlone, callback, devPower, requested, leaked>>

Worker_Wait ==
  /\ power.pc = "released"
  /\ PowerGoTo("waiting")
  /\ P!KeWaitForStopEvent("worker")
  /\ UNCHANGED <<powerAlone, outStandingIO, removeEvent, callback, devPower, requested, leaked>>

Worker_Restore ==
  /\ \/ power.pc = "waiting" /\ "worker" \notin stopWaiters /\ PowerGoTo("restoring")
     \/ power.pc = "restoring" /\ PowerGoTo("down")
  /\ P!FreeBT_IoIncrement
  /\ UNCHANGED <<powerAlone, callback, devPower, requested, leaked>>

\* FinishDevPoDnIrp, FinishDevPoUpIrp, with the status of the lower drivers.
FinishDevPoIrp ==
  /\ power.pc = "down"
  /\ PowerGoTo("completed")
  /\ devPower' \in {devPower, power.to}
  /\ P!FreeBT_IoDecrement
  /\ UNCHANGED <<powerAlone, callback, requested, leaked>>

PoIrpCompletionFunc ==
  /\ power = [to |-> "D2", pc |-> "completed"] /\ power' = NoPowerIrp
  /\ callback' = "none"
  /\ P!FreeBT_IoDecrement
  /\ UNCHANGED <<powerAlone, devPower, requested, leaked>>

\* Faulty variant: the count of the request for power is kept.
PoIrpAsyncCompletionFunc_NoDecrement ==
  /\ power = [to |-> "D0", pc |-> "completed"] /\ power' = NoPowerIrp
  /\ UNCHANGED <<powerAlone, countVars, callback, devPower, requested, leaked>>

PoIrpAsyncCompletionFunc ==
  /\ power = [to |-> "D0", pc |-> "completed"] /\ power' = NoPowerIrp
  /\ P!FreeBT_IoDecrement
  /\ UNCHANGED <<powerAlone, callback, devPower, requested, leaked>>

PowerStep ==
  \/ \E to \in {"D0", "D2"} : FreeBT_DispatchPower(to)
  \/ HoldIoRequests_Failed
  \/ Worker_Release \/ Worker_Wait \/ Worker_Restore
  \/ FinishDevPoIrp \/ PoIrpCompletionFunc \/ PoIrpAsyncCompletionFunc

-----------------------------------------------------------------------------
(* The application: the file object and its request.                       *)

driverAlone == <<timerVars, idleVars, irpVars, worker, completion, powerVars>>

\* FreeBT_DispatchCreate counts the handle; it is open once the idle request
\* is cancelled.
FreeBT_DispatchCreate ==
  /\ handle = "closed" /\ devState = "Working"
  /\ handle' = "open"
  /\ canceller' = IF ssEnable THEN [canceller EXCEPT !["create"].pc = "enter"] ELSE canceller
  /\ UNCHANGED <<countVars, request, pnpVars, driverAlone>>

Usable == handle = "open" /\ canceller["create"].pc = "none"

\* Faulty variant: the event is set whatever the count.
FreeBT_DispatchClose_Set ==
  /\ Usable /\ request = "none"
  /\ handle' = "closed"
  /\ P!KeSetStopEvent
  /\ UNCHANGED <<outStandingIO, removeEvent, request, pnpVars, canceller, driverAlone>>

\* FreeBT_DispatchClean, which is counted for a while, and FreeBT_DispatchClose.
FreeBT_DispatchClose ==
  /\ Usable /\ request = "none"
  /\ handle' = "closed"
  /\ IF outStandingIO = 1 THEN P!KeSetStopEvent ELSE UNCHANGED <<stopEvent, stopWaiters>>
  /\ UNCHANGED <<outStandingIO, removeEvent, request, pnpVars, canceller, driverAlone>>

SetRequest(from, to) == request = from /\ request' = to

\* FreeBT_DispatchDevCtrl, FreeBT_DispatchRead, FreeBT_DispatchWrite.
Admit ==
  /\ Usable /\ devState = "Working"
  /\ SetRequest("none", "waiting")
  /\ UNCHANGED <<countVars, handle, pnpVars, canceller, driverAlone>>

\* "Make sure that any selective suspend request has been completed"; if so,
\* the request is counted and sent.  (The code tests SSEnable once, before it
\* waits: a stop that clears it meanwhile lets more requests through here.)
Request_Count ==
  /\ noIdleReqPend \/ ~ssEnable
  /\ SetRequest("waiting", "counted")
  /\ P!FreeBT_IoIncrement
  /\ UNCHANGED <<handle, pnpVars, canceller, driverAlone>>

Request_Complete ==
  /\ SetRequest("counted", "none")
  /\ P!FreeBT_IoDecrement
  /\ UNCHANGED <<handle, pnpVars, canceller, driverAlone>>

RequestStep == Request_Count \/ Request_Complete

-----------------------------------------------------------------------------
(* Plug and play.                                                          *)

MaySend(irp) ==
  CASE irp = "QUERY_STOP" -> devState = "Working"
    [] irp \in {"STOP", "CANCEL_STOP"} -> devState = "PendingStop"
    [] irp = "START" -> devState = "Stopped"
    [] irp = "SURPRISE_REMOVAL" -> devState # "SurpriseRemoved"
    [] OTHER -> TRUE

pnpAlone == <<appVars, idleVars, irpVars, worker, completion, powerVars>>

FreeBT_DispatchPnP(irp) ==
  /\ P!At("none", "idle") /\ MaySend(irp)
  /\ pnp' = [irp |-> irp, pc |-> "entered"]
  /\ canceller' = IF irp # "START" /\ ssEnable
                    THEN [canceller EXCEPT !["pnp"].pc = "enter"] ELSE canceller
  /\ P!FreeBT_IoIncrement
  /\ UNCHANGED <<devState, timerVars, pnpAlone>>

\* CancelSelectSuspend, if it was called, has returned.
Handling(irp) == P!At(irp, "entered") /\ canceller["pnp"].pc = "none"

\* FreeBT_DispatchPnP completes what the handler does not.
FreeBT_DispatchPnP_Done == P!Answered /\ P!FreeBT_IoDecrement

HandleStartDevice ==
  /\ Handling("START") /\ FreeBT_DispatchPnP_Done
  /\ devState' = "Working"
  /\ ssEnable' = TRUE /\ timer' = TRUE /\ freeIdleIrpCount' = 0
  /\ UNCHANGED <<appVars, dpc, noDpcWorkItemPending, noIdleReqPend, idleReqPend,
                 pendingIdleIrp, irpVars, threadVars, powerVars>>

HandleQueryStopDevice ==
  /\ Handling("QUERY_STOP") /\ P!GoTo("waiting")
  /\ devState' = "PendingStop"
  /\ P!FreeBT_IoDecrement
  /\ UNCHANGED <<timerVars, canceller, pnpAlone>>

HandleQueryStopDevice_Wait ==
  /\ P!At("QUERY_STOP", "waiting") /\ P!GoTo("blocked")
  /\ P!KeWaitForStopEvent("pnp")
  /\ UNCHANGED <<outStandingIO, removeEvent, devState, timerVars, canceller, pnpAlone>>

HandleQueryStopDevice_Done ==
  /\ P!At("QUERY_STOP", "blocked") /\ "pnp" \notin stopWaiters
  /\ P!Answered
  /\ UNCHANGED <<countVars, devState, timerVars, canceller, pnpAlone>>

HandleCancelStopDevice ==
  /\ Handling("CANCEL_STOP") /\ FreeBT_DispatchPnP_Done
  /\ devState' = "Working"
  /\ UNCHANGED <<timerVars, canceller, pnpAlone>>

HandleOther ==
  /\ Handling("OTHER") /\ FreeBT_DispatchPnP_Done
  /\ UNCHANGED <<devState, timerVars, canceller, pnpAlone>>

\* HandleStopDevice and HandleSurpriseRemoval end selective suspend: "cancel
\* the timer so that the DPCs are no longer fired", ...
StopSelectSuspend_Timer ==
  /\ Handling("STOP") \/ Handling("SURPRISE_REMOVAL")
  /\ P!GoTo(IF ssEnable THEN "dpcs" ELSE "stopping")
  /\ IF ssEnable THEN ssEnable' = FALSE /\ timer' = FALSE ELSE UNCHANGED <<ssEnable, timer>>
  /\ UNCHANGED <<countVars, devState, dpc, noDpcWorkItemPending, canceller, pnpAlone>>

\* ... "make sure that if a DPC was fired before we called cancel timer, then
\* the DPC and work-time have run to their completion", ...
StopSelectSuspend_Dpc ==
  /\ pnp.pc = "dpcs" /\ noDpcWorkItemPending
  /\ P!GoTo("idleRequest")
  /\ UNCHANGED <<countVars, devState, timerVars, canceller, pnpAlone>>

\* ... "make sure that the selective suspend request has been completed".
StopSelectSuspend_IdleRequest ==
  /\ pnp.pc = "idleRequest" /\ noIdleReqPend
  /\ P!GoTo("stopping")
  /\ UNCHANGED <<countVars, devState, timerVars, canceller, pnpAlone>>

HandleStopDevice ==
  /\ pnp.pc = "stopping" /\ FreeBT_DispatchPnP_Done
  /\ devState' = IF pnp.irp = "STOP" THEN "Stopped" ELSE "SurpriseRemoved"
  /\ UNCHANGED <<timerVars, canceller, pnpAlone>>

PnpStep ==
  \/ HandleStartDevice
  \/ HandleQueryStopDevice \/ HandleQueryStopDevice_Wait \/ HandleQueryStopDevice_Done
  \/ HandleCancelStopDevice \/ HandleOther
  \/ StopSelectSuspend_Timer \/ StopSelectSuspend_Dpc \/ StopSelectSuspend_IdleRequest
  \/ HandleStopDevice

-----------------------------------------------------------------------------
Next ==
  \/ Timer_Expires \/ DpcRoutine_Idle \/ DpcRoutine_Busy
  \/ WorkerStep
  \/ \E t \in {"create", "pnp"} : CancelSelectSuspend(t)
  \/ \E i \in Irps : \/ IdleNotificationCallback(i) \/ Hub_Return(i)
                     \/ IdleNotificationRequestComplete(i)
  \/ CallbackStep
  \/ PowerStep
  \/ FreeBT_DispatchCreate \/ FreeBT_DispatchClose
  \/ Admit \/ RequestStep
  \/ \E irp \in PnpSent : FreeBT_DispatchPnP(irp)
  \/ PnpStep

Spec == Init /\ [][Next]_vars

\* The system's threads run: its workers with the callback and the power IRPs,
\* which the lower drivers return; the thread of a PnP request; that of the
\* application.  The hub returns a request that was cancelled.
Fairness ==
  /\ WF_vars(WorkerStep \/ CallbackStep \/ PowerStep)
  /\ WF_vars(CancelSelectSuspend("pnp") \/ PnpStep)
  /\ WF_vars(CancelSelectSuspend("create") \/ RequestStep)
  /\ \A i \in Irps : WF_vars(\/ i \in cancelled /\ Hub_Return(i)
                             \/ IdleNotificationRequestComplete(i))

FairSpec == Spec /\ Fairness

-----------------------------------------------------------------------------
(* Properties.                                                             *)

\* Every variable has its type.  FreeIdleIrpCount never stands for more than two
\* owners of the idle request.  It has no lower bound: owners of requests long
\* replaced count down from it as well.
SuspendTypeOK ==
  /\ devState \in {"Working", "PendingStop", "Stopped", "SurpriseRemoved"}
  /\ outStandingIO \in Int /\ stopWaiters \subseteq {"pnp", "worker"}
  /\ {stopEvent, removeEvent, ssEnable, timer, dpc, noDpcWorkItemPending,
      noIdleReqPend, idleReqPend} \subseteq BOOLEAN
  /\ pendingIdleIrp \in Irps \cup {NoIrp}
  /\ freeIdleIrpCount \in Int /\ freeIdleIrpCount <= 2
  /\ allocated \subseteq Irps /\ below \subseteq Irps /\ cancelled \subseteq Irps
  /\ devPower \in {"D0", "D2"} /\ callback \in {"none", "entered", "waiting"}

One(b) == IF b THEN 1 ELSE 0
HeldByPnp ==
  One(pnp.irp # "none" /\ ~(pnp.irp = "QUERY_STOP" /\ pnp.pc \in {"waiting", "blocked"}))
HeldByPower ==
  CASE power.pc \in {"none", "released", "waiting"} -> 0
    [] power.pc \in {"releasing", "restoring", "completed"} -> 1
    [] OTHER -> 2

\* OutStandingIO is exactly what is held: the bias, one for each PnP request
\* and request of an application, one for each power IRP that was asked
\* for until its completion function has run, one for that in the driver but
\* when the worker waits, and those of the power IRPs that were refused, which
\* nobody gives back.
SuspendCountExact ==
  outStandingIO = 1 + HeldByPnp + One(request = "counted")
                    + requested["D0"] + requested["D2"] + leaked + HeldByPower

\* The wait of a query to stop, or of the worker that holds a power IRP, is over.
WaitOver ==
  \/ P!At("QUERY_STOP", "blocked") /\ "pnp" \notin stopWaiters
  \/ power.pc = "waiting" /\ "worker" \notin stopWaiters

\* No request is in the driver, no power IRP was asked for, and there is none
\* in the driver but one whose worker waits or has just waited as well; nor is
\* there a PnP request but a query that waits.
NobodyInside ==
  /\ request # "counted" /\ requested = [D0 |-> 0, D2 |-> 0]
  /\ HeldByPnp = 0 /\ HeldByPower = 0

\* "wait for I/O in progress to finish" (fbtpwr.c:788), with power IRPs that the
\* driver asks for itself: StopEvent is set and cleared by applications, by
\* the callback and the completion of the idle request, by the worker and by
\* PnP requests, but a wait for it ends only when nobody is inside.
SuspendWaitsEndIdle == [][~WaitOver /\ WaitOver' => NobodyInside']_vars

\* IdleReqPend keeps the driver from a second idle request while the hub has
\* the first, in every order of submission, cancellation and completion.
OneIdleRequest ==
  \A i \in below : below = {i} /\ worker.pc # "call"

\* "Make sure that any selective suspend request has been completed"
\* (fbtdev.c:441, fbtrwr.c:55): a request of the application that waits for it
\* is let through in the end, however the submission of an idle request, its
\* cancellation by the open and by PnP requests, the callback that powers the
\* device down and the completion are interleaved.
RequestIsReleased == request = "waiting" ~> request # "waiting"
=============================================================================
