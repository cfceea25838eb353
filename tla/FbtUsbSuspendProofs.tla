-------------------------- MODULE FbtUsbSuspendProofs --------------------------
(***************************************************************************)
(* Proofs about FbtUsbSuspend, whatever memory there is for idle requests, *)
(* however the hub returns them, however often a power IRP is refused and  *)
(* whatever PnP requests are sent: the I/O count stays exact and keeps its *)
(* bias, the hub has at most one idle request, the waits for StopEvent end *)
(* with nobody inside, and the variables keep their types.                 *)
(***************************************************************************)
EXTENDS FbtUsbSuspend, TLAPS

PnpPcs == {"idle", "entered", "waiting", "blocked", "dpcs", "idleRequest", "stopping"}
PowerPcs == {"none", "held", "releasing", "released", "waiting", "restoring", "down", "completed"}

(* What the count is made of has its type, and the steps that only a query *)
(* or only a stop takes are taken by no other request.                     *)
PartsOK ==
  /\ outStandingIO \in Int /\ leaked \in Nat
  /\ requested \in [{"D0", "D2"} -> Nat]
  /\ pnp \in [irp : PnpIrps \cup {"none"}, pc : PnpPcs]
  /\ pnp.irp = "none" <=> pnp.pc = "idle"
  /\ pnp.irp = "QUERY_STOP" => pnp.pc \in {"entered", "waiting", "blocked"}
  /\ request \in {"none", "waiting", "counted"}
  /\ power \in [to : {"none", "D0", "D2"}, pc : PowerPcs]

(* The inductive invariant: SuspendCountExact needs no more than the types *)
(* of its parts.                                                           *)
CountInv == PartsOK /\ SuspendCountExact

LEMMA InitCount == Init => CountInv
<1> SUFFICES ASSUME Init PROVE CountInv
  OBVIOUS
<1>1. PartsOK
  <2>1. requested \in [{"D0", "D2"} -> Nat]
    BY DEF Init
  <2>2. power \in [to : {"none", "D0", "D2"}, pc : PowerPcs]
    BY DEF Init, NoPowerIrp, PowerPcs
  <2>3. pnp = [irp |-> "none", pc |-> "idle"]
    BY DEF Init
  <2> QED
    BY <2>1, <2>2, <2>3 DEF Init, PartsOK, PnpPcs, PnpIrps
<1>2. SuspendCountExact
  BY DEF Init, SuspendCountExact, HeldByPnp, HeldByPower, One, NoPowerIrp
<1> QED
  BY <1>1, <1>2 DEF CountInv

(* What each kind of step does: it leaves the count and its parts alone, or *)
(* it moves the count and one part together.                               *)
countedVars == <<outStandingIO, leaked, requested, pnp, request, power>>

LEMMA Untouched ==
  ASSUME CountInv, UNCHANGED countedVars
  PROVE  CountInv'
  BY DEF CountInv, PartsOK, SuspendCountExact, HeldByPnp, HeldByPower, countedVars

LEMMA IdleSteps ==
  ASSUME \/ Timer_Expires \/ DpcRoutine_Idle \/ DpcRoutine_Busy \/ WorkerStep
         \/ \E t \in {"create", "pnp"} : CancelSelectSuspend(t)
         \/ \E i \in Irps : \/ IdleNotificationCallback(i) \/ Hub_Return(i)
                            \/ IdleNotificationRequestComplete_Lock(i)
                            \/ IdleNotificationRequestComplete_Free(i)
                            \/ IdleNotificationRequestComplete_Arm(i)
         \/ IdleNotificationCallback_NoMemory
         \/ FreeBT_DispatchCreate
  PROVE  UNCHANGED countedVars
  BY DEF Timer_Expires, DpcRoutine_Idle, DpcRoutine_Busy, WorkerStep, IdleRequestWorkerRoutine,
      SubmitIdleRequestIrp_Busy, SubmitIdleRequestIrp_NoMemory, SubmitIdleRequestIrp_Prepare,
      SubmitIdleRequestIrp_Recheck, SubmitIdleRequestIrp_Withdraw, SubmitIdleRequestIrp_Free,
      SubmitIdleRequestIrp_Call, CancelSelectSuspend, CancelSelectSuspend_Grab, IoCancelIrp,
      CancelSelectSuspend_Free, IdleNotificationCallback, Hub_Return,
      IdleNotificationRequestComplete_Lock, IdleNotificationRequestComplete_Free,
      IdleNotificationRequestComplete_Arm, IdleNotificationCallback_NoMemory,
      FreeBT_DispatchCreate, countedVars, countVars, appVars, pnpVars, powerVars, driverAlone

LEMMA CountMoves ==
  ASSUME outStandingIO \in Int
  PROVE  /\ P!FreeBT_IoIncrement => outStandingIO' = outStandingIO + 1
         /\ P!FreeBT_IoDecrement => outStandingIO' = outStandingIO - 1
  BY DEF P!FreeBT_IoIncrement, P!FreeBT_IoDecrement

(* The power IRPs that are asked for, and those that are refused.          *)
LEMMA RequestSteps ==
  ASSUME CountInv,
         \/ \E i \in Irps : IdleNotificationRequestComplete_PowerUp(i)
         \/ IdleNotificationCallback_PowerDown
  PROVE  CountInv'
<1>1. /\ outStandingIO' = outStandingIO + 1
      /\ UNCHANGED <<pnp, request, power>>
      /\ \/ UNCHANGED leaked /\ \E d \in {"D0", "D2"} : requested' = [requested EXCEPT ![d] = @ + 1]
         \/ leaked' = leaked + 1 /\ UNCHANGED requested
  BY CountMoves DEF CountInv, PartsOK, IdleNotificationRequestComplete_PowerUp,
      IdleNotificationCallback_PowerDown, appVars, pnpVars
<1>2. PartsOK'
  BY <1>1 DEF CountInv, PartsOK
<1>3. requested'["D0"] + requested'["D2"] + leaked' = requested["D0"] + requested["D2"] + leaked + 1
  BY <1>1 DEF CountInv, PartsOK
<1>4. UNCHANGED <<HeldByPnp, HeldByPower>> /\ (request = "counted" <=> request' = "counted")
  BY <1>1 DEF HeldByPnp, HeldByPower
<1>5. HeldByPnp \in Int /\ HeldByPower \in Int /\ One(request = "counted") \in Int
  BY DEF HeldByPnp, HeldByPower, One
<1> QED
  BY <1>1, <1>2, <1>3, <1>4, <1>5 DEF CountInv, PartsOK, SuspendCountExact, One

(* A step of the power IRP in the driver: what it holds and what is asked   *)
(* for move with the count.                                                *)
LEMMA PowerSteps ==
  ASSUME CountInv, PowerStep
  PROVE  CountInv'
<1> DEFINE asked == requested["D0"] + requested["D2"]
<1>1. UNCHANGED <<pnp, request, leaked>>
  BY DEF PowerStep, FreeBT_DispatchPower, HoldIoRequests_Failed, Worker_Release, Worker_Wait,
      Worker_Restore, FinishDevPoIrp, PoIrpCompletionFunc, PoIrpAsyncCompletionFunc, powerAlone,
      appVars, pnpVars
<1>2. /\ PartsOK'
      /\ outStandingIO' - asked' - HeldByPower' = outStandingIO - asked - HeldByPower
  <2>1. CASE \E to \in {"D0", "D2"} : FreeBT_DispatchPower(to)
    BY <1>1, <2>1, CountMoves
    DEF CountInv, PartsOK, FreeBT_DispatchPower, HeldByPower, PowerPcs
  <2>2. CASE HoldIoRequests_Failed \/ Worker_Release
    BY <1>1, <2>2, CountMoves
    DEF CountInv, PartsOK, HoldIoRequests_Failed, Worker_Release, PowerGoTo, HeldByPower, PowerPcs
  <2>3. CASE Worker_Wait \/ Worker_Restore
    BY <1>1, <2>3, CountMoves
    DEF CountInv, PartsOK, Worker_Wait, Worker_Restore, PowerGoTo, HeldByPower, PowerPcs
  <2>4. CASE FinishDevPoIrp \/ PoIrpCompletionFunc \/ PoIrpAsyncCompletionFunc
    BY <1>1, <2>4, CountMoves
    DEF CountInv, PartsOK, FinishDevPoIrp, PoIrpCompletionFunc, PoIrpAsyncCompletionFunc,
        PowerGoTo, HeldByPower, NoPowerIrp, PowerPcs
  <2> QED
    BY <2>1, <2>2, <2>3, <2>4 DEF PowerStep
<1>3. UNCHANGED HeldByPnp /\ UNCHANGED One(request = "counted")
  BY <1>1 DEF HeldByPnp
<1>4. HeldByPnp \in Int /\ HeldByPower \in Int /\ HeldByPower' \in Int /\ One(request = "counted") \in Int
  BY DEF HeldByPnp, HeldByPower, One
<1>5. asked \in Int /\ asked' \in Int
  BY <1>2 DEF CountInv, PartsOK
<1> QED
  BY <1>1, <1>2, <1>3, <1>4, <1>5 DEF CountInv, PartsOK, SuspendCountExact

(* The application's request and its file object.                          *)
LEMMA ApplicationSteps ==
  ASSUME CountInv, FreeBT_DispatchClose \/ Admit \/ RequestStep
  PROVE  CountInv'
<1>1. /\ UNCHANGED <<pnp, leaked, requested, power>> /\ PartsOK'
      /\ outStandingIO' - One(request' = "counted") = outStandingIO - One(request = "counted")
  BY CountMoves
  DEF CountInv, PartsOK, FreeBT_DispatchClose, Admit, RequestStep, Request_Count, Request_Complete,
      SetRequest, pnpVars, driverAlone, powerVars, countVars, One
<1>2. UNCHANGED <<HeldByPnp, HeldByPower>>
  BY <1>1 DEF HeldByPnp, HeldByPower
<1>3. /\ HeldByPnp \in Int /\ HeldByPower \in Int
      /\ One(request = "counted") \in Int /\ One(request' = "counted") \in Int
  BY DEF HeldByPnp, HeldByPower, One
<1> QED
  BY <1>1, <1>2, <1>3 DEF CountInv, PartsOK, SuspendCountExact

(* The PnP handlers.                                                       *)
LEMMA PnpSteps ==
  ASSUME CountInv, PnpStep \/ \E irp \in PnpSent : FreeBT_DispatchPnP(irp)
  PROVE  CountInv'
<1>1. UNCHANGED <<request, leaked, requested, power>>
  BY DEF PnpStep, FreeBT_DispatchPnP, HandleStartDevice, HandleQueryStopDevice,
      HandleQueryStopDevice_Wait, HandleQueryStopDevice_Done, HandleCancelStopDevice, HandleOther,
      StopSelectSuspend_Timer, StopSelectSuspend_Dpc, StopSelectSuspend_IdleRequest,
      HandleStopDevice, pnpAlone, appVars, powerVars
<1>2. PartsOK' /\ outStandingIO' - HeldByPnp' = outStandingIO - HeldByPnp
  <2>1. CASE \E irp \in PnpSent : FreeBT_DispatchPnP(irp)
    BY <1>1, <2>1, CountMoves, SuspendAssumption
    DEF CountInv, PartsOK, FreeBT_DispatchPnP, P!At, HeldByPnp, One, PnpPcs, PnpIrps
  <2>2. CASE HandleQueryStopDevice \/ HandleQueryStopDevice_Wait \/ HandleQueryStopDevice_Done
    BY <1>1, <2>2, CountMoves
    DEF CountInv, PartsOK, HandleQueryStopDevice, HandleQueryStopDevice_Wait, countVars,
        HandleQueryStopDevice_Done, Handling, P!At, P!GoTo, P!Answered, HeldByPnp, One, PnpPcs
  <2>3. CASE HandleStartDevice \/ HandleCancelStopDevice \/ HandleOther \/ HandleStopDevice
    BY <1>1, <2>3, CountMoves
    DEF CountInv, PartsOK, HandleStartDevice, HandleCancelStopDevice, HandleOther, HandleStopDevice,
        Handling, FreeBT_DispatchPnP_Done, P!At, P!Answered, HeldByPnp, One, PnpPcs
  <2>4. CASE StopSelectSuspend_Timer \/ StopSelectSuspend_Dpc \/ StopSelectSuspend_IdleRequest
    BY <1>1, <2>4
    DEF CountInv, PartsOK, StopSelectSuspend_Timer, StopSelectSuspend_Dpc, countVars,
        StopSelectSuspend_IdleRequest, Handling, P!At, P!GoTo, HeldByPnp, One, PnpPcs
  <2> QED
    BY <2>1, <2>2, <2>3, <2>4 DEF PnpStep
<1>3. UNCHANGED HeldByPower /\ UNCHANGED One(request = "counted")
  BY <1>1 DEF HeldByPower
<1>4. /\ HeldByPnp \in Int /\ HeldByPnp' \in Int /\ HeldByPower \in Int
      /\ One(request = "counted") \in Int
  BY DEF HeldByPnp, HeldByPower, One
<1> QED
  BY <1>1, <1>2, <1>3, <1>4 DEF CountInv, PartsOK, SuspendCountExact

LEMMA NextCount ==
  ASSUME CountInv, [Next]_vars
  PROVE  CountInv'
<1>1. CASE Next
  <2>1. CASE \/ \E i \in Irps : IdleNotificationRequestComplete_PowerUp(i)
             \/ IdleNotificationCallback_PowerDown
    BY <2>1, RequestSteps
  <2>2. CASE PowerStep
    BY <2>2, PowerSteps
  <2>3. CASE FreeBT_DispatchClose \/ Admit \/ RequestStep
    BY <2>3, ApplicationSteps
  <2>4. CASE PnpStep \/ \E irp \in PnpSent : FreeBT_DispatchPnP(irp)
    BY <2>4, PnpSteps
  <2> QED
    BY <1>1, <2>1, <2>2, <2>3, <2>4, IdleSteps, Untouched
    DEF Next, IdleNotificationRequestComplete, CallbackStep
<1>2. CASE UNCHANGED vars
  BY <1>2, Untouched DEF vars, countVars, appVars, pnpVars, powerVars, countedVars
<1> QED
  BY <1>1, <1>2

(* The I/O count of the device is what the requests, PnP requests and power *)
(* IRPs in the driver hold, and what was taken for power IRPs that were     *)
(* refused, for any memory, any hub and any PnP requests.                   *)
THEOREM SuspendCountIsExact == Spec => []SuspendCountExact
<1>1. CountInv => SuspendCountExact
  BY DEF CountInv
<1> QED
  BY InitCount, NextCount, <1>1, PTL DEF Spec

-----------------------------------------------------------------------------
(* One idle request.  IdleReqPend is set while a request is on its way     *)
(* from the worker to the hub and back to the lock of its completion       *)
(* routine, whoever cancels it meanwhile; so there is one such request.    *)

WorkerPcs == {"none", "queued", "submit", "recheck", "call", "fail", "free"}
CompletionPcs == {"none", "called", "error", "quiet", "own", "shared", "arm"}

Submits == worker.pc \in {"recheck", "call", "fail"}
Returned(i) == completion[i] \in {"error", "quiet"}

PlacesOK ==
  /\ below \subseteq Irps
  /\ worker \in [pc : WorkerPcs, irp : Irps \cup {NoIrp}]
  /\ Submits => worker.irp \in Irps
  /\ completion \in [Irps -> CompletionPcs]
PendingInv ==
  /\ Submits => idleReqPend /\ below = {} /\ \A i \in Irps : ~Returned(i)
  /\ \A i \in below : idleReqPend /\ below = {i} /\ \A j \in Irps : ~Returned(j)
  /\ \A i \in Irps : Returned(i) => idleReqPend /\ \A j \in Irps : Returned(j) => i = j
OneInv == PlacesOK /\ PendingInv

LEMMA InitOne == Init => OneInv
<1> SUFFICES ASSUME Init PROVE OneInv
  OBVIOUS
<1>1. /\ worker = Idle /\ Idle.pc = "none" /\ Idle \in [pc : WorkerPcs, irp : Irps \cup {NoIrp}]
      /\ below = {} /\ completion = [i \in Irps |-> "none"]
  BY DEF Init, Idle, WorkerPcs
<1>2. PlacesOK
  BY <1>1 DEF PlacesOK, Submits, CompletionPcs
<1>3. PendingInv
  BY <1>1 DEF PendingInv, Submits, Returned
<1> QED
  BY <1>2, <1>3 DEF OneInv

(* The steps that leave the request where it is.                           *)
placeVars == <<below, worker, completion, idleReqPend>>

LEMMA Elsewhere ==
  ASSUME OneInv, UNCHANGED placeVars
  PROVE  OneInv'
<1>1. PlacesOK'
  BY DEF OneInv, PlacesOK, Submits, placeVars
<1>2. Submits' <=> Submits
  BY DEF Submits, placeVars
<1>3. below' = below /\ completion' = completion /\ (idleReqPend => idleReqPend')
  BY DEF placeVars
<1>4. PendingInv'
  BY <1>2, <1>3 DEF OneInv, PendingInv, Returned
<1> QED
  BY <1>1, <1>4 DEF OneInv

LEMMA OtherThreads ==
  ASSUME \/ Timer_Expires \/ DpcRoutine_Busy
         \/ \E t \in {"create", "pnp"} : CancelSelectSuspend(t)
         \/ CallbackStep \/ PowerStep
         \/ FreeBT_DispatchCreate \/ FreeBT_DispatchClose \/ Admit \/ RequestStep
  PROVE  UNCHANGED placeVars
<1>1. CASE Timer_Expires \/ DpcRoutine_Busy
  BY <1>1 DEF Timer_Expires, DpcRoutine_Busy, placeVars, idleVars, irpVars, threadVars
<1>2. ASSUME NEW t \in {"create", "pnp"}, CancelSelectSuspend(t) PROVE UNCHANGED placeVars
  BY <1>2 DEF CancelSelectSuspend, CancelSelectSuspend_Grab, IoCancelIrp, CancelSelectSuspend_Free,
      placeVars, idleVars, irpVars
<1>3. CASE CallbackStep
  BY <1>3 DEF CallbackStep, IdleNotificationCallback_NoMemory, IdleNotificationCallback_PowerDown,
      placeVars, idleVars, irpVars, threadVars
<1>4. CASE PowerStep
  BY <1>4 DEF PowerStep, FreeBT_DispatchPower, HoldIoRequests_Failed, Worker_Release, Worker_Wait,
      Worker_Restore, FinishDevPoIrp, PoIrpCompletionFunc, PoIrpAsyncCompletionFunc, powerAlone,
      placeVars, idleVars, irpVars, threadVars
<1>5. CASE FreeBT_DispatchCreate \/ FreeBT_DispatchClose \/ Admit \/ RequestStep
  BY <1>5 DEF FreeBT_DispatchCreate, FreeBT_DispatchClose, Admit, RequestStep, Request_Count,
      Request_Complete, driverAlone, placeVars, idleVars, irpVars
<1> QED
  BY <1>1, <1>2, <1>3, <1>4, <1>5

LEMMA PnpElsewhere ==
  ASSUME PnpStep \/ \E irp \in PnpSent : FreeBT_DispatchPnP(irp)
  PROVE  UNCHANGED placeVars
  BY DEF PnpStep, FreeBT_DispatchPnP, HandleStartDevice, HandleQueryStopDevice,
      HandleQueryStopDevice_Wait, HandleQueryStopDevice_Done, HandleCancelStopDevice, HandleOther,
      StopSelectSuspend_Timer, StopSelectSuspend_Dpc, StopSelectSuspend_IdleRequest,
      HandleStopDevice, pnpAlone, placeVars, idleVars, irpVars, threadVars

(* The worker: it prepares a request only while none is pending, and then   *)
(* takes it back or hands it to the hub.                                    *)
LEMMA WorkerOne ==
  ASSUME OneInv, DpcRoutine_Idle \/ WorkerStep
  PROVE  OneInv'
<1> USE DEF OneInv
<1>1. UNCHANGED completion
  BY DEF DpcRoutine_Idle, WorkerStep, IdleRequestWorkerRoutine, SubmitIdleRequestIrp_Busy,
      SubmitIdleRequestIrp_NoMemory, SubmitIdleRequestIrp_Prepare, SubmitIdleRequestIrp_Recheck,
      SubmitIdleRequestIrp_Withdraw, SubmitIdleRequestIrp_Free, SubmitIdleRequestIrp_Call
<1>2. WorkItemEnds => /\ worker' \in [pc : WorkerPcs, irp : Irps \cup {NoIrp}] /\ worker'.pc = "none"
  BY DEF WorkItemEnds, Idle, WorkerPcs
<1>3. CASE DpcRoutine_Idle \/ IdleRequestWorkerRoutine
  <2>1. /\ worker' \in [pc : WorkerPcs, irp : Irps \cup {NoIrp}]
        /\ worker'.pc \in {"queued", "submit", "none"}
        /\ UNCHANGED <<below, idleReqPend>>
    BY <1>2, <1>3 DEF DpcRoutine_Idle, IdleRequestWorkerRoutine, WorkerGoTo, PlacesOK, WorkerPcs,
        idleVars, irpVars
  <2> QED
    BY <1>1, <2>1 DEF PlacesOK, PendingInv, Submits, Returned
<1>4. CASE SubmitIdleRequestIrp_Busy \/ SubmitIdleRequestIrp_NoMemory \/ SubmitIdleRequestIrp_Free
  <2>1. WorkItemEnds /\ UNCHANGED <<below, idleReqPend>>
    BY <1>4 DEF SubmitIdleRequestIrp_Busy, SubmitIdleRequestIrp_NoMemory,
        SubmitIdleRequestIrp_Free, idleVars, irpVars
  <2> QED
    BY <1>1, <1>2, <2>1 DEF PlacesOK, PendingInv, Submits, Returned
<1>5. CASE SubmitIdleRequestIrp_Prepare
  <2>1. /\ ~idleReqPend /\ idleReqPend' /\ UNCHANGED below /\ worker'.pc = "recheck"
        /\ worker' \in [pc : WorkerPcs, irp : Irps \cup {NoIrp}] /\ worker'.irp \in Irps
    <3> DEFINE i == CHOOSE j \in FreeMemory : TRUE
    <3>1. i \in FreeMemory
      BY <1>5 DEF SubmitIdleRequestIrp_Prepare
    <3>2. i \in Irps
      BY <3>1 DEF FreeMemory
    <3>3. worker' = [pc |-> "recheck", irp |-> i]
      BY <1>5 DEF SubmitIdleRequestIrp_Prepare
    <3> HIDE DEF i
    <3>4. /\ worker' \in [pc : WorkerPcs, irp : Irps \cup {NoIrp}]
          /\ worker'.pc = "recheck" /\ worker'.irp = i
      BY <3>2, <3>3 DEF WorkerPcs
    <3>5. ~idleReqPend /\ idleReqPend'
      BY <1>5, Zenon DEF SubmitIdleRequestIrp_Prepare
    <3> QED
      BY <1>5, <3>2, <3>4, <3>5 DEF SubmitIdleRequestIrp_Prepare
  <2>2. below = {} /\ \A i \in Irps : ~Returned(i)
    BY <2>1 DEF PendingInv
  <2> QED
    BY <1>1, <2>1, <2>2 DEF PlacesOK, PendingInv, Submits, Returned
<1>6. CASE SubmitIdleRequestIrp_Recheck
  <2>1. /\ Submits /\ worker'.pc \in {"call", "fail"} /\ worker'.irp = worker.irp
        /\ worker' \in [pc : WorkerPcs, irp : Irps \cup {NoIrp}]
        /\ UNCHANGED <<below, idleReqPend>>
    BY <1>6 DEF SubmitIdleRequestIrp_Recheck, WorkerGoTo, PlacesOK, WorkerPcs, Submits, idleVars,
        irpVars
  <2> QED
    BY <1>1, <2>1 DEF PlacesOK, PendingInv, Submits, Returned
<1>7. CASE SubmitIdleRequestIrp_Withdraw
  <2>1. /\ Submits /\ worker'.pc = "free" /\ worker' \in [pc : WorkerPcs, irp : Irps \cup {NoIrp}]
        /\ UNCHANGED below
    BY <1>7 DEF SubmitIdleRequestIrp_Withdraw, WorkerGoTo, PlacesOK, WorkerPcs, Submits, irpVars
  <2> QED
    BY <1>1, <2>1 DEF PlacesOK, PendingInv, Submits, Returned
<1>8. CASE SubmitIdleRequestIrp_Call
  <2>1. /\ Submits /\ WorkItemEnds /\ below' = below \cup {worker.irp} /\ UNCHANGED idleReqPend
    BY <1>8 DEF SubmitIdleRequestIrp_Call, Submits, idleVars
  <2>2. below' = {worker.irp} /\ worker.irp \in Irps /\ idleReqPend /\ \A i \in Irps : ~Returned(i)
    BY <2>1 DEF PlacesOK, PendingInv
  <2> QED
    BY <1>1, <1>2, <2>1, <2>2 DEF PlacesOK, PendingInv, Submits, Returned
<1> QED
  BY <1>3, <1>4, <1>5, <1>6, <1>7, <1>8 DEF WorkerStep

(* The hub and the completion routine.                                     *)
LEMMA CompletionSet ==
  ASSUME PlacesOK, NEW i \in Irps, NEW pc \in CompletionPcs, CompletionGoTo(i, pc)
  PROVE  /\ completion' \in [Irps -> CompletionPcs]
         /\ completion'[i] = pc /\ \A j \in Irps : j # i => completion'[j] = completion[j]
  BY DEF PlacesOK, CompletionGoTo

LEMMA HubOne ==
  ASSUME OneInv, NEW i \in Irps,
         IdleNotificationCallback(i) \/ Hub_Return(i) \/ IdleNotificationRequestComplete(i)
  PROVE  OneInv'
<1> USE DEF OneInv
<1>1. UNCHANGED worker
  BY DEF IdleNotificationCallback, Hub_Return, IdleNotificationRequestComplete, threadVars,
      IdleNotificationRequestComplete_PowerUp, IdleNotificationRequestComplete_Lock,
      IdleNotificationRequestComplete_Free, IdleNotificationRequestComplete_Arm
<1>2. CASE IdleNotificationCallback(i)
  <2>1. CompletionGoTo(i, "called") /\ ~Returned(i) /\ UNCHANGED <<below, idleReqPend>>
    BY <1>2 DEF IdleNotificationCallback, Returned, idleVars, irpVars
  <2>2. \A j \in Irps : Returned(j)' => Returned(j)
    BY <2>1, CompletionSet DEF Returned, CompletionPcs
  <2> QED
    BY <1>1, <2>1, <2>2, CompletionSet DEF PlacesOK, PendingInv, Submits, CompletionPcs
<1>3. CASE Hub_Return(i)
  <2>1. /\ i \in below /\ below' = below \ {i} /\ UNCHANGED idleReqPend
        /\ \E pc \in {"error", "quiet"} : CompletionGoTo(i, pc)
    BY <1>3 DEF Hub_Return, idleVars
  <2>2. below' = {} /\ idleReqPend /\ ~Submits /\ \A j \in Irps : ~Returned(j)
    BY <2>1 DEF PendingInv
  <2>3. \A j \in Irps : Returned(j)' => j = i
    BY <2>1, <2>2, CompletionSet DEF Returned, CompletionPcs
  <2> QED
    BY <1>1, <2>1, <2>2, <2>3, CompletionSet DEF PlacesOK, PendingInv, Submits, CompletionPcs
<1>4. CASE IdleNotificationRequestComplete_PowerUp(i)
  <2>1. CompletionGoTo(i, "quiet") /\ Returned(i) /\ UNCHANGED <<below, idleReqPend>>
    BY <1>4 DEF IdleNotificationRequestComplete_PowerUp, Returned, idleVars, irpVars
  <2>2. \A j \in Irps : Returned(j)' <=> Returned(j)
    BY <2>1, CompletionSet DEF Returned, CompletionPcs
  <2> QED
    BY <1>1, <2>1, <2>2, CompletionSet DEF PlacesOK, PendingInv, Submits, CompletionPcs
<1>5. CASE IdleNotificationRequestComplete_Lock(i)
  <2>1. /\ \E pc \in {"own", "shared"} : CompletionGoTo(i, pc)
        /\ Returned(i) /\ UNCHANGED below
    BY <1>5 DEF IdleNotificationRequestComplete_Lock, Returned, irpVars
  <2>2. below = {} /\ ~Submits /\ \A j \in Irps : Returned(j) => j = i
    BY <2>1 DEF PlacesOK, PendingInv
  <2>3. \A j \in Irps : ~Returned(j)'
    BY <2>1, <2>2, CompletionSet DEF Returned, CompletionPcs
  <2> QED
    BY <1>1, <2>1, <2>2, <2>3, CompletionSet DEF PlacesOK, PendingInv, Submits, CompletionPcs
<1>6. CASE IdleNotificationRequestComplete_Free(i) \/ IdleNotificationRequestComplete_Arm(i)
  <2>1. /\ \E pc \in {"arm", "none"} : CompletionGoTo(i, pc)
        /\ ~Returned(i) /\ UNCHANGED <<below, idleReqPend>>
    BY <1>6 DEF IdleNotificationRequestComplete_Free, IdleNotificationRequestComplete_Arm,
        Returned, idleVars, irpVars
  <2>2. \A j \in Irps : Returned(j)' <=> Returned(j)
    BY <2>1, CompletionSet DEF Returned, CompletionPcs
  <2> QED
    BY <1>1, <2>1, <2>2, CompletionSet DEF PlacesOK, PendingInv, Submits, CompletionPcs
<1> QED
  BY <1>2, <1>3, <1>4, <1>5, <1>6 DEF IdleNotificationRequestComplete

LEMMA NextOne ==
  ASSUME OneInv, [Next]_vars
  PROVE  OneInv'
<1>1. CASE UNCHANGED vars
  BY <1>1, Elsewhere DEF vars, idleVars, irpVars, threadVars, placeVars
<1>2. CASE Next
  <2>1. CASE DpcRoutine_Idle \/ WorkerStep
    BY <2>1, WorkerOne
  <2>2. CASE \E i \in Irps : \/ IdleNotificationCallback(i) \/ Hub_Return(i)
                             \/ IdleNotificationRequestComplete(i)
    BY <2>2, HubOne
  <2>3. CASE PnpStep \/ \E irp \in PnpSent : FreeBT_DispatchPnP(irp)
    BY <2>3, PnpElsewhere, Elsewhere
  <2> QED
    BY <1>2, <2>1, <2>2, <2>3, OtherThreads, Elsewhere DEF Next
<1> QED
  BY <1>1, <1>2

(* The hub never has two idle requests, and gets none while it has one: for  *)
(* any memory, whether or not the hub waits for its callback, whatever power *)
(* IRPs are refused and whatever PnP requests cancel the request meanwhile.  *)
THEOREM OneRequestBelow == Spec => []OneIdleRequest
<1>1. OneInv => OneIdleRequest
  BY DEF OneInv, PendingInv, Submits, OneIdleRequest
<1> QED
  BY InitOne, NextOne, <1>1, PTL DEF Spec

-----------------------------------------------------------------------------
(* The waits.  A wait for the StopEvent ends by a signal that was left,    *)
(* which it was with a count of at most one, or by the decrement to one.   *)

EventInv == stopEvent => outStandingIO <= 1

LEMMA EventSteps ==
  ASSUME [Next]_vars
  PROVE  \/ P!FreeBT_IoIncrement \/ P!FreeBT_IoDecrement
         \/ UNCHANGED countVars
         \/ FreeBT_DispatchClose \/ HandleQueryStopDevice_Wait \/ Worker_Wait
<1> DEFINE Moves == \/ P!FreeBT_IoIncrement \/ P!FreeBT_IoDecrement
                    \/ UNCHANGED countVars
<1>1. CASE \/ Timer_Expires \/ DpcRoutine_Idle \/ DpcRoutine_Busy
           \/ \E t \in {"create", "pnp"} : CancelSelectSuspend(t)
  BY <1>1 DEF Timer_Expires, DpcRoutine_Idle, DpcRoutine_Busy, CancelSelectSuspend,
      CancelSelectSuspend_Grab, IoCancelIrp, CancelSelectSuspend_Free, countVars
<1>2. CASE WorkerStep
  BY <1>2 DEF WorkerStep, IdleRequestWorkerRoutine, SubmitIdleRequestIrp_Busy,
      SubmitIdleRequestIrp_NoMemory, SubmitIdleRequestIrp_Prepare, SubmitIdleRequestIrp_Recheck,
      SubmitIdleRequestIrp_Withdraw, SubmitIdleRequestIrp_Free, SubmitIdleRequestIrp_Call, countVars
<1>3. ASSUME NEW i \in Irps, \/ IdleNotificationCallback(i) \/ Hub_Return(i)
                             \/ IdleNotificationRequestComplete(i)
      PROVE  Moves
  BY <1>3 DEF IdleNotificationCallback, Hub_Return, IdleNotificationRequestComplete,
      IdleNotificationRequestComplete_PowerUp, IdleNotificationRequestComplete_Lock,
      IdleNotificationRequestComplete_Free, IdleNotificationRequestComplete_Arm, countVars
<1>4. CASE CallbackStep
  BY <1>4 DEF CallbackStep, IdleNotificationCallback_NoMemory, IdleNotificationCallback_PowerDown,
      countVars
<1>5. CASE PowerStep
  BY <1>5 DEF PowerStep, FreeBT_DispatchPower, HoldIoRequests_Failed, Worker_Release,
      Worker_Restore, FinishDevPoIrp, PoIrpCompletionFunc, PoIrpAsyncCompletionFunc
<1>6. CASE FreeBT_DispatchCreate \/ Admit \/ RequestStep
  BY <1>6 DEF FreeBT_DispatchCreate, Admit, RequestStep, Request_Count, Request_Complete, countVars
<1>7. CASE PnpStep
  BY <1>7 DEF PnpStep, HandleStartDevice, HandleQueryStopDevice, HandleQueryStopDevice_Done,
      HandleCancelStopDevice, HandleOther, StopSelectSuspend_Timer, StopSelectSuspend_Dpc,
      StopSelectSuspend_IdleRequest, HandleStopDevice, FreeBT_DispatchPnP_Done, countVars
<1>8. CASE \E irp \in PnpSent : FreeBT_DispatchPnP(irp)
  BY <1>8 DEF FreeBT_DispatchPnP
<1>9. CASE UNCHANGED vars
  BY <1>9 DEF vars, countVars
<1> QED
  BY <1>1, <1>2, <1>3, <1>4, <1>5, <1>6, <1>7, <1>8, <1>9 DEF Next

LEMMA NextEvent ==
  ASSUME outStandingIO \in Int, EventInv, [Next]_vars
  PROVE  EventInv'
<1>1. CASE P!FreeBT_IoIncrement
  <2>1. outStandingIO' = outStandingIO + 1
    BY <1>1, CountMoves
  <2>2. stopEvent' => stopEvent /\ outStandingIO' # 2
    BY <1>1, Zenon DEF P!FreeBT_IoIncrement
  <2>3. stopEvent => outStandingIO <= 1
    BY Zenon DEF EventInv
  <2>4. stopEvent' => outStandingIO' <= 1
    BY <2>1, <2>2, <2>3
  <2> QED
    BY <2>4, Zenon DEF EventInv
<1>2. CASE P!FreeBT_IoDecrement
  <2>1. outStandingIO' = outStandingIO - 1
    BY <1>2, CountMoves
  <2>2. outStandingIO' = 1 \/ (stopEvent' => stopEvent)
    BY <1>2, Zenon DEF P!FreeBT_IoDecrement
  <2>3. stopEvent => outStandingIO <= 1
    BY Zenon DEF EventInv
  <2>4. stopEvent' => outStandingIO' <= 1
    BY <2>1, <2>2, <2>3
  <2> QED
    BY <2>4, Zenon DEF EventInv
<1>3. CASE UNCHANGED countVars
  BY <1>3 DEF EventInv, countVars
<1>4. CASE FreeBT_DispatchClose
  <2>1. outStandingIO' = outStandingIO /\ (outStandingIO = 1 \/ (stopEvent' => stopEvent))
    BY <1>4, Zenon DEF FreeBT_DispatchClose
  <2>2. stopEvent => outStandingIO <= 1
    BY Zenon DEF EventInv
  <2>3. stopEvent' => outStandingIO' <= 1
    BY <2>1, <2>2
  <2> QED
    BY <2>3, Zenon DEF EventInv
<1>5. CASE HandleQueryStopDevice_Wait \/ Worker_Wait
  BY <1>5 DEF EventInv, HandleQueryStopDevice_Wait, Worker_Wait, P!KeWaitForStopEvent
<1> QED
  BY <1>1, <1>2, <1>3, <1>4, <1>5, EventSteps

LEMMA Released ==
  ASSUME [Next]_vars, NEW t \in stopWaiters, t \notin stopWaiters'
  PROVE  outStandingIO' = 1
  BY EventSteps DEF P!FreeBT_IoIncrement, P!FreeBT_IoDecrement, FreeBT_DispatchClose,
      HandleQueryStopDevice_Wait, Worker_Wait, P!KeWaitForStopEvent, countVars

\* A thread begins to wait in one step.
LEMMA QueryBlocks ==
  ASSUME PartsOK, [Next]_vars, ~P!At("QUERY_STOP", "blocked"), P!At("QUERY_STOP", "blocked")'
  PROVE  HandleQueryStopDevice_Wait
<1>1. pnp' # pnp
  BY DEF P!At
<1>2. PnpStep \/ \E irp \in PnpSent : FreeBT_DispatchPnP(irp)
  <2>1. CASE UNCHANGED countedVars
    BY <1>1, <2>1 DEF countedVars
  <2>2. CASE \/ \E i \in Irps : IdleNotificationRequestComplete_PowerUp(i)
             \/ IdleNotificationCallback_PowerDown
    BY <1>1, <2>2 DEF IdleNotificationRequestComplete_PowerUp,
        IdleNotificationCallback_PowerDown, pnpVars
  <2>3. CASE PowerStep
    BY <1>1, <2>3 DEF PowerStep, FreeBT_DispatchPower, HoldIoRequests_Failed, Worker_Release,
        Worker_Wait, Worker_Restore, FinishDevPoIrp, PoIrpCompletionFunc,
        PoIrpAsyncCompletionFunc, powerAlone, pnpVars
  <2>4. CASE FreeBT_DispatchClose \/ Admit \/ RequestStep
    BY <1>1, <2>4 DEF FreeBT_DispatchClose, Admit, RequestStep, Request_Count, Request_Complete,
        pnpVars
  <2>5. CASE UNCHANGED vars
    BY <1>1, <2>5 DEF vars, pnpVars
  <2> QED
    BY <2>1, <2>2, <2>3, <2>4, <2>5, IdleSteps
    DEF Next, IdleNotificationRequestComplete, CallbackStep
<1>3. ~\E irp \in PnpSent : FreeBT_DispatchPnP(irp)
  BY DEF FreeBT_DispatchPnP, P!At
<1> QED
  BY <1>2, <1>3
  DEF PartsOK, PnpStep, HandleStartDevice, HandleQueryStopDevice, HandleQueryStopDevice_Done,
      HandleCancelStopDevice, HandleOther, StopSelectSuspend_Timer, StopSelectSuspend_Dpc,
      StopSelectSuspend_IdleRequest, HandleStopDevice, FreeBT_DispatchPnP_Done,
      P!At, P!GoTo, P!Answered

LEMMA WorkerBlocks ==
  ASSUME PartsOK, [Next]_vars, power.pc # "waiting", power'.pc = "waiting"
  PROVE  Worker_Wait
<1>1. power' # power
  OBVIOUS
<1>2. PowerStep
  <2>1. CASE UNCHANGED countedVars
    BY <1>1, <2>1 DEF countedVars
  <2>2. CASE \/ \E i \in Irps : IdleNotificationRequestComplete_PowerUp(i)
             \/ IdleNotificationCallback_PowerDown
    BY <1>1, <2>2 DEF IdleNotificationRequestComplete_PowerUp,
        IdleNotificationCallback_PowerDown
  <2>3. CASE PnpStep \/ \E irp \in PnpSent : FreeBT_DispatchPnP(irp)
    BY <1>1, <2>3 DEF PnpStep, FreeBT_DispatchPnP, HandleStartDevice, HandleQueryStopDevice,
        HandleQueryStopDevice_Wait, HandleQueryStopDevice_Done, HandleCancelStopDevice, HandleOther,
        StopSelectSuspend_Timer, StopSelectSuspend_Dpc, StopSelectSuspend_IdleRequest,
        HandleStopDevice, pnpAlone, powerVars
  <2>4. CASE FreeBT_DispatchClose \/ Admit \/ RequestStep
    BY <1>1, <2>4 DEF FreeBT_DispatchClose, Admit, RequestStep, Request_Count, Request_Complete,
        driverAlone, powerVars
  <2>5. CASE UNCHANGED vars
    BY <1>1, <2>5 DEF vars, powerVars
  <2> QED
    BY <2>1, <2>2, <2>3, <2>4, <2>5, IdleSteps
    DEF Next, IdleNotificationRequestComplete, CallbackStep
<1> QED
  BY <1>2 DEF PartsOK, PowerStep, FreeBT_DispatchPower, HoldIoRequests_Failed, Worker_Release,
      Worker_Restore, FinishDevPoIrp, PoIrpCompletionFunc, PoIrpAsyncCompletionFunc,
      PowerGoTo, NoPowerIrp

LEMMA WaitEndsAtBias ==
  ASSUME CountInv, EventInv, [Next]_vars, ~WaitOver, WaitOver'
  PROVE  outStandingIO' <= 1
<1>1. CASE P!At("QUERY_STOP", "blocked")' /\ "pnp" \notin stopWaiters'
  <2>1. CASE P!At("QUERY_STOP", "blocked")
    BY <1>1, <2>1, Released DEF WaitOver
  <2>2. CASE HandleQueryStopDevice_Wait
    BY <1>1, <2>2 DEF HandleQueryStopDevice_Wait, P!KeWaitForStopEvent, EventInv
  <2> QED
    BY <1>1, <2>1, <2>2, QueryBlocks DEF CountInv
<1>2. CASE power'.pc = "waiting" /\ "worker" \notin stopWaiters'
  <2>1. CASE power.pc = "waiting"
    BY <1>2, <2>1, Released DEF WaitOver
  <2>2. CASE Worker_Wait
    BY <1>2, <2>2 DEF Worker_Wait, P!KeWaitForStopEvent, EventInv
  <2> QED
    BY <1>2, <2>1, <2>2, WorkerBlocks DEF CountInv
<1> QED
  BY <1>1, <1>2 DEF WaitOver

\* Nothing that is counted is negative.
LEMMA BiasAlone == CountInv /\ outStandingIO <= 1 => NobodyInside
<1> SUFFICES ASSUME CountInv, outStandingIO <= 1 PROVE NobodyInside
  OBVIOUS
<1>1. /\ HeldByPnp \in Nat /\ HeldByPower \in Nat /\ One(request = "counted") \in Nat
      /\ requested["D0"] \in Nat /\ requested["D2"] \in Nat /\ leaked \in Nat
  BY DEF CountInv, PartsOK, HeldByPnp, HeldByPower, One
<1>2. /\ HeldByPnp = 0 /\ HeldByPower = 0 /\ One(request = "counted") = 0
      /\ requested["D0"] = 0 /\ requested["D2"] = 0
  BY <1>1 DEF CountInv, SuspendCountExact
<1>3. request # "counted"
  BY <1>2 DEF One
<1>4. requested = [D0 |-> 0, D2 |-> 0]
  BY <1>2 DEF CountInv, PartsOK
<1> QED
  BY <1>2, <1>3, <1>4 DEF NobodyInside

(* A query to stop and the worker that holds a power IRP end their waits    *)
(* only when no request, no power IRP and no other PnP request is in the    *)
(* driver, for any memory, any hub, any PnP requests and whatever fails.    *)
THEOREM SuspendWaitsForRequests == Spec => SuspendWaitsEndIdle
<1>1. Init => CountInv /\ EventInv
  BY InitCount DEF Init, EventInv
<1>2. CountInv /\ EventInv /\ [Next]_vars => (CountInv /\ EventInv)'
  BY NextCount, NextEvent DEF CountInv, PartsOK
<1>3. (CountInv /\ outStandingIO <= 1 => NobodyInside)'
  BY BiasAlone, PTL
<1>4. CountInv /\ EventInv /\ (CountInv /\ EventInv)' /\ [Next]_vars
        => [~WaitOver /\ WaitOver' => NobodyInside']_vars
  BY <1>3, WaitEndsAtBias
<1> QED
  BY <1>1, <1>2, <1>4, PTL DEF Spec, SuspendWaitsEndIdle

(* The bias stays in the count until the device is removed: the assertion    *)
(* of FreeBT_IoDecrement that OutStandingIO falls to zero only in a removed  *)
(* device (fbtpnp.c:1754) holds under selective suspend, and a removal finds *)
(* its RemoveEvent unsignalled, whatever was suspended, cancelled and        *)
(* refused before it.                                                        *)
THEOREM SuspendKeepsBias == Spec => [](outStandingIO >= 1 /\ ~removeEvent)
<1>1. CountInv => outStandingIO >= 1
  <2> SUFFICES ASSUME CountInv PROVE outStandingIO >= 1
    OBVIOUS
  <2>1. /\ HeldByPnp \in Nat /\ HeldByPower \in Nat /\ One(request = "counted") \in Nat
        /\ requested["D0"] \in Nat /\ requested["D2"] \in Nat /\ leaked \in Nat
    BY DEF CountInv, PartsOK, HeldByPnp, HeldByPower, One
  <2> QED
    BY <2>1 DEF CountInv, SuspendCountExact
<1>2. (CountInv => outStandingIO >= 1)'
  BY <1>1, PTL
<1>3. Init => CountInv /\ ~removeEvent
  BY InitCount, Zenon DEF Init
<1>4. CountInv /\ ~removeEvent /\ [Next]_vars => CountInv' /\ ~removeEvent'
  <2> SUFFICES ASSUME CountInv, ~removeEvent, [Next]_vars PROVE CountInv' /\ ~removeEvent'
    OBVIOUS
  <2>1. CountInv'
    BY NextCount
  <2>2. outStandingIO' # 0
    BY <1>2, <2>1 DEF CountInv, PartsOK
  <2>3. UNCHANGED removeEvent \/ P!FreeBT_IoDecrement
    BY EventSteps, Zenon
    DEF P!FreeBT_IoIncrement, countVars, FreeBT_DispatchClose, HandleQueryStopDevice_Wait, Worker_Wait
  <2>4. P!FreeBT_IoDecrement => ~removeEvent'
    BY <2>2, Zenon DEF P!FreeBT_IoDecrement
  <2> QED
    BY <2>1, <2>3, <2>4
<1> QED
  BY <1>1, <1>3, <1>4, PTL DEF Spec

-----------------------------------------------------------------------------
(* The types, one group of variables after the other: what a step may do to *)
(* a group, and that it keeps the group's types.                           *)

LEMMA IdleUnmoved ==
  ASSUME \/ Timer_Expires \/ DpcRoutine_Idle \/ DpcRoutine_Busy \/ WorkerStep
         \/ \E t \in {"create", "pnp"} : CancelSelectSuspend(t)
  PROVE  UNCHANGED <<pnpVars, powerVars>>
  BY DEF Timer_Expires, DpcRoutine_Idle, DpcRoutine_Busy, WorkerStep, IdleRequestWorkerRoutine,
      SubmitIdleRequestIrp_Busy, SubmitIdleRequestIrp_NoMemory, SubmitIdleRequestIrp_Prepare,
      SubmitIdleRequestIrp_Recheck, SubmitIdleRequestIrp_Withdraw, SubmitIdleRequestIrp_Free,
      SubmitIdleRequestIrp_Call, CancelSelectSuspend, CancelSelectSuspend_Grab, IoCancelIrp,
      CancelSelectSuspend_Free, pnpVars, powerVars

LEMMA HubUnmoved ==
  ASSUME NEW i \in Irps, \/ IdleNotificationCallback(i) \/ Hub_Return(i)
                         \/ IdleNotificationRequestComplete(i)
  PROVE  /\ UNCHANGED <<pnpVars, devPower, power, ssEnable, dpc, noDpcWorkItemPending>>
         /\ UNCHANGED callback \/ IdleNotificationCallback(i)
         /\ UNCHANGED timer \/ timer' = TRUE
  BY DEF IdleNotificationCallback, Hub_Return, IdleNotificationRequestComplete,
      IdleNotificationRequestComplete_PowerUp, IdleNotificationRequestComplete_Lock,
      IdleNotificationRequestComplete_Free, IdleNotificationRequestComplete_Arm,
      pnpVars, powerVars, timerVars

LEMMA PowerUnmoved ==
  ASSUME CallbackStep \/ PowerStep
  PROVE  UNCHANGED <<pnpVars, timerVars, idleVars, irpVars>>
  BY DEF CallbackStep, IdleNotificationCallback_NoMemory, IdleNotificationCallback_PowerDown,
      PowerStep, FreeBT_DispatchPower, HoldIoRequests_Failed, Worker_Release, Worker_Wait,
      Worker_Restore, FinishDevPoIrp, PoIrpCompletionFunc, PoIrpAsyncCompletionFunc, powerAlone

LEMMA AppUnmoved ==
  ASSUME FreeBT_DispatchCreate \/ FreeBT_DispatchClose \/ Admit \/ RequestStep
  PROVE  UNCHANGED <<pnpVars, timerVars, idleVars, irpVars, powerVars>>
  BY DEF FreeBT_DispatchCreate, FreeBT_DispatchClose, Admit, RequestStep, Request_Count,
      Request_Complete, driverAlone

LEMMA PnpUnmoved ==
  ASSUME PnpStep \/ \E irp \in PnpSent : FreeBT_DispatchPnP(irp)
  PROVE  /\ UNCHANGED <<irpVars, powerVars, dpc, noDpcWorkItemPending,
                       noIdleReqPend, idleReqPend, pendingIdleIrp>>
         /\ UNCHANGED freeIdleIrpCount \/ freeIdleIrpCount' = 0
         /\ UNCHANGED timer \/ timer' = TRUE \/ timer' = FALSE
         /\ UNCHANGED ssEnable \/ ssEnable' = TRUE \/ ssEnable' = FALSE
  BY DEF PnpStep, FreeBT_DispatchPnP, HandleStartDevice, HandleQueryStopDevice,
      HandleQueryStopDevice_Wait, HandleQueryStopDevice_Done, HandleCancelStopDevice, HandleOther,
      StopSelectSuspend_Timer, StopSelectSuspend_Dpc, StopSelectSuspend_IdleRequest,
      HandleStopDevice, pnpAlone, timerVars, idleVars

CountTypes == stopEvent \in BOOLEAN /\ removeEvent \in BOOLEAN /\ stopWaiters \subseteq {"pnp", "worker"}

LEMMA NextCountTypes ==
  ASSUME CountTypes, [Next]_vars
  PROVE  CountTypes'
<1> USE DEF CountTypes
<1>1. CASE P!FreeBT_IoIncrement
  <2>1. stopEvent' \in BOOLEAN
    BY <1>1, Zenon DEF P!FreeBT_IoIncrement
  <2> QED
    BY <1>1, <2>1 DEF P!FreeBT_IoIncrement
<1>2. CASE P!FreeBT_IoDecrement
  <2>1. removeEvent' \in BOOLEAN
    BY <1>2, Zenon DEF P!FreeBT_IoDecrement
  <2>2. stopEvent' \in BOOLEAN /\ stopWaiters' \subseteq stopWaiters
    BY <1>2, Zenon DEF P!FreeBT_IoDecrement, P!KeSetStopEvent
  <2> QED
    BY <2>1, <2>2
<1>3. CASE UNCHANGED countVars
  BY <1>3 DEF countVars
<1>4. CASE FreeBT_DispatchClose
  <2>1. stopEvent' \in BOOLEAN /\ removeEvent' \in BOOLEAN /\ stopWaiters' \subseteq stopWaiters
    BY <1>4, Zenon DEF FreeBT_DispatchClose, P!KeSetStopEvent
  <2> QED
    BY <2>1
<1>5. CASE HandleQueryStopDevice_Wait \/ Worker_Wait
  <2>1. stopEvent' \in BOOLEAN /\ removeEvent' \in BOOLEAN
    BY <1>5, Zenon DEF HandleQueryStopDevice_Wait, Worker_Wait, P!KeWaitForStopEvent
  <2> QED
    BY <1>5, <2>1 DEF HandleQueryStopDevice_Wait, Worker_Wait, P!KeWaitForStopEvent
<1> QED
  BY <1>1, <1>2, <1>3, <1>4, <1>5, EventSteps

\* The handlers that set the state of the device.
DevStates == {"Working", "PendingStop", "Stopped", "SurpriseRemoved"}

LEMMA NextDevState ==
  ASSUME devState \in DevStates, [Next]_vars
  PROVE  devState' \in DevStates
<1> USE DEF DevStates
<1>1. CASE \/ Timer_Expires \/ DpcRoutine_Idle \/ DpcRoutine_Busy \/ WorkerStep
           \/ \E t \in {"create", "pnp"} : CancelSelectSuspend(t)
  BY <1>1, IdleUnmoved DEF pnpVars
<1>2. ASSUME NEW i \in Irps, \/ IdleNotificationCallback(i) \/ Hub_Return(i)
                             \/ IdleNotificationRequestComplete(i)
      PROVE  UNCHANGED devState
  BY <1>2, HubUnmoved DEF pnpVars
<1>3. CASE CallbackStep \/ PowerStep
  BY <1>3, PowerUnmoved DEF pnpVars
<1>4. CASE FreeBT_DispatchCreate \/ FreeBT_DispatchClose \/ Admit \/ RequestStep
  BY <1>4, AppUnmoved DEF pnpVars
<1>5. CASE PnpStep \/ \E irp \in PnpSent : FreeBT_DispatchPnP(irp)
  BY <1>5 DEF PnpStep, FreeBT_DispatchPnP, HandleStartDevice, HandleQueryStopDevice,
      HandleQueryStopDevice_Wait, HandleQueryStopDevice_Done, HandleCancelStopDevice, HandleOther,
      StopSelectSuspend_Timer, StopSelectSuspend_Dpc, StopSelectSuspend_IdleRequest,
      HandleStopDevice
<1>6. CASE UNCHANGED vars
  BY <1>6 DEF vars, pnpVars
<1> QED
  BY <1>1, <1>2, <1>3, <1>4, <1>5, <1>6 DEF Next
TimerTypes == /\ ssEnable \in BOOLEAN /\ timer \in BOOLEAN
              /\ dpc \in BOOLEAN /\ noDpcWorkItemPending \in BOOLEAN

LEMMA NextTimerTypes ==
  ASSUME TimerTypes, [Next]_vars
  PROVE  TimerTypes'
<1> USE DEF TimerTypes
<1>1. CASE Timer_Expires \/ DpcRoutine_Idle \/ DpcRoutine_Busy
  <2>1. dpc' \in BOOLEAN /\ noDpcWorkItemPending' \in BOOLEAN
    BY <1>1, Zenon DEF Timer_Expires, DpcRoutine_Idle, DpcRoutine_Busy
  <2>2. UNCHANGED <<ssEnable, timer>>
    BY <1>1 DEF Timer_Expires, DpcRoutine_Idle, DpcRoutine_Busy
  <2> QED
    BY <2>1, <2>2
<1>2. CASE WorkerStep
  <2>1. UNCHANGED <<ssEnable, dpc>>
    BY <1>2 DEF WorkerStep, IdleRequestWorkerRoutine, SubmitIdleRequestIrp_Busy,
        SubmitIdleRequestIrp_NoMemory, SubmitIdleRequestIrp_Prepare, SubmitIdleRequestIrp_Recheck,
        SubmitIdleRequestIrp_Withdraw, SubmitIdleRequestIrp_Free, SubmitIdleRequestIrp_Call,
        timerVars
  <2>2. UNCHANGED timer \/ timer' = FALSE
    BY <1>2 DEF WorkerStep, IdleRequestWorkerRoutine, SubmitIdleRequestIrp_Busy,
        SubmitIdleRequestIrp_NoMemory, SubmitIdleRequestIrp_Prepare, SubmitIdleRequestIrp_Recheck,
        SubmitIdleRequestIrp_Withdraw, SubmitIdleRequestIrp_Free, SubmitIdleRequestIrp_Call,
        timerVars
  <2>3. UNCHANGED noDpcWorkItemPending \/ noDpcWorkItemPending' = TRUE
    BY <1>2 DEF WorkerStep, IdleRequestWorkerRoutine, SubmitIdleRequestIrp_Busy,
        SubmitIdleRequestIrp_NoMemory, SubmitIdleRequestIrp_Prepare, SubmitIdleRequestIrp_Recheck,
        SubmitIdleRequestIrp_Withdraw, SubmitIdleRequestIrp_Free, SubmitIdleRequestIrp_Call,
        WorkItemEnds, timerVars
  <2> QED
    BY <2>1, <2>2, <2>3
<1>3. CASE \E t \in {"create", "pnp"} : CancelSelectSuspend(t)
  BY <1>3 DEF CancelSelectSuspend, CancelSelectSuspend_Grab, IoCancelIrp, CancelSelectSuspend_Free,
      timerVars
<1>4. ASSUME NEW i \in Irps, \/ IdleNotificationCallback(i) \/ Hub_Return(i)
                             \/ IdleNotificationRequestComplete(i)
      PROVE  TimerTypes'
  BY <1>4, HubUnmoved
<1>5. CASE CallbackStep \/ PowerStep
  BY <1>5, PowerUnmoved DEF timerVars
<1>6. CASE FreeBT_DispatchCreate \/ FreeBT_DispatchClose \/ Admit \/ RequestStep
  BY <1>6, AppUnmoved DEF timerVars
<1>7. CASE PnpStep \/ \E irp \in PnpSent : FreeBT_DispatchPnP(irp)
  BY <1>7, PnpUnmoved
<1>8. CASE UNCHANGED vars
  BY <1>8 DEF vars, timerVars
<1> QED
  BY <1>1, <1>2, <1>3, <1>4, <1>5, <1>6, <1>7, <1>8 DEF Next

IdleTypes ==
  /\ noIdleReqPend \in BOOLEAN /\ idleReqPend \in BOOLEAN
  /\ pendingIdleIrp \in Irps \cup {NoIrp}
  /\ freeIdleIrpCount \in Int /\ freeIdleIrpCount <= 2
  /\ allocated \subseteq Irps /\ cancelled \subseteq Irps

\* Freeing the idle request only takes from the count and from the memory.
LEMMA FreeTypes ==
  ASSUME IdleTypes, NEW i, FreeIdleIrp(i)
  PROVE  /\ freeIdleIrpCount' \in Int /\ freeIdleIrpCount' <= 2
         /\ allocated' \subseteq Irps /\ noIdleReqPend' \in BOOLEAN
<1>1. freeIdleIrpCount' \in Int /\ freeIdleIrpCount' <= 2
  BY DEF IdleTypes, FreeIdleIrp
<1>2. allocated' \subseteq Irps
  BY DEF IdleTypes, FreeIdleIrp
<1>3. noIdleReqPend' \in BOOLEAN
  <2>1. noIdleReqPend' = TRUE \/ UNCHANGED noIdleReqPend
    BY Zenon DEF FreeIdleIrp
  <2> QED
    BY <2>1 DEF IdleTypes
<1> QED
  BY <1>1, <1>2, <1>3

LEMMA NextIdleTypes ==
  ASSUME IdleTypes, [Next]_vars
  PROVE  IdleTypes'
<1> USE DEF IdleTypes
<1>1. CASE Timer_Expires \/ DpcRoutine_Idle \/ DpcRoutine_Busy
  BY <1>1 DEF Timer_Expires, DpcRoutine_Idle, DpcRoutine_Busy, idleVars, irpVars
<1>2. CASE SubmitIdleRequestIrp_Prepare
  <2> DEFINE i == CHOOSE j \in FreeMemory : TRUE
  <2>1. i \in Irps
    BY <1>2 DEF SubmitIdleRequestIrp_Prepare, FreeMemory
  <2>2. /\ allocated' = allocated \cup {i} /\ pendingIdleIrp' = i
        /\ freeIdleIrpCount' = 2 /\ UNCHANGED cancelled
    BY <1>2 DEF SubmitIdleRequestIrp_Prepare
  <2>3. noIdleReqPend' \in BOOLEAN /\ idleReqPend' \in BOOLEAN
    BY <1>2, Zenon DEF SubmitIdleRequestIrp_Prepare
  <2> HIDE DEF i
  <2> QED
    BY <2>1, <2>2, <2>3
<1>3. CASE SubmitIdleRequestIrp_Withdraw
  <2>1. noIdleReqPend' \in BOOLEAN /\ idleReqPend' \in BOOLEAN
    BY <1>3, Zenon DEF SubmitIdleRequestIrp_Withdraw
  <2> QED
    BY <1>3, <2>1 DEF SubmitIdleRequestIrp_Withdraw, irpVars
<1>4. CASE SubmitIdleRequestIrp_NoMemory
  <2>1. noIdleReqPend' \in BOOLEAN
    BY <1>4, Zenon DEF SubmitIdleRequestIrp_NoMemory
  <2> QED
    BY <1>4, <2>1 DEF SubmitIdleRequestIrp_NoMemory, irpVars
<1>5. CASE \/ IdleRequestWorkerRoutine \/ SubmitIdleRequestIrp_Busy
           \/ SubmitIdleRequestIrp_Recheck \/ SubmitIdleRequestIrp_Free
           \/ SubmitIdleRequestIrp_Call
  BY <1>5 DEF IdleRequestWorkerRoutine, SubmitIdleRequestIrp_Busy,
      SubmitIdleRequestIrp_Recheck, SubmitIdleRequestIrp_Free, SubmitIdleRequestIrp_Call,
      idleVars, irpVars
<1>6. ASSUME NEW t \in {"create", "pnp"}, CancelSelectSuspend(t)
      PROVE  IdleTypes'
  <2>1. CASE CancelSelectSuspend_Grab(t)
    BY <2>1 DEF CancelSelectSuspend_Grab, irpVars
  <2>2. CASE IoCancelIrp(t)
    BY <2>2 DEF IoCancelIrp, idleVars
  <2>3. CASE CancelSelectSuspend_Free(t)
    BY <2>3, FreeTypes DEF CancelSelectSuspend_Free
  <2> QED
    BY <1>6, <2>1, <2>2, <2>3 DEF CancelSelectSuspend
<1>7. ASSUME NEW i \in Irps, \/ IdleNotificationCallback(i) \/ Hub_Return(i)
                             \/ IdleNotificationRequestComplete(i)
      PROVE  IdleTypes'
  <2>1. CASE IdleNotificationCallback(i) \/ IdleNotificationRequestComplete_PowerUp(i)
    BY <2>1 DEF IdleNotificationCallback, IdleNotificationRequestComplete_PowerUp,
        idleVars, irpVars
  <2>2. CASE Hub_Return(i) \/ IdleNotificationRequestComplete_Arm(i)
    BY <2>2 DEF Hub_Return, IdleNotificationRequestComplete_Arm, idleVars, irpVars
  <2>3. CASE IdleNotificationRequestComplete_Lock(i)
    <3>1. idleReqPend' \in BOOLEAN
      BY <2>3, Zenon DEF IdleNotificationRequestComplete_Lock
    <3> QED
      BY <2>3, <3>1 DEF IdleNotificationRequestComplete_Lock, irpVars
  <2>4. CASE IdleNotificationRequestComplete_Free(i)
    <3>1. UNCHANGED <<idleReqPend, pendingIdleIrp, cancelled>>
      BY <2>4 DEF IdleNotificationRequestComplete_Free
    <3>2. CASE FreeIdleIrp(i)
      BY <3>1, <3>2, FreeTypes
    <3>3. CASE allocated' = allocated \ {i} /\ noIdleReqPend' = TRUE /\ UNCHANGED freeIdleIrpCount
      BY <3>1, <3>3
    <3> QED
      BY <2>4, <3>2, <3>3 DEF IdleNotificationRequestComplete_Free
  <2> QED
    BY <1>7, <2>1, <2>2, <2>3, <2>4 DEF IdleNotificationRequestComplete
<1>8. CASE CallbackStep \/ PowerStep
  BY <1>8, PowerUnmoved DEF idleVars, irpVars
<1>9. CASE FreeBT_DispatchCreate \/ FreeBT_DispatchClose \/ Admit \/ RequestStep
  BY <1>9, AppUnmoved DEF idleVars, irpVars
<1>10. CASE PnpStep \/ \E irp \in PnpSent : FreeBT_DispatchPnP(irp)
  <2>1. UNCHANGED <<irpVars, noIdleReqPend, idleReqPend, pendingIdleIrp>>
    BY <1>10, PnpUnmoved
  <2>2. UNCHANGED freeIdleIrpCount \/ freeIdleIrpCount' = 0
    BY <1>10, PnpUnmoved
  <2> QED
    BY <2>1, <2>2 DEF irpVars
<1>11. CASE UNCHANGED vars
  BY <1>11 DEF vars, idleVars, irpVars
<1> QED
  BY <1>1, <1>2, <1>3, <1>4, <1>5, <1>6, <1>7, <1>8, <1>9, <1>10, <1>11 DEF Next, WorkerStep

\* DevPower is set from a power IRP, and that is to D0 or to D2.
PowerTypes ==
  /\ callback \in {"none", "entered", "waiting"} /\ devPower \in {"D0", "D2"}
  /\ power.pc # "none" => power.to \in {"D0", "D2"}

LEMMA NextPowerTypes ==
  ASSUME PartsOK, PowerTypes, [Next]_vars
  PROVE  PowerTypes'
<1> USE DEF PowerTypes
<1>1. CASE \/ Timer_Expires \/ DpcRoutine_Idle \/ DpcRoutine_Busy \/ WorkerStep
           \/ \E t \in {"create", "pnp"} : CancelSelectSuspend(t)
  BY <1>1, IdleUnmoved DEF powerVars
<1>2. ASSUME NEW i \in Irps, \/ IdleNotificationCallback(i) \/ Hub_Return(i)
                             \/ IdleNotificationRequestComplete(i)
      PROVE  PowerTypes'
  BY <1>2, HubUnmoved DEF IdleNotificationCallback
<1>3. CASE CallbackStep
  BY <1>3 DEF CallbackStep, IdleNotificationCallback_NoMemory, IdleNotificationCallback_PowerDown
<1>4. CASE PowerStep
  <2>1. UNCHANGED callback \/ callback' = "none"
    BY <1>4 DEF PowerStep, FreeBT_DispatchPower, HoldIoRequests_Failed, Worker_Release,
        Worker_Wait, Worker_Restore, FinishDevPoIrp, PoIrpCompletionFunc, PoIrpAsyncCompletionFunc
  <2>2. UNCHANGED devPower \/ FinishDevPoIrp
    BY <1>4 DEF PowerStep, FreeBT_DispatchPower, HoldIoRequests_Failed, Worker_Release,
        Worker_Wait, Worker_Restore, PoIrpCompletionFunc, PoIrpAsyncCompletionFunc
  <2>3. FinishDevPoIrp => power.pc = "down" /\ devPower' \in {devPower, power.to}
    BY DEF FinishDevPoIrp
  <2>4. power'.pc # "none" => power'.to \in {"D0", "D2"}
    BY <1>4 DEF PartsOK, PowerStep, FreeBT_DispatchPower, HoldIoRequests_Failed, Worker_Release,
        Worker_Wait, Worker_Restore, FinishDevPoIrp, PoIrpCompletionFunc, PoIrpAsyncCompletionFunc,
        PowerGoTo, NoPowerIrp
  <2> QED
    BY <2>1, <2>2, <2>3, <2>4
<1>5. CASE FreeBT_DispatchCreate \/ FreeBT_DispatchClose \/ Admit \/ RequestStep
  BY <1>5, AppUnmoved DEF powerVars
<1>6. CASE PnpStep \/ \E irp \in PnpSent : FreeBT_DispatchPnP(irp)
  BY <1>6, PnpUnmoved DEF powerVars
<1>7. CASE UNCHANGED vars
  BY <1>7 DEF vars, powerVars
<1> QED
  BY <1>1, <1>2, <1>3, <1>4, <1>5, <1>6, <1>7 DEF Next

TypeInv == /\ CountInv /\ OneInv /\ CountTypes /\ devState \in DevStates
           /\ TimerTypes /\ IdleTypes /\ PowerTypes

(* Every variable has its type, and FreeIdleIrpCount never stands for more  *)
(* than two owners of the idle request, for any memory, any hub, any PnP    *)
(* requests and whatever fails.                                             *)
THEOREM SuspendTypesCorrect == Spec => []SuspendTypeOK
<1>1. Init => TypeInv
  <2> SUFFICES ASSUME Init PROVE TypeInv
    OBVIOUS
  <2>1. CountTypes /\ TimerTypes
    BY DEF Init, CountTypes, TimerTypes
  <2>2. devState \in DevStates
    BY DEF Init, DevStates
  <2>3. IdleTypes
    <3>1. noIdleReqPend \in BOOLEAN /\ idleReqPend \in BOOLEAN
      BY Zenon DEF Init
    <3>2. pendingIdleIrp = NoIrp /\ freeIdleIrpCount = 0 /\ allocated = {} /\ cancelled = {}
      BY DEF Init
    <3> QED
      BY <3>1, <3>2 DEF IdleTypes
  <2>4. PowerTypes
    BY DEF Init, PowerTypes, NoPowerIrp
  <2> QED
    BY <2>1, <2>2, <2>3, <2>4, InitCount, InitOne DEF TypeInv
<1>2. TypeInv /\ [Next]_vars => TypeInv'
  BY NextCount, NextOne, NextCountTypes, NextDevState, NextTimerTypes, NextIdleTypes,
     NextPowerTypes DEF TypeInv, CountInv
<1>3. TypeInv => SuspendTypeOK
  <2> SUFFICES ASSUME TypeInv PROVE SuspendTypeOK
    OBVIOUS
  <2>1. \A b \in {stopEvent, removeEvent, ssEnable, timer, dpc, noDpcWorkItemPending,
                 noIdleReqPend, idleReqPend} : b \in BOOLEAN
    BY Zenon DEF TypeInv, CountTypes, TimerTypes, IdleTypes
  <2> QED
    BY <2>1 DEF TypeInv, CountInv, PartsOK, OneInv, PlacesOK, CountTypes, DevStates, IdleTypes,
       PowerTypes, SuspendTypeOK
<1> QED
  BY <1>1, <1>2, <1>3, PTL DEF Spec
=============================================================================
