------------------------------ MODULE FbtUsbPower ------------------------------
(***************************************************************************)
(* The FreeBT USB driver again, FbtUsbPnp, now with the power IRPs.        *)
(*                                                                         *)
(* A system power IRP (S-irp) makes the driver ask the power manager for a *)
(* device power IRP (D-irp).  Before a D-irp takes the device out of D0, a *)
(* worker "waits for I/O in progress to finish": it gives up the counts of *)
(* both IRPs and waits for the StopEvent, the one that the PnP queries     *)
(* wait for as well.                                                       *)
(*                                                                         *)
(* As in FbtUsbPnp, selective suspend and wait-wake are off: the only      *)
(* D-irps are those of SendDeviceIrp (FbtUsbSuspend has the others).       *)
(***************************************************************************)
EXTENDS FbtUsbPnp

CONSTANTS
  DeviceState,  (* the S->D mapping array of the device's capabilities      *)
  PnpOverlap    (* PnP requests that may be sent while an S-irp is under way*)

PowerSystemWorking == 1
PowerDeviceD0 == 1

ASSUME PowerAssumption ==
  /\ DOMAIN DeviceState \subseteq Nat /\ PowerSystemWorking \in DOMAIN DeviceState
  /\ \A s \in DOMAIN DeviceState : DeviceState[s] \in Nat
  /\ DeviceState[PowerSystemWorking] = PowerDeviceD0
  /\ PnpOverlap \subseteq PnpIrps

PowerMinors == {"QUERY_POWER", "SET_POWER"}

VARIABLES
  sysPower,   (* SysPower                                                   *)
  devPower,   (* DevPower                                                   *)
  sIrp,       (* the system power IRP and where it stands                   *)
  dIrp        (* the device power IRP and where it stands                   *)

powerVars == <<sysPower, devPower, sIrp, dIrp>>
allVars == <<vars, powerVars>>

NoPowerIrp == [minor |-> "none", to |-> 0, pc |-> "none"]

\* FreeBT_AddDevice.
PowerInit ==
  /\ Init
  /\ sysPower = PowerSystemWorking
  /\ devPower = PowerDeviceD0
  /\ sIrp = NoPowerIrp
  /\ dIrp = NoPowerIrp

\* What the power handlers share with the rest of the driver.
pnpState == <<devState, prevDevState, usbInterface, pnp>>
deviceVars == <<pnpState, queueState, ioVars>>

SAt(pc) == sIrp.pc = pc
DAt(pc) == dIrp.pc = pc
SGoTo(pc) == sIrp' = [sIrp EXCEPT !.pc = pc] /\ UNCHANGED dIrp
DGoTo(pc) == dIrp' = [dIrp EXCEPT !.pc = pc] /\ UNCHANGED sIrp

-----------------------------------------------------------------------------
(* The system power IRP.                                                   *)

\* FreeBT_DispatchPower tests the device state...
FreeBT_DispatchPower_S(minor, s) ==
  /\ SAt("none")
  /\ devState \notin {"Removed", "NotStarted"}
  /\ pnp.irp \in PnpOverlap \cup {"none"}
  /\ sIrp' = [minor |-> minor, to |-> s, pc |-> "checked"]
  /\ UNCHANGED <<vars, sysPower, devPower, dIrp>>

\* ... counts the IRP, and HandleSystemQueryPower and HandleSystemSetPower
\* pass it down.
HandleSystemPower ==
  /\ SAt("checked")
  /\ SGoTo("down")
  /\ FreeBT_IoIncrement
  /\ UNCHANGED <<deviceVars, sysPower, devPower>>

\* SysPoCompletionRoutine: the lower drivers have failed the S-irp.
SysPoCompletionRoutine_Failed ==
  /\ SAt("down")
  /\ sIrp' = NoPowerIrp
  /\ FreeBT_IoDecrement
  /\ UNCHANGED <<deviceVars, sysPower, devPower, dIrp>>

\* SysPoCompletionRoutine keeps the S-irp; SendDeviceIrp gets no memory or no
\* D-irp and completes the S-irp with an error, ...
CachedSysPower ==
  sysPower' = IF sIrp.minor = "SET_POWER" THEN sIrp.to ELSE sysPower

SendDeviceIrp_Failed ==
  /\ SAt("down")
  /\ CachedSysPower
  /\ sIrp' = NoPowerIrp
  /\ FreeBT_IoDecrement
  /\ UNCHANGED <<deviceVars, devPower, dIrp>>

\* Faulty variant: the S-irp is completed, its D-irp still under way.
SendDeviceIrp_NotKept ==
  /\ SAt("down")
  /\ CachedSysPower
  /\ sIrp' = NoPowerIrp
  /\ dIrp' = [minor |-> sIrp.minor, to |-> DeviceState[sIrp.to], pc |-> "requested"]
  /\ FreeBT_IoDecrement
  /\ UNCHANGED <<deviceVars, devPower>>

\* ... or asks for the D-irp that the mapping gives.
SendDeviceIrp ==
  /\ SAt("down")
  /\ CachedSysPower
  /\ sIrp' = [sIrp EXCEPT !.pc = "deviceIrp"]
  /\ dIrp' = [minor |-> sIrp.minor, to |-> DeviceState[sIrp.to], pc |-> "requested"]
  /\ UNCHANGED <<vars, devPower>>

\* Faulty variant: the count of the S-irp is forgotten with the D-irp's result.
DevPoCompletionRoutine_NoDecrement ==
  /\ DAt("completed")
  /\ sIrp' = NoPowerIrp /\ dIrp' = NoPowerIrp
  /\ UNCHANGED <<vars, sysPower, devPower>>

\* The D-irp is completed, and the S-irp with its status.
DevPoCompletionRoutine ==
  /\ DAt("completed")
  /\ sIrp' = NoPowerIrp /\ dIrp' = NoPowerIrp
  /\ FreeBT_IoDecrement
  /\ UNCHANGED <<deviceVars, sysPower, devPower>>

-----------------------------------------------------------------------------
(* The device power IRP.                                                   *)

\* FreeBT_DispatchPower: a removed device fails it, one that is not started
\* passes it down, both uncounted.
FreeBT_DispatchPower_D_Uncounted ==
  /\ DAt("requested")
  /\ devState \in {"Removed", "NotStarted"}
  /\ DGoTo("completed")
  /\ UNCHANGED <<vars, sysPower, devPower>>

FreeBT_DispatchPower_D ==
  /\ DAt("requested")
  /\ devState \notin {"Removed", "NotStarted"}
  /\ DGoTo("checked")
  /\ UNCHANGED <<vars, sysPower, devPower>>

\* Faulty variant: the D-irp is not counted.
FreeBT_DispatchPower_D_NotCounted ==
  /\ DAt("checked")
  /\ DGoTo("counted")
  /\ UNCHANGED <<vars, sysPower, devPower>>

FreeBT_DispatchPower_D_Count ==
  /\ DAt("checked")
  /\ DGoTo("counted")
  /\ FreeBT_IoIncrement
  /\ UNCHANGED <<deviceVars, sysPower, devPower>>

\* A D-irp that must wait for the I/O in progress: a query for no more power
\* than the device has, a set from D0 to less.
MustHold ==
  IF dIrp.minor = "QUERY_POWER"
    THEN dIrp.to >= devPower
    ELSE devPower = PowerDeviceD0 /\ dIrp.to > devPower

\* HandleDeviceQueryPower: a query for more power is passed down at once.
HandleDeviceQueryPower ==
  /\ DAt("counted") /\ dIrp.minor = "QUERY_POWER" /\ ~MustHold
  /\ DGoTo("completed")
  /\ FreeBT_IoDecrement
  /\ UNCHANGED <<deviceVars, sysPower, devPower>>

\* HandleDeviceSetPower: more power...
HandleDeviceSetPower_Up ==
  /\ DAt("counted") /\ dIrp.minor = "SET_POWER" /\ dIrp.to < devPower
  /\ DGoTo("up")
  /\ UNCHANGED <<vars, sysPower, devPower>>

\* ... D0 to D0, which reopens the queue, or less power when already below D0.
HandleDeviceSetPower_Same ==
  /\ DAt("counted") /\ dIrp.minor = "SET_POWER"
  /\ dIrp.to >= devPower /\ ~MustHold
  /\ DGoTo("down")
  /\ queueState' = IF dIrp.to = PowerDeviceD0 THEN "AllowRequests" ELSE queueState
  /\ UNCHANGED <<pnpState, countVars, ioVars, sysPower, devPower>>

\* HoldIoRequests queues its worker, ...
HoldIoRequests ==
  /\ DAt("counted") /\ MustHold
  /\ DGoTo("held")
  /\ queueState' = "HoldRequests"
  /\ UNCHANGED <<pnpState, countVars, ioVars, sysPower, devPower>>

\* ... or finds no memory, and the D-irp fails with the queue left on hold.
HoldIoRequests_Failed ==
  /\ DAt("counted") /\ MustHold
  /\ DGoTo("completed")
  /\ queueState' = "HoldRequests"
  /\ FreeBT_IoDecrement
  /\ UNCHANGED <<pnpState, ioVars, sysPower, devPower>>

-----------------------------------------------------------------------------
(* HoldIoRequestsWorkerRoutine.                                            *)

\* Faulty variant: the count of the D-irp only is given up.
Worker_Release_Once ==
  /\ DAt("held") /\ DGoTo("released")
  /\ FreeBT_IoDecrement
  /\ UNCHANGED <<deviceVars, sysPower, devPower>>

\* "Invoke FreeBT_IoDecrement twice: once each for the S-Irp and D-Irp."
Worker_Release ==
  /\ \/ DAt("held") /\ DGoTo("releasing")
     \/ DAt("releasing") /\ DGoTo("released")
  /\ FreeBT_IoDecrement
  /\ UNCHANGED <<deviceVars, sysPower, devPower>>

Worker_Wait ==
  /\ DAt("released")
  /\ DGoTo("waiting")
  /\ KeWaitForStopEvent("worker")
  /\ UNCHANGED <<deviceVars, outStandingIO, removeEvent, sysPower, devPower>>

\* The wait is over: "increment twice to restore the count", pass it down.
Worker_Restore ==
  /\ \/ DAt("waiting") /\ "worker" \notin stopWaiters /\ DGoTo("restoring")
     \/ DAt("restoring") /\ DGoTo("down")
  /\ FreeBT_IoIncrement
  /\ UNCHANGED <<deviceVars, sysPower, devPower>>

Worker == Worker_Release \/ Worker_Wait \/ Worker_Restore

-----------------------------------------------------------------------------
(* The lower drivers return the D-irp.                                     *)

\* FinishDevPoDnIrp, with the status of the lower drivers.
FinishDevPoDnIrp ==
  /\ DAt("down")
  /\ DGoTo("completed")
  /\ devPower' \in IF dIrp.minor = "SET_POWER" THEN {devPower, dIrp.to} ELSE {devPower}
  /\ FreeBT_IoDecrement
  /\ UNCHANGED <<deviceVars, sysPower>>

FinishDevPoUpIrp_Failed ==
  /\ DAt("up")
  /\ DGoTo("completed")
  /\ FreeBT_IoDecrement
  /\ UNCHANGED <<deviceVars, sysPower, devPower>>

\* FinishDevPoUpIrp, SetDeviceFunctional.
SetDeviceFunctional ==
  /\ DAt("up")
  /\ DGoTo("completed")
  /\ devPower' = dIrp.to
  /\ queueState' = IF dIrp.to = PowerDeviceD0 THEN "AllowRequests" ELSE queueState
  /\ FreeBT_IoDecrement
  /\ UNCHANGED <<pnpState, ioVars, sysPower>>

PowerStep ==
  \/ HandleSystemPower
  \/ SysPoCompletionRoutine_Failed \/ SendDeviceIrp_Failed \/ SendDeviceIrp
  \/ DevPoCompletionRoutine
  \/ FreeBT_DispatchPower_D_Uncounted
  \/ FreeBT_DispatchPower_D \/ FreeBT_DispatchPower_D_Count
  \/ HandleDeviceQueryPower
  \/ HandleDeviceSetPower_Up \/ HandleDeviceSetPower_Same
  \/ HoldIoRequests \/ HoldIoRequests_Failed
  \/ Worker
  \/ FinishDevPoDnIrp \/ FinishDevPoUpIrp_Failed \/ SetDeviceFunctional

-----------------------------------------------------------------------------
\* A step of the rest of the driver, or a PnP request from the PnP manager.
DriverNext ==
  /\ Next
  /\ pnp.irp = "none" /\ pnp'.irp # "none" /\ ~SAt("none") => pnp'.irp \in PnpOverlap
  /\ UNCHANGED powerVars

PowerNext ==
  \/ DriverNext
  \/ PowerStep
  \/ \E minor \in PowerMinors, s \in DOMAIN DeviceState : FreeBT_DispatchPower_S(minor, s)

PowerSpec == PowerInit /\ [][PowerNext]_allVars

\* As in FbtUsbPnp; and the lower drivers return every power IRP.
PowerFairness ==
  /\ WF_allVars(PnpStep /\ UNCHANGED powerVars)
  /\ WF_allVars(WmiStep /\ UNCHANGED powerVars)
  /\ \A h \in Handles : WF_allVars(FreeBT_DispatchClean_Done(h) /\ UNCHANGED powerVars)
  /\ \A r \in Requests : WF_allVars(RequestStep(r) /\ UNCHANGED powerVars)
  /\ \A r \in Requests \ EventReads : WF_allVars(Completion(r) /\ UNCHANGED powerVars)
  /\ WF_allVars(PowerStep)

PowerFairSpec == PowerSpec /\ PowerFairness

-----------------------------------------------------------------------------
(* Properties.                                                             *)

\* The power IRPs and levels; a D-irp is under way exactly while its S-irp
\* waits for it.
IrpTypeOK ==
  /\ sysPower \in DOMAIN DeviceState
  /\ devPower \in {DeviceState[s] : s \in DOMAIN DeviceState}
  /\ sIrp \in [minor : PowerMinors \cup {"none"}, to : DOMAIN DeviceState \cup {0},
               pc : {"none", "checked", "down", "deviceIrp"}]
  /\ dIrp \in [minor : PowerMinors \cup {"none"},
               to : {DeviceState[s] : s \in DOMAIN DeviceState} \cup {0},
               pc : {"none", "requested", "checked", "counted", "held", "releasing",
                     "released", "waiting", "restoring", "down", "up", "completed"}]
  /\ DAt("none") <=> ~SAt("deviceIrp")

\* Every variable has its type, and there are two threads that wait for the
\* StopEvent.
PowerTypeOK ==
  /\ DriverTypeOK
  /\ stopWaiters \subseteq {"pnp", "worker"}
  /\ IrpTypeOK

\* What the power IRPs hold of the count: each its own, until the worker gives
\* both up for as long as it waits.
PowerCount ==
  CASE SAt("none") \/ SAt("checked") -> 0
    [] DAt("releasing") \/ DAt("restoring") -> 1
    [] DAt("released") \/ DAt("waiting") -> 0
    [] DAt("counted") \/ DAt("held") \/ DAt("down") \/ DAt("up") -> 2
    [] OTHER -> 1

\* OutStandingIO with the power IRPs: every path of both IRPs, with failures of
\* the lower drivers, of the power manager and of memory at each point, takes
\* as many counts as it gives back, and the worker gives up and takes back what
\* the two IRPs hold.
PowerCountExact == CountIs(PowerCount)

\* The wait of the worker for the StopEvent is over.
HoldOver == DAt("waiting") /\ "worker" \notin stopWaiters

\* "wait for I/O in progress to finish" (fbtpwr.c:788): when the worker's wait
\* ends, no request of an application and no PnP request is in the driver, and
\* when a query's wait ends, no power IRP either but one that waits as well.
WaitsEndIdle ==
  [][/\ ~HoldOver /\ HoldOver' => NobodyInside' /\ PnpCount' = 1
     /\ ~WaitOver /\ WaitOver' => NobodyInside' /\ PowerCount' = 0]_allVars

\* Others inside the driver whom the worker waits for.
OthersInside == ~NobodyInside \/ PnpCount = 2

\* No query is under way together with a system power IRP.
QueriesKeepClear == [](pnp.irp \in Queries => SAt("none"))

\* Every system power IRP is completed in the end, unless requests overlap in
\* the driver for ever.  A query that overlaps it may take the one signal of
\* the StopEvent from the worker, which then waits until another request ends:
\* hence the premise.
PowerIsAnswered == QueriesKeepClear => []<>SAt("none") \/ <>[]OthersInside
=============================================================================
