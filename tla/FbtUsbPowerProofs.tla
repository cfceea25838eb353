--------------------------- MODULE FbtUsbPowerProofs ---------------------------
(* Proofs about FbtUsbPower: what FbtUsbPnpProofs says of OutStandingIO      *)
(* without power IRPs holds with them, for the rest of the count.            *)
EXTENDS FbtUsbPower, FbtUsbPnpProofs

USE DEF pnpVars, countVars, ioVars, powerVars, pnpState, deviceVars

\* The power levels the driver may be asked for.
DeviceLevels == {DeviceState[s] : s \in DOMAIN DeviceState}

\* A power IRP that is in the driver asks for a state there is.
LevelsOK ==
  /\ ~SAt("none") => sIrp.to \in DOMAIN DeviceState
  /\ ~DAt("none") => dIrp.to \in DeviceLevels

PowerInv == PowerTypeOK /\ PowerCountExact /\ LevelsOK

LEMMA PowerCountType == PowerCount \in 0 .. 2
BY DEF PowerCount

(* Power IRPs leave what the driver's requests hold alone.                   *)
LEMMA OffsetCount ==
  ASSUME PowerTypeOK, PowerCountExact, UNCHANGED <<ioVars, pnp>>,
         outStandingIO' = outStandingIO + PowerCount' - PowerCount
  PROVE  PowerCountExact'
<1>1. Counted' = Counted /\ Lacking' = Lacking /\ Cleaning' = Cleaning /\ Granted' = Granted
  BY HandlesStay, RequestsStay
<1>2. PnpCount' = PnpCount
  BY PnpStays
<1>3. PowerCount \in Int /\ PowerCount' \in Int /\ PnpCount \in Int /\ outStandingIO \in Int
  <2>1. PowerCount \in 0 .. 2 /\ PowerCount' \in 0 .. 2
    BY DEF PowerCount
  <2> QED
    BY <2>1, PnpCountType DEF PowerTypeOK, DriverTypeOK
<1> QED
  BY <1>1, <1>2, <1>3, Sizes DEF PowerCountExact, CountIs

(* Every step of a power IRP takes or gives back of OutStandingIO what it    *)
(* gains or loses.                                                           *)
LEMMA PowerStepCount ==
  ASSUME PowerTypeOK, PowerCountExact, PowerStep PROVE PowerCountExact'
<1> USE OffsetCount DEF PowerTypeOK, IrpTypeOK, DriverTypeOK, PowerCount, SAt, DAt, SGoTo, DGoTo, NoPowerIrp
<1>1. CASE HandleSystemPower
  BY <1>1 DEF HandleSystemPower, FreeBT_IoIncrement
<1>2. CASE SysPoCompletionRoutine_Failed
  BY <1>2 DEF SysPoCompletionRoutine_Failed, FreeBT_IoDecrement
<1>3. CASE SendDeviceIrp_Failed
  BY <1>3 DEF SendDeviceIrp_Failed, FreeBT_IoDecrement
<1>4. CASE SendDeviceIrp
  BY <1>4 DEF SendDeviceIrp, vars
<1>5. CASE DevPoCompletionRoutine
  BY <1>5 DEF DevPoCompletionRoutine, FreeBT_IoDecrement
<1>6. CASE FreeBT_DispatchPower_D_Uncounted
  BY <1>6 DEF FreeBT_DispatchPower_D_Uncounted, vars
<1>7. CASE FreeBT_DispatchPower_D
  BY <1>7 DEF FreeBT_DispatchPower_D, vars
<1>8. CASE FreeBT_DispatchPower_D_Count
  BY <1>8 DEF FreeBT_DispatchPower_D_Count, FreeBT_IoIncrement
<1>9. CASE HandleDeviceQueryPower
  BY <1>9 DEF HandleDeviceQueryPower, FreeBT_IoDecrement
<1>10. CASE HandleDeviceSetPower_Up
  BY <1>10 DEF HandleDeviceSetPower_Up, vars
<1>11. CASE HandleDeviceSetPower_Same
  BY <1>11 DEF HandleDeviceSetPower_Same
<1>12. CASE HoldIoRequests
  BY <1>12 DEF HoldIoRequests
<1>13. CASE HoldIoRequests_Failed
  BY <1>13 DEF HoldIoRequests_Failed, FreeBT_IoDecrement
<1>14. CASE Worker_Release
  BY <1>14 DEF Worker_Release, FreeBT_IoDecrement
<1>15. CASE Worker_Wait
  BY <1>15 DEF Worker_Wait
<1>16. CASE Worker_Restore
  BY <1>16 DEF Worker_Restore, FreeBT_IoIncrement
<1>17. CASE FinishDevPoDnIrp
  BY <1>17 DEF FinishDevPoDnIrp, FreeBT_IoDecrement
<1>18. CASE FinishDevPoUpIrp_Failed
  BY <1>18 DEF FinishDevPoUpIrp_Failed, FreeBT_IoDecrement
<1>19. CASE SetDeviceFunctional
  BY <1>19 DEF SetDeviceFunctional, FreeBT_IoDecrement
<1> QED
  BY <1>1, <1>2, <1>3, <1>4, <1>5, <1>6, <1>7, <1>8, <1>9, <1>10, <1>11, <1>12,
     <1>13, <1>14, <1>15, <1>16, <1>17, <1>18, <1>19 DEF PowerStep, Worker

(* A step of the rest of the driver leaves the power IRPs' share alone.      *)
LEMMA DriverStepCount ==
  ASSUME PowerTypeOK, PowerCountExact, [Next]_vars, UNCHANGED powerVars
  PROVE  PowerCountExact' /\ DriverTypeOK'
<1>1. PICK n \in 0 .. 2 : PowerCount = n
  BY PowerCountType
<1>2. CountIs(n) /\ DriverTypeOK /\ n \in Int
  BY <1>1 DEF PowerCountExact, CountIs, PowerTypeOK
<1>3. CountIs(n)' /\ DriverTypeOK'
  BY <1>2, NextCount, NextType
<1>4. PowerCount' = n
  BY <1>1 DEF PowerCount, SAt, DAt
<1> QED
  BY <1>3, <1>4 DEF PowerCountExact, CountIs

(* What a power IRP may do to the count and its events.                      *)
LEMMA PowerCountSteps ==
  ASSUME PowerStep
  PROVE  \/ FreeBT_IoIncrement \/ FreeBT_IoDecrement \/ UNCHANGED countVars
         \/ Worker_Wait
BY DEF vars, PowerStep, Worker, HandleSystemPower, SysPoCompletionRoutine_Failed,
    SendDeviceIrp_Failed, SendDeviceIrp, DevPoCompletionRoutine,
    FreeBT_DispatchPower_D_Uncounted, FreeBT_DispatchPower_D, FreeBT_DispatchPower_D_Count,
    HandleDeviceQueryPower, HandleDeviceSetPower_Up, HandleDeviceSetPower_Same,
    HoldIoRequests, HoldIoRequests_Failed, Worker_Release, Worker_Restore,
    FinishDevPoDnIrp, FinishDevPoUpIrp_Failed, SetDeviceFunctional

(* Power IRPs leave the PnP request, the device state and I/O requests alone. *)
LEMMA PowerPnpSteps == ASSUME PowerStep PROVE UNCHANGED <<pnpState, ioVars>>
BY DEF vars, PowerStep, Worker, HandleSystemPower, SysPoCompletionRoutine_Failed,
    SendDeviceIrp_Failed, SendDeviceIrp, DevPoCompletionRoutine,
    FreeBT_DispatchPower_D_Uncounted, FreeBT_DispatchPower_D, FreeBT_DispatchPower_D_Count,
    HandleDeviceQueryPower, HandleDeviceSetPower_Up, HandleDeviceSetPower_Same,
    HoldIoRequests, HoldIoRequests_Failed, Worker_Release, Worker_Wait, Worker_Restore,
    FinishDevPoDnIrp, FinishDevPoUpIrp_Failed, SetDeviceFunctional

(* Every step of a power IRP keeps the types of the driver's variables, ...  *)
LEMMA PowerStepDriverType == ASSUME PowerTypeOK, PowerStep PROVE DriverTypeOK'
<1>1. UNCHANGED <<pnpState, ioVars>>
  BY PowerPnpSteps
<1>2. queueState' \in QueueStates
  BY DEF PowerTypeOK, DriverTypeOK, QueueStates, vars, PowerStep, Worker, HandleSystemPower,
      SysPoCompletionRoutine_Failed, SendDeviceIrp_Failed,
      SendDeviceIrp, DevPoCompletionRoutine, FreeBT_DispatchPower_D_Uncounted,
      FreeBT_DispatchPower_D, FreeBT_DispatchPower_D_Count, HandleDeviceQueryPower,
      HandleDeviceSetPower_Up, HandleDeviceSetPower_Same, HoldIoRequests, HoldIoRequests_Failed,
      Worker_Release, Worker_Wait, Worker_Restore, FinishDevPoDnIrp, FinishDevPoUpIrp_Failed,
      SetDeviceFunctional
<1>3. CountType'
  <2>1. CASE Worker_Wait
    <3>1. stopEvent' = FALSE
      BY <2>1 DEF Worker_Wait, KeWaitForStopEvent
    <3>2. stopEvent' \in BOOLEAN
      BY <3>1, Zenon
    <3> QED
      BY <2>1, <3>2 DEF Worker_Wait, PowerTypeOK, DriverTypeOK, CountType
  <2>2. CASE UNCHANGED countVars
    BY <2>2 DEF PowerTypeOK, DriverTypeOK, CountType
  <2>3. DriverTypeOK
    BY DEF PowerTypeOK
  <2> QED
    BY <2>1, <2>2, <2>3, PowerCountSteps, IncrementType, DecrementType
<1> QED
  BY <1>1, <1>2, <1>3 DEF PowerTypeOK, DriverTypeOK, CountType

(* ... and those of the power IRPs, each in the state its partner expects.   *)
LEMMA PowerStepType ==
  ASSUME PowerInv, PowerStep \/ \E minor \in PowerMinors, s \in DOMAIN DeviceState :
                                  FreeBT_DispatchPower_S(minor, s)
  PROVE  IrpTypeOK' /\ LevelsOK'
<1> USE DEF PowerInv, PowerTypeOK, IrpTypeOK, LevelsOK, DeviceLevels, SAt, DAt, SGoTo, DGoTo, NoPowerIrp
<1>0. ASSUME NEW minor \in PowerMinors, NEW s \in DOMAIN DeviceState, FreeBT_DispatchPower_S(minor, s)
      PROVE  IrpTypeOK' /\ LevelsOK'
  BY <1>0 DEF FreeBT_DispatchPower_S
<1>1. CASE HandleSystemPower
  BY <1>1 DEF HandleSystemPower
<1>2. CASE SysPoCompletionRoutine_Failed
  BY <1>2 DEF SysPoCompletionRoutine_Failed
<1>3. CASE SendDeviceIrp_Failed
  BY <1>3 DEF SendDeviceIrp_Failed, CachedSysPower
<1>4. CASE SendDeviceIrp
  BY <1>4 DEF SendDeviceIrp, CachedSysPower
<1>5. CASE DevPoCompletionRoutine
  BY <1>5 DEF DevPoCompletionRoutine
<1>6. CASE FreeBT_DispatchPower_D_Uncounted
  BY <1>6 DEF FreeBT_DispatchPower_D_Uncounted
<1>7. CASE FreeBT_DispatchPower_D
  BY <1>7 DEF FreeBT_DispatchPower_D
<1>8. CASE FreeBT_DispatchPower_D_Count
  BY <1>8 DEF FreeBT_DispatchPower_D_Count
<1>9. CASE HandleDeviceQueryPower
  BY <1>9 DEF HandleDeviceQueryPower
<1>10. CASE HandleDeviceSetPower_Up
  BY <1>10 DEF HandleDeviceSetPower_Up
<1>11. CASE HandleDeviceSetPower_Same
  BY <1>11 DEF HandleDeviceSetPower_Same
<1>12. CASE HoldIoRequests
  BY <1>12 DEF HoldIoRequests
<1>13. CASE HoldIoRequests_Failed
  BY <1>13 DEF HoldIoRequests_Failed
<1>14. CASE Worker_Release
  BY <1>14 DEF Worker_Release
<1>15. CASE Worker_Wait
  BY <1>15 DEF Worker_Wait
<1>16. CASE Worker_Restore
  BY <1>16 DEF Worker_Restore
<1>17. CASE FinishDevPoDnIrp
  BY <1>17 DEF FinishDevPoDnIrp
<1>18. CASE FinishDevPoUpIrp_Failed
  BY <1>18 DEF FinishDevPoUpIrp_Failed
<1>19. CASE SetDeviceFunctional
  BY <1>19 DEF SetDeviceFunctional
<1> QED
  BY <1>0, <1>1, <1>2, <1>3, <1>4, <1>5, <1>6, <1>7, <1>8, <1>9, <1>10, <1>11, <1>12,
     <1>13, <1>14, <1>15, <1>16, <1>17, <1>18, <1>19 DEF PowerStep, Worker

LEMMA NextPowerInv == PowerInv /\ [PowerNext]_allVars => PowerInv'
<1> SUFFICES ASSUME PowerInv, [PowerNext]_allVars PROVE PowerInv'
  OBVIOUS
<1> USE DEF PowerInv
<1>1. CASE [Next]_vars /\ UNCHANGED powerVars
  <2>1. PowerCountExact' /\ DriverTypeOK'
    BY <1>1, DriverStepCount
  <2>2. stopWaiters' \subseteq {"pnp", "worker"}
    BY <1>1, NewWaiters DEF PowerTypeOK
  <2>3. IrpTypeOK' /\ LevelsOK'
    BY <1>1 DEF PowerTypeOK, IrpTypeOK, LevelsOK, SAt, DAt
  <2> QED
    BY <2>1, <2>2, <2>3 DEF PowerTypeOK
<1>2. CASE PowerStep
  <2>1. stopWaiters' \subseteq {"pnp", "worker"}
    BY <1>2, PowerCountSteps
    DEF PowerTypeOK, FreeBT_IoIncrement, FreeBT_IoDecrement, KeSetStopEvent, Worker_Wait,
        KeWaitForStopEvent
  <2> QED
    BY <1>2, <2>1, PowerStepCount, PowerStepDriverType, PowerStepType DEF PowerTypeOK
<1>3. ASSUME NEW minor \in PowerMinors, NEW s \in DOMAIN DeviceState,
             FreeBT_DispatchPower_S(minor, s)
      PROVE  PowerInv'
  <2>1. DriverTypeOK' /\ stopWaiters' \subseteq {"pnp", "worker"}
    BY <1>3 DEF FreeBT_DispatchPower_S, PowerTypeOK, DriverTypeOK, vars
  <2>2. PowerCountExact'
    BY <1>3, OffsetCount DEF FreeBT_DispatchPower_S, vars, PowerCount, SAt, DAt, PowerTypeOK,
        DriverTypeOK
  <2> QED
    BY <1>3, <2>1, <2>2, PowerStepType DEF PowerTypeOK
<1> QED
  BY <1>1, <1>2, <1>3 DEF PowerNext, DriverNext, allVars

LEMMA InitPowerInv == PowerInit => PowerInv
<1> SUFFICES ASSUME PowerInit PROVE PowerInv
  OBVIOUS
<1>1. DriverTypeOK /\ CountIs(0) /\ stopWaiters = {}
  BY InitType DEF PowerInit, Init
<1>2. IrpTypeOK /\ LevelsOK
  BY PowerAssumption
  DEF PowerInit, IrpTypeOK, LevelsOK, DeviceLevels, SAt, DAt, NoPowerIrp, PowerMinors
<1>3. PowerCount = 0
  <2>1. sIrp.pc = "none" /\ dIrp.pc = "none"
    BY DEF PowerInit, NoPowerIrp
  <2> QED
    BY <2>1 DEF PowerCount, SAt, DAt
<1> QED
  BY <1>1, <1>2, <1>3 DEF PowerInv, PowerTypeOK, PowerCountExact

(* OutStandingIO is exact with the power IRPs, however many requests, files  *)
(* and power states there are and whatever fails.                            *)
THEOREM PowerCountIsExact == PowerSpec => [](PowerTypeOK /\ PowerCountExact)
<1> QED
  BY InitPowerInv, NextPowerInv, PTL DEF PowerSpec, PowerInv

(* The driver's variables and the two power IRPs keep their types, and only  *)
(* a query to stop and the worker ever wait for StopEvent, however many      *)
(* requests, files and power states there are and whatever fails.            *)
THEOREM PowerTypesCorrect == PowerSpec => []PowerTypeOK
  BY PowerCountIsExact, PTL

-----------------------------------------------------------------------------
(* The waits.                                                              *)

Leaving == pnp.irp = "REMOVE" \/ pnp.pc = "deleted"

\* No removal while a system power IRP is in the driver; the worker is blocked
\* only in its wait.
OverlapInv ==
  /\ Leaving => SAt("none")
  /\ "worker" \in stopWaiters => DAt("waiting")

PowerWaitInv == PowerInv /\ EventInv /\ StateInv /\ AllCounted /\ OverlapInv

LEMMA PowerEventInv ==
  ASSUME PowerTypeOK, EventInv, PowerStep PROVE EventInv'
<1> USE DEF PowerTypeOK, DriverTypeOK
<1>1. UNCHANGED pnp
  BY PowerPnpSteps
<1>2. CASE FreeBT_IoIncrement
  BY <1>1, <1>2, IncrementEvent DEF EventInv, FreeBT_IoIncrement
<1>3. CASE FreeBT_IoDecrement
  <2>1. stopWaiters' \subseteq stopWaiters
    BY <1>3 DEF FreeBT_IoDecrement, KeSetStopEvent
  <2> QED
    BY <1>1, <1>3, <2>1, DecrementEvent DEF EventInv
<1>4. CASE UNCHANGED countVars
  BY <1>1, <1>4 DEF EventInv
<1>5. CASE Worker_Wait
  BY <1>1, <1>5 DEF Worker_Wait, KeWaitForStopEvent, EventInv
<1> QED
  BY <1>2, <1>3, <1>4, <1>5, PowerCountSteps

(* A device is removed by a request of the PnP manager.                    *)
LEMMA LeavingStep ==
  ASSUME [Next]_vars, DriverTypeOK
  PROVE  Leaving' => Leaving \/ (pnp.irp = "none" /\ pnp'.irp = "REMOVE")
<1>1. CASE PnpStep
  <2> USE DEF Leaving, At, GoTo, Answered, DriverTypeOK, Queries
  <2>1. CASE FreeBT_DispatchPnP_Done
    BY <2>1 DEF FreeBT_DispatchPnP_Done
  <2>2. CASE HandleOther
    BY <2>2 DEF HandleOther
  <2>3. CASE HandleStartDevice_Send
    BY <2>3 DEF HandleStartDevice_Send
  <2>4. CASE HandleStartDevice_Fail
    BY <2>4 DEF HandleStartDevice_Fail
  <2>5. CASE HandleStartDevice_Work
    BY <2>5 DEF HandleStartDevice_Work
  <2>6. CASE HandleQuery_Hold
    BY <2>6 DEF HandleQuery_Hold
  <2>7. CASE HandleQuery_Release
    BY <2>7 DEF HandleQuery_Release
  <2>8. CASE HandleQuery_Wait
    BY <2>8 DEF HandleQuery_Wait
  <2>9. CASE HandleQuery_Return
    BY <2>9 DEF HandleQuery_Return
  <2>10. CASE HandleCancel_Restore
    BY <2>10 DEF HandleCancel_Restore
  <2>11. CASE HandleCancel_Nothing
    BY <2>11 DEF HandleCancel_Nothing
  <2>12. CASE HandleStopDevice
    BY <2>12 DEF HandleStopDevice
  <2>13. CASE HandleStopDevice_Release
    BY <2>13 DEF HandleStopDevice_Release
  <2>14. CASE HandleSurpriseRemoval
    BY <2>14 DEF HandleSurpriseRemoval
  <2>15. CASE HandleRemoveDevice_Fail
    BY <2>15 DEF HandleRemoveDevice_Fail
  <2>16. CASE HandleRemoveDevice
    BY <2>16 DEF HandleRemoveDevice
  <2>17. CASE FreeBT_WmiDeRegistration
    BY <2>17 DEF FreeBT_WmiDeRegistration
  <2>18. CASE HandleRemoveDevice_Decrement
    BY <2>18 DEF HandleRemoveDevice_Decrement
  <2>19. CASE HandleRemoveDevice_Delete
    BY <2>19 DEF HandleRemoveDevice_Delete
  <2> QED
    BY <1>1, <2>1, <2>2, <2>3, <2>4, <2>5, <2>6, <2>7, <2>8, <2>9, <2>10,
       <2>11, <2>12, <2>13, <2>14, <2>15, <2>16, <2>17, <2>18, <2>19 DEF PnpStep
<1>2. ASSUME NEW irp \in PnpIrps, FreeBT_DispatchPnP(irp)
      PROVE  Leaving' => pnp.irp = "none" /\ pnp'.irp = "REMOVE"
  BY <1>2 DEF Leaving, FreeBT_DispatchPnP, At
<1>3. CASE UNCHANGED pnp
  BY <1>3 DEF Leaving
<1>4. PnpStep \/ (\E irp \in PnpIrps : FreeBT_DispatchPnP(irp)) \/ UNCHANGED pnp
  BY PnpSteps DEF vars, pnpVars
<1> QED
  BY <1>1, <1>2, <1>3, <1>4

LEMMA NextOverlapInv ==
  ASSUME "REMOVE" \notin PnpOverlap, PowerInv, StateInv, OverlapInv, [PowerNext]_allVars
  PROVE  OverlapInv'
<1> USE DEF PowerInv, PowerTypeOK, IrpTypeOK, OverlapInv, SAt, DAt
<1>1. CASE [Next]_vars /\ UNCHANGED powerVars
            /\ (pnp.irp = "none" /\ pnp'.irp # "none" /\ ~SAt("none") => pnp'.irp \in PnpOverlap)
  <2>1. "worker" \in stopWaiters' => DAt("waiting")'
    BY <1>1, NewWaiters
  <2>2. Leaving' => Leaving \/ (pnp.irp = "none" /\ pnp'.irp = "REMOVE")
    BY <1>1, LeavingStep
  <2> QED
    BY <1>1, <2>1, <2>2
<1>2. CASE PowerStep
  <2>1. UNCHANGED pnp
    BY <1>2, PowerPnpSteps
  <2>2. ~SAt("none")
    BY <1>2 DEF PowerStep, Worker, HandleSystemPower, SysPoCompletionRoutine_Failed,
      SendDeviceIrp_Failed, SendDeviceIrp, DevPoCompletionRoutine,
      FreeBT_DispatchPower_D_Uncounted, FreeBT_DispatchPower_D, FreeBT_DispatchPower_D_Count,
      HandleDeviceQueryPower, HandleDeviceSetPower_Up, HandleDeviceSetPower_Same,
      HoldIoRequests, HoldIoRequests_Failed, Worker_Release, Worker_Wait, Worker_Restore,
      FinishDevPoDnIrp, FinishDevPoUpIrp_Failed, SetDeviceFunctional
  <2>3. "worker" \in stopWaiters' => DAt("waiting")'
    <3>1. CASE Worker_Wait
      BY <3>1 DEF Worker_Wait, DGoTo
    <3>2. CASE ~Worker_Wait
      <4>1. stopWaiters' \subseteq stopWaiters
        BY <1>2, <3>2, PowerCountSteps
        DEF FreeBT_IoIncrement, FreeBT_IoDecrement, KeSetStopEvent
      <4>2. DAt("waiting") /\ "worker" \in stopWaiters => UNCHANGED dIrp
        BY <1>2, <3>2 DEF DGoTo, SGoTo, PowerStep, Worker, HandleSystemPower, SysPoCompletionRoutine_Failed,
          SendDeviceIrp_Failed, SendDeviceIrp, DevPoCompletionRoutine,
          FreeBT_DispatchPower_D_Uncounted, FreeBT_DispatchPower_D, FreeBT_DispatchPower_D_Count,
          HandleDeviceQueryPower, HandleDeviceSetPower_Up, HandleDeviceSetPower_Same,
          HoldIoRequests, HoldIoRequests_Failed, Worker_Release, Worker_Restore,
          FinishDevPoDnIrp, FinishDevPoUpIrp_Failed, SetDeviceFunctional
      <4> QED
        BY <4>1, <4>2
    <3> QED
      BY <3>1, <3>2
  <2> QED
    BY <2>1, <2>2, <2>3 DEF Leaving
<1>3. ASSUME NEW minor \in PowerMinors, NEW s \in DOMAIN DeviceState,
             FreeBT_DispatchPower_S(minor, s)
      PROVE  OverlapInv'
  <2>1. ~Leaving
    BY <1>3 DEF FreeBT_DispatchPower_S, Leaving, StateInv, Removing
  <2> QED
    BY <1>3, <2>1 DEF FreeBT_DispatchPower_S, Leaving, vars
<1>4. CASE UNCHANGED allVars
  BY <1>4 DEF Leaving, allVars, vars
<1> QED
  BY <1>1, <1>2, <1>3, <1>4 DEF PowerNext, DriverNext

LEMMA NextPowerWaitInv ==
  ASSUME Transfers = {}, Failing = {}, "REMOVE" \notin PnpOverlap,
         PowerWaitInv, [PowerNext]_allVars
  PROVE  PowerWaitInv'
<1> USE DEF PowerWaitInv
<1>1. PowerInv' /\ OverlapInv'
  BY NextPowerInv, NextOverlapInv
<1>2. CASE [Next]_vars
  BY <1>1, <1>2, NextEventInv, NextStateInv, NextAllCounted DEF PowerInv, PowerTypeOK
<1>3. CASE PowerStep
  <2>1. UNCHANGED <<pnpState, ioVars>> /\ EventInv'
    BY <1>3, PowerPnpSteps, PowerEventInv DEF PowerInv
  <2> QED
    BY <1>1, <2>1 DEF StateInv, AllCounted, Removing, At
<1>4. ASSUME NEW minor \in PowerMinors, NEW s \in DOMAIN DeviceState,
             FreeBT_DispatchPower_S(minor, s)
      PROVE  [Next]_vars
  BY <1>4 DEF FreeBT_DispatchPower_S
<1> QED
  BY <1>2, <1>3, <1>4 DEF PowerNext, DriverNext, allVars

(* A wait for the StopEvent ends with a count of at most one: by a signal    *)
(* that was left, or by the decrement that releases the waiter.              *)
LEMMA Released ==
  ASSUME [PowerNext]_allVars, PowerTypeOK, NEW t \in stopWaiters, t \notin stopWaiters'
  PROVE  outStandingIO' = 1
<1>1. \/ FreeBT_IoIncrement \/ FreeBT_IoDecrement \/ UNCHANGED stopWaiters
      \/ HandleQuery_Wait \/ Worker_Wait
  BY CountSteps, PowerCountSteps
  DEF PowerNext, DriverNext, allVars, vars, HandleRemoveDevice_Delete, FreeBT_DispatchPower_S
<1> QED
  BY <1>1 DEF FreeBT_IoIncrement, FreeBT_IoDecrement, HandleQuery_Wait, Worker_Wait,
              KeWaitForStopEvent

LEMMA WaitEndsAtBias ==
  ASSUME [PowerNext]_allVars, PowerTypeOK, EventInv, ~WaitOver, WaitOver'
  PROVE  outStandingIO' <= 1
<1>1. CASE pnp.irp \in Queries /\ pnp.pc = "waiting"
  BY <1>1, Released DEF WaitOver
<1>2. CASE ~(pnp.irp \in Queries /\ pnp.pc = "waiting")
  <2>1. [Next]_vars
    <3>1. ~PowerStep
      BY <1>2, PowerPnpSteps DEF WaitOver
    <3> QED
      BY <3>1 DEF PowerNext, DriverNext, allVars, FreeBT_DispatchPower_S
  <2>2. HandleQuery_Wait
    BY <1>2, <2>1, WaitBegins DEF WaitOver, PowerTypeOK
  <2> QED
    BY <2>2 DEF HandleQuery_Wait, KeWaitForStopEvent, WaitOver, EventInv
<1> QED
  BY <1>1, <1>2

LEMMA HoldEndsAtBias ==
  ASSUME [PowerNext]_allVars, PowerTypeOK, EventInv, ~HoldOver, HoldOver'
  PROVE  outStandingIO' <= 1
<1>1. CASE DAt("waiting")
  BY <1>1, Released DEF HoldOver, DAt
<1>2. CASE ~DAt("waiting")
  <2>1. Worker_Wait
    BY <1>2 DEF HoldOver, DAt, DGoTo, SGoTo, PowerTypeOK, IrpTypeOK, PowerNext, DriverNext, allVars, NoPowerIrp,
        FreeBT_DispatchPower_S, PowerStep, Worker, HandleSystemPower, SysPoCompletionRoutine_Failed,
        SendDeviceIrp_Failed, SendDeviceIrp, DevPoCompletionRoutine,
        FreeBT_DispatchPower_D_Uncounted, FreeBT_DispatchPower_D, FreeBT_DispatchPower_D_Count,
        HandleDeviceQueryPower, HandleDeviceSetPower_Up, HandleDeviceSetPower_Same,
        HoldIoRequests, HoldIoRequests_Failed, Worker_Release, Worker_Restore,
        FinishDevPoDnIrp, FinishDevPoUpIrp_Failed, SetDeviceFunctional
  <2> QED
    BY <2>1 DEF Worker_Wait, KeWaitForStopEvent, HoldOver, EventInv
<1> QED
  BY <1>1, <1>2

(* With the PnP request's share in it, a count of one is nobody's but PnP's.  *)
LEMMA BiasAlone ==
  ASSUME PowerWaitInv', outStandingIO' <= 1, PnpCount' >= 1
  PROVE  NobodyInside' /\ PnpCount' = 1 /\ PowerCount' = 0
<1>1. PowerCount' \in 0 .. 2 /\ PnpCount' \in 0 .. 2 /\ outStandingIO' \in Int
  BY DEF PowerCount, PnpCount, PowerWaitInv, PowerInv, PowerTypeOK, DriverTypeOK
<1>2. PICK n \in 0 .. 2 : PowerCount' = n
  BY <1>1
<1>3. DriverTypeOK' /\ CountIs(n)' /\ AllCounted'
  BY <1>2 DEF PowerWaitInv, PowerInv, PowerTypeOK, PowerCountExact, CountIs
<1>4. /\ outStandingIO' >= n + PnpCount'
      /\ outStandingIO' <= n + PnpCount' => NobodyInside'
  BY <1>3, CountAtBiasNext DEF BiasFact
<1>5. \A i \in 0 .. 2, j \in 0 .. 2, k \in Int :
        k <= 1 /\ j >= 1 /\ k >= i + j => i = 0 /\ j = 1 /\ k <= i + j
  BY SMT
<1>6. n = 0 /\ PnpCount' = 1 /\ outStandingIO' <= n + PnpCount'
  <2>1. outStandingIO' <= 1 /\ PnpCount' >= 1
    OBVIOUS
  <2> QED
    BY <1>1, <1>2, <1>4, <1>5, <2>1
<1> QED
  BY <1>2, <1>4, <1>6

(* The waits of the queries and of the worker end with nobody inside but the *)
(* other of the two, for any number of requests, files and power states, if  *)
(* every request is counted before it is sent, IoCallDriver refuses none and *)
(* the PnP manager removes no device in the middle of a power IRP.           *)
THEOREM PowerWaitsForRequests ==
  ASSUME Transfers = {}, Failing = {}, "REMOVE" \notin PnpOverlap
  PROVE  PowerSpec => WaitsEndIdle
<1>1. PowerInit => PowerWaitInv
  <2> SUFFICES ASSUME PowerInit PROVE PowerWaitInv
    OBVIOUS
  <2>1. PowerInv /\ EventInv /\ StateInv /\ AllCounted
    BY InitPowerInv, InitInv DEF PowerInit
  <2>2. OverlapInv
    BY DEF PowerInit, Init, OverlapInv, Leaving
  <2> QED
    BY <2>1, <2>2 DEF PowerWaitInv
<1>2. PowerWaitInv /\ [PowerNext]_allVars => PowerWaitInv'
  BY NextPowerWaitInv
<1>3. PowerWaitInv /\ PowerWaitInv' /\ [PowerNext]_allVars =>
        [/\ ~HoldOver /\ HoldOver' => NobodyInside' /\ PnpCount' = 1
         /\ ~WaitOver /\ WaitOver' => NobodyInside' /\ PowerCount' = 0]_allVars
  <2> SUFFICES ASSUME PowerWaitInv, PowerWaitInv', [PowerNext]_allVars
               PROVE  /\ ~HoldOver /\ HoldOver' => NobodyInside' /\ PnpCount' = 1
                      /\ ~WaitOver /\ WaitOver' => NobodyInside' /\ PowerCount' = 0
    OBVIOUS
  <2>1. PowerTypeOK /\ EventInv /\ (PowerTypeOK /\ OverlapInv)'
    BY DEF PowerWaitInv, PowerInv
  <2>2. ASSUME ~HoldOver, HoldOver' PROVE NobodyInside' /\ PnpCount' = 1
    <3>1. ~Leaving'
      BY <2>1, <2>2 DEF HoldOver, OverlapInv, PowerTypeOK, IrpTypeOK, SAt, DAt
    <3>2. PnpCount' >= 1
      BY <3>1 DEF PnpCount, Leaving
    <3> QED
      BY <2>1, <2>2, <3>2, HoldEndsAtBias, BiasAlone
  <2>3. ASSUME ~WaitOver, WaitOver' PROVE NobodyInside' /\ PowerCount' = 0
    <3>1. PnpCount' >= 1
      BY <2>3 DEF WaitOver, PnpCount, Queries
    <3> QED
      BY <2>1, <2>3, <3>1, WaitEndsAtBias, BiasAlone
  <2> QED
    BY <2>2, <2>3
<1> QED
  BY <1>1, <1>2, <1>3, PTL DEF PowerSpec, WaitsEndIdle

-----------------------------------------------------------------------------
(* The assertions, whatever PnP request overlaps a power IRP: with nothing   *)
(* missing from the count, it is at least what PnP and power hold.           *)

PowerAssertInv == PowerInv /\ StateInv /\ AllCounted

\* A step is one of the rest of the driver, or one of a power IRP.
LEMMA DriverOrPower ==
  ASSUME [PowerNext]_allVars
  PROVE  [Next]_vars \/ PowerStep
  BY DEF PowerNext, DriverNext, FreeBT_DispatchPower_S, allVars

LEMMA NextPowerAssertInv ==
  ASSUME Transfers = {}, Failing = {}, PowerAssertInv, [PowerNext]_allVars
  PROVE  PowerAssertInv'
<1> USE DEF PowerAssertInv
<1>1. PowerInv'
  BY NextPowerInv
<1>2. CASE [Next]_vars
  BY <1>1, <1>2, NextStateInv, NextAllCounted DEF PowerInv, PowerTypeOK
<1>3. CASE PowerStep
  BY <1>1, <1>3, PowerPnpSteps DEF StateInv, AllCounted, Removing, At
<1> QED
  BY <1>2, <1>3, DriverOrPower

LEMMA CountCoversPnp ==
  ASSUME PowerAssertInv'
  PROVE  outStandingIO' \in Int /\ PnpCount' \in 0 .. 2 /\ outStandingIO' >= PnpCount'
<1>1. PowerCount' \in 0 .. 2 /\ PnpCount' \in 0 .. 2 /\ outStandingIO' \in Int
  BY DEF PowerCount, PnpCount, PowerAssertInv, PowerInv, PowerTypeOK, DriverTypeOK
<1>2. PICK n \in 0 .. 2 : PowerCount' = n
  BY <1>1
<1>3. DriverTypeOK' /\ CountIs(n)' /\ AllCounted'
  BY <1>2 DEF PowerAssertInv, PowerInv, PowerTypeOK, PowerCountExact, CountIs
<1>4. outStandingIO' >= n + PnpCount'
  BY <1>3, CountAtBiasNext DEF BiasFact
<1>5. \A i \in 0 .. 2, j \in 0 .. 2, k \in Int : k >= i + j => k >= j
  BY SMT
<1> QED
  BY <1>1, <1>4, <1>5

LEMMA PowerAssertStep ==
  ASSUME PowerAssertInv, PowerAssertInv', [PowerNext]_allVars
  PROVE  /\ outStandingIO' = 0 /\ outStandingIO # 0 => devState = "Removed"
         /\ pnp'.pc = "biased" /\ pnp.pc # "biased" => outStandingIO' > 0
         /\ devState = "PendingStop" /\ pnp.irp = "CANCEL_STOP" /\ devState' # devState
              => devState' = "Working"
<1>1. StateInv /\ StateInv' /\ DriverTypeOK'
  BY DEF PowerAssertInv, PowerInv, PowerTypeOK
<1>2. ASSUME outStandingIO' = 0, outStandingIO # 0 PROVE devState = "Removed"
  <2>1. PnpCount' = 0
    BY <1>2, CountCoversPnp
  <2>2. Removing'
    BY <1>1, <2>1 DEF PnpCount, Removing, At, DriverTypeOK
  <2>3. devState' = "Removed"
    BY <1>1, <2>2 DEF StateInv
  <2>4. CASE [Next]_vars
    BY <1>2, <2>3, <2>4, StateOrCount
  <2>5. CASE PowerStep
    BY <2>3, <2>5, PowerPnpSteps
  <2> QED
    BY <2>4, <2>5, DriverOrPower
<1>3. ASSUME pnp'.pc = "biased" PROVE outStandingIO' > 0
  <2>1. PnpCount' = 1
    BY <1>3 DEF PnpCount
  <2> QED
    BY <2>1, CountCoversPnp
<1>4. ASSUME devState = "PendingStop", pnp.irp = "CANCEL_STOP", devState' # devState
      PROVE  devState' = "Working"
  BY <1>1, <1>4, CancelStopStep, PowerPnpSteps, DriverOrPower
<1> QED
  BY <1>2, <1>3, <1>4

(* The driver's assertions hold with the power IRPs as well, for any number  *)
(* of requests, files and power states and whatever PnP requests overlap     *)
(* the power IRPs, a removal included, if every request is counted before    *)
(* it is sent and IoCallDriver refuses none.                                 *)
THEOREM PowerAssertions ==
  ASSUME Transfers = {}, Failing = {}
  PROVE  PowerSpec => AssertsHold
<1>1. PowerInit => PowerAssertInv
  BY InitPowerInv, InitInv DEF PowerInit, PowerAssertInv
<1>2. PowerAssertInv /\ [PowerNext]_allVars => PowerAssertInv'
  BY NextPowerAssertInv
<1>3. PowerAssertInv /\ PowerAssertInv' /\ [PowerNext]_allVars =>
        /\ [outStandingIO' = 0 /\ outStandingIO # 0 => devState = "Removed"]_vars
        /\ [pnp'.pc = "biased" /\ pnp.pc # "biased" => outStandingIO' > 0]_vars
        /\ [devState = "PendingStop" /\ pnp.irp = "CANCEL_STOP" /\ devState' # devState
               => devState' = "Working"]_vars
  BY PowerAssertStep
<1> QED
  BY <1>1, <1>2, <1>3, PTL DEF PowerSpec, AssertsHold, AssertRemoved
=============================================================================
