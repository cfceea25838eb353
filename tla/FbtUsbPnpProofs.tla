--------------------------- MODULE FbtUsbPnpProofs ---------------------------
(* Proofs about FbtUsbPnp, for any number of requests and file objects.     *)
EXTENDS FbtUsbPnp, FiniteSetTheorems, TLAPS

USE DEF pnpVars, countVars, ioVars

CountedStates == {"counted", "pending"}
LackingStates == {"early", "twice"}
GrantedStates == {"open", "cleaning", "cleaned"}

\* One for a state that is in S, for arithmetic on sets that gain or lose one.
In(s, S) == IF s \in S THEN 1 ELSE 0

(* The sets the count is made of are finite.                               *)
LEMMA Sizes ==
  /\ IsFiniteSet(Counted) /\ Cardinality(Counted) \in Nat
  /\ IsFiniteSet(Lacking) /\ Cardinality(Lacking) \in Nat
  /\ IsFiniteSet(Cleaning) /\ Cardinality(Cleaning) \in Nat
  /\ IsFiniteSet(Granted) /\ Cardinality(Granted) \in Nat
<1>1. /\ Counted \in SUBSET Requests /\ Lacking \in SUBSET Requests
      /\ Cleaning \in SUBSET Handles /\ Granted \in SUBSET Handles
  BY DEF Counted, Lacking, Cleaning, Granted
<1>2. /\ IsFiniteSet(Counted) /\ IsFiniteSet(Lacking)
      /\ IsFiniteSet(Cleaning) /\ IsFiniteSet(Granted)
  BY <1>1, PnpAssumption, FS_Subset
<1> QED
  BY <1>2, FS_CardinalityType

(* When one element of D moves into or out of T, the size of T follows.    *)
LEMMA OneMoves ==
  ASSUME NEW S, NEW T, NEW x, IsFiniteSet(S), T = S \cup {x} \/ T = S \ {x}
  PROVE  Cardinality(T) = Cardinality(S) + (IF x \in T THEN 1 ELSE 0)
                                         - (IF x \in S THEN 1 ELSE 0)
<1>1. Cardinality(S) \in Nat
  BY FS_CardinalityType
<1>2. CASE T = S \cup {x}
  BY <1>1, <1>2, FS_AddElement
<1>3. CASE T = S \ {x}
  BY <1>1, <1>3, FS_RemoveElement
<1> QED
  BY <1>2, <1>3

(* One request changes its state.                                          *)
LEMMA RequestMoves ==
  ASSUME DriverTypeOK, NEW r \in Requests, NEW s, SetRequest(r, s)
  PROVE  /\ Cardinality(Counted') = Cardinality(Counted) + In(s, CountedStates)
                                                         - In(request[r], CountedStates)
         /\ Cardinality(Lacking') = Cardinality(Lacking) + In(s, LackingStates)
                                                         - In(request[r], LackingStates)
<1>1. request \in [Requests -> {"idle", "dispatched", "counted", "pending",
                                "refused", "twice", "sent", "early"}]
  BY DEF DriverTypeOK
<1>2. request' = [request EXCEPT ![r] = s]
  BY DEF SetRequest
<1>3. \A q \in Requests : request'[q] = IF q = r THEN s ELSE request[q]
  BY <1>1, <1>2
<1>4. /\ Counted' = Counted \cup {r} \/ Counted' = Counted \ {r}
      /\ r \in Counted' <=> s \in CountedStates
      /\ r \in Counted <=> request[r] \in CountedStates
  BY <1>3 DEF Counted, CountedStates
<1>5. /\ Lacking' = Lacking \cup {r} \/ Lacking' = Lacking \ {r}
      /\ r \in Lacking' <=> s \in LackingStates
      /\ r \in Lacking <=> request[r] \in LackingStates
  BY <1>3 DEF Lacking, LackingStates
<1>6. Cardinality(Counted') = Cardinality(Counted) + In(s, CountedStates)
                                                   - In(request[r], CountedStates)
  BY <1>4, OneMoves, Sizes DEF In
<1>7. Cardinality(Lacking') = Cardinality(Lacking) + In(s, LackingStates)
                                                   - In(request[r], LackingStates)
  BY <1>5, OneMoves, Sizes DEF In
<1> QED
  BY <1>6, <1>7

(* One file object changes its state.                                      *)
LEMMA HandleMoves ==
  ASSUME DriverTypeOK, NEW h \in Handles, NEW s, SetHandle(h, s)
  PROVE  /\ Cardinality(Cleaning') = Cardinality(Cleaning) + In(s, {"cleaning"})
                                                           - In(handle[h], {"cleaning"})
         /\ Cardinality(Granted') = Cardinality(Granted) + In(s, GrantedStates)
                                                         - In(handle[h], GrantedStates)
<1>1. handle \in [Handles -> {"closed", "checked", "open", "cleaning", "cleaned"}]
  BY DEF DriverTypeOK
<1>2. handle' = [handle EXCEPT ![h] = s]
  BY DEF SetHandle
<1>3. \A g \in Handles : handle'[g] = IF g = h THEN s ELSE handle[g]
  BY <1>1, <1>2
<1>4. /\ Cleaning' = Cleaning \cup {h} \/ Cleaning' = Cleaning \ {h}
      /\ h \in Cleaning' <=> s \in {"cleaning"}
      /\ h \in Cleaning <=> handle[h] \in {"cleaning"}
  BY <1>3 DEF Cleaning
<1>5. /\ Granted' = Granted \cup {h} \/ Granted' = Granted \ {h}
      /\ h \in Granted' <=> s \in GrantedStates
      /\ h \in Granted <=> handle[h] \in GrantedStates
  BY <1>3 DEF Granted, GrantedStates
<1>6. Cardinality(Cleaning') = Cardinality(Cleaning) + In(s, {"cleaning"})
                                                     - In(handle[h], {"cleaning"})
  BY <1>4, OneMoves, Sizes DEF In
<1>7. Cardinality(Granted') = Cardinality(Granted) + In(s, GrantedStates)
                                                   - In(handle[h], GrantedStates)
  BY <1>5, OneMoves, Sizes DEF In
<1> QED
  BY <1>6, <1>7

LEMMA RequestsStay == ASSUME UNCHANGED request PROVE Counted' = Counted /\ Lacking' = Lacking
BY DEF Counted, Lacking

LEMMA HandlesStay == ASSUME UNCHANGED handle PROVE Cleaning' = Cleaning /\ Granted' = Granted
BY DEF Cleaning, Granted

-----------------------------------------------------------------------------
(* The count.                                                              *)

LEMMA PnpStays == ASSUME UNCHANGED pnp PROVE PnpCount' = PnpCount
BY DEF PnpCount

LEMMA PnpCountType == PnpCount \in 0 .. 2
BY DEF PnpCount

(* A step of a request that changes OutStandingIO by as much as its state.  *)
LEMMA RequestCount ==
  ASSUME NEW n \in Int, DriverTypeOK, CountIs(n), NEW r \in Requests, NEW s, SetRequest(r, s),
         UNCHANGED <<pnpVars, openHandleCount, handle, wmi>>,
         outStandingIO' = outStandingIO + In(s, CountedStates) - In(request[r], CountedStates)
                                        - In(s, LackingStates) + In(request[r], LackingStates)
  PROVE  CountIs(n)'
<1>1. PnpCount' = PnpCount /\ Cleaning' = Cleaning /\ Granted' = Granted
  BY PnpStays, HandlesStay
<1>2. /\ Cardinality(Counted') = Cardinality(Counted) + In(s, CountedStates)
                                                     - In(request[r], CountedStates)
      /\ Cardinality(Lacking') = Cardinality(Lacking) + In(s, LackingStates)
                                                     - In(request[r], LackingStates)
  BY RequestMoves
<1>3. /\ In(s, CountedStates) \in Int /\ In(request[r], CountedStates) \in Int
      /\ In(s, LackingStates) \in Int /\ In(request[r], LackingStates) \in Int
  BY DEF In
<1> QED
  BY <1>1, <1>2, <1>3, Sizes, PnpCountType DEF CountIs

(* The same of a file object.                                              *)
LEMMA HandleCount ==
  ASSUME NEW n \in Int, DriverTypeOK, CountIs(n), NEW h \in Handles, NEW s, SetHandle(h, s),
         UNCHANGED <<pnpVars, request, wmi>>,
         outStandingIO' = outStandingIO + In(s, {"cleaning"}) - In(handle[h], {"cleaning"}),
         openHandleCount' = openHandleCount + In(s, GrantedStates) - In(handle[h], GrantedStates)
  PROVE  CountIs(n)'
<1>1. PnpCount' = PnpCount /\ Counted' = Counted /\ Lacking' = Lacking
  BY PnpStays, RequestsStay
<1>2. /\ Cardinality(Cleaning') = Cardinality(Cleaning) + In(s, {"cleaning"})
                                                       - In(handle[h], {"cleaning"})
      /\ Cardinality(Granted') = Cardinality(Granted) + In(s, GrantedStates)
                                                     - In(handle[h], GrantedStates)
  BY HandleMoves
<1>3. /\ In(s, {"cleaning"}) \in Int /\ In(handle[h], {"cleaning"}) \in Int
      /\ In(s, GrantedStates) \in Int /\ In(handle[h], GrantedStates) \in Int
  BY DEF In
<1> QED
  BY <1>1, <1>2, <1>3, Sizes, PnpCountType DEF CountIs

(* The same of the PnP request.                                            *)
LEMMA PnpRequestCount ==
  ASSUME NEW n \in Int, DriverTypeOK, CountIs(n), UNCHANGED <<openHandleCount, handle, request>>,
         wmi' = "counted" <=> wmi = "counted",
         outStandingIO' = outStandingIO + PnpCount' - PnpCount
  PROVE  CountIs(n)'
<1>1. Counted' = Counted /\ Lacking' = Lacking /\ Cleaning' = Cleaning /\ Granted' = Granted
  BY HandlesStay, RequestsStay
<1>2. PnpCount \in 0 .. 2 /\ PnpCount' \in 0 .. 2
  BY DEF PnpCount
<1> QED
  BY <1>1, <1>2, Sizes DEF CountIs

(* Every step of the driver preserves CountIs(n).                            *)
LEMMA RequestStepCount ==
  ASSUME NEW n \in Int, DriverTypeOK, CountIs(n), NEW r \in Requests, RequestStep(r) \/ Completion(r)
  PROVE  CountIs(n)'
<1> USE RequestCount DEF In, CountedStates, LackingStates, DriverTypeOK
<1>1. CASE FreeBT_SendHCICommand_Count(r)
  <2>1. SetRequest(r, "counted")
    BY <1>1 DEF FreeBT_SendHCICommand_Count
  <2> QED
    BY <1>1, <2>1 DEF FreeBT_SendHCICommand_Count, FreeBT_IoIncrement
<1>2. CASE FreeBT_SendHCICommand_Call(r)
  <2>1. SetRequest(r, "pending")
    BY <1>2 DEF FreeBT_SendHCICommand_Call
  <2> QED
    BY <1>2, <2>1 DEF FreeBT_SendHCICommand_Call
<1>3. CASE FreeBT_SendHCICommand_Refused(r)
  <2>1. SetRequest(r, "refused")
    BY <1>3 DEF FreeBT_SendHCICommand_Refused
  <2> QED
    BY <1>3, <2>1 DEF FreeBT_SendHCICommand_Refused, FreeBT_IoDecrement
<1>4. CASE FreeBT_SendHCICommand_Fails(r)
  <2>1. SetRequest(r, "twice")
    BY <1>4 DEF FreeBT_SendHCICommand_Fails
  <2> QED
    BY <1>4, <2>1 DEF FreeBT_SendHCICommand_Fails, FreeBT_IoDecrement
<1>5. CASE FreeBT_DispatchReadWrite_Call(r)
  <2>1. SetRequest(r, "sent")
    BY <1>5 DEF FreeBT_DispatchReadWrite_Call
  <2> QED
    BY <1>5, <2>1 DEF FreeBT_DispatchReadWrite_Call
<1>6. CASE FreeBT_DispatchReadWrite_Count(r)
  <2>1. CASE request[r] = "sent"
    <3>1. SetRequest(r, "pending")
      BY <1>6, <2>1 DEF FreeBT_DispatchReadWrite_Count
    <3> QED
      BY <1>6, <2>1, <3>1 DEF FreeBT_DispatchReadWrite_Count, FreeBT_IoIncrement
  <2>2. CASE request[r] = "early"
    <3>1. SetRequest(r, "idle")
      BY <1>6, <2>2 DEF FreeBT_DispatchReadWrite_Count
    <3> QED
      BY <1>6, <2>2, <3>1 DEF FreeBT_DispatchReadWrite_Count, FreeBT_IoIncrement
  <2> QED
    BY <1>6, <2>1, <2>2 DEF FreeBT_DispatchReadWrite_Count
<1>7. CASE FreeBT_Completion(r)
  <2>1. SetRequest(r, "idle")
    BY <1>7 DEF FreeBT_Completion
  <2> QED
    BY <1>7, <2>1 DEF FreeBT_Completion, FreeBT_IoDecrement
<1>8. CASE FreeBT_ReadWriteCompletion_Early(r)
  <2>1. SetRequest(r, "early")
    BY <1>8 DEF FreeBT_ReadWriteCompletion_Early
  <2> QED
    BY <1>8, <2>1 DEF FreeBT_ReadWriteCompletion_Early, FreeBT_IoDecrement
<1>9. CASE FreeBT_DispatchExit(r)
  <2>1. SetRequest(r, "idle")
    BY <1>9 DEF FreeBT_DispatchExit
  <2> QED
    BY <1>9, <2>1 DEF FreeBT_DispatchExit
<1> QED
  BY <1>1, <1>2, <1>3, <1>4, <1>5, <1>6, <1>7, <1>8, <1>9 DEF RequestStep, Completion

LEMMA HandleStepCount ==
  ASSUME NEW n \in Int, DriverTypeOK, CountIs(n), NEW h \in Handles,
         \/ FreeBT_DispatchCreate_Check(h) \/ FreeBT_DispatchCreate_Open(h)
         \/ FreeBT_DispatchClean(h) \/ FreeBT_DispatchClean_Done(h)
         \/ FreeBT_DispatchClose(h)
  PROVE  CountIs(n)'
<1> USE HandleCount DEF In, GrantedStates, DriverTypeOK
<1>1. CASE FreeBT_DispatchCreate_Check(h)
  <2>1. SetHandle(h, "checked")
    BY <1>1 DEF FreeBT_DispatchCreate_Check
  <2> QED
    BY <1>1, <2>1 DEF FreeBT_DispatchCreate_Check
<1>2. CASE FreeBT_DispatchCreate_Open(h)
  <2>1. SetHandle(h, "open")
    BY <1>2 DEF FreeBT_DispatchCreate_Open
  <2> QED
    BY <1>2, <2>1 DEF FreeBT_DispatchCreate_Open
<1>3. CASE FreeBT_DispatchClean(h)
  <2>1. SetHandle(h, "cleaning")
    BY <1>3 DEF FreeBT_DispatchClean
  <2> QED
    BY <1>3, <2>1 DEF FreeBT_DispatchClean, FreeBT_IoIncrement
<1>4. CASE FreeBT_DispatchClean_Done(h)
  <2>1. SetHandle(h, "cleaned")
    BY <1>4 DEF FreeBT_DispatchClean_Done
  <2> QED
    BY <1>4, <2>1 DEF FreeBT_DispatchClean_Done, FreeBT_IoDecrement
<1>5. CASE FreeBT_DispatchClose(h)
  <2>1. SetHandle(h, "closed")
    BY <1>5 DEF FreeBT_DispatchClose
  <2> QED
    BY <1>5, <2>1 DEF FreeBT_DispatchClose
<1> QED
  BY <1>1, <1>2, <1>3, <1>4, <1>5

LEMMA PnpStepCount == ASSUME NEW n \in Int, DriverTypeOK, CountIs(n), PnpStep PROVE CountIs(n)'
<1> USE PnpRequestCount DEF DriverTypeOK, PnpCount, At, GoTo, Answered, Queries
<1>1. CASE FreeBT_DispatchPnP_Done
  BY <1>1 DEF FreeBT_DispatchPnP_Done, FreeBT_IoDecrement
<1>2. CASE HandleOther
  BY <1>2 DEF HandleOther
<1>3. CASE HandleStartDevice_Send
  BY <1>3 DEF HandleStartDevice_Send
<1>4. CASE HandleStartDevice_Fail
  BY <1>4 DEF HandleStartDevice_Fail
<1>5. CASE HandleStartDevice_Work
  BY <1>5 DEF HandleStartDevice_Work
<1>6. CASE HandleQuery_Hold
  BY <1>6 DEF HandleQuery_Hold
<1>7. CASE HandleQuery_Release
  BY <1>7 DEF HandleQuery_Release, FreeBT_IoDecrement
<1>8. CASE HandleQuery_Wait
  BY <1>8 DEF HandleQuery_Wait, KeWaitForStopEvent
<1>9. CASE HandleQuery_Return
  BY <1>9 DEF HandleQuery_Return
<1>10. CASE HandleCancel_Restore
  BY <1>10 DEF HandleCancel_Restore
<1>11. CASE HandleCancel_Nothing
  BY <1>11 DEF HandleCancel_Nothing
<1>12. CASE HandleStopDevice
  BY <1>12 DEF HandleStopDevice
<1>13. CASE HandleStopDevice_Release
  BY <1>13 DEF HandleStopDevice_Release
<1>14. CASE HandleSurpriseRemoval
  BY <1>14 DEF HandleSurpriseRemoval
<1>15. CASE HandleRemoveDevice_Fail
  BY <1>15 DEF HandleRemoveDevice_Fail
<1>16. CASE HandleRemoveDevice
  BY <1>16 DEF HandleRemoveDevice
<1>17. CASE FreeBT_WmiDeRegistration
  BY <1>17 DEF FreeBT_WmiDeRegistration
<1>18. CASE HandleRemoveDevice_Decrement
  BY <1>18 DEF HandleRemoveDevice_Decrement, FreeBT_IoDecrement
<1>19. CASE HandleRemoveDevice_Delete
  BY <1>19 DEF HandleRemoveDevice_Delete
<1> QED
  BY <1>1, <1>2, <1>3, <1>4, <1>5, <1>6, <1>7, <1>8, <1>9, <1>10,
     <1>11, <1>12, <1>13, <1>14, <1>15, <1>16, <1>17, <1>18, <1>19 DEF PnpStep

LEMMA NextCount ==
  ASSUME NEW n \in Int, DriverTypeOK, CountIs(n), [Next]_vars PROVE CountIs(n)'
<1>1. CASE PnpStep
  BY <1>1, PnpStepCount
<1>2. CASE WmiStep \/ FreeBT_DispatchSysCtrl_Check
  <2>1. /\ PnpCount' = PnpCount /\ Counted' = Counted /\ Lacking' = Lacking
        /\ Cleaning' = Cleaning /\ Granted' = Granted
    BY <1>2, PnpStays, HandlesStay, RequestsStay
    DEF WmiStep, FreeBT_DispatchSysCtrl_Check, FreeBT_DispatchSysCtrl_Count, FreeBT_DispatchSysCtrl_Done
  <2>2. CASE FreeBT_DispatchSysCtrl_Check
    BY <2>2, <2>1 DEF CountIs, FreeBT_DispatchSysCtrl_Check
  <2>3. CASE FreeBT_DispatchSysCtrl_Count
    BY <2>3, <2>1, Sizes, PnpCountType
    DEF CountIs, FreeBT_DispatchSysCtrl_Count, FreeBT_IoIncrement
  <2>4. CASE FreeBT_DispatchSysCtrl_Done
    BY <2>4, <2>1, Sizes, PnpCountType
    DEF CountIs, FreeBT_DispatchSysCtrl_Done, FreeBT_IoDecrement
  <2> QED
    BY <1>2, <2>2, <2>3, <2>4 DEF WmiStep
<1>3. ASSUME NEW irp \in PnpIrps, FreeBT_DispatchPnP(irp) PROVE CountIs(n)'
  BY <1>3, PnpRequestCount DEF DriverTypeOK, PnpCount, At, FreeBT_DispatchPnP, FreeBT_IoIncrement
<1>4. ASSUME NEW h \in Handles,
             \/ FreeBT_DispatchCreate_Check(h) \/ FreeBT_DispatchCreate_Open(h)
             \/ FreeBT_DispatchClean(h) \/ FreeBT_DispatchClean_Done(h)
             \/ FreeBT_DispatchClose(h)
      PROVE  CountIs(n)'
  BY <1>4, HandleStepCount
<1>5. ASSUME NEW r \in Requests, RequestStep(r) \/ Completion(r) PROVE CountIs(n)'
  BY <1>5, RequestStepCount
<1>6. ASSUME NEW r \in Requests, FreeBT_DispatchDevCtrl(r) \/ FreeBT_DispatchReadWrite(r)
      PROVE  CountIs(n)'
  <2>1. Admit(r)
    BY <1>6 DEF FreeBT_DispatchDevCtrl, FreeBT_DispatchReadWrite
  <2>2. SetRequest(r, "dispatched")
    BY <2>1 DEF Admit
  <2> QED
    BY <2>1, <2>2, RequestCount DEF Admit, In, CountedStates, LackingStates, DriverTypeOK
<1>7. CASE UNCHANGED vars
  <2>1. /\ PnpCount' = PnpCount /\ Counted' = Counted /\ Lacking' = Lacking
        /\ Cleaning' = Cleaning /\ Granted' = Granted
    BY <1>7, PnpStays, HandlesStay, RequestsStay DEF vars
  <2> QED
    BY <1>7, <2>1 DEF CountIs, vars
<1> QED
  BY <1>1, <1>2, <1>3, <1>4, <1>5, <1>6, <1>7 DEF Next

-----------------------------------------------------------------------------
(* Types.                                                                  *)

\* The part of DriverTypeOK about the count and its events.
CountType ==
  /\ outStandingIO \in Int
  /\ stopEvent \in BOOLEAN /\ removeEvent \in BOOLEAN

LEMMA IncrementType == ASSUME DriverTypeOK, FreeBT_IoIncrement PROVE CountType'
<1>1. stopEvent' \in BOOLEAN
  BY DEF DriverTypeOK, FreeBT_IoIncrement
<1>2. removeEvent' \in BOOLEAN
  BY Zenon DEF DriverTypeOK, FreeBT_IoIncrement
<1>3. outStandingIO' \in Int
  BY DEF DriverTypeOK, FreeBT_IoIncrement
<1> QED
  BY <1>1, <1>2, <1>3 DEF CountType

LEMMA DecrementType == ASSUME DriverTypeOK, FreeBT_IoDecrement PROVE CountType'
<1>1. outStandingIO' \in Int
  BY DEF DriverTypeOK, FreeBT_IoDecrement
<1>2. removeEvent' \in BOOLEAN
  <2>1. removeEvent' = (removeEvent \/ outStandingIO' = 0)
    BY DEF FreeBT_IoDecrement
  <2> QED
    BY <2>1, Zenon
<1>3. stopEvent' \in BOOLEAN
  <2>1. CASE outStandingIO' # 1
    BY <2>1 DEF DriverTypeOK, FreeBT_IoDecrement
  <2>2. CASE outStandingIO' = 1 /\ stopWaiters = {}
    <3>1. stopEvent' = TRUE /\ stopWaiters' = {}
      BY <2>2 DEF FreeBT_IoDecrement, KeSetStopEvent
    <3> QED
      BY <3>1, Zenon
  <2>3. CASE outStandingIO' = 1 /\ stopWaiters # {}
    BY <2>3 DEF DriverTypeOK, FreeBT_IoDecrement, KeSetStopEvent
  <2> QED
    BY <2>1, <2>2, <2>3
<1> QED
  BY <1>1, <1>2, <1>3 DEF CountType

LEMMA WaitType ==
  ASSUME DriverTypeOK, KeWaitForStopEvent("pnp"), UNCHANGED <<outStandingIO, removeEvent>>
  PROVE  CountType'
<1>1. stopEvent' = FALSE
  BY DEF DriverTypeOK, KeWaitForStopEvent
<1>2. stopEvent' \in BOOLEAN
  BY <1>1, Zenon
<1> QED
  BY <1>1, <1>2 DEF DriverTypeOK, CountType

LEMMA InitType == Init => DriverTypeOK /\ CountIs(0)
<1> SUFFICES ASSUME Init PROVE DriverTypeOK /\ CountIs(0)
  OBVIOUS
<1>1. DriverTypeOK
  <2>1. usbInterface \in BOOLEAN /\ stopEvent \in BOOLEAN /\ removeEvent \in BOOLEAN
    BY Zenon DEF Init
  <2> QED
    BY <2>1 DEF Init, DriverTypeOK, DeviceStates, QueueStates
<1>2. Counted = {} /\ Lacking = {} /\ Cleaning = {} /\ Granted = {}
  BY DEF Init, Counted, Lacking, Cleaning, Granted
<1>3. CountIs(0)
  BY <1>2, FS_EmptySet DEF Init, CountIs, PnpCount
<1> QED
  BY <1>1, <1>3

LEMMA NextType ==
  ASSUME NEW n \in Int, DriverTypeOK, CountIs(n), [Next]_vars PROVE DriverTypeOK'
<1> USE DEF DriverTypeOK
<1>1. CASE PnpStep
  <2> USE DEF At, GoTo, Answered, NewPnpState, DeviceStates, QueueStates
  <2>1. CASE FreeBT_DispatchPnP_Done
    BY <1>1, <2>1, DecrementType DEF FreeBT_DispatchPnP_Done, CountType
  <2>2. CASE HandleOther
    BY <1>1, <2>2 DEF HandleOther
  <2>3. CASE HandleStartDevice_Send
    <3>1. usbInterface' = FALSE
      BY <2>3 DEF HandleStartDevice_Send
    <3>2. usbInterface' \in BOOLEAN
      BY <3>1, Zenon
    <3> QED
      BY <1>1, <2>3, <3>2 DEF HandleStartDevice_Send
  <2>4. CASE HandleStartDevice_Fail
    BY <1>1, <2>4 DEF HandleStartDevice_Fail
  <2>5. CASE HandleStartDevice_Work
    BY <1>1, <2>5 DEF HandleStartDevice_Work
  <2>6. CASE HandleQuery_Hold
    BY <1>1, <2>6 DEF HandleQuery_Hold
  <2>7. CASE HandleQuery_Release
    BY <1>1, <2>7, DecrementType DEF HandleQuery_Release, CountType
  <2>8. CASE HandleQuery_Wait
    BY <1>1, <2>8, WaitType DEF HandleQuery_Wait, CountType
  <2>9. CASE HandleQuery_Return
    BY <1>1, <2>9 DEF HandleQuery_Return
  <2>10. CASE HandleCancel_Restore
    BY <1>1, <2>10 DEF HandleCancel_Restore
  <2>11. CASE HandleCancel_Nothing
    BY <1>1, <2>11 DEF HandleCancel_Nothing
  <2>12. CASE HandleStopDevice
    BY <1>1, <2>12 DEF HandleStopDevice
  <2>13. CASE HandleStopDevice_Release
    <3>1. usbInterface' = FALSE
      BY <2>13 DEF HandleStopDevice_Release
    <3>2. usbInterface' \in BOOLEAN
      BY <3>1, Zenon
    <3> QED
      BY <1>1, <2>13, <3>2 DEF HandleStopDevice_Release
  <2>14. CASE HandleSurpriseRemoval
    BY <1>1, <2>14 DEF HandleSurpriseRemoval
  <2>15. CASE HandleRemoveDevice_Fail
    BY <1>1, <2>15 DEF HandleRemoveDevice_Fail
  <2>16. CASE HandleRemoveDevice
    BY <1>1, <2>16 DEF HandleRemoveDevice
  <2>17. CASE FreeBT_WmiDeRegistration
    BY <1>1, <2>17 DEF FreeBT_WmiDeRegistration
  <2>18. CASE HandleRemoveDevice_Decrement
    BY <1>1, <2>18, DecrementType DEF HandleRemoveDevice_Decrement, CountType
  <2>19. CASE HandleRemoveDevice_Delete
    <3>1. usbInterface' = FALSE /\ removeEvent' = FALSE
      BY <2>19 DEF HandleRemoveDevice_Delete
    <3>2. usbInterface' \in BOOLEAN /\ removeEvent' \in BOOLEAN
      BY <3>1, Zenon
    <3> QED
      BY <1>1, <2>19, <3>2 DEF HandleRemoveDevice_Delete
  <2> QED
    BY <1>1, <2>1, <2>2, <2>3, <2>4, <2>5, <2>6, <2>7, <2>8, <2>9, <2>10,
       <2>11, <2>12, <2>13, <2>14, <2>15, <2>16, <2>17, <2>18, <2>19 DEF PnpStep
<1>2. CASE WmiStep \/ FreeBT_DispatchSysCtrl_Check
  BY <1>2, IncrementType, DecrementType
  DEF WmiStep, FreeBT_DispatchSysCtrl_Check, FreeBT_DispatchSysCtrl_Count,
      FreeBT_DispatchSysCtrl_Done, CountType
<1>3. ASSUME NEW irp \in PnpIrps, FreeBT_DispatchPnP(irp) PROVE DriverTypeOK'
  BY <1>3, IncrementType DEF FreeBT_DispatchPnP, CountType
<1>4. ASSUME NEW h \in Handles, FreeBT_DispatchCreate_Check(h) \/ FreeBT_DispatchCreate_Open(h)
      PROVE  DriverTypeOK'
  <2>1. CASE FreeBT_DispatchCreate_Check(h)
    BY <2>1 DEF FreeBT_DispatchCreate_Check, SetHandle
  <2>2. CASE FreeBT_DispatchCreate_Open(h)
    BY <2>2 DEF FreeBT_DispatchCreate_Open, SetHandle
  <2> QED
    BY <1>4, <2>1, <2>2
<1>5. ASSUME NEW h \in Handles, FreeBT_DispatchClean(h) \/ FreeBT_DispatchClean_Done(h)
      PROVE  DriverTypeOK'
  BY <1>5, IncrementType, DecrementType
  DEF FreeBT_DispatchClean, FreeBT_DispatchClean_Done, SetHandle, CountType
<1>6. ASSUME NEW h \in Handles, FreeBT_DispatchClose(h) PROVE DriverTypeOK'
  <2>1. h \in Granted
    BY <1>6 DEF FreeBT_DispatchClose, Granted
  <2>2. openHandleCount # 0
    BY <2>1, Sizes, FS_EmptySet DEF CountIs
  <2> QED
    BY <1>6, <2>2 DEF FreeBT_DispatchClose, SetHandle
<1>7. ASSUME NEW r \in Requests, RequestStep(r) \/ Completion(r) PROVE DriverTypeOK'
  <2> USE DEF SetRequest, CountType
  <2>1. CASE FreeBT_SendHCICommand_Count(r)
    BY <2>1, IncrementType DEF FreeBT_SendHCICommand_Count
  <2>2. CASE FreeBT_SendHCICommand_Call(r)
    BY <2>2 DEF FreeBT_SendHCICommand_Call
  <2>3. CASE FreeBT_SendHCICommand_Refused(r)
    BY <2>3, DecrementType DEF FreeBT_SendHCICommand_Refused
  <2>4. CASE FreeBT_SendHCICommand_Fails(r)
    BY <2>4, DecrementType DEF FreeBT_SendHCICommand_Fails
  <2>5. CASE FreeBT_DispatchReadWrite_Call(r)
    BY <2>5 DEF FreeBT_DispatchReadWrite_Call
  <2>6. CASE FreeBT_DispatchReadWrite_Count(r)
    BY <2>6, IncrementType DEF FreeBT_DispatchReadWrite_Count
  <2>7. CASE FreeBT_Completion(r)
    BY <2>7, DecrementType DEF FreeBT_Completion
  <2>8. CASE FreeBT_ReadWriteCompletion_Early(r)
    BY <2>8, DecrementType DEF FreeBT_ReadWriteCompletion_Early
  <2>9. CASE FreeBT_DispatchExit(r)
    BY <2>9 DEF FreeBT_DispatchExit
  <2> QED
    BY <1>7, <2>1, <2>2, <2>3, <2>4, <2>5, <2>6, <2>7, <2>8, <2>9 DEF RequestStep, Completion
<1>8. ASSUME NEW r \in Requests, FreeBT_DispatchDevCtrl(r) \/ FreeBT_DispatchReadWrite(r)
      PROVE  DriverTypeOK'
  BY <1>8 DEF FreeBT_DispatchDevCtrl, FreeBT_DispatchReadWrite, Admit, SetRequest
<1>9. CASE UNCHANGED vars
  BY <1>9 DEF vars
<1> QED
  BY <1>1, <1>2, <1>3, <1>4, <1>5, <1>6, <1>7, <1>8, <1>9 DEF Next

-----------------------------------------------------------------------------
(* The events and the device state.                                        *)

\* StopEvent is signalled only with at most the bias in OutStandingIO, and only
\* a query waits for it.
EventInv ==
  /\ stopEvent => outStandingIO <= 1
  /\ "pnp" \in stopWaiters => pnp.irp \in Queries /\ pnp.pc = "waiting"

\* What the PnP request inside the driver says about the device state.
Removing ==
  \/ pnp.pc \in {"removed", "deregistered", "biased", "deleted"}
  \/ At("REMOVE", "waiting")

StateInv ==
  /\ Removing => devState = "Removed"
  /\ At("QUERY_STOP", "entered") => devState = "Working"
  /\ At("QUERY_REMOVE", "entered") => devState \in {"NotStarted", "Working", "Stopped"}
  /\ devState = "PendingStop" => prevDevState = "Working"
  /\ devState = "PendingRemove" => prevDevState \in {"NotStarted", "Working", "Stopped"}

\* Without reads, writes and refusals no request is missing from the count.
AllCounted == \A r \in Requests : request[r] \in {"idle", "dispatched", "counted", "pending"}

(* What a step may do to the count and its events.                         *)
LEMMA CountSteps ==
  ASSUME Next
  PROVE  \/ FreeBT_IoIncrement \/ FreeBT_IoDecrement \/ UNCHANGED countVars
         \/ HandleQuery_Wait \/ HandleRemoveDevice_Delete
<1>1. CASE PnpStep
  BY <1>1 DEF PnpStep, FreeBT_DispatchPnP_Done, HandleOther, HandleStartDevice_Send,
      HandleStartDevice_Fail, HandleStartDevice_Work, HandleQuery_Hold, HandleQuery_Release,
      HandleQuery_Return, HandleCancel_Restore, HandleCancel_Nothing, HandleStopDevice,
      HandleStopDevice_Release, HandleSurpriseRemoval, HandleRemoveDevice_Fail,
      HandleRemoveDevice, FreeBT_WmiDeRegistration, HandleRemoveDevice_Decrement
<1>2. CASE WmiStep \/ FreeBT_DispatchSysCtrl_Check \/ \E irp \in PnpIrps : FreeBT_DispatchPnP(irp)
  BY <1>2 DEF WmiStep, FreeBT_DispatchSysCtrl_Check, FreeBT_DispatchSysCtrl_Count,
      FreeBT_DispatchSysCtrl_Done, FreeBT_DispatchPnP
<1>3. ASSUME NEW h \in Handles,
             \/ FreeBT_DispatchCreate_Check(h) \/ FreeBT_DispatchCreate_Open(h)
             \/ FreeBT_DispatchClean(h) \/ FreeBT_DispatchClean_Done(h)
             \/ FreeBT_DispatchClose(h)
      PROVE  FreeBT_IoIncrement \/ FreeBT_IoDecrement \/ UNCHANGED countVars
  BY <1>3 DEF FreeBT_DispatchCreate_Check, FreeBT_DispatchCreate_Open, FreeBT_DispatchClean,
      FreeBT_DispatchClean_Done, FreeBT_DispatchClose
<1>4. ASSUME NEW r \in Requests,
             \/ FreeBT_DispatchDevCtrl(r) \/ FreeBT_DispatchReadWrite(r)
             \/ RequestStep(r) \/ Completion(r)
      PROVE  FreeBT_IoIncrement \/ FreeBT_IoDecrement \/ UNCHANGED countVars
  BY <1>4 DEF FreeBT_DispatchDevCtrl, FreeBT_DispatchReadWrite, Admit, RequestStep, Completion,
      FreeBT_DispatchExit, FreeBT_SendHCICommand_Count, FreeBT_SendHCICommand_Call, FreeBT_SendHCICommand_Refused,
      FreeBT_SendHCICommand_Fails, FreeBT_DispatchReadWrite_Call, FreeBT_DispatchReadWrite_Count,
      FreeBT_Completion, FreeBT_ReadWriteCompletion_Early
<1> QED
  BY <1>1, <1>2, <1>3, <1>4 DEF Next

(* Only the PnP request comes to wait for the StopEvent.                   *)
LEMMA NewWaiters == [Next]_vars => stopWaiters' \subseteq stopWaiters \cup {"pnp"}
BY CountSteps DEF vars, FreeBT_IoIncrement, FreeBT_IoDecrement, KeSetStopEvent,
                  HandleRemoveDevice_Delete, HandleQuery_Wait, KeWaitForStopEvent

(* OutStandingIO is exact and OpenHandleCount is the number of open files in *)
(* every reachable state of the driver, and the variables have their types. *)
THEOREM CountIsExact == Spec => [](TypeOK /\ CountExact)
<1>1. Init => TypeOK /\ CountExact
  BY InitType DEF Init, TypeOK, CountExact
<1>2. TypeOK /\ CountExact /\ [Next]_vars => (TypeOK /\ CountExact)'
  <2> SUFFICES ASSUME TypeOK, CountExact, [Next]_vars PROVE (TypeOK /\ CountExact)'
    OBVIOUS
  <2>1. DriverTypeOK /\ CountIs(0) /\ stopWaiters \subseteq {"pnp"}
    BY DEF TypeOK, CountExact
  <2>2. DriverTypeOK'
    BY <2>1, NextType
  <2>3. CountExact'
    BY <2>1, NextCount DEF CountExact
  <2>4. stopWaiters' \subseteq {"pnp"}
    BY <2>1, NewWaiters
  <2> QED
    BY <2>2, <2>3, <2>4 DEF TypeOK
<1> QED
  BY <1>1, <1>2, PTL DEF Spec

(* Only the PnP request changes the device state.                          *)
LEMMA PnpSteps ==
  ASSUME Next
  PROVE  PnpStep \/ (\E irp \in PnpIrps : FreeBT_DispatchPnP(irp)) \/ UNCHANGED pnpVars
<1>1. CASE WmiStep \/ FreeBT_DispatchSysCtrl_Check
  BY <1>1 DEF WmiStep, FreeBT_DispatchSysCtrl_Check, FreeBT_DispatchSysCtrl_Count,
      FreeBT_DispatchSysCtrl_Done
<1>2. ASSUME NEW h \in Handles,
             \/ FreeBT_DispatchCreate_Check(h) \/ FreeBT_DispatchCreate_Open(h)
             \/ FreeBT_DispatchClean(h) \/ FreeBT_DispatchClean_Done(h)
             \/ FreeBT_DispatchClose(h)
      PROVE  UNCHANGED pnpVars
  BY <1>2 DEF FreeBT_DispatchCreate_Check, FreeBT_DispatchCreate_Open, FreeBT_DispatchClean,
      FreeBT_DispatchClean_Done, FreeBT_DispatchClose
<1>3. ASSUME NEW r \in Requests,
             \/ FreeBT_DispatchDevCtrl(r) \/ FreeBT_DispatchReadWrite(r)
             \/ RequestStep(r) \/ Completion(r)
      PROVE  UNCHANGED pnpVars
  BY <1>3 DEF FreeBT_DispatchDevCtrl, FreeBT_DispatchReadWrite, Admit, RequestStep, Completion,
      FreeBT_DispatchExit, FreeBT_SendHCICommand_Count, FreeBT_SendHCICommand_Call, FreeBT_SendHCICommand_Refused,
      FreeBT_SendHCICommand_Fails, FreeBT_DispatchReadWrite_Call, FreeBT_DispatchReadWrite_Count,
      FreeBT_Completion, FreeBT_ReadWriteCompletion_Early
<1> QED
  BY <1>1, <1>2, <1>3 DEF Next

LEMMA NextStateInv == DriverTypeOK /\ StateInv /\ [Next]_vars => StateInv'
<1> SUFFICES ASSUME DriverTypeOK, StateInv, [Next]_vars PROVE StateInv'
  OBVIOUS
<1> USE DEF StateInv, Removing, At
<1>1. CASE PnpStep
  <2> USE DEF DriverTypeOK, GoTo, Answered, NewPnpState, Queries
  <2>1. CASE FreeBT_DispatchPnP_Done
    BY <2>1 DEF FreeBT_DispatchPnP_Done
  <2>2. CASE HandleOther
    BY <2>2 DEF HandleOther
  <2>3. CASE HandleStartDevice_Send
    BY <2>3 DEF HandleStartDevice_Send
  <2>4. CASE HandleStartDevice_Fail
    BY <2>4 DEF HandleStartDevice_Fail
  <2>5. CASE HandleStartDevice_Work
    BY <2>5 DEF HandleStartDevice_Work
  <2>6. CASE HandleQuery_Hold
    BY <2>6 DEF HandleQuery_Hold
  <2>7. CASE HandleQuery_Release
    BY <2>7 DEF HandleQuery_Release
  <2>8. CASE HandleQuery_Wait
    BY <2>8 DEF HandleQuery_Wait
  <2>9. CASE HandleQuery_Return
    BY <2>9 DEF HandleQuery_Return
  <2>10. CASE HandleCancel_Restore
    BY <2>10 DEF HandleCancel_Restore
  <2>11. CASE HandleCancel_Nothing
    BY <2>11 DEF HandleCancel_Nothing
  <2>12. CASE HandleStopDevice
    BY <2>12 DEF HandleStopDevice
  <2>13. CASE HandleStopDevice_Release
    BY <2>13 DEF HandleStopDevice_Release
  <2>14. CASE HandleSurpriseRemoval
    BY <2>14 DEF HandleSurpriseRemoval
  <2>15. CASE HandleRemoveDevice_Fail
    BY <2>15 DEF HandleRemoveDevice_Fail
  <2>16. CASE HandleRemoveDevice
    BY <2>16 DEF HandleRemoveDevice
  <2>17. CASE FreeBT_WmiDeRegistration
    BY <2>17 DEF FreeBT_WmiDeRegistration
  <2>18. CASE HandleRemoveDevice_Decrement
    BY <2>18 DEF HandleRemoveDevice_Decrement
  <2>19. CASE HandleRemoveDevice_Delete
    BY <2>19 DEF HandleRemoveDevice_Delete
  <2> QED
    BY <1>1, <2>1, <2>2, <2>3, <2>4, <2>5, <2>6, <2>7, <2>8, <2>9, <2>10,
       <2>11, <2>12, <2>13, <2>14, <2>15, <2>16, <2>17, <2>18, <2>19 DEF PnpStep
<1>2. ASSUME NEW irp \in PnpIrps, FreeBT_DispatchPnP(irp) PROVE StateInv'
  BY <1>2 DEF FreeBT_DispatchPnP, MaySend, DriverTypeOK
<1>3. CASE UNCHANGED pnpVars
  BY <1>3
<1> QED
  BY <1>1, <1>2, <1>3, PnpSteps DEF vars

(* A signalled event means a count of at most one: both ends of that.      *)
LEMMA IncrementEvent ==
  ASSUME DriverTypeOK, stopEvent => outStandingIO <= 1, FreeBT_IoIncrement
  PROVE  stopEvent' => outStandingIO' <= 1
<1>1. outStandingIO' = outStandingIO + 1 /\ outStandingIO \in Int
  BY DEF DriverTypeOK, FreeBT_IoIncrement
<1>2. CASE outStandingIO' = 2
  BY <1>2 DEF FreeBT_IoIncrement
<1>3. CASE outStandingIO' # 2
  <2>1. stopEvent' = stopEvent
    BY <1>3 DEF FreeBT_IoIncrement
  <2>2. stopEvent => outStandingIO' <= 1
    BY <1>1, <1>3
  <2> QED
    BY <2>1, <2>2, Zenon
<1> QED
  BY <1>2, <1>3

LEMMA DecrementEvent ==
  ASSUME DriverTypeOK, stopEvent => outStandingIO <= 1, FreeBT_IoDecrement
  PROVE  stopEvent' => outStandingIO' <= 1
<1>1. CASE outStandingIO' = 1
  BY <1>1
<1>2. CASE outStandingIO' # 1
  <2>1. stopEvent' = stopEvent
    BY <1>2 DEF FreeBT_IoDecrement
  <2>2. outStandingIO' = outStandingIO - 1 /\ outStandingIO \in Int
    BY DEF DriverTypeOK, FreeBT_IoDecrement
  <2>3. stopEvent => outStandingIO' <= 1
    BY <2>2
  <2> QED
    BY <2>1, <2>3, Zenon
<1> QED
  BY <1>1, <1>2

LEMMA NextEventInv == DriverTypeOK /\ EventInv /\ [Next]_vars => EventInv'
<1> SUFFICES ASSUME DriverTypeOK, EventInv, [Next]_vars PROVE EventInv'
  OBVIOUS
<1>1. stopEvent' => outStandingIO' <= 1
  <2>1. CASE FreeBT_IoIncrement
    BY <2>1, IncrementEvent DEF EventInv
  <2>2. CASE FreeBT_IoDecrement
    BY <2>2, DecrementEvent DEF EventInv
  <2>3. CASE HandleQuery_Wait
    BY <2>3 DEF HandleQuery_Wait, KeWaitForStopEvent
  <2>4. CASE HandleRemoveDevice_Delete
    BY <2>4 DEF EventInv, HandleRemoveDevice_Delete
  <2>5. CASE UNCHANGED countVars
    BY <2>5 DEF EventInv
  <2> QED
    BY <2>1, <2>2, <2>3, <2>4, <2>5, CountSteps DEF vars
<1>2. ~HandleQuery_Wait => stopWaiters' \subseteq stopWaiters
  BY CountSteps DEF vars, FreeBT_IoIncrement, FreeBT_IoDecrement, KeSetStopEvent,
                    HandleRemoveDevice_Delete
<1>3. "pnp" \in stopWaiters' => pnp'.irp \in Queries /\ pnp'.pc = "waiting"
  <2>1. CASE HandleQuery_Wait
    BY <2>1 DEF HandleQuery_Wait, GoTo, DriverTypeOK
  <2>2. CASE PnpStep /\ ~HandleQuery_Wait
    <3>1. ~(pnp.irp \in Queries /\ pnp.pc = "waiting" /\ "pnp" \in stopWaiters)
      BY <2>2 DEF PnpStep, At, Queries, FreeBT_DispatchPnP_Done, HandleOther,
          HandleStartDevice_Send, HandleStartDevice_Fail, HandleStartDevice_Work,
          HandleQuery_Hold, HandleQuery_Release, HandleQuery_Return, HandleCancel_Restore,
          HandleCancel_Nothing, HandleStopDevice, HandleStopDevice_Release,
          HandleSurpriseRemoval, HandleRemoveDevice_Fail, HandleRemoveDevice,
          FreeBT_WmiDeRegistration, HandleRemoveDevice_Decrement, HandleRemoveDevice_Delete
    <3> QED
      BY <2>2, <3>1, <1>2 DEF EventInv
  <2>3. ASSUME NEW irp \in PnpIrps, FreeBT_DispatchPnP(irp), ~HandleQuery_Wait
        PROVE  "pnp" \notin stopWaiters'
    BY <2>3, <1>2 DEF EventInv, FreeBT_DispatchPnP, At
  <2>4. CASE UNCHANGED pnpVars
    <3>1. ~HandleQuery_Wait
      BY <2>4 DEF HandleQuery_Wait, GoTo, DriverTypeOK
    <3> QED
      BY <2>4, <3>1, <1>2 DEF EventInv
  <2> QED
    BY <2>1, <2>2, <2>3, <2>4, PnpSteps DEF vars
<1> QED
  BY <1>1, <1>3 DEF EventInv

LEMMA NextAllCounted ==
  ASSUME Transfers = {}, Failing = {}, AllCounted, DriverTypeOK, [Next]_vars
  PROVE  AllCounted'
<1>1. ASSUME NEW r \in Requests,
             \/ FreeBT_DispatchDevCtrl(r) \/ FreeBT_DispatchReadWrite(r)
             \/ RequestStep(r) \/ Completion(r)
      PROVE  AllCounted'
  BY <1>1 DEF AllCounted, DriverTypeOK, SetRequest, FreeBT_DispatchDevCtrl, FreeBT_DispatchReadWrite,
      Admit, RequestStep, Completion, FreeBT_DispatchExit, FreeBT_SendHCICommand_Count, FreeBT_SendHCICommand_Call,
      FreeBT_SendHCICommand_Refused, FreeBT_SendHCICommand_Fails, FreeBT_DispatchReadWrite_Call,
      FreeBT_DispatchReadWrite_Count, FreeBT_Completion, FreeBT_ReadWriteCompletion_Early
<1>2. CASE UNCHANGED request
  BY <1>2 DEF AllCounted
<1>3. PnpStep => UNCHANGED request
  BY DEF PnpStep, FreeBT_DispatchPnP_Done, HandleOther, HandleStartDevice_Send,
      HandleStartDevice_Fail, HandleStartDevice_Work, HandleQuery_Hold, HandleQuery_Release,
      HandleQuery_Wait, HandleQuery_Return, HandleCancel_Restore, HandleCancel_Nothing,
      HandleStopDevice, HandleStopDevice_Release, HandleSurpriseRemoval, HandleRemoveDevice_Fail,
      HandleRemoveDevice, FreeBT_WmiDeRegistration, HandleRemoveDevice_Decrement,
      HandleRemoveDevice_Delete
<1>4. WmiStep \/ FreeBT_DispatchSysCtrl_Check => UNCHANGED request
  BY DEF WmiStep, FreeBT_DispatchSysCtrl_Check, FreeBT_DispatchSysCtrl_Count,
      FreeBT_DispatchSysCtrl_Done
<1>5. \A irp \in PnpIrps : FreeBT_DispatchPnP(irp) => UNCHANGED request
  BY DEF FreeBT_DispatchPnP
<1>6. \A h \in Handles :
        \/ FreeBT_DispatchCreate_Check(h) \/ FreeBT_DispatchCreate_Open(h)
        \/ FreeBT_DispatchClean(h) \/ FreeBT_DispatchClean_Done(h)
        \/ FreeBT_DispatchClose(h)
        => UNCHANGED request
  BY DEF FreeBT_DispatchCreate_Check, FreeBT_DispatchCreate_Open, FreeBT_DispatchClean,
      FreeBT_DispatchClean_Done, FreeBT_DispatchClose
<1> QED
  BY <1>1, <1>2, <1>3, <1>4, <1>5, <1>6 DEF Next, vars

LEMMA InitInv == Init => EventInv /\ StateInv /\ AllCounted
<1> SUFFICES ASSUME Init PROVE EventInv /\ StateInv /\ AllCounted
  OBVIOUS
<1>1. EventInv
  BY DEF Init, EventInv
<1>2. StateInv
  BY DEF Init, StateInv, Removing, At
<1>3. AllCounted
  BY DEF Init, AllCounted
<1> QED
  BY <1>1, <1>2, <1>3

-----------------------------------------------------------------------------
(* The waits and the assertions.                                           *)

Inv(n) == DriverTypeOK /\ CountIs(n) /\ EventInv /\ StateInv /\ AllCounted

LEMMA InvAlways == ASSUME Transfers = {}, Failing = {} PROVE Spec => []Inv(0)
<1>1. Init => Inv(0)
  BY InitType, InitInv DEF Inv
<1>2. Inv(0) /\ [Next]_vars => Inv(0)'
  BY NextType, NextCount, NextEventInv, NextStateInv, NextAllCounted DEF Inv
<1> QED
  BY <1>1, <1>2, PTL DEF Spec

\* With no request missing from it, the count is at least what PnP and the
\* others hold, and at the bias nobody is inside.
BiasFact(n) ==
  DriverTypeOK /\ CountIs(n) /\ AllCounted =>
    /\ outStandingIO >= n + PnpCount
    /\ outStandingIO <= n + PnpCount => NobodyInside

LEMMA CountAtBias == \A n \in Int : BiasFact(n)
<1> SUFFICES ASSUME NEW n \in Int, DriverTypeOK, CountIs(n), AllCounted
             PROVE  /\ outStandingIO >= n + PnpCount
                    /\ outStandingIO <= n + PnpCount => NobodyInside
  BY DEF BiasFact
<1>1. Lacking = {}
  BY DEF Lacking, AllCounted
<1>2. Cardinality(Lacking) = 0
  BY <1>1, FS_EmptySet
<1> DEFINE w == IF wmi = "counted" THEN 1 ELSE 0
<1>3. outStandingIO = n + PnpCount + w + Cardinality(Cleaning) + Cardinality(Counted)
  BY <1>2, Sizes, PnpCountType DEF CountIs
<1>4. outStandingIO >= n + PnpCount
  BY <1>3, Sizes, PnpCountType
<1>5. ASSUME outStandingIO <= n + PnpCount PROVE NobodyInside
  <2>1. w = 0 /\ Cardinality(Cleaning) = 0 /\ Cardinality(Counted) = 0
    BY <1>3, <1>5, Sizes, PnpCountType
  <2> QED
    BY <2>1, Sizes, FS_EmptySet DEF NobodyInside
<1> QED
  BY <1>4, <1>5

LEMMA CountAtBiasNext == (\A n \in Int : BiasFact(n))'
BY CountAtBias, PTL

(* The wait of a query begins with HandleQuery_Wait.                         *)
LEMMA WaitBegins ==
  ASSUME [Next]_vars, DriverTypeOK, ~(pnp.irp \in Queries /\ pnp.pc = "waiting"),
         pnp'.irp \in Queries, pnp'.pc = "waiting"
  PROVE  HandleQuery_Wait
<1>1. PnpStep => HandleQuery_Wait
  BY DEF DriverTypeOK, PnpStep, At, GoTo, Answered, Queries, FreeBT_DispatchPnP_Done,
      HandleOther, HandleStartDevice_Send, HandleStartDevice_Fail, HandleStartDevice_Work,
      HandleQuery_Hold, HandleQuery_Release, HandleQuery_Return, HandleCancel_Restore,
      HandleCancel_Nothing, HandleStopDevice, HandleStopDevice_Release,
      HandleSurpriseRemoval, HandleRemoveDevice_Fail, HandleRemoveDevice,
      FreeBT_WmiDeRegistration, HandleRemoveDevice_Decrement, HandleRemoveDevice_Delete
<1>2. \A irp \in PnpIrps : ~FreeBT_DispatchPnP(irp)
  BY DEF FreeBT_DispatchPnP
<1> QED
  BY <1>1, <1>2, PnpSteps DEF vars

LEMMA WaitStep ==
  ASSUME NEW n \in Nat, Inv(n), Inv(n)', [Next]_vars, ~WaitOver, WaitOver'
  PROVE  NobodyInside' /\ n = 0
<1> USE DEF Inv
<1>1. CASE HandleQuery_Wait
  <2>1. pnp.pc = "released" /\ PnpCount = 1
    BY <1>1 DEF HandleQuery_Wait, PnpCount
  <2>2. stopEvent
    BY <1>1 DEF HandleQuery_Wait, KeWaitForStopEvent, WaitOver
  <2>3. outStandingIO <= PnpCount
    BY <2>1, <2>2 DEF EventInv
  <2>4. NobodyInside /\ n = 0
    <3> HIDE DEF Inv
    <3>1. DriverTypeOK /\ CountIs(n) /\ AllCounted
      BY DEF Inv
    <3>2. outStandingIO >= n + PnpCount /\ outStandingIO \in Int
      BY <3>1, CountAtBias DEF DriverTypeOK, BiasFact
    <3>3. outStandingIO <= n + PnpCount
      BY <2>1, <2>3, <3>2
    <3> QED
      BY <2>1, <2>3, <3>1, <3>2, <3>3, CountAtBias DEF BiasFact
  <2> QED
    BY <1>1, <2>4 DEF HandleQuery_Wait, NobodyInside, Counted, Cleaning
<1>2. CASE ~HandleQuery_Wait
  <2>1. pnp.irp \in Queries /\ pnp.pc = "waiting"
    BY <1>2, WaitBegins DEF WaitOver
  <2>2. "pnp" \in stopWaiters /\ "pnp" \notin stopWaiters'
    BY <2>1 DEF WaitOver
  <2>3. FreeBT_IoDecrement /\ outStandingIO' = 1
    BY <1>2, <2>1, <2>2, CountSteps
    DEF vars, FreeBT_IoIncrement, FreeBT_IoDecrement, HandleRemoveDevice_Delete, DriverTypeOK
  <2>4. PnpCount' = 1
    BY DEF WaitOver, PnpCount, Queries
  <2> HIDE DEF Inv
  <2>5. DriverTypeOK' /\ CountIs(n)' /\ AllCounted'
    BY DEF Inv
  <2>6. /\ outStandingIO' >= n + PnpCount'
        /\ outStandingIO' <= n + PnpCount' => NobodyInside'
    BY <2>5, CountAtBiasNext DEF BiasFact
  <2> QED
    BY <2>3, <2>4, <2>6
<1> QED
  BY <1>1, <1>2

(* When HandleQueryStopDevice and HandleQueryRemoveDevice have waited, no   *)
(* request is in the driver, for any number of requests and file objects,   *)
(* provided that every request is counted before it is sent (no reads and   *)
(* writes) and IoCallDriver refuses none.                                   *)
THEOREM QueriesWaitForRequests ==
  ASSUME Transfers = {}, Failing = {}
  PROVE  Spec => WaitEndsIdle
<1>1. Spec => []Inv(0)
  BY InvAlways
<1>2. Inv(0) /\ Inv(0)' /\ [Next]_vars => [~WaitOver /\ WaitOver' => NobodyInside']_vars
  BY WaitStep
<1> QED
  BY <1>1, <1>2, PTL DEF Spec, WaitEndsIdle

(* A step that changes the device state leaves the count alone.            *)
LEMMA StateOrCount == [Next]_vars => UNCHANGED devState \/ UNCHANGED outStandingIO
<1>1. PnpStep => UNCHANGED devState \/ UNCHANGED outStandingIO
  BY DEF PnpStep, FreeBT_DispatchPnP_Done, HandleOther,
      HandleStartDevice_Send, HandleStartDevice_Fail, HandleStartDevice_Work, HandleQuery_Hold,
      HandleQuery_Release, HandleQuery_Wait, HandleQuery_Return, HandleCancel_Restore,
      HandleCancel_Nothing, HandleStopDevice, HandleStopDevice_Release, HandleSurpriseRemoval,
      HandleRemoveDevice_Fail, HandleRemoveDevice, FreeBT_WmiDeRegistration,
      HandleRemoveDevice_Decrement, HandleRemoveDevice_Delete
<1>2. \A irp \in PnpIrps : FreeBT_DispatchPnP(irp) => UNCHANGED devState
  BY DEF FreeBT_DispatchPnP
<1> QED
  BY <1>1, <1>2, PnpSteps DEF vars

(* A stop is cancelled back to Working.                                    *)
LEMMA CancelStopStep ==
  ASSUME StateInv, [Next]_vars, devState = "PendingStop", pnp.irp = "CANCEL_STOP",
         devState' # devState
  PROVE  devState' = "Working"
<1>1. PnpStep
  BY PnpSteps DEF vars, FreeBT_DispatchPnP, At
<1>2. HandleCancel_Restore
  BY <1>1 DEF At, Queries, PnpStep, FreeBT_DispatchPnP_Done, HandleOther,
      HandleStartDevice_Send, HandleStartDevice_Fail, HandleStartDevice_Work, HandleQuery_Hold,
      HandleQuery_Release, HandleQuery_Wait, HandleQuery_Return, HandleCancel_Restore,
      HandleCancel_Nothing, HandleStopDevice, HandleStopDevice_Release, HandleSurpriseRemoval,
      HandleRemoveDevice_Fail, HandleRemoveDevice, FreeBT_WmiDeRegistration,
      HandleRemoveDevice_Decrement, HandleRemoveDevice_Delete
<1> QED
  BY <1>2 DEF HandleCancel_Restore, StateInv

LEMMA AssertStep ==
  Inv(0) /\ Inv(0)' /\ [Next]_vars =>
    /\ outStandingIO' = 0 /\ outStandingIO # 0 => devState = "Removed"
    /\ pnp'.pc = "biased" /\ pnp.pc # "biased" => outStandingIO' > 0
    /\ devState = "PendingStop" /\ pnp.irp = "CANCEL_STOP" /\ devState' # devState
         => devState' = "Working"
<1> SUFFICES ASSUME Inv(0), Inv(0)', [Next]_vars
             PROVE  /\ outStandingIO' = 0 /\ outStandingIO # 0 => devState = "Removed"
                    /\ pnp'.pc = "biased" /\ pnp.pc # "biased" => outStandingIO' > 0
                    /\ devState = "PendingStop" /\ pnp.irp = "CANCEL_STOP" /\ devState' # devState
                         => devState' = "Working"
  OBVIOUS
<1>1. /\ (DriverTypeOK /\ CountIs(0) /\ AllCounted)' /\ DriverTypeOK' /\ StateInv'
      /\ StateInv
  BY DEF Inv
<1>2. PnpCount' \in 0 .. 2 /\ outStandingIO' \in Int
  BY <1>1 DEF PnpCount, DriverTypeOK
<1>3. outStandingIO' >= PnpCount'
  <2>1. outStandingIO' >= 0 + PnpCount'
    BY <1>1, CountAtBiasNext DEF BiasFact
  <2>2. \A i, j \in Int : i >= 0 + j => i >= j
    OBVIOUS
  <2>3. PnpCount' \in Int
    BY <1>2
  <2> QED
    BY <2>1, <2>2, <2>3, <1>2
<1>4. ASSUME outStandingIO' = 0, outStandingIO # 0 PROVE devState = "Removed"
  <2>1. PnpCount' = 0
    BY <1>3, <1>2, <1>4
  <2>2. Removing'
    BY <1>1, <2>1 DEF PnpCount, Removing, At, DriverTypeOK
  <2>3. devState' = "Removed"
    BY <1>1, <2>2 DEF StateInv
  <2> QED
    BY <1>4, <2>3, StateOrCount
<1>5. ASSUME pnp'.pc = "biased" PROVE outStandingIO' > 0
  <2>1. PnpCount' = 1
    BY <1>5 DEF PnpCount
  <2> QED
    BY <1>3, <1>2, <2>1
<1>6. ASSUME devState = "PendingStop", pnp.irp = "CANCEL_STOP", devState' # devState
      PROVE  devState' = "Working"
  BY <1>1, <1>6, CancelStopStep
<1> QED
  BY <1>4, <1>5, <1>6

(* Under the same proviso the driver's assertions hold: OutStandingIO falls *)
(* to zero only in a device that is Removed, the first decrement of the     *)
(* removal leaves the bias, and a cancelled stop returns to Working.        *)
THEOREM DriverAssertions ==
  ASSUME Transfers = {}, Failing = {}
  PROVE  Spec => AssertsHold
<1>1. Spec => []Inv(0)
  BY InvAlways
<1>2. Inv(0) /\ Inv(0)' /\ [Next]_vars =>
        /\ [outStandingIO' = 0 /\ outStandingIO # 0 => devState = "Removed"]_vars
        /\ [pnp'.pc = "biased" /\ pnp.pc # "biased" => outStandingIO' > 0]_vars
        /\ [devState = "PendingStop" /\ pnp.irp = "CANCEL_STOP" /\ devState' # devState
               => devState' = "Working"]_vars
  BY AssertStep
<1> QED
  BY <1>1, <1>2, PTL DEF Spec, AssertsHold, AssertRemoved
-----------------------------------------------------------------------------
(* The end of the device.                                                  *)

\* A file object lives as long as its requests, none is left when the device is
\* removed, and by then no WMI request can come any more.
Deregistered ==
  \/ pnp.pc \in {"deregistered", "biased", "deleted"}
  \/ At("REMOVE", "waiting")

LastRequests ==
  /\ \A r \in Requests : Over(r) \/ handle[FileOf[r]] \in GrantedStates
  /\ pnp.irp = "REMOVE" \/ pnp.pc = "deleted" =>
       devState # "Working" /\ \A h \in Handles : handle[h] = "closed"
  /\ Deregistered => wmi = "deregistered"

LEMMA HandleChanges ==
  ASSUME DriverTypeOK, NEW h \in Handles, NEW s, SetHandle(h, s)
  PROVE  \A g \in Handles : handle'[g] = IF g = h THEN s ELSE handle[g]
BY DEF DriverTypeOK, SetHandle

LEMMA HandleLastRequests ==
  ASSUME DriverTypeOK, LastRequests, NEW h \in Handles,
         \/ FreeBT_DispatchCreate_Check(h) \/ FreeBT_DispatchCreate_Open(h)
         \/ FreeBT_DispatchClean(h) \/ FreeBT_DispatchClean_Done(h)
         \/ FreeBT_DispatchClose(h)
  PROVE  LastRequests'
<1>1. UNCHANGED <<pnpVars, request, wmi>>
  BY DEF FreeBT_DispatchCreate_Check, FreeBT_DispatchCreate_Open, FreeBT_DispatchClean,
     FreeBT_DispatchClean_Done, FreeBT_DispatchClose
<1>2. \/ handle[h] = "closed" /\ devState = "Working" /\ SetHandle(h, "checked")
      \/ handle[h] = "checked" /\ SetHandle(h, "open")
      \/ handle[h] = "open" /\ SetHandle(h, "cleaning")
      \/ handle[h] = "cleaning" /\ SetHandle(h, "cleaned")
      \/ /\ handle[h] = "cleaned" /\ SetHandle(h, "closed")
         /\ \A r \in Requests : FileOf[r] = h => Over(r)
  BY DEF FreeBT_DispatchCreate_Check, FreeBT_DispatchCreate_Open, FreeBT_DispatchClean,
     FreeBT_DispatchClean_Done, FreeBT_DispatchClose
<1>3. \A r \in Requests : FileOf[r] \in Handles /\ (Over(r)' <=> Over(r))
  BY <1>1, PnpAssumption DEF Over
<1>4. \A r \in Requests : Over(r)' \/ handle'[FileOf[r]] \in GrantedStates
  BY <1>2, <1>3, HandleChanges DEF LastRequests, GrantedStates
<1>5. ~(pnp.irp = "REMOVE" \/ pnp.pc = "deleted")
  BY <1>2 DEF LastRequests
<1> QED
  BY <1>1, <1>4, <1>5 DEF LastRequests, Deregistered, At

LEMMA RequestLastRequests ==
  ASSUME DriverTypeOK, LastRequests, NEW r \in Requests,
         \/ FreeBT_DispatchDevCtrl(r) \/ FreeBT_DispatchReadWrite(r)
         \/ RequestStep(r) \/ Completion(r)
  PROVE  LastRequests'
<1>1. /\ UNCHANGED <<pnpVars, handle, wmi>> /\ \E s : SetRequest(r, s)
      /\ ~Over(r) \/ handle[FileOf[r]] = "open"
  BY DEF FreeBT_DispatchDevCtrl, FreeBT_DispatchReadWrite, Admit, RequestStep, Completion, Over,
     FreeBT_DispatchExit, FreeBT_SendHCICommand_Count, FreeBT_SendHCICommand_Call,
     FreeBT_SendHCICommand_Refused, FreeBT_SendHCICommand_Fails, FreeBT_DispatchReadWrite_Call,
     FreeBT_DispatchReadWrite_Count, FreeBT_Completion, FreeBT_ReadWriteCompletion_Early
<1>2. \A q \in Requests : q # r => request'[q] = request[q]
  BY <1>1 DEF SetRequest, DriverTypeOK
<1>3. \A q \in Requests : Over(q)' \/ handle'[FileOf[q]] \in GrantedStates
  BY <1>1, <1>2 DEF LastRequests, GrantedStates, Over
<1> QED
  BY <1>1, <1>3 DEF LastRequests, Deregistered, At

LEMMA PnpLastRequests ==
  ASSUME DriverTypeOK, LastRequests, StateInv, StateInv',
         \/ PnpStep \/ WmiStep \/ FreeBT_DispatchSysCtrl_Check
         \/ \E irp \in PnpIrps : FreeBT_DispatchPnP(irp)
  PROVE  LastRequests'
<1>1. UNCHANGED <<handle, request>>
  BY DEF PnpStep, WmiStep, FreeBT_DispatchSysCtrl_Check, FreeBT_DispatchSysCtrl_Count,
      FreeBT_DispatchSysCtrl_Done, FreeBT_DispatchPnP, FreeBT_DispatchPnP_Done, HandleOther, HandleStartDevice_Send,
      HandleStartDevice_Fail, HandleStartDevice_Work, HandleQuery_Hold, HandleQuery_Release,
      HandleQuery_Wait, HandleQuery_Return, HandleCancel_Restore, HandleCancel_Nothing,
      HandleStopDevice, HandleStopDevice_Release, HandleSurpriseRemoval, HandleRemoveDevice_Fail,
      HandleRemoveDevice, FreeBT_WmiDeRegistration, HandleRemoveDevice_Decrement,
      HandleRemoveDevice_Delete
<1>2. CASE PnpStep
  <2>1. /\ pnp'.irp \in {pnp.irp, "none"}
        /\ pnp'.pc = "deleted" => At("REMOVE", "waiting") /\ UNCHANGED devState
        /\ pnp'.irp = "REMOVE" => devState' \in {devState, "Removed"}
    BY <1>2 DEF DriverTypeOK, At, GoTo, Answered, NewPnpState, Queries, PnpStep, FreeBT_DispatchPnP_Done, HandleOther, HandleStartDevice_Send,
      HandleStartDevice_Fail, HandleStartDevice_Work, HandleQuery_Hold, HandleQuery_Release,
      HandleQuery_Wait, HandleQuery_Return, HandleCancel_Restore, HandleCancel_Nothing,
      HandleStopDevice, HandleStopDevice_Release, HandleSurpriseRemoval, HandleRemoveDevice_Fail,
      HandleRemoveDevice, FreeBT_WmiDeRegistration, HandleRemoveDevice_Decrement,
      HandleRemoveDevice_Delete
  <2>2. CASE FreeBT_WmiDeRegistration
    BY <1>1, <2>1, <2>2 DEF LastRequests, Over, FreeBT_WmiDeRegistration, At
  <2>3. CASE ~FreeBT_WmiDeRegistration
    <3>1. UNCHANGED wmi /\ (Deregistered' => Deregistered)
      BY <1>2, <2>3 DEF DriverTypeOK, Deregistered, At, GoTo, Answered, Queries, PnpStep, FreeBT_DispatchPnP_Done, HandleOther, HandleStartDevice_Send,
      HandleStartDevice_Fail, HandleStartDevice_Work, HandleQuery_Hold, HandleQuery_Release,
      HandleQuery_Wait, HandleQuery_Return, HandleCancel_Restore, HandleCancel_Nothing,
      HandleStopDevice, HandleStopDevice_Release, HandleSurpriseRemoval, HandleRemoveDevice_Fail,
      HandleRemoveDevice, FreeBT_WmiDeRegistration, HandleRemoveDevice_Decrement,
      HandleRemoveDevice_Delete
    <3> QED
      BY <1>1, <2>1, <3>1 DEF LastRequests, Over, At
  <2> QED
    BY <2>2, <2>3
<1>3. CASE WmiStep \/ FreeBT_DispatchSysCtrl_Check
  <2>1. (UNCHANGED pnpVars /\ wmi # "deregistered") \/ UNCHANGED <<pnpVars, wmi>>
    BY <1>3 DEF WmiStep, FreeBT_DispatchSysCtrl_Check, FreeBT_DispatchSysCtrl_Count,
       FreeBT_DispatchSysCtrl_Done
  <2> QED
    BY <1>1, <2>1 DEF LastRequests, Deregistered, At, Over
<1>4. ASSUME NEW irp \in PnpIrps, FreeBT_DispatchPnP(irp) PROVE LastRequests'
  <2>1. pnp' = [irp |-> irp, pc |-> "entered"] /\ MaySend(irp) /\ UNCHANGED <<devState, wmi>>
    BY <1>4 DEF FreeBT_DispatchPnP
  <2>2. irp = "REMOVE" => devState # "Working" /\ \A h \in Handles : handle[h] = "closed"
    BY <2>1 DEF MaySend
  <2> QED
    BY <1>1, <2>1, <2>2 DEF LastRequests, Deregistered, At, Over
<1> QED
  BY <1>2, <1>3, <1>4

LEMMA NextLastRequests ==
  DriverTypeOK /\ StateInv /\ StateInv' /\ LastRequests /\ [Next]_vars => LastRequests'
<1> SUFFICES ASSUME DriverTypeOK, StateInv, StateInv', LastRequests, [Next]_vars PROVE LastRequests'
  OBVIOUS
<1>1. CASE UNCHANGED vars
  BY <1>1 DEF vars, LastRequests, Deregistered, At, Over
<1> QED
  BY <1>1, HandleLastRequests, RequestLastRequests, PnpLastRequests DEF Next

\* Nothing is left to do in a device that is deleted.
LEMMA DeletedStops ==
  ASSUME DriverTypeOK, StateInv, LastRequests, [Next]_vars, pnp.pc = "deleted"
  PROVE  UNCHANGED vars
<1>1. /\ devState = "Removed" /\ wmi = "deregistered"
      /\ \A h \in Handles : handle[h] = "closed"
      /\ \A r \in Requests : Over(r) /\ handle[FileOf[r]] = "closed"
  BY PnpAssumption DEF StateInv, Removing, LastRequests, Deregistered, GrantedStates
<1>2. ~PnpStep
  BY DEF At, PnpStep, FreeBT_DispatchPnP_Done, HandleOther, HandleStartDevice_Send,
      HandleStartDevice_Fail, HandleStartDevice_Work, HandleQuery_Hold, HandleQuery_Release,
      HandleQuery_Wait, HandleQuery_Return, HandleCancel_Restore, HandleCancel_Nothing,
      HandleStopDevice, HandleStopDevice_Release, HandleSurpriseRemoval, HandleRemoveDevice_Fail,
      HandleRemoveDevice, FreeBT_WmiDeRegistration, HandleRemoveDevice_Decrement,
      HandleRemoveDevice_Delete
<1>3. ~WmiStep /\ ~FreeBT_DispatchSysCtrl_Check /\ \A irp \in PnpIrps : ~FreeBT_DispatchPnP(irp)
  BY <1>1 DEF WmiStep, FreeBT_DispatchSysCtrl_Check, FreeBT_DispatchSysCtrl_Count,
     FreeBT_DispatchSysCtrl_Done, FreeBT_DispatchPnP, At
<1>4. ASSUME NEW h \in Handles
      PROVE  /\ ~FreeBT_DispatchCreate_Check(h) /\ ~FreeBT_DispatchCreate_Open(h)
             /\ ~FreeBT_DispatchClean(h) /\ ~FreeBT_DispatchClean_Done(h)
             /\ ~FreeBT_DispatchClose(h)
  BY <1>1 DEF FreeBT_DispatchCreate_Check, FreeBT_DispatchCreate_Open, FreeBT_DispatchClean,
     FreeBT_DispatchClean_Done, FreeBT_DispatchClose
<1>5. ASSUME NEW r \in Requests
      PROVE  /\ ~FreeBT_DispatchDevCtrl(r) /\ ~FreeBT_DispatchReadWrite(r)
             /\ ~RequestStep(r) /\ ~Completion(r)
  BY <1>1 DEF FreeBT_DispatchDevCtrl, FreeBT_DispatchReadWrite, Admit, RequestStep, Completion, Over,
     FreeBT_DispatchExit, FreeBT_SendHCICommand_Count, FreeBT_SendHCICommand_Call,
     FreeBT_SendHCICommand_Refused, FreeBT_SendHCICommand_Fails, FreeBT_DispatchReadWrite_Call,
     FreeBT_DispatchReadWrite_Count, FreeBT_Completion, FreeBT_ReadWriteCompletion_Early
<1> QED
  BY <1>2, <1>3, <1>4, <1>5 DEF Next

(* When HandleRemoveDevice has deleted the device object, no request, file  *)
(* object, WMI or PnP request takes a step in the driver any more: also     *)
(* with reads and writes that are counted late, and with requests that were *)
(* refused, where the count the removal waits for is too low.               *)
THEOREM DeletedDeviceIsLeft == Spec => NothingAfterDelete
<1> DEFINE IInv == DriverTypeOK /\ CountIs(0) /\ StateInv /\ LastRequests
<1>1. Init => IInv
  <2>1. Init => DriverTypeOK /\ CountIs(0) /\ StateInv
    BY InitType, InitInv
  <2>2. Init => LastRequests
    BY DEF Init, LastRequests, Deregistered, At, Over
  <2> QED
    BY <2>1, <2>2
<1>2. IInv /\ [Next]_vars => IInv'
  BY NextType, NextCount, NextStateInv, NextLastRequests
<1>3. IInv /\ [Next]_vars => [pnp.pc = "deleted" => UNCHANGED vars]_vars
  BY DeletedStops
<1> QED
  BY <1>1, <1>2, <1>3, PTL DEF Spec, NothingAfterDelete

(* The variables have their types, and none but the PnP request waits for   *)
(* the StopEvent.                                                           *)
THEOREM DriverTypesCorrect == Spec => []TypeOK
BY CountIsExact, PTL
=============================================================================
