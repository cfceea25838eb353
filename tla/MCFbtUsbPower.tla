--------------------------- MODULE MCFbtUsbPower ---------------------------
(* One file object, an event read, and one sleeping state, D3, next to the   *)
(* working state.  The PnP manager removes no device under a power IRP.      *)
EXTENDS FbtUsbPower

CONSTANTS h1, eventRead

MCHandles == {h1}
MCNone == {}
MCEventReads == {eventRead}
MCFileOf == [r \in Requests |-> h1]
MCDeviceState == <<1, 3>>
MCPnpOverlap == PnpIrps \ {"REMOVE"}
=============================================================================
