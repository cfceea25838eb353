---------------------------- MODULE MCFbtUsbSuspend ----------------------------
(* Model checking of FbtUsbSuspend: memory for two idle requests. *)
EXTENDS FbtUsbSuspend, TLC

CONSTANTS i1, i2

MCIrps == {i1, i2}
MCOne == {i1}
=============================================================================
