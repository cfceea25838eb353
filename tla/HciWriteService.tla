--------------------------- MODULE HciWriteService ---------------------------
(***************************************************************************)
(* What the emulator's Bluetooth stack may rely on when it writes an HCI   *)
(* packet through the emulated transport, whatever lies between the stack  *)
(* and the USB adapter: the adapter is handed the packet of the call once, *)
(* between the call and its return, and the call returns the adapter's own *)
(* answer to that packet.  Only a call whose connection to the desktop     *)
(* breaks is lost: it never returns, and so never reports success.         *)
(***************************************************************************)
EXTENDS Naturals

CONSTANTS
  Writers,   (* threads of the stack that write packets              *)
  Packets,   (* HCI command and data packets                         *)
  Results,   (* what the adapter may answer: success or an error     *)
  None       (* no packet, no result                                 *)

VARIABLES
  call,      (* call[w]: the write of w, its stage being idle, accepted,
                performed or lost, and the return value of its last one    *)
  adapter,   (* the last packet handed to the adapter, its answer, and the
                parity of the number of packets handed over so far         *)
  connected

vars == <<call, adapter, connected>>

Init ==
  /\ call = [w \in Writers |-> [stage |-> "idle", packet |-> None, result |-> None]]
  /\ adapter = [packet |-> None, result |-> None, parity |-> 0]
  /\ connected = TRUE

Request(w, p) ==
  /\ call[w].stage = "idle"
  /\ call' = [call EXCEPT ![w] = [stage |-> "accepted", packet |-> p, result |-> None]]
  /\ UNCHANGED <<adapter, connected>>

Perform(w, r) ==
  /\ call[w].stage = "accepted"
  /\ call' = [call EXCEPT ![w].stage = "performed", ![w].result = r]
  /\ adapter' = [packet |-> call[w].packet, result |-> r, parity |-> 1 - adapter.parity]
  /\ UNCHANGED connected

Return(w) ==
  /\ call[w].stage = "performed"
  /\ call' = [call EXCEPT ![w].stage = "idle", ![w].packet = None]
  /\ UNCHANGED <<adapter, connected>>

\* The connection breaks, or is found broken.
Break ==
  /\ connected' = FALSE
  /\ \E lost \in SUBSET {w \in Writers : call[w].stage \in {"accepted", "performed"}} :
       call' = [w \in Writers |->
                  IF w \in lost THEN [call[w] EXCEPT !.stage = "lost", !.result = None]
                  ELSE call[w]]
  /\ UNCHANGED adapter

Next ==
  \/ \E w \in Writers, p \in Packets : Request(w, p)
  \/ \E w \in Writers, r \in Results : Perform(w, r)
  \/ \E w \in Writers : Return(w)
  \/ Break

Spec == Init /\ [][Next]_vars
=============================================================================
