---------------------------- MODULE HciEventFifo ----------------------------
(***************************************************************************)
(* What the emulator's Bluetooth stack may rely on when it reads: while    *)
(* the desktop is connected, the packets of the adapter that it has        *)
(* accepted reach the stack one after the other, in the order of           *)
(* acceptance, each once, and at most Capacity of them are on their way.   *)
(* Breaking the connection may lose the newest; nothing is accepted after. *)
(***************************************************************************)
EXTENDS Naturals, Sequences

CONSTANTS Events, Capacity

VARIABLES queue, connected

vars == <<queue, connected>>

Init == queue = <<>> /\ connected = TRUE

Put(e) ==
  /\ connected
  /\ Len(queue) < Capacity
  /\ queue' = Append(queue, e)
  /\ UNCHANGED connected

Get ==
  /\ queue # <<>>
  /\ queue' = Tail(queue)
  /\ UNCHANGED connected

Break ==
  /\ connected
  /\ connected' = FALSE
  /\ \/ UNCHANGED queue
     \/ queue # <<>> /\ queue' = SubSeq(queue, 1, Len(queue) - 1)

Next == (\E e \in Events : Put(e)) \/ Get \/ Break

Spec == Init /\ [][Next]_vars
=============================================================================
