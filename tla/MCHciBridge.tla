---------------------------- MODULE MCHciBridge ----------------------------
(* One writing thread, two listener threads, two packets and two events.    *)
EXTENDS HciBridge

CONSTANTS w1, p1, p2, l1, l2, e1, e2

MCWriters == {w1}
MCPackets == {p1, p2}
MCListeners == {l1, l2}
MCEvents == {e1, e2}
MCNoOversize == {}
MCOversize == {p2}
=============================================================================
