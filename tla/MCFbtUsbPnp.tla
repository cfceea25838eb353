---------------------------- MODULE MCFbtUsbPnp ----------------------------
(* Two file objects; a command, an event read, a transfer and a command the *)
(* USB stack may refuse.                                                    *)
EXTENDS FbtUsbPnp

CONSTANTS h1, h2, command, eventRead, transfer, refused

MCHandles == {h1, h2}
MCOneHandle == {h1}
MCNone == {}
MCTransfers == {transfer}
MCEventReads == {eventRead}
MCFailing == {refused}
MCOneCommand == {command}
MCOwnRequests == {command, eventRead}
MCCountRequests == {command, transfer, refused}
MCFileOf == [r \in Requests |-> h1]
MCSpreadFileOf == [r \in Requests |-> IF r = command THEN h1 ELSE h2]
=============================================================================
