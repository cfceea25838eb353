--------------------------- MODULE MCRuntimeDevices ---------------------------
(* Two plug-ins, two adapters; one loses its link.                             *)
EXTENDS RuntimeDevices

CONSTANTS p1, p2

MCPlugins == {p1, p2}
MCSlots == {0, 1}
MCAdapters == {0, 1}
MCQueries == <<1, 2>>
MCStackCommands == [p \in MCPlugins |-> IF p = p1 THEN {2} ELSE {}]
MCLeaving == {p1}
MCRemovable == {0}
MCFailing == {<<"query", p2>>, <<"device", p1>>}
=============================================================================
