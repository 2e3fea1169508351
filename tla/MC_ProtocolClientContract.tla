--------------------- MODULE MC_ProtocolClientContract ---------------------
(* The bounds of MC_ProtocolClient: two callers, three calls, so that an  *)
(* id times out and is answered late while another call is in flight.     *)
EXTENDS ProtocolClientContract

CONSTANTS c1, c2

MCCallers == {c1, c2}

MCResponseKinds == {"result", "error"}

MCEventMethods == {"Page.loadEventFired", "Runtime.consoleAPICalled"}

=============================================================================
