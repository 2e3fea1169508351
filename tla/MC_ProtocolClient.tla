------------------------- MODULE MC_ProtocolClient -------------------------
(* Two callers of send_command sharing one connection (the concurrent use *)
(* the spec describes), three calls in all, so that an id is timed out    *)
(* and answered late while another is in flight, and one event of each   *)
(* kind the filter tells apart.                                           *)
EXTENDS ProtocolClient

CONSTANTS c1, c2

MCCallers == {c1, c2}
(* Responses of both kinds: a result, and an {id, error} frame. *)
MCResponseKinds == {"result", "error"}

MCEventMethods == {"Page.loadEventFired", "Runtime.consoleAPICalled"}
=============================================================================
