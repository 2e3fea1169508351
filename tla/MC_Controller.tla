--------------------------- MODULE MC_Controller ---------------------------
(* Start-up with discovery answers of up to two targets, the three enable *)
(* calls, and a browser that answers, emits an event or closes.           *)
EXTENDS Controller

CONSTANTS main

(* Responses of both kinds: a result, and an {id, error} frame. *)
MCResponseKinds == {"result", "error"}

MCEventMethods == {"Page.loadEventFired", "Runtime.consoleAPICalled"}
=============================================================================
