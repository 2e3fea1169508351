-------------------------- MODULE MC_BrowserBridge --------------------------
(* One dispatcher; commands that make one call (navigate), two calls     *)
(* (click, type of one character), four (type of two characters), none   *)
(* (type of an empty text) and an unsupported action. The passing run    *)
(* allows four calls, so a late answer can meet a later call and a type   *)
(* can fail between its characters.                                        *)
EXTENDS BrowserBridge

CONSTANTS d, garbage

(* Responses of both kinds: a result, and an {id, error} frame. *)
MCResponseKinds == {"result", "error"}

MCEventMethods == {"Page.loadEventFired", "Runtime.consoleAPICalled"}
MCPayloads == {"navigate", "click", "type", "scroll"}
MCPayloadsWithGarbage == MCPayloads \cup {garbage}
=============================================================================
