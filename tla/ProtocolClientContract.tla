------------------------ MODULE ProtocolClientContract ------------------------
(***************************************************************************)
(* send_command implements the call contract of module CallContract when   *)
(* Python's wait_for is the pre-3.12 one (eager = FALSE). The refinement   *)
(* mapping:                                                                 *)
(*   issued     the futures created;                                       *)
(*   delivered  the futures handle_messages resolved;                      *)
(*   apc        a caller suspended in wait_for, whether or not its timer   *)
(*              has fired, is waiting;                                     *)
(*   aout       a result is a result; a TimeoutError, or the KeyError of   *)
(*              its handler, is a timeout; ConnectionClosed from the       *)
(*              write is a failed call.                                    *)
(* A response, event or close frame the reader drops, and every browser    *)
(* step, leave the contract's state alone.                                  *)
(***************************************************************************)
EXTENDS ProtocolClient

AbstractKind ==
    [none |-> "none", result |-> "result", timeout |-> "timeout",
     keyerror |-> "timeout", closed |-> "failed"]

AbstractOutcome(o) ==
    [kind |-> AbstractKind[o.kind], req |-> o.req,
     val |-> IF o.kind = "result" THEN o.val ELSE 0]

Contract == INSTANCE CallContract WITH
    issued    <- Len(fut),
    delivered <- {n \in DOMAIN fut : fut[n].st = "done"},
    apc       <- [c \in Callers |-> IF pc[c] = "idle" THEN "idle" ELSE "waiting"],
    areq      <- [c \in Callers |-> cur[c].req],
    aout      <- [c \in Callers |-> AbstractOutcome(outcome[c])]

(* The client on a build whose wait_for predates Python 3.12. *)
InitPre312 == Init /\ ~eager

SpecPre312 == InitPre312 /\ [][Next]_vars /\ Fairness

(* send_command behaves as the call contract says: each call ends once,   *)
(* with the answer to its own request or with an error, and times out     *)
(* only when its answer has not been delivered to it.                      *)
ImplementsCallContract == Contract!Spec

=============================================================================
