---------------------------- MODULE BrowserBridge ----------------------------
(***************************************************************************)
(* The serving phase of BrowserController.run() (browser_controller.py,   *)
(* lines 243-246): handle_messages and listen_for_commands under one      *)
(* asyncio.gather. The Command Dispatcher (listen_for_commands and        *)
(* process_command) is the only caller of send_command, so the Protocol   *)
(* Client is instantiated with that one caller.                           *)
(*                                                                         *)
(* listen_for_commands iterates the synchronous redis pubsub.listen()     *)
(* inside a coroutine: while it waits for the next command the whole      *)
(* event loop is blocked, so the reader and wait_for's timers only run    *)
(* while a command is executing (dpc = "executing").                      *)
(*                                                                         *)
(* The module starts where run() would be once the connection and the    *)
(* three enable calls are done; module Controller shows that run(), as    *)
(* written, never gets that far.                                          *)
(***************************************************************************)
EXTENDS Naturals, Sequences, FiniteSets

CONSTANTS
    Dispatcher,    \* the listen_for_commands coroutine
    MaxCalls,      \* bound on send_command invocations
    MaxEvents,     \* bound on the events the browser emits
    EventMethods,  \* CDP event names the browser may emit
    ResponseKinds, \* payloads a response may carry: "result", "error"
    Payloads,      \* action names the bus may carry, and maybe Garbage
    Garbage,       \* a payload json.loads rejects or that is not an object
    MaxText,       \* bound on the length of a "type" command's text
    MaxCommands    \* bound on the commands read from browser:commands

VARIABLES
    message_id, pending_commands, fut, pc, cur, outcome, wsOpen,
    readerAlive, toBrowser, inbound, emitted, busEvents, eager,
    dpc,       \* listening (blocked in pubsub.listen) or executing
    left,      \* send_command calls the current command still has to make
    reqs,      \* future serials of the current command's calls
    received,  \* commands read from the bus and parsed
    dropped,   \* payloads read from the bus and dropped unparsed
    results    \* publications on browser:result:<session_id>, in order

pcVars == <<message_id, pending_commands, fut, pc, cur, outcome, wsOpen,
            readerAlive, toBrowser, inbound, emitted, busEvents, eager>>
dispVars == <<dpc, left, reqs, received, dropped, results>>
vars == <<pcVars, dispVars>>

PC == INSTANCE ProtocolClient WITH Callers <- {Dispatcher}

----------------------------------------------------------------------------
(* The actions process_command maps to send_command calls (lines 192-217) *)
(* and the calls each makes: click presses then releases (lines 131-146), *)
(* type sends a key-down and a key-up per character (lines 148-159),       *)
(* get_url evaluates window.location.href. Any other action makes none.   *)
Supported == {"navigate", "screenshot", "click", "type", "evaluate", "get_url"}

CallsOf(a, n) ==
    CASE a \in {"navigate", "screenshot", "evaluate", "get_url"} -> 1
      [] a = "click" -> 2
      [] a = "type"  -> 2 * n
      [] OTHER       -> 0

TextLengths(a) == IF a = "type" THEN 0 .. MaxText ELSE {0}

TypeOK ==
    /\ PC!TypeOK
    /\ dpc \in {"listening", "executing"}
    /\ left \in 0 .. 2 * MaxText + 2
    /\ reqs \subseteq PC!Serials
    /\ received \in 0 .. MaxCommands
    /\ dropped \in 0 .. MaxCommands
    /\ results \in Seq([success : BOOLEAN, reqs : SUBSET PC!Serials])

Init ==
    /\ PC!Init
    /\ dpc = "listening"
    /\ left = 0
    /\ reqs = {}
    /\ received = 0
    /\ dropped = 0
    /\ results = <<>>

----------------------------------------------------------------------------
(* process_command up to its first suspension point (lines 176-193): the  *)
(* first call is issued at once. A command that makes no call publishes   *)
(* its result at once: success for a supported action (type of an empty   *)
(* text), success = False and no error for an unsupported one.           *)
Receive(a, n) ==
    /\ dpc = "listening"
    /\ received + dropped < MaxCommands
    /\ Len(fut) + CallsOf(a, n) <= MaxCalls
    /\ received' = received + 1
    /\ \/ /\ CallsOf(a, n) = 0
          /\ results' = Append(results, [success |-> a \in Supported, reqs |-> {}])
          /\ UNCHANGED <<pcVars, dpc, left, reqs, dropped>>
       \/ /\ CallsOf(a, n) > 0
          /\ PC!CallStep(Dispatcher)
          /\ dpc' = "executing"
          /\ left' = CallsOf(a, n) - 1
          /\ reqs' = {Len(fut) + 1}
          /\ UNCHANGED <<results, dropped>>

(* json.loads rejects the payload (line 179), or command.get fails on a   *)
(* non-object outside process_command's try (line 186): the exception is  *)
(* logged by listen_for_commands (lines 181-182) and nothing is published.*)
ReceiveGarbage ==
    /\ dpc = "listening"
    /\ Garbage \in Payloads
    /\ received + dropped < MaxCommands
    /\ dropped' = dropped + 1
    /\ UNCHANGED <<pcVars, dpc, left, reqs, received, results>>

(* The call returned a result and the command has more to make: the next *)
(* one is issued at once (e.g. the mouse release after the press).        *)
DispatchNext ==
    /\ dpc = "executing"
    /\ pc[Dispatcher] = "idle"
    /\ outcome[Dispatcher].kind = "result"
    /\ left > 0
    /\ PC!CallStep(Dispatcher)
    /\ left' = left - 1
    /\ reqs' = reqs \cup {Len(fut) + 1}
    /\ UNCHANGED <<dpc, received, dropped, results>>

(* Fault variant: a failed call is not noticed and the command goes on. *)
DispatchDoneIgnoringFailure ==
    /\ dpc = "executing"
    /\ pc[Dispatcher] = "idle"
    /\ left = 0
    /\ results' = Append(results, [success |-> TRUE, reqs |-> reqs])
    /\ dpc' = "listening"
    /\ UNCHANGED <<pcVars, left, reqs, received, dropped>>

(* The last call returned a result: success is published (lines 194-223).*)
DispatchDone ==
    /\ dpc = "executing"
    /\ pc[Dispatcher] = "idle"
    /\ outcome[Dispatcher].kind = "result"
    /\ left = 0
    /\ results' = Append(results, [success |-> TRUE, reqs |-> reqs])
    /\ dpc' = "listening"
    /\ UNCHANGED <<pcVars, left, reqs, received, dropped>>

(* Fault variant: the except clause re-raises instead of publishing. *)
DispatchFailSilently ==
    /\ dpc = "executing"
    /\ pc[Dispatcher] = "idle"
    /\ outcome[Dispatcher].kind \in {"timeout", "keyerror", "closed"}
    /\ dpc' = "listening"
    /\ UNCHANGED <<pcVars, left, reqs, received, dropped, results>>

(* The call raised (timeout, KeyError, ConnectionClosed): the except at   *)
(* line 219 records the error and the failure is published (line 223);    *)
(* calls already made are not undone.                                     *)
DispatchFail ==
    /\ dpc = "executing"
    /\ pc[Dispatcher] = "idle"
    /\ outcome[Dispatcher].kind \in {"timeout", "keyerror", "closed"}
    /\ results' = Append(results, [success |-> FALSE, reqs |-> reqs])
    /\ dpc' = "listening"
    /\ UNCHANGED <<pcVars, left, reqs, received, dropped>>

DispatchStep == DispatchNext \/ DispatchDone \/ DispatchFail

(* The event loop runs the reader and the dispatcher's wait_for only when *)
(* it is not blocked in pubsub.listen().                                   *)
ReaderStep == dpc = "executing" /\ PC!ReaderStep /\ UNCHANGED dispVars
WaitStep == dpc = "executing" /\ PC!WaitStep(Dispatcher) /\ UNCHANGED dispVars
BrowserStep == PC!BrowserStep /\ UNCHANGED dispVars

Next ==
    \/ \E a \in Payloads \ {Garbage} : \E n \in TextLengths(a) : Receive(a, n)
    \/ ReceiveGarbage
    \/ DispatchStep
    \/ ReaderStep
    \/ WaitStep
    \/ BrowserStep

(* Commands and the browser are the environment: neither is assumed to   *)
(* act. Once the loop is free, asyncio runs the reader, the timers and    *)
(* the dispatcher's continuation.                                         *)
Fairness ==
    /\ WF_vars(ReaderStep)
    /\ WF_vars(WaitStep)
    /\ WF_vars(DispatchStep)

Spec == Init /\ [][Next]_vars /\ Fairness

----------------------------------------------------------------------------
(* Properties *)

(* Every command process_command receives yields exactly one published   *)
(* result, whichever call fails, counting the one executing as owed.      *)
OneResultPerParsedCommand ==
    Len(results) + (IF dpc = "executing" THEN 1 ELSE 0) = received

(* Every payload read from the bus yields exactly one published result    *)
(* (spec 3 and 7), counting the one being executed as still owed.        *)
OneResultPerCommand ==
    Len(results) + (IF dpc = "executing" THEN 1 ELSE 0) = received + dropped

(* A command reported successful made every call its action maps to, and *)
(* each was answered by the browser with the response to that very       *)
(* request: a click whose release timed out is never reported a success. *)
SuccessMeansEveryCallAnswered ==
    \A i \in DOMAIN results :
        results[i].success =>
            \A n \in results[i].reqs :
                fut[n].st = "done" /\ fut[n].val = n

(* A command is reported successful only if the browser carried out each *)
(* of its calls (spec 2, 4.2): no call of it was answered by an            *)
(* {id, error} frame, e.g. a Page.navigate the browser rejected.           *)
SuccessMeansNoErrorResponse ==
    \A i \in DOMAIN results :
        results[i].success => \A n \in results[i].reqs : fut[n].payload = "result"

(* Every command that starts executing is eventually answered on the bus: *)
(* each of its calls ends by its response or by wait_for's timer.         *)
CommandEventuallyAnswered ==
    dpc = "executing" ~> dpc = "listening"

(* Allow-listed events the browser sent are eventually read and published *)
(* on browser:events (spec 4.3, 5: the read loop never blocks).           *)
UnreadAllowed ==
    {i \in DOMAIN inbound :
        inbound[i].kind = "event" /\ inbound[i].method \in PC!AllowListed}

EventsEventuallyRepublished ==
    UnreadAllowed # {} ~> UnreadAllowed = {}

=============================================================================
