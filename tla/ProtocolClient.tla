--------------------------- MODULE ProtocolClient ---------------------------
(***************************************************************************)
(* The Protocol Client and the Correlation Table of                        *)
(* src/browser-service/browser_controller.py, over the one CDP websocket:  *)
(*   send_command     allocates an id, registers a future in              *)
(*                    pending_commands, writes the frame, and awaits the   *)
(*                    future under asyncio.wait_for(timeout=30);           *)
(*   handle_messages  the single reader: resolves the future of a         *)
(*                    response, hands an event to handle_event, and stops  *)
(*                    on ConnectionClosed;                                 *)
(*   handle_event     republishes allow-listed events on browser:events.  *)
(* The browser at the other end answers requests in any order, or never,  *)
(* emits events and may close the connection.                             *)
(*                                                                         *)
(* Futures are identified by their creation serial (the index in fut), so *)
(* a frame carries, besides its CDP id, the serial of the request it      *)
(* answers: a ghost the properties use to tell responses apart; the code  *)
(* only ever looks at the id.                                              *)
(*                                                                         *)
(* asyncio.wait_for changed in Python 3.12: the timer now cancels the     *)
(* awaited future at once and the task raises TimeoutError even when the  *)
(* future was resolved in the same loop iteration; before 3.12 the task   *)
(* returned the result of a future done by the time it resumed. The build *)
(* is the boolean eager, chosen in Init.                                  *)
(***************************************************************************)
EXTENDS Naturals, Sequences, FiniteSets, Functions, TLC

CONSTANTS
    Callers,       \* coroutines that call send_command
    MaxCalls,      \* bound on send_command invocations (futures created)
    MaxEvents,     \* bound on the events the browser emits
    EventMethods,  \* CDP event names the browser may emit
    ResponseKinds  \* payloads a response may carry: "result", "error"

ASSUME MaxCalls \in Nat \ {0} /\ MaxEvents \in Nat
ASSUME ResponseKinds \subseteq {"result", "error"}

VARIABLES
    message_id,        \* self.message_id
    pending_commands,  \* self.pending_commands: CDP id -> future serial
    fut,               \* the futures, by serial: state, serial answered, payload
    pc,                \* each caller: idle, awaiting the future, expired
    cur,               \* each caller's local message_id and future serial
    outcome,           \* each caller's last return from send_command
    wsOpen,            \* the browser side of the websocket is open
    readerAlive,       \* the handle_messages loop is still running
    toBrowser,         \* requests written and not yet answered
    inbound,           \* frames sent by the browser, in order, not yet read
    emitted,           \* number of events the browser emitted
    busEvents,         \* methods published on browser:events, in order
    eager              \* the build's wait_for cancels on expiry (3.12+)

vars == <<message_id, pending_commands, fut, pc, cur, outcome, wsOpen,
          readerAlive, toBrowser, inbound, emitted, busEvents, eager>>

----------------------------------------------------------------------------
(* handle_event's allow-list (line 112). *)
AllowListed == {"Page.loadEventFired", "Page.frameNavigated",
                "Network.requestWillBeSent"}

Serials == 0 .. MaxCalls
Ids == 0 .. MaxCalls
FutStates == {"pending", "done", "cancelled"}
OutcomeKinds == {"none", "result", "timeout", "keyerror", "closed"}

NoOutcome == [kind |-> "none", req |-> 0, val |-> 0]

Frames ==
    [kind : {"response"}, id : Ids, req : Serials, payload : ResponseKinds]
      \cup [kind : {"event"}, method : EventMethods]
      \cup [kind : {"closed"}]

TypeOK ==
    /\ message_id \in Ids
    /\ \E D \in SUBSET Ids : pending_commands \in [D -> Serials]
    /\ fut \in Seq([st : FutStates, val : Serials, payload : ResponseKinds \cup {"none"}])
    /\ Len(fut) <= MaxCalls
    /\ pc \in [Callers -> {"idle", "awaiting", "expired"}]
    /\ cur \in [Callers -> [id : Ids, req : Serials]]
    /\ outcome \in [Callers -> [kind : OutcomeKinds, req : Serials, val : Serials]]
    /\ wsOpen \in BOOLEAN /\ readerAlive \in BOOLEAN
    /\ toBrowser \subseteq [id : Ids, req : Serials]
    /\ inbound \in Seq(Frames)
    /\ emitted \in 0 .. MaxEvents
    /\ busEvents \in Seq(AllowListed)
    /\ eager \in BOOLEAN

Init ==
    /\ message_id = 0
    /\ pending_commands = <<>>
    /\ fut = <<>>
    /\ pc = [c \in Callers |-> "idle"]
    /\ cur = [c \in Callers |-> [id |-> 0, req |-> 0]]
    /\ outcome = [c \in Callers |-> NoOutcome]
    /\ wsOpen = TRUE
    /\ readerAlive = TRUE
    /\ toBrowser = {}
    /\ inbound = <<>>
    /\ emitted = 0
    /\ busEvents = <<>>
    /\ eager \in BOOLEAN

----------------------------------------------------------------------------
(* Helpers *)

(* del self.pending_commands[id] *)
Deleted(id) == Restrict(pending_commands, DOMAIN pending_commands \ {id})

(* future.cancel(): a no-op on a future that is already done. *)
Cancelled(n) ==
    [fut EXCEPT ![n].st = IF @ = "pending" THEN "cancelled" ELSE @]

(* The id handle_messages can resolve: registered, and its future not yet *)
(* cancelled (set_result on a cancelled future raises InvalidStateError).  *)
Resolvable(id) ==
    /\ id \in DOMAIN pending_commands
    /\ fut[pending_commands[id]].st = "pending"

----------------------------------------------------------------------------
(* send_command, up to its first suspension point: the id is allocated     *)
(* and the future registered before the frame is written (lines 58-73).    *)
(* The check of ws_connection at line 58 always passes here: the field is  *)
(* set by connect_to_browser and never cleared, even once closed.          *)
Register(c, id) ==
    /\ pc[c] = "idle"
    /\ Len(fut) < MaxCalls
    /\ message_id' = id
    /\ pending_commands' = (id :> Len(fut) + 1) @@ pending_commands
    /\ fut' = Append(fut, [st |-> "pending", val |-> 0, payload |-> "none"])

(* Fault variant: message_id is not advanced, so ids are reused. *)
SendCommandIdNotAdvanced(c) ==
    LET id == message_id IN
    /\ Register(c, id)
    /\ wsOpen
    /\ toBrowser' = toBrowser \cup {[id |-> id, req |-> Len(fut) + 1]}
    /\ pc' = [pc EXCEPT ![c] = "awaiting"]
    /\ cur' = [cur EXCEPT ![c] = [id |-> id, req |-> Len(fut) + 1]]
    /\ outcome' = [outcome EXCEPT ![c] = NoOutcome]
    /\ UNCHANGED <<wsOpen, readerAlive, inbound, emitted, busEvents, eager>>

(* Fault variant: message_id is advanced twice per call. *)
SendCommandIdSkips(c) ==
    LET id == message_id + 2 IN
    /\ Register(c, id)
    /\ wsOpen
    /\ toBrowser' = toBrowser \cup {[id |-> id, req |-> Len(fut) + 1]}
    /\ pc' = [pc EXCEPT ![c] = "awaiting"]
    /\ cur' = [cur EXCEPT ![c] = [id |-> id, req |-> Len(fut) + 1]]
    /\ outcome' = [outcome EXCEPT ![c] = NoOutcome]
    /\ UNCHANGED <<wsOpen, readerAlive, inbound, emitted, busEvents, eager>>

(* The write succeeds and the caller suspends in wait_for (line 76). *)
SendCommand(c) ==
    LET id == message_id + 1 IN
    /\ Register(c, id)
    /\ wsOpen
    /\ toBrowser' = toBrowser \cup {[id |-> id, req |-> Len(fut) + 1]}
    /\ pc' = [pc EXCEPT ![c] = "awaiting"]
    /\ cur' = [cur EXCEPT ![c] = [id |-> id, req |-> Len(fut) + 1]]
    /\ outcome' = [outcome EXCEPT ![c] = NoOutcome]
    /\ UNCHANGED <<wsOpen, readerAlive, inbound, emitted, busEvents, eager>>

(* The write raises ConnectionClosed (line 73): it propagates out of       *)
(* send_command, and the entry registered at line 71 stays behind.         *)
SendCommandClosed(c) ==
    LET id == message_id + 1 IN
    /\ Register(c, id)
    /\ ~wsOpen
    /\ cur' = [cur EXCEPT ![c] = [id |-> id, req |-> Len(fut) + 1]]
    /\ outcome' = [outcome EXCEPT ![c] =
                      [kind |-> "closed", req |-> Len(fut) + 1, val |-> 0]]
    /\ UNCHANGED <<pc, wsOpen, readerAlive, toBrowser, inbound, emitted,
                   busEvents, eager>>

(* wait_for returns the future's result (lines 76-77). *)
Return(c) ==
    /\ pc[c] = "awaiting"
    /\ fut[cur[c].req].st = "done"
    /\ pc' = [pc EXCEPT ![c] = "idle"]
    /\ outcome' = [outcome EXCEPT ![c] =
                      [kind |-> "result", req |-> cur[c].req,
                       val |-> fut[cur[c].req].val]]
    /\ UNCHANGED <<message_id, pending_commands, fut, cur, wsOpen,
                   readerAlive, toBrowser, inbound, emitted, busEvents, eager>>

(* Fault variant: the future is awaited without wait_for's timer. *)
ExpireNever(c) == pc[c] = "awaiting" /\ FALSE

(* The 30 s timer fires while the caller is suspended in wait_for. Before  *)
(* 3.12 it only wakes the caller, and is moot once the future is done; in  *)
(* 3.12 it cancels the future and the task, even a task already woken by   *)
(* a result.                                                               *)
Expire(c) ==
    /\ pc[c] = "awaiting"
    /\ eager \/ fut[cur[c].req].st = "pending"
    /\ pc' = [pc EXCEPT ![c] = "expired"]
    /\ fut' = IF eager THEN Cancelled(cur[c].req) ELSE fut
    /\ UNCHANGED <<message_id, pending_commands, cur, outcome, wsOpen,
                   readerAlive, toBrowser, inbound, emitted, busEvents, eager>>

(* The caller resumes after the timer. Before 3.12 a future done in the    *)
(* meantime is returned; otherwise it is cancelled, TimeoutError is raised *)
(* and the handler at lines 78-80 deletes the entry, which raises KeyError *)
(* instead when the reader already deleted it.                             *)
ResumeResult(c) ==
    /\ pc[c] = "expired"
    /\ ~eager
    /\ fut[cur[c].req].st = "done"
    /\ pc' = [pc EXCEPT ![c] = "idle"]
    /\ outcome' = [outcome EXCEPT ![c] =
                      [kind |-> "result", req |-> cur[c].req,
                       val |-> fut[cur[c].req].val]]
    /\ UNCHANGED <<message_id, pending_commands, fut, cur, wsOpen,
                   readerAlive, toBrowser, inbound, emitted, busEvents, eager>>

(* Fault variant: the timeout handler forgets to delete the entry. *)
ResumeTimeoutKeepsEntry(c) ==
    /\ pc[c] = "expired"
    /\ eager \/ fut[cur[c].req].st # "done"
    /\ pc' = [pc EXCEPT ![c] = "idle"]
    /\ fut' = Cancelled(cur[c].req)
    /\ outcome' = [outcome EXCEPT ![c] =
                      [kind |-> "timeout", req |-> cur[c].req, val |-> 0]]
    /\ UNCHANGED <<message_id, pending_commands, cur, wsOpen, readerAlive,
                   toBrowser, inbound, emitted, busEvents, eager>>

ResumeTimeout(c) ==
    LET id == cur[c].id IN
    /\ pc[c] = "expired"
    /\ eager \/ fut[cur[c].req].st # "done"
    /\ pc' = [pc EXCEPT ![c] = "idle"]
    /\ fut' = Cancelled(cur[c].req)
    /\ pending_commands' = Deleted(id)
    /\ outcome' = [outcome EXCEPT ![c] =
                      [kind |-> IF id \in DOMAIN pending_commands
                                THEN "timeout" ELSE "keyerror",
                       req |-> cur[c].req, val |-> 0]]
    /\ UNCHANGED <<message_id, cur, wsOpen, readerAlive, toBrowser, inbound,
                   emitted, busEvents, eager>>

----------------------------------------------------------------------------
(* One iteration of handle_messages (lines 84-104), by the kind of frame.  *)

(* A response resolves and removes the future registered under its id,    *)
(* with the whole frame as its result, an {id, error} frame included; an  *)
(* unknown id is dropped; set_result on a cancelled future raises          *)
(* InvalidStateError, which the except at line 103 logs, so the entry is   *)
(* left for the caller to delete.                                          *)
ReceiveResponse ==
    LET m == Head(inbound) IN
    /\ readerAlive
    /\ inbound # <<>>
    /\ m.kind = "response"
    /\ inbound' = Tail(inbound)
    /\ \/ /\ Resolvable(m.id)
          /\ fut' = [fut EXCEPT ![pending_commands[m.id]] =
                                   [st |-> "done", val |-> m.req, payload |-> m.payload]]
          /\ pending_commands' = Deleted(m.id)
       \/ /\ ~Resolvable(m.id)
          /\ UNCHANGED <<fut, pending_commands>>
    /\ UNCHANGED <<message_id, pc, cur, outcome, wsOpen, readerAlive,
                   toBrowser, emitted, busEvents, eager>>

(* handle_event (lines 106-117): an allow-listed event is published on    *)
(* browser:events. The synchronous redis publish may raise (the bus is    *)
(* down): the exception leaves handle_event and is logged by the generic  *)
(* except at lines 103-104, so the event is lost and the loop goes on.     *)
Published(m) ==
    \/ busEvents' = IF m.method \in AllowListed
                    THEN Append(busEvents, m.method) ELSE busEvents
    \/ /\ m.method \in AllowListed
       /\ UNCHANGED busEvents

ReceiveEvent ==
    LET m == Head(inbound) IN
    /\ readerAlive
    /\ inbound # <<>>
    /\ m.kind = "event"
    /\ inbound' = Tail(inbound)
    /\ Published(m)
    /\ UNCHANGED <<message_id, pending_commands, fut, pc, cur, outcome,
                   wsOpen, readerAlive, toBrowser, emitted, eager>>

(* recv raises ConnectionClosed once the buffered frames are read: the    *)
(* loop breaks (lines 100-102); nothing fails the pending futures.         *)
ReceiveClosed ==
    /\ readerAlive
    /\ inbound # <<>>
    /\ Head(inbound).kind = "closed"
    /\ inbound' = Tail(inbound)
    /\ readerAlive' = FALSE
    /\ UNCHANGED <<message_id, pending_commands, fut, pc, cur, outcome,
                   wsOpen, toBrowser, emitted, busEvents, eager>>

----------------------------------------------------------------------------
(* The browser: it answers any outstanding request, with a result or an   *)
(* error, in any order or never, emits events, and may close the          *)
(* connection.                                                             *)

Respond(r, p) ==
    /\ wsOpen
    /\ r \in toBrowser
    /\ toBrowser' = toBrowser \ {r}
    /\ inbound' = Append(inbound, [kind |-> "response", id |-> r.id, req |-> r.req,
                                   payload |-> p])
    /\ UNCHANGED <<message_id, pending_commands, fut, pc, cur, outcome,
                   wsOpen, readerAlive, emitted, busEvents, eager>>

Emit(e) ==
    /\ wsOpen
    /\ emitted < MaxEvents
    /\ emitted' = emitted + 1
    /\ inbound' = Append(inbound, [kind |-> "event", method |-> e])
    /\ UNCHANGED <<message_id, pending_commands, fut, pc, cur, outcome,
                   wsOpen, readerAlive, toBrowser, busEvents, eager>>

Close ==
    /\ wsOpen
    /\ wsOpen' = FALSE
    /\ toBrowser' = {}
    /\ inbound' = Append(inbound, [kind |-> "closed"])
    /\ UNCHANGED <<message_id, pending_commands, fut, pc, cur, outcome,
                   readerAlive, emitted, busEvents, eager>>

----------------------------------------------------------------------------
(* The event loop's own steps: the reader and each caller's wait_for.      *)
ReaderStep == ReceiveResponse \/ ReceiveEvent \/ ReceiveClosed

WaitStep(c) == Return(c) \/ Expire(c) \/ ResumeResult(c) \/ ResumeTimeout(c)

CallStep(c) == SendCommand(c) \/ SendCommandClosed(c)

BrowserStep ==
    \/ \E r \in toBrowser, p \in ResponseKinds : Respond(r, p)
    \/ \E e \in EventMethods : Emit(e)
    \/ Close

Next ==
    \/ \E c \in Callers : CallStep(c) \/ WaitStep(c)
    \/ ReaderStep
    \/ BrowserStep

(* asyncio runs every ready callback and fires every due timer, so the     *)
(* reader and each caller's wait_for progress; the browser and the callers *)
(* issuing new commands are not assumed to.                                *)
Fairness ==
    /\ WF_vars(ReaderStep)
    /\ \A c \in Callers : WF_vars(WaitStep(c))

Spec == Init /\ [][Next]_vars /\ Fairness

----------------------------------------------------------------------------
(* Properties *)

(* Correlation (spec 8): a send_command that returns a result returns the *)
(* browser's answer to its own request, never the late answer to an       *)
(* earlier, timed-out request that happens to carry the same id.           *)
CorrelationCorrect ==
    \A c \in Callers :
        outcome[c].kind = "result" => outcome[c].val = outcome[c].req

(* While the socket is open, every entry of pending_commands belongs to a *)
(* call still suspended in wait_for: the timeout path deletes its entry   *)
(* and the reader deletes the entry it resolves.                           *)
EntriesOwnedWhileConnected ==
    wsOpen =>
        \A id \in DOMAIN pending_commands :
            \E c \in Callers : pc[c] # "idle" /\ cur[c].id = id

(* No leak (spec 8): every entry of pending_commands belongs to a call    *)
(* still suspended in wait_for, whatever the state of the socket.         *)
NoLeak ==
    \A id \in DOMAIN pending_commands :
        \E c \in Callers : pc[c] # "idle" /\ cur[c].id = id

(* Whichever of the response and the timeout acts first wins (spec 4.2):  *)
(* send_command reports a timeout only if its future was never resolved.  *)
FailureOnlyIfUnanswered ==
    \A c \in Callers :
        outcome[c].kind \in {"timeout", "keyerror"}
            => fut[outcome[c].req].st # "done"

(* Every call of send_command eventually returns or raises: wait_for's    *)
(* timer bounds the wait even when the browser never answers.              *)
AwaitEventuallyReturns ==
    \A c \in Callers : pc[c] # "idle" ~> pc[c] = "idle"

=============================================================================
