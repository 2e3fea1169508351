----------------------------- MODULE Controller -----------------------------
(***************************************************************************)
(* The Connection Manager and the start-up of BrowserController.run()     *)
(* (browser_controller.py): connect_to_browser retried every 5 s until it *)
(* succeeds (lines 28-54, 231-235), then Page.enable, Network.enable and  *)
(* Runtime.enable awaited one after the other (lines 238-240), and only   *)
(* then the gather that starts handle_messages (lines 243-246).           *)
(*                                                                         *)
(* The main task is the one caller of the Protocol Client. No reader runs *)
(* during start-up, so the client's reader steps are not part of Next.    *)
(* An exception escaping run() ends asyncio.run(), i.e. the process.      *)
(***************************************************************************)
EXTENDS Naturals, Sequences, FiniteSets

CONSTANTS
    Main,          \* the task running run()
    MaxCalls,      \* bound on send_command invocations
    MaxEvents,     \* bound on the events the browser emits
    EventMethods,  \* CDP event names the browser may emit
    ResponseKinds, \* payloads a response may carry: "result", "error"
    MaxTargets     \* bound on the length of the discovery target list

VARIABLES
    message_id, pending_commands, fut, pc, cur, outcome, wsOpen,
    readerAlive, toBrowser, inbound, emitted, busEvents, eager,
    phase,       \* connecting, enabling, serving, or crashed
    enables,     \* the enable calls still to issue after the current one
    discovered,  \* the target list of the successful discovery
    target       \* the target whose webSocketDebuggerUrl was connected to

pcVars == <<message_id, pending_commands, fut, pc, cur, outcome, wsOpen,
            readerAlive, toBrowser, inbound, emitted, busEvents, eager>>
vars == <<pcVars, phase, enables, discovered, target>>

PC == INSTANCE ProtocolClient WITH Callers <- {Main}

----------------------------------------------------------------------------
(* Target discovery (lines 32-46). A target of the /json list is its type *)
(* and whether it carries a webSocketDebuggerUrl.                          *)
Target == [type : {"page", "other"}, hasUrl : BOOLEAN]

TargetLists == UNION {[1 .. k -> Target] : k \in 0 .. MaxTargets}

(* next((t for t in targets if t.get("type") == "page"), targets[0]) *)
RECURSIVE FirstPage(_, _)
FirstPage(ts, default) ==
    IF ts = <<>> THEN default
    ELSE IF Head(ts).type = "page" THEN Head(ts) ELSE FirstPage(Tail(ts), default)

SelectTarget(ts) == FirstPage(ts, ts[1])

(* What connect_to_browser returns for a discovery answer: False for an   *)
(* empty list or a selected target without a URL, otherwise the result  *)
(* of websockets.connect, which may raise (caught at line 52).            *)
Connects(ts, connectOk) ==
    /\ ts # <<>>
    /\ SelectTarget(ts).hasUrl
    /\ connectOk

NoTarget == [type |-> "none", hasUrl |-> FALSE]

(* The three enable calls of lines 238-240. *)
Enables == 3

TypeOK ==
    /\ PC!TypeOK
    /\ phase \in {"connecting", "enabling", "serving", "crashed"}
    /\ enables \in 0 .. Enables - 1
    /\ discovered \in TargetLists
    /\ target \in Target \cup {NoTarget}

Init ==
    /\ PC!Init
    /\ phase = "connecting"
    /\ enables = Enables - 1
    /\ discovered = <<>>
    /\ target = NoTarget

----------------------------------------------------------------------------
(* One attempt of the loop at lines 231-235. The GET may raise (browser   *)
(* not listening yet); otherwise it answers a target list. A failed       *)
(* attempt sleeps and retries; a successful one goes straight on to       *)
(* send_command("Page.enable") up to its first suspension point.          *)
ConnectFails ==
    /\ phase = "connecting"
    /\ \/ TRUE                                              \* GET raises
       \/ \E ts \in TargetLists, ok \in BOOLEAN : ~Connects(ts, ok)
    /\ UNCHANGED vars

(* Fault variant: the count of enable calls restarts at all three. *)
ConnectRecountingEnables ==
    /\ phase = "connecting"
    /\ phase' = "enabling"
    /\ \E ts \in TargetLists :
          /\ Connects(ts, TRUE)
          /\ discovered' = ts
          /\ target' = SelectTarget(ts)
    /\ PC!CallStep(Main)
    /\ enables' = Enables

Connect ==
    /\ phase = "connecting"
    /\ \E ts \in TargetLists :
          /\ Connects(ts, TRUE)
          /\ discovered' = ts
          /\ target' = SelectTarget(ts)
    /\ phase' = "enabling"
    /\ PC!CallStep(Main)
    /\ UNCHANGED enables

(* The enable call returned or raised. A result moves on to the next      *)
(* enable or, after the last, to the gather; an exception (the 30 s       *)
(* timeout, or ConnectionClosed from the write) escapes run().            *)
EnableReturned ==
    /\ phase = "enabling"
    /\ pc[Main] = "idle"
    /\ IF outcome[Main].kind # "result"
       THEN phase' = "crashed" /\ UNCHANGED <<pcVars, enables, discovered, target>>
       ELSE IF enables = 0
            THEN phase' = "serving" /\ UNCHANGED <<pcVars, enables, discovered, target>>
            ELSE /\ PC!CallStep(Main)
                 /\ enables' = enables - 1
                 /\ UNCHANGED <<phase, discovered, target>>

(* While run() awaits an enable, the loop runs wait_for's timer; no task  *)
(* reads the socket.                                                       *)
WaitStep == phase = "enabling" /\ PC!WaitStep(Main) /\ UNCHANGED <<phase, enables, discovered, target>>

(* The browser acts once the connection exists, and stops with the process.*)
BrowserStep ==
    /\ phase \in {"enabling", "serving"}
    /\ PC!BrowserStep
    /\ UNCHANGED <<phase, enables, discovered, target>>

Next ==
    \/ ConnectFails
    \/ Connect
    \/ EnableReturned
    \/ WaitStep
    \/ BrowserStep

Spec == Init /\ [][Next]_vars /\ WF_vars(WaitStep) /\ WF_vars(EnableReturned)

----------------------------------------------------------------------------
(* Properties *)

(* Start-up failures are caller-visible errors, never fatal (spec 7): the *)
(* process does not die on its way to serving commands.                  *)
NoFatalError == phase # "crashed"

=============================================================================
