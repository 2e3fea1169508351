---------------------------- MODULE CallContract ----------------------------
(***************************************************************************)
(* What the Protocol Client promises its callers (spec 4.2): call() takes *)
(* a fresh request, suspends the caller, and ends exactly once, either    *)
(* with the response to that very request, or with an error, and a        *)
(* timeout only if the response did not reach it first. A request that    *)
(* cannot be written fails at once. Requests are numbered in the order     *)
(* they are made.                                                          *)
(***************************************************************************)
EXTENDS Naturals

CONSTANTS
    Callers,    \* the tasks that call
    MaxCalls    \* bound on the requests made

VARIABLES
    issued,     \* requests made so far; request n is the n-th
    delivered,  \* requests whose response reached their waiting caller
    apc,        \* each caller: idle or waiting
    areq,       \* each caller's current request
    aout        \* each caller's last outcome

avars == <<issued, delivered, apc, areq, aout>>

Outcomes ==
    [kind : {"none", "timeout", "failed"}, req : 0 .. MaxCalls, val : {0}]
    \cup [kind : {"result"}, req : 0 .. MaxCalls, val : 0 .. MaxCalls]

TypeOK ==
    /\ issued \in 0 .. MaxCalls
    /\ delivered \subseteq 1 .. issued
    /\ apc \in [Callers -> {"idle", "waiting"}]
    /\ areq \in [Callers -> 0 .. MaxCalls]
    /\ aout \in [Callers -> Outcomes]

Init ==
    /\ issued = 0
    /\ delivered = {}
    /\ apc = [c \in Callers |-> "idle"]
    /\ areq = [c \in Callers |-> 0]
    /\ aout = [c \in Callers |-> [kind |-> "none", req |-> 0, val |-> 0]]

(* A request is made and its caller suspends. *)
Call(c) ==
    /\ apc[c] = "idle"
    /\ issued < MaxCalls
    /\ issued' = issued + 1
    /\ apc' = [apc EXCEPT ![c] = "waiting"]
    /\ areq' = [areq EXCEPT ![c] = issued + 1]
    /\ aout' = [aout EXCEPT ![c] = [kind |-> "none", req |-> 0, val |-> 0]]
    /\ UNCHANGED delivered

(* A request is made and cannot be sent: the call fails at once. *)
CallFails(c) ==
    /\ apc[c] = "idle"
    /\ issued < MaxCalls
    /\ issued' = issued + 1
    /\ areq' = [areq EXCEPT ![c] = issued + 1]
    /\ aout' = [aout EXCEPT ![c] = [kind |-> "failed", req |-> issued + 1, val |-> 0]]
    /\ UNCHANGED <<delivered, apc>>

(* The response to a request reaches its caller, who is still waiting. *)
Deliver(n) ==
    /\ n \notin delivered
    /\ \E c \in Callers : apc[c] = "waiting" /\ areq[c] = n
    /\ delivered' = delivered \cup {n}
    /\ UNCHANGED <<issued, apc, areq, aout>>

(* The call ends with the response to its own request. *)
Resolve(c) ==
    /\ apc[c] = "waiting"
    /\ areq[c] \in delivered
    /\ apc' = [apc EXCEPT ![c] = "idle"]
    /\ aout' = [aout EXCEPT ![c] = [kind |-> "result", req |-> areq[c], val |-> areq[c]]]
    /\ UNCHANGED <<issued, delivered, areq>>

(* The call ends with a timeout, its response not having reached it. *)
TimeOut(c) ==
    /\ apc[c] = "waiting"
    /\ areq[c] \notin delivered
    /\ apc' = [apc EXCEPT ![c] = "idle"]
    /\ aout' = [aout EXCEPT ![c] = [kind |-> "timeout", req |-> areq[c], val |-> 0]]
    /\ UNCHANGED <<issued, delivered, areq>>

Next ==
    \/ \E c \in Callers : Call(c) \/ CallFails(c) \/ Resolve(c) \/ TimeOut(c)
    \/ \E n \in 1 .. MaxCalls : Deliver(n)

(* Every call ends. *)
Spec ==
    /\ Init /\ [][Next]_avars
    /\ \A c \in Callers : WF_avars(Resolve(c) \/ TimeOut(c))

=============================================================================
