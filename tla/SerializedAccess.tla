-------------------------- MODULE SerializedAccess --------------------------
(***************************************************************************)
(* What the app server promises about the requests of its clients: a       *)
(* request with a serialization scope waits for every earlier request of   *)
(* its key that it conflicts with, whoever sent that one, and no request   *)
(* of a closed connection starts.                                          *)
(***************************************************************************)
EXTENDS Naturals, Sequences

CONSTANTS
    Requests,      \* the requests clients send
    Conns,         \* client connections
    NoKey,         \* the key of a request without a serialization scope
    ConnOf,        \* the connection of each request
    KeyOf,         \* the serialization key of each request
    SharedReads    \* the requests with shared-read access

VARIABLES
    order,     \* the requests in the order the server took them
    stage,     \* "unsent", "waiting", "running" or "ended"
    open       \* the connections that may still start requests

vars == <<order, stage, open>>

\* Two requests that may not run at the same time.
Conflict(r, s) ==
    /\ r # s
    /\ KeyOf[r] = KeyOf[s] /\ KeyOf[r] # NoKey
    /\ ~(r \in SharedReads /\ s \in SharedReads)

Before(r, s) == \E i, j \in 1 .. Len(order) : i < j /\ order[i] = r /\ order[j] = s

Init ==
    /\ order = <<>>
    /\ stage = [r \in Requests |-> "unsent"]
    /\ open = Conns

Arrive(r) ==
    /\ stage[r] = "unsent"
    /\ order' = Append(order, r)
    /\ stage' = [stage EXCEPT ![r] = "waiting"]
    /\ UNCHANGED open

Start(r) ==
    /\ stage[r] = "waiting"
    /\ ConnOf[r] \in open
    /\ \A s \in Requests : Conflict(s, r) /\ Before(s, r) => stage[s] = "ended"
    /\ stage' = [stage EXCEPT ![r] = "running"]
    /\ UNCHANGED <<order, open>>

Finish(r) ==
    /\ stage[r] = "running"
    /\ stage' = [stage EXCEPT ![r] = "ended"]
    /\ UNCHANGED <<order, open>>

Skip(r) ==
    /\ stage[r] = "waiting"
    /\ ConnOf[r] \notin open
    /\ stage' = [stage EXCEPT ![r] = "ended"]
    /\ UNCHANGED <<order, open>>

Close(c) ==
    /\ open' = open \ {c}
    /\ UNCHANGED <<order, stage>>

Next ==
    \/ \E r \in Requests : Arrive(r) \/ Start(r) \/ Finish(r) \/ Skip(r)
    \/ \E c \in Conns : Close(c)

Spec == Init /\ [][Next]_vars

\* No two conflicting requests run at the same time.
Exclusive ==
    \A r, s \in Requests : Conflict(r, s) => ~(stage[r] = "running" /\ stage[s] = "running")
=============================================================================
