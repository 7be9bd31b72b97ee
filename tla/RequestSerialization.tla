------------------------ MODULE RequestSerialization ------------------------
(***************************************************************************)
(* The app server between a client's message and its handler:              *)
(* app-server/src/request_serialization.rs (a queue per key, emptied by a  *)
(* spawned drain task), connection_rpc_gate.rs (the gate every handler     *)
(* passes), and the part of lib.rs and message_processor.rs that closes    *)
(* connections and shuts the server down.                                  *)
(*                                                                         *)
(* A step is one critical section of the queue map or of a gate, or the    *)
(* end of an await; the server loop, the drain tasks, the handlers and the *)
(* cleanup tasks interleave.                                               *)
(***************************************************************************)
EXTENDS Integers, Sequences, FiniteSets, SequencesExt

CONSTANTS
    Requests,      \* the requests clients send, each once
    Conns,         \* client connections
    Keys,          \* RequestSerializationQueueKey
    NoKey,         \* the request has no serialization scope
    ConnOf,        \* the connection each request comes from
    KeyOf,         \* the key of each request
    SharedReads    \* the requests with SharedRead access; the others are Exclusive

ASSUME RequestsAssumption ==
    /\ NoKey \notin Keys
    /\ ConnOf \in [Requests -> Conns]
    /\ KeyOf \in [Requests -> Keys \cup {NoKey}]
    /\ SharedReads \subseteq Requests
    /\ IsFiniteSet(Requests)

VARIABLES
    queues,      \* RequestSerializationQueues::inner: the queue of each key
    mapped,      \* the keys that have an entry in inner
    drain,       \* the drain task that the enqueue of a request spawned, if it did
    status,      \* how far each request is
    arrived,     \* the requests in the order the server loop took them
    accepting,   \* ConnectionRpcGate::accepting
    conn,        \* what became of each connection
    timedOut,    \* connections whose cleanup did not wait for their handlers
    server       \* the server loop

vars == <<queues, mapped, drain, status, arrived, accepting, conn, timedOut, server>>

NoDrain == [pc |-> "none", batch |-> {}]
DrainSteps == {"none", "pop", "run", "done"}
\* "spawned": its future exists and has not passed the gate yet.
Statuses == {"unsent", "queued", "spawned", "running", "finished", "skipped"}
Ended(r) == status[r] \in {"finished", "skipped"}

TypeOK ==
    /\ queues \in [Keys -> Seq(Requests)]
    /\ mapped \subseteq Keys
    /\ drain \in [Requests -> [pc : DrainSteps, batch : SUBSET Requests]]
    /\ status \in [Requests -> Statuses]
    /\ arrived \in Seq(Requests)
    /\ accepting \in [Conns -> BOOLEAN]
    /\ conn \in [Conns -> {"open", "waiting", "cleaned", "aborted"}]
    /\ timedOut \subseteq Conns
    /\ server \in {"running", "closing", "stopped", "forced"}

Init ==
    /\ queues = [k \in Keys |-> <<>>]
    /\ mapped = {}
    /\ drain = [r \in Requests |-> NoDrain]
    /\ status = [r \in Requests |-> "unsent"]
    /\ arrived = <<>>
    /\ accepting = [c \in Conns |-> TRUE]
    /\ conn = [c \in Conns |-> "open"]
    /\ timedOut = {}
    /\ server = "running"

-----------------------------------------------------------------------------
(* The server loop takes a message *)

\* RequestSerializationQueues::enqueue: a new key gets a queue and a drain task.
Enqueue(r) ==
    LET k == KeyOf[r] IN
    /\ queues' = [queues EXCEPT ![k] = Append(@, r)]
    /\ mapped' = mapped \cup {k}
    /\ drain' = IF k \in mapped THEN drain
                ELSE [drain EXCEPT ![r] = [pc |-> "pop", batch |-> {}]]
    /\ status' = [status EXCEPT ![r] = "queued"]

\* A request without a scope runs as a task of its own.
Spawn(r) ==
    /\ status' = [status EXCEPT ![r] = "spawned"]
    /\ UNCHANGED <<queues, mapped, drain>>

\* process_request, up to the point where the loop takes the next message.
Receive(r) ==
    /\ server = "running" /\ conn[ConnOf[r]] = "open"
    /\ status[r] = "unsent"
    /\ arrived' = Append(arrived, r)
    /\ IF KeyOf[r] = NoKey THEN Spawn(r) ELSE Enqueue(r)
    /\ UNCHANGED <<accepting, conn, timedOut, server>>

-----------------------------------------------------------------------------
(* RequestSerializationQueues::drain *)

\* Mutant: whatever is queued behind a shared read is popped with it.
BatchLenAll(q) == IF q[1] \notin SharedReads THEN 1 ELSE Len(q)

\* The requests popped at once: the first, and if it is a shared read the
\* shared reads right behind it.
BatchLen(q) ==
    IF q[1] \notin SharedReads THEN 1
    ELSE CHOOSE n \in 1 .. Len(q) :
            /\ \A i \in 1 .. n : q[i] \in SharedReads
            /\ n < Len(q) => q[n + 1] \notin SharedReads

PopRequests(d) ==
    LET k == KeyOf[d]
        n == BatchLen(queues[k])
    IN /\ queues' = [queues EXCEPT ![k] = SubSeq(@, n + 1, Len(@))]
       /\ drain' = [drain EXCEPT ![d] = [pc |-> "run", batch |-> {queues[k][i] : i \in 1 .. n}]]
       /\ status' = [r \in Requests |-> IF \E i \in 1 .. n : queues[k][i] = r
                                          THEN "spawned" ELSE status[r]]
       /\ UNCHANGED mapped

\* Mutant: the drain task returns and the key keeps its empty queue.
RemoveKeyNever(d) ==
    /\ drain' = [drain EXCEPT ![d] = [pc |-> "done", batch |-> {}]]
    /\ UNCHANGED <<queues, mapped, status>>

\* The queue is empty: remove the key and return, in the same critical section.
RemoveKey(d) ==
    /\ mapped' = mapped \ {KeyOf[d]}
    /\ drain' = [drain EXCEPT ![d] = [pc |-> "done", batch |-> {}]]
    /\ UNCHANGED <<queues, status>>

Pop(d) ==
    /\ drain[d].pc = "pop"
    /\ IF queues[KeyOf[d]] # <<>> THEN PopRequests(d) ELSE RemoveKey(d)
    /\ UNCHANGED <<arrived, accepting, conn, timedOut, server>>

\* join_all: every request of the batch has run or was turned away.
Joined(d) ==
    /\ drain[d].pc = "run"
    /\ \A r \in drain[d].batch : Ended(r)
    /\ drain' = [drain EXCEPT ![d] = [pc |-> "pop", batch |-> {}]]
    /\ UNCHANGED <<queues, mapped, status, arrived, accepting, conn, timedOut, server>>

-----------------------------------------------------------------------------
(* ConnectionRpcGate::run around a handler *)

\* Mutant: the token is handed out without looking at the gate.
AdmitUngated(r) ==
    /\ status[r] = "spawned"
    /\ status' = [status EXCEPT ![r] = "running"]
    /\ UNCHANGED <<queues, mapped, drain, arrived, accepting, conn, timedOut, server>>

\* The gate is looked at under its lock, and the token taken there.
Admit(r) ==
    /\ status[r] = "spawned"
    /\ status' = [status EXCEPT ![r] = IF accepting[ConnOf[r]] THEN "running" ELSE "skipped"]
    /\ UNCHANGED <<queues, mapped, drain, arrived, accepting, conn, timedOut, server>>

\* The handler returns and its token is dropped.
HandlerEnds(r) ==
    /\ status[r] = "running"
    /\ status' = [status EXCEPT ![r] = "finished"]
    /\ UNCHANGED <<queues, mapped, drain, arrived, accepting, conn, timedOut, server>>

-----------------------------------------------------------------------------
(* Closing connections and the server *)

\* The tokens of a gate's TaskTracker that are still held.
InFlight(c) == {r \in Requests : ConnOf[r] = c /\ status[r] = "running"}

\* TransportEvent::ConnectionClosed: the loop closes the gate and spawns the
\* cleanup task.
ConnectionClosed(c) ==
    /\ server = "running" /\ conn[c] = "open"
    /\ accepting' = [accepting EXCEPT ![c] = FALSE]
    /\ conn' = [conn EXCEPT ![c] = "waiting"]
    /\ UNCHANGED <<queues, mapped, drain, status, arrived, timedOut, server>>

\* MessageProcessor::connection_closed: wait for the handlers, but not longer
\* than CONNECTION_RPC_DRAIN_TIMEOUT, then release what the connection held.
Cleanup(c) ==
    /\ conn[c] = "waiting"
    /\ conn' = [conn EXCEPT ![c] = "cleaned"]
    /\ timedOut' = IF InFlight(c) = {} THEN timedOut ELSE timedOut \cup {c}
    /\ UNCHANGED <<queues, mapped, drain, status, arrived, accepting, server>>

\* The loop ends; a forced shutdown aborts the cleanup tasks and leaves.
ShutdownBegins(forced) ==
    /\ server = "running"
    /\ server' = IF forced THEN "forced" ELSE "closing"
    /\ conn' = IF forced THEN [c \in Conns |-> IF conn[c] = "waiting" THEN "aborted" ELSE conn[c]]
                         ELSE conn
    /\ UNCHANGED <<queues, mapped, drain, status, arrived, accepting, timedOut>>

\* Mutant: a gate with nothing in flight is left alone.
ShutdownGateBusy(c) ==
    /\ server = "closing" /\ conn[c] = "open" /\ accepting[c]
    /\ InFlight(c) # {}
    /\ accepting' = [accepting EXCEPT ![c] = FALSE]
    /\ UNCHANGED <<queues, mapped, drain, status, arrived, conn, timedOut, server>>

\* rpc_gate.shutdown() of a connection that is still there.
ShutdownGate(c) ==
    /\ server = "closing" /\ conn[c] = "open" /\ accepting[c]
    /\ accepting' = [accepting EXCEPT ![c] = FALSE]
    /\ UNCHANGED <<queues, mapped, drain, status, arrived, conn, timedOut, server>>

\* The remaining gates are drained, without a timeout, and so are the cleanup
\* tasks; only then are the threads shut down.
ShutdownThreads ==
    /\ server = "closing"
    /\ \A c \in Conns : IF conn[c] = "open" THEN ~accepting[c] /\ InFlight(c) = {}
                                            ELSE conn[c] = "cleaned"
    /\ server' = "stopped"
    /\ UNCHANGED <<queues, mapped, drain, status, arrived, accepting, conn, timedOut>>

-----------------------------------------------------------------------------
ServerLoop == (\E c \in Conns : ShutdownGate(c)) \/ ShutdownThreads

Next ==
    \/ \E r \in Requests : Receive(r) \/ Pop(r) \/ Joined(r) \/ Admit(r) \/ HandlerEnds(r)
    \/ \E c \in Conns : ConnectionClosed(c) \/ Cleanup(c)
    \/ \E forced \in BOOLEAN : ShutdownBegins(forced)
    \/ ServerLoop

Spec == Init /\ [][Next]_vars

\* Tasks that can run are polled, and handlers return; clients and signals
\* need never come. Every request makes finitely many steps, so that it is
\* enough that the drain tasks, the handlers and the cleanups go on as groups.
FairSpec ==
    /\ Spec
    /\ WF_vars(\E r \in Requests : Pop(r) \/ Joined(r))
    /\ WF_vars(\E r \in Requests : Admit(r) \/ HandlerEnds(r))
    /\ WF_vars(\E c \in Conns : Cleanup(c))
    /\ WF_vars(ServerLoop)

-----------------------------------------------------------------------------
(* Properties *)

Drainers(k) == {d \in Requests : KeyOf[d] = k /\ drain[d].pc \in {"pop", "run"}}

\* A queued request is never stranded and never drained twice over: a key has
\* an entry in the map exactly while one drain task serves it.
OneDrainer ==
    \A k \in Keys : Cardinality(Drainers(k)) = (IF k \in mapped THEN 1 ELSE 0)

\* "Closing the gate prevents queued handlers from starting": once a
\* connection's cleanup has waited for its handlers, none of its requests runs
\* any more, whatever is still in the queues of keys it shares with others.
\* And when the threads are shut down no handler is left that could use them,
\* but those a cleanup gave up on.
CleanupQuiesces ==
    \A c \in Conns \ timedOut :
        conn[c] = "cleaned" \/ server = "stopped" => InFlight(c) = {}

\* A request as its client sees it: waiting until its handler starts.
Stage(r) == IF status[r] \in {"queued", "spawned"} THEN "waiting"
            ELSE IF Ended(r) THEN "ended" ELSE status[r]

Access == INSTANCE SerializedAccess WITH
    order <- arrived,
    stage <- [r \in Requests |-> Stage(r)],
    open <- {c \in Conns : accepting[c]}

\* The queues, the batches and the gates implement serialized access: in order
\* of arrival, writers alone, across all connections that share a key.
Serialized == Access!Spec

\* Every request that was taken is answered or turned away.
RequestsEnd == []<>(\A r \in Requests : status[r] # "unsent" => Ended(r))

\* A graceful shutdown comes to its end.
ShutdownEnds == server = "closing" ~> server = "stopped"
=============================================================================
