----------------------------- MODULE ExecRecovery -----------------------------
(***************************************************************************)
(* One remote process of the exec server, followed over connections that   *)
(* break: the process table of the server (exec-server/src/local_process.rs)*)
(* and the session it belongs to (server/session_registry.rs), the ordered *)
(* event stream that the client rebuilds from notifications (client.rs),   *)
(* the recovery of that stream on a new connection (client_recovery.rs),   *)
(* and a write to the standard input that is retried across connections.   *)
(*                                                                         *)
(* Every event of the process gets the next sequence number. Output is     *)
(* retained by the server up to a limit; exits and closes are not. The     *)
(* notifications are sent by three tasks and reach the client in any order *)
(* or, when the connection breaks, not at all; the client publishes events *)
(* to its subscribers in the order of their numbers, and after a reconnect *)
(* reads what it missed. The exit of the process is not part of what it    *)
(* reads: its number is inferred from the gap it leaves.                   *)
(***************************************************************************)
EXTENDS Naturals, Sequences, SequencesExt, FiniteSets

CONSTANTS
    MaxOutputs,         \* how many chunks of output the process makes
    MaxRetained,        \* how many of them the server retains
    MaxConnections,     \* how many connections are made in all
    NoConnection

ASSUME ConstantsAssumption ==
    /\ MaxOutputs \in Nat
    /\ MaxRetained \in Nat
    /\ MaxConnections \in Nat \ {0}
    /\ NoConnection \notin Nat

VARIABLES
    \* the server
    log,            \* the kind of every event, by sequence number
    retained,       \* the numbers of the output that is retained
    streams,        \* open_streams
    unsent,         \* events recorded whose notification is not sent yet
    present,        \* the process is in the table
    session,        \* whether the session is live or has expired
    attached,       \* current_connection_id
    accepted,       \* whether the id of the write is remembered
    stdin,          \* history: how often the write reached the process
    \* the connections
    connections,    \* how many have been made
    broken,         \* those that the network has lost
    closed,         \* those whose client side has noticed
    reading,        \* those whose reader task runs
    wire,           \* the notifications on their way, per connection
    attempt,        \* the write request, per connection
    \* the client
    status,         \* ConnectionStatus
    current,        \* the connection of the status Connected
    published,      \* what the subscribers of the process were sent
    pending,        \* OrderedSessionEvents.pending
    registered,     \* the process is in the table of sessions
    pc,             \* where the recovery is
    candidate,      \* the connection it tries
    response,       \* the answer of its read
    write           \* the write: where it is and on which connection

processVars == <<log, retained, streams, unsent, present>>
sessionVars == <<session, attached>>
writeVars == <<accepted, stdin, attempt, write>>
linkVars == <<connections, broken, closed, reading>>
streamVars == <<published, pending, registered>>
recoveryVars == <<status, current, pc, candidate, response>>
vars == <<processVars, sessionVars, writeVars, linkVars, wire, streamVars,
          recoveryVars>>

Connections == 1..MaxConnections
Sequences_ == 1..(MaxOutputs + 2)
Kinds == {"output", "exited", "closed"}
NoResponse == [answered |-> FALSE]

nextSeq == Len(log) + 1
Exited == "exited" \in ToSet(log)
Closed == "closed" \in ToSet(log)

Init ==
    /\ log = <<>> /\ retained = {} /\ streams = 2 /\ unsent = {}
    /\ present = TRUE /\ session = "live" /\ attached = 1
    /\ accepted = FALSE /\ stdin = 0
    /\ connections = 1 /\ broken = {} /\ closed = {} /\ reading = {1}
    /\ wire = [c \in Connections |-> <<>>]
    /\ attempt = [c \in Connections |-> "none"]
    /\ status = "connected" /\ current = 1
    /\ published = <<>> /\ pending = <<>> /\ registered = TRUE
    /\ pc = "idle" /\ candidate = NoConnection /\ response = NoResponse
    /\ write = [at |-> "idle", on |-> NoConnection]

-----------------------------------------------------------------------------
(***************************************************************************)
(* The process on the server. A task records an event in the table and     *)
(* sends its notification afterwards, before it handles another one.       *)
(***************************************************************************)
Record(kind) ==
    /\ log' = Append(log, kind)
    /\ unsent' = unsent \cup {nextSeq}

UnsentOutput == {s \in unsent : log[s] = "output"}

\* stream_output: the oldest output goes when too much is retained.
StreamOutput ==
    /\ present /\ Cardinality(UnsentOutput) < streams
    /\ Cardinality({s \in DOMAIN log : log[s] = "output"}) < MaxOutputs
    /\ Record("output")
    /\ LET all == retained \cup {nextSeq} IN
       retained' = IF Cardinality(all) > MaxRetained
                   THEN all \ {Min(all)}
                   ELSE all
    /\ UNCHANGED <<streams, present, sessionVars, writeVars, linkVars, wire,
                   streamVars, recoveryVars>>

WatchExit ==
    /\ present /\ ~Exited
    /\ Record("exited")
    /\ UNCHANGED <<retained, streams, present, sessionVars, writeVars,
                   linkVars, wire, streamVars, recoveryVars>>

\* A stream ends: the task of it has sent its last notification.
FinishOutputStream ==
    /\ present /\ Cardinality(UnsentOutput) < streams
    /\ streams' = streams - 1
    /\ UNCHANGED <<log, retained, unsent, present, sessionVars, writeVars,
                   linkVars, wire, streamVars, recoveryVars>>

\* maybe_emit_closed, which both kinds of task call at their end.
MaybeEmitClosed ==
    /\ present /\ ~Closed /\ streams = 0 /\ Exited
    /\ Record("closed")
    /\ UNCHANGED <<retained, streams, present, sessionVars, writeVars,
                   linkVars, wire, streamVars, recoveryVars>>

\* A closed process is forgotten after EXITED_PROCESS_RETENTION.
ForgetProcess ==
    /\ present /\ Closed
    /\ present' = FALSE
    /\ UNCHANGED <<log, retained, streams, unsent, sessionVars, writeVars,
                   linkVars, wire, streamVars, recoveryVars>>

\* The notification goes to the connection of the session, if it has one.
Notify(s) ==
    /\ s \in unsent
    /\ unsent' = unsent \ {s}
    /\ wire' = IF attached \in Connections \ broken
               THEN [wire EXCEPT ![attached] = Append(@, s)]
               ELSE wire
    /\ UNCHANGED <<log, retained, streams, present, sessionVars, writeVars,
                   linkVars, streamVars, recoveryVars>>

-----------------------------------------------------------------------------
(***************************************************************************)
(* The connections. Of what is on its way when the network loses one, the  *)
(* client gets a first part. The two ends notice independently.            *)
(***************************************************************************)
Break(c) ==
    /\ c \in 1..connections /\ c \notin broken
    /\ broken' = broken \cup {c}
    /\ \E n \in 0..Len(wire[c]) :
          wire' = [wire EXCEPT ![c] = SubSeq(@, 1, n)]
    /\ UNCHANGED <<processVars, sessionVars, writeVars, connections, closed,
                   reading, streamVars, recoveryVars>>

\* The client: is_disconnected holds from now on.
Notice(c) ==
    /\ c \in broken \ closed
    /\ closed' = closed \cup {c}
    /\ UNCHANGED <<processVars, sessionVars, writeVars, connections, broken,
                   reading, wire, streamVars, recoveryVars>>

\* The server: the request in progress is dropped, the session detached.
Detach ==
    /\ attached \in broken
    /\ attached' = NoConnection
    /\ attempt' = [attempt EXCEPT ![attached] =
                      IF @ = "sent" THEN "none" ELSE @]
    /\ UNCHANGED <<processVars, session, accepted, stdin, write, linkVars,
                   wire, streamVars, recoveryVars>>

\* expire_if_detached: the processes of the session are shut down.
Expire ==
    /\ attached = NoConnection /\ session = "live"
    /\ session' = "expired" /\ present' = FALSE
    /\ UNCHANGED <<log, retained, streams, unsent, attached, writeVars,
                   linkVars, wire, streamVars, recoveryVars>>

-----------------------------------------------------------------------------
(***************************************************************************)
(* The ordered stream of the client. The flags exit_published,             *)
(* closed_published and failure say what has been published.               *)
(***************************************************************************)
failed == "failed" \in ToSet(published)
closedPublished == "closed" \in ToSet(published)
exitPublished == "exited" \in ToSet(published)
lastPublished == Len(published) - (IF failed THEN 1 ELSE 0)

\* Mutant: one event is published per call, not all that have become ready.
PublishOneReady(waiting) ==
    LET next == lastPublished + 1 IN
    IF next \in DOMAIN waiting
    THEN /\ published' = Append(published, waiting[next])
         /\ pending' = [s \in DOMAIN waiting \ {next} |-> waiting[s]]
         /\ registered' = (registered /\ waiting[next] # "closed")
    ELSE pending' = waiting /\ UNCHANGED <<published, registered>>

\* publish_ready, and remove_session_if when it has published the close.
PublishReady(waiting) ==
    LET next == CHOOSE n \in lastPublished..(MaxOutputs + 2) :
                   /\ (lastPublished + 1)..n \subseteq DOMAIN waiting
                   /\ n + 1 \notin DOMAIN waiting
    IN  /\ published' = published \o
               [i \in 1..(next - lastPublished) |-> waiting[lastPublished + i]]
        /\ pending' = [s \in {t \in DOMAIN waiting : t > next} |-> waiting[s]]
        /\ registered' = (registered /\ "closed" \notin ToSet(published'))

\* or_insert: an event that waits already stays as it is.
AddEvent(s, kind) ==
    [t \in DOMAIN pending \cup {s} |->
        IF t \in DOMAIN pending THEN pending[t] ELSE kind]

SetFailure ==
    IF failed \/ closedPublished
    THEN UNCHANGED <<published, pending>>
    ELSE published' = Append(published, "failed") /\ pending' = <<>>

\* The reader task of a connection: handle_server_notification.
HandleNotification(c) ==
    /\ c \in reading /\ wire[c] # <<>>
    /\ wire' = [wire EXCEPT ![c] = Tail(@)]
    /\ LET s == Head(wire[c]) IN
       IF ~registered \/ failed \/ closedPublished \/ s <= lastPublished
       THEN UNCHANGED streamVars
       ELSE PublishReady(AddEvent(s, log[s]))
    /\ UNCHANGED <<processVars, sessionVars, writeVars, linkVars,
                   recoveryVars>>

\* request_recovery: only for the connection that is in use.
RequestRecovery(c) ==
    IF status = "connected" /\ current = c
    THEN /\ status' = "recovering" /\ current' = NoConnection
         /\ pc' = "connect"
         /\ UNCHANGED <<candidate, response>>
    ELSE UNCHANGED recoveryVars

\* The reader sees the end of its connection after all that came before.
HandleDisconnected(c) ==
    /\ c \in reading \cap broken /\ wire[c] = <<>>
    /\ closed' = closed \cup {c}
    /\ reading' = reading \ {c}
    /\ RequestRecovery(c)
    /\ UNCHANGED <<processVars, sessionVars, writeVars, connections, broken,
                   wire, streamVars>>

-----------------------------------------------------------------------------
(***************************************************************************)
(* The recovery task.                                                      *)
(***************************************************************************)
\* The connection that is tried is dropped, and its reader with it.
DropCandidate ==
    LET dropped == {candidate} \cap Connections IN
    /\ candidate' = NoConnection /\ response' = NoResponse
    /\ reading' = reading \ dropped
    /\ broken' = broken \cup dropped /\ closed' = closed \cup dropped
    /\ wire' = [c \in Connections |-> IF c \in dropped THEN <<>> ELSE wire[c]]

\* An error that is retried: the loop of recover goes round.
TryAgain ==
    /\ pc' = "connect"
    /\ DropCandidate
    /\ UNCHANGED <<processVars, sessionVars, writeVars, connections,
                   streamVars, status, current>>

\* resume_once connects; a connect that fails is tried again.
Connect ==
    /\ pc = "connect" /\ connections < MaxConnections
    /\ connections' = connections + 1
    /\ candidate' = connections'
    /\ reading' = reading \cup {connections'}
    /\ pc' = "initialize"
    /\ UNCHANGED <<processVars, sessionVars, writeVars, broken, closed, wire,
                   streamVars, status, current, response>>

\* SessionRegistry::attach: the notifications are redirected first.
Attach ==
    /\ pc = "initialize" /\ candidate \notin broken
    /\ session = "live" /\ attached = NoConnection
    /\ attached' = candidate
    /\ pc' = "read"
    /\ UNCHANGED <<processVars, session, writeVars, linkVars, wire,
                   streamVars, status, current, candidate, response>>

\* SESSION_ALREADY_ATTACHED is one of the errors that are retried.
AlreadyAttached ==
    /\ pc = "initialize" /\ candidate \notin broken
    /\ session = "live" /\ attached # NoConnection
    /\ TryAgain

\* fail, and fail_all_sessions with it.
Fail ==
    /\ status' = "failed" /\ current' = NoConnection
    /\ pc' = "idle" /\ DropCandidate
    /\ registered' = FALSE
    /\ IF registered THEN SetFailure ELSE UNCHANGED <<published, pending>>
    /\ UNCHANGED <<processVars, sessionVars, writeVars, connections>>

\* The resumed session has expired, an error that is not retried.
SessionUnknown ==
    /\ pc = "initialize" /\ candidate \notin broken
    /\ session = "expired"
    /\ Fail

\* SESSION_RECOVERY_TIMEOUT bounds every wait of the recovery; from the last
\* answer to the installation there is none.
RecoveryTimesOut ==
    /\ pc \notin {"idle", "install"}
    /\ Fail

\* The read of recover_processes, as the server answers it.
RecoveryRead ==
    /\ pc = "read" /\ registered /\ candidate \notin broken
    /\ response' = [answered |-> TRUE, known |-> present,
                    chunks |-> {s \in retained : s > lastPublished},
                    nextSeq |-> nextSeq, exited |-> Exited, closed |-> Closed]
    /\ pc' = "recover"
    /\ UNCHANGED <<processVars, sessionVars, writeVars, linkVars, wire,
                   streamVars, status, current, candidate>>

NothingToRecover ==
    /\ pc = "read" /\ ~registered
    /\ pc' = "install"
    /\ UNCHANGED <<processVars, sessionVars, writeVars, linkVars, wire,
                   streamVars, status, current, candidate, response>>

\* The connection ends under a call: it is not known how far it got.
CandidateLost ==
    /\ pc \in {"initialize", "read", "recover", "terminate"}
    /\ candidate \in closed
    /\ TryAgain

\* What waits once the answer is merged in: what waited already stays.
Merged ==
    LET target == response.nextSeq - 1
        read == {s \in response.chunks : s > lastPublished}
        ends == IF response.closed THEN {target} ELSE {}
    IN  [s \in DOMAIN pending \cup read \cup ends |->
            IF s \in DOMAIN pending THEN pending[s]
            ELSE IF s \in read THEN "output" ELSE "closed"]

\* Mutant: the exit is taken to be the last event but the close.
RecoverableLastGap ==
    LET target == response.nextSeq - 1
        missing == ((lastPublished + 1)..target) \ DOMAIN Merged
    IN  [gaps |-> missing, target |-> target, exitMissing |-> response.exited,
         exitSeq |-> IF response.exited
                     THEN {IF response.closed THEN target - 1 ELSE target}
                     ELSE {}]

\* recover_events: the exit is not read, its number is the one gap left.
RecoverableEvents ==
    LET target == response.nextSeq - 1
        missing == ((lastPublished + 1)..target) \ DOMAIN Merged
        exitKnown == \/ exitPublished
                     \/ \E s \in DOMAIN Merged :
                           s <= target /\ Merged[s] = "exited"
    IN  [gaps |-> missing, target |-> target,
         exitMissing |-> response.exited /\ ~exitKnown,
         exitSeq |-> IF response.exited /\ ~exitKnown
                        /\ Cardinality(missing) = 1
                     THEN missing ELSE {}]

\* All the events up to the answer are known, an exit that was not read has a
\* number, and the close is the last one.
Complete(found) ==
    /\ found.exitMissing => found.exitSeq # {}
    /\ found.gaps \subseteq found.exitSeq
    /\ response.closed => Merged[found.target] = "closed"

\* What the process did is all known: the events in between are published.
RecoverEvents ==
    /\ pc = "recover" /\ response.known
    /\ LET found == RecoverableEvents IN
       IF failed \/ closedPublished \/ found.target <= lastPublished
       THEN UNCHANGED streamVars
       ELSE /\ Complete(found)
            /\ PublishReady([s \in DOMAIN Merged \cup found.exitSeq |->
                                IF s \in found.exitSeq THEN "exited"
                                ELSE Merged[s]])
    /\ pc' = "install"
    /\ UNCHANGED <<processVars, sessionVars, writeVars, linkVars, wire,
                   status, current, candidate, response>>

\* The process is gone, or some of its events are: it is terminated.
RecoveryImpossible ==
    /\ pc = "recover"
    /\ \/ ~response.known /\ UNCHANGED pending
       \/ /\ response.known
          /\ ~failed /\ ~closedPublished
          /\ RecoverableEvents.target > lastPublished
          /\ ~Complete(RecoverableEvents)
          /\ pending' = Merged
    /\ pc' = "terminate"
    /\ UNCHANGED <<processVars, sessionVars, writeVars, linkVars, wire,
                   published, registered, status, current, candidate, response>>

\* The server has answered process/terminate; whether it ran or not, the
\* session of the process is removed and fails.
TerminateAnswered ==
    /\ pc = "terminate" /\ candidate \notin broken
    /\ registered' = FALSE
    /\ SetFailure
    /\ pc' = "install"
    /\ UNCHANGED <<processVars, sessionVars, writeVars, linkVars, wire,
                   status, current, candidate, response>>

\* Mutant: the candidate is installed without a look at it.
InstallBlindly ==
    /\ pc = "install"
    /\ status' = "connected" /\ current' = candidate
    /\ pc' = "idle" /\ candidate' = NoConnection /\ response' = NoResponse
    /\ UNCHANGED <<processVars, sessionVars, writeVars, linkVars, wire,
                   streamVars>>

\* install_recovered_client, for a candidate that is not disconnected.
InstallRecoveredClient ==
    /\ pc = "install" /\ candidate \notin closed
    /\ status' = "connected" /\ current' = candidate
    /\ pc' = "idle" /\ candidate' = NoConnection /\ response' = NoResponse
    /\ UNCHANGED <<processVars, sessionVars, writeVars, linkVars, wire,
                   streamVars>>

NotInstalled ==
    /\ pc = "install" /\ candidate \in closed
    /\ TryAgain

-----------------------------------------------------------------------------
(***************************************************************************)
(* A write to the standard input: one id for all its attempts. The server  *)
(* handles the requests of a connection one after the other.               *)
(***************************************************************************)
writeFrame == <<processVars, sessionVars, linkVars, wire, streamVars,
                recoveryVars>>

\* Session::write, whose rpc_client waits for a connection that works.
WriteCall ==
    /\ write.at = "idle"
    /\ status = "connected" /\ current \notin closed
    /\ write' = [at |-> "call", on |-> current]
    /\ attempt' = [attempt EXCEPT ![current] = "sent"]
    /\ UNCHANGED <<accepted, stdin, writeFrame>>

\* An answer that the network has lost does not arrive.
Reply(c, answer) ==
    attempt' = [attempt EXCEPT ![c] = IF c \in broken THEN "none" ELSE answer]

\* Mutant: the id of the write is not remembered.
ExecWriteForgets(c) ==
    /\ attempt[c] = "sent" /\ attached = c /\ present
    /\ stdin' = stdin + 1
    /\ Reply(c, "accepted")
    /\ UNCHANGED <<accepted, write, writeFrame>>

\* exec_write. It waits for room in the channel to the process, and a handler
\* that is dropped there has done nothing; the bytes are sent and their id is
\* remembered without a wait in between.
ExecWrite(c) ==
    /\ attempt[c] = "sent" /\ attached = c /\ present
    /\ stdin' = IF accepted THEN stdin ELSE stdin + 1
    /\ accepted' = TRUE
    /\ Reply(c, "accepted")
    /\ UNCHANGED <<write, writeFrame>>

\* The process is unknown, or has ended and its channel is closed.
ExecWriteRefused(c) ==
    /\ attempt[c] = "sent" /\ attached = c
    /\ ~present \/ (Exited /\ ~accepted)
    /\ Reply(c, "refused")
    /\ UNCHANGED <<accepted, stdin, write, writeFrame>>

WriteAnswered ==
    /\ write.at = "call" /\ write.on \notin closed
    /\ attempt[write.on] \in {"accepted", "refused"}
    /\ write' = [at |-> attempt[write.on], on |-> NoConnection]
    /\ attempt' = [attempt EXCEPT ![write.on] = "none"]
    /\ UNCHANGED <<accepted, stdin, writeFrame>>

\* The transport has closed: the write is tried again with the same id.
WriteLost ==
    /\ write.at = "call" /\ write.on \in closed
    /\ write' = [at |-> IF status = "failed" THEN "refused" ELSE "idle",
                 on |-> NoConnection]
    /\ attempt' = [attempt EXCEPT ![write.on] = IF @ = "sent" THEN @ ELSE "none"]
    /\ UNCHANGED <<accepted, stdin, writeFrame>>

\* rpc_client finds the client failed.
WriteFails ==
    /\ write.at = "idle" /\ status = "failed"
    /\ write' = [at |-> "refused", on |-> NoConnection]
    /\ UNCHANGED <<accepted, stdin, attempt, writeFrame>>

-----------------------------------------------------------------------------
Server ==
    \/ StreamOutput \/ WatchExit \/ FinishOutputStream \/ MaybeEmitClosed
    \/ ForgetProcess \/ Detach \/ Expire
    \/ \E s \in Sequences_ : Notify(s)
    \/ \E c \in Connections : ExecWrite(c) \/ ExecWriteRefused(c)

Recovery ==
    \/ Connect \/ Attach \/ AlreadyAttached \/ SessionUnknown
    \/ RecoveryRead \/ NothingToRecover \/ RecoverEvents
    \/ RecoveryImpossible \/ TerminateAnswered \/ CandidateLost
    \/ InstallRecoveredClient \/ NotInstalled \/ RecoveryTimesOut

Client ==
    \/ Recovery
    \/ \E c \in Connections : HandleNotification(c) \/ HandleDisconnected(c)
    \/ WriteCall \/ WriteAnswered \/ WriteLost \/ WriteFails

Next ==
    \/ Server
    \/ Client
    \/ \E c \in Connections : Break(c) \/ Notice(c)

Spec == Init /\ [][Next]_vars

-----------------------------------------------------------------------------
\* The types of the state.
TypeOK ==
    /\ log \in Seq(Kinds) /\ Len(log) <= MaxOutputs + 2
    /\ retained \subseteq DOMAIN log /\ unsent \subseteq DOMAIN log
    /\ streams \in 0..2
    /\ present \in BOOLEAN /\ session \in {"live", "expired"}
    /\ attached \in Connections \cup {NoConnection}
    /\ accepted \in BOOLEAN /\ stdin \in Nat
    /\ connections \in Connections
    /\ broken \subseteq Connections /\ closed \subseteq broken
    /\ reading \subseteq Connections
    /\ wire \in [Connections -> Seq(DOMAIN log)]
    /\ attempt \in [Connections -> {"none", "sent", "accepted", "refused"}]
    /\ status \in {"connected", "recovering", "failed"}
    /\ current \in Connections \cup {NoConnection}
    /\ published \in Seq(Kinds \cup {"failed"})
    /\ DOMAIN pending \subseteq DOMAIN log
    /\ registered \in BOOLEAN
    /\ pc \in {"idle", "connect", "initialize", "read", "recover",
               "terminate", "install"}
    /\ candidate \in Connections \cup {NoConnection}
    /\ write \in [at : {"idle", "call", "accepted", "refused"},
                  on : Connections \cup {NoConnection}]

\* The subscribers of a process see its events as they happened, each once,
\* none left out in between, the exit whose number is only inferred included,
\* over any sequence of connections; a failure is the last thing they see
\* (publish_ordered_event and recover_events).
EventsInOrder ==
    /\ lastPublished <= Len(log)
    /\ \A i \in 1..lastPublished : published[i] = log[i]

\* When nothing is on its way any more over a connection that works, the
\* subscribers have seen everything: no event was lost with the connections
\* before it and forgotten by the recovery. And when the client has given up,
\* its subscribers know (recover_processes and fail_all_sessions).
CaughtUp ==
    /\ (/\ status = "connected" /\ current \notin broken
        /\ unsent = {} /\ wire[current] = <<>>)
           => failed \/ lastPublished = Len(log)
    /\ status = "failed" => failed \/ closedPublished

\* The connection the client uses has a reader, so that its end will be
\* noticed, and unless the network has lost it the session of the server is
\* attached to it (install_recovered_client against a connection that ends
\* between the last answer and the installation).
UsedConnectionServed ==
    status = "connected" =>
        current \in reading /\ (current \in broken \/ attached = current)

\* However often a write is retried, the process reads it at most once, and
\* it has been passed on when the caller is told that it was accepted
\* (exec_write and AcceptedStdinWriteIds).
StdinOnce ==
    /\ stdin <= 1
    /\ write.at = "accepted" => stdin = 1
=============================================================================
