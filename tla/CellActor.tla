------------------------------ MODULE CellActor ------------------------------
(***************************************************************************)
(* A code-mode cell: the actor task that owns one JavaScript execution     *)
(* (code-mode/src/cell_actor), the V8 thread that runs it                  *)
(* (code-mode/src/runtime), the tasks of its callbacks, and the clients    *)
(* that observe and terminate it through the session                       *)
(* (code-mode/src/session_runtime).                                        *)
(*                                                                         *)
(* The actor, the V8 thread, every callback task and every client run      *)
(* concurrently. They share the phase of the cell, which is guarded by a   *)
(* mutex and is the place where the outcome of the cell is decided, the    *)
(* cancellation token of the cell, and channels.                           *)
(*                                                                         *)
(* The select! of the actor is biased, but its branches are polled one     *)
(* after the other while the other threads run, so a later branch can be   *)
(* taken although an earlier one has just become ready: the model lets the *)
(* actor take any branch that is ready.                                    *)
(*                                                                         *)
(* Content items are numbered in the order in which the actor takes them   *)
(* from the event channel, which is FIFO.                                  *)
(***************************************************************************)
EXTENDS Naturals, Sequences, SequencesExt, FiniteSets

CONSTANTS
    Observers,      \* the observations that clients make, one call each
    Initial,        \* the observation that execute makes with the cell
    Terminators,    \* the calls of terminate
    Impatient,      \* the observations whose future may be dropped
    MaxItems,       \* how many content items the script makes
    MaxCalls,       \* how many other calls it makes
    None

ASSUME ConstantsAssumption ==
    /\ Initial \in Observers
    /\ Observers \cap Terminators = {}
    /\ None \notin Observers \cup Terminators
    /\ Impatient \subseteq Observers
    /\ MaxItems \in Nat /\ MaxCalls \in Nat

VARIABLES
    phase,          \* CellState.phase
    responder,      \* response_tx of the phase Terminating
    event,          \* event of the phases Completed and CompletionClaimed
    cancelled,      \* the cancellation token of the cell
    stored,         \* whether the writes of the cell reached stored_values
    client,         \* per call: where it is, its mode and its answer
    commands,       \* the command channel of the actor
    open,           \* command_rx has not been dropped
    observer,       \* the observer the actor holds
    content,        \* content_items
    ready,          \* pending_frontier_ready
    paused,         \* runtime_paused
    timer,          \* whether yield_timer is armed
    termination, runtimeClosed,     \* the flags of the same names
    pc,             \* where the actor is
    after,          \* what it does after the drain of the callbacks
    callbacksCancelled,             \* callback_cancellation_token
    notifications, tools,           \* running tasks of the two join sets
    rt,             \* where the V8 thread is
    made,           \* how many items and calls the script has made
    events, rtCommands, rtControl,  \* the three channels of the V8 thread
    received,       \* history: how many content items the actor took
    told            \* history: items delivered by Yielded and Pending

cellState == <<phase, responder, event, stored>>
clientVars == <<client, commands, open>>
controlVars == <<termination, runtimeClosed, pc, after>>
actorVars == <<observer, content, ready, paused, timer, controlVars>>
callbackVars == <<callbacksCancelled, notifications, tools>>
runtimeVars == <<rt, made>>
queueVars == <<rtCommands, rtControl>>
threadVars == <<runtimeVars, events, queueVars>>
history == <<received, told>>
vars == <<cellState, cancelled, clientVars, actorVars, callbackVars,
          threadVars, history>>

Clients == Observers \cup Terminators
Modes == {"YieldAfter", "PendingFrontier"}
Replies == {"Yielded", "Pending", "Busy", "AlreadyTerminating", "Closed"}
Items == BoundedSeq(1..MaxItems, MaxItems)
Terminal == [kind : {"Completed", "Terminated"}, items : Items]
Answers == Terminal \cup [kind : Replies, items : {<<>>}]

ASSUME NoneAssumption == None \notin Answers

\* The content of a Yielded and of a Pending answer is recorded in told.
Outcome(kind, items) == [kind |-> kind, items |-> items]
Reply(kind) == [kind |-> kind, items |-> <<>>]

(***************************************************************************)
(* A oneshot response: the send succeeds as long as the receiver lives; a  *)
(* sender that is dropped without a send is read as Closed.                *)
(***************************************************************************)
Alive(c) == c # None /\ client[c].at = "waiting"

ObserverMode(mode) == observer # None /\ client[observer].mode = mode

\* The mode of a call that is over does not matter any more.
Answered(c, answer) == [at |-> "answered", mode |-> None, answer |-> answer]

Tell(recipients, answer) ==
    client' = [c \in Clients |-> IF c \in recipients /\ Alive(c)
                                 THEN Answered(c, answer)
                                 ELSE client[c]]

DropCommands ==
    /\ open' = FALSE
    /\ commands' = <<>>
    /\ Tell(ToSet(commands), Reply("Closed"))

Init ==
    /\ phase = "Running" /\ responder = None /\ event = None
    /\ cancelled = FALSE /\ stored = FALSE
    /\ client \in [Clients -> [at : {"idle", "waiting"},
                               mode : Modes \cup {None}, answer : {None}]]
    /\ \A c \in Clients : /\ client[c].at = "waiting" <=> c = Initial
                          /\ client[c].mode = None <=> c \in Terminators
    /\ commands = <<>> /\ open = TRUE
    /\ observer = Initial /\ content = <<>> /\ ready = FALSE
    /\ paused = FALSE /\ timer = FALSE /\ termination = FALSE
    /\ runtimeClosed = FALSE /\ pc = "loop" /\ after = None
    /\ callbacksCancelled = FALSE /\ notifications = 0 /\ tools = 0
    /\ rt = "starting" /\ made = [items |-> 0, calls |-> 0]
    /\ events = <<>> /\ rtCommands = <<>> /\ rtControl = <<>>
    /\ received = 0 /\ told = <<>>

-----------------------------------------------------------------------------
(***************************************************************************)
(* The clients.                                                            *)
(***************************************************************************)
acceptingObservations == phase \in {"Running", "Completed"} /\ ~cancelled

\* CellHandle::observe reads the phase ...
Observe(c) ==
    /\ client[c].at = "idle"
    /\ client' = [client EXCEPT ![c] = IF acceptingObservations
                                       THEN [@ EXCEPT !.at = "admitted"]
                                       ELSE Answered(c, Reply("Closed"))]
    /\ UNCHANGED <<cellState, cancelled, commands, open, actorVars,
                   callbackVars, threadVars, history>>

\* ... and sends its command later, when the actor may be gone.
SendObserve(c) ==
    /\ client[c].at = "admitted"
    /\ client' = [client EXCEPT ![c] = IF open
                                       THEN [@ EXCEPT !.at = "waiting"]
                                       ELSE Answered(c, Reply("Closed"))]
    /\ commands' = IF open THEN Append(commands, c) ELSE commands
    /\ UNCHANGED <<cellState, cancelled, open, actorVars, callbackVars,
                   threadVars, history>>

\* The future of an observation is dropped, and its receiver with it.
DropObservation(c) ==
    /\ Alive(c)
    /\ client' = [client EXCEPT ![c].at = "dropped"]
    /\ UNCHANGED <<cellState, cancelled, commands, open, actorVars,
                   callbackVars, threadVars, history>>

\* terminate: the first one claims the outcome that the phase allows.
RequestTermination(c) ==
    /\ client[c].at = "idle"
    /\ \/ /\ phase = "Running"
          /\ phase' = "Terminating" /\ responder' = c /\ cancelled' = TRUE
          /\ client' = [client EXCEPT ![c].at = "waiting"]
       \/ /\ phase = "Completed"
          /\ phase' = "CompletionClaimed" /\ cancelled' = TRUE
          /\ client' = [client EXCEPT ![c] = Answered(c, event)]
          /\ UNCHANGED responder
       \/ /\ phase \in {"Terminating", "CompletionClaimed"}
          /\ client' = [client EXCEPT ![c] =
                 Answered(c, Reply("AlreadyTerminating"))]
          /\ UNCHANGED <<phase, responder, cancelled>>
       \/ /\ phase = "Tombstone"
          /\ client' = [client EXCEPT ![c] = Answered(c, Reply("Closed"))]
          /\ UNCHANGED <<phase, responder, cancelled>>
    /\ UNCHANGED <<event, stored, commands, open, actorVars, callbackVars,
                   threadVars, history>>

\* The session shuts down: its token is the parent of the token of the cell.
BeginShutdown ==
    /\ ~cancelled
    /\ cancelled' = TRUE
    /\ UNCHANGED <<cellState, clientVars, actorVars, callbackVars,
                   threadVars, history>>

-----------------------------------------------------------------------------
(***************************************************************************)
(* The V8 thread. A send to it is lost when it has ended.                  *)
(***************************************************************************)
ToRuntime(queue, command) ==
    IF rt = "gone" THEN queue ELSE Append(queue, command)

Emit(e) == events' = Append(events, e)

RuntimeEnds == rt' = "gone" /\ rtCommands' = <<>> /\ rtControl' = <<>>

Started ==
    /\ rt = "starting"
    /\ Emit("Started")
    /\ rt' = "executing"
    /\ UNCHANGED <<cellState, cancelled, clientVars, actorVars, callbackVars,
                   made, queueVars, history>>

\* The script makes output ...
ScriptOutputs ==
    /\ rt = "executing" /\ made.items < MaxItems
    /\ Emit("ContentItem")
    /\ made' = [made EXCEPT !.items = @ + 1]
    /\ UNCHANGED <<cellState, cancelled, clientVars, actorVars, callbackVars,
                   rt, queueVars, history>>

\* ... or calls yield_control, notify or a tool.
ScriptCalls(e) ==
    /\ rt = "executing" /\ made.calls < MaxCalls
    /\ Emit(e)
    /\ made' = [made EXCEPT !.calls = @ + 1]
    /\ UNCHANGED <<cellState, cancelled, clientVars, actorVars, callbackVars,
                   rt, queueVars, history>>

\* The script ends, fails, or is stopped by terminate_execution: the thread sends
\* its Result, the last that the actor learns of it. Nobody joins the thread.
ScriptEnds ==
    /\ rt \in {"starting", "executing"}
    /\ Emit("Result")
    /\ RuntimeEnds
    /\ UNCHANGED <<cellState, cancelled, clientVars, actorVars, callbackVars,
                   made, history>>

ThreadPanics ==
    /\ rt \in {"starting", "executing"}
    /\ Emit("ThreadPanicked")
    /\ RuntimeEnds
    /\ UNCHANGED <<cellState, cancelled, clientVars, actorVars, callbackVars,
                   made, history>>

TakeRuntimeCommand ==
    /\ rtCommands # <<>>
    /\ IF Head(rtCommands) = "Terminate"
       THEN RuntimeEnds
       ELSE /\ rt' = "executing" /\ rtCommands' = Tail(rtCommands)
            /\ UNCHANGED rtControl
    /\ UNCHANGED events

\* next_runtime_command when the script waits for something.
NextRuntimeCommand ==
    /\ \/ /\ rt \in {"executing", "polling", "waiting"}
          /\ TakeRuntimeCommand
       \/ /\ rt \in {"executing", "polling"} /\ rtCommands = <<>>
          /\ Emit("Pending")
          /\ rt' = "paused"
          /\ UNCHANGED queueVars
       \/ /\ rt = "paused" /\ rtControl # <<>>
          /\ IF Head(rtControl) = "Terminate"
             THEN RuntimeEnds
             ELSE /\ rt' = IF Head(rtControl) = "Continue"
                           THEN "waiting" ELSE "polling"
                  /\ rtControl' = Tail(rtControl)
                  /\ UNCHANGED rtCommands
          /\ UNCHANGED events
    /\ UNCHANGED <<cellState, cancelled, clientVars, actorVars, callbackVars,
                   made, history>>

-----------------------------------------------------------------------------
(***************************************************************************)
(* The tasks of the callbacks.                                             *)
(***************************************************************************)
NotificationEnds ==
    /\ notifications > 0
    /\ notifications' = notifications - 1
    /\ UNCHANGED <<cellState, cancelled, clientVars, actorVars,
                   callbacksCancelled, tools, threadVars, history>>

ToolEnds ==
    /\ tools > 0
    /\ tools' = tools - 1
    /\ rtCommands' = ToRuntime(rtCommands, "ToolResponse")
    /\ UNCHANGED <<cellState, cancelled, clientVars, actorVars,
                   callbacksCancelled, notifications, runtimeVars, events,
                   rtControl, history>>

-----------------------------------------------------------------------------
(***************************************************************************)
(* The actor: run_cell.                                                    *)
(***************************************************************************)
\* Mutant: only the command channel is told, not a paused thread.
beginTerminationCommandOnly ==
    /\ cancelled' = TRUE
    /\ rtCommands' = ToRuntime(rtCommands, "Terminate")
    /\ UNCHANGED rtControl

beginTermination ==
    /\ cancelled' = TRUE
    /\ rtCommands' = ToRuntime(rtCommands, "Terminate")
    /\ rtControl' = ToRuntime(rtControl, "Terminate")

\* finish_callbacks: with Cancel the callbacks are told first.
FinishCallbacks(completion, next) ==
    /\ pc' = "drainNotifications" /\ after' = next
    /\ callbacksCancelled' = (callbacksCancelled \/ completion = "Cancel")

\* Mutant: the actor always waits for the thread, even for an ended one.
CancelledAwaitsThread ==
    /\ pc = "loop" /\ cancelled /\ ~termination
    /\ termination' = TRUE /\ timer' = FALSE
    /\ DropCommands
    /\ beginTermination
    /\ UNCHANGED <<cellState, observer, content, ready, paused,
                   runtimeClosed, pc, after, callbackVars, runtimeVars,
                   events, history>>

\* The first branch: the token of the cell is cancelled.
Cancelled ==
    /\ pc = "loop" /\ cancelled /\ ~termination
    /\ termination' = TRUE /\ timer' = FALSE
    /\ DropCommands
    /\ beginTermination
    /\ IF runtimeClosed THEN FinishCallbacks("Cancel", "finish")
                        ELSE UNCHANGED <<pc, after, callbacksCancelled>>
    /\ UNCHANGED <<cellState, observer, content, ready, paused,
                   runtimeClosed, notifications, tools, runtimeVars, events,
                   history>>

\* Mutant: a frontier observer of a running script does not wake it.
resumeForObservationPausedOnly(mode) ==
    /\ paused' = FALSE
    /\ rtControl' = IF paused
                    THEN ToRuntime(rtControl, IF mode = "YieldAfter"
                                              THEN "Continue" ELSE "Resume")
                    ELSE rtControl
    /\ UNCHANGED rtCommands

resumeForObservation(mode) ==
    /\ paused' = FALSE
    /\ rtControl' = IF paused
                    THEN ToRuntime(rtControl, IF mode = "YieldAfter"
                                              THEN "Continue" ELSE "Resume")
                    ELSE rtControl
    /\ rtCommands' = IF ~paused /\ mode = "PendingFrontier"
                     THEN ToRuntime(rtCommands, "ObservePendingFrontier")
                     ELSE rtCommands

\* An observation of a running cell.
AdmitObserver(c) ==
    \/ /\ Alive(observer) \/ termination
       /\ Tell({c}, Reply("Busy"))
       /\ UNCHANGED <<observer, content, ready, paused, timer, queueVars,
                      told>>
    \/ /\ ~Alive(observer) /\ ~termination
       /\ client[c].mode = "PendingFrontier" /\ ready
       /\ Tell({c}, Reply("Pending"))
       /\ observer' = None /\ ready' = FALSE /\ content' = <<>>
       /\ timer' = IF observer = None THEN timer ELSE FALSE
       /\ told' = told \o content
       /\ UNCHANGED <<paused, queueVars>>
    \/ /\ ~Alive(observer) /\ ~termination
       /\ ~(client[c].mode = "PendingFrontier" /\ ready)
       /\ observer' = c
       /\ timer' = (client[c].mode = "YieldAfter")
       /\ ready' = (ready /\ ~paused)
       /\ resumeForObservation(client[c].mode)
       /\ UNCHANGED <<client, content, told>>

\* The second branch: a command.
ReceiveCommand ==
    /\ pc = "loop" /\ open /\ commands # <<>>
    /\ commands' = Tail(commands)
    /\ LET c == Head(commands) IN
       \/ /\ ~Alive(c)
          /\ UNCHANGED <<phase, cancelled, client, observer, content, ready,
                         paused, timer, pc, queueVars, told>>
       \/ /\ Alive(c) /\ phase = "Running"
          /\ AdmitObserver(c)
          /\ UNCHANGED <<phase, cancelled, pc>>
       \/ /\ Alive(c) /\ phase = "Completed"
          /\ Tell({c}, event)
          /\ phase' = "Tombstone" /\ cancelled' = TRUE /\ pc' = "tail"
          /\ UNCHANGED <<observer, content, ready, paused, timer, queueVars,
                         told>>
       \/ /\ Alive(c)
          /\ phase \in {"Terminating", "CompletionClaimed", "Tombstone"}
          /\ Tell({c}, Reply("Closed"))
          /\ UNCHANGED <<phase, cancelled, observer, content, ready, paused,
                         timer, pc, queueVars, told>>
    /\ UNCHANGED <<responder, event, stored, open, termination,
                   runtimeClosed, after, callbackVars, runtimeVars, events,
                   received>>

\* Mutant: what a vanished observer was sent is not put back.
yieldObserverLossy ==
    /\ Tell({observer}, Reply("Yielded"))
    /\ told' = IF Alive(observer) THEN told \o content ELSE told
    /\ content' = <<>>
    /\ observer' = None

\* send_observer_event and restore_undelivered_yield.
yieldObserver ==
    /\ Tell({observer}, Reply("Yielded"))
    /\ told' = IF Alive(observer) THEN told \o content ELSE told
    /\ content' = IF Alive(observer) THEN <<>> ELSE content
    /\ observer' = None

\* The third branch: the yield timer.
TimerFires ==
    /\ pc = "loop" /\ timer
    /\ timer' = FALSE
    /\ yieldObserver
    /\ UNCHANGED <<cellState, cancelled, commands, open, ready, paused,
                   controlVars, callbackVars, threadVars, received>>

\* The fourth branch: an event of the V8 thread.
TakeEvent(e) ==
    /\ pc = "loop" /\ ~runtimeClosed
    /\ events # <<>> /\ Head(events) = e
    /\ events' = Tail(events)

\* Mutant: the yield timer of the first observer is never armed.
ReceiveStartedUntimed ==
    /\ TakeEvent("Started")
    /\ UNCHANGED <<cellState, cancelled, clientVars, actorVars, callbackVars,
                   runtimeVars, queueVars, history>>

ReceiveStarted ==
    /\ TakeEvent("Started")
    /\ timer' = ObserverMode("YieldAfter")
    /\ UNCHANGED <<cellState, cancelled, clientVars, observer, content,
                   ready, paused, controlVars, callbackVars, runtimeVars,
                   queueVars, history>>

ReceivePending ==
    /\ TakeEvent("Pending")
    /\ \/ /\ ObserverMode("PendingFrontier")
          /\ paused' = TRUE /\ timer' = FALSE /\ observer' = None
          /\ Tell({observer}, Reply("Pending"))
          /\ ready' = ~Alive(observer)
          /\ told' = IF Alive(observer) THEN told \o content ELSE told
          /\ content' = IF Alive(observer) THEN <<>> ELSE content
          /\ UNCHANGED rtControl
       \/ /\ ~ObserverMode("PendingFrontier")
          /\ rtControl' = ToRuntime(rtControl, "Continue")
          /\ paused' = FALSE
          /\ UNCHANGED <<client, observer, content, ready, timer, told>>
    /\ UNCHANGED <<cellState, cancelled, commands, open, controlVars,
                   callbackVars, runtimeVars, rtCommands, received>>

ReceiveContentItem ==
    /\ TakeEvent("ContentItem")
    /\ received' = received + 1
    /\ content' = Append(content, received')
    /\ UNCHANGED <<cellState, cancelled, clientVars, observer, ready, paused,
                   timer, controlVars, callbackVars, runtimeVars, queueVars,
                   told>>

ReceiveYieldRequested ==
    /\ TakeEvent("YieldRequested")
    /\ IF ObserverMode("YieldAfter")
       THEN timer' = FALSE /\ yieldObserver
       ELSE UNCHANGED <<client, observer, content, timer, told>>
    /\ UNCHANGED <<cellState, cancelled, commands, open, ready, paused,
                   controlVars, callbackVars, runtimeVars, queueVars,
                   received>>

ReceiveCallback ==
    /\ \/ TakeEvent("Notify") /\ notifications' = notifications + 1
                              /\ UNCHANGED tools
       \/ TakeEvent("ToolCall") /\ tools' = tools + 1
                                /\ UNCHANGED notifications
    /\ UNCHANGED <<cellState, cancelled, clientVars, actorVars,
                   callbacksCancelled, runtimeVars, queueVars, history>>

ReceiveThreadPanicked ==
    /\ TakeEvent("ThreadPanicked")
    /\ UNCHANGED <<cellState, cancelled, clientVars, actorVars, callbackVars,
                   runtimeVars, queueVars, history>>

\* A result, or the channel of an ended thread: the callbacks are drained.
RuntimeCloses ==
    /\ runtimeClosed' = TRUE
    /\ IF termination \/ cancelled
       THEN FinishCallbacks("Cancel", "finish")
       ELSE FinishCallbacks("DrainNotifications", "commit")
    /\ UNCHANGED <<cellState, cancelled, clientVars, observer, content,
                   ready, paused, termination, notifications, tools,
                   runtimeVars, queueVars, history>>

ReceiveResult == TakeEvent("Result") /\ timer' = FALSE /\ RuntimeCloses

ReceiveEnd ==
    /\ pc = "loop" /\ ~runtimeClosed
    /\ events = <<>> /\ rt = "gone"
    /\ RuntimeCloses
    /\ UNCHANGED <<timer, events>>

DrainNotifications ==
    /\ pc = "drainNotifications" /\ notifications = 0
    /\ callbacksCancelled' = TRUE
    /\ pc' = "drainTools"
    /\ UNCHANGED <<cellState, cancelled, clientVars, observer, content,
                   ready, paused, timer, termination, runtimeClosed, after,
                   notifications, tools, threadVars, history>>

DrainTools ==
    /\ pc = "drainTools" /\ tools = 0
    /\ pc' = after
    /\ UNCHANGED <<cellState, cancelled, clientVars, observer, content,
                   ready, paused, timer, termination, runtimeClosed, after,
                   callbackVars, threadVars, history>>

\* commit_completion. A rejected event stays in content.
CommitCompletion ==
    /\ pc = "commit"
    /\ IF phase = "Running" /\ ~cancelled
       THEN /\ phase' = "Completed" /\ event' = Outcome("Completed", content)
            /\ stored' = TRUE /\ content' = <<>>
       ELSE UNCHANGED <<phase, event, stored, content>>
    /\ pc' = "deliver"
    /\ UNCHANGED <<responder, cancelled, clientVars, observer, ready, paused,
                   timer, termination, runtimeClosed, after, callbackVars,
                   threadVars, history>>

\* deliver_completion: between the commit and it a terminate may claim.
DeliverCompletion ==
    /\ pc = "deliver"
    /\ \/ /\ phase = "Completed" /\ Alive(observer)
          /\ Tell({observer}, event)
          /\ phase' = "Tombstone" /\ cancelled' = TRUE /\ observer' = None
          /\ pc' = "tail"
       \/ /\ phase = "Completed" /\ ~Alive(observer)
          /\ observer' = None /\ pc' = "loop"
          /\ UNCHANGED <<phase, cancelled, client>>
       \/ /\ phase # "Completed"
          /\ pc' = "finish"
          /\ UNCHANGED <<phase, cancelled, client, observer>>
    /\ UNCHANGED <<responder, event, stored, commands, open, content, ready,
                   paused, timer, termination, runtimeClosed, after,
                   callbackVars, threadVars, history>>

\* Mutant: a claimed completion is reported as a termination.
FinishTerminationAlways ==
    /\ pc = "finish"
    /\ Tell({observer, responder}, Outcome("Terminated", content))
    /\ phase' = "Tombstone" /\ cancelled' = TRUE /\ content' = <<>>
    /\ responder' = None /\ observer' = None /\ pc' = "tail"
    /\ UNCHANGED <<event, stored, commands, open, ready, paused, timer,
                   termination, runtimeClosed, after, callbackVars,
                   threadVars, history>>

\* finish_termination.
FinishTermination ==
    /\ pc = "finish"
    /\ Tell(IF phase = "Tombstone" THEN {} ELSE {observer, responder},
            IF phase \in {"Completed", "CompletionClaimed"}
            THEN event ELSE Outcome("Terminated", content))
    /\ phase' = "Tombstone" /\ cancelled' = TRUE /\ content' = <<>>
    /\ responder' = None /\ observer' = None /\ pc' = "tail"
    /\ UNCHANGED <<event, stored, commands, open, ready, paused, timer,
                   termination, runtimeClosed, after, callbackVars,
                   threadVars, history>>

\* Mutant: the queue of commands is left open when the loop ends.
TailKeepsCommands ==
    /\ pc = "tail"
    /\ phase' = "Tombstone"
    /\ beginTermination
    /\ FinishCallbacks("Cancel", "closing")
    /\ UNCHANGED <<responder, event, stored, clientVars, observer, content,
                   ready, paused, timer, termination, runtimeClosed,
                   notifications, tools, runtimeVars, events, history>>

\* After the loop.
Tail_ ==
    /\ pc = "tail"
    /\ phase' = "Tombstone"
    /\ DropCommands
    /\ beginTermination
    /\ FinishCallbacks("Cancel", "closing")
    /\ UNCHANGED <<responder, event, stored, observer, content, ready,
                   paused, timer, termination, runtimeClosed, notifications,
                   tools, runtimeVars, events, history>>

\* host.closed: the session forgets the cell.
Closed ==
    /\ pc = "closing"
    /\ pc' = "closed"
    /\ UNCHANGED <<cellState, cancelled, clientVars, observer, content,
                   ready, paused, timer, termination, runtimeClosed, after,
                   callbackVars, threadVars, history>>

-----------------------------------------------------------------------------
ActorStep ==
    \/ Cancelled \/ ReceiveCommand \/ TimerFires
    \/ ReceiveStarted \/ ReceivePending \/ ReceiveContentItem
    \/ ReceiveYieldRequested \/ ReceiveCallback \/ ReceiveThreadPanicked
    \/ ReceiveResult \/ ReceiveEnd
    \/ DrainNotifications \/ DrainTools
    \/ CommitCompletion \/ DeliverCompletion \/ FinishTermination
    \/ Tail_ \/ Closed

RuntimeStep ==
    \/ Started \/ ScriptOutputs \/ ScriptEnds \/ ThreadPanics
    \/ \E e \in {"YieldRequested", "Notify", "ToolCall"} : ScriptCalls(e)
    \/ NextRuntimeCommand

CallbackStep == NotificationEnds \/ ToolEnds

ClientStep ==
    \/ \E c \in Observers : Observe(c) \/ SendObserve(c)
    \/ \E c \in Impatient : DropObservation(c)
    \/ \E c \in Terminators : RequestTermination(c)
    \/ BeginShutdown

Next == ActorStep \/ RuntimeStep \/ CallbackStep \/ ClientStep

Spec == Init /\ [][Next]_vars

(***************************************************************************)
(* The actor is a task of the runtime and always runs on. The script may   *)
(* run for ever, and a callback may hang, until it is told to stop: then   *)
(* terminate_execution ends the script, and the host is to forward the     *)
(* cancellation to the callback (CellHost, types.rs:36).                   *)
(***************************************************************************)
Fairness ==
    /\ WF_vars(ActorStep)
    /\ WF_vars(Started)
    /\ WF_vars(termination /\ (NextRuntimeCommand \/ ScriptEnds))
    /\ WF_vars((cancelled \/ callbacksCancelled) /\ CallbackStep)

FairSpec == Spec /\ Fairness

-----------------------------------------------------------------------------
\* The types of the state; there is somebody to answer exactly while the cell
\* terminates, and an event to deliver once it has completed.
TypeOK ==
    /\ phase \in {"Running", "Terminating", "Completed",
                  "CompletionClaimed", "Tombstone"}
    /\ responder \in Terminators \cup {None}
    /\ (responder # None) <=> (phase = "Terminating")
    /\ event \in Terminal \cup {None}
    /\ phase \in {"Completed", "CompletionClaimed"} => event # None
    /\ client \in [Clients ->
           [at : {"idle", "admitted", "waiting", "answered", "dropped"},
            mode : Modes \cup {None}, answer : Answers \cup {None}]]
    /\ commands \in Seq(Observers)
    /\ observer \in Observers \cup {None}
    /\ content \in Items /\ told \in Items
    /\ received \in 0..MaxItems
    /\ made \in [items : 0..MaxItems, calls : 0..MaxCalls]
    /\ notifications + tools \in 0..MaxCalls
    /\ {cancelled, stored, open, ready, paused, timer, termination,
        runtimeClosed, callbacksCancelled} \subseteq BOOLEAN
    /\ pc \in {"loop", "drainNotifications", "drainTools", "commit",
               "deliver", "finish", "tail", "closing", "closed"}
    /\ after \in {None, "commit", "finish", "closing"}
    /\ rt \in {"starting", "executing", "polling", "paused", "waiting",
               "gone"}
    /\ events \in Seq({"Started", "Pending", "ContentItem",
                       "YieldRequested", "Notify", "ToolCall", "Result",
                       "ThreadPanicked"})
    /\ rtCommands \in Seq({"ToolResponse", "ObservePendingFrontier",
                           "Terminate"})
    /\ rtControl \in Seq({"Continue", "Resume", "Terminate"})

Outcomes == {client[c].answer : c \in Clients} \cap Terminal

(***************************************************************************)
(* A cell has one outcome. A terminate, a shutdown, the end of the script  *)
(* and the drain of the callbacks race, the observer and the terminate     *)
(* call are answered by different code at different times, and still all   *)
(* who are told an outcome are told the same one, with the same content;   *)
(* and Completed is told exactly if the stored values were written.        *)
(***************************************************************************)
OneOutcome ==
    /\ Cardinality(Outcomes) <= 1
    /\ \A outcome \in Outcomes : (outcome.kind = "Completed") <=> stored

Numbered(n) == [i \in 1..n |-> i]

Held == IF phase \in {"Completed", "CompletionClaimed"} THEN event.items
                                                       ELSE content

(***************************************************************************)
(* No output of the script is lost, repeated or reordered on its way       *)
(* through yields, frontiers, observers that vanish and a completion that  *)
(* is rejected: what observers were sent, followed by what is held or by   *)
(* what the outcome carries, is what the actor received.                   *)
(***************************************************************************)
ContentConserved ==
    /\ phase # "Tombstone" => told \o Held = Numbered(received)
    /\ \A outcome \in Outcomes :
          told \o outcome.items = Numbered(received)

(***************************************************************************)
(* The actor and the V8 thread do not wait for each other: while somebody  *)
(* observes, a paused thread has an answer to its pause on the way, and    *)
(* one that waits for a command has one if the observer wants a frontier   *)
(* (next_runtime_command and resume_for_observation).                      *)
(***************************************************************************)
ObserverDrivesScript ==
    Alive(observer) /\ ~termination =>
        /\ rt = "paused" => rtControl # <<>> \/ "Pending" \in ToSet(events)
        /\ rt = "waiting" /\ client[observer].mode = "PendingFrontier"
              => rtCommands # <<>>

(***************************************************************************)
(* When the session is told that the cell is closed nothing of it is left: *)
(* the V8 thread has sent its result or panicked (nobody waits for the     *)
(* thread itself to exit), no callback runs, and no call waits.            *)
(***************************************************************************)
NothingLeftOpen ==
    pc = "closed" =>
        /\ rt = "gone" /\ notifications = 0 /\ tools = 0
        /\ \A c \in Clients : ~Alive(c)

(***************************************************************************)
(* A terminate call that is accepted while the cell runs is answered, and  *)
(* with Terminated, even if the script loops for ever and callbacks hang.  *)
(***************************************************************************)
TerminationAnswered ==
    phase = "Terminating" ~>
        \E c \in Terminators : client[c].answer \in Outcomes
                              /\ client[c].answer.kind = "Terminated"

(***************************************************************************)
(* An observation with a yield time is answered, or its client goes away,  *)
(* whatever the script does. The one thing that holds it up is a           *)
(* notification that hangs after the end of the script: the drain of the   *)
(* notifications does not look at the yield timer.                         *)
(***************************************************************************)
YieldAnswered ==
    \A c \in Observers :
        (client[c].at = "waiting" /\ client[c].mode = "YieldAfter")
            ~> \/ client[c].at # "waiting"
               \/ pc = "drainNotifications" /\ notifications > 0

\* A cell that is cancelled gets closed, so the shutdown of a session ends.
ShutdownCompletes == cancelled ~> pc = "closed"
=============================================================================
