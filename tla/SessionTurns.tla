---------------------------- MODULE SessionTurns ----------------------------
(***************************************************************************)
(* The turn lifecycle of one session (core/src/session, core/src/tasks):   *)
(* the submission loop, the client that steers the running turn, injected  *)
(* items, idle work started by extensions, the guardian that aborts a      *)
(* turn, and the spawned tasks, all sharing the active-turn mutex, the     *)
(* turn-local pending input and the session mailbox.                       *)
(*                                                                         *)
(* A step is the code between two points where another task can run: one   *)
(* critical section of the active-turn mutex, one of the turn state, one   *)
(* of the mailbox, or the awaits around a model request.                   *)
(***************************************************************************)
EXTENDS Integers, Sequences, FiniteSets, SequencesExt

CONSTANTS
    Inputs,         \* user inputs, each sent at most once
    Mails,          \* inter-agent communications, each sent at most once
    Triggers,       \* the mails marked trigger_turn
    Starters,       \* actors that start or abort turns; a subset of {"loop", "ext", "guardian"}
    Injects,        \* items that other components inject
    MaxTurns,       \* bound: turns started
    MaxStates,      \* bound: TurnState objects allocated
    MaxCommands,    \* bound: interrupts, compactions, reviews, shutdowns, guardian aborts
    MaxFollowUps    \* bound: model requests per turn that ask for a follow-up

ASSUME SetsAssumption ==
    /\ Triggers \subseteq Mails
    /\ Inputs \cap Mails = {} /\ Inputs \cap Injects = {} /\ Mails \cap Injects = {}
    /\ Starters \subseteq {"loop", "ext", "guardian"}
ASSUME BoundsAssumption ==
    /\ MaxTurns \in Nat \ {0}
    /\ MaxStates \in Nat \ {0}
    /\ MaxCommands \in Nat
    /\ MaxFollowUps \in Nat

Items == Inputs \cup Mails \cup Injects
Turns == 1 .. MaxTurns
States == 1 .. MaxStates
None == 0      \* no task, no turn state

VARIABLES
    active,      \* Session::active_turn: the turn state and its task
    pending,     \* TurnState::pending_input of every turn state
    phase,       \* TurnState::mailbox_delivery_phase
    allocated,   \* turn states allocated so far
    mailbox,     \* InputQueue::mailbox_pending_mails
    task,        \* the spawned task of every turn
    actor,       \* what each starter is executing
    history,     \* the conversation items recorded
    terminal,    \* TurnComplete/TurnAborted events sent for each turn
    fate,        \* what became of every item: one of Fates
    commands,    \* counts the operations bounded by MaxCommands
    asserts      \* the debug_assert!(turn.task.is_none()) of start_task held

vars == <<active, pending, phase, allocated, mailbox, task, actor, history,
          terminal, fate, commands, asserts>>

NoTurn == [state |-> None, task |-> None]
NoTask == [pc |-> "unborn", kind |-> "regular", buf |-> <<>>, follow |-> FALSE,
           verdict |-> "none", cancelled |-> FALSE, state |-> None, used |-> 0]
IdleActor == [pc |-> "idle", reason |-> "none", victim |-> None, vstate |-> None,
              state |-> None, kind |-> "regular", input |-> <<>>, buf |-> <<>>,
              exiting |-> FALSE]

TaskSteps == {"unborn", "start", "drain", "drain_mail", "record", "sample", "post",
              "exit", "finish", "take", "flush", "flush_record", "terminal", "release",
              "done", "killed"}
ActorSteps == {"idle", "abort", "kill", "event", "clear", "maybe", "reserve",
               "get_turn", "get_mail", "insert", "extend", "install",
               "ext_reserve", "ext_recheck", "ext_confirm", "ext_clear", "ext_extend",
               "stopped"}

\* "offered": held by try_start_turn_if_idle, which has not answered yet;
\* "blocked": stopped by a user-prompt hook; "aborted": lost with an aborted
\* turn, or with a run_turn that failed before it recorded its input.
Fates == {"unsent", "offered", "accepted", "refused", "blocked", "aborted"}

\* A task that still runs its turn, before on_task_finished.
Running(t) == task[t].pc \in {"start", "drain", "drain_mail", "record", "sample",
                              "post", "exit", "finish"}

TypeOK ==
    /\ active \in [state : States \cup {None}, task : Turns \cup {None}]
    /\ active.state = None => active.task = None
    /\ pending \in [States -> Seq(Items)]
    /\ phase \in [States -> {"current", "next"}]
    /\ allocated \in 0 .. MaxStates
    /\ mailbox \in Seq(Mails)
    /\ task \in [Turns -> [pc : TaskSteps, kind : {"regular", "other"}, buf : Seq(Items),
                           follow : BOOLEAN, verdict : {"none", "blocked", "accepted"},
                           cancelled : BOOLEAN, state : States \cup {None},
                           used : 0 .. MaxFollowUps]]
    /\ actor \in [Starters -> [pc : ActorSteps, reason : {"none", "Replaced", "Interrupted"},
                               victim : Turns \cup {None}, vstate : States \cup {None},
                               state : States \cup {None}, kind : {"regular", "other"},
                               input : Seq(Items), buf : Seq(Items),
                               exiting : BOOLEAN]]
    /\ history \in Seq(Items)
    /\ terminal \in [Turns -> Nat]
    /\ fate \in [Items -> Fates]
    /\ commands \in 0 .. MaxCommands
    /\ asserts \in BOOLEAN

Init ==
    /\ active = NoTurn
    /\ pending = [s \in States |-> <<>>]
    /\ phase = [s \in States |-> "current"]
    /\ allocated = 0
    /\ mailbox = <<>>
    /\ task = [t \in Turns |-> NoTask]
    /\ actor = [a \in Starters |-> IdleActor]
    /\ history = <<>>
    /\ terminal = [t \in Turns |-> 0]
    /\ fate = [i \in Items |-> "unsent"]
    /\ commands = 0
    /\ asserts = TRUE

-----------------------------------------------------------------------------
(* The bounds: an operation begins only when the turn it may start, and the
   four turn states it may allocate at most, fit (an extension's reservation,
   one for pending work, one in start_task and one more when it is lost). *)

Born == {t \in Turns : task[t].pc # "unborn"}
Busy == {a \in Starters : actor[a].pc \notin {"idle", "stopped"}}
RoomForTurn ==
    /\ Cardinality(Born) + Cardinality(Busy) < MaxTurns
    /\ allocated + 4 * (Cardinality(Busy) + 1) <= MaxStates
NewTurn == CHOOSE t \in Turns : t \notin Born

-----------------------------------------------------------------------------
(* Shared pieces *)

Goto(a, pc) == actor' = [actor EXCEPT ![a].pc = pc]
Return(a) == actor' = [actor EXCEPT ![a] =
                 IF actor[a].exiting THEN [IdleActor EXCEPT !.pc = "stopped"] ELSE IdleActor]
Begin(a, start) == actor' = [actor EXCEPT ![a] = start]

\* The items a dropped queue or a killed future takes with it.
Abandon(items) == fate' = [i \in Items |-> IF i \in items THEN "aborted" ELSE fate[i]]

HasTriggerMail == \E i \in 1 .. Len(mailbox) : mailbox[i] \in Triggers

\* get_or_insert_with(ActiveTurn::default), the task of the turn left alone.
GetOrInsert ==
    IF active = NoTurn
      THEN /\ active' = [state |-> allocated + 1, task |-> None]
           /\ allocated' = allocated + 1
      ELSE UNCHANGED <<active, allocated>>

\* InputQueue::has_pending_input: the turn's own items, then the mailbox if the
\* active turn, or its absence, lets mail in.
HasPendingInput ==
    IF active = NoTurn
      THEN mailbox # <<>>
      ELSE \/ pending[active.state] # <<>>
           \/ phase[active.state] = "current" /\ mailbox # <<>>

-----------------------------------------------------------------------------
(* Client operations on the active turn; each is one critical section *)

\* A turn is running and takes more input: Regular, not Review or Compact.
Steerable == active.task # None /\ task[active.task].kind = "regular"

\* Session::steer_input on the running regular turn.
SteerActive(i) ==
    /\ Steerable
    /\ pending' = [pending EXCEPT ![active.state] = Append(@, i)]
    /\ phase' = [phase EXCEPT ![active.state] = "current"]
    /\ fate' = [fate EXCEPT ![i] = "accepted"]
    /\ UNCHANGED actor

Refuse(i) ==
    /\ fate' = [fate EXCEPT ![i] = "refused"]
    /\ UNCHANGED <<pending, phase, actor>>

\* turn/steer: refused unless a steerable turn is running.
Steer(i) ==
    /\ fate[i] = "unsent"
    /\ \/ SteerActive(i)
       \/ ~Steerable /\ Refuse(i)
    /\ UNCHANGED <<active, allocated, mailbox, task, history, terminal, commands, asserts>>

\* inject_no_new_turn: into the active turn, task or no task, else straight
\* into the conversation.
Inject(i) ==
    /\ fate[i] = "unsent"
    /\ fate' = [fate EXCEPT ![i] = "accepted"]
    /\ IF active # NoTurn
         THEN pending' = [pending EXCEPT ![active.state] = Append(@, i)] /\ UNCHANGED history
         ELSE history' = Append(history, i) /\ UNCHANGED pending
    /\ UNCHANGED <<active, phase, allocated, mailbox, task, actor, terminal, commands, asserts>>

-----------------------------------------------------------------------------
(* The submission loop takes the next operation when it is idle *)

LoopIdle == "loop" \in Starters /\ actor["loop"].pc = "idle"

\* user_input_or_turn: steer, or replace what is left of the previous turn.
UserInput(i) ==
    /\ LoopIdle /\ RoomForTurn
    /\ fate[i] = "unsent"
    /\ \/ SteerActive(i)
       \/ active.task # None /\ ~Steerable /\ Refuse(i)
       \/ /\ active.task = None
          /\ Begin("loop", [IdleActor EXCEPT !.pc = "abort", !.reason = "Replaced", !.input = <<i>>])
          /\ fate' = [fate EXCEPT ![i] = "accepted"]
          /\ UNCHANGED <<pending, phase>>
    /\ UNCHANGED <<active, allocated, mailbox, task, history, terminal, commands, asserts>>

\* compact, review: a task of a kind that cannot be steered.
StartOther ==
    /\ LoopIdle /\ RoomForTurn
    /\ commands < MaxCommands
    /\ commands' = commands + 1
    /\ Begin("loop", [IdleActor EXCEPT !.pc = "abort", !.reason = "Replaced", !.kind = "other"])
    /\ UNCHANGED <<active, pending, phase, allocated, mailbox, task, history, terminal, fate, asserts>>

\* abort_all_tasks(Interrupted); after a shutdown the loop ends.
AbortAll(exiting) ==
    /\ LoopIdle /\ RoomForTurn
    /\ commands < MaxCommands
    /\ commands' = commands + 1
    /\ Begin("loop", [IdleActor EXCEPT !.pc = "abort", !.reason = "Interrupted", !.exiting = exiting])
    /\ UNCHANGED <<active, pending, phase, allocated, mailbox, task, history, terminal, fate, asserts>>

Interrupt == AbortAll(FALSE)
Shutdown == AbortAll(TRUE)

\* inter_agent_communication: queue the mail, then wake an idle session.
Mail(m) ==
    /\ LoopIdle /\ RoomForTurn
    /\ fate[m] = "unsent"
    /\ fate' = [fate EXCEPT ![m] = "accepted"]
    /\ mailbox' = Append(mailbox, m)
    /\ IF m \in Triggers THEN Begin("loop", [IdleActor EXCEPT !.pc = "maybe"])
                         ELSE UNCHANGED actor
    /\ UNCHANGED <<active, pending, phase, allocated, task, history, terminal, commands, asserts>>

-----------------------------------------------------------------------------
(* abort_all_tasks and abort_turn_if_active *)

\* What remains to be done once the aborted turn has been dealt with.
AfterAbort(a, aborted) ==
    IF actor[a].reason = "Replaced" THEN Goto(a, "get_turn")
    ELSE IF aborted THEN Goto(a, "maybe")
    ELSE Return(a)

\* take_active_turn; a task found there is cancelled in the same step.
AbortTake(a) ==
    /\ actor[a].pc = "abort"
    /\ active' = NoTurn
    /\ IF active.task # None
         THEN /\ actor' = [actor EXCEPT ![a] = [@ EXCEPT !.pc = "kill", !.victim = active.task,
                                        !.vstate = active.state]]
              /\ task' = [task EXCEPT ![active.task].cancelled = TRUE]
         ELSE AfterAbort(a, FALSE) /\ UNCHANGED task
    /\ UNCHANGED <<pending, phase, allocated, mailbox, history, terminal, fate, commands, asserts>>

\* Mutant: the grace period ends without handle.abort().
AbortKillNever(a) ==
    /\ actor[a].pc = "kill"
    /\ Goto(a, "event")
    /\ UNCHANGED <<active, pending, phase, allocated, mailbox, task, history, terminal, fate, commands, asserts>>

\* Mutant: an aborted turn gets no TurnAborted event.
AbortKillSilent(a) ==
    /\ actor[a].pc = "kill"
    /\ task' = [task EXCEPT ![actor[a].victim] = [@ EXCEPT !.pc = "killed", !.buf = <<>>]]
    /\ Abandon(ToSet(task[actor[a].victim].buf))
    /\ Goto(a, "clear")
    /\ UNCHANGED <<active, pending, phase, allocated, mailbox, history, terminal, commands, asserts>>

\* The victim said it is done, or the grace period is over: handle.abort().
AbortKill(a) ==
    /\ actor[a].pc = "kill"
    /\ LET v == actor[a].victim IN
       IF task[v].pc \in {"done", "killed"}
         THEN UNCHANGED <<task, fate>>
         ELSE /\ task' = [task EXCEPT ![v] = [@ EXCEPT !.pc = "killed", !.buf = <<>>]]
              /\ Abandon(ToSet(task[v].buf))
    /\ Goto(a, "event")
    /\ UNCHANGED <<active, pending, phase, allocated, mailbox, history, terminal, commands, asserts>>

AbortEvent(a) ==
    /\ actor[a].pc = "event"
    /\ terminal' = [terminal EXCEPT ![actor[a].victim] = @ + 1]
    /\ Goto(a, "clear")
    /\ UNCHANGED <<active, pending, phase, allocated, mailbox, task, history, fate, commands, asserts>>

\* clear_pending of the aborted turn.
AbortClear(a) ==
    /\ actor[a].pc = "clear"
    /\ Abandon(ToSet(pending[actor[a].vstate]))
    /\ pending' = [pending EXCEPT ![actor[a].vstate] = <<>>]
    /\ AfterAbort(a, TRUE)
    /\ UNCHANGED <<active, phase, allocated, mailbox, task, history, terminal, commands, asserts>>

\* The guardian aborts the turn it reviewed, if that turn is still active.
GuardianAbort(t) ==
    /\ "guardian" \in Starters /\ actor["guardian"].pc = "idle" /\ RoomForTurn
    /\ commands < MaxCommands
    /\ commands' = commands + 1
    /\ active.task = t
    /\ active' = NoTurn
    /\ task' = [task EXCEPT ![t].cancelled = TRUE]
    /\ Begin("guardian", [IdleActor EXCEPT !.pc = "kill", !.reason = "Interrupted",
                                           !.victim = t, !.vstate = active.state])
    /\ UNCHANGED <<pending, phase, allocated, mailbox, history, terminal, fate, asserts>>

-----------------------------------------------------------------------------
(* maybe_start_turn_for_pending_work *)

MaybeStart(a) ==
    /\ actor[a].pc = "maybe"
    /\ IF HasTriggerMail THEN Goto(a, "reserve") ELSE Return(a)
    /\ UNCHANGED <<active, pending, phase, allocated, mailbox, task, history, terminal, fate, commands, asserts>>

Reserve(a) ==
    /\ actor[a].pc = "reserve"
    /\ IF active # NoTurn
         THEN Return(a) /\ UNCHANGED <<active, allocated>>
         ELSE GetOrInsert /\ Goto(a, "get_turn")
    /\ UNCHANGED <<pending, phase, mailbox, task, history, terminal, fate, commands, asserts>>

-----------------------------------------------------------------------------
(* start_task *)

\* get_pending_input, first half: the items of whatever turn is active now.
GetTurnInput(a) ==
    /\ actor[a].pc = "get_turn"
    /\ IF active = NoTurn
         THEN Goto(a, "get_mail") /\ UNCHANGED pending
         ELSE /\ actor' = [actor EXCEPT ![a] = [@ EXCEPT
                    !.pc = IF phase[active.state] = "current" THEN "get_mail" ELSE "insert",
                    !.buf = pending[active.state]]]
              /\ pending' = [pending EXCEPT ![active.state] = <<>>]
    /\ UNCHANGED <<active, phase, allocated, mailbox, task, history, terminal, fate, commands, asserts>>

\* get_pending_input, second half: drain_mailbox_input_items.
GetMail(a) ==
    /\ actor[a].pc = "get_mail"
    /\ actor' = [actor EXCEPT ![a] = [@ EXCEPT !.pc = "insert", !.buf = actor[a].buf \o mailbox]]
    /\ mailbox' = <<>>
    /\ UNCHANGED <<active, pending, phase, allocated, task, history, terminal, fate, commands, asserts>>

InsertTurn(a) ==
    /\ actor[a].pc = "insert"
    /\ GetOrInsert
    /\ asserts' = (asserts /\ active.task = None)
    /\ actor' = [actor EXCEPT ![a] = [@ EXCEPT !.pc = "extend", !.state = active'.state]]
    /\ UNCHANGED <<pending, phase, mailbox, task, history, terminal, fate, commands>>

ExtendPending(a) ==
    /\ actor[a].pc = "extend"
    /\ pending' = [pending EXCEPT ![actor[a].state] = @ \o actor[a].buf]
    /\ actor' = [actor EXCEPT ![a] = [@ EXCEPT !.pc = "install", !.buf = <<>>]]
    /\ UNCHANGED <<active, phase, allocated, mailbox, task, history, terminal, fate, commands, asserts>>

\* Spawn the task and store it in the active turn.  A RunningTask it replaces
\* is dropped, and its AbortOnDropHandle kills the task.
Install(a) ==
    /\ actor[a].pc = "install"
    /\ asserts' = (asserts /\ active.task = None)
    /\ LET t == NewTurn
           state == IF active = NoTurn THEN allocated + 1 ELSE active.state
           old == active.task
           born == [NoTask EXCEPT !.pc = "start", !.kind = actor[a].kind, !.buf = actor[a].input]
       IN /\ active' = [state |-> state, task |-> t]
          /\ IF old = None \/ task[old].pc \in {"done", "killed"}
               THEN task' = [task EXCEPT ![t] = born] /\ UNCHANGED fate
               ELSE /\ task' = [task EXCEPT ![t] = born,
                                           ![old] = [@ EXCEPT !.pc = "killed", !.buf = <<>>]]
                    /\ Abandon(ToSet(task[old].buf))
    /\ allocated' = IF active = NoTurn THEN allocated + 1 ELSE allocated
    /\ Return(a)
    /\ UNCHANGED <<pending, phase, mailbox, history, terminal, commands>>

-----------------------------------------------------------------------------
(* try_start_turn_if_idle, called by extensions *)

\* clear_reserved_idle_turn
ClearReserved(a) ==
    active' = IF active.task = None /\ active.state = actor[a].state THEN NoTurn ELSE active

\* Refused at once: trigger mail is queued, or the session is in Plan mode.
ExtCall(i) ==
    /\ "ext" \in Starters /\ actor["ext"].pc = "idle" /\ RoomForTurn
    /\ fate[i] = "unsent"
    /\ \/ fate' = [fate EXCEPT ![i] = "refused"] /\ UNCHANGED actor
       \/ /\ ~HasTriggerMail
          /\ fate' = [fate EXCEPT ![i] = "offered"]
          /\ Begin("ext", [IdleActor EXCEPT !.pc = "ext_reserve", !.input = <<i>>])
    /\ UNCHANGED <<active, pending, phase, allocated, mailbox, task, history, terminal, commands, asserts>>

ExtRefuse(a) == fate' = [fate EXCEPT ![actor[a].input[1]] = "refused"]

ExtReserve(a) ==
    /\ actor[a].pc = "ext_reserve"
    /\ IF active # NoTurn
         THEN Return(a) /\ ExtRefuse(a) /\ UNCHANGED <<active, allocated>>
         ELSE /\ GetOrInsert
              /\ actor' = [actor EXCEPT ![a] = [@ EXCEPT !.pc = "ext_recheck", !.state = active'.state]]
              /\ UNCHANGED fate
    /\ UNCHANGED <<pending, phase, mailbox, task, history, terminal, commands, asserts>>

\* Trigger mail, or Plan mode found in the new turn context: give the
\* reservation back and let the pending work have the turn.
ExtRecheck(a) ==
    /\ actor[a].pc = "ext_recheck"
    /\ \/ /\ ~HasTriggerMail
          /\ Goto(a, "ext_confirm")
          /\ UNCHANGED <<active, fate>>
       \/ /\ ClearReserved(a)
          /\ ExtRefuse(a)
          /\ Begin(a, [IdleActor EXCEPT !.pc = "maybe"])
    /\ UNCHANGED <<pending, phase, allocated, mailbox, task, history, terminal, commands, asserts>>

ExtConfirm(a) ==
    /\ actor[a].pc = "ext_confirm"
    /\ Goto(a, IF active.state = actor[a].state /\ active.task = None THEN "ext_extend" ELSE "ext_clear")
    /\ UNCHANGED <<active, pending, phase, allocated, mailbox, task, history, terminal, fate,
                   commands, asserts>>

\* The reservation was lost: Busy.
ExtClear(a) ==
    /\ actor[a].pc = "ext_clear"
    /\ ClearReserved(a)
    /\ Return(a) /\ ExtRefuse(a)
    /\ UNCHANGED <<pending, phase, allocated, mailbox, task, history, terminal, commands, asserts>>

ExtExtend(a) ==
    /\ actor[a].pc = "ext_extend"
    /\ pending' = [pending EXCEPT ![actor[a].state] = @ \o actor[a].input]
    /\ fate' = [fate EXCEPT ![actor[a].input[1]] = "accepted"]
    /\ actor' = [actor EXCEPT ![a] = [@ EXCEPT !.pc = "get_turn", !.input = <<>>]]
    /\ UNCHANGED <<active, phase, allocated, mailbox, task, history, terminal, commands, asserts>>

-----------------------------------------------------------------------------
(* The spawned task: RegularTask::run, run_turn, and what the spawn site adds *)

Become(t, pc) == task' = [task EXCEPT ![t].pc = pc]

\* turn_state_for_sub_id: the turn state of t, if t is the active task.
IsActiveTask(t) == active.task = t

\* run_turn up to the input it was started with.  A fresh input is recorded and
\* sampled before pending input is drained.
TaskStart(t) ==
    /\ task[t].pc = "start"
    /\ Become(t, IF task[t].kind = "other" THEN "sample"
                 ELSE IF task[t].buf = <<>> THEN "drain" ELSE "record")
    /\ UNCHANGED <<active, pending, phase, allocated, mailbox, actor, history, terminal, fate, commands, asserts>>

\* The prewarmed session, the compaction before the first request, the skills or
\* the session-start hooks end run_turn before the input is recorded.
TaskStartFails(t) ==
    /\ task[t].pc = "start" /\ task[t].kind = "regular"
    /\ task[t].used < MaxFollowUps
    /\ \E next \in {"exit"} \cup (IF task[t].cancelled THEN {"finish"} ELSE {}) :
          task' = [task EXCEPT ![t] = [@ EXCEPT !.pc = next, !.buf = <<>>,
                                                !.used = task[t].used + 1]]
    /\ Abandon(ToSet(task[t].buf))
    /\ UNCHANGED <<active, pending, phase, allocated, mailbox, actor, history, terminal, commands, asserts>>

\* Mutant: the pending items are copied, not taken.
TaskDrainCopies(t) ==
    /\ task[t].pc = "drain"
    /\ IF active = NoTurn
         THEN Become(t, "drain_mail")
         ELSE task' = [task EXCEPT ![t] = [@ EXCEPT
                 !.pc = IF phase[active.state] = "current" THEN "drain_mail" ELSE "record",
                 !.buf = pending[active.state]]]
    /\ UNCHANGED <<active, pending, phase, allocated, mailbox, actor, history, terminal, fate, commands, asserts>>

\* get_pending_input in run_turn, on whatever turn the session has active.
TaskDrain(t) ==
    /\ task[t].pc = "drain"
    /\ IF active = NoTurn
         THEN Become(t, "drain_mail") /\ UNCHANGED pending
         ELSE /\ task' = [task EXCEPT ![t] = [@ EXCEPT
                    !.pc = IF phase[active.state] = "current" THEN "drain_mail" ELSE "record",
                    !.buf = pending[active.state]]]
              /\ pending' = [pending EXCEPT ![active.state] = <<>>]
    /\ UNCHANGED <<active, phase, allocated, mailbox, actor, history, terminal, fate, commands, asserts>>

TaskDrainMail(t) ==
    /\ task[t].pc = "drain_mail"
    /\ task' = [task EXCEPT ![t] = [@ EXCEPT !.pc = "record", !.buf = task[t].buf \o mailbox]]
    /\ mailbox' = <<>>
    /\ UNCHANGED <<active, pending, phase, allocated, actor, history, terminal, fate, commands, asserts>>

\* One item: inspect_pending_input, which blocks nothing but user input, then
\* record_pending_input.
RecordHead(t) ==
    LET i == Head(task[t].buf)
        rest == Tail(task[t].buf)
        old == task[t].verdict
    IN /\ task[t].buf # <<>>
       /\ \/ /\ history' = Append(history, i)
             /\ task' = [task EXCEPT ![t] = [@ EXCEPT !.buf = rest,
                            !.verdict = IF i \in Inputs THEN "accepted" ELSE old]]
             /\ UNCHANGED fate
          \/ /\ i \in Inputs
             /\ fate' = [fate EXCEPT ![i] = "blocked"]
             /\ task' = [task EXCEPT ![t] = [@ EXCEPT !.buf = rest,
                            !.verdict = IF old = "accepted" THEN old ELSE "blocked"]]
             /\ UNCHANGED history

\* run_hooks_and_record_inputs: blocked input with no accepted user input beside
\* it ends run_turn.
TaskRecord(t) ==
    /\ task[t].pc = "record"
    /\ \/ RecordHead(t)
       \/ /\ task[t].buf = <<>>
          /\ task' = [task EXCEPT ![t] = [@ EXCEPT !.verdict = "none",
                         !.pc = IF task[t].verdict = "blocked" THEN "exit" ELSE "sample"]]
          /\ UNCHANGED <<history, fate>>
    /\ UNCHANGED <<active, pending, phase, allocated, mailbox, actor, terminal, commands, asserts>>

\* A tool call reopens the turn to mail and asks for a follow-up request.
SampleTool(t) ==
    /\ task[t].pc = "sample" /\ task[t].kind = "regular"
    /\ task[t].used < MaxFollowUps
    /\ task' = [task EXCEPT ![t] = [@ EXCEPT !.pc = "post", !.follow = TRUE,
                                                    !.used = task[t].used + 1]]
    /\ phase' = IF IsActiveTask(t) THEN [phase EXCEPT ![active.state] = "current"] ELSE phase
    /\ UNCHANGED <<active, pending, allocated, mailbox, actor, history, terminal, fate, commands, asserts>>

\* A visible final answer closes the turn to mail, unless input is waiting.
SampleFinal(t) ==
    /\ task[t].pc = "sample" /\ task[t].kind = "regular"
    /\ task' = [task EXCEPT ![t] = [@ EXCEPT !.pc = "post", !.follow = FALSE]]
    /\ phase' = IF IsActiveTask(t) /\ pending[active.state] = <<>>
                  THEN [phase EXCEPT ![active.state] = "next"] ELSE phase
    /\ UNCHANGED <<active, pending, allocated, mailbox, actor, history, terminal, fate, commands, asserts>>

\* Nothing visible was answered, the request failed, or the work of a compact
\* or review task is over; a cancelled request ends the task with TurnAborted.
SampleOther(t) ==
    /\ task[t].pc = "sample"
    /\ \E next \in (IF task[t].kind = "other" THEN {"finish"} ELSE {"post", "exit"})
                   \cup (IF task[t].cancelled THEN {"finish"} ELSE {}) :
          task' = [task EXCEPT ![t] = [@ EXCEPT !.pc = next, !.follow = FALSE]]
    /\ UNCHANGED <<active, pending, phase, allocated, mailbox, actor, history, terminal, fate, commands, asserts>>

\* After the request: follow up, compact and follow up (pending input then
\* waits for the model's continuation), stop, or a stop hook goes on.
TaskPost(t) ==
    /\ task[t].pc = "post"
    /\ \/ /\ task[t].follow \/ HasPendingInput
          /\ \E next \in {"drain", "exit"} \cup (IF task[t].follow THEN {"sample"} ELSE {}) :
                Become(t, next)
       \/ /\ ~task[t].follow /\ ~HasPendingInput
          /\ \/ Become(t, "exit")
             \/ /\ task[t].used < MaxFollowUps
                /\ task' = [task EXCEPT ![t] = [@ EXCEPT !.pc = "drain", !.used = task[t].used + 1]]
    /\ UNCHANGED <<active, pending, phase, allocated, mailbox, actor, history, terminal, fate, commands, asserts>>

\* RegularTask::run goes round again while input is pending.
TaskExit(t) ==
    /\ task[t].pc = "exit"
    /\ Become(t, IF HasPendingInput THEN "start" ELSE "finish")
    /\ UNCHANGED <<active, pending, phase, allocated, mailbox, actor, history, terminal, fate, commands, asserts>>

\* The spawn site: a cancelled task leaves the rest to whoever cancelled it.
TaskFinish(t) ==
    /\ task[t].pc = "finish"
    /\ Become(t, IF task[t].cancelled THEN "done" ELSE "take")
    /\ UNCHANGED <<active, pending, phase, allocated, mailbox, actor, history, terminal, fate, commands, asserts>>

\* Mutant: the finished task is left in the active turn.
FinishTakeLeaves(t) ==
    /\ task[t].pc = "take"
    /\ IF active.task = None
         THEN Become(t, "done")
         ELSE task' = [task EXCEPT ![t] = [@ EXCEPT !.pc = "flush", !.state = active.state]]
    /\ UNCHANGED <<active, pending, phase, allocated, mailbox, actor, history, terminal, fate, commands, asserts>>

\* on_task_finished takes the task of the active turn, whichever it is, and
\* detaches its handle.
FinishTake(t) ==
    /\ task[t].pc = "take"
    /\ IF active.task = None
         THEN Become(t, "done") /\ UNCHANGED active
         ELSE /\ task' = [task EXCEPT ![t] = [@ EXCEPT !.pc = "flush", !.state = active.state]]
              /\ active' = [active EXCEPT !.task = None]
    /\ UNCHANGED <<pending, phase, allocated, mailbox, actor, history, terminal, fate, commands, asserts>>

\* Mutant: what is still pending when the task ends is dropped.
FinishFlushDrops(t) ==
    /\ task[t].pc = "flush"
    /\ pending' = [pending EXCEPT ![task[t].state] = <<>>]
    /\ Become(t, "terminal")
    /\ UNCHANGED <<active, phase, allocated, mailbox, actor, history, terminal, fate, commands, asserts>>

\* Input that came too late for a request is taken out of the turn ...
FinishFlush(t) ==
    /\ task[t].pc = "flush"
    /\ task' = [task EXCEPT ![t] = [@ EXCEPT !.pc = "flush_record",
                                              !.buf = pending[task[t].state]]]
    /\ pending' = [pending EXCEPT ![task[t].state] = <<>>]
    /\ UNCHANGED <<active, phase, allocated, mailbox, actor, history, terminal, fate, commands, asserts>>

\* ... and still recorded, unless a hook blocks it.
FinishRecord(t) ==
    /\ task[t].pc = "flush_record"
    /\ \/ RecordHead(t)
       \/ task[t].buf = <<>> /\ Become(t, "terminal") /\ UNCHANGED <<history, fate>>
    /\ UNCHANGED <<active, pending, phase, allocated, mailbox, actor, terminal, commands, asserts>>

FinishEvent(t) ==
    /\ task[t].pc = "terminal"
    /\ terminal' = [terminal EXCEPT ![t] = @ + 1]
    /\ Become(t, "release")
    /\ UNCHANGED <<active, pending, phase, allocated, mailbox, actor, history, fate, commands, asserts>>

\* Mutant: the active turn is cleared without comparing turn states.
FinishReleaseAny(t) ==
    /\ task[t].pc = "release"
    /\ active' = IF active.task = None THEN NoTurn ELSE active
    /\ Become(t, "done")
    /\ UNCHANGED <<pending, phase, allocated, mailbox, actor, history, terminal, fate, commands, asserts>>

\* The active turn is cleared only if it is still the one this task finished.
FinishRelease(t) ==
    /\ task[t].pc = "release"
    /\ active' = IF active.task = None /\ active.state = task[t].state THEN NoTurn ELSE active
    /\ Become(t, "done")
    /\ UNCHANGED <<pending, phase, allocated, mailbox, actor, history, terminal, fate, commands, asserts>>

-----------------------------------------------------------------------------
StartTask(a) == GetTurnInput(a) \/ GetMail(a) \/ InsertTurn(a) \/ ExtendPending(a) \/ Install(a)
AbortTurn(a) == AbortTake(a) \/ AbortKill(a) \/ AbortEvent(a) \/ AbortClear(a)
TryStartIdle(a) ==
    ExtReserve(a) \/ ExtRecheck(a) \/ ExtConfirm(a) \/ ExtClear(a) \/ ExtExtend(a)

ActorStep(a) == AbortTurn(a) \/ MaybeStart(a) \/ Reserve(a) \/ StartTask(a) \/ TryStartIdle(a)

TaskStep(t) ==
    \/ TaskStart(t) \/ TaskStartFails(t) \/ TaskDrain(t) \/ TaskDrainMail(t) \/ TaskRecord(t)
    \/ SampleTool(t) \/ SampleFinal(t) \/ SampleOther(t) \/ TaskPost(t) \/ TaskExit(t)
    \/ TaskFinish(t) \/ FinishTake(t) \/ FinishFlush(t) \/ FinishRecord(t)
    \/ FinishEvent(t) \/ FinishRelease(t)

Client ==
    \/ \E i \in Inputs : Steer(i) \/ UserInput(i)
    \/ \E i \in Injects : Inject(i) \/ ExtCall(i)
    \/ \E m \in Mails : Mail(m)
    \/ StartOther
    \/ Interrupt \/ Shutdown
    \/ \E t \in Turns : GuardianAbort(t)

Next ==
    \/ Client
    \/ \E a \in Starters : ActorStep(a)
    \/ \E t \in Turns : TaskStep(t)

Spec == Init /\ [][Next]_vars

\* A runnable task or actor is polled eventually; clients need not act.
FairSpec == /\ Spec
            /\ \A a \in Starters : WF_vars(ActorStep(a))
            /\ \A t \in Turns : WF_vars(TaskStep(t))

-----------------------------------------------------------------------------
(* Properties *)

\* debug_assert!(turn.task.is_none()) in start_task: the turn a new task is
\* stored in has no task.
NoTaskOverwritten == asserts

\* A client sees at most one terminal event per turn, whichever of the task
\* and an abort ends it.
TerminalOnce == \A t \in Turns : terminal[t] <= 1

\* "A session has at most 1 running task at a time": no task is inside its
\* turn, not even a cancelled one, while another is.
SingleRunner == \A t, u \in Turns : Running(t) /\ Running(u) => t = u

\* The turn states some step of the code will still read pending input from.
Reachable ==
    {active.state}
    \cup {actor[a].vstate : a \in {b \in Starters : actor[b].pc \in {"kill", "event", "clear"}}}
    \cup {task[t].state : t \in {u \in Turns : task[u].pc = "flush"}}

\* The items that are recorded or still on their way to be.
Held ==
    ToSet(history) \cup ToSet(mailbox)
    \cup (UNION {ToSet(pending[s]) : s \in Reachable \ {None}})
    \cup (UNION {ToSet(task[t].buf) : t \in Turns})
    \cup (UNION {ToSet(actor[a].buf) \cup ToSet(actor[a].input) : a \in Starters})

\* An item the session accepted is recorded or still held, unless a hook blocked
\* it or the turn it was queued for was aborted or failed before recording it.
NothingLost == \A i \in Items : fate[i] = "accepted" => i \in Held

\* An item goes one way. It is not recorded twice, however it travelled between
\* mailbox, pending input and the local buffers of tasks and starters; and one
\* the caller got back was not put anywhere: the rejection of
\* try_start_turn_if_idle "carries the original items unchanged".
OneFate ==
    /\ \A i, j \in 1 .. Len(history) : history[i] = history[j] => i = j
    /\ \A i \in Items : fate[i] = "refused" =>
          i \notin Held \cup (UNION {ToSet(pending[s]) : s \in States})

\* Every turn that starts sends its terminal event.
TurnEnds == \A t \in Turns : task[t].pc = "start" ~> terminal[t] = 1

\* User input the session accepted reaches the conversation, unless a hook
\* blocks it or the turn is aborted or fails before recording it.
InputReachesHistory ==
    \A i \in Inputs :
        fate[i] = "accepted" ~> (i \in ToSet(history) \/ fate[i] \in {"blocked", "aborted"})

\* "Starts a regular turn when the session is idle and pending work is
\* waiting": trigger mail does not stay queued while the session is idle.
TriggerMailWakes ==
    \A m \in Triggers : m \in ToSet(mailbox) ~> m \notin ToSet(mailbox)
=============================================================================
