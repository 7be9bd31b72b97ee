------------------------- MODULE SessionTurnsProofs -------------------------
(***************************************************************************)
(* The turn lifecycle of one session, for any number of turns, inputs,     *)
(* mails and injected items.                                               *)
(*                                                                         *)
(* Whoever starts and aborts turns: types (SessionInv) and that every item *)
(* goes one way (Placed).                                                  *)
(*                                                                         *)
(* With the submission loop alone starting turns (LoopOnly): no running    *)
(* task is overwritten, no two tasks run at once, no turn ends twice       *)
(* (Inv), and no accepted user input and no mail is lost (KeepInv, Kept).  *)
(***************************************************************************)
EXTENDS SessionTurns, FiniteSetTheorems, TLAPS

LoopOnly == Starters = {"loop"}
L == actor["loop"]

TaskTypes == [pc : TaskSteps, kind : {"regular", "other"}, buf : Seq(Items),
              follow : BOOLEAN, verdict : {"none", "blocked", "accepted"},
              cancelled : BOOLEAN, state : States \cup {None}, used : 0 .. MaxFollowUps]
ActorTypes == [pc : ActorSteps, reason : {"none", "Replaced", "Interrupted"},
               victim : Turns \cup {None}, vstate : States \cup {None},
               state : States \cup {None}, kind : {"regular", "other"},
               input : Seq(Items), buf : Seq(Items), exiting : BOOLEAN]

Aborting == {"kill", "event", "clear"}
Starting == {"get_turn", "get_mail", "insert", "extend", "install"}
RunSteps == {"start", "drain", "drain_mail", "record", "sample", "post", "exit", "finish"}

\* The turn states an operation may still allocate fit the bound, and so does
\* the turn it may start.
BoundInv ==
    /\ L.pc \in {"abort", "maybe", "reserve"} \cup Aborting => allocated + 3 <= MaxStates
    /\ L.pc \in {"get_turn", "get_mail", "insert"} => allocated + 2 <= MaxStates
    /\ L.pc \in {"extend", "install"} => allocated + 1 <= MaxStates
    /\ L.pc \notin {"idle", "stopped"} => \E t \in Turns : task[t].pc = "unborn"

\* The loop never runs the code of an extension, and its operands exist.
LoopInv ==
    /\ L.pc \in {"idle", "stopped", "abort", "maybe", "reserve"} \cup Aborting \cup Starting
    /\ L.pc \in Aborting => L.victim \in Turns
    /\ L.pc = "extend" => L.state \in States

TypeInv ==
    /\ TypeOK
    /\ BoundInv
    /\ LoopInv
    /\ \A t \in Turns : task[t].pc = "flush" => task[t].state \in States

\* Which task the session regards as its own: the one in the active turn, or
\* the one the loop took out of it and is about to abort.
OwnerInv ==
    /\ L.pc \in Starting => active.task = None
    /\ L.pc \in Aborting => active = NoTurn
    /\ \A t \in Turns : task[t].pc \in RunSteps \cup {"take"} =>
            active.task = t \/ (L.pc = "kill" /\ L.victim = t)
    /\ \A t \in Turns : active.task = t =>
            task[t].pc \in RunSteps \cup {"take"} /\ ~task[t].cancelled

\* A turn has no terminal event until the task or the abort that ends it sends
\* it; the two never both do.
TerminalInv ==
    /\ \A t \in Turns : terminal[t] \in {0, 1}
    /\ \A t \in Turns : task[t].pc \in {"unborn", "take", "flush", "flush_record", "terminal"} \cup RunSteps =>
            terminal[t] = 0
    /\ L.pc \in {"kill", "event"} => terminal[L.victim] = 0
    /\ L.pc = "kill" => task[L.victim].pc \in RunSteps \cup {"take", "done"}
    /\ L.pc = "event" => task[L.victim].pc \in {"killed", "done"}

Inv == /\ TypeInv
       /\ OwnerInv
       /\ TerminalInv
       /\ asserts

-----------------------------------------------------------------------------
(* Types *)

\* A turn can still be started when the room for it was checked.
LEMMA RoomLeft ==
    ASSUME LoopOnly, TypeOK, RoomForTurn, L.pc = "idle"
    PROVE  /\ allocated + 3 <= MaxStates
           /\ \E t \in Turns : task[t].pc = "unborn"
  <1>1. Busy = {}
    BY DEF LoopOnly, Busy, L
  <1>2. Cardinality(Busy) = 0
    BY <1>1, FS_EmptySet
  <1>3. IsFiniteSet(Turns) /\ Cardinality(Turns) = MaxTurns
    BY FS_Interval, BoundsAssumption DEF Turns
  <1>4. Born \subseteq Turns
    BY DEF Born
  <1>5. Cardinality(Born) \in Nat
    BY <1>3, <1>4, FS_Subset, FS_CardinalityType
  <1>6. Born # Turns
    BY <1>2, <1>3, <1>5 DEF RoomForTurn
  <1>7. allocated + 3 <= MaxStates
    BY <1>2, BoundsAssumption DEF RoomForTurn, TypeOK
  <1> QED
    BY <1>4, <1>6, <1>7 DEF Born

\* Mail is conversation input too.
LEMMA MailItems ==
    ASSUME NEW s \in Seq(Items), NEW m \in Seq(Mails) PROVE s \o m \in Seq(Items)
  BY DEF Items

LEMMA NothingQueued == <<>> \in Seq(Items)
  OBVIOUS

\* A new session satisfies the invariant.
LEMMA InitInv ==
    ASSUME LoopOnly PROVE Init => Inv
  <1> SUFFICES ASSUME Init PROVE Inv
    OBVIOUS
  <1> USE DEF Init
  <1>1. NoTask \in TaskTypes /\ IdleActor \in ActorTypes
    BY BoundsAssumption DEF NoTask, IdleActor, TaskTypes, ActorTypes, TaskSteps, ActorSteps, None
  <1>2. TypeOK
    BY <1>1, BoundsAssumption DEF TypeOK, TaskTypes, ActorTypes, NoTurn, None, Fates
  <1>3. L = IdleActor
    BY DEF LoopOnly, L
  <1>4. TypeInv
    BY <1>2, <1>3 DEF TypeInv, BoundInv, LoopInv, IdleActor, NoTask, Aborting, Starting
  <1>5. OwnerInv
    BY <1>3 DEF OwnerInv, IdleActor, NoTask, Aborting, Starting, RunSteps, NoTurn, Turns, None
  <1>6. TerminalInv
    BY <1>3 DEF TerminalInv, IdleActor, NoTask
  <1> QED
    BY <1>4, <1>5, <1>6 DEF Inv

\* The typing of what a step can change without touching who owns the turn.
ActiveOK ==
    /\ active \in [state : States \cup {None}, task : Turns \cup {None}]
    /\ active.state = None => active.task = None
DataOK ==
    /\ pending \in [States -> Seq(Items)]
    /\ phase \in [States -> {"current", "next"}]
    /\ mailbox \in Seq(Mails)
    /\ history \in Seq(Items)
    /\ fate \in [Items -> Fates]
    /\ commands \in 0 .. MaxCommands
    /\ asserts \in BOOLEAN

\* The type invariant by parts, before and after a step.
LEMMA TypeSplit ==
    /\ TypeOK <=> /\ ActiveOK /\ DataOK
                  /\ allocated \in 0 .. MaxStates
                  /\ task \in [Turns -> TaskTypes]
                  /\ actor \in [Starters -> ActorTypes]
                  /\ terminal \in [Turns -> Nat]
    /\ TypeOK' <=> /\ ActiveOK' /\ DataOK'
                   /\ allocated' \in 0 .. MaxStates
                   /\ task' \in [Turns -> TaskTypes]
                   /\ actor' \in [Starters -> ActorTypes]
                   /\ terminal' \in [Turns -> Nat]
  BY DEF TypeOK, ActiveOK, DataOK, TaskTypes, ActorTypes

\* Giving the loop a new record changes nothing else.
LEMMA LoopBecomes ==
    ASSUME LoopOnly, TypeOK, NEW r \in ActorTypes,
           actor' = [actor EXCEPT !["loop"] = r]
    PROVE  actor' \in [Starters -> ActorTypes] /\ L' = r
  BY TypeSplit DEF LoopOnly, L

LEMMA GotoEffects ==
    ASSUME LoopOnly, TypeOK, NEW pc \in ActorSteps, Goto("loop", pc)
    PROVE  /\ actor' \in [Starters -> ActorTypes]
           /\ L'.pc = pc /\ L'.victim = L.victim /\ L'.state = L.state
  <1>1. actor \in [Starters -> ActorTypes] /\ "loop" \in Starters
    BY TypeSplit DEF LoopOnly
  <1>2. L \in ActorTypes
    BY <1>1 DEF L
  <1>3. [L EXCEPT !.pc = pc] \in ActorTypes
    BY <1>2 DEF ActorTypes
  <1>4. actor' = [actor EXCEPT !["loop"] = [L EXCEPT !.pc = pc]]
    BY <1>1 DEF Goto, L
  <1>5. L' = [L EXCEPT !.pc = pc] /\ actor' \in [Starters -> ActorTypes]
    BY <1>3, <1>4, LoopBecomes
  <1> QED
    BY <1>2, <1>5 DEF ActorTypes

LEMMA IdleTyped ==
    NoTask \in TaskTypes /\ IdleActor \in ActorTypes
  BY BoundsAssumption DEF NoTask, IdleActor, TaskTypes, ActorTypes, TaskSteps, ActorSteps, None

LEMMA ReturnEffects ==
    ASSUME LoopOnly, TypeOK, Return("loop")
    PROVE  actor' \in [Starters -> ActorTypes] /\ L'.pc \in {"idle", "stopped"}
  <1>1. [IdleActor EXCEPT !.pc = "stopped"] \in ActorTypes
    BY IdleTyped DEF ActorTypes, ActorSteps
  <1>2. PICK r \in {IdleActor, [IdleActor EXCEPT !.pc = "stopped"]} :
            actor' = [actor EXCEPT !["loop"] = r]
    BY DEF Return
  <1>3. r \in ActorTypes
    BY <1>1, IdleTyped
  <1>4. r.pc \in {"idle", "stopped"}
    BY DEF IdleActor
  <1> QED
    BY <1>2, <1>3, <1>4, LoopBecomes

\* Dropped items have a fate too.
LEMMA AbandonTyped ==
    ASSUME fate \in [Items -> Fates], NEW S, Abandon(S) PROVE fate' \in [Items -> Fates]
  BY DEF Abandon, Fates

-----------------------------------------------------------------------------
(* Steps that leave the owner of the turn alone *)

\* A step of a running task inside its turn: only items move.
Inside(t) ==
    /\ task[t].pc \in RunSteps
    /\ task' \in [Turns -> TaskTypes]
    /\ \A u \in Turns \ {t} : task'[u] = task[u]
    /\ task'[t].pc \in RunSteps
    /\ task'[t].cancelled = task[t].cancelled
    /\ DataOK'
    /\ UNCHANGED <<active, allocated, actor, terminal, asserts>>

LEMMA InsideKeeps ==
    ASSUME LoopOnly, Inv, NEW t \in Turns, Inside(t) PROVE Inv'
  <1>1. L' = L
    BY DEF Inside, L
  <1>2. TypeOK'
    BY TypeSplit DEF Inv, TypeInv, Inside, ActiveOK
  <1>3. \A u \in Turns : task[u].pc = "unborn" => task'[u].pc = "unborn"
    BY DEF Inside, RunSteps
  <1>4. BoundInv' /\ LoopInv'
    BY <1>1, <1>3 DEF Inv, TypeInv, BoundInv, LoopInv, Inside
  <1>5. \A u \in Turns : task'[u].pc = "flush" => task'[u].state \in States
    BY DEF Inv, TypeInv, Inside, RunSteps
  <1>6. OwnerInv'
    BY <1>1 DEF Inv, OwnerInv, Inside
  <1>7. TerminalInv'
    <2>1. \A u \in Turns : task[u].pc = task'[u].pc \/ (task[u].pc \in RunSteps /\ task'[u].pc \in RunSteps)
      BY DEF Inside
    <2>2. \A u \in Turns : terminal'[u] \in {0, 1}
      BY DEF Inv, TerminalInv, Inside
    <2>3. \A u \in Turns : task'[u].pc \in {"unborn", "take", "flush", "flush_record", "terminal"} \cup RunSteps =>
              terminal'[u] = 0
      BY <2>1 DEF Inv, TerminalInv, Inside
    <2>4. L.pc \in {"kill", "event"} => L.victim \in Turns
      BY DEF Inv, TypeInv, LoopInv, Aborting
    <2>5. L.pc = "kill" => task'[L.victim].pc \in RunSteps \cup {"take", "done"}
      BY <2>1, <2>4 DEF Inv, TerminalInv
    <2>6. L.pc = "event" => task'[L.victim].pc \in {"killed", "done"}
      BY <2>1, <2>4 DEF Inv, TerminalInv, RunSteps
    <2>7. L.pc \in {"kill", "event"} => terminal'[L.victim] = 0
      BY <2>4 DEF Inv, TerminalInv, Inside
    <2> QED
      BY <1>1, <2>2, <2>3, <2>5, <2>6, <2>7 DEF TerminalInv
  <1> QED
    BY <1>2, <1>4, <1>5, <1>6, <1>7 DEF Inv, TypeInv, Inside

\* Items are queued, recorded or refused; no task and no operation moves.
Queues ==
    /\ DataOK'
    /\ UNCHANGED <<active, allocated, task, actor, terminal, asserts>>

LEMMA QueuesKeeps ==
    ASSUME LoopOnly, Inv, Queues PROVE Inv'
  <1>1. L' = L
    BY DEF Queues, L
  <1>2. TypeOK'
    BY TypeSplit DEF Inv, TypeInv, Queues, ActiveOK
  <1>3. BoundInv' /\ LoopInv'
    BY <1>1 DEF Inv, TypeInv, BoundInv, LoopInv, Queues
  <1>4. OwnerInv' /\ TerminalInv'
    BY <1>1 DEF Inv, OwnerInv, TerminalInv, Queues
  <1> QED
    BY <1>2, <1>3, <1>4 DEF Inv, TypeInv, Queues

\* The idle loop begins an operation.
Begins ==
    /\ L.pc = "idle" /\ RoomForTurn
    /\ actor' \in [Starters -> ActorTypes]
    /\ L'.pc \in {"abort", "maybe"}
    /\ DataOK'
    /\ UNCHANGED <<active, allocated, task, terminal, asserts>>

LEMMA BeginsKeeps ==
    ASSUME LoopOnly, Inv, Begins PROVE Inv'
  <1>1. TypeOK'
    BY TypeSplit DEF Inv, TypeInv, Begins, ActiveOK
  <1>2. allocated + 3 <= MaxStates /\ \E t \in Turns : task[t].pc = "unborn"
    BY RoomLeft DEF Inv, TypeInv, Begins
  <1>3. BoundInv' /\ LoopInv'
    BY <1>2 DEF BoundInv, LoopInv, Begins, Aborting, Starting
  <1>4. OwnerInv' /\ TerminalInv'
    BY DEF Inv, OwnerInv, TerminalInv, Begins, Aborting, Starting
  <1> QED
    BY <1>1, <1>3, <1>4 DEF Inv, TypeInv, Begins

\* Recording or blocking an item moves no task.
LEMMA RecordHeadEffects ==
    ASSUME TypeOK, NEW t \in Turns, RecordHead(t),
           UNCHANGED <<pending, phase, mailbox, commands, asserts>>
    PROVE  /\ task' \in [Turns -> TaskTypes]
           /\ \A u \in Turns \ {t} : task'[u] = task[u]
           /\ task'[t].pc = task[t].pc /\ task'[t].cancelled = task[t].cancelled
           /\ DataOK'
  <1> DEFINE T == task[t]
             i == Head(T.buf)
             rest == Tail(T.buf)
             Verdicts == {"none", "blocked", "accepted"}
  <1>1. task \in [Turns -> TaskTypes] /\ T \in TaskTypes /\ DataOK
    BY TypeSplit
  <1>2. T.buf \in Seq(Items) /\ T.buf # <<>> /\ T.verdict \in Verdicts
    BY <1>1 DEF TaskTypes, RecordHead
  <1>3. i \in Items /\ rest \in Seq(Items)
    BY <1>2
  <1>4. Append(history, i) \in Seq(Items)
    BY <1>1, <1>3 DEF DataOK
  <1>5. [fate EXCEPT ![i] = "blocked"] \in [Items -> Fates]
    BY <1>1, <1>3 DEF DataOK, Fates
  <1>6. DataOK'
    <2>1. history' \in {history, Append(history, i)} /\ fate' \in {fate, [fate EXCEPT ![i] = "blocked"]}
      BY DEF RecordHead
    <2> HIDE DEF i, rest
    <2> QED
      BY <1>1, <1>4, <1>5, <2>1 DEF DataOK
  <1>7. PICK v \in Verdicts : task' = [task EXCEPT ![t] = [T EXCEPT !.buf = rest, !.verdict = v]]
    <2>1. CASE task' = [task EXCEPT ![t] = [@ EXCEPT !.buf = rest,
                            !.verdict = IF i \in Inputs THEN "accepted" ELSE T.verdict]]
      BY <1>1, <1>2, <2>1
    <2>2. CASE task' = [task EXCEPT ![t] = [@ EXCEPT !.buf = rest,
                            !.verdict = IF T.verdict = "accepted" THEN T.verdict ELSE "blocked"]]
      BY <1>1, <1>2, <2>2
    <2> QED
      BY <2>1, <2>2 DEF RecordHead
  <1> DEFINE r == [T EXCEPT !.buf = rest, !.verdict = v]
  <1>8. r \in TaskTypes /\ r.pc = T.pc /\ r.cancelled = T.cancelled
    BY <1>1, <1>3 DEF TaskTypes
  <1> QED
    BY <1>1, <1>6, <1>7, <1>8

\* Every step of run_turn and of the loop around it stays inside the turn.
LEMMA RunTurnInside ==
    ASSUME TypeOK, NEW t \in Turns,
           \/ TaskStart(t) \/ TaskStartFails(t) \/ TaskDrain(t) \/ TaskDrainMail(t) \/ TaskRecord(t)
           \/ SampleTool(t) \/ SampleFinal(t) \/ SampleOther(t) \/ TaskPost(t) \/ TaskExit(t)
    PROVE  Inside(t)
  <1> DEFINE T == task[t]
  <1>1. /\ task \in [Turns -> TaskTypes] /\ ActiveOK /\ DataOK
        /\ T \in TaskTypes
    BY TypeSplit
  <1>2. T.buf \in Seq(Items) /\ T.used \in 0 .. MaxFollowUps
    BY <1>1 DEF TaskTypes
  <1>3. active # NoTurn => active.state \in States
    BY <1>1 DEF ActiveOK, NoTurn
  <1>4. ASSUME NEW r \in TaskTypes, task' = [task EXCEPT ![t] = r],
               T.pc \in RunSteps, r.pc \in RunSteps, r.cancelled = T.cancelled, DataOK',
               UNCHANGED <<active, allocated, actor, terminal, asserts>>
        PROVE  Inside(t)
    BY <1>1, <1>4 DEF Inside
  <1>5. ASSUME NEW pc \in RunSteps
        PROVE  [T EXCEPT !.pc = pc] \in TaskTypes
    BY <1>1, <1>5 DEF TaskTypes, TaskSteps, RunSteps
  <1>6. ASSUME NEW pc \in RunSteps, Become(t, pc), T.pc \in RunSteps, DataOK',
               UNCHANGED <<active, allocated, actor, terminal, asserts>>
        PROVE  Inside(t)
    <2>1. task' = [task EXCEPT ![t] = [T EXCEPT !.pc = pc]]
      BY <1>1, <1>6 DEF Become
    <2>2. [T EXCEPT !.pc = pc].pc = pc /\ [T EXCEPT !.pc = pc].cancelled = T.cancelled
      BY <1>1 DEF TaskTypes
    <2> QED
      BY <1>4, <1>5, <1>6, <2>1, <2>2
  <1>9. CASE TaskStartFails(t)
    <2>1. PICK next \in {"exit", "finish"} :
              task' = [task EXCEPT ![t] = [T EXCEPT !.pc = next, !.buf = <<>>, !.used = T.used + 1]]
      BY <1>1, <1>9 DEF TaskStartFails
    <2>2. T.used + 1 \in 0 .. MaxFollowUps
      <3>1. T.used < MaxFollowUps
        BY <1>9 DEF TaskStartFails
      <3> QED
        BY <1>2, <3>1, BoundsAssumption
    <2> DEFINE r == [T EXCEPT !.pc = next, !.buf = <<>>, !.used = T.used + 1]
    <2>3. r \in TaskTypes /\ r.pc = next /\ r.cancelled = T.cancelled
      BY <1>1, <2>2, NothingQueued DEF TaskTypes, TaskSteps
    <2>4. fate' \in [Items -> Fates]
      BY <1>1, <1>9, AbandonTyped DEF TaskStartFails, DataOK
    <2>5. DataOK'
      BY <1>1, <1>9, <2>4 DEF TaskStartFails, DataOK
    <2>6. T.pc \in RunSteps /\ next \in RunSteps
      BY <1>9 DEF TaskStartFails, RunSteps
    <2>7. UNCHANGED <<active, allocated, actor, terminal, asserts>>
      BY <1>9 DEF TaskStartFails
    <2> HIDE DEF r
    <2> QED
      BY <1>4, <2>1, <2>3, <2>5, <2>6, <2>7 DEF r
  <1>10. CASE TaskStart(t)
    <2>1. DataOK'
      BY <1>1, <1>10 DEF TaskStart, DataOK
    <2>2. \E next \in {"sample", "drain", "record"} : Become(t, next)
      BY <1>10 DEF TaskStart
    <2> QED
      BY <1>6, <1>10, <2>1, <2>2 DEF TaskStart, RunSteps
  <1>11. CASE TaskDrain(t)
    <2>1. CASE active = NoTurn
      <3>1. DataOK'
        BY <1>1, <1>11, <2>1 DEF TaskDrain, DataOK
      <3> QED
        BY <1>6, <1>11, <2>1, <3>1 DEF TaskDrain, RunSteps
    <2>2. CASE active # NoTurn
      <3>1. pending[active.state] \in Seq(Items)
        BY <1>1, <1>3, <2>2 DEF DataOK
      <3>2. PICK next \in {"drain_mail", "record"} :
                task' = [task EXCEPT ![t] = [@ EXCEPT !.pc = next, !.buf = pending[active.state]]]
        BY <1>11, <2>2 DEF TaskDrain
      <3>3. [T EXCEPT !.pc = next, !.buf = pending[active.state]] \in TaskTypes
        BY <1>1, <3>1 DEF TaskTypes, TaskSteps
      <3>4. DataOK'
        BY <1>1, <1>11, <2>2, NothingQueued DEF TaskDrain, DataOK
      <3> QED
        BY <1>1, <1>4, <1>11, <3>2, <3>3, <3>4 DEF TaskDrain, RunSteps, TaskTypes
    <2> QED
      BY <2>1, <2>2
  <1>12. CASE TaskDrainMail(t)
    <2>1. T.buf \o mailbox \in Seq(Items)
      BY <1>1, <1>2, MailItems DEF DataOK
    <2>2. [T EXCEPT !.pc = "record", !.buf = T.buf \o mailbox] \in TaskTypes
      BY <1>1, <2>1 DEF TaskTypes, TaskSteps
    <2>3. task' = [task EXCEPT ![t] = [T EXCEPT !.pc = "record", !.buf = T.buf \o mailbox]]
      BY <1>1, <1>12 DEF TaskDrainMail, TaskTypes
    <2>4. DataOK'
      BY <1>1, <1>12 DEF TaskDrainMail, DataOK
    <2> QED
      BY <1>1, <1>4, <1>12, <2>2, <2>3, <2>4 DEF TaskDrainMail, RunSteps, TaskTypes
  <1>13. CASE TaskRecord(t)
    <2>1. CASE RecordHead(t)
      <3>1. UNCHANGED <<pending, phase, mailbox, commands, asserts>>
        BY <1>13 DEF TaskRecord
      <3> QED
        BY <1>13, <2>1, <3>1, RecordHeadEffects DEF TaskRecord, Inside, RunSteps
    <2>2. CASE ~RecordHead(t)
      <3>1. PICK next \in {"exit", "sample"} :
                task' = [task EXCEPT ![t] = [T EXCEPT !.verdict = "none", !.pc = next]]
        BY <1>1, <1>13, <2>2 DEF TaskRecord
      <3> DEFINE r == [T EXCEPT !.verdict = "none", !.pc = next]
      <3>2. r \in TaskTypes /\ r.pc = next /\ r.cancelled = T.cancelled
        BY <1>1 DEF TaskTypes, TaskSteps
      <3>3. DataOK'
        BY <1>1, <1>13, <2>2 DEF TaskRecord, DataOK
      <3> QED
        BY <1>4, <1>13, <3>1, <3>2, <3>3 DEF TaskRecord, RunSteps
    <2> QED
      BY <2>1, <2>2
  <1>14. CASE SampleTool(t)
    <2>1. T.used + 1 \in 0 .. MaxFollowUps
      BY <1>2, <1>14, BoundsAssumption DEF SampleTool
    <2>2. [T EXCEPT !.pc = "post", !.follow = TRUE, !.used = T.used + 1] \in TaskTypes
      BY <1>1, <2>1 DEF TaskTypes, TaskSteps
    <2>3. task' = [task EXCEPT ![t] = [T EXCEPT !.pc = "post", !.follow = TRUE, !.used = T.used + 1]]
      BY <1>1, <1>14 DEF SampleTool, TaskTypes
    <2>4. DataOK'
      BY <1>1, <1>14 DEF SampleTool, DataOK
    <2> QED
      BY <1>1, <1>4, <1>14, <2>2, <2>3, <2>4 DEF SampleTool, RunSteps, TaskTypes
  <1>15. CASE SampleFinal(t)
    <2>2. [T EXCEPT !.pc = "post", !.follow = FALSE] \in TaskTypes
      BY <1>1 DEF TaskTypes, TaskSteps
    <2>4. DataOK'
      BY <1>1, <1>15 DEF SampleFinal, DataOK
    <2> QED
      BY <1>1, <1>4, <1>15, <2>2, <2>4 DEF SampleFinal, RunSteps, TaskTypes
  <1>16. CASE SampleOther(t)
    <2>1. PICK next \in {"post", "exit", "finish"} :
              task' = [task EXCEPT ![t] = [@ EXCEPT !.pc = next, !.follow = FALSE]]
      BY <1>16 DEF SampleOther
    <2>2. [T EXCEPT !.pc = next, !.follow = FALSE] \in TaskTypes
      BY <1>1 DEF TaskTypes, TaskSteps
    <2>3. DataOK'
      BY <1>1, <1>16 DEF SampleOther, DataOK
    <2> QED
      BY <1>1, <1>4, <1>16, <2>1, <2>2, <2>3 DEF SampleOther, RunSteps, TaskTypes
  <1>17. CASE TaskPost(t)
    <2>1. DataOK'
      BY <1>1, <1>17 DEF TaskPost, DataOK
    <2>2. CASE \E next \in {"drain", "exit", "sample"} : Become(t, next)
      BY <1>6, <1>17, <2>1, <2>2 DEF TaskPost, RunSteps
    <2>3. CASE /\ T.used < MaxFollowUps
               /\ task' = [task EXCEPT ![t] = [T EXCEPT !.pc = "drain", !.used = T.used + 1]]
      <3>1. T.used + 1 \in 0 .. MaxFollowUps
        BY <1>2, <2>3, BoundsAssumption
      <3>2. [T EXCEPT !.pc = "drain", !.used = T.used + 1] \in TaskTypes
        BY <1>1, <3>1 DEF TaskTypes, TaskSteps
      <3> QED
        BY <1>1, <1>4, <1>17, <2>1, <2>3, <3>2 DEF TaskPost, RunSteps, TaskTypes
    <2> QED
      BY <1>17, <2>2, <2>3 DEF TaskPost
  <1>18. CASE TaskExit(t)
    <2>1. DataOK'
      BY <1>1, <1>18 DEF TaskExit, DataOK
    <2>2. \E next \in {"start", "finish"} : Become(t, next)
      BY <1>18 DEF TaskExit
    <2> QED
      BY <1>6, <1>18, <2>1, <2>2 DEF TaskExit, RunSteps
  <1> QED
    BY <1>9, <1>10, <1>11, <1>12, <1>13, <1>14, <1>15, <1>16, <1>17, <1>18

\* Steering, injecting and plain mail only queue; the other operations of the
\* loop begin an abort or look for pending work.
LEMMA ClientKeeps ==
    ASSUME LoopOnly, Inv, Client PROVE Inv'
  <1>1. /\ ActiveOK /\ DataOK /\ actor \in [Starters -> ActorTypes] /\ "loop" \in Starters
    BY TypeSplit DEF Inv, TypeInv, LoopOnly
  <1>2. active # NoTurn => active.state \in States
    BY <1>1 DEF ActiveOK, NoTurn
  <1>3. active.task # None => active # NoTurn
    BY DEF NoTurn
  <1>4. ASSUME NEW r \in ActorTypes, r.pc \in {"abort", "maybe"}, Begin("loop", r), DataOK',
               LoopIdle, RoomForTurn, UNCHANGED <<active, allocated, task, terminal, asserts>>
        PROVE  Inv'
    <2>1. actor' \in [Starters -> ActorTypes] /\ L' = r
      BY <1>4, LoopBecomes DEF Begin, Inv, TypeInv
    <2> QED
      BY <1>4, <2>1, BeginsKeeps DEF Begins, LoopIdle, L
  <1>5. ASSUME NEW i \in Items, SteerActive(i), UNCHANGED <<mailbox, history, commands, asserts>>
        PROVE  DataOK'
    <2>1. Append(pending[active.state], i) \in Seq(Items)
      BY <1>1, <1>2, <1>3, <1>5 DEF SteerActive, Steerable, DataOK
    <2> QED
      BY <1>1, <1>5, <2>1 DEF SteerActive, DataOK, Fates
  <1>6. ASSUME NEW i \in Items, Refuse(i), UNCHANGED <<mailbox, history, commands, asserts>>
        PROVE  DataOK'
    BY <1>1, <1>6 DEF Refuse, DataOK, Fates
  <1>10. ASSUME NEW i \in Inputs, Steer(i) PROVE Inv'
    <2>1. i \in Items
      BY DEF Items
    <2>2. DataOK'
      BY <1>5, <1>6, <1>10, <2>1 DEF Steer
    <2> QED
      BY <1>10, <2>2, QueuesKeeps DEF Steer, SteerActive, Refuse, Queues
  <1>11. ASSUME NEW i \in Inputs, UserInput(i) PROVE Inv'
    <2>1. i \in Items
      BY DEF Items
    <2>2. CASE SteerActive(i) \/ Refuse(i)
      <3>1. DataOK'
        BY <1>5, <1>6, <1>11, <2>1, <2>2 DEF UserInput
      <3> QED
        BY <1>11, <2>2, <3>1, QueuesKeeps DEF UserInput, SteerActive, Refuse, Queues
    <2>3. CASE ~(SteerActive(i) \/ Refuse(i))
      <3> DEFINE r == [IdleActor EXCEPT !.pc = "abort", !.reason = "Replaced", !.input = <<i>>]
      <3>1. <<i>> \in Seq(Items)
        BY <2>1
      <3>2. r \in ActorTypes
        BY <3>1, IdleTyped DEF ActorTypes, ActorSteps
      <3>3. r.pc = "abort"
        BY DEF IdleActor
      <3>4. DataOK'
        BY <1>1, <1>11, <2>1, <2>3 DEF UserInput, DataOK, Fates
      <3>5. Begin("loop", r)
        BY <1>11, <2>3 DEF UserInput
      <3> QED
        BY <1>4, <1>11, <3>2, <3>3, <3>4, <3>5 DEF UserInput
    <2> QED
      BY <2>2, <2>3
  <1>12. ASSUME NEW i \in Injects, Inject(i) PROVE Inv'
    <2>1. i \in Items
      BY DEF Items
    <2>2. Append(history, i) \in Seq(Items) /\ (active # NoTurn => Append(pending[active.state], i) \in Seq(Items))
      BY <1>1, <1>2, <2>1 DEF DataOK
    <2>3. DataOK'
      BY <1>1, <1>12, <2>1, <2>2 DEF Inject, DataOK, Fates
    <2> QED
      BY <1>12, <2>3, QueuesKeeps DEF Inject, Queues
  <1>13. ASSUME NEW m \in Mails, Mail(m) PROVE Inv'
    <2>1. m \in Items
      BY DEF Items
    <2>2. Append(mailbox, m) \in Seq(Mails)
      BY <1>1 DEF DataOK
    <2>3. DataOK'
      BY <1>1, <1>13, <2>1, <2>2 DEF Mail, DataOK, Fates
    <2>4. CASE m \in Triggers
      <3> DEFINE r == [IdleActor EXCEPT !.pc = "maybe"]
      <3>1. r \in ActorTypes
        BY IdleTyped DEF ActorTypes, ActorSteps
      <3>2. r.pc = "maybe"
        BY DEF IdleActor
      <3> QED
        BY <1>4, <1>13, <2>3, <2>4, <3>1, <3>2 DEF Mail
    <2>5. CASE m \notin Triggers
      BY <1>13, <2>3, <2>5, QueuesKeeps DEF Mail, Queues
    <2> QED
      BY <2>4, <2>5
  <1>14. ASSUME StartOther PROVE Inv'
    <2> DEFINE r == [IdleActor EXCEPT !.pc = "abort", !.reason = "Replaced", !.kind = "other"]
    <2>1. r \in ActorTypes
      BY IdleTyped DEF ActorTypes, ActorSteps
    <2>2. r.pc = "abort"
      BY DEF IdleActor
    <2>3. DataOK'
      BY <1>1, <1>14, BoundsAssumption DEF StartOther, DataOK
    <2> QED
      BY <1>4, <1>14, <2>1, <2>2, <2>3 DEF StartOther
  <1>15. ASSUME NEW exiting \in BOOLEAN, AbortAll(exiting) PROVE Inv'
    <2> DEFINE r == [IdleActor EXCEPT !.pc = "abort", !.reason = "Interrupted", !.exiting = exiting]
    <2>1. r \in ActorTypes
      BY IdleTyped DEF ActorTypes, ActorSteps
    <2>2. r.pc = "abort"
      BY DEF IdleActor
    <2>3. DataOK'
      BY <1>1, <1>15, BoundsAssumption DEF AbortAll, DataOK
    <2> QED
      BY <1>4, <1>15, <2>1, <2>2, <2>3 DEF AbortAll
  <1>16. (\A i \in Injects : ~ExtCall(i)) /\ (\A t \in Turns : ~GuardianAbort(t))
    BY DEF LoopOnly, ExtCall, GuardianAbort
  <1> QED
    BY <1>10, <1>11, <1>12, <1>13, <1>14, <1>15, <1>16 DEF Client, Interrupt, Shutdown

-----------------------------------------------------------------------------
(* The end of a task *)

LEMMA BecomeEffects ==
    ASSUME TypeOK, NEW t \in Turns, NEW pc \in TaskSteps, Become(t, pc)
    PROVE  /\ task' \in [Turns -> TaskTypes]
           /\ \A u \in Turns \ {t} : task'[u] = task[u]
           /\ task'[t].pc = pc
           /\ task'[t].cancelled = task[t].cancelled /\ task'[t].state = task[t].state
  <1> DEFINE r == [task[t] EXCEPT !.pc = pc]
  <1>1. task \in [Turns -> TaskTypes] /\ task[t] \in TaskTypes
    BY TypeSplit
  <1>2. r \in TaskTypes
    BY <1>1 DEF TaskTypes
  <1>3. task' = [task EXCEPT ![t] = r]
    BY <1>1 DEF Become
  <1>4. r.pc = pc /\ r.cancelled = task[t].cancelled /\ r.state = task[t].state
    BY <1>1 DEF TaskTypes
  <1> QED
    BY <1>1, <1>2, <1>3, <1>4

\* A task that ends keeps the room the loop counted on.
LEMMA EndingKeepsType ==
    ASSUME LoopOnly, Inv, NEW t \in Turns, task[t].pc # "unborn",
           task' \in [Turns -> TaskTypes],
           \A u \in Turns \ {t} : task'[u] = task[u],
           task'[t].pc = "flush" => task'[t].state \in States,
           ActiveOK', DataOK', terminal' \in [Turns -> Nat],
           UNCHANGED <<allocated, actor, asserts>>
    PROVE  TypeInv' /\ L' = L
  <1>1. L' = L
    BY DEF L
  <1>2. TypeOK'
    BY TypeSplit DEF Inv, TypeInv
  <1>3. \A u \in Turns : task[u].pc = "unborn" => task'[u].pc = "unborn"
    OBVIOUS
  <1>4. BoundInv' /\ LoopInv'
    BY <1>1, <1>3 DEF Inv, TypeInv, BoundInv, LoopInv
  <1>5. \A u \in Turns : task'[u].pc = "flush" => task'[u].state \in States
    BY DEF Inv, TypeInv
  <1> QED
    BY <1>1, <1>2, <1>4, <1>5 DEF TypeInv

\* A cancelled task is not the active one, so it may end without a word.
LEMMA TaskFinishKeeps ==
    ASSUME LoopOnly, Inv, NEW t \in Turns, TaskFinish(t) PROVE Inv'
  <1> DEFINE next == IF task[t].cancelled THEN "done" ELSE "take"
  <1>1. /\ task' \in [Turns -> TaskTypes]
        /\ \A u \in Turns \ {t} : task'[u] = task[u]
        /\ task'[t].pc = next
        /\ task'[t].cancelled = task[t].cancelled
    BY BecomeEffects DEF TaskFinish, TaskSteps, Inv, TypeInv
  <1>2. ActiveOK' /\ DataOK' /\ terminal' \in [Turns -> Nat]
    BY TypeSplit DEF TaskFinish, Inv, TypeInv, ActiveOK, DataOK
  <1>3. TypeInv' /\ L' = L
    BY <1>1, <1>2, EndingKeepsType DEF TaskFinish
  <1>4. OwnerInv'
    BY <1>1, <1>3 DEF TaskFinish, Inv, OwnerInv, RunSteps
  <1>5. L.pc \in {"kill", "event"} => L.victim \in Turns
    BY DEF Inv, TypeInv, LoopInv, Aborting
  <1>6. TerminalInv'
    BY <1>1, <1>3, <1>5 DEF TaskFinish, Inv, TerminalInv, RunSteps
  <1> QED
    BY <1>3, <1>4, <1>6 DEF Inv, TaskFinish

\* A task that finds a task in the active turn finds itself.
LEMMA FinishTakeKeeps ==
    ASSUME LoopOnly, Inv, NEW t \in Turns, FinishTake(t) PROVE Inv'
  <1>1. /\ task \in [Turns -> TaskTypes] /\ task[t] \in TaskTypes
        /\ ActiveOK /\ DataOK /\ terminal \in [Turns -> Nat]
    BY TypeSplit DEF Inv, TypeInv
  <1>2. task[t].pc = "take"
    BY DEF FinishTake
  <1>3. DataOK' /\ terminal' \in [Turns -> Nat]
    BY <1>1 DEF FinishTake, DataOK
  <1>4. L.pc \in {"kill", "event"} => L.victim \in Turns
    BY DEF Inv, TypeInv, LoopInv, Aborting
  <1>5. CASE active.task = None
    <2>1. /\ task' \in [Turns -> TaskTypes]
          /\ \A u \in Turns \ {t} : task'[u] = task[u]
          /\ task'[t].pc = "done"
      BY <1>5, BecomeEffects DEF FinishTake, TaskSteps, Inv, TypeInv
    <2>2. ActiveOK'
      BY <1>1, <1>5 DEF FinishTake, ActiveOK
    <2>3. TypeInv' /\ L' = L
      BY <1>2, <1>3, <2>1, <2>2, EndingKeepsType DEF FinishTake
    <2>4. OwnerInv'
      BY <1>5, <2>1, <2>3 DEF FinishTake, Inv, OwnerInv, RunSteps, Turns, None
    <2>5. TerminalInv'
      BY <1>4, <2>1, <2>3 DEF FinishTake, Inv, TerminalInv, RunSteps
    <2> QED
      BY <2>3, <2>4, <2>5 DEF Inv, FinishTake
  <1>6. CASE active.task # None
    <2> DEFINE r == [task[t] EXCEPT !.pc = "flush", !.state = active.state]
    <2>1. active.task \in Turns /\ active.state \in States /\ active # NoTurn
      BY <1>1, <1>6 DEF ActiveOK, NoTurn
    <2>2. L.pc \notin Aborting
      BY <2>1 DEF Inv, OwnerInv
    <2>3. active.task = t
      BY <1>2, <2>2 DEF Inv, OwnerInv, Aborting
    <2>4. r \in TaskTypes /\ r.pc = "flush" /\ r.state = active.state
      BY <1>1, <2>1 DEF TaskTypes, TaskSteps
    <2>5. /\ task' \in [Turns -> TaskTypes] /\ task'[t] = r
          /\ \A u \in Turns \ {t} : task'[u] = task[u]
      BY <1>1, <1>6, <2>4 DEF FinishTake
    <2>6. active' = [active EXCEPT !.task = None]
      BY <1>6 DEF FinishTake
    <2>7. ActiveOK' /\ active'.task = None
      BY <1>1, <2>6 DEF ActiveOK
    <2>8. TypeInv' /\ L' = L
      BY <1>2, <1>3, <2>1, <2>4, <2>5, <2>7, EndingKeepsType DEF FinishTake
    <2>9. task'[t].pc = "flush" /\ \A u \in Turns \ {t} : task'[u] = task[u]
      BY <2>4, <2>5
    <2>10. terminal' = terminal /\ asserts' = asserts
      BY DEF FinishTake
    <2> HIDE DEF r
    <2>11. OwnerInv'
      <3>1. \A u \in Turns \ {t} : task'[u].pc \notin RunSteps \cup {"take"}
        BY <2>2, <2>3, <2>9 DEF Inv, OwnerInv, Aborting
      <3> QED
        BY <2>2, <2>7, <2>8, <2>9, <3>1 DEF OwnerInv, RunSteps, Turns, None
    <2>12. TerminalInv'
      BY <1>2, <1>4, <2>2, <2>8, <2>9, <2>10 DEF Inv, TerminalInv, RunSteps, Aborting
    <2> QED
      BY <2>8, <2>10, <2>11, <2>12 DEF Inv
  <1> QED
    BY <1>5, <1>6

\* The task that ends is nobody's task any more while it records what is left.
LEMMA FinishFlushKeeps ==
    ASSUME LoopOnly, Inv, NEW t \in Turns, FinishFlush(t) PROVE Inv'
  <1>1. /\ ActiveOK /\ DataOK /\ terminal \in [Turns -> Nat]
        /\ task \in [Turns -> TaskTypes] /\ task[t] \in TaskTypes
    BY TypeSplit DEF Inv, TypeInv
  <1>2. task[t].pc = "flush" /\ task[t].state \in States
    BY DEF FinishFlush, Inv, TypeInv
  <1>3. /\ task' \in [Turns -> TaskTypes]
        /\ \A u \in Turns \ {t} : task'[u] = task[u]
        /\ task'[t].pc = "flush_record"
    <2> DEFINE r == [task[t] EXCEPT !.pc = "flush_record", !.buf = pending[task[t].state]]
    <2>1. pending[task[t].state] \in Seq(Items)
      BY <1>1, <1>2 DEF DataOK
    <2>2. r \in TaskTypes /\ r.pc = "flush_record"
      BY <1>1, <2>1 DEF TaskTypes, TaskSteps
    <2>3. task' = [task EXCEPT ![t] = r]
      BY <1>1 DEF FinishFlush
    <2> HIDE DEF r
    <2> QED
      BY <1>1, <2>2, <2>3
  <1>5. ActiveOK' /\ DataOK' /\ terminal' \in [Turns -> Nat]
    BY <1>1, NothingQueued DEF FinishFlush, ActiveOK, DataOK
  <1>6. TypeInv' /\ L' = L
    BY <1>2, <1>3, <1>5, EndingKeepsType DEF FinishFlush
  <1>7. OwnerInv'
    BY <1>2, <1>3, <1>6 DEF FinishFlush, Inv, OwnerInv, RunSteps
  <1>8. L.pc \in {"kill", "event"} => L.victim \in Turns
    BY DEF Inv, TypeInv, LoopInv, Aborting
  <1>9. TerminalInv'
    BY <1>2, <1>3, <1>6, <1>8 DEF FinishFlush, Inv, TerminalInv, RunSteps
  <1> QED
    BY <1>6, <1>7, <1>9 DEF Inv, FinishFlush

LEMMA FinishRecordKeeps ==
    ASSUME LoopOnly, Inv, NEW t \in Turns, FinishRecord(t) PROVE Inv'
  <1>1. ActiveOK /\ DataOK /\ terminal \in [Turns -> Nat] /\ TypeOK
    BY TypeSplit DEF Inv, TypeInv
  <1>2. task[t].pc = "flush_record"
    BY DEF FinishRecord
  <1>3. /\ task' \in [Turns -> TaskTypes]
        /\ \A u \in Turns \ {t} : task'[u] = task[u]
        /\ task'[t].pc \in {"flush_record", "terminal"}
        /\ DataOK'
    <2>1. CASE RecordHead(t)
      BY <1>1, <1>2, <2>1, RecordHeadEffects DEF FinishRecord
    <2>2. CASE Become(t, "terminal") /\ UNCHANGED <<history, fate>>
      <3>1. DataOK'
        BY <1>1, <2>2 DEF FinishRecord, DataOK
      <3> QED
        BY <1>1, <2>2, <3>1, BecomeEffects DEF TaskSteps
    <2> QED
      BY <2>1, <2>2 DEF FinishRecord
  <1>5. ActiveOK' /\ terminal' \in [Turns -> Nat]
    BY <1>1 DEF FinishRecord, ActiveOK
  <1>6. TypeInv' /\ L' = L
    BY <1>2, <1>3, <1>5, EndingKeepsType DEF FinishRecord
  <1>7. OwnerInv'
    BY <1>2, <1>3, <1>6 DEF FinishRecord, Inv, OwnerInv, RunSteps
  <1>8. L.pc \in {"kill", "event"} => L.victim \in Turns
    BY DEF Inv, TypeInv, LoopInv, Aborting
  <1>9. TerminalInv'
    BY <1>2, <1>3, <1>6, <1>8 DEF FinishRecord, Inv, TerminalInv, RunSteps
  <1> QED
    BY <1>6, <1>7, <1>9 DEF Inv, FinishRecord

LEMMA FinishEventKeeps ==
    ASSUME LoopOnly, Inv, NEW t \in Turns, FinishEvent(t) PROVE Inv'
  <1>1. ActiveOK /\ DataOK /\ terminal \in [Turns -> Nat]
    BY TypeSplit DEF Inv, TypeInv
  <1>2. task[t].pc = "terminal" /\ terminal[t] = 0
    BY DEF FinishEvent, Inv, TerminalInv
  <1>3. /\ task' \in [Turns -> TaskTypes]
        /\ \A u \in Turns \ {t} : task'[u] = task[u]
        /\ task'[t].pc = "release"
    BY BecomeEffects DEF FinishEvent, TaskSteps, Inv, TypeInv
  <1>4. terminal' \in [Turns -> Nat] /\ terminal'[t] = 1 /\ \A u \in Turns \ {t} : terminal'[u] = terminal[u]
    BY <1>1, <1>2 DEF FinishEvent
  <1>5. ActiveOK' /\ DataOK'
    BY <1>1 DEF FinishEvent, ActiveOK, DataOK
  <1>6. TypeInv' /\ L' = L
    BY <1>2, <1>3, <1>4, <1>5, EndingKeepsType DEF FinishEvent
  <1>7. OwnerInv'
    BY <1>2, <1>3, <1>6 DEF FinishEvent, Inv, OwnerInv, RunSteps
  <1>8. L.pc \in {"kill", "event"} => L.victim \in Turns /\ L.victim # t
    BY <1>2 DEF Inv, TypeInv, LoopInv, Aborting, TerminalInv, RunSteps
  <1>9. TerminalInv'
    BY <1>2, <1>3, <1>4, <1>6, <1>8 DEF Inv, TerminalInv, RunSteps
  <1> QED
    BY <1>6, <1>7, <1>9 DEF Inv, FinishEvent

LEMMA FinishReleaseKeeps ==
    ASSUME LoopOnly, Inv, NEW t \in Turns, FinishRelease(t) PROVE Inv'
  <1>1. ActiveOK /\ DataOK /\ terminal \in [Turns -> Nat]
    BY TypeSplit DEF Inv, TypeInv
  <1>2. task[t].pc = "release"
    BY DEF FinishRelease
  <1>3. /\ task' \in [Turns -> TaskTypes]
        /\ \A u \in Turns \ {t} : task'[u] = task[u]
        /\ task'[t].pc = "done"
    BY BecomeEffects DEF FinishRelease, TaskSteps, Inv, TypeInv
  <1>4. active' = active \/ (active.task = None /\ active' = NoTurn)
    BY DEF FinishRelease
  <1>5. ActiveOK' /\ DataOK' /\ terminal' = terminal
    BY <1>1, <1>4 DEF FinishRelease, ActiveOK, DataOK, NoTurn
  <1>6. TypeInv' /\ L' = L
    BY <1>1, <1>2, <1>3, <1>5, EndingKeepsType DEF FinishRelease
  <1>7. active'.task = active.task /\ (active = NoTurn => active' = NoTurn)
    BY <1>4 DEF NoTurn
  <1>8. OwnerInv'
    BY <1>2, <1>3, <1>6, <1>7 DEF Inv, OwnerInv, RunSteps
  <1>9. L.pc \in {"kill", "event"} => L.victim \in Turns
    BY DEF Inv, TypeInv, LoopInv, Aborting
  <1>10. TerminalInv'
    BY <1>2, <1>3, <1>5, <1>6, <1>9 DEF Inv, TerminalInv, RunSteps
  <1> QED
    BY <1>6, <1>8, <1>10 DEF Inv, FinishRelease

-----------------------------------------------------------------------------
(* The loop aborts the turn it took *)

\* A step of the loop that leaves every task alone and frees no turn state.
LEMMA LoopKeepsType ==
    ASSUME LoopOnly, Inv, actor' \in [Starters -> ActorTypes], ActiveOK', DataOK',
           terminal' \in [Turns -> Nat],
           task' \in [Turns -> TaskTypes],
           \A t \in Turns : task'[t].pc = "unborn" <=> task[t].pc = "unborn",
           \A t \in Turns : task'[t].pc = "flush" => task[t].pc = "flush" /\ task'[t].state = task[t].state,
           allocated' \in 0 .. MaxStates, LoopInv',
           L.pc \notin {"idle", "stopped"},
           /\ L'.pc \in {"abort", "maybe", "reserve"} \cup Aborting => allocated' + 3 <= MaxStates
           /\ L'.pc \in {"get_turn", "get_mail", "insert"} => allocated' + 2 <= MaxStates
           /\ L'.pc \in {"extend", "install"} => allocated' + 1 <= MaxStates
    PROVE  TypeInv'
  <1>1. TypeOK'
    BY TypeSplit
  <1>2. \E t \in Turns : task'[t].pc = "unborn"
    BY DEF Inv, TypeInv, BoundInv
  <1>3. BoundInv'
    BY <1>2 DEF BoundInv
  <1>4. \A t \in Turns : task'[t].pc = "flush" => task'[t].state \in States
    BY DEF Inv, TypeInv
  <1> QED
    BY <1>1, <1>3, <1>4 DEF TypeInv

LEMMA AbortTakeKeeps ==
    ASSUME LoopOnly, Inv, AbortTake("loop") PROVE Inv'
  <1>1. /\ task \in [Turns -> TaskTypes] /\ actor \in [Starters -> ActorTypes] /\ L \in ActorTypes
        /\ ActiveOK /\ DataOK /\ terminal \in [Turns -> Nat] /\ allocated \in 0 .. MaxStates
    BY TypeSplit DEF Inv, TypeInv, LoopOnly, L
  <1>2. /\ L.pc = "abort" /\ active' = NoTurn /\ terminal' = terminal /\ allocated' = allocated
        /\ asserts' = asserts
    BY DEF AbortTake, L
  <1>3. DataOK' /\ ActiveOK'
    BY <1>1, <1>2 DEF AbortTake, DataOK, ActiveOK, NoTurn
  <1>4. allocated + 3 <= MaxStates
    BY <1>2 DEF Inv, TypeInv, BoundInv
  <1>5. active'.task = None
    BY <1>2 DEF NoTurn
  <1>6. \A t \in Turns : task[t].pc \in RunSteps \cup {"take"} => active.task = t
    BY <1>2 DEF Inv, OwnerInv
  <1>7. CASE active.task # None
    <2> DEFINE r == [L EXCEPT !.pc = "kill", !.victim = active.task, !.vstate = active.state]
               q == [task[active.task] EXCEPT !.cancelled = TRUE]
    <2>1. active.task \in Turns /\ active.state \in States
      BY <1>1, <1>7 DEF ActiveOK
    <2>2. r \in ActorTypes /\ r.pc = "kill" /\ r.victim = active.task
      BY <1>1, <2>1 DEF ActorTypes, ActorSteps
    <2>3. actor' = [actor EXCEPT !["loop"] = r]
      BY <1>1, <1>7 DEF AbortTake, LoopOnly, L
    <2>4. actor' \in [Starters -> ActorTypes] /\ L' = r
      BY <2>2, <2>3, LoopBecomes DEF Inv, TypeInv
    <2>5. L'.pc = "kill" /\ L'.victim = active.task
      BY <2>2, <2>4
    <2>6. q \in TaskTypes /\ q.pc = task[active.task].pc /\ q.state = task[active.task].state
      <3>1. task[active.task] \in TaskTypes
        BY <1>1, <2>1
      <3> QED
        BY <3>1 DEF TaskTypes
    <2>7. task' = [task EXCEPT ![active.task] = q]
      BY <1>1, <1>7, <2>1 DEF AbortTake
    <2>8. /\ task' \in [Turns -> TaskTypes]
          /\ \A t \in Turns : task'[t].pc = task[t].pc /\ task'[t].state = task[t].state
      BY <1>1, <2>6, <2>7
    <2> HIDE DEF r, q
    <2>9. LoopInv'
      BY <2>1, <2>5 DEF LoopInv, Aborting
    <2>10. TypeInv'
      BY <1>1, <1>2, <1>3, <1>4, <2>4, <2>5, <2>8, <2>9, LoopKeepsType
    <2>11. OwnerInv'
      BY <1>2, <1>5, <1>6, <2>5, <2>8 DEF OwnerInv, Starting, Turns, None
    <2>12. task[active.task].pc \in RunSteps \cup {"take"}
      BY <2>1 DEF Inv, OwnerInv
    <2>13. TerminalInv'
      BY <1>2, <2>1, <2>5, <2>8, <2>12 DEF Inv, TerminalInv
    <2> QED
      BY <1>2, <2>10, <2>11, <2>13 DEF Inv
  <1>8. CASE active.task = None
    <2>1. /\ actor' \in [Starters -> ActorTypes] /\ L'.pc \in {"get_turn", "idle", "stopped"}
      BY <1>8, GotoEffects, ReturnEffects DEF AbortTake, AfterAbort, ActorSteps, Inv, TypeInv
    <2>2. task' = task
      BY <1>8 DEF AbortTake
    <2>3. LoopInv'
      BY <2>1 DEF LoopInv, Aborting, Starting
    <2>4. TypeInv'
      BY <1>1, <1>2, <1>3, <1>4, <2>1, <2>2, <2>3, LoopKeepsType, BoundsAssumption DEF Aborting
    <2>5. OwnerInv'
      BY <1>5, <1>6, <1>8, <2>1, <2>2 DEF OwnerInv, Aborting, Turns, None
    <2>6. TerminalInv'
      BY <1>2, <2>1, <2>2 DEF Inv, TerminalInv
    <2> QED
      BY <1>2, <2>4, <2>5, <2>6 DEF Inv
  <1> QED
    BY <1>7, <1>8

LEMMA AbortKillKeeps ==
    ASSUME LoopOnly, Inv, AbortKill("loop") PROVE Inv'
  <1> DEFINE v == L.victim
             q == [task[v] EXCEPT !.pc = "killed", !.buf = <<>>]
  <1>1. /\ task \in [Turns -> TaskTypes]
        /\ ActiveOK /\ DataOK /\ terminal \in [Turns -> Nat] /\ allocated \in 0 .. MaxStates
    BY TypeSplit DEF Inv, TypeInv
  <1>2. L.pc = "kill" /\ UNCHANGED <<active, pending, phase, allocated, mailbox, history, terminal, commands, asserts>>
    BY DEF AbortKill, L
  <1>3. v \in Turns /\ allocated + 3 <= MaxStates
    BY <1>2 DEF Inv, TypeInv, BoundInv, LoopInv, Aborting
  <1>4. q \in TaskTypes /\ q.pc = "killed"
    <2>1. task[v] \in TaskTypes
      BY <1>1, <1>3
    <2> HIDE DEF v
    <2> QED
      BY <2>1, NothingQueued DEF TaskTypes, TaskSteps
  <1>5. /\ task' \in [Turns -> TaskTypes]
        /\ \A t \in Turns \ {v} : task'[t] = task[t]
        /\ task'[v].pc \in {"killed", "done"}
    BY <1>1, <1>3, <1>4 DEF AbortKill, L
  <1>6. fate' \in [Items -> Fates]
    BY <1>1, AbandonTyped DEF AbortKill, DataOK
  <1>7. DataOK' /\ ActiveOK'
    BY <1>1, <1>2, <1>6 DEF DataOK, ActiveOK
  <1>8. actor' \in [Starters -> ActorTypes] /\ L'.pc = "event" /\ L'.victim = v
    BY GotoEffects DEF AbortKill, ActorSteps, Inv, TypeInv
  <1>9. task[v].pc \in RunSteps \cup {"take", "done"} /\ terminal[v] = 0
    BY <1>2 DEF Inv, TerminalInv
  <1> HIDE DEF v, q
  <1>10. LoopInv'
    BY <1>3, <1>8 DEF LoopInv, Aborting
  <1>11. /\ \A t \in Turns : task'[t].pc = "unborn" <=> task[t].pc = "unborn"
         /\ \A t \in Turns : task'[t].pc = "flush" => task[t].pc = "flush" /\ task'[t].state = task[t].state
    BY <1>5, <1>9 DEF RunSteps
  <1>12. TypeInv'
    BY <1>1, <1>2, <1>3, <1>5, <1>7, <1>8, <1>10, <1>11, LoopKeepsType DEF Aborting
  <1>13. active = NoTurn /\ active.task = None
    BY <1>2 DEF Inv, OwnerInv, Aborting, NoTurn
  <1>14. OwnerInv'
    <2>1. \A t \in Turns : task'[t].pc \notin RunSteps \cup {"take"}
      BY <1>2, <1>5, <1>13 DEF Inv, OwnerInv, RunSteps, Turns, None, v
    <2> QED
      BY <1>2, <1>8, <1>13, <2>1 DEF OwnerInv, Starting, Turns, None
  <1>15. TerminalInv'
    BY <1>2, <1>3, <1>5, <1>8, <1>9 DEF Inv, TerminalInv, RunSteps
  <1> QED
    BY <1>2, <1>12, <1>14, <1>15 DEF Inv

LEMMA AbortEventKeeps ==
    ASSUME LoopOnly, Inv, AbortEvent("loop") PROVE Inv'
  <1> DEFINE v == L.victim
  <1>1. /\ task \in [Turns -> TaskTypes]
        /\ ActiveOK /\ DataOK /\ terminal \in [Turns -> Nat] /\ allocated \in 0 .. MaxStates
    BY TypeSplit DEF Inv, TypeInv
  <1>2. L.pc = "event" /\ UNCHANGED <<active, pending, phase, allocated, mailbox, task, history, fate, commands, asserts>>
    BY DEF AbortEvent, L
  <1>3. v \in Turns /\ allocated + 3 <= MaxStates
    BY <1>2 DEF Inv, TypeInv, BoundInv, LoopInv, Aborting
  <1>4. terminal[v] = 0 /\ task[v].pc \in {"killed", "done"}
    BY <1>2 DEF Inv, TerminalInv
  <1>5. /\ terminal' \in [Turns -> Nat] /\ terminal'[v] = 1
        /\ \A t \in Turns \ {v} : terminal'[t] = terminal[t]
    BY <1>1, <1>3, <1>4 DEF AbortEvent, L
  <1>6. DataOK' /\ ActiveOK'
    BY <1>1, <1>2 DEF DataOK, ActiveOK
  <1>7. actor' \in [Starters -> ActorTypes] /\ L'.pc = "clear" /\ L'.victim = v
    BY GotoEffects DEF AbortEvent, ActorSteps, Inv, TypeInv
  <1> HIDE DEF v
  <1>8. LoopInv'
    BY <1>3, <1>7 DEF LoopInv, Aborting
  <1>9. TypeInv'
    BY <1>1, <1>2, <1>3, <1>5, <1>6, <1>7, <1>8, LoopKeepsType DEF Aborting
  <1>10. OwnerInv'
    BY <1>2, <1>7 DEF Inv, OwnerInv, Aborting, Starting
  <1>11. TerminalInv'
    BY <1>2, <1>3, <1>4, <1>5, <1>7 DEF Inv, TerminalInv, RunSteps
  <1> QED
    BY <1>2, <1>9, <1>10, <1>11 DEF Inv

LEMMA AbortClearKeeps ==
    ASSUME LoopOnly, Inv, AbortClear("loop") PROVE Inv'
  <1>1. /\ task \in [Turns -> TaskTypes]
        /\ ActiveOK /\ DataOK /\ terminal \in [Turns -> Nat] /\ allocated \in 0 .. MaxStates
    BY TypeSplit DEF Inv, TypeInv
  <1>2. L.pc = "clear" /\ UNCHANGED <<active, phase, allocated, mailbox, task, history, terminal, commands, asserts>>
    BY DEF AbortClear, L
  <1>3. allocated + 3 <= MaxStates
    BY <1>2 DEF Inv, TypeInv, BoundInv, Aborting
  <1>4. fate' \in [Items -> Fates]
    BY <1>1, AbandonTyped DEF AbortClear, DataOK
  <1>5. pending' \in [States -> Seq(Items)]
    BY <1>1, NothingQueued DEF AbortClear, DataOK
  <1>6. DataOK' /\ ActiveOK'
    BY <1>1, <1>2, <1>4, <1>5 DEF DataOK, ActiveOK
  <1>7. actor' \in [Starters -> ActorTypes] /\ L'.pc \in {"get_turn", "maybe"}
    BY GotoEffects DEF AbortClear, AfterAbort, ActorSteps, Inv, TypeInv
  <1>8. LoopInv'
    BY <1>7 DEF LoopInv, Aborting, Starting
  <1>9. TypeInv'
    BY <1>1, <1>2, <1>3, <1>6, <1>7, <1>8, LoopKeepsType, BoundsAssumption DEF Aborting
  <1>10. active.task = None
    BY <1>2 DEF Inv, OwnerInv, Aborting, NoTurn
  <1>11. OwnerInv'
    BY <1>2, <1>7, <1>10 DEF Inv, OwnerInv, Aborting
  <1>12. TerminalInv'
    BY <1>2, <1>7 DEF Inv, TerminalInv
  <1> QED
    BY <1>2, <1>9, <1>11, <1>12 DEF Inv

-----------------------------------------------------------------------------
(* The loop starts a task *)

LEMMA MaybeStartKeeps ==
    ASSUME LoopOnly, Inv, MaybeStart("loop") PROVE Inv'
  <1>1. /\ task \in [Turns -> TaskTypes]
        /\ ActiveOK /\ DataOK /\ terminal \in [Turns -> Nat] /\ allocated \in 0 .. MaxStates
    BY TypeSplit DEF Inv, TypeInv
  <1>2. /\ L.pc = "maybe"
        /\ UNCHANGED <<active, pending, phase, allocated, mailbox, task, history, terminal, fate, commands, asserts>>
    BY DEF MaybeStart, L
  <1>3. allocated + 3 <= MaxStates
    BY <1>2 DEF Inv, TypeInv, BoundInv
  <1>4. DataOK' /\ ActiveOK'
    BY <1>1, <1>2 DEF DataOK, ActiveOK
  <1>5. actor' \in [Starters -> ActorTypes] /\ L'.pc \in {"reserve", "idle", "stopped"}
    BY GotoEffects, ReturnEffects DEF MaybeStart, ActorSteps, Inv, TypeInv
  <1>6. LoopInv'
    BY <1>5 DEF LoopInv, Aborting, Starting
  <1>7. TypeInv'
    BY <1>1, <1>2, <1>3, <1>4, <1>5, <1>6, LoopKeepsType DEF Aborting
  <1>8. OwnerInv' /\ TerminalInv'
    BY <1>2, <1>5 DEF Inv, OwnerInv, TerminalInv, Aborting, Starting
  <1> QED
    BY <1>2, <1>7, <1>8 DEF Inv

LEMMA ReserveKeeps ==
    ASSUME LoopOnly, Inv, Reserve("loop") PROVE Inv'
  <1>1. /\ task \in [Turns -> TaskTypes]
        /\ ActiveOK /\ DataOK /\ terminal \in [Turns -> Nat] /\ allocated \in 0 .. MaxStates
    BY TypeSplit DEF Inv, TypeInv
  <1>2. /\ L.pc = "reserve"
        /\ UNCHANGED <<pending, phase, mailbox, task, history, terminal, fate, commands, asserts>>
    BY DEF Reserve, L
  <1>3. allocated + 3 <= MaxStates
    BY <1>2 DEF Inv, TypeInv, BoundInv
  <1>4. DataOK'
    BY <1>1, <1>2 DEF DataOK
  <1>5. CASE active # NoTurn
    <2>1. actor' \in [Starters -> ActorTypes] /\ L'.pc \in {"idle", "stopped"}
      BY <1>5, ReturnEffects DEF Reserve, Inv, TypeInv
    <2>2. UNCHANGED <<active, allocated>>
      BY <1>5 DEF Reserve
    <2>3. LoopInv' /\ ActiveOK'
      BY <1>1, <2>1, <2>2 DEF LoopInv, Aborting, Starting, ActiveOK
    <2>4. TypeInv'
      BY <1>1, <1>2, <1>4, <2>1, <2>2, <2>3, LoopKeepsType DEF Aborting
    <2>5. OwnerInv' /\ TerminalInv'
      BY <1>2, <2>1, <2>2 DEF Inv, OwnerInv, TerminalInv, Aborting, Starting
    <2> QED
      BY <1>2, <2>4, <2>5 DEF Inv
  <1>6. CASE active = NoTurn
    <2>1. actor' \in [Starters -> ActorTypes] /\ L'.pc = "get_turn"
      BY <1>6, GotoEffects DEF Reserve, Inv, TypeInv, ActorSteps
    <2>2. active' = [state |-> allocated + 1, task |-> None] /\ allocated' = allocated + 1
      BY <1>6 DEF Reserve, GetOrInsert
    <2>3. allocated + 1 \in States /\ allocated + 1 \in 0 .. MaxStates /\ allocated' + 2 <= MaxStates
      BY <1>1, <1>3, <2>2, BoundsAssumption DEF States
    <2>4. ActiveOK' /\ active'.task = None /\ active.task = None
      BY <1>6, <2>2, <2>3 DEF ActiveOK, NoTurn
    <2>5. LoopInv'
      BY <2>1 DEF LoopInv, Aborting, Starting
    <2>6. TypeInv'
      BY <1>1, <1>2, <1>4, <2>1, <2>2, <2>3, <2>4, <2>5, LoopKeepsType DEF Aborting
    <2>7. OwnerInv' /\ TerminalInv'
      BY <1>2, <2>1, <2>4 DEF Inv, OwnerInv, TerminalInv, Aborting, Starting
    <2> QED
      BY <1>2, <2>6, <2>7 DEF Inv
  <1> QED
    BY <1>5, <1>6

\* From here to Install no task is in the active turn: the loop emptied it and
\* only the loop fills it.
LEMMA GetTurnInputKeeps ==
    ASSUME LoopOnly, Inv, GetTurnInput("loop") PROVE Inv'
  <1>1. /\ task \in [Turns -> TaskTypes] /\ actor \in [Starters -> ActorTypes] /\ L \in ActorTypes
        /\ ActiveOK /\ DataOK /\ terminal \in [Turns -> Nat] /\ allocated \in 0 .. MaxStates
    BY TypeSplit DEF Inv, TypeInv, LoopOnly, L
  <1>2. /\ L.pc = "get_turn"
        /\ UNCHANGED <<active, phase, allocated, mailbox, task, history, terminal, fate, commands, asserts>>
    BY DEF GetTurnInput, L
  <1>3. allocated + 2 <= MaxStates
    BY <1>2 DEF Inv, TypeInv, BoundInv
  <1>4. pending' \in [States -> Seq(Items)]
    BY <1>1, NothingQueued DEF GetTurnInput, DataOK
  <1>5. DataOK' /\ ActiveOK'
    BY <1>1, <1>2, <1>4 DEF DataOK, ActiveOK
  <1>6. actor' \in [Starters -> ActorTypes] /\ L'.pc \in {"get_mail", "insert"}
    <2>1. CASE active = NoTurn
      BY <2>1, GotoEffects DEF GetTurnInput, ActorSteps, Inv, TypeInv
    <2>2. CASE active # NoTurn
      <3>1. active.state \in States
        BY <1>1, <2>2 DEF ActiveOK, NoTurn
      <3>2. pending[active.state] \in Seq(Items)
        BY <1>1, <3>1 DEF DataOK
      <3>3. PICK pc \in {"get_mail", "insert"} :
                actor' = [actor EXCEPT !["loop"] = [L EXCEPT !.pc = pc, !.buf = pending[active.state]]]
        BY <1>1, <2>2 DEF GetTurnInput, LoopOnly, L
      <3>4. /\ [L EXCEPT !.pc = pc, !.buf = pending[active.state]] \in ActorTypes
            /\ [L EXCEPT !.pc = pc, !.buf = pending[active.state]].pc = pc
        BY <1>1, <3>2 DEF ActorTypes, ActorSteps
      <3> QED
        BY <3>3, <3>4, LoopBecomes DEF Inv, TypeInv
    <2> QED
      BY <2>1, <2>2
  <1>7. LoopInv'
    BY <1>6 DEF LoopInv, Aborting, Starting
  <1>8. TypeInv'
    BY <1>1, <1>2, <1>3, <1>5, <1>6, <1>7, LoopKeepsType DEF Aborting
  <1>9. OwnerInv' /\ TerminalInv'
    BY <1>2, <1>6 DEF Inv, OwnerInv, TerminalInv, Aborting, Starting
  <1> QED
    BY <1>2, <1>8, <1>9 DEF Inv

LEMMA GetMailKeeps ==
    ASSUME LoopOnly, Inv, GetMail("loop") PROVE Inv'
  <1> DEFINE r == [L EXCEPT !.pc = "insert", !.buf = L.buf \o mailbox]
  <1>1. /\ task \in [Turns -> TaskTypes] /\ actor \in [Starters -> ActorTypes] /\ L \in ActorTypes
        /\ ActiveOK /\ DataOK /\ terminal \in [Turns -> Nat] /\ allocated \in 0 .. MaxStates
    BY TypeSplit DEF Inv, TypeInv, LoopOnly, L
  <1>2. /\ L.pc = "get_mail"
        /\ UNCHANGED <<active, pending, phase, allocated, task, history, terminal, fate, commands, asserts>>
    BY DEF GetMail, L
  <1>3. allocated + 2 <= MaxStates
    BY <1>2 DEF Inv, TypeInv, BoundInv
  <1>4. L.buf \o mailbox \in Seq(Items)
    BY <1>1, MailItems DEF DataOK, ActorTypes
  <1>5. r \in ActorTypes /\ r.pc = "insert"
    BY <1>1, <1>4 DEF ActorTypes, ActorSteps
  <1>6. actor' = [actor EXCEPT !["loop"] = r]
    BY <1>1 DEF GetMail, LoopOnly, L
  <1>7. actor' \in [Starters -> ActorTypes] /\ L'.pc = "insert"
    BY <1>5, <1>6, LoopBecomes DEF Inv, TypeInv
  <1>8. mailbox' = <<>> /\ mailbox' \in Seq(Mails)
    BY DEF GetMail
  <1>9. DataOK' /\ ActiveOK'
    BY <1>1, <1>2, <1>8 DEF DataOK, ActiveOK
  <1>10. LoopInv'
    BY <1>7 DEF LoopInv, Aborting, Starting
  <1>11. TypeInv'
    BY <1>1, <1>2, <1>3, <1>7, <1>9, <1>10, LoopKeepsType DEF Aborting
  <1>12. OwnerInv' /\ TerminalInv'
    BY <1>2, <1>7 DEF Inv, OwnerInv, TerminalInv, Aborting, Starting
  <1> QED
    BY <1>2, <1>11, <1>12 DEF Inv

LEMMA InsertTurnKeeps ==
    ASSUME LoopOnly, Inv, InsertTurn("loop") PROVE Inv'
  <1> DEFINE r == [L EXCEPT !.pc = "extend", !.state = active'.state]
  <1>1. /\ task \in [Turns -> TaskTypes] /\ actor \in [Starters -> ActorTypes] /\ L \in ActorTypes
        /\ ActiveOK /\ DataOK /\ terminal \in [Turns -> Nat] /\ allocated \in 0 .. MaxStates
    BY TypeSplit DEF Inv, TypeInv, LoopOnly, L
  <1>2. /\ L.pc = "insert"
        /\ UNCHANGED <<pending, phase, mailbox, task, history, terminal, fate, commands>>
    BY DEF InsertTurn, L
  <1>3. allocated + 2 <= MaxStates
    BY <1>2 DEF Inv, TypeInv, BoundInv
  <1>4. active.task = None
    BY <1>2 DEF Inv, OwnerInv, Starting
  <1>5. asserts'
    BY <1>4 DEF InsertTurn, Inv
  <1>6. /\ active' \in [state : States, task : {None}]
        /\ allocated' \in 0 .. MaxStates /\ allocated' + 1 <= MaxStates
    <2>1. CASE active = NoTurn
      <3>1. active' = [state |-> allocated + 1, task |-> None] /\ allocated' = allocated + 1
        BY <2>1 DEF InsertTurn, GetOrInsert
      <3> QED
        BY <1>1, <1>3, <3>1, BoundsAssumption DEF States
    <2>2. CASE active # NoTurn
      <3>1. active' = active /\ allocated' = allocated
        BY <2>2 DEF InsertTurn, GetOrInsert
      <3>2. active.state # None
        BY <1>1, <1>4, <2>2 DEF ActiveOK, NoTurn
      <3> QED
        BY <1>1, <1>3, <1>4, <3>1, <3>2, BoundsAssumption DEF ActiveOK
    <2> QED
      BY <2>1, <2>2
  <1>7. DataOK' /\ ActiveOK' /\ active'.task = None /\ active'.state \in States
    <2>1. DataOK'
      BY <1>1, <1>2, <1>5 DEF DataOK
    <2> QED
      BY <1>6, <2>1 DEF ActiveOK
  <1>8. r \in ActorTypes /\ r.pc = "extend" /\ r.state \in States
    BY <1>1, <1>7 DEF ActorTypes, ActorSteps
  <1>9. actor' = [actor EXCEPT !["loop"] = r]
    BY <1>1 DEF InsertTurn, LoopOnly, L
  <1>10. actor' \in [Starters -> ActorTypes] /\ L'.pc = "extend" /\ L'.state \in States
    BY <1>8, <1>9, LoopBecomes DEF Inv, TypeInv
  <1> HIDE DEF r
  <1>11. LoopInv'
    BY <1>10 DEF LoopInv, Aborting, Starting
  <1>12. TypeInv'
    BY <1>1, <1>2, <1>6, <1>7, <1>10, <1>11, LoopKeepsType DEF Aborting
  <1>13. OwnerInv' /\ TerminalInv'
    BY <1>2, <1>4, <1>7, <1>10 DEF Inv, OwnerInv, TerminalInv, Aborting, Starting
  <1> QED
    BY <1>5, <1>12, <1>13 DEF Inv

LEMMA ExtendPendingKeeps ==
    ASSUME LoopOnly, Inv, ExtendPending("loop") PROVE Inv'
  <1> DEFINE r == [L EXCEPT !.pc = "install", !.buf = <<>>]
  <1>1. /\ task \in [Turns -> TaskTypes] /\ actor \in [Starters -> ActorTypes] /\ L \in ActorTypes
        /\ ActiveOK /\ DataOK /\ terminal \in [Turns -> Nat] /\ allocated \in 0 .. MaxStates
    BY TypeSplit DEF Inv, TypeInv, LoopOnly, L
  <1>2. /\ L.pc = "extend"
        /\ UNCHANGED <<active, phase, allocated, mailbox, task, history, terminal, fate, commands, asserts>>
    BY DEF ExtendPending, L
  <1>3. allocated + 1 <= MaxStates /\ L.state \in States
    BY <1>2 DEF Inv, TypeInv, BoundInv, LoopInv
  <1>4. pending[L.state] \o L.buf \in Seq(Items)
    BY <1>1, <1>3 DEF DataOK, ActorTypes
  <1>5. pending' \in [States -> Seq(Items)]
    BY <1>1, <1>3, <1>4 DEF ExtendPending, DataOK, L
  <1>6. DataOK' /\ ActiveOK'
    BY <1>1, <1>2, <1>5 DEF DataOK, ActiveOK
  <1>7. r \in ActorTypes /\ r.pc = "install"
    BY <1>1, NothingQueued DEF ActorTypes, ActorSteps
  <1>8. actor' = [actor EXCEPT !["loop"] = r]
    BY <1>1 DEF ExtendPending, LoopOnly, L
  <1>9. actor' \in [Starters -> ActorTypes] /\ L'.pc = "install"
    BY <1>7, <1>8, LoopBecomes DEF Inv, TypeInv
  <1>10. LoopInv'
    BY <1>9 DEF LoopInv, Aborting, Starting
  <1>11. TypeInv'
    BY <1>1, <1>2, <1>3, <1>6, <1>9, <1>10, LoopKeepsType DEF Aborting
  <1>12. OwnerInv' /\ TerminalInv'
    BY <1>2, <1>9 DEF Inv, OwnerInv, TerminalInv, Aborting, Starting
  <1> QED
    BY <1>2, <1>11, <1>12 DEF Inv

\* The turn the new task is stored in is empty, so nothing is overwritten and
\* the new task is the only one inside its turn.
LEMMA InstallKeeps ==
    ASSUME LoopOnly, Inv, Install("loop") PROVE Inv'
  <1> DEFINE n == NewTurn
             born == [NoTask EXCEPT !.pc = "start", !.kind = L.kind, !.buf = L.input]
  <1>1. /\ task \in [Turns -> TaskTypes] /\ actor \in [Starters -> ActorTypes] /\ L \in ActorTypes
        /\ ActiveOK /\ DataOK /\ terminal \in [Turns -> Nat] /\ allocated \in 0 .. MaxStates
    BY TypeSplit DEF Inv, TypeInv, LoopOnly, L
  <1>2. /\ L.pc = "install"
        /\ UNCHANGED <<pending, phase, mailbox, history, terminal, commands>>
    BY DEF Install, L
  <1>3. allocated + 1 <= MaxStates /\ \E t \in Turns : task[t].pc = "unborn"
    BY <1>2 DEF Inv, TypeInv, BoundInv
  <1>4. active.task = None
    BY <1>2 DEF Inv, OwnerInv, Starting
  <1>5. asserts'
    BY <1>4 DEF Install, Inv
  <1>6. n \in Turns /\ task[n].pc = "unborn"
    BY <1>3 DEF NewTurn, Born
  <1>7. /\ born \in TaskTypes /\ born.pc = "start" /\ born.cancelled = FALSE
    <2>1. NoTask \in TaskTypes /\ L.kind \in {"regular", "other"} /\ L.input \in Seq(Items)
      BY <1>1, IdleTyped DEF ActorTypes
    <2>2. born \in TaskTypes /\ born.pc = "start" /\ born.cancelled = NoTask.cancelled
      BY <2>1 DEF TaskTypes, TaskSteps
    <2>3. NoTask.cancelled = FALSE
      BY DEF NoTask
    <2> QED
      BY <2>2, <2>3
  <1>8. task' = [task EXCEPT ![n] = born] /\ fate' = fate
    BY <1>4 DEF Install, L
  <1>9. /\ task' \in [Turns -> TaskTypes]
        /\ \A t \in Turns \ {n} : task'[t] = task[t]
        /\ task'[n].pc = "start" /\ task'[n].cancelled = FALSE
    BY <1>1, <1>6, <1>7, <1>8
  <1> HIDE DEF born
  <1>10. active'.task = n /\ active'.state \in States /\ allocated' \in 0 .. MaxStates
    <2>1. active' = [state |-> IF active = NoTurn THEN allocated + 1 ELSE active.state, task |-> n]
      BY DEF Install
    <2>2. active = NoTurn => allocated + 1 \in States
      BY <1>1, <1>3, BoundsAssumption DEF States
    <2>3. active # NoTurn => active.state \in States
      BY <1>1, <1>4 DEF ActiveOK, NoTurn
    <2>4. allocated' \in 0 .. MaxStates
      BY <1>1, <1>3, BoundsAssumption DEF Install
    <2> QED
      BY <2>1, <2>2, <2>3, <2>4
  <1>11. ActiveOK'
    <2>1. active' = [state |-> active'.state, task |-> n]
      BY DEF Install
    <2> QED
      BY <1>6, <1>10, <2>1 DEF ActiveOK, States, None
  <1>12. DataOK'
    BY <1>1, <1>2, <1>5, <1>8 DEF DataOK
  <1>13. actor' \in [Starters -> ActorTypes] /\ L'.pc \in {"idle", "stopped"}
    BY ReturnEffects DEF Install, Inv, TypeInv
  <1> HIDE DEF n
  <1>14. TypeInv'
    <2>1. TypeOK'
      BY <1>1, <1>2, <1>9, <1>10, <1>11, <1>12, <1>13, TypeSplit
    <2>2. BoundInv' /\ LoopInv'
      BY <1>13 DEF BoundInv, LoopInv, Aborting, Starting
    <2>3. \A t \in Turns : task'[t].pc = "flush" => task'[t].state \in States
      BY <1>9 DEF Inv, TypeInv
    <2> QED
      BY <2>1, <2>2, <2>3 DEF TypeInv
  <1>15. OwnerInv'
    <2>1. \A t \in Turns \ {n} : task'[t].pc \notin RunSteps \cup {"take"}
      BY <1>2, <1>4, <1>9 DEF Inv, OwnerInv, Turns, None
    <2> QED
      BY <1>9, <1>10, <1>13, <2>1 DEF OwnerInv, RunSteps, Aborting, Starting
  <1>16. TerminalInv'
    BY <1>2, <1>6, <1>9, <1>13 DEF Inv, TerminalInv
  <1> QED
    BY <1>5, <1>14, <1>15, <1>16 DEF Inv

-----------------------------------------------------------------------------
(* The theorems *)

LEMMA NextInv ==
    ASSUME LoopOnly PROVE Inv /\ [Next]_vars => Inv'
  <1> SUFFICES ASSUME Inv, [Next]_vars PROVE Inv'
    OBVIOUS
  <1>1. ASSUME NEW a \in Starters, ActorStep(a) PROVE Inv'
    <2>1. a = "loop" /\ ActorStep("loop")
      BY <1>1 DEF LoopOnly
    <2>2. ~TryStartIdle("loop")
      BY DEF TryStartIdle, ExtReserve, ExtRecheck, ExtConfirm, ExtClear, ExtExtend, Inv, TypeInv, LoopInv,
             Aborting, Starting, L
    <2> QED
      BY <2>1, <2>2, AbortTakeKeeps, AbortKillKeeps, AbortEventKeeps, AbortClearKeeps,
         MaybeStartKeeps, ReserveKeeps, GetTurnInputKeeps, GetMailKeeps, InsertTurnKeeps,
         ExtendPendingKeeps, InstallKeeps
      DEF ActorStep, AbortTurn, StartTask
  <1>2. ASSUME NEW t \in Turns, TaskStep(t) PROVE Inv'
    <2>1. TypeOK
      BY DEF Inv, TypeInv
    <2> QED
      BY <1>2, <2>1, RunTurnInside, InsideKeeps, TaskFinishKeeps, FinishTakeKeeps, FinishFlushKeeps,
         FinishRecordKeeps, FinishEventKeeps, FinishReleaseKeeps
      DEF TaskStep
  <1>3. CASE UNCHANGED vars
    <2>1. DataOK
      BY TypeSplit DEF Inv, TypeInv
    <2>2. DataOK'
      BY <1>3, <2>1 DEF vars, DataOK
    <2> QED
      BY <1>3, <2>2, QueuesKeeps DEF vars, Queues
  <1> QED
    BY <1>1, <1>2, <1>3, ClientKeeps DEF Next

LEMMA Invariant ==
    ASSUME LoopOnly PROVE Spec => []Inv
  <1>1. Init => Inv
    BY InitInv
  <1>2. Inv /\ [Next]_vars => Inv'
    BY NextInv
  <1> QED
    BY <1>1, <1>2, PTL DEF Spec

\* debug_assert!(turn.task.is_none()) in start_task never fails, and no
\* running task is dropped for a new one, while the submission loop is the
\* only one to start turns.
THEOREM NeverOverwrites ==
    ASSUME LoopOnly PROVE Spec => []NoTaskOverwritten
  <1>1. Inv => NoTaskOverwritten
    BY DEF Inv, NoTaskOverwritten
  <1> QED
    BY <1>1, Invariant, PTL

\* "A session has at most 1 running task at a time", the cancelled task that
\* is still in its grace period included.
THEOREM OneRunner ==
    ASSUME LoopOnly PROVE Spec => []SingleRunner
  <1>1. Inv => SingleRunner
    <2> SUFFICES ASSUME Inv, NEW t \in Turns, NEW u \in Turns, Running(t), Running(u)
                 PROVE  t = u
      BY DEF SingleRunner
    <2>1. task[t].pc \in RunSteps /\ task[u].pc \in RunSteps
      BY DEF Running, RunSteps
    <2>2. CASE L.pc = "kill"
      <3>1. active.task = None
        BY <2>2 DEF Inv, OwnerInv, Aborting, NoTurn
      <3> QED
        BY <2>1, <3>1 DEF Inv, OwnerInv, Turns, None
    <2>3. CASE L.pc # "kill"
      BY <2>1, <2>3 DEF Inv, OwnerInv
    <2> QED
      BY <2>2, <2>3
  <1> QED
    BY <1>1, Invariant, PTL

\* on_task_finished and handle_task_abort never both send the terminal event
\* of a turn, and neither sends it twice.
THEOREM EndsOnce ==
    ASSUME LoopOnly PROVE Spec => []TerminalOnce
  <1>1. Inv => TerminalOnce
    BY DEF Inv, TerminalInv, TerminalOnce
  <1> QED
    BY <1>1, Invariant, PTL

-----------------------------------------------------------------------------
(* Room: what the operations under way may still allocate and start *)

\* The steps of try_start_turn_if_idle.
ExtSteps == {"ext_reserve", "ext_recheck", "ext_confirm", "ext_clear", "ext_extend"}

\* The turn states an operation may still allocate.
Demand(pc) ==
    IF pc \in {"idle", "stopped"} THEN 0
    ELSE IF pc \in {"extend", "install"} THEN 1
    ELSE IF pc \in {"ext_extend", "get_turn", "get_mail", "insert"} THEN 2
    ELSE IF pc = "ext_reserve" THEN 4 ELSE 3
Need(a) == IF a \in Starters THEN Demand(actor[a].pc) ELSE 0

\* What the operations under way may still allocate and start fits the bounds.
RoomInv ==
    /\ allocated + Need("loop") + Need("ext") + Need("guardian") <= MaxStates
    /\ Cardinality(Born) + Cardinality(Busy) <= MaxTurns

\* The operands of an operation exist where a step uses them.
OperandsOK(r) ==
    /\ r.pc \in Aborting => r.victim \in Born /\ r.vstate \in States
    /\ r.pc \in {"extend", "ext_recheck", "ext_confirm", "ext_clear", "ext_extend"} => r.state \in States
    /\ r.pc \in ExtSteps => Len(r.input) = 1

\* The invariant of a session, whoever starts and aborts its turns.
SessionInv ==
    /\ TypeOK
    /\ RoomInv
    /\ \A a \in Starters : OperandsOK(actor[a])
    /\ active.task \in Born \cup {None}
    /\ \A t \in Turns : task[t].pc = "flush" => task[t].state \in States

\* Turns and starters are few enough to count.
LEMMA SetsFinite ==
    /\ IsFiniteSet(Born) /\ Cardinality(Born) \in Nat
    /\ IsFiniteSet(Busy) /\ Cardinality(Busy) \in Nat
    /\ IsFiniteSet(Born') /\ Cardinality(Born') \in Nat
    /\ IsFiniteSet(Busy') /\ Cardinality(Busy') \in Nat
  <1>1. IsFiniteSet(Turns)
    BY FS_Interval, BoundsAssumption DEF Turns
  <1>2. IsFiniteSet({"loop", "ext", "guardian"})
    <2>1. IsFiniteSet({})
      BY FS_EmptySet
    <2>2. IsFiniteSet({} \cup {"loop"})
      BY <2>1, FS_AddElement
    <2>3. IsFiniteSet(({} \cup {"loop"}) \cup {"ext"})
      BY <2>2, FS_AddElement
    <2>4. IsFiniteSet((({} \cup {"loop"}) \cup {"ext"}) \cup {"guardian"})
      BY <2>3, FS_AddElement
    <2>5. (({} \cup {"loop"}) \cup {"ext"}) \cup {"guardian"} = {"loop", "ext", "guardian"}
      OBVIOUS
    <2> QED
      BY <2>4, <2>5
  <1>3. Born \subseteq Turns /\ Born' \subseteq Turns
    BY DEF Born
  <1>4. Busy \subseteq {"loop", "ext", "guardian"} /\ Busy' \subseteq {"loop", "ext", "guardian"}
    BY SetsAssumption DEF Busy
  <1>5. IsFiniteSet(Born) /\ IsFiniteSet(Born') /\ IsFiniteSet(Busy) /\ IsFiniteSet(Busy')
    BY <1>1, <1>2, <1>3, <1>4, FS_Subset
  <1> QED
    BY <1>5, FS_CardinalityType

\* Each operation under way demands no more than an admitted one counts for.
LEMMA DemandCounted ==
    ASSUME TypeOK
    PROVE  /\ Need("loop") + Need("ext") + Need("guardian") <= 4 * Cardinality(Busy)
           /\ \A a \in {"loop", "ext", "guardian"} : Need(a) \in Nat
  <1> DEFINE One(a) == IF a \in Busy THEN 1 ELSE 0
             S1 == Busy \cap {"loop"}
             S2 == Busy \cap {"loop", "ext"}
             S3 == Busy \cap {"loop", "ext", "guardian"}
  <1>1. \A a \in {"loop", "ext", "guardian"} : Need(a) \in Nat /\ Need(a) <= 4 * One(a)
    BY DEF Need, Demand, Busy
  <1>2. IsFiniteSet({}) /\ Cardinality({}) = 0
    BY FS_EmptySet
  <1>3. IsFiniteSet(S1) /\ Cardinality(S1) = One("loop")
    <2>1. CASE "loop" \in Busy
      <3>1. S1 = {} \cup {"loop"} /\ "loop" \notin {}
        BY <2>1
      <3> QED
        BY <1>2, <2>1, <3>1, FS_AddElement
    <2>2. CASE "loop" \notin Busy
      <3>1. S1 = {}
        BY <2>2
      <3> QED
        BY <1>2, <2>2, <3>1
    <2> QED
      BY <2>1, <2>2
  <1>4. IsFiniteSet(S2) /\ Cardinality(S2) = One("loop") + One("ext")
    <2>1. CASE "ext" \in Busy
      <3>1. S2 = S1 \cup {"ext"} /\ "ext" \notin S1
        BY <2>1
      <3> QED
        BY <1>3, <2>1, <3>1, FS_AddElement
    <2>2. CASE "ext" \notin Busy
      <3>1. S2 = S1
        BY <2>2
      <3> QED
        BY <1>3, <2>2, <3>1
    <2> QED
      BY <2>1, <2>2
  <1>5. IsFiniteSet(S3) /\ Cardinality(S3) = One("loop") + One("ext") + One("guardian")
    <2>1. CASE "guardian" \in Busy
      <3>1. S3 = S2 \cup {"guardian"} /\ "guardian" \notin S2
        BY <2>1
      <3> QED
        BY <1>4, <2>1, <3>1, FS_AddElement
    <2>2. CASE "guardian" \notin Busy
      <3>1. S3 = S2
        BY <2>2
      <3> QED
        BY <1>4, <2>2, <3>1
    <2> QED
      BY <2>1, <2>2
  <1>6. S3 = Busy
    BY SetsAssumption DEF Busy
  <1>7. \A a \in {"loop", "ext", "guardian"} : One(a) \in Nat
    OBVIOUS
  <1> HIDE DEF One
  <1>8. Cardinality(Busy) = One("loop") + One("ext") + One("guardian")
    BY <1>5, <1>6
  <1> QED
    BY <1>1, <1>7, <1>8

\* An operation that is under way takes a step, or begins: what it may still
\* allocate does not grow beyond what was counted for it.
LEMMA RoomKept ==
    ASSUME SessionInv, NEW a \in Starters, \A b \in Starters \ {a} : actor'[b] = actor[b],
           allocated \in Nat, allocated' \in Nat,
           allocated' + Demand(actor'[a].pc) <= allocated + Demand(actor[a].pc)
    PROVE  /\ allocated' + Need("loop")' + Need("ext")' + Need("guardian")' <= MaxStates
           /\ allocated' \in 0 .. MaxStates
  <1> DEFINE Names == {"loop", "ext", "guardian"}
  <1>1. \A b \in Names : Need(b) \in Nat /\ Need(b)' \in Nat
    BY DEF Need, Demand
  <1>2. \A b \in Names \ {a} : Need(b)' = Need(b)
    BY DEF Need
  <1>3. a \in Names /\ Need(a) = Demand(actor[a].pc) /\ Need(a)' = Demand(actor'[a].pc)
    BY SetsAssumption DEF Need
  <1>4. allocated' + Need(a)' <= allocated + Need(a)
    BY <1>3
  <1>5. allocated + Need("loop") + Need("ext") + Need("guardian") <= MaxStates
    BY DEF SessionInv, RoomInv
  <1>6. allocated' + Need("loop")' + Need("ext")' + Need("guardian")' <= MaxStates
    <2>1. CASE a = "loop"
      <3>1. Need("ext")' = Need("ext") /\ Need("guardian")' = Need("guardian")
        BY <1>2, <2>1
      <3> HIDE DEF Need
      <3> QED
        BY <1>1, <1>4, <1>5, <2>1, <3>1, BoundsAssumption
    <2>2. CASE a = "ext"
      <3>1. Need("loop")' = Need("loop") /\ Need("guardian")' = Need("guardian")
        BY <1>2, <2>2
      <3> QED
        BY <1>1, <1>4, <1>5, <2>2, <3>1, BoundsAssumption
    <2>3. CASE a = "guardian"
      <3>1. Need("loop")' = Need("loop") /\ Need("ext")' = Need("ext")
        BY <1>2, <2>3
      <3> QED
        BY <1>1, <1>4, <1>5, <2>3, <3>1, BoundsAssumption
    <2> QED
      BY <1>3, <2>1, <2>2, <2>3
  <1> QED
    BY <1>1, <1>6, BoundsAssumption

\* The turns a step without a new turn or operation leaves room for.
LEMMA CountsKept ==
    ASSUME SessionInv, Born' = Born, Busy' \subseteq Busy
    PROVE  Cardinality(Born') + Cardinality(Busy') <= MaxTurns
  <1>2. Cardinality(Born') = Cardinality(Born) /\ Cardinality(Busy') <= Cardinality(Busy)
    BY SetsFinite, FS_Subset
  <1>3. Cardinality(Born) + Cardinality(Busy) <= MaxTurns
    BY DEF SessionInv, RoomInv
  <1> QED
    BY <1>2, <1>3, SetsFinite, BoundsAssumption

\* A step of an operation under way.
LEMMA OperationKept ==
    ASSUME SessionInv, NEW a \in Starters, NEW r \in ActorTypes, OperandsOK(r),
           actor' = [actor EXCEPT ![a] = r], actor[a].pc \notin {"idle", "stopped"},
           allocated' \in Nat, allocated' + Demand(r.pc) <= allocated + Demand(actor[a].pc),
           ActiveOK', active'.task \in Born \cup {None}, DataOK',
           terminal' \in [Turns -> Nat], task' \in [Turns -> TaskTypes],
           \A t \in Turns : task'[t].pc = "flush" => task'[t].state \in States, Born' = Born
    PROVE  SessionInv'
  <1>1. allocated \in 0 .. MaxStates /\ actor \in [Starters -> ActorTypes]
    BY TypeSplit DEF SessionInv
  <1>2. actor'[a] = r /\ \A b \in Starters \ {a} : actor'[b] = actor[b]
    BY <1>1
  <1>3. /\ allocated' + Need("loop")' + Need("ext")' + Need("guardian")' <= MaxStates
        /\ allocated' \in 0 .. MaxStates
    BY <1>1, <1>2, RoomKept
  <1>4. Busy' \subseteq Busy
    BY <1>2 DEF Busy
  <1>5. RoomInv'
    BY <1>3, <1>4, CountsKept DEF RoomInv
  <1>6. TypeOK'
    BY <1>1, <1>3, TypeSplit
  <1>7. \A b \in Starters : OperandsOK(actor[b])'
    BY <1>2 DEF SessionInv, OperandsOK
  <1> QED
    BY <1>5, <1>6, <1>7 DEF SessionInv

\* A step that no operation takes: of a task, or of a client that only queues.
LEMMA OthersKept ==
    ASSUME SessionInv, UNCHANGED <<actor, allocated>>,
           ActiveOK', active'.task \in Born \cup {None}, DataOK',
           terminal' \in [Turns -> Nat], task' \in [Turns -> TaskTypes],
           \A t \in Turns : task'[t].pc = "flush" => task'[t].state \in States, Born' = Born
    PROVE  SessionInv'
  <1>1. TypeOK'
    BY TypeSplit DEF SessionInv
  <1>2. Busy' = Busy
    BY DEF Busy
  <1>3. RoomInv'
    BY <1>2, CountsKept DEF SessionInv, RoomInv, Need
  <1> QED
    BY <1>1, <1>3 DEF SessionInv, OperandsOK

\* An operation is admitted.
LEMMA AdmissionKept ==
    ASSUME SessionInv, NEW a \in Starters, NEW r \in ActorTypes, OperandsOK(r),
           Begin(a, r), actor[a].pc = "idle", RoomForTurn, UNCHANGED <<allocated, terminal>>,
           ActiveOK', active'.task \in Born \cup {None}, DataOK', task' \in [Turns -> TaskTypes],
           \A t \in Turns : task'[t].pc = task[t].pc /\ task'[t].state = task[t].state
    PROVE  SessionInv'
  <1>1. allocated \in 0 .. MaxStates /\ actor \in [Starters -> ActorTypes] /\ terminal' \in [Turns -> Nat]
    BY TypeSplit DEF SessionInv
  <1>2. actor'[a] = r /\ \A b \in Starters \ {a} : actor'[b] = actor[b]
    BY <1>1 DEF Begin
  <1>3. actor' \in [Starters -> ActorTypes]
    BY <1>1 DEF Begin
  <1>4. Busy' \subseteq Busy \cup {a} /\ a \notin Busy
    BY <1>2 DEF Busy
  <1>5. Born' = Born
    BY DEF Born
  <1>6. Cardinality(Busy') <= Cardinality(Busy) + 1
    <2>1. IsFiniteSet(Busy \cup {a}) /\ Cardinality(Busy \cup {a}) = Cardinality(Busy) + 1
      BY <1>4, SetsFinite, FS_AddElement
    <2>2. Cardinality(Busy') <= Cardinality(Busy \cup {a})
      BY <1>4, <2>1, FS_Subset
    <2> QED
      BY <2>1, <2>2
  <1>7. Cardinality(Born') + Cardinality(Busy') <= MaxTurns
    BY <1>5, <1>6, SetsFinite, BoundsAssumption DEF RoomForTurn
  <1>8. allocated + Need("loop")' + Need("ext")' + Need("guardian")' <= MaxStates
    <2> DEFINE Names == {"loop", "ext", "guardian"}
    <2>1. \A b \in Names : Need(b) \in Nat /\ Need(b)' \in Nat
      BY DEF Need, Demand
    <2>2. \A b \in Names \ {a} : Need(b)' = Need(b)
      BY <1>2 DEF Need
    <2>3. a \in Names /\ Need(a) = 0 /\ Need(a)' <= 4
      BY <1>2, SetsAssumption DEF Need, Demand
    <2>4. Need("loop") + Need("ext") + Need("guardian") <= 4 * Cardinality(Busy)
      BY DemandCounted DEF SessionInv
    <2>5. allocated + 4 * (Cardinality(Busy) + 1) <= MaxStates
      BY DEF RoomForTurn
    <2> DEFINE N1 == Need("loop")  N2 == Need("ext")  N3 == Need("guardian")
               M1 == Need("loop")'  M2 == Need("ext")'  M3 == Need("guardian")'
               C == Cardinality(Busy)
    <2>6. M1 + M2 + M3 <= N1 + N2 + N3 + 4
      <3>1. CASE a = "loop"
        BY <2>1, <2>2, <2>3, <3>1
      <3>2. CASE a = "ext"
        BY <2>1, <2>2, <2>3, <3>2
      <3>3. CASE a = "guardian"
        BY <2>1, <2>2, <2>3, <3>3
      <3> QED
        BY <2>3, <3>1, <3>2, <3>3
    <2>7. N1 \in Nat /\ N2 \in Nat /\ N3 \in Nat /\ M1 \in Nat /\ M2 \in Nat /\ M3 \in Nat /\ C \in Nat
      BY <2>1, SetsFinite
    <2>8. N1 + N2 + N3 <= 4 * C /\ allocated + 4 * (C + 1) <= MaxStates
      BY <2>4, <2>5
    <2>9. allocated \in Nat /\ MaxStates \in Nat
      BY <1>1, BoundsAssumption
    <2> HIDE DEF N1, N2, N3, M1, M2, M3, C
    <2>10. allocated + M1 + M2 + M3 <= MaxStates
      BY <2>6, <2>7, <2>8, <2>9
    <2> QED
      BY <2>10 DEF M1, M2, M3
  <1>9. RoomInv'
    BY <1>7, <1>8 DEF RoomInv
  <1>10. TypeOK'
    BY <1>1, <1>3, TypeSplit
  <1>11. \A b \in Starters : OperandsOK(actor[b])'
    BY <1>2, <1>5 DEF SessionInv, OperandsOK
  <1> QED
    BY <1>5, <1>9, <1>10, <1>11 DEF SessionInv

-----------------------------------------------------------------------------
(* Types, for any starters: aborting a turn *)

\* What every step starts from.
LEMMA Typed ==
    ASSUME SessionInv
    PROVE  /\ TypeOK /\ ActiveOK /\ DataOK
           /\ allocated \in 0 .. MaxStates /\ allocated \in Nat
           /\ task \in [Turns -> TaskTypes] /\ actor \in [Starters -> ActorTypes]
           /\ terminal \in [Turns -> Nat]
           /\ active # NoTurn => active.state \in States
           /\ active.task # None => active.task \in Turns /\ active.task \in Born /\ active.state \in States
           /\ Born \subseteq Turns
  <1>1. /\ TypeOK /\ ActiveOK /\ DataOK /\ allocated \in 0 .. MaxStates
        /\ task \in [Turns -> TaskTypes] /\ actor \in [Starters -> ActorTypes]
        /\ terminal \in [Turns -> Nat]
    BY TypeSplit DEF SessionInv
  <1>2. active # NoTurn => active.state \in States
    BY <1>1 DEF ActiveOK, NoTurn
  <1>3. active.task # None => active.task \in Born /\ active.state \in States
    BY <1>1 DEF ActiveOK, SessionInv
  <1>4. Born \subseteq Turns
    BY DEF Born
  <1> QED
    BY <1>1, <1>2, <1>3, <1>4, BoundsAssumption

\* An operation ends: nothing is left in its hands.
LEMMA Returns ==
    ASSUME NEW a \in Starters, Return(a)
    PROVE  \E r \in ActorTypes : /\ actor' = [actor EXCEPT ![a] = r]
                                 /\ r.pc \in {"idle", "stopped"} /\ r.reason = "none"
                                 /\ r.buf = <<>> /\ r.input = <<>>
  <1>1. [IdleActor EXCEPT !.pc = "stopped"] \in ActorTypes /\ IdleActor \in ActorTypes
    BY IdleTyped DEF ActorTypes, ActorSteps
  <1>2. PICK r \in {IdleActor, [IdleActor EXCEPT !.pc = "stopped"]} : actor' = [actor EXCEPT ![a] = r]
    BY DEF Return
  <1>3. r \in ActorTypes
    BY <1>1, <1>2
  <1>4. r.pc \in {"idle", "stopped"} /\ r.reason = "none" /\ r.buf = <<>> /\ r.input = <<>>
    BY DEF IdleActor
  <1> QED
    BY <1>2, <1>3, <1>4

\* The session after an operation that ends.
LEMMA OperationReturns ==
    ASSUME SessionInv, NEW a \in Starters, actor[a].pc \notin {"idle", "stopped"}, Return(a),
           allocated' = allocated, ActiveOK', active'.task \in Born \cup {None}, DataOK',
           UNCHANGED <<task, terminal>>
    PROVE  SessionInv'
  <1>1. PICK r \in ActorTypes : actor' = [actor EXCEPT ![a] = r] /\ r.pc \in {"idle", "stopped"}
    BY Returns
  <1>2. OperandsOK(r) /\ Demand(r.pc) = 0 /\ Demand(actor[a].pc) \in Nat
    BY <1>1 DEF OperandsOK, Aborting, ExtSteps, Demand
  <1>3. (\A t \in Turns : task[t].pc = "flush" => task[t].state \in States) /\ Born' = Born
    BY DEF SessionInv, Born
  <1>4. allocated' \in Nat /\ allocated' + Demand(r.pc) <= allocated + Demand(actor[a].pc)
    BY <1>2, Typed
  <1> QED
    BY <1>1, <1>2, <1>3, <1>4, Typed, OperationKept

\* An operation goes on at another step.
LEMMA GoesTo ==
    ASSUME TypeOK, NEW a \in Starters, NEW pc \in ActorSteps, Goto(a, pc)
    PROVE  /\ [actor[a] EXCEPT !.pc = pc] \in ActorTypes
           /\ actor' = [actor EXCEPT ![a] = [actor[a] EXCEPT !.pc = pc]]
           /\ [actor[a] EXCEPT !.pc = pc].pc = pc
           /\ [actor[a] EXCEPT !.pc = pc].victim = actor[a].victim
           /\ [actor[a] EXCEPT !.pc = pc].vstate = actor[a].vstate
           /\ [actor[a] EXCEPT !.pc = pc].state = actor[a].state
           /\ [actor[a] EXCEPT !.pc = pc].input = actor[a].input
           /\ [actor[a] EXCEPT !.pc = pc].buf = actor[a].buf
  <1>1. actor[a] \in ActorTypes
    BY TypeSplit
  <1>2. [actor[a] EXCEPT !.pc = pc] \in ActorTypes
    BY <1>1 DEF ActorTypes
  <1>3. actor' = [actor EXCEPT ![a] = [actor[a] EXCEPT !.pc = pc]]
    BY TypeSplit DEF Goto
  <1> QED
    BY <1>1, <1>2, <1>3 DEF ActorTypes

\* The session after an operation that goes on.
LEMMA OperationGoes ==
    ASSUME SessionInv, NEW a \in Starters, NEW pc \in ActorSteps, Goto(a, pc),
           actor[a].pc \notin {"idle", "stopped"},
           pc \in Aborting => actor[a].victim \in Born /\ actor[a].vstate \in States,
           pc \in {"extend", "ext_recheck", "ext_confirm", "ext_clear", "ext_extend"} => actor[a].state \in States,
           pc \in ExtSteps => Len(actor[a].input) = 1,
           allocated' \in Nat, allocated' + Demand(pc) <= allocated + Demand(actor[a].pc),
           ActiveOK', active'.task \in Born \cup {None}, DataOK',
           terminal' \in [Turns -> Nat], task' \in [Turns -> TaskTypes],
           \A t \in Turns : task'[t].pc = "flush" => task'[t].state \in States, Born' = Born
    PROVE  SessionInv'
  <1> DEFINE r == [actor[a] EXCEPT !.pc = pc]
  <1>1. /\ r \in ActorTypes /\ actor' = [actor EXCEPT ![a] = r]
        /\ r.pc = pc /\ r.victim = actor[a].victim /\ r.vstate = actor[a].vstate
        /\ r.state = actor[a].state /\ r.input = actor[a].input
    BY GoesTo, Typed
  <1> HIDE DEF r
  <1>2. OperandsOK(r)
    BY <1>1 DEF OperandsOK
  <1> QED
    BY <1>1, <1>2, OperationKept

\* What is to be done after an abort needs no more turn states than the abort.
LEMMA AfterAbortKept ==
    ASSUME SessionInv, NEW a \in Starters, NEW done \in BOOLEAN, AfterAbort(a, done),
           actor[a].pc \in {"abort"} \cup Aborting,
           ActiveOK', active'.task \in Born \cup {None}, DataOK', UNCHANGED <<allocated, task, terminal>>
    PROVE  SessionInv'
  <1>1. allocated' \in Nat /\ task' \in [Turns -> TaskTypes] /\ terminal' \in [Turns -> Nat]
    BY Typed
  <1>2. (\A t \in Turns : task'[t].pc = "flush" => task'[t].state \in States) /\ Born' = Born
    BY DEF SessionInv, Born
  <1>3. actor[a].pc \notin {"idle", "stopped"} /\ Demand(actor[a].pc) = 3
    BY DEF Aborting, Demand
  <1>4. ASSUME NEW pc \in {"get_turn", "maybe"}, Goto(a, pc) PROVE SessionInv'
    <2>1. pc \in ActorSteps /\ pc \notin Aborting \cup ExtSteps \cup {"extend"} /\ Demand(pc) <= 3 /\ Demand(pc) \in Nat
      BY <1>4 DEF ActorSteps, Aborting, ExtSteps, Demand
    <2>2. allocated' + Demand(pc) <= allocated + Demand(actor[a].pc)
      BY <1>3, <2>1, Typed
    <2> QED
      BY <1>1, <1>2, <1>3, <1>4, <2>1, <2>2, OperationGoes DEF ExtSteps
  <1>5. ASSUME Return(a) PROVE SessionInv'
    BY <1>3, <1>5, OperationReturns
  <1> QED
    BY <1>4, <1>5 DEF AfterAbort

\* take_active_turn leaves no turn and no task.
LEMMA NoTurnOK == ASSUME active' = NoTurn PROVE ActiveOK' /\ active'.task = None
  BY DEF ActiveOK, NoTurn, None

\* A task that was spawned stays spawned.
LEMMA BornKept ==
    ASSUME \A t \in Turns : task[t].pc = "unborn" <=> task'[t].pc = "unborn" PROVE Born' = Born
  BY DEF Born

\* A task is told to stop, and nothing else changes for it.
LEMMA CancelTyped ==
    ASSUME TypeOK, NEW t \in Turns, task' = [task EXCEPT ![t].cancelled = TRUE]
    PROVE  /\ task' \in [Turns -> TaskTypes]
           /\ \A u \in Turns : task'[u].pc = task[u].pc /\ task'[u].state = task[u].state /\ task'[u].buf = task[u].buf
  <1> DEFINE r == [task[t] EXCEPT !.cancelled = TRUE]
  <1>1. task[t] \in TaskTypes /\ task \in [Turns -> TaskTypes]
    BY TypeSplit
  <1>2. r \in TaskTypes /\ r.pc = task[t].pc /\ r.state = task[t].state /\ r.buf = task[t].buf
    BY <1>1 DEF TaskTypes
  <1>3. task' = [task EXCEPT ![t] = r]
    BY <1>1
  <1> QED
    BY <1>1, <1>2, <1>3

\* take_active_turn, the task found there cancelled.
LEMMA AbortTakeTyped ==
    ASSUME SessionInv, NEW a \in Starters, AbortTake(a) PROVE SessionInv'
  <1>1. ActiveOK' /\ active'.task \in Born \cup {None}
    BY NoTurnOK DEF AbortTake
  <1>2. DataOK'
    BY Typed DEF AbortTake, DataOK
  <1>3. CASE active.task # None
    <2> DEFINE r == [actor[a] EXCEPT !.pc = "kill", !.victim = active.task, !.vstate = active.state]
    <2>1. r \in ActorTypes /\ r.pc = "kill" /\ r.victim = active.task /\ r.vstate = active.state
      <3>1. actor[a] \in ActorTypes /\ active.task \in Turns /\ active.state \in States
        BY <1>3, Typed
      <3> QED
        BY <3>1 DEF ActorTypes, ActorSteps
    <2>2. actor' = [actor EXCEPT ![a] = r]
      BY <1>3, Typed DEF AbortTake
    <2>3. OperandsOK(r)
      BY <1>3, <2>1, Typed DEF OperandsOK, Aborting, ExtSteps
    <2>4. /\ task' \in [Turns -> TaskTypes]
          /\ \A u \in Turns : task'[u].pc = task[u].pc /\ task'[u].state = task[u].state
      BY <1>3, Typed, CancelTyped DEF AbortTake
    <2>5. allocated' \in Nat /\ allocated' + Demand(r.pc) <= allocated + Demand(actor[a].pc)
      BY <2>1, Typed DEF AbortTake, Demand
    <2>6. actor[a].pc \notin {"idle", "stopped"} /\ terminal' \in [Turns -> Nat]
      BY Typed DEF AbortTake
    <2>7. (\A t \in Turns : task'[t].pc = "flush" => task'[t].state \in States) /\ Born' = Born
      BY <2>4 DEF SessionInv, Born
    <2> HIDE DEF r
    <2> QED
      BY <1>1, <1>2, <2>1, <2>2, <2>3, <2>4, <2>5, <2>6, <2>7, OperationKept
  <1>4. CASE active.task = None
    BY <1>1, <1>2, <1>4, AfterAbortKept DEF AbortTake
  <1> QED
    BY <1>3, <1>4

\* A task is killed, with the items it holds.
LEMMA KillTyped ==
    ASSUME TypeOK, NEW t \in Turns,
           task' = [task EXCEPT ![t] = [@ EXCEPT !.pc = "killed", !.buf = <<>>]]
    PROVE  /\ task' \in [Turns -> TaskTypes]
           /\ task'[t].pc = "killed" /\ task'[t].buf = <<>>
           /\ \A u \in Turns \ {t} : task'[u] = task[u]
  <1> DEFINE r == [task[t] EXCEPT !.pc = "killed", !.buf = <<>>]
  <1>1. task[t] \in TaskTypes /\ task \in [Turns -> TaskTypes]
    BY TypeSplit
  <1>2. r \in TaskTypes /\ r.pc = "killed" /\ r.buf = <<>>
    BY <1>1, NothingQueued DEF TaskTypes, TaskSteps
  <1>3. task' = [task EXCEPT ![t] = r]
    BY <1>1
  <1> QED
    BY <1>1, <1>2, <1>3

\* The grace period is over.
LEMMA AbortKillTyped ==
    ASSUME SessionInv, NEW a \in Starters, AbortKill(a) PROVE SessionInv'
  <1> DEFINE v == actor[a].victim
  <1>1. v \in Born /\ v \in Turns /\ actor[a].vstate \in States /\ actor[a].pc = "kill"
    BY Typed DEF AbortKill, SessionInv, OperandsOK, Aborting
  <1>2. /\ task' \in [Turns -> TaskTypes]
        /\ \A u \in Turns : task'[u] = task[u] \/ (u = v /\ task'[u].pc = "killed")
    BY <1>1, Typed, KillTyped DEF AbortKill
  <1>3. DataOK'
    BY Typed, AbandonTyped DEF AbortKill, DataOK
  <1>4. ActiveOK' /\ active'.task \in Born \cup {None} /\ terminal' \in [Turns -> Nat]
    BY Typed DEF AbortKill, ActiveOK
  <1>5. Goto(a, "event") /\ "event" \in ActorSteps /\ "event" \notin ExtSteps
    BY DEF AbortKill, ActorSteps, ExtSteps
  <1>6. allocated' \in Nat /\ allocated' + Demand("event") <= allocated + Demand(actor[a].pc)
    BY <1>1, Typed DEF AbortKill, Demand
  <1>7. \A t \in Turns : task'[t].pc = "flush" => task'[t].state \in States
    BY <1>2 DEF SessionInv
  <1>8. Born' = Born
    BY <1>1, <1>2 DEF Born
  <1> QED
    BY <1>1, <1>2, <1>3, <1>4, <1>5, <1>6, <1>7, <1>8, OperationGoes

-----------------------------------------------------------------------------
(* Types, for any starters: starting a turn *)

\* The parts a step leaves alone.
LEMMA TasksAlone ==
    ASSUME SessionInv, UNCHANGED <<task, terminal>>
    PROVE  /\ task' \in [Turns -> TaskTypes] /\ terminal' \in [Turns -> Nat] /\ Born' = Born
           /\ \A t \in Turns : task'[t].pc = "flush" => task'[t].state \in States
  BY Typed DEF SessionInv, Born

\* The active turn is left alone.
LEMMA ActiveAlone ==
    ASSUME SessionInv, active' = active PROVE ActiveOK' /\ active'.task \in Born \cup {None}
  BY Typed DEF SessionInv, ActiveOK

\* TurnAborted is sent.
LEMMA AbortEventTyped ==
    ASSUME SessionInv, NEW a \in Starters, AbortEvent(a) PROVE SessionInv'
  <1>1. actor[a].victim \in Born /\ actor[a].vstate \in States /\ actor[a].pc = "event"
    BY DEF AbortEvent, SessionInv, OperandsOK, Aborting
  <1>2. terminal' \in [Turns -> Nat]
    <2>1. terminal[actor[a].victim] + 1 \in Nat
      BY <1>1, Typed
    <2> QED
      BY <1>1, <2>1, Typed DEF AbortEvent
  <1>3. /\ task' \in [Turns -> TaskTypes] /\ Born' = Born
        /\ \A t \in Turns : task'[t].pc = "flush" => task'[t].state \in States
    BY Typed DEF AbortEvent, SessionInv, Born
  <1>4. DataOK' /\ ActiveOK' /\ active'.task \in Born \cup {None}
    BY Typed, ActiveAlone DEF AbortEvent, DataOK
  <1>5. Goto(a, "clear") /\ "clear" \in ActorSteps /\ "clear" \notin ExtSteps
    BY DEF AbortEvent, ActorSteps, ExtSteps
  <1>6. allocated' \in Nat /\ allocated' + Demand("clear") <= allocated + Demand(actor[a].pc)
    BY <1>1, Typed DEF AbortEvent, Demand
  <1> QED
    BY <1>1, <1>2, <1>3, <1>4, <1>5, <1>6, OperationGoes

\* The pending input of the aborted turn is cleared.
LEMMA AbortClearTyped ==
    ASSUME SessionInv, NEW a \in Starters, AbortClear(a) PROVE SessionInv'
  <1>1. DataOK'
    BY Typed, AbandonTyped, NothingQueued DEF AbortClear, DataOK
  <1>2. ActiveOK' /\ active'.task \in Born \cup {None}
    BY ActiveAlone DEF AbortClear
  <1> QED
    BY <1>1, <1>2, AfterAbortKept DEF AbortClear, Aborting

\* maybe_start_turn_for_pending_work looks for trigger mail.
LEMMA MaybeStartTyped ==
    ASSUME SessionInv, NEW a \in Starters, MaybeStart(a) PROVE SessionInv'
  <1>1. DataOK' /\ ActiveOK' /\ active'.task \in Born \cup {None}
    BY Typed, ActiveAlone DEF MaybeStart, DataOK
  <1>2. /\ task' \in [Turns -> TaskTypes] /\ terminal' \in [Turns -> Nat] /\ Born' = Born
        /\ \A t \in Turns : task'[t].pc = "flush" => task'[t].state \in States
    BY TasksAlone DEF MaybeStart
  <1>3. CASE Goto(a, "reserve")
    <2>1. "reserve" \in ActorSteps /\ "reserve" \notin ExtSteps \cup Aborting
      BY DEF ActorSteps, ExtSteps, Aborting
    <2>2. allocated' \in Nat /\ allocated' + Demand("reserve") <= allocated + Demand(actor[a].pc)
      BY Typed DEF MaybeStart, Demand
    <2> QED
      BY <1>1, <1>2, <1>3, <2>1, <2>2, OperationGoes DEF MaybeStart
  <1>4. CASE Return(a)
    BY <1>1, <1>4, OperationReturns DEF MaybeStart
  <1> QED
    BY <1>3, <1>4 DEF MaybeStart

\* get_or_insert_with, when the operation may still allocate a turn state.
LEMMA GetOrInsertTyped ==
    ASSUME SessionInv, NEW a \in Starters, GetOrInsert, Demand(actor[a].pc) >= 1
    PROVE  /\ ActiveOK' /\ active'.task = active.task /\ active'.task \in Born \cup {None}
           /\ active'.state \in States
           /\ active = NoTurn => active'.state = allocated + 1
           /\ active # NoTurn => active'.state = active.state
           /\ allocated' \in Nat /\ allocated' <= allocated + 1
  <1>1. allocated + 1 \in States
    <2>1. Need(a) = Demand(actor[a].pc) /\ a \in {"loop", "ext", "guardian"}
      BY SetsAssumption DEF Need
    <2>2. Need("loop") \in Nat /\ Need("ext") \in Nat /\ Need("guardian") \in Nat
      BY DEF Need, Demand
    <2>3. allocated + Need("loop") + Need("ext") + Need("guardian") <= MaxStates
      BY DEF SessionInv, RoomInv
    <2>4. Need("loop") + Need("ext") + Need("guardian") >= 1
      BY <2>1, <2>2
    <2>5. allocated \in Nat /\ MaxStates \in Nat
      BY Typed, BoundsAssumption
    <2> HIDE DEF Need
    <2>6. allocated + 1 <= MaxStates
      BY <2>2, <2>3, <2>4, <2>5
    <2> QED
      BY <2>5, <2>6 DEF States
  <1>2. CASE active = NoTurn
    BY <1>1, <1>2, Typed DEF GetOrInsert, ActiveOK, NoTurn, None, States
  <1>3. CASE active # NoTurn
    BY <1>3, Typed, ActiveAlone DEF GetOrInsert
  <1> QED
    BY <1>2, <1>3

\* maybe_start_turn_for_pending_work reserves the turn.
LEMMA ReserveTyped ==
    ASSUME SessionInv, NEW a \in Starters, Reserve(a) PROVE SessionInv'
  <1>1. DataOK'
    BY Typed DEF Reserve, DataOK
  <1>2. /\ task' \in [Turns -> TaskTypes] /\ terminal' \in [Turns -> Nat] /\ Born' = Born
        /\ \A t \in Turns : task'[t].pc = "flush" => task'[t].state \in States
    BY TasksAlone DEF Reserve
  <1>3. CASE active # NoTurn
    BY <1>1, <1>3, ActiveAlone, OperationReturns DEF Reserve
  <1>4. CASE active = NoTurn
    <2>1. Demand(actor[a].pc) = 3 /\ Demand("get_turn") = 2
      BY DEF Reserve, Demand
    <2>2. ActiveOK' /\ active'.task \in Born \cup {None} /\ allocated' \in Nat /\ allocated' <= allocated + 1
      BY <1>4, <2>1, GetOrInsertTyped DEF Reserve
    <2>3. "get_turn" \in ActorSteps /\ "get_turn" \notin ExtSteps \cup Aborting
      BY DEF ActorSteps, ExtSteps, Aborting
    <2>4. allocated' + Demand("get_turn") <= allocated + Demand(actor[a].pc)
      BY <2>1, <2>2, Typed
    <2> QED
      BY <1>1, <1>2, <1>4, <2>2, <2>3, <2>4, OperationGoes DEF Reserve
  <1> QED
    BY <1>3, <1>4

\* start_task takes the pending input of the turn.
LEMMA GetTurnInputTyped ==
    ASSUME SessionInv, NEW a \in Starters, GetTurnInput(a) PROVE SessionInv'
  <1>1. /\ task' \in [Turns -> TaskTypes] /\ terminal' \in [Turns -> Nat] /\ Born' = Born
        /\ \A t \in Turns : task'[t].pc = "flush" => task'[t].state \in States
        /\ ActiveOK' /\ active'.task \in Born \cup {None}
    BY TasksAlone, ActiveAlone DEF GetTurnInput
  <1>2. DataOK'
    BY Typed, NothingQueued DEF GetTurnInput, DataOK
  <1>3. /\ allocated' \in Nat /\ actor[a].pc \notin {"idle", "stopped"}
        /\ \A pc \in {"get_mail", "insert"} : /\ allocated' + Demand(pc) <= allocated + Demand(actor[a].pc)
                                              /\ pc \in ActorSteps /\ pc \notin ExtSteps \cup Aborting \cup {"extend"}
    BY Typed DEF GetTurnInput, Demand, ActorSteps, ExtSteps, Aborting
  <1>4. CASE active = NoTurn
    BY <1>1, <1>2, <1>3, <1>4, OperationGoes DEF GetTurnInput, ExtSteps
  <1>5. CASE active # NoTurn
    <2>1. PICK pc \in {"get_mail", "insert"} :
              actor' = [actor EXCEPT ![a] = [@ EXCEPT !.pc = pc, !.buf = pending[active.state]]]
      BY <1>5 DEF GetTurnInput
    <2> DEFINE r == [actor[a] EXCEPT !.pc = pc, !.buf = pending[active.state]]
    <2>2. pending[active.state] \in Seq(Items)
      BY <1>5, Typed DEF DataOK
    <2>3. r \in ActorTypes /\ r.pc = pc
      BY <1>3, <2>2, Typed, ZenonT(60) DEF ActorTypes
    <2>4. actor' = [actor EXCEPT ![a] = r]
      BY <2>1, Typed
    <2> HIDE DEF r
    <2>5. OperandsOK(r)
      BY <1>3, <2>3 DEF OperandsOK, ExtSteps
    <2> QED
      BY <1>1, <1>2, <1>3, <2>3, <2>4, <2>5, OperationKept
  <1> QED
    BY <1>4, <1>5

\* start_task takes the mail.
LEMMA GetMailTyped ==
    ASSUME SessionInv, NEW a \in Starters, GetMail(a) PROVE SessionInv'
  <1>1. /\ task' \in [Turns -> TaskTypes] /\ terminal' \in [Turns -> Nat] /\ Born' = Born
        /\ \A t \in Turns : task'[t].pc = "flush" => task'[t].state \in States
        /\ ActiveOK' /\ active'.task \in Born \cup {None}
    BY TasksAlone, ActiveAlone DEF GetMail
  <1>2. DataOK'
    BY Typed DEF GetMail, DataOK
  <1> DEFINE r == [actor[a] EXCEPT !.pc = "insert", !.buf = actor[a].buf \o mailbox]
  <1>3. actor[a].buf \o mailbox \in Seq(Items)
    BY Typed, MailItems DEF DataOK, ActorTypes
  <1>4. r \in ActorTypes /\ r.pc = "insert"
    <2>1. actor[a] \in ActorTypes
      BY Typed
    <2> QED
      BY <2>1, <1>3 DEF ActorTypes, ActorSteps
  <1>5. actor' = [actor EXCEPT ![a] = r]
    BY Typed DEF GetMail
  <1> HIDE DEF r
  <1>6. OperandsOK(r)
    BY <1>4 DEF OperandsOK, ExtSteps, Aborting
  <1>7. /\ allocated' \in Nat /\ actor[a].pc \notin {"idle", "stopped"}
        /\ allocated' + Demand(r.pc) <= allocated + Demand(actor[a].pc)
    BY <1>4, Typed DEF GetMail, Demand
  <1> QED
    BY <1>1, <1>2, <1>4, <1>5, <1>6, <1>7, OperationKept

\* start_task makes sure there is a turn.
LEMMA InsertTurnTyped ==
    ASSUME SessionInv, NEW a \in Starters, InsertTurn(a) PROVE SessionInv'
  <1>1. /\ task' \in [Turns -> TaskTypes] /\ terminal' \in [Turns -> Nat] /\ Born' = Born
        /\ \A t \in Turns : task'[t].pc = "flush" => task'[t].state \in States
    BY TasksAlone DEF InsertTurn
  <1>2. DataOK'
    BY Typed DEF InsertTurn, DataOK
  <1>3. /\ ActiveOK' /\ active'.task \in Born \cup {None} /\ active'.state \in States
        /\ allocated' \in Nat /\ allocated' <= allocated + 1
    BY GetOrInsertTyped DEF InsertTurn, Demand
  <1> DEFINE r == [actor[a] EXCEPT !.pc = "extend", !.state = active'.state]
  <1>4. r \in ActorTypes /\ r.pc = "extend" /\ r.state = active'.state
    <2>1. actor[a] \in ActorTypes
      BY Typed
    <2> QED
      BY <2>1, <1>3 DEF ActorTypes, ActorSteps
  <1>5. actor' = [actor EXCEPT ![a] = r]
    BY Typed DEF InsertTurn
  <1> HIDE DEF r
  <1>6. OperandsOK(r)
    BY <1>3, <1>4 DEF OperandsOK, ExtSteps, Aborting
  <1>7. /\ actor[a].pc \notin {"idle", "stopped"}
        /\ allocated' + Demand(r.pc) <= allocated + Demand(actor[a].pc)
    BY <1>3, <1>4, Typed DEF InsertTurn, Demand
  <1> QED
    BY <1>1, <1>2, <1>3, <1>4, <1>5, <1>6, <1>7, OperationKept

\* start_task puts what it took into the turn state.
LEMMA ExtendPendingTyped ==
    ASSUME SessionInv, NEW a \in Starters, ExtendPending(a) PROVE SessionInv'
  <1>1. /\ task' \in [Turns -> TaskTypes] /\ terminal' \in [Turns -> Nat] /\ Born' = Born
        /\ \A t \in Turns : task'[t].pc = "flush" => task'[t].state \in States
        /\ ActiveOK' /\ active'.task \in Born \cup {None}
    BY TasksAlone, ActiveAlone DEF ExtendPending
  <1>2. actor[a].state \in States
    BY DEF ExtendPending, SessionInv, OperandsOK
  <1>3. DataOK'
    <2>1. pending[actor[a].state] \o actor[a].buf \in Seq(Items)
      BY <1>2, Typed DEF DataOK, ActorTypes
    <2> QED
      BY <1>2, <2>1, Typed DEF ExtendPending, DataOK
  <1> DEFINE r == [actor[a] EXCEPT !.pc = "install", !.buf = <<>>]
  <1>4. r \in ActorTypes /\ r.pc = "install"
    <2>1. actor[a] \in ActorTypes
      BY Typed
    <2> QED
      BY <2>1, NothingQueued DEF ActorTypes, ActorSteps
  <1>5. actor' = [actor EXCEPT ![a] = r]
    BY Typed DEF ExtendPending
  <1> HIDE DEF r
  <1>6. OperandsOK(r)
    BY <1>4 DEF OperandsOK, ExtSteps, Aborting
  <1>7. /\ allocated' \in Nat /\ actor[a].pc \notin {"idle", "stopped"}
        /\ allocated' + Demand(r.pc) <= allocated + Demand(actor[a].pc)
    BY <1>4, Typed DEF ExtendPending, Demand
  <1> QED
    BY <1>1, <1>3, <1>4, <1>5, <1>6, <1>7, OperationKept

-----------------------------------------------------------------------------
(* Types, for any starters: installing a task, and the steps of extensions *)

\* A starting operation finds a turn that was never started.
LEMMA NewTurnUnborn ==
    ASSUME SessionInv, NEW a \in Starters, actor[a].pc \notin {"idle", "stopped"}
    PROVE  NewTurn \in Turns /\ NewTurn \notin Born
  <1>1. IsFiniteSet(Turns) /\ Cardinality(Turns) = MaxTurns
    BY FS_Interval, BoundsAssumption DEF Turns
  <1>2. Busy # {}
    BY DEF Busy
  <1>3. Cardinality(Busy) # 0
    BY <1>2, SetsFinite, FS_EmptySet
  <1>4. Cardinality(Born) < MaxTurns
    BY <1>3, SetsFinite, BoundsAssumption DEF SessionInv, RoomInv
  <1>5. Born # Turns
    BY <1>1, <1>4, BoundsAssumption
  <1>6. \E t \in Turns : t \notin Born
    BY <1>5 DEF Born
  <1> QED
    BY <1>6 DEF NewTurn

\* start_task spawns the task and stores it in the turn.
LEMMA InstallTyped ==
    ASSUME SessionInv, NEW a \in Starters, Install(a) PROVE SessionInv'
  <1> DEFINE t == NewTurn
             old == active.task
             born == [NoTask EXCEPT !.pc = "start", !.kind = actor[a].kind, !.buf = actor[a].input]
  <1>1. t \in Turns /\ t \notin Born /\ actor[a].pc = "install"
    BY NewTurnUnborn DEF Install
  <1>2. actor[a] \in ActorTypes
    BY Typed
  <1>3. born \in TaskTypes /\ born.pc = "start"
    BY <1>2, IdleTyped DEF TaskTypes, ActorTypes, TaskSteps
  <1>4. old # t
    BY <1>1, Typed DEF Turns, None
  <1>5. /\ task' \in [Turns -> TaskTypes] /\ task'[t] = born
        /\ \A u \in Turns \ {t} : task'[u] = task[u] \/ (u = old /\ task'[u].pc = "killed")
        /\ fate' = fate \/ Abandon(ToSet(task[old].buf))
    <2>1. CASE old = None \/ task[old].pc \in {"done", "killed"}
      <3>1. task' = [task EXCEPT ![t] = born] /\ fate' = fate
        BY <2>1 DEF Install
      <3> HIDE DEF t, born
      <3> QED
        BY <1>1, <1>3, <3>1, Typed
    <2>2. CASE ~(old = None \/ task[old].pc \in {"done", "killed"})
      <3> DEFINE dead == [task[old] EXCEPT !.pc = "killed", !.buf = <<>>]
      <3>1. old \in Turns
        BY <2>2, Typed
      <3>2. dead \in TaskTypes /\ dead.pc = "killed"
        <4>1. task[old] \in TaskTypes
          BY <3>1, Typed
        <4> HIDE DEF old
        <4> QED
          BY <4>1, NothingQueued DEF TaskTypes, TaskSteps
      <3>3. task' = [task EXCEPT ![t] = born, ![old] = [@ EXCEPT !.pc = "killed", !.buf = <<>>]]
        BY <2>2 DEF Install
      <3>4. Abandon(ToSet(task[old].buf))
        BY <2>2 DEF Install
      <3>5. task' = [task EXCEPT ![t] = born, ![old] = dead]
        BY <1>4, <3>1, <3>3, Typed
      <3> HIDE DEF t, born, dead
      <3> QED
        BY <1>1, <1>3, <1>4, <3>1, <3>2, <3>4, <3>5, Typed
    <2> QED
      BY <2>1, <2>2
  <1> HIDE DEF t, born
  <1>6. Born' = Born \cup {t}
    <2>1. \A u \in Turns \ {t} : u \in Born <=> u \in Born'
      <3>1. \A u \in Turns \ {t} : task'[u].pc = "unborn" <=> task[u].pc = "unborn"
        <4>1. old \in Turns => task[old].pc # "unborn"
          BY Typed DEF Born, Turns, None
        <4> QED
          BY <1>5, <4>1
      <3> QED
        BY <3>1 DEF Born
    <2>2. t \in Born'
      BY <1>1, <1>3, <1>5 DEF Born
    <2> QED
      BY <1>1, <2>1, <2>2 DEF Born
  <1>8. PICK r \in ActorTypes : actor' = [actor EXCEPT ![a] = r] /\ r.pc \in {"idle", "stopped"}
    BY Returns DEF Install
  <1>9. actor' \in [Starters -> ActorTypes] /\ actor'[a] = r /\ \A b \in Starters \ {a} : actor'[b] = actor[b]
    BY <1>8, Typed
  <1>10. Cardinality(Born') + Cardinality(Busy') <= MaxTurns
    <2>1. Busy = Busy' \cup {a} /\ a \notin Busy'
      BY <1>1, <1>8, <1>9 DEF Busy
    <2>2. Cardinality(Busy) = Cardinality(Busy') + 1
      BY <2>1, SetsFinite, FS_AddElement
    <2>3. Cardinality(Born') = Cardinality(Born) + 1
      BY <1>1, <1>6, SetsFinite, FS_AddElement
    <2> QED
      BY <2>2, <2>3, SetsFinite, BoundsAssumption DEF SessionInv, RoomInv
  <1>11. Demand(actor[a].pc) = 1 /\ Demand(r.pc) = 0
    BY <1>1, <1>8 DEF Demand
  <1>12. allocated' \in Nat /\ allocated' + Demand(actor'[a].pc) <= allocated + Demand(actor[a].pc)
    BY <1>9, <1>11, Typed DEF Install
  <1>13. /\ allocated' + Need("loop")' + Need("ext")' + Need("guardian")' <= MaxStates
         /\ allocated' \in 0 .. MaxStates
    BY <1>9, <1>12, Typed, RoomKept
  <1>14. ActiveOK' /\ active'.task \in (Born \cup {None})'
    <2>1. active' = [state |-> IF active = NoTurn THEN allocated + 1 ELSE active.state, task |-> t]
      BY DEF Install, t
    <2>2. active = NoTurn => allocated + 1 \in States
      BY <1>13, Typed DEF Install, States
    <2>3. (IF active = NoTurn THEN allocated + 1 ELSE active.state) \in States
      BY <2>2, Typed
    <2> QED
      BY <1>1, <1>6, <2>1, <2>3 DEF ActiveOK, States, None
  <1>15. DataOK'
    <2>1. fate' \in [Items -> Fates]
      BY <1>5, Typed, AbandonTyped DEF DataOK
    <2>2. asserts' \in BOOLEAN
      BY DEF Install
    <2> QED
      BY <2>1, <2>2, Typed DEF Install, DataOK
  <1>16. terminal' \in [Turns -> Nat]
    BY Typed DEF Install
  <1>17. TypeOK'
    BY <1>5, <1>9, <1>13, <1>14, <1>15, <1>16, TypeSplit
  <1>18. RoomInv'
    BY <1>10, <1>13 DEF RoomInv
  <1>19. \A b \in Starters : OperandsOK(actor[b])'
    <2>1. OperandsOK(actor[a])'
      BY <1>8, <1>9 DEF OperandsOK, Aborting, ExtSteps
    <2>2. \A b \in Starters \ {a} : OperandsOK(actor[b])'
      BY <1>6, <1>9 DEF SessionInv, OperandsOK
    <2> QED
      BY <2>1, <2>2
  <1>20. \A u \in Turns : task'[u].pc = "flush" => task'[u].state \in States
    <2>1. \A u \in Turns \ {t} : task'[u].pc = "flush" => task'[u].state \in States
      BY <1>5 DEF SessionInv
    <2> QED
      BY <1>3, <1>5, <2>1
  <1> QED
    BY <1>14, <1>17, <1>18, <1>19, <1>20 DEF SessionInv

\* clear_reserved_idle_turn leaves the active turn or clears it.
LEMMA ClearReservedTyped ==
    ASSUME SessionInv, NEW a \in Starters, ClearReserved(a)
    PROVE  ActiveOK' /\ active'.task \in Born \cup {None}
  <1>1. active' = NoTurn \/ active' = active
    BY DEF ClearReserved
  <1> QED
    BY <1>1, NoTurnOK, ActiveAlone

\* The item of an extension that was not taken.
LEMMA ExtRefuseTyped ==
    ASSUME SessionInv, NEW a \in Starters, ExtRefuse(a) PROVE fate' \in [Items -> Fates]
  BY Typed DEF ExtRefuse, DataOK, Fates

\* An extension reserves the idle session, or is refused.
LEMMA ExtReserveTyped ==
    ASSUME SessionInv, NEW a \in Starters, ExtReserve(a) PROVE SessionInv'
  <1>1. /\ task' \in [Turns -> TaskTypes] /\ terminal' \in [Turns -> Nat] /\ Born' = Born
        /\ \A t \in Turns : task'[t].pc = "flush" => task'[t].state \in States
    BY TasksAlone DEF ExtReserve
  <1>2. DataOK'
    BY Typed, ExtRefuseTyped DEF ExtReserve, DataOK
  <1>3. CASE active # NoTurn
    BY <1>2, <1>3, ActiveAlone, OperationReturns DEF ExtReserve
  <1>4. CASE active = NoTurn
    <2>1. /\ ActiveOK' /\ active'.task \in Born \cup {None} /\ active'.state \in States
          /\ allocated' \in Nat /\ allocated' <= allocated + 1
      BY <1>4, GetOrInsertTyped DEF ExtReserve, Demand
    <2> DEFINE r == [actor[a] EXCEPT !.pc = "ext_recheck", !.state = active'.state]
    <2>2. r \in ActorTypes /\ r.pc = "ext_recheck" /\ r.state = active'.state /\ r.input = actor[a].input
      <3>1. actor[a] \in ActorTypes
        BY Typed
      <3> QED
        BY <3>1, <2>1 DEF ActorTypes, ActorSteps
    <2>3. actor' = [actor EXCEPT ![a] = r]
      BY <1>4, Typed DEF ExtReserve
    <2>4. Len(actor[a].input) = 1
      BY DEF ExtReserve, SessionInv, OperandsOK, ExtSteps
    <2> HIDE DEF r
    <2>5. OperandsOK(r)
      BY <2>1, <2>2, <2>4 DEF OperandsOK, ExtSteps, Aborting
    <2>6. /\ actor[a].pc \notin {"idle", "stopped"}
          /\ allocated' + Demand(r.pc) <= allocated + Demand(actor[a].pc)
      BY <2>1, <2>2, Typed DEF ExtReserve, Demand
    <2> QED
      BY <1>1, <1>2, <2>1, <2>2, <2>3, <2>5, <2>6, OperationKept
  <1> QED
    BY <1>3, <1>4

\* An extension looks for trigger mail again.
LEMMA ExtRecheckTyped ==
    ASSUME SessionInv, NEW a \in Starters, ExtRecheck(a) PROVE SessionInv'
  <1>1. /\ task' \in [Turns -> TaskTypes] /\ terminal' \in [Turns -> Nat] /\ Born' = Born
        /\ \A t \in Turns : task'[t].pc = "flush" => task'[t].state \in States
    BY TasksAlone DEF ExtRecheck
  <1>2. DataOK'
    BY Typed, ExtRefuseTyped DEF ExtRecheck, DataOK
  <1>3. Len(actor[a].input) = 1 /\ actor[a].state \in States /\ actor[a].pc = "ext_recheck"
    BY DEF ExtRecheck, SessionInv, OperandsOK, ExtSteps
  <1>4. CASE Goto(a, "ext_confirm") /\ UNCHANGED active
    <2>1. "ext_confirm" \in ActorSteps /\ "ext_confirm" \notin Aborting
      BY DEF ActorSteps, Aborting
    <2>2. allocated' \in Nat /\ allocated' + Demand("ext_confirm") <= allocated + Demand(actor[a].pc)
      BY <1>3, Typed DEF ExtRecheck, Demand
    <2> QED
      BY <1>1, <1>2, <1>3, <1>4, <2>1, <2>2, ActiveAlone, OperationGoes
  <1>5. CASE ClearReserved(a) /\ Begin(a, [IdleActor EXCEPT !.pc = "maybe"])
    <2> DEFINE r == [IdleActor EXCEPT !.pc = "maybe"]
    <2>1. r \in ActorTypes /\ r.pc = "maybe"
      BY IdleTyped DEF ActorTypes, ActorSteps
    <2>2. actor' = [actor EXCEPT ![a] = r]
      BY <1>5 DEF Begin
    <2> HIDE DEF r
    <2>3. OperandsOK(r)
      BY <2>1 DEF OperandsOK, ExtSteps, Aborting
    <2>4. /\ allocated' \in Nat /\ actor[a].pc \notin {"idle", "stopped"}
          /\ allocated' + Demand(r.pc) <= allocated + Demand(actor[a].pc)
      BY <1>3, <2>1, Typed DEF ExtRecheck, Demand
    <2> QED
      BY <1>1, <1>2, <1>5, <2>1, <2>2, <2>3, <2>4, ClearReservedTyped, OperationKept
  <1> QED
    BY <1>4, <1>5 DEF ExtRecheck

\* An extension looks whether the reservation still stands.
LEMMA ExtConfirmTyped ==
    ASSUME SessionInv, NEW a \in Starters, ExtConfirm(a) PROVE SessionInv'
  <1>1. /\ task' \in [Turns -> TaskTypes] /\ terminal' \in [Turns -> Nat] /\ Born' = Born
        /\ \A t \in Turns : task'[t].pc = "flush" => task'[t].state \in States
        /\ ActiveOK' /\ active'.task \in Born \cup {None}
    BY TasksAlone, ActiveAlone DEF ExtConfirm
  <1>2. DataOK'
    BY Typed DEF ExtConfirm, DataOK
  <1>3. Len(actor[a].input) = 1 /\ actor[a].state \in States /\ actor[a].pc = "ext_confirm"
    BY DEF ExtConfirm, SessionInv, OperandsOK, ExtSteps
  <1>4. PICK pc \in {"ext_extend", "ext_clear"} : Goto(a, pc)
    BY DEF ExtConfirm
  <1>5. pc \in ActorSteps /\ pc \notin Aborting
    BY DEF ActorSteps, Aborting
  <1>6. allocated' \in Nat /\ allocated' + Demand(pc) <= allocated + Demand(actor[a].pc)
    BY <1>3, Typed DEF ExtConfirm, Demand
  <1> QED
    BY <1>1, <1>2, <1>3, <1>4, <1>5, <1>6, OperationGoes

\* An extension lost its reservation.
LEMMA ExtClearTyped ==
    ASSUME SessionInv, NEW a \in Starters, ExtClear(a) PROVE SessionInv'
  <1>1. DataOK'
    BY Typed, ExtRefuseTyped DEF ExtClear, DataOK
  <1> QED
    BY <1>1, ClearReservedTyped, OperationReturns DEF ExtClear

\* An extension queues its item in the turn it reserved.
LEMMA ExtExtendTyped ==
    ASSUME SessionInv, NEW a \in Starters, ExtExtend(a) PROVE SessionInv'
  <1>1. /\ task' \in [Turns -> TaskTypes] /\ terminal' \in [Turns -> Nat] /\ Born' = Born
        /\ \A t \in Turns : task'[t].pc = "flush" => task'[t].state \in States
        /\ ActiveOK' /\ active'.task \in Born \cup {None}
    BY TasksAlone, ActiveAlone DEF ExtExtend
  <1>2. actor[a].state \in States
    BY DEF ExtExtend, SessionInv, OperandsOK
  <1>3. DataOK'
    <2>1. pending[actor[a].state] \o actor[a].input \in Seq(Items)
      BY <1>2, Typed DEF DataOK, ActorTypes
    <2> QED
      BY <1>2, <2>1, Typed DEF ExtExtend, DataOK, Fates
  <1> DEFINE r == [actor[a] EXCEPT !.pc = "get_turn", !.input = <<>>]
  <1>4. r \in ActorTypes /\ r.pc = "get_turn"
    <2>1. actor[a] \in ActorTypes
      BY Typed
    <2> QED
      BY <2>1, NothingQueued DEF ActorTypes, ActorSteps
  <1>5. actor' = [actor EXCEPT ![a] = r]
    BY Typed DEF ExtExtend
  <1> HIDE DEF r
  <1>6. OperandsOK(r)
    BY <1>4 DEF OperandsOK, ExtSteps, Aborting
  <1>7. /\ allocated' \in Nat /\ actor[a].pc \notin {"idle", "stopped"}
        /\ allocated' + Demand(r.pc) <= allocated + Demand(actor[a].pc)
    BY <1>4, Typed DEF ExtExtend, Demand
  <1> QED
    BY <1>1, <1>3, <1>4, <1>5, <1>6, <1>7, OperationKept

-----------------------------------------------------------------------------
(* Types, for any starters: clients, tasks, and the theorem *)

\* Clients queue, or an operation is admitted.
LEMMA ClientTyped ==
    ASSUME SessionInv, Client PROVE SessionInv'
  <1>1. ASSUME NEW a \in Starters, actor[a].pc = "idle", RoomForTurn,
               NEW r \in ActorTypes, r.pc \in {"abort", "maybe"}, Begin(a, r), DataOK',
               UNCHANGED <<active, allocated, task, terminal>>
        PROVE  SessionInv'
    <2>1. OperandsOK(r)
      BY <1>1 DEF OperandsOK, Aborting, ExtSteps
    <2> QED
      BY <1>1, <2>1, TasksAlone, ActiveAlone, AdmissionKept
  <1>2. ASSUME DataOK', UNCHANGED <<active, allocated, task, actor, terminal>> PROVE SessionInv'
    BY <1>2, TasksAlone, ActiveAlone, OthersKept
  <1>3. ASSUME NEW i \in Items, SteerActive(i) \/ Refuse(i), UNCHANGED <<mailbox, history, commands, asserts>>
        PROVE  DataOK'
    <2>1. SteerActive(i) => Append(pending[active.state], i) \in Seq(Items)
      BY Typed DEF SteerActive, Steerable, DataOK
    <2> QED
      BY <1>3, <2>1, Typed, ZenonT(60) DEF SteerActive, Refuse, DataOK, Fates
  <1>4. LoopIdle => "loop" \in Starters /\ actor["loop"].pc = "idle"
    BY DEF LoopIdle
  <1>5. Inputs \subseteq Items /\ Mails \subseteq Items /\ Injects \subseteq Items
    BY DEF Items
  <1>10. ASSUME NEW i \in Inputs, Steer(i) PROVE SessionInv'
    BY <1>2, <1>3, <1>5, <1>10 DEF Steer, SteerActive, Refuse
  <1>11. ASSUME NEW i \in Inputs, UserInput(i) PROVE SessionInv'
    <2>1. CASE SteerActive(i) \/ Refuse(i)
      BY <1>2, <1>3, <1>5, <1>11, <2>1 DEF UserInput, SteerActive, Refuse
    <2>2. CASE ~(SteerActive(i) \/ Refuse(i))
      <3> DEFINE r == [IdleActor EXCEPT !.pc = "abort", !.reason = "Replaced", !.input = <<i>>]
      <3>1. <<i>> \in Seq(Items)
        BY <1>5
      <3>2. r \in ActorTypes /\ r.pc = "abort"
        BY <3>1, IdleTyped DEF ActorTypes, ActorSteps
      <3>3. DataOK'
        BY <1>11, <2>2, Typed DEF UserInput, DataOK, Fates
      <3>4. Begin("loop", r)
        BY <1>11, <2>2 DEF UserInput
      <3> HIDE DEF r
      <3> QED
        BY <1>1, <1>4, <1>11, <3>2, <3>3, <3>4 DEF UserInput
    <2> QED
      BY <2>1, <2>2
  <1>12. ASSUME NEW i \in Injects, Inject(i) PROVE SessionInv'
    <2>1. Append(history, i) \in Seq(Items) /\ (active # NoTurn => Append(pending[active.state], i) \in Seq(Items))
      BY <1>5, Typed DEF DataOK
    <2>2. DataOK'
      BY <1>5, <1>12, <2>1, Typed DEF Inject, DataOK, Fates
    <2> QED
      BY <1>2, <1>12, <2>2 DEF Inject
  <1>13. ASSUME NEW i \in Injects, ExtCall(i) PROVE SessionInv'
    <2>1. DataOK'
      BY <1>13, Typed DEF ExtCall, DataOK, Fates
    <2>2. CASE UNCHANGED actor
      BY <1>2, <1>13, <2>1, <2>2 DEF ExtCall
    <2>3. CASE Begin("ext", [IdleActor EXCEPT !.pc = "ext_reserve", !.input = <<i>>])
      <3> DEFINE r == [IdleActor EXCEPT !.pc = "ext_reserve", !.input = <<i>>]
      <3>1. <<i>> \in Seq(Items)
        BY <1>5
      <3>2. r \in ActorTypes /\ r.pc = "ext_reserve" /\ Len(r.input) = 1
        BY <3>1, IdleTyped DEF ActorTypes, ActorSteps
      <3> HIDE DEF r
      <3>3. OperandsOK(r)
        BY <3>2 DEF OperandsOK, Aborting
      <3>4. "ext" \in Starters /\ actor["ext"].pc = "idle" /\ RoomForTurn /\ UNCHANGED <<active, task, allocated, terminal>>
        BY <1>13 DEF ExtCall
      <3>5. Begin("ext", r)
        BY <2>3 DEF r
      <3> QED
        BY <2>1, <3>2, <3>3, <3>4, <3>5, TasksAlone, ActiveAlone, AdmissionKept
    <2> QED
      BY <1>13, <2>2, <2>3 DEF ExtCall
  <1>14. ASSUME NEW m \in Mails, Mail(m) PROVE SessionInv'
    <2>1. Append(mailbox, m) \in Seq(Mails)
      BY Typed DEF DataOK
    <2>2. DataOK'
      BY <1>14, <2>1, Typed DEF Mail, DataOK, Fates
    <2>3. CASE m \in Triggers
      <3> DEFINE r == [IdleActor EXCEPT !.pc = "maybe"]
      <3>1. r \in ActorTypes /\ r.pc = "maybe"
        BY IdleTyped DEF ActorTypes, ActorSteps
      <3>2. Begin("loop", r)
        BY <1>14, <2>3 DEF Mail
      <3> HIDE DEF r
      <3> QED
        BY <1>1, <1>4, <1>14, <2>2, <3>1, <3>2 DEF Mail
    <2>4. CASE m \notin Triggers
      BY <1>2, <1>14, <2>2, <2>4 DEF Mail
    <2> QED
      BY <2>3, <2>4
  <1>15. ASSUME commands < MaxCommands, commands' = commands + 1,
                UNCHANGED <<pending, phase, mailbox, history, fate, asserts>>
         PROVE  DataOK'
    BY <1>15, Typed, BoundsAssumption DEF DataOK
  <1>16. ASSUME StartOther PROVE SessionInv'
    <2> DEFINE r == [IdleActor EXCEPT !.pc = "abort", !.reason = "Replaced", !.kind = "other"]
    <2>1. r \in ActorTypes /\ r.pc = "abort"
      BY IdleTyped DEF ActorTypes, ActorSteps
    <2>2. Begin("loop", r)
      BY <1>16 DEF StartOther
    <2> HIDE DEF r
    <2> QED
      BY <1>1, <1>4, <1>15, <1>16, <2>1, <2>2 DEF StartOther
  <1>17. ASSUME NEW exiting \in BOOLEAN, AbortAll(exiting) PROVE SessionInv'
    <2> DEFINE r == [IdleActor EXCEPT !.pc = "abort", !.reason = "Interrupted", !.exiting = exiting]
    <2>1. r \in ActorTypes /\ r.pc = "abort"
      BY IdleTyped, ZenonT(60) DEF ActorTypes, ActorSteps
    <2>2. Begin("loop", r)
      BY <1>17 DEF AbortAll
    <2> HIDE DEF r
    <2> QED
      BY <1>1, <1>4, <1>15, <1>17, <2>1, <2>2 DEF AbortAll
  <1>18. ASSUME NEW t \in Turns, GuardianAbort(t) PROVE SessionInv'
    <2> DEFINE r == [IdleActor EXCEPT !.pc = "kill", !.reason = "Interrupted",
                                      !.victim = t, !.vstate = active.state]
    <2>1. active.task = t /\ active.task # None
      BY <1>18 DEF GuardianAbort, Turns, None
    <2>2. t \in Born /\ active.state \in States
      BY <2>1, Typed
    <2>3. r \in ActorTypes /\ r.pc = "kill" /\ r.victim = t /\ r.vstate = active.state
      BY <2>2, IdleTyped DEF ActorTypes, ActorSteps
    <2>4. Begin("guardian", r)
      BY <1>18 DEF GuardianAbort
    <2> HIDE DEF r
    <2>5. OperandsOK(r)
      BY <2>2, <2>3 DEF OperandsOK, Aborting, ExtSteps
    <2>6. /\ task' \in [Turns -> TaskTypes]
          /\ \A u \in Turns : task'[u].pc = task[u].pc /\ task'[u].state = task[u].state
      BY <1>18, Typed, CancelTyped DEF GuardianAbort
    <2>7. DataOK'
      BY <1>15, <1>18 DEF GuardianAbort
    <2>8. ActiveOK' /\ active'.task \in Born \cup {None}
      BY <1>18, NoTurnOK DEF GuardianAbort
    <2>9. "guardian" \in Starters /\ actor["guardian"].pc = "idle" /\ RoomForTurn /\ UNCHANGED <<allocated, terminal>>
      BY <1>18 DEF GuardianAbort
    <2> QED
      BY <2>3, <2>4, <2>5, <2>6, <2>7, <2>8, <2>9, AdmissionKept
  <1> QED
    BY <1>10, <1>11, <1>12, <1>13, <1>14, <1>16, <1>17, <1>18 DEF Client, Interrupt, Shutdown

\* The steps of a task, inside its turn and after it.
LEMMA TaskStepTyped ==
    ASSUME SessionInv, NEW t \in Turns, TaskStep(t) PROVE SessionInv'
  <1>1. ASSUME task' \in [Turns -> TaskTypes], \A u \in Turns \ {t} : task'[u] = task[u],
               task[t].pc # "unborn", task'[t].pc # "unborn",
               task'[t].pc = "flush" => task'[t].state \in States,
               ActiveOK', active'.task \in Born \cup {None}, DataOK',
               terminal' \in [Turns -> Nat], UNCHANGED <<actor, allocated>>
        PROVE  SessionInv'
    <2>1. Born' = Born
      BY <1>1 DEF Born
    <2>2. \A u \in Turns : task'[u].pc = "flush" => task'[u].state \in States
      BY <1>1 DEF SessionInv
    <2> QED
      BY <1>1, <2>1, <2>2, OthersKept
  <1>2. ASSUME Inside(t) PROVE SessionInv'
    BY <1>1, <1>2, Typed, ActiveAlone DEF Inside, RunSteps
  <1>3. ASSUME NEW pc \in TaskSteps, Become(t, pc), pc \notin {"flush", "unborn"}, task[t].pc # "unborn",
               ActiveOK', active'.task \in Born \cup {None}, DataOK',
               terminal' \in [Turns -> Nat], UNCHANGED <<actor, allocated>>
        PROVE  SessionInv'
    BY <1>1, <1>3, Typed, BecomeEffects
  <1>4. CASE TaskFinish(t)
    <2>1. PICK pc \in {"done", "take"} : Become(t, pc)
      BY <1>4 DEF TaskFinish
    <2>2. DataOK' /\ terminal' \in [Turns -> Nat]
      BY <1>4, Typed DEF TaskFinish, DataOK
    <2> QED
      BY <1>3, <1>4, <2>1, <2>2, ActiveAlone DEF TaskFinish, TaskSteps
  <1>5. CASE FinishTake(t)
    <2>1. DataOK' /\ terminal' \in [Turns -> Nat]
      BY <1>5, Typed DEF FinishTake, DataOK
    <2>2. CASE active.task = None
      BY <1>3, <1>5, <2>1, <2>2, ActiveAlone DEF FinishTake, TaskSteps
    <2>3. CASE active.task # None
      <3> DEFINE r == [task[t] EXCEPT !.pc = "flush", !.state = active.state]
      <3>1. r \in TaskTypes /\ r.pc = "flush" /\ r.state = active.state
        <4>1. task[t] \in TaskTypes /\ active.state \in States
          BY <2>3, Typed
        <4> QED
          BY <4>1 DEF TaskTypes, TaskSteps
      <3>2. task' = [task EXCEPT ![t] = r]
        BY <1>5, <2>3, Typed DEF FinishTake
      <3> HIDE DEF r
      <3>3. active' = [active EXCEPT !.task = None]
        BY <1>5, <2>3 DEF FinishTake
      <3>4. ActiveOK' /\ active'.task \in Born \cup {None}
        BY <3>3, Typed DEF ActiveOK
      <3> QED
        <4>1. task' \in [Turns -> TaskTypes] /\ task'[t] = r /\ \A u \in Turns \ {t} : task'[u] = task[u]
          BY <3>1, <3>2, Typed
        <4>2. task[t].pc # "unborn" /\ UNCHANGED <<actor, allocated>>
          BY <1>5 DEF FinishTake
        <4> QED
          BY <1>1, <2>1, <2>3, <3>1, <3>4, <4>1, <4>2, Typed
    <2> QED
      BY <2>2, <2>3
  <1>6. CASE FinishFlush(t)
    <2>1. task[t].state \in States
      BY <1>6 DEF FinishFlush, SessionInv
    <2>2. pending[task[t].state] \in Seq(Items)
      BY <2>1, Typed DEF DataOK
    <2> DEFINE r == [task[t] EXCEPT !.pc = "flush_record", !.buf = pending[task[t].state]]
    <2>3. r \in TaskTypes /\ r.pc = "flush_record"
      <3>1. task[t] \in TaskTypes
        BY Typed
      <3> QED
        BY <2>2, <3>1 DEF TaskTypes, TaskSteps
    <2>4. task' = [task EXCEPT ![t] = r]
      BY <1>6, Typed DEF FinishFlush
    <2> HIDE DEF r
    <2>5. DataOK'
      BY <1>6, Typed, NothingQueued DEF FinishFlush, DataOK
    <2>6. task' \in [Turns -> TaskTypes] /\ task'[t] = r /\ \A u \in Turns \ {t} : task'[u] = task[u]
      BY <2>3, <2>4, Typed
    <2> QED
      <3>1. task[t].pc # "unborn" /\ UNCHANGED <<active, actor, allocated, terminal>>
        BY <1>6 DEF FinishFlush
      <3> QED
        BY <1>1, <2>3, <2>5, <2>6, <3>1, Typed, ActiveAlone
  <1>7. CASE FinishRecord(t)
    <2>1. CASE RecordHead(t)
      <3>1. UNCHANGED <<pending, phase, mailbox, commands, asserts>>
        BY <1>7 DEF FinishRecord
      <3>2. /\ task' \in [Turns -> TaskTypes] /\ task'[t].pc = task[t].pc
            /\ \A u \in Turns \ {t} : task'[u] = task[u]
            /\ DataOK'
        BY <2>1, <3>1, Typed, RecordHeadEffects
      <3> QED
        BY <1>1, <1>7, <3>2, Typed, ActiveAlone DEF FinishRecord
    <2>2. CASE ~RecordHead(t)
      <3>1. DataOK' /\ terminal' \in [Turns -> Nat]
        BY <1>7, <2>2, Typed DEF FinishRecord, DataOK
      <3> QED
        BY <1>3, <1>7, <2>2, <3>1, ActiveAlone DEF FinishRecord, TaskSteps
    <2> QED
      BY <2>1, <2>2
  <1>8. CASE FinishEvent(t)
    <2>1. DataOK' /\ terminal' \in [Turns -> Nat]
      BY <1>8, Typed DEF FinishEvent, DataOK
    <2> QED
      BY <1>3, <1>8, <2>1, ActiveAlone DEF FinishEvent, TaskSteps
  <1>9. CASE FinishRelease(t)
    <2>1. DataOK' /\ terminal' \in [Turns -> Nat]
      BY <1>9, Typed DEF FinishRelease, DataOK
    <2>2. ActiveOK' /\ active'.task \in Born \cup {None}
      BY <1>9, ActiveAlone, NoTurnOK DEF FinishRelease
    <2> QED
      BY <1>3, <1>9, <2>1, <2>2 DEF FinishRelease, TaskSteps
  <1> QED
    BY <1>2, <1>4, <1>5, <1>6, <1>7, <1>8, <1>9, Typed, RunTurnInside DEF TaskStep

\* The steps of an operation.
LEMMA ActorStepTyped ==
    ASSUME SessionInv, NEW a \in Starters, ActorStep(a) PROVE SessionInv'
  BY AbortTakeTyped, AbortKillTyped, AbortEventTyped, AbortClearTyped, MaybeStartTyped, ReserveTyped,
     GetTurnInputTyped, GetMailTyped, InsertTurnTyped, ExtendPendingTyped, InstallTyped,
     ExtReserveTyped, ExtRecheckTyped, ExtConfirmTyped, ExtClearTyped, ExtExtendTyped
  DEF ActorStep, AbortTurn, StartTask, TryStartIdle

\* A new session.
LEMMA NothingAllocated == Init => SessionInv
  <1> SUFFICES ASSUME Init PROVE SessionInv
    OBVIOUS
  <1>1. TypeOK
    BY IdleTyped, BoundsAssumption DEF Init, TypeOK, TaskTypes, ActorTypes, NoTurn, None, Fates
  <1>2. Born = {} /\ Busy = {}
    BY DEF Init, Born, Busy, NoTask, IdleActor
  <1>3. Cardinality(Born) = 0 /\ Cardinality(Busy) = 0
    BY <1>2, FS_EmptySet
  <1>4. Need("loop") = 0 /\ Need("ext") = 0 /\ Need("guardian") = 0
    BY DEF Init, Need, Demand, IdleActor
  <1>5. RoomInv
    BY <1>3, <1>4, BoundsAssumption DEF Init, RoomInv
  <1>6. \A a \in Starters : OperandsOK(actor[a])
    BY DEF Init, IdleActor, OperandsOK, Aborting, ExtSteps
  <1>7. active.task = None /\ \A t \in Turns : task[t].pc # "flush"
    BY DEF Init, NoTurn, NoTask
  <1> QED
    BY <1>1, <1>5, <1>6, <1>7 DEF SessionInv

\* Every step keeps the invariant.
LEMMA NextTyped == SessionInv /\ [Next]_vars => SessionInv'
  <1> SUFFICES ASSUME SessionInv, [Next]_vars PROVE SessionInv'
    OBVIOUS
  <1>1. CASE UNCHANGED vars
    <2>1. DataOK'
      BY <1>1, Typed DEF vars, DataOK
    <2> QED
      BY <1>1, <2>1, TasksAlone, ActiveAlone, OthersKept DEF vars
  <1> QED
    BY <1>1, ClientTyped, ActorStepTyped, TaskStepTyped DEF Next

\* Whoever starts and aborts turns: what they and the tasks keep stays typed,
\* and no operation runs out of the turns and turn states it was admitted with.
THEOREM TypeCorrect == Spec => []TypeOK
  <1>1. SessionInv => TypeOK
    BY DEF SessionInv
  <1> QED
    BY <1>1, NothingAllocated, NextTyped, PTL DEF Spec

-----------------------------------------------------------------------------
(* Queues that hold no value twice *)

\* No value is found twice in the queues of f, or is found in none of them.
Single(f) ==
    \A p, q \in DOMAIN f : \A k \in 1 .. Len(f[p]), l \in 1 .. Len(f[q]) :
        f[p][k] = f[q][l] => p = q /\ k = l
Absent(f, x) == \A p \in DOMAIN f : \A k \in 1 .. Len(f[p]) : f[p][k] # x

\* Queues are emptied.
LEMMA DropSingle ==
    ASSUME NEW P, NEW f \in [P -> Seq(Items)], NEW g \in [P -> Seq(Items)], Single(f),
           \A r \in P : g[r] = f[r] \/ g[r] = <<>>
    PROVE  Single(g) /\ \A x : Absent(f, x) => Absent(g, x)
  BY DEF Single, Absent

\* What is found where in a queue built from others.
LEMMA ConcatAt ==
    ASSUME NEW s \in Seq(Items), NEW t \in Seq(Items), NEW k \in 1 .. Len(s \o t)
    PROVE  \/ k \in 1 .. Len(s) /\ (s \o t)[k] = s[k]
           \/ k - Len(s) \in 1 .. Len(t) /\ (s \o t)[k] = t[k - Len(s)]
  <1>1. Len(s) \in Nat /\ Len(t) \in Nat /\ Len(s \o t) = Len(s) + Len(t)
    OBVIOUS
  <1>2. CASE k <= Len(s)
    BY <1>1, <1>2
  <1>3. CASE k > Len(s)
    BY <1>1, <1>3
  <1> QED
    BY <1>1, <1>2, <1>3

\* ... one longer by an item, ...
LEMMA AppendAt ==
    ASSUME NEW s \in Seq(Items), NEW x \in Items, NEW k \in 1 .. Len(Append(s, x))
    PROVE  \/ k \in 1 .. Len(s) /\ Append(s, x)[k] = s[k]
           \/ k = Len(s) + 1 /\ Append(s, x)[k] = x
  <1>1. Len(s) \in Nat /\ Len(Append(s, x)) = Len(s) + 1
    OBVIOUS
  <1>2. CASE k = Len(s) + 1
    BY <1>1, <1>2
  <1>3. CASE k # Len(s) + 1
    BY <1>1, <1>3
  <1> QED
    BY <1>2, <1>3

\* ... or without its first item.
LEMMA TailAt ==
    ASSUME NEW s \in Seq(Items), s # <<>>
    PROVE  /\ Head(s) = s[1] /\ Head(s) \in Items /\ 1 \in 1 .. Len(s)
           /\ \A k \in 1 .. Len(Tail(s)) : k + 1 \in 1 .. Len(s) /\ Tail(s)[k] = s[k + 1]
  <1>1. Len(s) \in Nat /\ Len(s) # 0 /\ Len(Tail(s)) = Len(s) - 1
    OBVIOUS
  <1> QED
    BY <1>1

\* Every place of g shows a value of f, and no two places show the same.
Sourced(P, f, g, from, at) ==
    /\ \A r \in P : \A k \in 1 .. Len(g[r]) :
            /\ from[r][k] \in P /\ at[r][k] \in 1 .. Len(f[from[r][k]])
            /\ g[r][k] = f[from[r][k]][at[r][k]]
    /\ \A r, s \in P : \A k \in 1 .. Len(g[r]), l \in 1 .. Len(g[s]) :
            from[r][k] = from[s][l] /\ at[r][k] = at[s][l] => r = s /\ k = l

\* Values that each have a source of their own are found once.
LEMMA SourcesSingle ==
    ASSUME NEW P, NEW f \in [P -> Seq(Items)], NEW g \in [P -> Seq(Items)], Single(f),
           NEW from, NEW at, Sourced(P, f, g, from, at)
    PROVE  Single(g) /\ \A x : Absent(f, x) => Absent(g, x)
  <1>1. ASSUME NEW x, Absent(f, x), NEW r \in P, NEW k \in 1 .. Len(g[r]) PROVE g[r][k] # x
    <2> DEFINE u == from[r][k]
               m == at[r][k]
    <2>1. u \in P /\ m \in 1 .. Len(f[u]) /\ g[r][k] = f[u][m]
      BY <1>1 DEF Sourced
    <2> HIDE DEF u, m
    <2> QED
      BY <1>1, <2>1 DEF Absent
  <1>2. ASSUME NEW r \in P, NEW s \in P, NEW k \in 1 .. Len(g[r]), NEW l \in 1 .. Len(g[s]), g[r][k] = g[s][l]
        PROVE  r = s /\ k = l
    <2> DEFINE u == from[r][k]
               m == at[r][k]
               v == from[s][l]
               n == at[s][l]
    <2>1. u \in P /\ m \in 1 .. Len(f[u]) /\ g[r][k] = f[u][m]
      BY <1>2 DEF Sourced
    <2>2. v \in P /\ n \in 1 .. Len(f[v]) /\ g[s][l] = f[v][n]
      BY <1>2 DEF Sourced
    <2>3. u = v /\ m = n => r = s /\ k = l
      BY <1>2 DEF Sourced
    <2>4. \A x, y \in P : \A i \in 1 .. Len(f[x]), j \in 1 .. Len(f[y]) : f[x][i] = f[y][j] => x = y /\ i = j
      BY DEF Single
    <2>5. f[u][m] = f[v][n]
      BY <1>2, <2>1, <2>2
    <2> HIDE DEF u, m, v, n
    <2>6. u = v /\ m = n
      BY <2>1, <2>2, <2>4, <2>5
    <2> QED
      BY <2>3, <2>6
  <1> QED
    BY <1>1, <1>2 DEF Single, Absent

\* A queue is moved to the end of another, or takes its place.
Moved(P, f, g, p, q) ==
    /\ f \in [P -> Seq(Items)] /\ g \in [P -> Seq(Items)]
    /\ p \in P /\ q \in P /\ p # q
    /\ g[p] = <<>> /\ (g[q] = f[q] \o f[p] \/ g[q] = f[p])
    /\ \A r \in P \ {p, q} : g[r] = f[r] \/ g[r] = <<>>

\* Moving a queue shows no value twice.
LEMMA MoveSingle ==
    ASSUME NEW P, NEW f, NEW g, NEW p, NEW q, Moved(P, f, g, p, q), Single(f)
    PROVE  Single(g) /\ \A x : Absent(f, x) => Absent(g, x)
  <1> USE DEF Moved
  <1>1. f[p] \in Seq(Items) /\ f[q] \in Seq(Items) /\ Len(f[p]) \in Nat /\ Len(f[q]) \in Nat
    OBVIOUS
  <1>2. PICK n \in {0, Len(f[q])} :
            \A k \in 1 .. Len(g[q]) :
                \/ k <= n /\ k \in 1 .. Len(f[q]) /\ g[q][k] = f[q][k]
                \/ k > n /\ k - n \in 1 .. Len(f[p]) /\ g[q][k] = f[p][k - n]
    <2>1. CASE g[q] = f[q] \o f[p]
      <3>1. ASSUME NEW k \in 1 .. Len(g[q])
            PROVE  \/ k <= Len(f[q]) /\ k \in 1 .. Len(f[q]) /\ g[q][k] = f[q][k]
                   \/ k > Len(f[q]) /\ k - Len(f[q]) \in 1 .. Len(f[p]) /\ g[q][k] = f[p][k - Len(f[q])]
        BY <1>1, <2>1, <3>1, ConcatAt
      <3> QED
        BY <3>1
    <2>2. CASE g[q] = f[p]
      <3>1. ASSUME NEW k \in 1 .. Len(g[q])
            PROVE  k > 0 /\ k - 0 \in 1 .. Len(f[p]) /\ g[q][k] = f[p][k - 0]
        BY <1>1, <2>2, <3>1
      <3> QED
        BY <3>1
    <2> QED
      BY <2>1, <2>2
  <1> DEFINE from == [r \in P |-> [k \in Nat |-> IF r = q /\ k > n THEN p ELSE r]]
             at == [r \in P |-> [k \in Nat |-> IF r = q /\ k > n THEN k - n ELSE k]]
  <1>3. ASSUME NEW r \in P, NEW k \in 1 .. Len(g[r])
        PROVE  /\ from[r][k] = IF r = q /\ k > n THEN p ELSE r
               /\ at[r][k] = IF r = q /\ k > n THEN k - n ELSE k
    <2>1. k \in Nat
      BY <1>3
    <2> QED
      BY <2>1
  <1> HIDE DEF from, at
  <1>4. ASSUME NEW r \in P, NEW k \in 1 .. Len(g[r])
        PROVE  /\ from[r][k] \in P /\ at[r][k] \in 1 .. Len(f[from[r][k]])
               /\ g[r][k] = f[from[r][k]][at[r][k]]
    <2>1. CASE r = q
      <3>1. k \in 1 .. Len(g[q]) /\ k \in Nat /\ n \in Nat
        BY <1>1, <1>4, <2>1
      <3>2. CASE k > n
        <4>1. from[r][k] = p /\ at[r][k] = k - n
          BY <1>3, <1>4, <2>1, <3>2
        <4>2. k - n \in 1 .. Len(f[p]) /\ g[q][k] = f[p][k - n]
          BY <1>2, <3>1, <3>2
        <4> QED
          BY <2>1, <4>1, <4>2
      <3>3. CASE ~(k > n)
        <4>1. from[r][k] = q /\ at[r][k] = k
          BY <1>3, <1>4, <2>1, <3>3
        <4>2. k \in 1 .. Len(f[q]) /\ g[q][k] = f[q][k]
          BY <1>2, <3>1, <3>3
        <4> QED
          BY <2>1, <4>1, <4>2
      <3> QED
        BY <3>2, <3>3
    <2>2. CASE r # q
      <3>1. g[r] = f[r]
        BY <1>4, <2>2
      <3> QED
        BY <1>3, <1>4, <2>2, <3>1
    <2> QED
      BY <2>1, <2>2
  <1>5. ASSUME NEW r \in P, NEW s \in P, NEW k \in 1 .. Len(g[r]), NEW l \in 1 .. Len(g[s]),
               from[r][k] = from[s][l], at[r][k] = at[s][l]
        PROVE  r = s /\ k = l
    <2>1. r # p /\ s # p /\ n \in Nat
      BY <1>1, <1>2, <1>5
    <2>2. k \in Nat /\ l \in Nat
      BY <1>5
    <2>3. CASE r = q /\ k > n
      BY <1>3, <1>5, <2>1, <2>2, <2>3
    <2>4. CASE s = q /\ l > n
      BY <1>3, <1>5, <2>1, <2>2, <2>4
    <2> QED
      BY <1>3, <1>5, <2>1, <2>2, <2>3, <2>4
  <1> QED
    <2>1. \A r \in P : \A k \in 1 .. Len(g[r]) :
             /\ from[r][k] \in P /\ at[r][k] \in 1 .. Len(f[from[r][k]])
             /\ g[r][k] = f[from[r][k]][at[r][k]]
      BY <1>4, Zenon
    <2>2. \A r, s \in P : \A k \in 1 .. Len(g[r]), l \in 1 .. Len(g[s]) :
             from[r][k] = from[s][l] /\ at[r][k] = at[s][l] => r = s /\ k = l
      <3> TAKE r, s \in P
      <3> TAKE k \in 1 .. Len(g[r]), l \in 1 .. Len(g[s])
      <3> HAVE from[r][k] = from[s][l] /\ at[r][k] = at[s][l]
      <3> QED
        BY <1>5
    <2>3. Sourced(P, f, g, from, at)
      BY <2>1, <2>2, Zenon DEF Sourced
    <2> QED
      BY <2>3, SourcesSingle

\* The head of a queue goes to the end of another one ...
HeadMoved(P, f, g, p, q) ==
    /\ f \in [P -> Seq(Items)] /\ g \in [P -> Seq(Items)]
    /\ p \in P /\ q \in P /\ p # q
    /\ f[p] # <<>> /\ g[p] = Tail(f[p]) /\ g[q] = Append(f[q], Head(f[p]))
    /\ \A r \in P \ {p, q} : g[r] = f[r]

\* Moving the head of a queue shows no value twice.
LEMMA HeadSingle ==
    ASSUME NEW P, NEW f, NEW g, NEW p, NEW q, HeadMoved(P, f, g, p, q), Single(f)
    PROVE  Single(g) /\ \A x : Absent(f, x) => Absent(g, x)
  <1> USE DEF HeadMoved
  <1>1. /\ f[p] \in Seq(Items) /\ f[q] \in Seq(Items) /\ Len(f[p]) \in Nat /\ Len(f[q]) \in Nat
        /\ Head(f[p]) = f[p][1] /\ Head(f[p]) \in Items /\ 1 \in 1 .. Len(f[p])
    BY TailAt
  <1>2. \A k \in 1 .. Len(g[p]) : k + 1 \in 1 .. Len(f[p]) /\ g[p][k] = f[p][k + 1]
    BY <1>1, TailAt
  <1>3. \A k \in 1 .. Len(g[q]) : \/ k \in 1 .. Len(f[q]) /\ g[q][k] = f[q][k]
                                  \/ k = Len(f[q]) + 1 /\ g[q][k] = f[p][1]
    BY <1>1, AppendAt
  <1> DEFINE n == Len(f[q])
             from == [r \in P |-> [k \in Nat |-> IF r = q /\ k > n THEN p ELSE r]]
             at == [r \in P |-> [k \in Nat |-> IF r = p THEN k + 1 ELSE IF r = q /\ k > n THEN 1 ELSE k]]
  <1>4. ASSUME NEW r \in P, NEW k \in 1 .. Len(g[r])
        PROVE  /\ k \in Nat /\ k >= 1
               /\ from[r][k] = IF r = q /\ k > n THEN p ELSE r
               /\ at[r][k] = IF r = p THEN k + 1 ELSE IF r = q /\ k > n THEN 1 ELSE k
    <2>1. k \in Nat /\ k >= 1
      BY <1>4
    <2> QED
      BY <2>1
  <1> HIDE DEF from, at
  <1>5. ASSUME NEW r \in P, NEW k \in 1 .. Len(g[r])
        PROVE  /\ from[r][k] \in P /\ at[r][k] \in 1 .. Len(f[from[r][k]])
               /\ g[r][k] = f[from[r][k]][at[r][k]]
    <2>1. CASE r = q
      <3>1. k \in 1 .. Len(g[q]) /\ k \in Nat /\ n \in Nat /\ r # p
        BY <1>1, <1>5, <2>1
      <3>2. CASE k > n
        <4>1. from[r][k] = p /\ at[r][k] = 1
          BY <1>4, <1>5, <2>1, <3>1, <3>2
        <4>2. g[q][k] = f[p][1]
          BY <1>3, <3>1, <3>2
        <4> QED
          BY <1>1, <2>1, <4>1, <4>2
      <3>3. CASE ~(k > n)
        <4>1. from[r][k] = q /\ at[r][k] = k
          BY <1>4, <1>5, <2>1, <3>1, <3>3
        <4>2. k \in 1 .. Len(f[q]) /\ g[q][k] = f[q][k]
          BY <1>3, <3>1, <3>3
        <4> QED
          BY <2>1, <4>1, <4>2
      <3> QED
        BY <3>2, <3>3
    <2>2. CASE r = p
      <3>1. k \in 1 .. Len(g[p]) /\ r # q
        BY <1>5, <2>2
      <3>2. from[r][k] = p /\ at[r][k] = k + 1
        BY <1>4, <1>5, <2>2, <3>1
      <3>3. k + 1 \in 1 .. Len(f[p]) /\ g[p][k] = f[p][k + 1]
        BY <1>2, <3>1, Zenon
      <3> HIDE DEF HeadMoved
      <3> QED
        BY <2>2, <3>2, <3>3
    <2>3. CASE r # q /\ r # p
      <3>1. from[r][k] = r /\ at[r][k] = k
        BY <1>4, <1>5, <2>3
      <3>2. g[r] = f[r]
        BY <1>5, <2>3
      <3> QED
        BY <1>5, <3>1, <3>2
    <2> QED
      BY <2>1, <2>2, <2>3
  <1>6. ASSUME NEW r \in P, NEW s \in P, NEW k \in 1 .. Len(g[r]), NEW l \in 1 .. Len(g[s]),
               from[r][k] = from[s][l], at[r][k] = at[s][l]
        PROVE  r = s /\ k = l
    <2>1. /\ r = q => k \in 1 .. n \/ k = n + 1
          /\ s = q => l \in 1 .. n \/ l = n + 1
      BY <1>3, <1>6
    <2> QED
      BY <1>1, <1>4, <1>6, <2>1
  <1> QED
    <2>1. \A r \in P : \A k \in 1 .. Len(g[r]) :
             /\ from[r][k] \in P /\ at[r][k] \in 1 .. Len(f[from[r][k]])
             /\ g[r][k] = f[from[r][k]][at[r][k]]
      BY <1>5, Zenon
    <2>2. \A r, s \in P : \A k \in 1 .. Len(g[r]), l \in 1 .. Len(g[s]) :
             from[r][k] = from[s][l] /\ at[r][k] = at[s][l] => r = s /\ k = l
      <3> TAKE r, s \in P
      <3> TAKE k \in 1 .. Len(g[r]), l \in 1 .. Len(g[s])
      <3> HAVE from[r][k] = from[s][l] /\ at[r][k] = at[s][l]
      <3> QED
        BY <1>6
    <2>3. Sourced(P, f, g, from, at)
      BY <2>1, <2>2, Zenon DEF Sourced
    <2> QED
      BY <2>3, SourcesSingle

\* ... or is dropped.
LEMMA TailSingle ==
    ASSUME NEW P, NEW f \in [P -> Seq(Items)], NEW g \in [P -> Seq(Items)], Single(f),
           NEW p \in P, f[p] # <<>>, g[p] = Tail(f[p]),
           \A r \in P \ {p} : g[r] = f[r]
    PROVE  Single(g) /\ \A x : Absent(f, x) => Absent(g, x)
  <1>1. ASSUME NEW r \in P, NEW k \in 1 .. Len(g[r])
        PROVE  \/ r # p /\ k \in 1 .. Len(f[r]) /\ g[r][k] = f[r][k]
               \/ r = p /\ k + 1 \in 1 .. Len(f[p]) /\ g[r][k] = f[p][k + 1]
    <2>0. f[p] \in Seq(Items)
      OBVIOUS
    <2>1. CASE r = p
      BY <1>1, <2>0, <2>1, TailAt
    <2> QED
      BY <1>1, <2>1
  <1>2. ASSUME NEW x, Absent(f, x) PROVE Absent(g, x)
    <2>1. \A u \in P : \A j \in 1 .. Len(f[u]) : f[u][j] # x
      BY <1>2 DEF Absent
    <2>2. ASSUME NEW r \in P, NEW k \in 1 .. Len(g[r]) PROVE g[r][k] # x
      BY <1>1, <1>2, <2>1, <2>2
    <2> QED
      BY <2>2 DEF Absent
  <1>3. ASSUME NEW r \in P, NEW s \in P, NEW k \in 1 .. Len(g[r]), NEW l \in 1 .. Len(g[s]), g[r][k] = g[s][l]
        PROVE  r = s /\ k = l
    <2>1. \A u, v \in P : \A m \in 1 .. Len(f[u]), n \in 1 .. Len(f[v]) : f[u][m] = f[v][n] => u = v /\ m = n
      BY DEF Single
    <2>2. \A u \in P : Len(f[u]) \in Nat /\ Len(g[u]) \in Nat
      OBVIOUS
    <2> QED
      BY <1>1, <1>3, <2>1, <2>2
  <1> QED
    BY <1>2, <1>3 DEF Single

\* A value that was nowhere enters a queue.
Entered(P, f, g, q, i) ==
    /\ f \in [P -> Seq(Items)] /\ g \in [P -> Seq(Items)]
    /\ q \in P /\ i \in Items
    /\ g[q] = Append(f[q], i) \/ g[q] = <<i>>
    /\ \A r \in P \ {q} : g[r] = f[r] \/ g[r] = <<>>

\* A new value is found once.
LEMMA NewSingle ==
    ASSUME NEW P, NEW f, NEW g, NEW q, NEW i, Entered(P, f, g, q, i), Single(f), Absent(f, i)
    PROVE  Single(g) /\ \A x : x # i /\ Absent(f, x) => Absent(g, x)
  <1> USE DEF Entered
  <1>1. ASSUME NEW r \in P, NEW k \in 1 .. Len(g[r])
        PROVE  \/ k \in 1 .. Len(f[r]) /\ g[r][k] = f[r][k]
               \/ r = q /\ k = Len(g[q]) /\ g[r][k] = i
    <2>0. f[q] \in Seq(Items) /\ Len(f[q]) \in Nat
      OBVIOUS
    <2>1. CASE r = q /\ g[q] = Append(f[q], i)
      BY <1>1, <2>0, <2>1, AppendAt
    <2>2. CASE r = q /\ g[q] = <<i>>
      BY <1>1, <2>2
    <2>3. CASE r # q
      BY <1>1, <2>3
    <2> QED
      BY <2>1, <2>2, <2>3
  <1>2. ASSUME NEW x, x # i, Absent(f, x) PROVE Absent(g, x)
    <2>1. \A u \in P : \A j \in 1 .. Len(f[u]) : f[u][j] # x
      BY <1>2 DEF Absent
    <2>2. ASSUME NEW r \in P, NEW k \in 1 .. Len(g[r]) PROVE g[r][k] # x
      BY <1>1, <1>2, <2>1, <2>2
    <2> QED
      BY <2>2 DEF Absent
  <1>3. ASSUME NEW r \in P, NEW s \in P, NEW k \in 1 .. Len(g[r]), NEW l \in 1 .. Len(g[s]), g[r][k] = g[s][l]
        PROVE  r = s /\ k = l
    <2>1. \A u, v \in P : \A m \in 1 .. Len(f[u]), n \in 1 .. Len(f[v]) : f[u][m] = f[v][n] => u = v /\ m = n
      BY DEF Single
    <2>2. \A u \in P : Len(f[u]) \in Nat /\ Len(g[u]) \in Nat
      OBVIOUS
    <2> QED
      BY <1>1, <1>3, <2>1, <2>2 DEF Absent
  <1> QED
    BY <1>2, <1>3 DEF Single

-----------------------------------------------------------------------------
(* The places an item can be at *)

\* The places an item can be at: the conversation, the mailbox, the pending
\* input of a turn state, the hands of a task, of an operation, and the input an
\* operation starts its turn with.
HistoryAt == <<"history", 0>>
MailboxAt == <<"mailbox", 0>>
PendingAt(s) == <<"pending", s>>
TaskAt(t) == <<"task", t>>
BufAt(a) == <<"buf", a>>
InputAt(a) == <<"input", a>>
Places == {HistoryAt, MailboxAt} \cup {PendingAt(s) : s \in States} \cup {TaskAt(t) : t \in Turns}
          \cup {BufAt(a) : a \in Starters} \cup {InputAt(a) : a \in Starters}

\* The items at each place.
Queue == [p \in Places |->
    IF p = HistoryAt THEN history
    ELSE IF p = MailboxAt THEN mailbox
    ELSE IF p[1] = "pending" THEN pending[p[2]]
    ELSE IF p[1] = "task" THEN task[p[2]].buf
    ELSE IF p[1] = "buf" THEN actor[p[2]].buf
    ELSE actor[p[2]].input]

\* An item is at one place at most, once; one that was not sent, or that the
\* caller got back, is at none.
Placed ==
    /\ Single(Queue)
    /\ \A i \in Items : fate[i] \in {"unsent", "refused"} => Absent(Queue, i)

\* A place is of one of the kinds.
LEMMA PlaceKinds ==
    /\ HistoryAt \in Places /\ MailboxAt \in Places
    /\ \A s \in States : PendingAt(s) \in Places
    /\ \A t \in Turns : TaskAt(t) \in Places
    /\ \A a \in Starters : BufAt(a) \in Places /\ InputAt(a) \in Places
    /\ \A p \in Places : \/ p = HistoryAt \/ p = MailboxAt
                         \/ \E s \in States : p = PendingAt(s)
                         \/ \E t \in Turns : p = TaskAt(t)
                         \/ \E a \in Starters : p = BufAt(a)
                         \/ \E a \in Starters : p = InputAt(a)
  BY DEF Places

\* Places of different kinds, or of different owners, differ.
LEMMA PlacesDiffer ==
    /\ HistoryAt # MailboxAt
    /\ \A x : /\ HistoryAt # PendingAt(x) /\ HistoryAt # TaskAt(x) /\ HistoryAt # BufAt(x) /\ HistoryAt # InputAt(x)
              /\ MailboxAt # PendingAt(x) /\ MailboxAt # TaskAt(x) /\ MailboxAt # BufAt(x) /\ MailboxAt # InputAt(x)
    /\ \A x, y : /\ PendingAt(x) # TaskAt(y) /\ PendingAt(x) # BufAt(y) /\ PendingAt(x) # InputAt(y)
                 /\ TaskAt(x) # BufAt(y) /\ TaskAt(x) # InputAt(y) /\ BufAt(x) # InputAt(y)
    /\ \A x, y : /\ PendingAt(x) = PendingAt(y) => x = y
                 /\ TaskAt(x) = TaskAt(y) => x = y
                 /\ BufAt(x) = BufAt(y) => x = y
                 /\ InputAt(x) = InputAt(y) => x = y
  BY DEF HistoryAt, MailboxAt, PendingAt, TaskAt, BufAt, InputAt

\* What is queued at each place, before and after a step.
LEMMA QueueAt ==
    /\ Queue[HistoryAt] = history /\ Queue[MailboxAt] = mailbox
    /\ \A s \in States : Queue[PendingAt(s)] = pending[s]
    /\ \A t \in Turns : Queue[TaskAt(t)] = task[t].buf
    /\ \A a \in Starters : Queue[BufAt(a)] = actor[a].buf /\ Queue[InputAt(a)] = actor[a].input
  <1>1. \A s : PendingAt(s)[1] = "pending" /\ PendingAt(s)[2] = s
    BY DEF PendingAt
  <1>2. \A t : TaskAt(t)[1] = "task" /\ TaskAt(t)[2] = t
    BY DEF TaskAt
  <1>3. \A a : BufAt(a)[1] = "buf" /\ BufAt(a)[2] = a /\ InputAt(a)[1] = "input" /\ InputAt(a)[2] = a
    BY DEF BufAt, InputAt
  <1> QED
    BY <1>1, <1>2, <1>3, PlaceKinds, PlacesDiffer DEF Queue

\* The same after the step.
LEMMA QueueNextAt ==
    /\ Queue'[HistoryAt] = history' /\ Queue'[MailboxAt] = mailbox'
    /\ \A s \in States : Queue'[PendingAt(s)] = pending'[s]
    /\ \A t \in Turns : Queue'[TaskAt(t)] = task'[t].buf
    /\ \A a \in Starters : Queue'[BufAt(a)] = actor'[a].buf /\ Queue'[InputAt(a)] = actor'[a].input
  <1>1. \A s : PendingAt(s)[1] = "pending" /\ PendingAt(s)[2] = s
    BY DEF PendingAt
  <1>2. \A t : TaskAt(t)[1] = "task" /\ TaskAt(t)[2] = t
    BY DEF TaskAt
  <1>3. \A a : BufAt(a)[1] = "buf" /\ BufAt(a)[2] = a /\ InputAt(a)[1] = "input" /\ InputAt(a)[2] = a
    BY DEF BufAt, InputAt
  <1> QED
    BY <1>1, <1>2, <1>3, PlaceKinds, PlacesDiffer DEF Queue

\* Every place holds a sequence of items.
LEMMA QueueTyped ==
    ASSUME TypeOK PROVE Queue \in [Places -> Seq(Items)]
  <1>1. /\ pending \in [States -> Seq(Items)] /\ history \in Seq(Items) /\ mailbox \in Seq(Mails)
        /\ \A t \in Turns : task[t].buf \in Seq(Items)
        /\ \A a \in Starters : actor[a].buf \in Seq(Items) /\ actor[a].input \in Seq(Items)
    BY TypeSplit DEF DataOK, TaskTypes, ActorTypes
  <1>2. mailbox \in Seq(Items)
    BY <1>1 DEF Items
  <1>3. \A p \in Places : Queue[p] \in Seq(Items)
    BY <1>1, <1>2, PlaceKinds, QueueAt
  <1> QED
    BY <1>3 DEF Queue

\* The same after the step.
LEMMA QueueNextTyped ==
    ASSUME TypeOK' PROVE Queue' \in [Places -> Seq(Items)]
  <1>1. /\ pending' \in [States -> Seq(Items)] /\ history' \in Seq(Items) /\ mailbox' \in Seq(Mails)
        /\ \A t \in Turns : task'[t].buf \in Seq(Items)
        /\ \A a \in Starters : actor'[a].buf \in Seq(Items) /\ actor'[a].input \in Seq(Items)
    BY TypeSplit DEF DataOK, TaskTypes, ActorTypes
  <1>2. mailbox' \in Seq(Items)
    BY <1>1 DEF Items
  <1>3. \A p \in Places : Queue'[p] \in Seq(Items)
    BY <1>1, <1>2, PlaceKinds, QueueNextAt
  <1> QED
    BY <1>3 DEF Queue

-----------------------------------------------------------------------------
(* What a step may do to the places *)

\* Outside S a step leaves the queues alone or empties them.
KeptOutside(S) == \A p \in Places \ S : Queue'[p] = Queue[p] \/ Queue'[p] = <<>>
\* A step gives no item back.
NoneBack == \A i \in Items : fate'[i] \in {"unsent", "refused"} => fate[i] \in {"unsent", "refused"}

\* A step that keeps the queues of every kind keeps those of every place.
LEMMA KeptBy ==
    ASSUME NEW S, HistoryAt \in S \/ history' = history, MailboxAt \in S \/ mailbox' = mailbox,
           \A s \in States : PendingAt(s) \in S \/ pending'[s] = pending[s] \/ pending'[s] = <<>>,
           \A t \in Turns : TaskAt(t) \in S \/ task'[t].buf = task[t].buf \/ task'[t].buf = <<>>,
           \A a \in Starters : BufAt(a) \in S \/ actor'[a].buf = actor[a].buf \/ actor'[a].buf = <<>>,
           \A a \in Starters : InputAt(a) \in S \/ actor'[a].input = actor[a].input \/ actor'[a].input = <<>>
    PROVE  KeptOutside(S)
  <1> SUFFICES ASSUME NEW p \in Places \ S PROVE Queue'[p] = Queue[p] \/ Queue'[p] = <<>>
    BY DEF KeptOutside
  <1> QED
    BY PlaceKinds, QueueAt, QueueNextAt

\* A step that moves nothing and may drop queues.
LEMMA DropPlaced ==
    ASSUME TypeOK, TypeOK', Placed, NoneBack, KeptOutside({}) PROVE Placed'
  <1>1. Queue \in [Places -> Seq(Items)] /\ Queue' \in [Places -> Seq(Items)]
    BY QueueTyped, QueueNextTyped
  <1>2. \A p \in Places : Queue'[p] = Queue[p] \/ Queue'[p] = <<>>
    BY DEF KeptOutside
  <1>3. Single(Queue') /\ \A x : Absent(Queue, x) => Absent(Queue', x)
    BY <1>1, <1>2, DropSingle DEF Placed
  <1> QED
    BY <1>3 DEF Placed, NoneBack

\* A step that moves a queue to another place.
LEMMA MovePlaced ==
    ASSUME TypeOK, TypeOK', Placed, NoneBack, NEW p \in Places, NEW q \in Places, p # q,
           Queue'[p] = <<>>, Queue'[q] = Queue[q] \o Queue[p] \/ Queue'[q] = Queue[p],
           KeptOutside({p, q})
    PROVE  Placed'
  <1>1. Queue \in [Places -> Seq(Items)] /\ Queue' \in [Places -> Seq(Items)]
    BY QueueTyped, QueueNextTyped
  <1>2. \A r \in Places \ {p, q} : Queue'[r] = Queue[r] \/ Queue'[r] = <<>>
    BY DEF KeptOutside
  <1>3. Single(Queue') /\ \A x : Absent(Queue, x) => Absent(Queue', x)
    <2>1. Single(Queue)
      BY DEF Placed
    <2>2. Moved(Places, Queue, Queue', p, q)
      BY <1>1, <1>2 DEF Moved
    <2> QED
      BY <2>1, <2>2, MoveSingle
  <1> QED
    BY <1>3 DEF Placed, NoneBack

\* A step with which an unsent item enters the session.
LEMMA NewPlaced ==
    ASSUME TypeOK, TypeOK', Placed, NoneBack, NEW q \in Places, NEW i \in Items,
           fate[i] = "unsent", fate'[i] \notin {"unsent", "refused"},
           Queue'[q] = Append(Queue[q], i) \/ Queue'[q] = <<i>>,
           KeptOutside({q})
    PROVE  Placed'
  <1>1. Queue \in [Places -> Seq(Items)] /\ Queue' \in [Places -> Seq(Items)]
    BY QueueTyped, QueueNextTyped
  <1>2. \A r \in Places \ {q} : Queue'[r] = Queue[r] \/ Queue'[r] = <<>>
    BY DEF KeptOutside
  <1>3. Absent(Queue, i)
    BY DEF Placed
  <1>4. Single(Queue') /\ \A x : x # i /\ Absent(Queue, x) => Absent(Queue', x)
    <2>1. Single(Queue)
      BY DEF Placed
    <2>2. Entered(Places, Queue, Queue', q, i)
      BY <1>1, <1>2 DEF Entered
    <2> QED
      BY <1>3, <2>1, <2>2, NewSingle
  <1> QED
    BY <1>4 DEF Placed, NoneBack

\* The item an extension offered goes back to it, and nothing is kept of it.
LEMMA RefusePlaced ==
    ASSUME TypeOK, TypeOK', Placed, NEW a \in Starters, Len(actor[a].input) = 1, ExtRefuse(a),
           actor'[a].input = <<>>, KeptOutside({})
    PROVE  Placed'
  <1> DEFINE i == actor[a].input[1]
             q == InputAt(a)
  <1>1. Queue \in [Places -> Seq(Items)] /\ Queue' \in [Places -> Seq(Items)]
    BY QueueTyped, QueueNextTyped
  <1>2. \A p \in Places : Queue'[p] = Queue[p] \/ Queue'[p] = <<>>
    BY DEF KeptOutside
  <1>3. Single(Queue') /\ \A x : Absent(Queue, x) => Absent(Queue', x)
    BY <1>1, <1>2, DropSingle DEF Placed
  <1>4. q \in Places /\ Queue[q] = actor[a].input /\ Queue'[q] = <<>>
    BY PlaceKinds, QueueAt, QueueNextAt
  <1>5. Absent(Queue', i)
    <2> SUFFICES ASSUME NEW p \in Places, NEW k \in 1 .. Len(Queue'[p]), Queue'[p][k] = i PROVE FALSE
      BY <1>1 DEF Absent
    <2>1. Queue'[p] # <<>> /\ p # q
      BY <1>1, <1>4
    <2>2. Queue'[p] = Queue[p]
      BY <1>2, <2>1
    <2>3. 1 \in 1 .. Len(Queue[q]) /\ Queue[q][1] = i
      BY <1>4
    <2> HIDE DEF i, q
    <2> QED
      BY <1>1, <1>4, <2>1, <2>2, <2>3 DEF Placed, Single
  <1>6. \A j \in Items : fate'[j] \in {"unsent", "refused"} => j = i \/ fate[j] \in {"unsent", "refused"}
    BY DEF ExtRefuse, TypeOK
  <1> HIDE DEF i
  <1> QED
    BY <1>3, <1>5, <1>6 DEF Placed

\* Recording moves the first item in a task's hands to the conversation; blocking
\* drops it.
LEMMA RecordPlaced ==
    ASSUME TypeOK, TypeOK', Placed, NEW t \in Turns, RecordHead(t),
           UNCHANGED <<pending, mailbox, actor>>
    PROVE  Placed'
  <1> DEFINE p == TaskAt(t)
             T == task[t]
  <1>1. Queue \in [Places -> Seq(Items)] /\ Queue' \in [Places -> Seq(Items)]
    BY QueueTyped, QueueNextTyped
  <1>2. task \in [Turns -> TaskTypes] /\ T \in TaskTypes
    BY TypeSplit
  <1>3. T.buf # <<>> /\ T.buf \in Seq(Items)
    BY <1>2 DEF RecordHead, TaskTypes
  <1>4. task'[t].buf = Tail(T.buf) /\ \A u \in Turns \ {t} : task'[u] = task[u]
    <2>1. PICK v : task' = [task EXCEPT ![t] = [task[t] EXCEPT !.buf = Tail(T.buf), !.verdict = v]]
      BY <1>2 DEF RecordHead
    <2> QED
      BY <1>2, <2>1 DEF TaskTypes
  <1>5. p \in Places /\ HistoryAt \in Places /\ p # HistoryAt /\ Queue[p] = T.buf /\ Queue'[p] = Tail(T.buf)
    BY <1>4, PlaceKinds, PlacesDiffer, QueueAt, QueueNextAt
  <1>6. \A r \in Places \ {p, HistoryAt} : Queue'[r] = Queue[r]
    <2> SUFFICES ASSUME NEW r \in Places \ {p, HistoryAt} PROVE Queue'[r] = Queue[r]
      OBVIOUS
    <2> QED
      BY <1>4, PlaceKinds, PlacesDiffer, QueueAt, QueueNextAt
  <1>7. CASE history' = Append(history, Head(T.buf)) /\ UNCHANGED fate
    <2>1. Queue'[HistoryAt] = Append(Queue[HistoryAt], Head(Queue[p]))
      BY <1>5, <1>7, QueueAt, QueueNextAt
    <2> HIDE DEF p, T
    <2>2. Single(Queue') /\ \A x : Absent(Queue, x) => Absent(Queue', x)
      <3>1. Single(Queue) /\ Queue[p] # <<>> /\ Queue'[p] = Tail(Queue[p])
        BY <1>3, <1>5 DEF Placed
      <3>2. HeadMoved(Places, Queue, Queue', p, HistoryAt)
        BY <1>1, <1>5, <1>6, <2>1, <3>1 DEF HeadMoved
      <3> QED
        BY <3>1, <3>2, HeadSingle
    <2> QED
      BY <1>7, <2>2 DEF Placed
  <1>8. CASE fate' = [fate EXCEPT ![Head(T.buf)] = "blocked"] /\ UNCHANGED history
    <2>1. \A r \in Places \ {p} : Queue'[r] = Queue[r]
      BY <1>5, <1>6, <1>8, QueueAt, QueueNextAt
    <2>2. \A j \in Items : fate'[j] \in {"unsent", "refused"} => fate[j] \in {"unsent", "refused"}
      BY <1>8 DEF TypeOK
    <2> HIDE DEF p, T
    <2>3. Single(Queue') /\ \A x : Absent(Queue, x) => Absent(Queue', x)
      BY <1>1, <1>3, <1>5, <2>1, TailSingle DEF Placed
    <2> QED
      BY <2>2, <2>3 DEF Placed
  <1> QED
    BY <1>7, <1>8 DEF RecordHead

\* Dropping items gives none back.
LEMMA AbandonNoneBack ==
    ASSUME TypeOK, NEW S, Abandon(S) PROVE NoneBack
  BY DEF Abandon, NoneBack

\* Nor does a step that changes no fate.
LEMMA FateNoneBack ==
    ASSUME UNCHANGED fate PROVE NoneBack
  BY DEF NoneBack

-----------------------------------------------------------------------------
(* Items on their way: aborting and starting turns *)

\* The operations hold what they held, or dropped it.
HandsKept ==
    \A b \in Starters : /\ actor'[b].buf = actor[b].buf \/ actor'[b].buf = <<>>
                        /\ actor'[b].input = actor[b].input \/ actor'[b].input = <<>>

\* An operation that goes on keeps what it holds.
LEMMA GotoHands ==
    ASSUME TypeOK, NEW a \in Starters, NEW pc, Goto(a, pc)
    PROVE  HandsKept /\ \A b \in Starters : actor'[b].buf = actor[b].buf /\ actor'[b].input = actor[b].input
  <1>1. actor \in [Starters -> ActorTypes] /\ actor[a] \in ActorTypes
    BY TypeSplit
  <1>2. /\ [actor[a] EXCEPT !.pc = pc].buf = actor[a].buf
        /\ [actor[a] EXCEPT !.pc = pc].input = actor[a].input
    BY <1>1 DEF ActorTypes
  <1>3. actor' = [actor EXCEPT ![a] = [actor[a] EXCEPT !.pc = pc]]
    BY <1>1 DEF Goto
  <1> QED
    BY <1>1, <1>2, <1>3 DEF HandsKept

\* An operation that ends holds nothing.
LEMMA ReturnHands ==
    ASSUME TypeOK, NEW a \in Starters, Return(a)
    PROVE  HandsKept /\ actor'[a].input = <<>> /\ actor'[a].buf = <<>>
                     /\ \A b \in Starters \ {a} : actor'[b] = actor[b]
  <1>1. actor \in [Starters -> ActorTypes]
    BY TypeSplit
  <1> QED
    BY <1>1, Returns DEF HandsKept

\* After an abort an operation holds what it held, or ends.
LEMMA AfterAbortHands ==
    ASSUME TypeOK, NEW a \in Starters, NEW aborted, AfterAbort(a, aborted) PROVE HandsKept
  BY GotoHands, ReturnHands DEF AfterAbort

\* A step that moves no item.
LEMMA StillPlaced ==
    ASSUME TypeOK, TypeOK', Placed, NoneBack, HandsKept, UNCHANGED <<history, mailbox>>,
           \A s \in States : pending'[s] = pending[s] \/ pending'[s] = <<>>,
           \A t \in Turns : task'[t].buf = task[t].buf \/ task'[t].buf = <<>>
    PROVE  Placed'
  <1>1. KeptOutside({})
    BY KeptBy DEF HandsKept
  <1> QED
    BY <1>1, DropPlaced

\* Clearing the pending input of one turn state.
LEMMA PendingDropped ==
    ASSUME TypeOK, NEW s, pending' = [pending EXCEPT ![s] = <<>>]
    PROVE  \A r \in States : pending'[r] = pending[r] \/ pending'[r] = <<>>
  BY DEF TypeOK

\* The steps of an abort drop items and move none.
LEMMA AbortPlaced ==
    ASSUME SessionInv, SessionInv', Placed, NEW a \in Starters, AbortTurn(a) PROVE Placed'
  <1>1. TypeOK /\ TypeOK'
    BY DEF SessionInv
  <1>2. CASE AbortTake(a)
    <2>1. HandsKept
      <3>1. CASE active.task # None
        <4> DEFINE r == [actor[a] EXCEPT !.pc = "kill", !.victim = active.task, !.vstate = active.state]
        <4>1. actor' = [actor EXCEPT ![a] = r]
          BY <1>2, <3>1, Typed DEF AbortTake
        <4>2. actor[a] \in ActorTypes
          BY Typed
        <4>3. r.buf = actor[a].buf /\ r.input = actor[a].input
          BY <4>2 DEF ActorTypes
        <4> HIDE DEF r
        <4> QED
          BY <4>1, <4>3, Typed DEF HandsKept
      <3>2. CASE active.task = None
        BY <1>1, <1>2, <3>2, AfterAbortHands DEF AbortTake
      <3> QED
        BY <3>1, <3>2
    <2>2. \A t \in Turns : task'[t].buf = task[t].buf
      BY <1>1, <1>2, Typed, CancelTyped DEF AbortTake
    <2>3. UNCHANGED <<history, mailbox, pending, fate>>
      BY <1>2 DEF AbortTake
    <2> QED
      BY <1>1, <2>1, <2>2, <2>3, FateNoneBack, StillPlaced
  <1>3. CASE AbortKill(a)
    <2>1. actor[a].victim \in Turns
      BY <1>3, Typed DEF AbortKill, SessionInv, OperandsOK, Aborting
    <2>2. \A t \in Turns : task'[t].buf = task[t].buf \/ task'[t].buf = <<>>
      BY <1>1, <1>3, <2>1, KillTyped DEF AbortKill
    <2>3. HandsKept /\ NoneBack
      BY <1>1, <1>3, GotoHands, FateNoneBack, AbandonNoneBack DEF AbortKill
    <2>4. UNCHANGED <<history, mailbox, pending>>
      BY <1>3 DEF AbortKill
    <2> QED
      BY <1>1, <2>2, <2>3, <2>4, StillPlaced
  <1>4. CASE AbortEvent(a)
    <2>1. HandsKept /\ NoneBack
      BY <1>1, <1>4, GotoHands, FateNoneBack DEF AbortEvent
    <2> QED
      BY <1>1, <1>4, <2>1, StillPlaced DEF AbortEvent
  <1>5. CASE AbortClear(a)
    <2>1. HandsKept /\ NoneBack
      BY <1>1, <1>5, AfterAbortHands, AbandonNoneBack DEF AbortClear
    <2>2. \A s \in States : pending'[s] = pending[s] \/ pending'[s] = <<>>
      BY <1>1, <1>5, PendingDropped DEF AbortClear
    <2>3. UNCHANGED <<history, mailbox, task>>
      BY <1>5 DEF AbortClear
    <2> QED
      BY <1>1, <2>1, <2>2, <2>3, StillPlaced
  <1> QED
    BY <1>2, <1>3, <1>4, <1>5 DEF AbortTurn

\* maybe_start_turn_for_pending_work moves no item.
LEMMA WakePlaced ==
    ASSUME SessionInv, SessionInv', Placed, NEW a \in Starters, MaybeStart(a) \/ Reserve(a) PROVE Placed'
  <1>1. TypeOK /\ TypeOK'
    BY DEF SessionInv
  <1>2. HandsKept
    BY <1>1, GotoHands, ReturnHands DEF MaybeStart, Reserve
  <1>3. UNCHANGED <<history, mailbox, pending, task, fate>>
    BY DEF MaybeStart, Reserve
  <1> QED
    BY <1>1, <1>2, <1>3, FateNoneBack, StillPlaced

\* The pending input of the turn moves into the hands of the operation.
LEMMA GetTurnInputPlaced ==
    ASSUME SessionInv, SessionInv', Placed, NEW a \in Starters, GetTurnInput(a) PROVE Placed'
  <1>1. TypeOK /\ TypeOK'
    BY DEF SessionInv
  <1>2. UNCHANGED <<history, mailbox, task, fate>>
    BY DEF GetTurnInput
  <1>3. CASE active = NoTurn
    <2>1. HandsKept /\ pending' = pending
      BY <1>1, <1>3, GotoHands DEF GetTurnInput
    <2> QED
      BY <1>1, <1>2, <2>1, FateNoneBack, StillPlaced
  <1>4. CASE active # NoTurn
    <2> DEFINE p == PendingAt(active.state)
               q == BufAt(a)
    <2>1. active.state \in States
      BY <1>4, Typed
    <2>2. pending' = [pending EXCEPT ![active.state] = <<>>] /\ pending \in [States -> Seq(Items)]
      BY <1>4, Typed DEF GetTurnInput, DataOK
    <2>3. PICK pc : actor' = [actor EXCEPT ![a] = [actor[a] EXCEPT !.pc = pc, !.buf = pending[active.state]]]
      BY <1>4, Typed DEF GetTurnInput
    <2>4. /\ actor'[a].buf = pending[active.state] /\ actor'[a].input = actor[a].input
          /\ \A b \in Starters \ {a} : actor'[b] = actor[b]
      <3>1. actor[a] \in ActorTypes
        BY Typed
      <3> QED
        BY <2>3, <3>1, Typed DEF ActorTypes
    <2>5. p \in Places /\ q \in Places /\ p # q
      BY <2>1, PlaceKinds, PlacesDiffer
    <2>6. Queue'[p] = <<>> /\ Queue'[q] = Queue[p]
      BY <2>1, <2>2, <2>4, QueueAt, QueueNextAt
    <2>7. KeptOutside({p, q})
      <3>1. \A s \in States : pending'[s] = pending[s] \/ pending'[s] = <<>>
        BY <2>2
      <3>2. \A b \in Starters : /\ BufAt(b) \in {p, q} \/ actor'[b].buf = actor[b].buf
                                /\ actor'[b].input = actor[b].input
        BY <2>4
      <3> QED
        BY <1>2, <3>1, <3>2, KeptBy
    <2> HIDE DEF p, q
    <2> QED
      BY <1>1, <1>2, <2>5, <2>6, <2>7, FateNoneBack, MovePlaced
  <1> QED
    BY <1>3, <1>4

\* The mail moves into the hands of the operation.
LEMMA GetMailPlaced ==
    ASSUME SessionInv, SessionInv', Placed, NEW a \in Starters, GetMail(a) PROVE Placed'
  <1> DEFINE q == BufAt(a)
  <1>1. TypeOK /\ TypeOK'
    BY DEF SessionInv
  <1>2. UNCHANGED <<history, pending, task, fate>> /\ mailbox' = <<>>
    BY DEF GetMail
  <1>3. /\ actor'[a].buf = actor[a].buf \o mailbox /\ actor'[a].input = actor[a].input
        /\ \A b \in Starters \ {a} : actor'[b] = actor[b]
    <2>1. actor[a] \in ActorTypes
      BY Typed
    <2> QED
      BY <2>1, Typed DEF GetMail, ActorTypes
  <1>4. MailboxAt \in Places /\ q \in Places /\ MailboxAt # q
    BY PlaceKinds, PlacesDiffer
  <1>5. Queue'[MailboxAt] = <<>> /\ Queue'[q] = Queue[q] \o Queue[MailboxAt]
    BY <1>2, <1>3, QueueAt, QueueNextAt
  <1>6. KeptOutside({MailboxAt, q})
    <2>1. \A b \in Starters : /\ BufAt(b) \in {MailboxAt, q} \/ actor'[b].buf = actor[b].buf
                              /\ actor'[b].input = actor[b].input
      BY <1>3
    <2> QED
      BY <1>2, <2>1, KeptBy
  <1> HIDE DEF q
  <1> QED
    BY <1>1, <1>2, <1>4, <1>5, <1>6, FateNoneBack, MovePlaced

\* A new turn state holds nothing.
LEMMA InsertTurnPlaced ==
    ASSUME SessionInv, SessionInv', Placed, NEW a \in Starters, InsertTurn(a) PROVE Placed'
  <1>1. TypeOK /\ TypeOK'
    BY DEF SessionInv
  <1>2. HandsKept
    <2>1. actor[a] \in ActorTypes
      BY Typed
    <2>2. /\ actor'[a].buf = actor[a].buf /\ actor'[a].input = actor[a].input
          /\ \A b \in Starters \ {a} : actor'[b] = actor[b]
      BY <2>1, Typed DEF InsertTurn, ActorTypes
    <2> QED
      BY <2>2 DEF HandsKept
  <1> QED
    BY <1>1, <1>2, FateNoneBack, StillPlaced DEF InsertTurn

\* What the operation holds moves to the pending input of the turn.
LEMMA ExtendPendingPlaced ==
    ASSUME SessionInv, SessionInv', Placed, NEW a \in Starters, ExtendPending(a) PROVE Placed'
  <1> DEFINE p == BufAt(a)
             q == PendingAt(actor[a].state)
  <1>1. TypeOK /\ TypeOK'
    BY DEF SessionInv
  <1>2. UNCHANGED <<history, mailbox, task, fate>>
    BY DEF ExtendPending
  <1>3. actor[a].state \in States
    BY DEF ExtendPending, SessionInv, OperandsOK
  <1>4. /\ pending'[actor[a].state] = pending[actor[a].state] \o actor[a].buf
        /\ \A s \in States \ {actor[a].state} : pending'[s] = pending[s]
    BY <1>3, Typed DEF ExtendPending, DataOK
  <1>5. /\ actor'[a].buf = <<>> /\ actor'[a].input = actor[a].input
        /\ \A b \in Starters \ {a} : actor'[b] = actor[b]
    <2>1. actor[a] \in ActorTypes
      BY Typed
    <2> QED
      BY <2>1, Typed DEF ExtendPending, ActorTypes
  <1>6. p \in Places /\ q \in Places /\ p # q
    BY <1>3, PlaceKinds, PlacesDiffer
  <1>7. Queue'[p] = <<>> /\ Queue'[q] = Queue[q] \o Queue[p]
    BY <1>3, <1>4, <1>5, QueueAt, QueueNextAt
  <1>8. KeptOutside({p, q})
    <2>1. \A s \in States : PendingAt(s) \in {p, q} \/ pending'[s] = pending[s]
      BY <1>4
    <2>2. \A b \in Starters : /\ actor'[b].buf = actor[b].buf \/ actor'[b].buf = <<>>
                              /\ actor'[b].input = actor[b].input
      BY <1>5
    <2> QED
      BY <1>2, <2>1, <2>2, KeptBy
  <1> HIDE DEF p, q
  <1> QED
    BY <1>1, <1>2, <1>6, <1>7, <1>8, FateNoneBack, MovePlaced

-----------------------------------------------------------------------------
(* Items on their way: installing a task, and the steps of extensions *)

\* The input of the operation becomes what the new task starts with; the hands of
\* a task it replaces are emptied.
LEMMA InstallPlaced ==
    ASSUME SessionInv, SessionInv', Placed, NEW a \in Starters, Install(a) PROVE Placed'
  <1> DEFINE t == NewTurn
             old == active.task
             born == [NoTask EXCEPT !.pc = "start", !.kind = actor[a].kind, !.buf = actor[a].input]
             p == InputAt(a)
             q == TaskAt(t)
  <1>1. TypeOK /\ TypeOK' /\ t \in Turns /\ t \notin Born
    BY NewTurnUnborn DEF SessionInv, Install
  <1>2. UNCHANGED <<history, mailbox, pending>>
    BY DEF Install
  <1>3. born.buf = actor[a].input
    BY DEF NoTask
  <1>4. old # t
    BY <1>1, Typed DEF Turns, None
  <1>5. /\ task'[t].buf = actor[a].input
        /\ \A u \in Turns \ {t} : task'[u].buf = task[u].buf \/ task'[u].buf = <<>>
        /\ NoneBack
    <2>1. CASE old = None \/ task[old].pc \in {"done", "killed"}
      <3>1. task' = [task EXCEPT ![t] = born] /\ fate' = fate
        BY <2>1 DEF Install
      <3> HIDE DEF t, born
      <3> QED
        BY <1>1, <1>3, <3>1, Typed, FateNoneBack
    <2>2. CASE ~(old = None \/ task[old].pc \in {"done", "killed"})
      <3> DEFINE dead == [task[old] EXCEPT !.pc = "killed", !.buf = <<>>]
      <3>1. old \in Turns
        BY <2>2, Typed
      <3>2. dead.buf = <<>>
        <4>1. task[old] \in TaskTypes
          BY <3>1, Typed
        <4> HIDE DEF old
        <4> QED
          BY <4>1 DEF TaskTypes
      <3>3. task' = [task EXCEPT ![t] = born, ![old] = [@ EXCEPT !.pc = "killed", !.buf = <<>>]]
        BY <2>2 DEF Install
      <3>4. Abandon(ToSet(task[old].buf))
        BY <2>2 DEF Install
      <3>5. task' = [task EXCEPT ![t] = born, ![old] = dead]
        BY <1>4, <3>1, <3>3, Typed
      <3>6. NoneBack
        BY <1>1, <3>4, AbandonNoneBack
      <3> HIDE DEF t, born, dead
      <3> QED
        BY <1>1, <1>3, <1>4, <3>1, <3>2, <3>5, <3>6, Typed
    <2> QED
      BY <2>1, <2>2
  <1> HIDE DEF t, born, old
  <1>6. HandsKept /\ actor'[a].input = <<>>
    BY <1>1, ReturnHands DEF Install
  <1>7. p \in Places /\ q \in Places /\ p # q
    BY <1>1, PlaceKinds, PlacesDiffer
  <1>8. Queue'[p] = <<>> /\ Queue'[q] = Queue[p]
    BY <1>1, <1>5, <1>6, QueueAt, QueueNextAt
  <1>9. KeptOutside({p, q})
    <2>1. \A u \in Turns : TaskAt(u) \in {p, q} \/ task'[u].buf = task[u].buf \/ task'[u].buf = <<>>
      BY <1>5
    <2> QED
      BY <1>2, <1>6, <2>1, KeptBy DEF HandsKept
  <1> HIDE DEF p, q
  <1> QED
    BY <1>1, <1>5, <1>7, <1>8, <1>9, MovePlaced

\* The reservation moves no item; a refused item is in no place.
LEMMA ExtReservePlaced ==
    ASSUME SessionInv, SessionInv', Placed, NEW a \in Starters, ExtReserve(a) PROVE Placed'
  <1>1. TypeOK /\ TypeOK' /\ Len(actor[a].input) = 1
    BY DEF ExtReserve, SessionInv, OperandsOK, ExtSteps
  <1>2. UNCHANGED <<history, mailbox, pending, task>>
    BY DEF ExtReserve
  <1>3. CASE active # NoTurn
    <2>1. HandsKept /\ actor'[a].input = <<>> /\ ExtRefuse(a)
      BY <1>1, <1>3, ReturnHands DEF ExtReserve
    <2>2. KeptOutside({})
      BY <1>2, <2>1, KeptBy DEF HandsKept
    <2> QED
      BY <1>1, <2>1, <2>2, RefusePlaced
  <1>4. CASE active = NoTurn
    <2>1. actor[a] \in ActorTypes
      BY Typed
    <2>2. /\ actor'[a].buf = actor[a].buf /\ actor'[a].input = actor[a].input
          /\ \A b \in Starters \ {a} : actor'[b] = actor[b]
      <3> DEFINE r == [actor[a] EXCEPT !.pc = "ext_recheck", !.state = active'.state]
      <3>1. actor' = [actor EXCEPT ![a] = r]
        BY <1>4, Typed DEF ExtReserve
      <3>2. r.buf = actor[a].buf /\ r.input = actor[a].input
        BY <2>1 DEF ActorTypes
      <3> HIDE DEF r
      <3> QED
        BY <3>1, <3>2, Typed
    <2>3. HandsKept
      BY <2>2 DEF HandsKept
    <2>4. NoneBack
      BY <1>4, FateNoneBack DEF ExtReserve
    <2> QED
      BY <1>1, <1>2, <2>3, <2>4, StillPlaced
  <1> QED
    BY <1>3, <1>4

\* A refused item leaves the hands of the operation.
LEMMA ExtRecheckPlaced ==
    ASSUME SessionInv, SessionInv', Placed, NEW a \in Starters, ExtRecheck(a) PROVE Placed'
  <1>1. TypeOK /\ TypeOK' /\ Len(actor[a].input) = 1
    BY DEF ExtRecheck, SessionInv, OperandsOK, ExtSteps
  <1>2. UNCHANGED <<history, mailbox, pending, task>>
    BY DEF ExtRecheck
  <1>3. CASE Goto(a, "ext_confirm") /\ UNCHANGED fate
    <2>1. HandsKept
      BY <1>1, <1>3, GotoHands
    <2> QED
      BY <1>1, <1>2, <1>3, <2>1, FateNoneBack, StillPlaced
  <1>4. CASE ExtRefuse(a) /\ Begin(a, [IdleActor EXCEPT !.pc = "maybe"])
    <2> DEFINE r == [IdleActor EXCEPT !.pc = "maybe"]
    <2>1. r.buf = <<>> /\ r.input = <<>>
      BY DEF IdleActor
    <2>2. actor' = [actor EXCEPT ![a] = r]
      BY <1>4 DEF Begin
    <2> HIDE DEF r
    <2>3. HandsKept /\ actor'[a].input = <<>>
      BY <2>1, <2>2, Typed DEF HandsKept
    <2>4. KeptOutside({})
      BY <1>2, <2>3, KeptBy DEF HandsKept
    <2> QED
      BY <1>1, <1>4, <2>3, <2>4, RefusePlaced
  <1> QED
    BY <1>3, <1>4 DEF ExtRecheck

\* No item is moved.
LEMMA ExtConfirmPlaced ==
    ASSUME SessionInv, SessionInv', Placed, NEW a \in Starters, ExtConfirm(a) PROVE Placed'
  <1>1. TypeOK /\ TypeOK'
    BY DEF SessionInv
  <1>2. HandsKept
    BY <1>1, GotoHands DEF ExtConfirm
  <1>3. UNCHANGED <<history, mailbox, pending, task, fate>>
    BY DEF ExtConfirm
  <1> QED
    BY <1>1, <1>2, <1>3, FateNoneBack, StillPlaced

\* A refused item leaves the hands of the operation.
LEMMA ExtClearPlaced ==
    ASSUME SessionInv, SessionInv', Placed, NEW a \in Starters, ExtClear(a) PROVE Placed'
  <1>1. TypeOK /\ TypeOK' /\ Len(actor[a].input) = 1
    BY DEF ExtClear, SessionInv, OperandsOK, ExtSteps
  <1>2. UNCHANGED <<history, mailbox, pending, task>>
    BY DEF ExtClear
  <1>3. HandsKept /\ actor'[a].input = <<>> /\ ExtRefuse(a)
    BY <1>1, ReturnHands DEF ExtClear
  <1>4. KeptOutside({})
    BY <1>2, <1>3, KeptBy DEF HandsKept
  <1> QED
    BY <1>1, <1>3, <1>4, RefusePlaced

\* The item of the extension moves to the pending input of the turn.
LEMMA ExtExtendPlaced ==
    ASSUME SessionInv, SessionInv', Placed, NEW a \in Starters, ExtExtend(a) PROVE Placed'
  <1> DEFINE p == InputAt(a)
             q == PendingAt(actor[a].state)
  <1>1. TypeOK /\ TypeOK'
    BY DEF SessionInv
  <1>2. UNCHANGED <<history, mailbox, task>>
    BY DEF ExtExtend
  <1>3. actor[a].state \in States
    BY DEF ExtExtend, SessionInv, OperandsOK
  <1>4. /\ pending'[actor[a].state] = pending[actor[a].state] \o actor[a].input
        /\ \A s \in States \ {actor[a].state} : pending'[s] = pending[s]
    BY <1>3, Typed DEF ExtExtend, DataOK
  <1>5. /\ actor'[a].input = <<>> /\ actor'[a].buf = actor[a].buf
        /\ \A b \in Starters \ {a} : actor'[b] = actor[b]
    <2>1. actor[a] \in ActorTypes
      BY Typed
    <2> QED
      BY <2>1, Typed DEF ExtExtend, ActorTypes
  <1>6. p \in Places /\ q \in Places /\ p # q
    BY <1>3, PlaceKinds, PlacesDiffer
  <1>7. Queue'[p] = <<>> /\ Queue'[q] = Queue[q] \o Queue[p]
    BY <1>3, <1>4, <1>5, QueueAt, QueueNextAt
  <1>8. KeptOutside({p, q})
    <2>1. \A s \in States : PendingAt(s) \in {p, q} \/ pending'[s] = pending[s]
      BY <1>4
    <2>2. \A b \in Starters : /\ actor'[b].buf = actor[b].buf
                              /\ actor'[b].input = actor[b].input \/ actor'[b].input = <<>>
      BY <1>5
    <2> QED
      BY <1>2, <2>1, <2>2, KeptBy
  <1>9. NoneBack
    BY <1>1 DEF ExtExtend, NoneBack, TypeOK
  <1> HIDE DEF p, q
  <1> QED
    BY <1>1, <1>6, <1>7, <1>8, <1>9, MovePlaced

\* The steps of an operation.
LEMMA ActorPlaced ==
    ASSUME SessionInv, SessionInv', Placed, NEW a \in Starters, ActorStep(a) PROVE Placed'
  BY AbortPlaced, WakePlaced, GetTurnInputPlaced, GetMailPlaced, InsertTurnPlaced, ExtendPendingPlaced,
     InstallPlaced, ExtReservePlaced, ExtRecheckPlaced, ExtConfirmPlaced, ExtClearPlaced, ExtExtendPlaced
  DEF ActorStep, StartTask, TryStartIdle

-----------------------------------------------------------------------------
(* Items on their way: tasks *)

\* A task goes on with what it holds, or drops it.
LEMMA TaskKeeps ==
    ASSUME SessionInv, SessionInv', Placed, NEW t \in Turns, NoneBack,
           NEW r, task' = [task EXCEPT ![t] = r], r.buf = task[t].buf \/ r.buf = <<>>,
           UNCHANGED <<pending, mailbox, history, actor>>
    PROVE  Placed'
  <1>1. TypeOK /\ TypeOK'
    BY DEF SessionInv
  <1>2. \A u \in Turns : task'[u].buf = task[u].buf \/ task'[u].buf = <<>>
    BY Typed
  <1>3. HandsKept
    BY DEF HandsKept
  <1> QED
    BY <1>1, <1>2, <1>3, StillPlaced

\* A task goes on at another step.
LEMMA BecomePlaced ==
    ASSUME SessionInv, SessionInv', Placed, NEW t \in Turns, NEW pc, Become(t, pc),
           UNCHANGED <<pending, mailbox, history, actor, fate>>
    PROVE  Placed'
  <1> DEFINE r == [task[t] EXCEPT !.pc = pc]
  <1>1. task[t] \in TaskTypes
    BY Typed
  <1>2. r.buf = task[t].buf
    BY <1>1 DEF TaskTypes
  <1>3. task' = [task EXCEPT ![t] = r]
    BY Typed DEF Become
  <1> HIDE DEF r
  <1> QED
    BY <1>2, <1>3, FateNoneBack, TaskKeeps

\* A task takes all that is queued at another place.
LEMMA TaskTakes ==
    ASSUME SessionInv, SessionInv', Placed, NEW t \in Turns, NEW p \in Places, p # TaskAt(t),
           NEW r, task' = [task EXCEPT ![t] = r],
           Queue'[p] = <<>>, r.buf = Queue[p] \/ r.buf = task[t].buf \o Queue[p],
           KeptOutside({p, TaskAt(t)}), UNCHANGED fate
    PROVE  Placed'
  <1> DEFINE q == TaskAt(t)
  <1>1. TypeOK /\ TypeOK'
    BY DEF SessionInv
  <1>2. q \in Places /\ Queue[q] = task[t].buf /\ Queue'[q] = r.buf
    BY Typed, PlaceKinds, QueueAt, QueueNextAt
  <1> HIDE DEF q
  <1> QED
    BY <1>1, <1>2, FateNoneBack, MovePlaced DEF q

\* The places a task that takes items leaves alone.
LEMMA TakesOutside ==
    ASSUME SessionInv, NEW t \in Turns, NEW p, NEW r, task' = [task EXCEPT ![t] = r], UNCHANGED <<history, actor>>,
           \A s \in States : pending'[s] = pending[s] \/ pending'[s] = <<>>,
           mailbox' = mailbox \/ p = MailboxAt
    PROVE  KeptOutside({p, TaskAt(t)})
  <1>1. \A u \in Turns : TaskAt(u) \in {p, TaskAt(t)} \/ task'[u].buf = task[u].buf
    BY Typed
  <1>2. MailboxAt \in {p, TaskAt(t)} \/ mailbox' = mailbox
    OBVIOUS
  <1> QED
    BY <1>1, <1>2, KeptBy

\* A task takes pending input, or mail.
LEMMA DrainPlaced ==
    ASSUME SessionInv, SessionInv', Placed, NEW t \in Turns,
           TaskDrain(t) \/ TaskDrainMail(t) \/ FinishFlush(t)
    PROVE  Placed'
  <1>0. task[t] \in TaskTypes
    BY Typed
  <1>1. CASE TaskDrain(t) /\ active = NoTurn
    BY <1>1, BecomePlaced DEF TaskDrain
  <1>2. CASE TaskDrain(t) /\ active # NoTurn
    <2>1. active.state \in States /\ pending \in [States -> Seq(Items)]
      BY <1>2, Typed DEF DataOK
    <2>2. PICK pc : task' = [task EXCEPT ![t] = [task[t] EXCEPT !.pc = pc, !.buf = pending[active.state]]]
      BY <1>2, Typed DEF TaskDrain
    <2> DEFINE r == [task[t] EXCEPT !.pc = pc, !.buf = pending[active.state]]
               p == PendingAt(active.state)
    <2>3. r.buf = pending[active.state]
      BY <1>0 DEF TaskTypes
    <2>4. pending' = [pending EXCEPT ![active.state] = <<>>] /\ UNCHANGED <<history, mailbox, actor, fate>>
      BY <1>2 DEF TaskDrain
    <2>5. p \in Places /\ p # TaskAt(t) /\ Queue[p] = pending[active.state] /\ Queue'[p] = <<>>
      BY <2>1, <2>4, PlaceKinds, PlacesDiffer, QueueAt, QueueNextAt
    <2>6. \A s \in States : pending'[s] = pending[s] \/ pending'[s] = <<>>
      BY <2>1, <2>4
    <2> HIDE DEF r, p
    <2>7. KeptOutside({p, TaskAt(t)})
      BY <2>2, <2>4, <2>6, TakesOutside DEF r
    <2> QED
      BY <2>2, <2>3, <2>4, <2>5, <2>7, TaskTakes DEF r
  <1>3. CASE TaskDrainMail(t)
    <2> DEFINE r == [task[t] EXCEPT !.pc = "record", !.buf = task[t].buf \o mailbox]
    <2>1. task' = [task EXCEPT ![t] = r]
      BY <1>3, Typed DEF TaskDrainMail
    <2>2. r.buf = task[t].buf \o mailbox
      BY <1>0 DEF TaskTypes
    <2>3. mailbox' = <<>> /\ UNCHANGED <<history, pending, actor, fate>>
      BY <1>3 DEF TaskDrainMail
    <2>4. MailboxAt \in Places /\ MailboxAt # TaskAt(t) /\ Queue[MailboxAt] = mailbox /\ Queue'[MailboxAt] = <<>>
      BY <2>3, PlaceKinds, PlacesDiffer, QueueAt, QueueNextAt
    <2> HIDE DEF r
    <2>5. KeptOutside({MailboxAt, TaskAt(t)})
      BY <2>1, <2>3, TakesOutside
    <2> QED
      BY <2>1, <2>2, <2>3, <2>4, <2>5, TaskTakes
  <1>4. CASE FinishFlush(t)
    <2> DEFINE s == task[t].state
               r == [task[t] EXCEPT !.pc = "flush_record", !.buf = pending[s]]
               p == PendingAt(s)
    <2>1. s \in States /\ pending \in [States -> Seq(Items)]
      BY <1>4, Typed DEF DataOK, FinishFlush, SessionInv
    <2>2. task' = [task EXCEPT ![t] = r]
      BY <1>4, Typed DEF FinishFlush
    <2>3. r.buf = pending[s]
      BY <1>0 DEF TaskTypes
    <2>4. pending' = [pending EXCEPT ![s] = <<>>] /\ UNCHANGED <<history, mailbox, actor, fate>>
      BY <1>4 DEF FinishFlush
    <2> HIDE DEF r, s
    <2>5. p \in Places /\ p # TaskAt(t) /\ Queue[p] = pending[s] /\ Queue'[p] = <<>>
      BY <2>1, <2>4, PlaceKinds, PlacesDiffer, QueueAt, QueueNextAt
    <2>6. \A u \in States : pending'[u] = pending[u] \/ pending'[u] = <<>>
      BY <2>1, <2>4
    <2> HIDE DEF p
    <2>7. KeptOutside({p, TaskAt(t)})
      BY <2>2, <2>4, <2>6, TakesOutside
    <2> QED
      BY <2>2, <2>3, <2>4, <2>5, <2>7, TaskTakes
  <1> QED
    BY <1>1, <1>2, <1>3, <1>4

\* The steps of a task.
LEMMA TaskPlaced ==
    ASSUME SessionInv, SessionInv', Placed, NEW t \in Turns, TaskStep(t) PROVE Placed'
  <1>0. task[t] \in TaskTypes /\ task \in [Turns -> TaskTypes] /\ TypeOK /\ TypeOK'
    BY Typed DEF SessionInv
  <1>1. CASE TaskStart(t)
    BY <1>1, BecomePlaced DEF TaskStart
  <1>2. CASE TaskStartFails(t)
    <2>1. PICK next : task' = [task EXCEPT ![t] = [task[t] EXCEPT !.pc = next, !.buf = <<>>, !.used = task[t].used + 1]]
      BY <1>0, <1>2 DEF TaskStartFails
    <2> DEFINE r == [task[t] EXCEPT !.pc = next, !.buf = <<>>, !.used = task[t].used + 1]
    <2>2. r.buf = <<>>
      BY <1>0 DEF TaskTypes
    <2>3. NoneBack
      BY <1>0, <1>2, AbandonNoneBack DEF TaskStartFails
    <2> HIDE DEF r
    <2> QED
      BY <1>2, <2>1, <2>2, <2>3, TaskKeeps DEF TaskStartFails, r
  <1>3. CASE TaskRecord(t)
    <2>1. CASE RecordHead(t)
      BY <1>0, <1>3, <2>1, RecordPlaced DEF TaskRecord
    <2>2. CASE ~RecordHead(t)
      <3>1. PICK pc : task' = [task EXCEPT ![t] = [task[t] EXCEPT !.verdict = "none", !.pc = pc]]
        BY <1>0, <1>3, <2>2 DEF TaskRecord
      <3> DEFINE r == [task[t] EXCEPT !.verdict = "none", !.pc = pc]
      <3>2. r.buf = task[t].buf
        BY <1>0 DEF TaskTypes
      <3>3. UNCHANGED <<pending, mailbox, history, actor, fate>>
        BY <1>3, <2>2 DEF TaskRecord
      <3> HIDE DEF r
      <3> QED
        BY <3>1, <3>2, <3>3, FateNoneBack, TaskKeeps DEF r
    <2> QED
      BY <2>1, <2>2
  <1>4. CASE SampleTool(t) \/ SampleFinal(t) \/ SampleOther(t)
    <2>1. PICK r : task' = [task EXCEPT ![t] = r] /\ r.buf = task[t].buf
      <3>1. CASE SampleTool(t)
        <4> DEFINE r == [task[t] EXCEPT !.pc = "post", !.follow = TRUE, !.used = task[t].used + 1]
        <4>1. r.buf = task[t].buf
          BY <1>0 DEF TaskTypes
        <4>2. task' = [task EXCEPT ![t] = r]
          BY <1>0, <3>1 DEF SampleTool
        <4> HIDE DEF r
        <4> QED
          BY <4>1, <4>2
      <3>2. CASE SampleFinal(t) \/ SampleOther(t)
        <4>1. PICK pc : task' = [task EXCEPT ![t] = [task[t] EXCEPT !.pc = pc, !.follow = FALSE]]
          BY <1>0, <3>2 DEF SampleFinal, SampleOther
        <4> DEFINE r == [task[t] EXCEPT !.pc = pc, !.follow = FALSE]
        <4>2. r.buf = task[t].buf
          BY <1>0 DEF TaskTypes
        <4> HIDE DEF r
        <4> QED
          BY <4>1, <4>2 DEF r
      <3> QED
        BY <1>4, <3>1, <3>2
    <2>2. UNCHANGED <<pending, mailbox, history, actor, fate>>
      BY <1>4 DEF SampleTool, SampleFinal, SampleOther
    <2> QED
      BY <2>1, <2>2, FateNoneBack, TaskKeeps
  <1>5. CASE TaskPost(t)
    <2>1. UNCHANGED <<pending, mailbox, history, actor, fate>>
      BY <1>5 DEF TaskPost
    <2>2. CASE \E pc : Become(t, pc)
      BY <2>1, <2>2, BecomePlaced
    <2>3. CASE task' = [task EXCEPT ![t] = [@ EXCEPT !.pc = "drain", !.used = task[t].used + 1]]
      <3> DEFINE r == [task[t] EXCEPT !.pc = "drain", !.used = task[t].used + 1]
      <3>1. r.buf = task[t].buf
        BY <1>0 DEF TaskTypes
      <3>2. task' = [task EXCEPT ![t] = r]
        BY <1>0, <2>3
      <3> HIDE DEF r
      <3> QED
        BY <2>1, <3>1, <3>2, FateNoneBack, TaskKeeps
    <2> QED
      BY <1>5, <2>2, <2>3 DEF TaskPost
  <1>6. CASE TaskExit(t)
    BY <1>6, BecomePlaced DEF TaskExit
  <1>7. CASE TaskFinish(t)
    BY <1>7, BecomePlaced DEF TaskFinish
  <1>8. CASE FinishTake(t)
    <2>1. UNCHANGED <<pending, mailbox, history, actor, fate>>
      BY <1>8 DEF FinishTake
    <2>2. CASE Become(t, "done")
      BY <2>1, <2>2, BecomePlaced
    <2>3. CASE task' = [task EXCEPT ![t] = [@ EXCEPT !.pc = "flush", !.state = active.state]]
      <3> DEFINE r == [task[t] EXCEPT !.pc = "flush", !.state = active.state]
      <3>1. r.buf = task[t].buf
        BY <1>0 DEF TaskTypes
      <3>2. task' = [task EXCEPT ![t] = r]
        BY <1>0, <2>3
      <3> HIDE DEF r
      <3> QED
        BY <2>1, <3>1, <3>2, FateNoneBack, TaskKeeps
    <2> QED
      BY <1>8, <2>2, <2>3 DEF FinishTake
  <1>9. CASE FinishRecord(t)
    <2>1. CASE RecordHead(t)
      BY <1>0, <1>9, <2>1, RecordPlaced DEF FinishRecord
    <2>2. CASE ~RecordHead(t)
      BY <1>9, <2>2, BecomePlaced DEF FinishRecord
    <2> QED
      BY <2>1, <2>2
  <1>10. CASE FinishEvent(t)
    BY <1>10, BecomePlaced DEF FinishEvent
  <1>11. CASE FinishRelease(t)
    BY <1>11, BecomePlaced DEF FinishRelease
  <1> QED
    BY <1>1, <1>2, <1>3, <1>4, <1>5, <1>6, <1>7, <1>8, <1>9, <1>10, <1>11, DrainPlaced DEF TaskStep

-----------------------------------------------------------------------------
(* Items on their way: clients, and the theorem *)

\* A new operation has what it was given in its hands, and nothing else.
LEMMA BeginHands ==
    ASSUME SessionInv, NEW a \in Starters, NEW r, Begin(a, r), r.buf = <<>>
    PROVE  /\ actor'[a].buf = <<>> /\ actor'[a].input = r.input
           /\ \A b \in Starters \ {a} : actor'[b] = actor[b]
  BY Typed DEF Begin

\* An operation begins with nothing in its hands.
LEMMA BeginPlaced ==
    ASSUME SessionInv, SessionInv', Placed, NEW a \in Starters, NEW r, Begin(a, r),
           r.buf = <<>>, r.input = <<>>,
           \A t \in Turns : task'[t].buf = task[t].buf, UNCHANGED <<history, mailbox, pending, fate>>
    PROVE  Placed'
  <1>1. TypeOK /\ TypeOK'
    BY DEF SessionInv
  <1>2. HandsKept
    BY BeginHands DEF HandsKept
  <1> QED
    BY <1>1, <1>2, FateNoneBack, StillPlaced

\* An item enters the session with an operation.
LEMMA BeginWithPlaced ==
    ASSUME SessionInv, SessionInv', Placed, NEW a \in Starters, NEW r, Begin(a, r),
           NEW i \in Items, r.buf = <<>>, r.input = <<i>>,
           fate[i] = "unsent",
           fate' = [fate EXCEPT ![i] = "accepted"] \/ fate' = [fate EXCEPT ![i] = "offered"],
           UNCHANGED <<history, mailbox, pending, task>>
    PROVE  Placed'
  <1> DEFINE q == InputAt(a)
  <1>1. TypeOK /\ TypeOK'
    BY DEF SessionInv
  <1>2. /\ actor'[a].buf = <<>> /\ actor'[a].input = <<i>>
        /\ \A b \in Starters \ {a} : actor'[b] = actor[b]
    BY BeginHands
  <1>3. q \in Places /\ Queue'[q] = <<i>>
    BY <1>2, PlaceKinds, QueueNextAt
  <1>4. NoneBack /\ fate'[i] \notin {"unsent", "refused"}
    BY <1>1, SMTT(30) DEF NoneBack, TypeOK
  <1>5. KeptOutside({q})
    <2>1. \A b \in Starters : /\ actor'[b].buf = actor[b].buf \/ actor'[b].buf = <<>>
                              /\ InputAt(b) \in {q} \/ actor'[b].input = actor[b].input
      BY <1>2
    <2> QED
      BY <2>1, KeptBy
  <1> HIDE DEF q
  <1> QED
    BY <1>1, <1>3, <1>4, <1>5, NewPlaced

\* An item enters the pending input of the active turn.
LEMMA QueuedPlaced ==
    ASSUME SessionInv, SessionInv', Placed, NEW i \in Items, active.state \in States,
           pending' = [pending EXCEPT ![active.state] = Append(@, i)],
           fate[i] = "unsent", fate' = [fate EXCEPT ![i] = "accepted"],
           UNCHANGED <<history, mailbox, task, actor>>
    PROVE  Placed'
  <1> DEFINE q == PendingAt(active.state)
  <1>1. TypeOK /\ TypeOK' /\ pending \in [States -> Seq(Items)]
    BY DEF SessionInv, TypeOK
  <1>2. q \in Places /\ Queue'[q] = Append(Queue[q], i)
    BY <1>1, PlaceKinds, QueueAt, QueueNextAt, ZenonT(60)
  <1>3. NoneBack /\ fate'[i] \notin {"unsent", "refused"}
    BY <1>1 DEF NoneBack, TypeOK
  <1>4. KeptOutside({q})
    <2>1. \A s \in States : PendingAt(s) \in {q} \/ pending'[s] = pending[s]
      BY <1>1
    <2> QED
      BY <2>1, KeptBy
  <1> HIDE DEF q
  <1> QED
    BY <1>1, <1>2, <1>3, <1>4, NewPlaced

\* An item that was not taken is still nowhere.
LEMMA TurnedAwayPlaced ==
    ASSUME SessionInv, Placed, NEW i \in Items, fate[i] = "unsent", fate' = [fate EXCEPT ![i] = "refused"],
           UNCHANGED <<history, mailbox, pending, task, actor>>
    PROVE  Placed'
  <1>1. Queue' = Queue
    BY DEF Queue
  <1>2. \A j \in Items : fate'[j] \in {"unsent", "refused"} => fate[j] \in {"unsent", "refused"}
    BY Typed DEF DataOK
  <1>3. \A j : Absent(Queue, j) => Absent(Queue', j)
    BY <1>1
  <1>4. Single(Queue')
    BY <1>1 DEF Placed
  <1> QED
    BY <1>2, <1>3, <1>4 DEF Placed

\* The steps of clients.
LEMMA ClientPlaced ==
    ASSUME SessionInv, SessionInv', Placed, Client PROVE Placed'
  <1>1. Inputs \subseteq Items /\ Mails \subseteq Items /\ Injects \subseteq Items
    BY DEF Items
  <1>2. ASSUME NEW i \in Inputs, fate[i] = "unsent", SteerActive(i) \/ Refuse(i), UNCHANGED <<history, mailbox, task>>
        PROVE  Placed'
    <2>1. Steerable => active.state \in States
      BY Typed DEF Steerable
    <2>2. CASE SteerActive(i)
      BY <1>1, <1>2, <2>1, <2>2, QueuedPlaced DEF SteerActive
    <2>3. CASE Refuse(i)
      BY <1>1, <1>2, <2>3, TurnedAwayPlaced DEF Refuse
    <2> QED
      BY <1>2, <2>2, <2>3
  <1>3. ASSUME NEW i \in Inputs, Steer(i) PROVE Placed'
    BY <1>2, <1>3 DEF Steer
  <1>4. ASSUME NEW i \in Inputs, UserInput(i) PROVE Placed'
    <2>1. CASE SteerActive(i) \/ Refuse(i)
      BY <1>2, <1>4, <2>1 DEF UserInput
    <2>2. CASE ~(SteerActive(i) \/ Refuse(i))
      <3> DEFINE r == [IdleActor EXCEPT !.pc = "abort", !.reason = "Replaced", !.input = <<i>>]
      <3>1. r.buf = <<>> /\ r.input = <<i>>
        BY DEF IdleActor
      <3>2. Begin("loop", r)
        BY <1>4, <2>2 DEF UserInput
      <3>3. /\ "loop" \in Starters /\ fate[i] = "unsent" /\ fate' = [fate EXCEPT ![i] = "accepted"]
            /\ UNCHANGED <<history, mailbox, pending, task>>
        BY <1>4, <2>2 DEF UserInput, LoopIdle
      <3> HIDE DEF r
      <3> QED
        BY <1>1, <3>1, <3>2, <3>3, BeginWithPlaced
    <2> QED
      BY <2>1, <2>2
  <1>5. ASSUME NEW i \in Injects, Inject(i) PROVE Placed'
    <2>1. CASE active # NoTurn
      BY <1>1, <1>5, <2>1, Typed, QueuedPlaced DEF Inject
    <2>2. CASE active = NoTurn
      <3>1. TypeOK /\ TypeOK' /\ i \in Items
        BY <1>1 DEF SessionInv
      <3>2. HistoryAt \in Places /\ Queue'[HistoryAt] = Append(Queue[HistoryAt], i)
        BY <1>5, <2>2, PlaceKinds, QueueAt, QueueNextAt DEF Inject
      <3>3. NoneBack /\ fate'[i] \notin {"unsent", "refused"} /\ fate[i] = "unsent"
        BY <1>5, <3>1 DEF Inject, NoneBack, TypeOK
      <3>4. KeptOutside({HistoryAt})
        BY <1>5, <2>2, KeptBy DEF Inject
      <3> QED
        BY <3>1, <3>2, <3>3, <3>4, NewPlaced
    <2> QED
      BY <2>1, <2>2
  <1>6. ASSUME NEW i \in Injects, ExtCall(i) PROVE Placed'
    <2>1. CASE UNCHANGED actor /\ fate' = [fate EXCEPT ![i] = "refused"]
      BY <1>1, <1>6, <2>1, TurnedAwayPlaced DEF ExtCall
    <2>2. CASE ~(UNCHANGED actor /\ fate' = [fate EXCEPT ![i] = "refused"])
      <3> DEFINE r == [IdleActor EXCEPT !.pc = "ext_reserve", !.input = <<i>>]
      <3>1. r.buf = <<>> /\ r.input = <<i>>
        BY DEF IdleActor
      <3>2. Begin("ext", r)
        BY <1>6, <2>2 DEF ExtCall
      <3>3. /\ "ext" \in Starters /\ fate[i] = "unsent" /\ fate' = [fate EXCEPT ![i] = "offered"]
            /\ UNCHANGED <<history, mailbox, pending, task>>
        BY <1>6, <2>2 DEF ExtCall
      <3> HIDE DEF r
      <3> QED
        BY <1>1, <3>1, <3>2, <3>3, BeginWithPlaced
    <2> QED
      BY <2>1, <2>2
  <1>7. ASSUME NEW m \in Mails, Mail(m) PROVE Placed'
    <2>1. TypeOK /\ TypeOK' /\ m \in Items
      BY <1>1 DEF SessionInv
    <2>2. HandsKept
      <3>1. CASE m \in Triggers
        <4> DEFINE r == [IdleActor EXCEPT !.pc = "maybe"]
        <4>1. r.buf = <<>> /\ r.input = <<>>
          BY DEF IdleActor
        <4>2. "loop" \in Starters /\ Begin("loop", r)
          BY <1>7, <3>1 DEF Mail, LoopIdle
        <4> HIDE DEF r
        <4> QED
          BY <4>1, <4>2, BeginHands DEF HandsKept
      <3>2. CASE m \notin Triggers
        BY <1>7, <3>2 DEF Mail, HandsKept
      <3> QED
        BY <3>1, <3>2
    <2>3. MailboxAt \in Places /\ Queue'[MailboxAt] = Append(Queue[MailboxAt], m)
      BY <1>7, PlaceKinds, QueueAt, QueueNextAt DEF Mail
    <2>4. NoneBack /\ fate'[m] \notin {"unsent", "refused"} /\ fate[m] = "unsent"
      BY <1>7, <2>1 DEF Mail, NoneBack, TypeOK
    <2>5. UNCHANGED <<pending, task, history>>
      BY <1>7 DEF Mail
    <2>6. KeptOutside({MailboxAt})
      BY <2>2, <2>5, KeptBy DEF HandsKept
    <2> QED
      BY <2>1, <2>3, <2>4, <2>6, NewPlaced
  <1>8. ASSUME StartOther PROVE Placed'
    <2> DEFINE r == [IdleActor EXCEPT !.pc = "abort", !.reason = "Replaced", !.kind = "other"]
    <2>1. r.buf = <<>> /\ r.input = <<>>
      BY DEF IdleActor
    <2>2. Begin("loop", r) /\ "loop" \in Starters
      BY <1>8 DEF StartOther, LoopIdle
    <2>3. UNCHANGED <<history, mailbox, pending, fate, task>>
      BY <1>8 DEF StartOther
    <2> HIDE DEF r
    <2> QED
      BY <2>1, <2>2, <2>3, BeginPlaced
  <1>9. ASSUME NEW exiting, AbortAll(exiting) PROVE Placed'
    <2> DEFINE r == [IdleActor EXCEPT !.pc = "abort", !.reason = "Interrupted", !.exiting = exiting]
    <2>1. r.buf = <<>> /\ r.input = <<>>
      BY DEF IdleActor
    <2>2. Begin("loop", r) /\ "loop" \in Starters
      BY <1>9 DEF AbortAll, LoopIdle
    <2>3. UNCHANGED <<history, mailbox, pending, fate, task>>
      BY <1>9 DEF AbortAll
    <2> HIDE DEF r
    <2> QED
      BY <2>1, <2>2, <2>3, BeginPlaced
  <1>10. ASSUME NEW t \in Turns, GuardianAbort(t) PROVE Placed'
    <2> DEFINE r == [IdleActor EXCEPT !.pc = "kill", !.reason = "Interrupted",
                                      !.victim = t, !.vstate = active.state]
    <2>1. r.buf = <<>> /\ r.input = <<>>
      BY DEF IdleActor
    <2>2. Begin("guardian", r) /\ "guardian" \in Starters
      BY <1>10 DEF GuardianAbort
    <2>3. UNCHANGED <<history, mailbox, pending, fate>> /\ task' = [task EXCEPT ![t].cancelled = TRUE]
      BY <1>10 DEF GuardianAbort
    <2>4. \A u \in Turns : task'[u].buf = task[u].buf
      BY <2>3, Typed, CancelTyped
    <2> HIDE DEF r
    <2> QED
      BY <2>1, <2>2, <2>3, <2>4, BeginPlaced
  <1> QED
    BY <1>3, <1>4, <1>5, <1>6, <1>7, <1>8, <1>9, <1>10 DEF Client, Interrupt, Shutdown

\* A new session holds no item.
LEMMA InitPlaced == Init => Placed
  <1> SUFFICES ASSUME Init PROVE Placed
    OBVIOUS
  <1>1. /\ history = <<>> /\ mailbox = <<>> /\ \A s \in States : pending[s] = <<>>
        /\ \A t \in Turns : task[t].buf = <<>>
        /\ \A a \in Starters : actor[a].buf = <<>> /\ actor[a].input = <<>>
    BY DEF Init, NoTask, IdleActor
  <1>2. \A p \in Places : Queue[p] = <<>>
    BY <1>1, PlaceKinds, QueueAt
  <1>3. DOMAIN Queue = Places
    BY DEF Queue
  <1> QED
    BY <1>2, <1>3 DEF Placed, Single, Absent

\* Every step keeps each item at one place at most.
LEMMA NextPlaced == SessionInv /\ SessionInv' /\ Placed /\ [Next]_vars => Placed'
  <1> SUFFICES ASSUME SessionInv, SessionInv', Placed, [Next]_vars PROVE Placed'
    OBVIOUS
  <1>1. CASE UNCHANGED vars
    <2>1. TypeOK /\ TypeOK' /\ NoneBack /\ HandsKept
      BY <1>1, FateNoneBack DEF SessionInv, vars, HandsKept
    <2> QED
      BY <1>1, <2>1, StillPlaced DEF vars
  <1> QED
    BY <1>1, ClientPlaced, ActorPlaced, TaskPlaced DEF Next

\* The items of a sequence are what it shows at its places.
LEMMA QueuedItems ==
    ASSUME NEW s \in Seq(Items), NEW i, i \in ToSet(s) PROVE \E k \in 1 .. Len(s) : s[k] = i
  BY DEF ToSet

\* An item that is at one place is recorded once, and one at no place is not queued.
LEMMA PlacedOneFate == SessionInv /\ Placed => OneFate
  <1> SUFFICES ASSUME SessionInv, Placed PROVE OneFate
    OBVIOUS
  <1>1. /\ Queue \in [Places -> Seq(Items)] /\ TypeOK
        /\ history \in Seq(Items)
    BY QueueTyped DEF SessionInv, TypeOK
  <1>2. HistoryAt \in Places /\ Queue[HistoryAt] = history
    BY PlaceKinds, QueueAt
  <1>3. ASSUME NEW k \in 1 .. Len(history), NEW l \in 1 .. Len(history), history[k] = history[l] PROVE k = l
    BY <1>1, <1>2, <1>3 DEF Placed, Single
  <1>4. ASSUME NEW i \in Items, fate[i] = "refused",
               i \in Held \cup (UNION {ToSet(pending[s]) : s \in States})
        PROVE  FALSE
    <2>1. ASSUME NEW p \in Places, i \in ToSet(Queue[p]) PROVE FALSE
      <3>1. PICK k \in 1 .. Len(Queue[p]) : Queue[p][k] = i
        BY <1>1, <2>1, QueuedItems
      <3>2. Absent(Queue, i)
        BY <1>4 DEF Placed
      <3> QED
        BY <1>1, <3>1, <3>2 DEF Absent
    <2>2. \A s \in States : i \notin ToSet(pending[s])
      BY <2>1, PlaceKinds, QueueAt
    <2>3. \A t \in Turns : i \notin ToSet(task[t].buf)
      BY <2>1, PlaceKinds, QueueAt
    <2>4. \A a \in Starters : i \notin ToSet(actor[a].buf) \cup ToSet(actor[a].input)
      BY <2>1, PlaceKinds, QueueAt
    <2>5. i \notin ToSet(history) /\ i \notin ToSet(mailbox)
      BY <2>1, PlaceKinds, QueueAt
    <2>6. Reachable \ {None} \subseteq States
      <3>1. active.state \in States \cup {None}
        BY <1>1 DEF TypeOK
      <3>2. \A a \in Starters : actor[a].vstate \in States \cup {None}
        BY Typed DEF ActorTypes
      <3>3. \A t \in Turns : task[t].state \in States \cup {None}
        BY Typed DEF TaskTypes
      <3> QED
        BY <3>1, <3>2, <3>3 DEF Reachable
    <2>7. i \notin UNION {ToSet(pending[s]) : s \in States}
      BY <2>2
    <2>8. i \notin UNION {ToSet(pending[s]) : s \in Reachable \ {None}}
      BY <2>2, <2>6
    <2>9. i \notin UNION {ToSet(task[t].buf) : t \in Turns}
      BY <2>3
    <2>10. i \notin UNION {ToSet(actor[a].buf) \cup ToSet(actor[a].input) : a \in Starters}
      BY <2>4
    <2>11. i \notin Held
      BY <2>5, <2>8, <2>9, <2>10 DEF Held
    <2> QED
      BY <1>4, <2>7, <2>11
  <1> QED
    BY <1>3, <1>4 DEF OneFate

\* Whoever starts and aborts turns, and however the items travel: no item is
\* recorded twice, and one that its caller got back is queued nowhere.
THEOREM ItemsGoOneWay == Spec => []OneFate
  <1>1. Init => SessionInv /\ Placed
    BY NothingAllocated, InitPlaced
  <1>2. (SessionInv /\ Placed) /\ [Next]_vars => (SessionInv /\ Placed)'
    BY NextTyped, NextPlaced
  <1> QED
    BY <1>1, <1>2, PlacedOneFate, PTL DEF Spec

-----------------------------------------------------------------------------
(* Nothing is lost: the invariant *)

\* The steps of on_task_finished, and the tasks that take them.
Ending == {"flush", "flush_record", "terminal", "release"}
Ends(t) == task[t].pc \in Ending

\* What the loop has in its hands: pending input only while it starts a task, and
\* an input only for the regular task that replaces the active one.
HandsInv ==
    /\ L.pc \notin {"get_mail", "insert", "extend"} => L.buf = <<>>
    /\ L.input # <<>> => L.reason = "Replaced" /\ L.kind = "regular"
    /\ L.pc \in {"idle", "stopped", "maybe", "reserve"} => L.reason # "Replaced"

\* A task has items in its hands only between taking and recording them.
BufInv ==
    \A t \in Turns :
        /\ task[t].pc \notin {"start", "drain_mail", "record", "flush_record"} => task[t].buf = <<>>
        /\ task[t].pc = "start" /\ task[t].kind = "other" => task[t].buf = <<>>

\* Whose turn state the active turn has: not that of an ending task once another
\* task runs or is being started in it, and that of an ending task otherwise.
StateInv ==
    /\ active.state <= allocated
    /\ L.pc = "extend" => L.state = active.state
    /\ \A t \in Turns : Ends(t) => task[t].state \in 1 .. allocated
    /\ active.task # None \/ L.pc \in Starting =>
          \A t \in Turns : Ends(t) => task[t].state # active.state
    /\ active.state # None /\ active.task = None /\ L.pc \notin Starting =>
          \E t \in Turns : Ends(t) /\ task[t].state = active.state

\* Nothing but injected items is queued for a task that has flushed its turn.
LateInv ==
    \A t \in Turns : task[t].pc \in Ending \ {"flush"} => ToSet(pending[task[t].state]) \subseteq Injects

\* The invariant a session needs to lose nothing.
KeepInv == HandsInv /\ BufInv /\ StateInv /\ LateInv

\* A user input or a mail the session accepted is recorded or still held.
Kept == \A i \in Inputs \cup Mails : fate[i] = "accepted" => i \in Held

-----------------------------------------------------------------------------
(* The items of a queue *)

\* An empty queue.
LEMMA NoItems == ToSet(<<>>) = {}
  BY DEF ToSet

\* Two queues in one.
LEMMA ConcatItems ==
    ASSUME NEW s \in Seq(Items), NEW t \in Seq(Items) PROVE ToSet(s \o t) = ToSet(s) \cup ToSet(t)
  <1>1. Len(s) \in Nat /\ Len(t) \in Nat /\ Len(s \o t) = Len(s) + Len(t)
    OBVIOUS
  <1>2. DOMAIN s = 1 .. Len(s) /\ DOMAIN t = 1 .. Len(t) /\ DOMAIN (s \o t) = 1 .. Len(s \o t)
    OBVIOUS
  <1>3. ASSUME NEW x \in ToSet(s \o t) PROVE x \in ToSet(s) \cup ToSet(t)
    <2>1. PICK k \in 1 .. Len(s \o t) : x = (s \o t)[k]
      BY <1>2, <1>3 DEF ToSet
    <2> QED
      BY <1>2, <2>1, ConcatAt DEF ToSet
  <1>4. ASSUME NEW x \in ToSet(s) PROVE x \in ToSet(s \o t)
    <2>1. PICK k \in 1 .. Len(s) : x = s[k]
      BY <1>2, <1>4 DEF ToSet
    <2>2. k \in 1 .. Len(s \o t) /\ (s \o t)[k] = s[k]
      BY <1>1
    <2> QED
      BY <1>2, <2>1, <2>2 DEF ToSet
  <1>5. ASSUME NEW x \in ToSet(t) PROVE x \in ToSet(s \o t)
    <2>1. PICK k \in 1 .. Len(t) : x = t[k]
      BY <1>2, <1>5 DEF ToSet
    <2>2. Len(s) + k \in 1 .. Len(s \o t) /\ (s \o t)[Len(s) + k] = t[k]
      BY <1>1
    <2> QED
      BY <1>2, <2>1, <2>2 DEF ToSet
  <1> QED
    BY <1>3, <1>4, <1>5

\* A queue of one.
LEMMA OneItem ==
    ASSUME NEW x \in Items PROVE ToSet(<<x>>) = {x} /\ <<x>> \in Seq(Items)
  BY DEF ToSet

\* One item more.
LEMMA AppendItems ==
    ASSUME NEW s \in Seq(Items), NEW x \in Items PROVE ToSet(Append(s, x)) = ToSet(s) \cup {x}
  <1>1. Append(s, x) = s \o <<x>>
    OBVIOUS
  <1> QED
    BY <1>1, ConcatItems, OneItem

\* The first item and the others.
LEMMA HeadItems ==
    ASSUME NEW s \in Seq(Items), s # <<>>
    PROVE  ToSet(s) = {Head(s)} \cup ToSet(Tail(s)) /\ Head(s) \in Items /\ Tail(s) \in Seq(Items)
  <1>1. Head(s) \in Items /\ Tail(s) \in Seq(Items) /\ s = <<Head(s)>> \o Tail(s)
    OBVIOUS
  <1>2. ToSet(<<Head(s)>>) = {Head(s)} /\ <<Head(s)>> \in Seq(Items)
    BY <1>1, OneItem
  <1>3. ToSet(<<Head(s)>> \o Tail(s)) = ToSet(<<Head(s)>>) \cup ToSet(Tail(s))
    BY <1>1, <1>2, ConcatItems
  <1> QED
    BY <1>1, <1>2, <1>3

-----------------------------------------------------------------------------
(* What a step carries along *)

\* The turn states that are read again, of a session driven by the loop.
Reach(s) == \/ s = active.state
            \/ L.pc \in Aborting /\ s = L.vstate
            \/ \E t \in Turns : task[t].pc = "flush" /\ s = task[t].state

\* Where an item is held.
HeldAt(i) ==
    \/ i \in ToSet(history) \/ i \in ToSet(mailbox)
    \/ \E s : s # None /\ Reach(s) /\ i \in ToSet(pending[s])
    \/ \E t \in Turns : i \in ToSet(task[t].buf)
    \/ i \in ToSet(L.buf) \/ i \in ToSet(L.input)

\* The items held are the ones some place holds.
LEMMA HeldBy ==
    ASSUME LoopOnly, NEW i PROVE (i \in Held <=> HeldAt(i)) /\ (i \in Held' <=> HeldAt(i)')
  <1>1. \A s : s \in Reachable <=> Reach(s)
    BY DEF LoopOnly, Reachable, Reach, L, Aborting
  <1>2. \A s : s \in Reachable' <=> Reach(s)'
    BY DEF LoopOnly, Reachable, Reach, L, Aborting
  <1>3. i \in UNION {ToSet(pending[s]) : s \in Reachable \ {None}} <=>
            \E s : s # None /\ Reach(s) /\ i \in ToSet(pending[s])
    BY <1>1
  <1>4. i \in UNION {ToSet(pending'[s]) : s \in Reachable' \ {None}} <=>
            \E s : s # None /\ Reach(s)' /\ i \in ToSet(pending'[s])
    BY <1>2
  <1>5. i \in UNION {ToSet(task[t].buf) : t \in Turns} <=> \E t \in Turns : i \in ToSet(task[t].buf)
    OBVIOUS
  <1>6. i \in UNION {ToSet(task'[t].buf) : t \in Turns} <=> \E t \in Turns : i \in ToSet(task'[t].buf)
    OBVIOUS
  <1>7. UNION {ToSet(actor[a].buf) \cup ToSet(actor[a].input) : a \in Starters} = ToSet(L.buf) \cup ToSet(L.input)
    BY DEF LoopOnly, L
  <1>8. UNION {ToSet(actor'[a].buf) \cup ToSet(actor'[a].input) : a \in Starters} = ToSet(L'.buf) \cup ToSet(L'.input)
    BY DEF LoopOnly, L
  <1>9. i \in Held <=> HeldAt(i)
    BY <1>3, <1>5, <1>7 DEF Held, HeldAt
  <1>10. i \in Held' <=> HeldAt(i)'
    BY <1>4, <1>6, <1>8 DEF Held, HeldAt
  <1> QED
    BY <1>9, <1>10

\* But for the items of X, what was held is held at the same place, ...
Carried(X) ==
    /\ ToSet(history) \subseteq ToSet(history') \cup X
    /\ ToSet(mailbox) \subseteq ToSet(mailbox') \cup X
    /\ \A s \in States : Reach(s) => \/ Reach(s)' /\ ToSet(pending[s]) \subseteq ToSet(pending'[s]) \cup X
                                     \/ ToSet(pending[s]) \subseteq X
    /\ \A t \in Turns : ToSet(task[t].buf) \subseteq ToSet(task'[t].buf) \cup X
    /\ ToSet(L.buf) \subseteq ToSet(L'.buf) \cup X
    /\ ToSet(L.input) \subseteq ToSet(L'.input) \cup X
    /\ \A i \in Inputs \cup Mails : fate'[i] = "accepted" => fate[i] = "accepted" \/ i \in X
\* ... and those are held elsewhere, or need not be.
Settled(X) == \A i \in X : i \in Injects \/ fate'[i] # "accepted" \/ HeldAt(i)'

\* A step that carries the items along keeps what it accepted.
LEMMA CarriedKept ==
    ASSUME LoopOnly, SessionInv, Kept, NEW X, Carried(X), Settled(X) PROVE Kept'
  <1> SUFFICES ASSUME NEW i \in Inputs \cup Mails, fate'[i] = "accepted" PROVE HeldAt(i)'
    BY HeldBy DEF Kept
  <1>1. i \notin Injects
    BY SetsAssumption
  <1>2. CASE i \in X
    BY <1>1, <1>2 DEF Settled
  <1>3. CASE i \notin X
    <2>1. HeldAt(i)
      BY <1>3, HeldBy DEF Carried, Kept
    <2>2. CASE \E s : s # None /\ Reach(s) /\ i \in ToSet(pending[s])
      <3>1. PICK s : s # None /\ Reach(s) /\ i \in ToSet(pending[s])
        BY <2>2
      <3>2. s \in States
        <4>1. active.state \in States \cup {None}
          BY Typed DEF ActiveOK
        <4>2. L \in ActorTypes
          BY Typed DEF LoopOnly, L
        <4>3. L.vstate \in States \cup {None}
          BY <4>2 DEF ActorTypes
        <4>4. \A t \in Turns : task[t].state \in States \cup {None}
          BY Typed DEF TaskTypes
        <4> QED
          BY <3>1, <4>1, <4>3, <4>4 DEF Reach
      <3>3. Reach(s)' /\ i \in ToSet(pending'[s])
        BY <1>3, <3>1, <3>2 DEF Carried
      <3> QED
        BY <3>1, <3>3 DEF HeldAt
    <2>3. CASE \E t \in Turns : i \in ToSet(task[t].buf)
      BY <1>3, <2>3 DEF Carried, HeldAt
    <2>4. CASE i \in ToSet(history) \/ i \in ToSet(mailbox) \/ i \in ToSet(L.buf) \/ i \in ToSet(L.input)
      BY <1>3, <2>4 DEF Carried, HeldAt
    <2> QED
      BY <2>1, <2>2, <2>3, <2>4 DEF HeldAt
  <1> QED
    BY <1>2, <1>3

\* What is needed of a state, and of the one after it.
LoopInvs == LoopOnly /\ SessionInv /\ Inv /\ KeepInv /\ Kept

\* What every step of a loop-driven session starts from.
LEMMA LoopTyped ==
    ASSUME LoopInvs
    PROVE  /\ LoopOnly /\ SessionInv /\ Inv /\ KeepInv /\ Kept /\ TypeOK
           /\ "loop" \in Starters /\ L \in ActorTypes /\ L.state \in States \cup {None}
           /\ L.buf \in Seq(Items) /\ L.input \in Seq(Items)
           /\ mailbox \in Seq(Items) /\ history \in Seq(Items) /\ pending \in [States -> Seq(Items)]
           /\ fate \in [Items -> Fates]
           /\ \A t \in Turns : task[t] \in TaskTypes /\ task[t].buf \in Seq(Items)
           /\ active.state \in States \cup {None} /\ allocated \in Nat
  <1>1. LoopOnly /\ SessionInv /\ Inv /\ KeepInv /\ Kept /\ TypeOK
    BY DEF LoopInvs, SessionInv
  <1>2. "loop" \in Starters /\ L \in ActorTypes
    BY <1>1, Typed DEF LoopOnly, L
  <1>3. L.state \in States \cup {None} /\ L.buf \in Seq(Items) /\ L.input \in Seq(Items)
    BY <1>2 DEF ActorTypes
  <1>4. mailbox \in Seq(Mails) /\ history \in Seq(Items) /\ pending \in [States -> Seq(Items)] /\ fate \in [Items -> Fates]
    BY <1>1, Typed DEF DataOK
  <1>5. mailbox \in Seq(Items)
    BY <1>4 DEF Items
  <1>6. \A t \in Turns : task[t] \in TaskTypes
    BY <1>1, Typed
  <1>7. \A t \in Turns : task[t].buf \in Seq(Items)
    BY <1>6 DEF TaskTypes
  <1>8. active.state \in States \cup {None} /\ allocated \in Nat
    BY <1>1, Typed DEF ActiveOK
  <1> QED
    BY <1>1, <1>2, <1>3, <1>4, <1>5, <1>6, <1>7, <1>8

\* An ending task remembers a turn state that was allocated.
LEMMA EndsTyped ==
    ASSUME LoopInvs PROVE \A t \in Turns : Ends(t) => task[t].state \in States /\ task[t].state <= allocated
  <1>1. StateInv /\ allocated \in 0 .. MaxStates
    BY LoopTyped, Typed DEF KeepInv
  <1>2. \A t \in Turns : Ends(t) => task[t].state \in 1 .. allocated
    BY <1>1 DEF StateInv
  <1> QED
    BY <1>1, <1>2, BoundsAssumption DEF States

\* Steps that change no turn state and end no task.
LEMMA StateSame ==
    ASSUME StateInv, UNCHANGED <<active, allocated>>,
           \A t \in Turns : /\ Ends(t)' <=> Ends(t)
                            /\ Ends(t) => task'[t].state = task[t].state,
           L'.pc \in Starting <=> L.pc \in Starting,
           L'.pc = "extend" => L.pc = "extend" /\ L'.state = L.state
    PROVE  StateInv'
  BY DEF StateInv

\* Steps with which no task becomes late, and nothing is queued for one that is.
LEMMA LateSame ==
    ASSUME LateInv,
           \A t \in Turns : task'[t].pc \in Ending \ {"flush"} =>
                task[t].pc \in Ending \ {"flush"} /\ task'[t].state = task[t].state,
           \A t \in Turns : task[t].pc \in Ending \ {"flush"} =>
                LET s == task[t].state IN pending'[s] = pending[s] \/ pending'[s] = <<>>
    PROVE  LateInv'
  <1> SUFFICES ASSUME NEW t \in Turns, task'[t].pc \in Ending \ {"flush"}
               PROVE  ToSet(pending'[task'[t].state]) \subseteq Injects
    BY DEF LateInv
  <1> DEFINE s == task[t].state
  <1>1. task'[t].state = s /\ task[t].pc \in Ending \ {"flush"} /\ ToSet(pending[s]) \subseteq Injects
    BY DEF LateInv
  <1>2. pending'[s] = pending[s] \/ pending'[s] = <<>>
    BY <1>1
  <1> HIDE DEF s
  <1> QED
    BY <1>1, <1>2, NoItems

\* No item is moved, and none is accepted.
LEMMA StillKept ==
    ASSUME LoopInvs, UNCHANGED <<history, mailbox>>,
           \A s \in States : pending'[s] = pending[s],
           \A t \in Turns : task'[t].buf = task[t].buf,
           L'.buf = L.buf, L'.input = L.input,
           \A i \in Inputs \cup Mails : fate'[i] = "accepted" => fate[i] = "accepted",
           \A s \in States : Reach(s) => Reach(s)'
    PROVE  Kept'
  <1>1. Carried({})
    BY DEF Carried
  <1>2. Settled({})
    BY DEF Settled
  <1> QED
    BY <1>1, <1>2, CarriedKept, LoopTyped

-----------------------------------------------------------------------------
(* A task inside its turn *)

\* Other tasks, the loop and the active turn are left alone.
LEMMA InsideKeep ==
    ASSUME LoopInvs, NEW t \in Turns, Inside(t),
           \A s \in States : pending'[s] = pending[s] \/ pending'[s] = <<>>,
           task'[t].pc \notin {"start", "drain_mail", "record"} => task'[t].buf = <<>>,
           task'[t].pc = "start" /\ task'[t].kind = "other" => task'[t].buf = <<>>
    PROVE  KeepInv' /\ L' = L /\ \A s : Reach(s) <=> Reach(s)'
  <1>1. L' = L
    BY DEF Inside, L
  <1>2. \A u \in Turns : /\ Ends(u)' <=> Ends(u)
                         /\ Ends(u) => task'[u] = task[u]
    BY DEF Inside, Ends, RunSteps, Ending
  <1>3. HandsInv'
    BY <1>1, LoopTyped DEF KeepInv, HandsInv
  <1>4. BufInv'
    BY LoopTyped DEF KeepInv, BufInv, Inside
  <1>5. StateInv'
    BY <1>1, <1>2, LoopTyped, StateSame DEF KeepInv, Inside
  <1>6. LateInv'
    <2>1. \A u \in Turns : Ends(u) => task[u].state \in States
      BY EndsTyped
    <2>2. \A u \in Turns : task'[u].pc \in Ending \ {"flush"} =>
                task[u].pc \in Ending \ {"flush"} /\ task'[u].state = task[u].state
      BY <1>2 DEF Ends
    <2>3. \A u \in Turns : task[u].pc \in Ending \ {"flush"} =>
                LET s == task[u].state IN pending'[s] = pending[s] \/ pending'[s] = <<>>
      BY <2>1 DEF Ends
    <2> QED
      BY <2>2, <2>3, LoopTyped, LateSame DEF KeepInv
  <1>7. \A s : Reach(s) <=> Reach(s)'
    <2>1. \A u \in Turns : task'[u].pc = "flush" <=> task[u].pc = "flush"
      BY DEF Inside, RunSteps
    <2>2. \A u \in Turns : task[u].pc = "flush" => task'[u] = task[u]
      BY <1>2 DEF Ends, Ending
    <2> QED
      BY <1>1, <2>1, <2>2 DEF Reach, Inside
  <1> QED
    BY <1>1, <1>3, <1>4, <1>5, <1>6, <1>7 DEF KeepInv

\* A step of run_turn with which the task takes, records and drops nothing.
LEMMA PlainKeep ==
    ASSUME LoopInvs, NEW t \in Turns, Inside(t), UNCHANGED <<pending, history, mailbox, fate>>,
           task'[t].buf = task[t].buf,
           task'[t].pc \notin {"start", "drain_mail", "record"} => task[t].buf = <<>>,
           task'[t].pc = "start" => task[t].buf = <<>>
    PROVE  KeepInv' /\ Kept'
  <1>1. KeepInv' /\ L' = L /\ \A s : Reach(s) <=> Reach(s)'
    BY InsideKeep
  <1>2. \A u \in Turns : task'[u].buf = task[u].buf
    BY DEF Inside
  <1> QED
    BY <1>1, <1>2, StillKept

\* run_turn up to its input.
LEMMA TaskStartKeep ==
    ASSUME LoopInvs, NEW t \in Turns, TaskStart(t) PROVE KeepInv' /\ Kept'
  <1>1. Inside(t) /\ task[t] \in TaskTypes
    BY LoopTyped, RunTurnInside
  <1>2. task'[t].buf = task[t].buf /\ task[t].pc = "start"
    BY <1>1, LoopTyped, Typed DEF TaskStart, Become, TaskTypes
  <1>3. task'[t].pc = IF task[t].kind = "other" THEN "sample" ELSE IF task[t].buf = <<>> THEN "drain" ELSE "record"
    BY <1>1, LoopTyped, Typed DEF TaskStart, Become, TaskTypes
  <1>4. task[t].kind = "other" => task[t].buf = <<>>
    BY <1>2, LoopTyped DEF KeepInv, BufInv
  <1>5. UNCHANGED <<pending, history, mailbox, fate>>
    BY DEF TaskStart
  <1> QED
    BY <1>1, <1>2, <1>3, <1>4, <1>5, PlainKeep

\* Model requests and what follows them.
LEMMA SampleKeep ==
    ASSUME LoopInvs, NEW t \in Turns, SampleTool(t) \/ SampleFinal(t) \/ SampleOther(t) \/ TaskPost(t) \/ TaskExit(t)
    PROVE  KeepInv' /\ Kept'
  <1>1. Inside(t) /\ task[t] \in TaskTypes
    BY LoopTyped, RunTurnInside
  <1>2. task[t].pc \in {"sample", "post", "exit"}
    BY DEF SampleTool, SampleFinal, SampleOther, TaskPost, TaskExit
  <1>3. task[t].buf = <<>>
    BY <1>2, LoopTyped DEF KeepInv, BufInv
  <1>4. task'[t].buf = task[t].buf
    <2>1. task \in [Turns -> TaskTypes]
      BY LoopTyped, Typed
    <2>2. CASE SampleTool(t)
      BY <1>1, <2>1, <2>2 DEF SampleTool, TaskTypes
    <2>3. CASE SampleFinal(t)
      BY <1>1, <2>1, <2>3 DEF SampleFinal, TaskTypes
    <2>4. CASE SampleOther(t)
      <3>1. PICK next : task' = [task EXCEPT ![t] = [task[t] EXCEPT !.pc = next, !.follow = FALSE]]
        BY <2>1, <2>4 DEF SampleOther
      <3> QED
        BY <1>1, <2>1, <3>1 DEF TaskTypes
    <2>5. CASE TaskPost(t)
      BY <1>1, <2>1, <2>5, ZenonT(60) DEF TaskPost, Become, TaskTypes
    <2>6. CASE TaskExit(t)
      BY <1>1, <2>1, <2>6 DEF TaskExit, Become, TaskTypes
    <2> QED
      BY <2>2, <2>3, <2>4, <2>5, <2>6
  <1>5. UNCHANGED <<pending, history, mailbox, fate>>
    BY DEF SampleTool, SampleFinal, SampleOther, TaskPost, TaskExit
  <1> QED
    BY <1>1, <1>3, <1>4, <1>5, PlainKeep

-----------------------------------------------------------------------------
(* Nothing is lost: a task takes and records items *)

\* A task moves the items of X.
LEMMA TaskMoves ==
    ASSUME LoopInvs, NEW t \in Turns, NEW X, Settled(X), L' = L,
           \A s \in States : Reach(s) => Reach(s)' \/ ToSet(pending[s]) \subseteq X,
           \A s \in States : ToSet(pending[s]) \subseteq ToSet(pending'[s]) \cup X,
           \A u \in Turns \ {t} : task'[u] = task[u],
           ToSet(task[t].buf) \subseteq ToSet(task'[t].buf) \cup X,
           ToSet(history) \subseteq ToSet(history'), ToSet(mailbox) \subseteq ToSet(mailbox') \cup X,
           \A i \in Inputs \cup Mails : fate'[i] = "accepted" => fate[i] = "accepted"
    PROVE  Kept'
  <1>1. \A u \in Turns : ToSet(task[u].buf) \subseteq ToSet(task'[u].buf) \cup X
    OBVIOUS
  <1>2. Carried(X)
    BY <1>1 DEF Carried
  <1> QED
    BY <1>2, CarriedKept, LoopTyped

\* The items of a queue are items.
LEMMA ItemsOf == ASSUME NEW s \in Seq(Items) PROVE ToSet(s) \in SUBSET Items
  <1>1. \A k \in DOMAIN s : s[k] \in Items
    OBVIOUS
  <1> QED
    BY <1>1 DEF ToSet

\* Items lost with an aborted turn need not be held.
LEMMA AbandonSettles ==
    ASSUME NEW X \in SUBSET Items, Abandon(X)
    PROVE  Settled(X) /\ \A i \in Inputs \cup Mails : fate'[i] = "accepted" => fate[i] = "accepted"
  <1>1. \A i \in Items : fate'[i] = "accepted" => i \notin X /\ fate[i] = "accepted"
    BY DEF Abandon
  <1> QED
    BY <1>1 DEF Settled, Items

\* What a task holds, is held.
LEMMA HandsSettle ==
    ASSUME NEW t \in Turns, NEW X, X \subseteq ToSet(task'[t].buf) PROVE Settled(X)
  BY DEF Settled, HeldAt

\* run_turn fails before it records its input.
LEMMA TaskStartFailsKeep ==
    ASSUME LoopInvs, NEW t \in Turns, TaskStartFails(t) PROVE KeepInv' /\ Kept'
  <1> DEFINE X == ToSet(task[t].buf)
  <1>1. Inside(t) /\ task[t] \in TaskTypes /\ X \in SUBSET Items
    BY LoopTyped, RunTurnInside, ItemsOf
  <1>2. task'[t].buf = <<>>
    <2>1. task \in [Turns -> TaskTypes]
      BY LoopTyped, Typed
    <2> QED
      BY <1>1, <2>1 DEF TaskStartFails, TaskTypes
  <1>3. UNCHANGED <<pending, history, mailbox>> /\ Abandon(X)
    BY DEF TaskStartFails
  <1>4. KeepInv' /\ L' = L /\ \A s : Reach(s) <=> Reach(s)'
    BY <1>1, <1>2, <1>3, InsideKeep
  <1>5. Settled(X) /\ \A i \in Inputs \cup Mails : fate'[i] = "accepted" => fate[i] = "accepted"
    BY <1>1, <1>3, AbandonSettles
  <1>6. \A u \in Turns \ {t} : task'[u] = task[u]
    BY <1>1 DEF Inside
  <1>7. X \subseteq ToSet(task'[t].buf) \cup X
    OBVIOUS
  <1> QED
    BY <1>3, <1>4, <1>5, <1>6, <1>7, TaskMoves

\* The pending input moves into the hands of the task.
LEMMA TaskDrainKeep ==
    ASSUME LoopInvs, NEW t \in Turns, TaskDrain(t) PROVE KeepInv' /\ Kept'
  <1>1. Inside(t) /\ task[t] \in TaskTypes /\ task \in [Turns -> TaskTypes] /\ task[t].pc = "drain"
    BY LoopTyped, Typed, RunTurnInside DEF TaskDrain
  <1>2. task[t].buf = <<>> /\ UNCHANGED <<history, mailbox, fate>>
    BY <1>1, LoopTyped DEF KeepInv, BufInv, TaskDrain
  <1>3. CASE active = NoTurn
    <2>1. task'[t].buf = task[t].buf /\ task'[t].pc = "drain_mail" /\ pending' = pending
      BY <1>1, <1>3 DEF TaskDrain, Become, TaskTypes
    <2> QED
      BY <1>1, <1>2, <2>1, PlainKeep
  <1>4. CASE active # NoTurn
    <2> DEFINE X == ToSet(pending[active.state])
    <2>1. active.state \in States /\ pending \in [States -> Seq(Items)]
      BY <1>4, LoopTyped, Typed
    <2>2. task'[t].buf = pending[active.state] /\ task'[t].pc \in {"drain_mail", "record"}
      <3>1. PICK pc \in {"drain_mail", "record"} :
                task' = [task EXCEPT ![t] = [task[t] EXCEPT !.pc = pc, !.buf = pending[active.state]]]
        BY <1>1, <1>4 DEF TaskDrain
      <3> QED
        BY <1>1, <3>1 DEF TaskTypes
    <2>3. pending' = [pending EXCEPT ![active.state] = <<>>]
      BY <1>4 DEF TaskDrain
    <2>4. \A s \in States : pending'[s] = pending[s] \/ (s = active.state /\ pending'[s] = <<>>)
      BY <2>1, <2>3
    <2>5. KeepInv' /\ L' = L /\ \A s : Reach(s) <=> Reach(s)'
      BY <1>1, <2>2, <2>4, InsideKeep
    <2>6. Settled(X)
      BY <2>2, HandsSettle
    <2>7. \A u \in Turns \ {t} : task'[u] = task[u]
      BY <1>1 DEF Inside
    <2>8. ToSet(task[t].buf) = {}
      BY <1>2, NoItems
    <2>9. \A s \in States : ToSet(pending[s]) \subseteq ToSet(pending'[s]) \cup X
      BY <2>4
    <2> HIDE DEF X
    <2> QED
      BY <1>2, <2>5, <2>6, <2>7, <2>8, <2>9, TaskMoves
  <1> QED
    BY <1>3, <1>4

\* The mail moves into the hands of the task.
LEMMA TaskDrainMailKeep ==
    ASSUME LoopInvs, NEW t \in Turns, TaskDrainMail(t) PROVE KeepInv' /\ Kept'
  <1> DEFINE X == ToSet(mailbox)
  <1>1. Inside(t) /\ task[t] \in TaskTypes /\ task \in [Turns -> TaskTypes]
    BY LoopTyped, Typed, RunTurnInside
  <1>2. task'[t].buf = task[t].buf \o mailbox /\ task'[t].pc = "record"
    BY <1>1 DEF TaskDrainMail, TaskTypes
  <1>3. UNCHANGED <<pending, history, fate>>
    BY DEF TaskDrainMail
  <1>4. KeepInv' /\ L' = L /\ \A s : Reach(s) <=> Reach(s)'
    BY <1>1, <1>2, <1>3, InsideKeep
  <1>5. ToSet(task'[t].buf) = ToSet(task[t].buf) \cup X
    BY <1>2, LoopTyped, ConcatItems
  <1>6. Settled(X)
    BY <1>5, HandsSettle
  <1>7. \A u \in Turns \ {t} : task'[u] = task[u]
    BY <1>1 DEF Inside
  <1> HIDE DEF X
  <1> QED
    BY <1>3, <1>4, <1>5, <1>6, <1>7, TaskMoves DEF X

\* Recording or blocking an item takes it out of the hands of its task.
LEMMA RecordTask ==
    ASSUME LoopInvs, NEW t \in Turns, RecordHead(t)
    PROVE  /\ task'[t].pc = task[t].pc /\ task'[t].state = task[t].state
           /\ task'[t].buf = Tail(task[t].buf) /\ \A u \in Turns \ {t} : task'[u] = task[u]
  <1>1. task[t] \in TaskTypes /\ task \in [Turns -> TaskTypes]
    BY LoopTyped, Typed
  <1>2. PICK v : task' = [task EXCEPT ![t] = [task[t] EXCEPT !.buf = Tail(task[t].buf), !.verdict = v]]
    BY <1>1 DEF RecordHead
  <1> QED
    BY <1>1, <1>2 DEF TaskTypes

\* One item is recorded or blocked.
LEMMA RecordKept ==
    ASSUME LoopInvs, NEW t \in Turns, RecordHead(t), L' = L, UNCHANGED <<pending, mailbox>>,
           \A s \in States : Reach(s) => Reach(s)'
    PROVE  Kept'
  <1> DEFINE i == Head(task[t].buf)
             X == {i}
  <1>1. task[t] \in TaskTypes /\ task \in [Turns -> TaskTypes]
    BY LoopTyped, Typed
  <1>2. /\ task[t].buf # <<>> /\ task[t].buf \in Seq(Items)
        /\ task'[t].buf = Tail(task[t].buf) /\ \A u \in Turns \ {t} : task'[u] = task[u]
    <2>1. task[t].buf # <<>>
      BY DEF RecordHead
    <2> QED
      BY <2>1, LoopTyped, RecordTask
  <1>3. ToSet(task[t].buf) = X \cup ToSet(task'[t].buf) /\ i \in Items
    BY <1>2, HeadItems
  <1>4. CASE history' = Append(history, i) /\ UNCHANGED fate
    <2>1. ToSet(history') = ToSet(history) \cup {i}
      BY <1>3, <1>4, LoopTyped, AppendItems
    <2>2. Settled(X)
      BY <2>1 DEF Settled, HeldAt
    <2> HIDE DEF i
    <2> QED
      BY <1>2, <1>3, <1>4, <2>1, <2>2, TaskMoves
  <1>5. CASE fate' = [fate EXCEPT ![i] = "blocked"] /\ UNCHANGED history
    <2>1. Settled(X)
      BY <1>3, <1>5, LoopTyped DEF Settled
    <2>2. \A j \in Inputs \cup Mails : fate'[j] = "accepted" => fate[j] = "accepted"
      BY <1>3, <1>5, LoopTyped DEF Items
    <2> HIDE DEF i
    <2> QED
      BY <1>2, <1>3, <1>5, <2>1, <2>2, TaskMoves
  <1> QED
    BY <1>4, <1>5 DEF RecordHead

\* The task records what it holds.
LEMMA TaskRecordKeep ==
    ASSUME LoopInvs, NEW t \in Turns, TaskRecord(t) PROVE KeepInv' /\ Kept'
  <1>1. Inside(t) /\ task[t] \in TaskTypes /\ task \in [Turns -> TaskTypes]
    BY LoopTyped, Typed, RunTurnInside
  <1>2. UNCHANGED <<pending, mailbox>> /\ task[t].pc = "record"
    BY DEF TaskRecord
  <1>3. CASE RecordHead(t)
    <2>1. task'[t].pc = "record"
      BY <1>2, <1>3, RecordTask
    <2>2. KeepInv' /\ L' = L /\ \A s : Reach(s) <=> Reach(s)'
      BY <1>1, <1>2, <2>1, InsideKeep
    <2> QED
      BY <1>2, <1>3, <2>2, RecordKept
  <1>4. CASE ~RecordHead(t)
    <2>1. task'[t].buf = <<>> /\ task[t].buf = <<>> /\ task'[t].pc \in {"exit", "sample"}
      <3>1. task[t].buf = <<>>
        BY <1>4 DEF TaskRecord
      <3>2. PICK p \in {"exit", "sample"} : task' = [task EXCEPT ![t] = [task[t] EXCEPT !.verdict = "none", !.pc = p]]
        BY <1>1, <1>4 DEF TaskRecord
      <3> QED
        BY <1>1, <3>1, <3>2 DEF TaskTypes
    <2>2. UNCHANGED <<history, fate>>
      BY <1>4 DEF TaskRecord
    <2> QED
      BY <1>1, <1>2, <2>1, <2>2, PlainKeep
  <1> QED
    BY <1>3, <1>4

-----------------------------------------------------------------------------
(* Nothing is lost: the end of a task *)

\* A task goes on ending, with the active turn and the loop left alone.
LEMMA EndingKeep ==
    ASSUME LoopInvs, NEW t \in Turns, UNCHANGED <<active, allocated, actor>>,
           \A u \in Turns \ {t} : task'[u] = task[u],
           Ends(t)' <=> Ends(t), task'[t].state = task[t].state,
           task'[t].pc # "start",
           task'[t].pc \notin {"drain_mail", "record", "flush_record"} => task'[t].buf = <<>>,
           \A s \in States : pending'[s] = pending[s] \/ pending'[s] = <<>>,
           task'[t].pc \in Ending \ {"flush"} =>
                task[t].pc \in Ending \ {"flush"} \/ pending'[task[t].state] = <<>>
    PROVE  /\ KeepInv' /\ L' = L
           /\ \A s : Reach(s) => Reach(s)' \/ (task[t].pc = "flush" /\ s = task[t].state)
  <1>1. L' = L
    BY DEF L
  <1>2. \A u \in Turns : (Ends(u)' <=> Ends(u)) /\ (Ends(u) => task'[u].state = task[u].state)
    BY DEF Ends
  <1>3. HandsInv'
    BY <1>1, LoopTyped DEF KeepInv, HandsInv
  <1>4. BufInv'
    BY LoopTyped DEF KeepInv, BufInv
  <1>5. StateInv'
    BY <1>1, <1>2, LoopTyped, StateSame DEF KeepInv
  <1>6. LateInv'
    <2> SUFFICES ASSUME NEW u \in Turns, task'[u].pc \in Ending \ {"flush"}
                 PROVE  ToSet(pending'[task'[u].state]) \subseteq Injects
      BY DEF LateInv
    <2> DEFINE s == task[u].state
    <2>1. Ends(u) /\ task'[u].state = s /\ s \in States
      BY <1>2, EndsTyped DEF Ends
    <2>2. pending'[s] = pending[s] \/ pending'[s] = <<>>
      BY <2>1
    <2>3. task[u].pc \in Ending \ {"flush"} \/ pending'[s] = <<>>
      OBVIOUS
    <2>4. task[u].pc \in Ending \ {"flush"} => ToSet(pending[s]) \subseteq Injects
      BY LoopTyped DEF KeepInv, LateInv
    <2> HIDE DEF s
    <2> QED
      BY <2>1, <2>2, <2>3, <2>4, NoItems
  <1>7. \A s : Reach(s) => Reach(s)' \/ (task[t].pc = "flush" /\ s = task[t].state)
    BY <1>1 DEF Reach
  <1> QED
    BY <1>1, <1>3, <1>4, <1>5, <1>6, <1>7 DEF KeepInv

\* A step to pc, nothing taken or recorded.
LEMMA BecomeKeep ==
    ASSUME LoopInvs, NEW t \in Turns, NEW pc \in TaskSteps, Become(t, pc),
           UNCHANGED <<active, allocated, actor, pending, history, mailbox, fate>>,
           pc \in Ending <=> task[t].pc \in Ending, pc \notin {"start", "flush"},
           pc \in Ending => task[t].pc # "flush", task[t].pc # "flush", task[t].buf = <<>>
    PROVE  KeepInv' /\ Kept'
  <1>1. /\ task'[t].buf = task[t].buf /\ task'[t].pc = pc /\ task'[t].state = task[t].state
        /\ \A u \in Turns \ {t} : task'[u] = task[u]
    <2>1. task \in [Turns -> TaskTypes] /\ task[t] \in TaskTypes
      BY LoopTyped, Typed
    <2> QED
      BY <2>1 DEF Become, TaskTypes
  <1>2. Ends(t)' <=> Ends(t)
    BY <1>1 DEF Ends
  <1>3. /\ KeepInv' /\ L' = L
        /\ \A s : Reach(s) => Reach(s)' \/ (task[t].pc = "flush" /\ s = task[t].state)
    BY <1>1, <1>2, EndingKeep
  <1>4. \A u \in Turns : task'[u].buf = task[u].buf
    BY <1>1
  <1> QED
    BY <1>3, <1>4, StillKept

\* The spawn site after the task.
LEMMA TaskFinishKeep ==
    ASSUME LoopInvs, NEW t \in Turns, TaskFinish(t) PROVE KeepInv' /\ Kept'
  <1>1. task[t].pc = "finish" /\ \E pc \in {"done", "take"} : Become(t, pc)
    BY DEF TaskFinish
  <1>2. task[t].buf = <<>>
    BY <1>1, LoopTyped DEF KeepInv, BufInv
  <1>3. UNCHANGED <<active, allocated, actor, pending, history, mailbox, fate>>
    BY DEF TaskFinish
  <1> QED
    BY <1>1, <1>2, <1>3, BecomeKeep DEF TaskSteps, Ending

\* TurnComplete is sent.
LEMMA FinishEventKeep ==
    ASSUME LoopInvs, NEW t \in Turns, FinishEvent(t) PROVE KeepInv' /\ Kept'
  <1>1. task[t].pc = "terminal" /\ Become(t, "release")
    BY DEF FinishEvent
  <1>2. task[t].buf = <<>>
    BY <1>1, LoopTyped DEF KeepInv, BufInv
  <1>3. UNCHANGED <<active, allocated, actor, pending, history, mailbox, fate>>
    BY DEF FinishEvent
  <1> QED
    BY <1>1, <1>2, <1>3, BecomeKeep DEF TaskSteps, Ending

\* Input that came too late moves into the hands of the task that ends.
LEMMA FinishFlushKeep ==
    ASSUME LoopInvs, NEW t \in Turns, FinishFlush(t) PROVE KeepInv' /\ Kept'
  <1> DEFINE s == task[t].state
             X == ToSet(pending[s])
  <1>1. task[t].pc = "flush" /\ task[t].buf = <<>>
    BY LoopTyped DEF KeepInv, BufInv, FinishFlush
  <1>2. s \in States
    BY <1>1, EndsTyped DEF Ends, Ending
  <1>3. /\ task'[t].buf = pending[s] /\ task'[t].pc = "flush_record" /\ task'[t].state = s
        /\ \A u \in Turns \ {t} : task'[u] = task[u]
    <2>1. task \in [Turns -> TaskTypes] /\ task[t] \in TaskTypes
      BY LoopTyped, Typed
    <2> QED
      BY <2>1 DEF FinishFlush, TaskTypes
  <1>4. /\ pending' = [pending EXCEPT ![s] = <<>>]
        /\ UNCHANGED <<active, allocated, actor, mailbox, history, fate>>
    BY DEF FinishFlush
  <1> HIDE DEF s
  <1>5. /\ \A r \in States : pending'[r] = pending[r] \/ (r = s /\ pending'[r] = <<>>)
        /\ pending'[s] = <<>>
    BY <1>2, <1>4, LoopTyped
  <1>6. Ends(t)' <=> Ends(t)
    BY <1>1, <1>3 DEF Ends, Ending
  <1>7. /\ KeepInv' /\ L' = L
        /\ \A r : Reach(r) => Reach(r)' \/ r = s
    BY <1>1, <1>3, <1>4, <1>5, <1>6, EndingKeep DEF s
  <1>8. Settled(X)
    BY <1>3, HandsSettle
  <1>9. ToSet(task[t].buf) = {}
    BY <1>1, NoItems
  <1>10. /\ \A r \in States : ToSet(pending[r]) \subseteq ToSet(pending'[r]) \cup X
         /\ \A r \in States : Reach(r) => Reach(r)' \/ ToSet(pending[r]) \subseteq X
    BY <1>5, <1>7
  <1> HIDE DEF X
  <1> QED
    BY <1>3, <1>4, <1>7, <1>8, <1>9, <1>10, TaskMoves

\* Input that came too late is recorded.
LEMMA FinishRecordKeep ==
    ASSUME LoopInvs, NEW t \in Turns, FinishRecord(t) PROVE KeepInv' /\ Kept'
  <1>1. /\ UNCHANGED <<active, allocated, actor, pending, mailbox>> /\ task[t].pc = "flush_record"
        /\ task \in [Turns -> TaskTypes] /\ task[t] \in TaskTypes
    BY LoopTyped, Typed DEF FinishRecord
  <1>2. CASE RecordHead(t)
    <2>1. /\ task'[t].pc = "flush_record" /\ task'[t].state = task[t].state
          /\ \A u \in Turns \ {t} : task'[u] = task[u]
      BY <1>1, <1>2, RecordTask
    <2>2. Ends(t)' <=> Ends(t)
      BY <1>1, <2>1 DEF Ends
    <2>3. /\ KeepInv' /\ L' = L
          /\ \A s : Reach(s) => Reach(s)' \/ (task[t].pc = "flush" /\ s = task[t].state)
      BY <1>1, <2>1, <2>2, EndingKeep
    <2>4. \A s \in States : Reach(s) => Reach(s)'
      BY <1>1, <2>3
    <2> QED
      BY <1>1, <1>2, <2>3, <2>4, RecordKept
  <1>3. CASE ~RecordHead(t)
    <2>1. task[t].buf = <<>> /\ Become(t, "terminal") /\ UNCHANGED <<history, fate>>
      BY <1>3 DEF FinishRecord
    <2> QED
      BY <1>1, <2>1, BecomeKeep DEF TaskSteps, Ending
  <1> QED
    BY <1>2, <1>3

\* A task takes itself out of the active turn, whose state it remembers.
LEMMA FinishTakeKeep ==
    ASSUME LoopInvs, NEW t \in Turns, FinishTake(t) PROVE KeepInv' /\ Kept'
  <1>1. /\ task[t].pc = "take" /\ task[t].buf = <<>>
        /\ UNCHANGED <<allocated, actor, pending, history, mailbox, fate>>
        /\ task \in [Turns -> TaskTypes] /\ task[t] \in TaskTypes
    BY LoopTyped, Typed DEF KeepInv, BufInv, FinishTake
  <1>2. CASE active.task = None
    BY <1>1, <1>2, BecomeKeep DEF FinishTake, TaskSteps, Ending
  <1>3. CASE active.task # None
    <2>1. active.state \in States /\ active.task \in Turns
      BY <1>3, LoopTyped, Typed
    <2>2. /\ task'[t].buf = <<>> /\ task'[t].pc = "flush" /\ task'[t].state = active.state
          /\ \A u \in Turns \ {t} : task'[u] = task[u]
      <3>1. task' = [task EXCEPT ![t] = [task[t] EXCEPT !.pc = "flush", !.state = active.state]]
        BY <1>1, <1>3 DEF FinishTake
      <3> QED
        BY <1>1, <3>1 DEF TaskTypes
    <2>3. active' = [active EXCEPT !.task = None]
      BY <1>3 DEF FinishTake
    <2>4. active'.state = active.state /\ active'.task = None
      BY <2>3, LoopTyped, Typed DEF ActiveOK
    <2>5. L' = L /\ L.pc \notin Starting
      BY <1>1, <1>3, LoopTyped DEF L, Inv, OwnerInv
    <2>6. HandsInv'
      BY <2>5, LoopTyped DEF KeepInv, HandsInv
    <2>7. BufInv'
      BY <2>2, LoopTyped DEF KeepInv, BufInv
    <2>8. StateInv'
      <3>1. StateInv /\ allocated \in Nat
        BY LoopTyped DEF KeepInv
      <3>2. active.state \in 1 .. allocated
        BY <2>1, <3>1 DEF StateInv, States
      <3>3. \A u \in Turns : Ends(u)' => task'[u].state \in 1 .. allocated
        BY <2>2, <3>1, <3>2 DEF StateInv, Ends
      <3>4. Ends(t)' /\ task'[t].state = active.state
        BY <2>2 DEF Ends, Ending
      <3>5. L.pc # "extend"
        BY <2>5 DEF Starting
      <3> QED
        BY <1>1, <2>4, <2>5, <3>1, <3>3, <3>4, <3>5 DEF StateInv
    <2>9. LateInv'
      BY <1>1, <2>2, LoopTyped, LateSame DEF KeepInv
    <2>10. \A s \in States : Reach(s) => Reach(s)'
      <3>1. \A u \in Turns : task[u].pc = "flush" => task'[u] = task[u]
        BY <1>1, <2>2
      <3> QED
        BY <2>4, <2>5, <3>1 DEF Reach
    <2>11. \A u \in Turns : task'[u].buf = task[u].buf
      BY <1>1, <2>2
    <2>12. Kept'
      BY <1>1, <2>5, <2>10, <2>11, StillKept
    <2> QED
      BY <2>6, <2>7, <2>8, <2>9, <2>12 DEF KeepInv
  <1> QED
    BY <1>2, <1>3

\* A task clears the active turn if it is still the one it ended; what was
\* injected meanwhile goes with it.
LEMMA FinishReleaseKeep ==
    ASSUME LoopInvs, NEW t \in Turns, FinishRelease(t) PROVE KeepInv' /\ Kept'
  <1>1. /\ task[t].pc = "release" /\ task[t].buf = <<>> /\ Ends(t)
        /\ UNCHANGED <<allocated, actor, pending, history, mailbox, fate>>
        /\ task \in [Turns -> TaskTypes] /\ task[t] \in TaskTypes
    BY LoopTyped, Typed DEF KeepInv, BufInv, FinishRelease, Ends, Ending
  <1>2. /\ task'[t].buf = <<>> /\ task'[t].pc = "done"
        /\ \A u \in Turns \ {t} : task'[u] = task[u]
    BY <1>1 DEF FinishRelease, Become, TaskTypes
  <1>3. L' = L
    BY <1>1 DEF L
  <1>4. HandsInv'
    BY <1>3, LoopTyped DEF KeepInv, HandsInv
  <1>5. BufInv'
    BY <1>2, LoopTyped DEF KeepInv, BufInv
  <1>6. LateInv'
    BY <1>1, <1>2, LoopTyped, LateSame DEF KeepInv, Ending
  <1>7. \A u \in Turns : task'[u].buf = task[u].buf
    BY <1>1, <1>2
  <1>8. \A u \in Turns : Ends(u)' <=> Ends(u) /\ u # t
    BY <1>2 DEF Ends, Ending
  <1>9. CASE active.task = None /\ active.state = task[t].state
    <2> DEFINE X == ToSet(pending[active.state])
    <2>1. active' = NoTurn /\ active'.task = None /\ active'.state = None
      BY <1>9 DEF FinishRelease, NoTurn
    <2>2. L.pc \notin Starting
      BY <1>1, <1>9, LoopTyped DEF KeepInv, StateInv
    <2>3. StateInv'
      <3>1. StateInv /\ allocated \in Nat
        BY LoopTyped DEF KeepInv
      <3>2. L.pc # "extend"
        BY <2>2 DEF Starting
      <3>3. \A u \in Turns : Ends(u)' => task'[u].state \in 1 .. allocated
        BY <1>2, <1>8, <3>1 DEF StateInv
      <3> QED
        BY <1>1, <1>3, <2>1, <2>2, <3>1, <3>2, <3>3 DEF StateInv, None
    <2>4. X \subseteq Injects
      BY <1>1, <1>9, LoopTyped DEF KeepInv, LateInv, Ending
    <2>5. Settled(X)
      BY <2>4 DEF Settled
    <2>6. \A s \in States : Reach(s) => Reach(s)' \/ ToSet(pending[s]) \subseteq X
      <3>1. \A u \in Turns : task[u].pc = "flush" => task'[u] = task[u]
        BY <1>1, <1>2
      <3> QED
        BY <1>3, <3>1 DEF Reach
    <2> HIDE DEF X
    <2>7. Kept'
      BY <1>1, <1>2, <1>3, <1>7, <2>5, <2>6, TaskMoves
    <2> QED
      BY <1>4, <1>5, <1>6, <2>3, <2>7 DEF KeepInv
  <1>10. CASE ~(active.task = None /\ active.state = task[t].state)
    <2>1. active' = active
      BY <1>10 DEF FinishRelease
    <2>2. StateInv'
      <3>1. StateInv
        BY LoopTyped DEF KeepInv
      <3>2. \A u \in Turns : Ends(u)' => Ends(u) /\ task'[u].state = task[u].state
        BY <1>2, <1>8
      <3>3. \A u \in Turns : Ends(u) /\ u # t => Ends(u)' /\ task'[u].state = task[u].state
        BY <1>2, <1>8
      <3> QED
        BY <1>1, <1>3, <1>10, <2>1, <3>1, <3>2, <3>3 DEF StateInv
    <2>3. \A s \in States : Reach(s) => Reach(s)'
      <3>1. \A u \in Turns : task[u].pc = "flush" => task'[u] = task[u]
        BY <1>1, <1>2
      <3> QED
        BY <1>3, <2>1, <3>1 DEF Reach
    <2>4. Kept'
      BY <1>1, <1>3, <1>7, <2>3, StillKept
    <2> QED
      BY <1>4, <1>5, <1>6, <2>2, <2>4 DEF KeepInv
  <1> QED
    BY <1>9, <1>10

\* The steps of a task.
LEMMA TaskKeep ==
    ASSUME LoopInvs, NEW t \in Turns, TaskStep(t) PROVE KeepInv' /\ Kept'
  BY TaskStartKeep, TaskStartFailsKeep, TaskDrainKeep, TaskDrainMailKeep, TaskRecordKeep, SampleKeep,
     TaskFinishKeep, FinishTakeKeep, FinishFlushKeep, FinishRecordKeep, FinishEventKeep, FinishReleaseKeep
  DEF TaskStep

-----------------------------------------------------------------------------
(* Nothing is lost: the loop aborts a turn *)

\* The loop goes on with what it holds.
LEMMA GotoLoop ==
    ASSUME LoopInvs, NEW pc, Goto("loop", pc)
    PROVE  /\ L'.pc = pc /\ L'.buf = L.buf /\ L'.input = L.input /\ L'.reason = L.reason
           /\ L'.kind = L.kind /\ L'.state = L.state /\ L'.vstate = L.vstate
  <1>1. actor \in [Starters -> ActorTypes] /\ "loop" \in Starters /\ L \in ActorTypes
    BY LoopTyped, Typed
  <1>2. L' = [L EXCEPT !.pc = pc]
    BY <1>1 DEF Goto, L
  <1> QED
    BY <1>1, <1>2 DEF ActorTypes

\* The loop is idle again, or stops, with nothing in its hands.
LEMMA ReturnLoop ==
    ASSUME LoopInvs, Return("loop")
    PROVE  L'.pc \in {"idle", "stopped"} /\ L'.buf = <<>> /\ L'.input = <<>> /\ L'.reason = "none"
  <1>1. actor \in [Starters -> ActorTypes] /\ "loop" \in Starters
    BY LoopTyped, Typed
  <1>2. PICK r \in ActorTypes : /\ actor' = [actor EXCEPT !["loop"] = r]
                                /\ r.pc \in {"idle", "stopped"} /\ r.reason = "none"
                                /\ r.buf = <<>> /\ r.input = <<>>
    BY <1>1, Returns
  <1> QED
    BY <1>1, <1>2 DEF L

\* An operation that is not replacing the active turn holds no input.
LEMMA NoInput == ASSUME LoopInvs, L.reason # "Replaced" PROVE L.input = <<>>
  BY LoopTyped DEF KeepInv, HandsInv

\* The tasks and what they hold are left alone.
LEMMA TasksKeep ==
    ASSUME LoopInvs, HandsInv', StateInv', UNCHANGED task,
           \A s \in States : pending'[s] = pending[s] \/ pending'[s] = <<>>
    PROVE  KeepInv'
  <1>1. BufInv'
    BY LoopTyped DEF KeepInv, BufInv
  <1>2. \A u \in Turns : task[u].pc \in Ending \ {"flush"} =>
                LET s == task[u].state IN pending'[s] = pending[s] \/ pending'[s] = <<>>
    BY EndsTyped DEF Ends
  <1>3. LateInv'
    BY <1>2, LoopTyped, LateSame DEF KeepInv
  <1> QED
    BY <1>1, <1>3 DEF KeepInv

\* No turn is active: whatever the loop does next.
LEMMA NoTurnState ==
    ASSUME LoopInvs, active' = NoTurn, allocated' = allocated, L'.pc # "extend",
           \A t \in Turns : Ends(t)' => Ends(t) /\ task'[t].state = task[t].state
    PROVE  StateInv'
  <1>1. active'.state = None /\ active'.task = None /\ allocated \in Nat
    BY LoopTyped DEF NoTurn
  <1>2. \A t \in Turns : Ends(t)' => task'[t].state \in 1 .. allocated
    BY LoopTyped DEF KeepInv, StateInv
  <1>3. \A t \in Turns : Ends(t)' => task'[t].state # None
    BY <1>1, <1>2 DEF None
  <1> QED
    BY <1>1, <1>2, <1>3 DEF StateInv, None

\* A fresh turn state is that of no ending task.
LEMMA FreshState ==
    ASSUME LoopInvs, active = NoTurn, GetOrInsert
    PROVE  /\ active'.state = allocated + 1 /\ active'.task = None /\ allocated' = allocated + 1
           /\ \A t \in Turns : Ends(t) => task[t].state # active'.state /\ task[t].state \in 1 .. allocated'
  <1>1. allocated \in Nat /\ active'.state = allocated + 1 /\ active'.task = None /\ allocated' = allocated + 1
    BY LoopTyped DEF GetOrInsert
  <1>2. \A t \in Turns : Ends(t) => task[t].state \in 1 .. allocated
    BY LoopTyped DEF KeepInv, StateInv
  <1> QED
    BY <1>1, <1>2

\* The loop moves the items of X; the tasks are left alone.
LEMMA LoopMoves ==
    ASSUME LoopInvs, NEW X, Settled(X),
           \A t \in Turns : task'[t].buf = task[t].buf,
           \A s \in States : Reach(s) => \/ Reach(s)' /\ ToSet(pending[s]) \subseteq ToSet(pending'[s]) \cup X
                                         \/ ToSet(pending[s]) \subseteq X,
           history' = history, ToSet(mailbox) \subseteq ToSet(mailbox') \cup X,
           ToSet(L.buf) \subseteq ToSet(L'.buf) \cup X, ToSet(L.input) \subseteq ToSet(L'.input) \cup X,
           \A i \in Inputs \cup Mails : fate'[i] = "accepted" => fate[i] = "accepted" \/ i \in X
    PROVE  Kept'
  <1>1. Carried(X)
    BY DEF Carried
  <1> QED
    BY <1>1, CarriedKept, LoopTyped

\* None is no turn state.
LEMMA StatesSome == \A s \in States : s # None /\ s # NoTurn.state
  BY DEF States, None, NoTurn

-----------------------------------------------------------------------------
\* take_active_turn: a turn without a task is that of an ending task, which has flushed it or will.
LEMMA AbortTakeKeep ==
    ASSUME LoopInvs, AbortTake("loop") PROVE KeepInv' /\ Kept'
  <1>1. /\ L.pc = "abort" /\ L.buf = <<>> /\ UNCHANGED <<pending, allocated, mailbox, history, fate>>
        /\ active' = NoTurn
    BY LoopTyped DEF AbortTake, L, KeepInv, HandsInv
  <1>2. CASE active.task # None
    <2>1. active.task \in Turns /\ active.state \in States /\ task \in [Turns -> TaskTypes]
      BY <1>2, LoopTyped, Typed
    <2>2. /\ L'.pc = "kill" /\ L'.vstate = active.state /\ L'.buf = L.buf /\ L'.input = L.input
          /\ L'.reason = L.reason /\ L'.kind = L.kind
      <3>1. actor \in [Starters -> ActorTypes] /\ "loop" \in Starters /\ L \in ActorTypes
        BY LoopTyped, Typed
      <3>2. L' = [L EXCEPT !.pc = "kill", !.victim = active.task, !.vstate = active.state]
        BY <1>2, <3>1 DEF AbortTake, L
      <3> QED
        BY <3>1, <3>2 DEF ActorTypes
    <2>3. \A t \in Turns : /\ task'[t].pc = task[t].pc /\ task'[t].state = task[t].state
                           /\ task'[t].buf = task[t].buf /\ task'[t].kind = task[t].kind
      <3>1. task' = [task EXCEPT ![active.task] = [task[active.task] EXCEPT !.cancelled = TRUE]]
        BY <1>2, <2>1 DEF AbortTake
      <3>2. task[active.task] \in TaskTypes
        BY <2>1
      <3> QED
        BY <2>1, <3>1, <3>2 DEF TaskTypes
    <2>4. HandsInv'
      BY <1>1, <2>2, LoopTyped DEF KeepInv, HandsInv
    <2>5. BufInv'
      BY <2>3, LoopTyped DEF KeepInv, BufInv
    <2>6. StateInv'
      BY <1>1, <2>2, <2>3, NoTurnState DEF Ends
    <2>7. LateInv'
      BY <1>1, <2>3, LoopTyped, LateSame DEF KeepInv
    <2>8. \A s \in States : Reach(s) => Reach(s)'
      BY <1>1, <2>2, <2>3 DEF Reach, Aborting
    <2>9. Kept'
      BY <1>1, <2>2, <2>3, <2>8, StillKept
    <2> QED
      BY <2>4, <2>5, <2>6, <2>7, <2>9 DEF KeepInv
  <1>3. CASE active.task = None
    <2>1. task' = task /\ AfterAbort("loop", FALSE)
      BY <1>3 DEF AbortTake
    <2>2. /\ \/ L'.pc = "get_turn"
             \/ L'.pc \in {"idle", "stopped"} /\ L'.reason = "none"
          /\ L'.buf = <<>> /\ L'.input = L.input
          /\ L'.input # <<>> => L'.reason = "Replaced" /\ L'.kind = "regular"
      <3>1. CASE L.reason = "Replaced"
        <4>1. Goto("loop", "get_turn")
          BY <2>1, <3>1 DEF AfterAbort, L
        <4> QED
          BY <1>1, <4>1, GotoLoop, LoopTyped DEF KeepInv, HandsInv
      <3>2. CASE L.reason # "Replaced"
        <4>1. Return("loop")
          BY <2>1, <3>2 DEF AfterAbort, L
        <4> QED
          BY <1>1, <3>2, <4>1, NoInput, ReturnLoop
      <3> QED
        BY <3>1, <3>2
    <2>3. HandsInv'
      BY <2>2 DEF HandsInv
    <2>4. StateInv'
      BY <1>1, <2>1, <2>2, NoTurnState DEF Ends
    <2>5. KeepInv'
      BY <1>1, <2>1, <2>3, <2>4, TasksKeep
    <2>6. Settled(Injects)
      BY DEF Settled
    <2>7. ASSUME NEW s \in States, Reach(s) PROVE Reach(s)' \/ ToSet(pending[s]) \subseteq Injects
      <3>1. CASE s = active.state
        <4>1. L.pc \notin Starting /\ active.state # None
          BY <1>1, <2>7, <3>1 DEF Starting, States, None
        <4>2. PICK t \in Turns : Ends(t) /\ task[t].state = s
          BY <1>3, <3>1, <4>1, LoopTyped DEF KeepInv, StateInv
        <4>3. CASE task[t].pc = "flush"
          BY <2>1, <4>2, <4>3 DEF Reach
        <4>4. CASE task[t].pc # "flush"
          BY <4>2, <4>4, LoopTyped DEF KeepInv, LateInv, Ends
        <4> QED
          BY <4>3, <4>4
      <3>2. CASE s # active.state
        BY <1>1, <2>1, <2>7, <3>2 DEF Reach, Aborting
      <3> QED
        BY <3>1, <3>2
    <2>8. Kept'
      BY <1>1, <2>1, <2>2, <2>6, <2>7, LoopMoves
    <2> QED
      BY <2>5, <2>8
  <1> QED
    BY <1>2, <1>3

\* A killed task takes what it holds with it.
LEMMA AbortKillKeep ==
    ASSUME LoopInvs, AbortKill("loop") PROVE KeepInv' /\ Kept'
  <1> DEFINE v == L.victim
             X == ToSet(task[v].buf)
  <1>1. /\ L.pc = "kill" /\ Goto("loop", "event")
        /\ UNCHANGED <<active, pending, allocated, mailbox, history>>
    BY DEF AbortKill, L
  <1>2. v \in Turns /\ task[v].pc \in RunSteps \cup {"take", "done"}
    BY <1>1, LoopTyped DEF Inv, TypeInv, LoopInv, TerminalInv, Aborting
  <1>3. /\ L'.pc = "event" /\ L'.buf = L.buf /\ L'.input = L.input /\ L'.reason = L.reason
        /\ L'.kind = L.kind /\ L'.vstate = L.vstate
    BY <1>1, GotoLoop
  <1>4. /\ X \in SUBSET Items
        /\ \A u \in Turns \ {v} : task'[u] = task[u]
        /\ task' = task \/ (task'[v].pc = "killed" /\ task'[v].buf = <<>>)
        /\ (task' = task /\ fate' = fate) \/ Abandon(X)
    <2>1. task \in [Turns -> TaskTypes] /\ task[v] \in TaskTypes
      BY <1>2, LoopTyped, Typed
    <2>2. X \in SUBSET Items
      BY <1>2, LoopTyped, ItemsOf
    <2>3. CASE task[v].pc \in {"done", "killed"}
      BY <2>2, <2>3 DEF AbortKill, L
    <2>4. CASE task[v].pc \notin {"done", "killed"}
      <3>1. task' = [task EXCEPT ![v] = [task[v] EXCEPT !.pc = "killed", !.buf = <<>>]] /\ Abandon(X)
        BY <1>2, <2>1, <2>4 DEF AbortKill, L
      <3> HIDE DEF v, X
      <3> QED
        BY <1>2, <2>1, <2>2, <3>1 DEF TaskTypes
    <2> QED
      BY <2>3, <2>4
  <1> HIDE DEF v, X
  <1>5. \A u \in Turns : /\ Ends(u)' <=> Ends(u)
                         /\ Ends(u) => task'[u] = task[u]
    BY <1>2, <1>4 DEF Ends, Ending, RunSteps
  <1>6. HandsInv'
    BY <1>1, <1>3, LoopTyped DEF KeepInv, HandsInv
  <1>7. BufInv'
    BY <1>4, LoopTyped DEF KeepInv, BufInv
  <1>8. StateInv'
    BY <1>1, <1>3, <1>5, LoopTyped, StateSame DEF KeepInv, Starting
  <1>9. LateInv'
    BY <1>1, <1>5, LoopTyped, LateSame DEF KeepInv, Ends
  <1>10. \A s \in States : Reach(s) => Reach(s)'
    <2>1. \A u \in Turns : task[u].pc = "flush" => task'[u] = task[u]
      BY <1>5 DEF Ends, Ending
    <2> QED
      BY <1>1, <1>3, <2>1 DEF Reach, Aborting
  <1>11. CASE task' = task /\ fate' = fate
    BY <1>1, <1>3, <1>6, <1>7, <1>8, <1>9, <1>10, <1>11, StillKept DEF KeepInv
  <1>12. CASE Abandon(X)
    <2>1. Settled(X) /\ \A i \in Inputs \cup Mails : fate'[i] = "accepted" => fate[i] = "accepted"
      BY <1>4, <1>12, AbandonSettles
    <2>2. \A u \in Turns : ToSet(task[u].buf) \subseteq ToSet(task'[u].buf) \cup X
      BY <1>4 DEF X
    <2>3. Carried(X)
      BY <1>1, <1>3, <1>10, <2>1, <2>2 DEF Carried
    <2>4. Kept'
      BY <2>1, <2>3, CarriedKept, LoopTyped
    <2> QED
      BY <1>6, <1>7, <1>8, <1>9, <2>4 DEF KeepInv
  <1> QED
    BY <1>4, <1>11, <1>12

\* TurnAborted is sent.
LEMMA AbortEventKeep ==
    ASSUME LoopInvs, AbortEvent("loop") PROVE KeepInv' /\ Kept'
  <1>1. /\ L.pc = "event" /\ Goto("loop", "clear")
        /\ UNCHANGED <<active, pending, allocated, mailbox, history, task, fate>>
    BY DEF AbortEvent, L
  <1>2. /\ L'.pc = "clear" /\ L'.buf = L.buf /\ L'.input = L.input /\ L'.reason = L.reason
        /\ L'.kind = L.kind /\ L'.vstate = L.vstate
    BY <1>1, GotoLoop
  <1>3. HandsInv'
    BY <1>1, <1>2, LoopTyped DEF KeepInv, HandsInv
  <1>4. StateInv'
    BY <1>1, <1>2, LoopTyped, StateSame DEF KeepInv, Starting, Ends
  <1>5. \A s \in States : Reach(s) => Reach(s)'
    BY <1>1, <1>2 DEF Reach, Aborting
  <1> QED
    BY <1>1, <1>2, <1>3, <1>4, <1>5, TasksKeep, StillKept

\* The input queued for the aborted turn goes with it.
LEMMA AbortClearKeep ==
    ASSUME LoopInvs, AbortClear("loop") PROVE KeepInv' /\ Kept'
  <1> DEFINE v == L.vstate
             X == ToSet(pending[v])
  <1>1. /\ L.pc = "clear" /\ AfterAbort("loop", TRUE) /\ Abandon(X)
        /\ pending' = [pending EXCEPT ![v] = <<>>]
        /\ UNCHANGED <<active, allocated, mailbox, history, task>>
    BY DEF AbortClear, L
  <1>2. active = NoTurn /\ L.buf = <<>>
    BY <1>1, LoopTyped DEF Inv, OwnerInv, Aborting, KeepInv, HandsInv
  <1>3. v \in States
    BY <1>1, LoopTyped DEF SessionInv, OperandsOK, Aborting, L
  <1>4. PICK pc \in {"get_turn", "maybe"} : Goto("loop", pc) /\ (pc = "maybe" => L.reason # "Replaced")
    BY <1>1 DEF AfterAbort, L
  <1>5. L'.pc = pc /\ L'.buf = L.buf /\ L'.input = L.input /\ L'.reason = L.reason /\ L'.kind = L.kind
    BY <1>4, GotoLoop
  <1>6. HandsInv'
    BY <1>2, <1>4, <1>5, LoopTyped DEF KeepInv, HandsInv
  <1>7. StateInv'
    BY <1>1, <1>2, <1>4, <1>5, NoTurnState DEF Ends
  <1>8. \A s \in States : pending'[s] = pending[s] \/ (s = v /\ pending'[s] = <<>>)
    BY <1>1, <1>3, LoopTyped
  <1>9. KeepInv'
    BY <1>1, <1>6, <1>7, <1>8, TasksKeep
  <1>10. X \in SUBSET Items
    BY <1>3, LoopTyped, ItemsOf
  <1>11. Settled(X) /\ \A i \in Inputs \cup Mails : fate'[i] = "accepted" => fate[i] = "accepted"
    BY <1>1, <1>10, AbandonSettles
  <1>12. ASSUME NEW s \in States, Reach(s)
         PROVE  \/ Reach(s)' /\ ToSet(pending[s]) \subseteq ToSet(pending'[s]) \cup X
                \/ ToSet(pending[s]) \subseteq X
    <2>1. CASE s = v
      BY <2>1
    <2>2. CASE s # v
      <3>1. Reach(s)'
        BY <1>1, <1>12, <2>2 DEF Reach
      <3> QED
        BY <1>8, <2>2, <3>1
    <2> QED
      BY <2>1, <2>2
  <1> HIDE DEF X
  <1>13. Kept'
    BY <1>1, <1>5, <1>11, <1>12, LoopMoves
  <1> QED
    BY <1>9, <1>13

-----------------------------------------------------------------------------
(* Nothing is lost: the loop starts a turn *)

\* The loop looks for trigger mail.
LEMMA MaybeStartKeep ==
    ASSUME LoopInvs, MaybeStart("loop") PROVE KeepInv' /\ Kept'
  <1>1. /\ L.pc = "maybe" /\ L.reason # "Replaced" /\ L.buf = <<>> /\ L.input = <<>>
        /\ UNCHANGED <<active, pending, allocated, mailbox, history, task, fate>>
    BY NoInput, LoopTyped DEF MaybeStart, L, KeepInv, HandsInv
  <1>2. L'.pc \in {"reserve", "idle", "stopped"} /\ L'.reason # "Replaced" /\ L'.buf = <<>> /\ L'.input = <<>>
    <2>1. CASE Goto("loop", "reserve")
      BY <1>1, <2>1, GotoLoop
    <2>2. CASE Return("loop")
      BY <2>2, ReturnLoop
    <2> QED
      BY <2>1, <2>2 DEF MaybeStart
  <1>3. HandsInv'
    BY <1>2 DEF HandsInv
  <1>4. StateInv'
    BY <1>1, <1>2, LoopTyped, StateSame DEF KeepInv, Starting, Ends
  <1>5. \A s \in States : Reach(s) => Reach(s)'
    BY <1>1 DEF Reach, Aborting
  <1> QED
    BY <1>1, <1>2, <1>3, <1>4, <1>5, TasksKeep, StillKept

\* The loop reserves a fresh turn state.
LEMMA ReserveKeep ==
    ASSUME LoopInvs, Reserve("loop") PROVE KeepInv' /\ Kept'
  <1>1. /\ L.pc = "reserve" /\ L.reason # "Replaced" /\ L.buf = <<>> /\ L.input = <<>>
        /\ UNCHANGED <<pending, mailbox, history, task, fate>>
    BY NoInput, LoopTyped DEF Reserve, L, KeepInv, HandsInv
  <1>2. CASE active # NoTurn
    <2>1. L'.pc \in {"idle", "stopped"} /\ L'.reason = "none" /\ L'.buf = <<>> /\ L'.input = <<>>
      BY <1>2, ReturnLoop DEF Reserve
    <2>2. UNCHANGED <<active, allocated>>
      BY <1>2 DEF Reserve
    <2>3. HandsInv'
      BY <2>1 DEF HandsInv
    <2>4. StateInv'
      BY <1>1, <2>1, <2>2, LoopTyped, StateSame DEF KeepInv, Starting, Ends
    <2>5. \A s \in States : Reach(s) => Reach(s)'
      BY <1>1, <2>2 DEF Reach, Aborting
    <2> QED
      BY <1>1, <2>1, <2>2, <2>3, <2>4, <2>5, TasksKeep, StillKept
  <1>3. CASE active = NoTurn
    <2>1. L'.pc = "get_turn" /\ L'.reason = L.reason /\ L'.buf = L.buf /\ L'.input = L.input
      BY <1>3, GotoLoop DEF Reserve
    <2>2. /\ active'.state = allocated + 1 /\ active'.task = None /\ allocated' = allocated + 1
          /\ \A t \in Turns : Ends(t) => task[t].state # active'.state /\ task[t].state \in 1 .. allocated'
      BY <1>3, FreshState DEF Reserve
    <2>3. HandsInv'
      BY <1>1, <2>1 DEF HandsInv
    <2>4. StateInv'
      <3>1. \A t \in Turns : Ends(t)' => task'[t].state # active'.state /\ task'[t].state \in 1 .. allocated'
        BY <1>1, <2>2 DEF Ends
      <3>2. active'.state <= allocated'
        BY <2>2, LoopTyped
      <3> QED
        BY <2>1, <2>2, <3>1, <3>2 DEF StateInv, Starting
    <2>5. \A s \in States : Reach(s) => Reach(s)'
      BY <1>1, <1>3, StatesSome DEF Reach, Aborting
    <2> QED
      BY <1>1, <2>1, <2>3, <2>4, <2>5, TasksKeep, StillKept
  <1> QED
    BY <1>2, <1>3

\* The pending input of the turn moves into the hands of the loop.
LEMMA GetTurnInputKeep ==
    ASSUME LoopInvs, GetTurnInput("loop") PROVE KeepInv' /\ Kept'
  <1>1. /\ L.pc = "get_turn" /\ L.buf = <<>>
        /\ UNCHANGED <<active, allocated, mailbox, history, task, fate>>
    BY LoopTyped DEF GetTurnInput, L, KeepInv, HandsInv
  <1>2. CASE active = NoTurn
    <2>1. L'.pc = "get_mail" /\ L'.reason = L.reason /\ L'.buf = L.buf /\ L'.input = L.input /\ L'.kind = L.kind
      BY <1>2, GotoLoop DEF GetTurnInput
    <2>2. pending' = pending
      BY <1>2 DEF GetTurnInput
    <2>3. HandsInv'
      BY <2>1, LoopTyped DEF HandsInv, KeepInv
    <2>4. StateInv'
      BY <1>1, <2>1, LoopTyped, StateSame DEF KeepInv, Starting, Ends
    <2>5. \A s \in States : Reach(s) => Reach(s)'
      BY <1>1 DEF Reach, Aborting
    <2> QED
      BY <1>1, <2>1, <2>2, <2>3, <2>4, <2>5, TasksKeep, StillKept
  <1>3. CASE active # NoTurn
    <2> DEFINE X == ToSet(pending[active.state])
    <2>1. active.state \in States
      BY <1>3, LoopTyped, Typed
    <2>2. /\ L'.pc \in {"get_mail", "insert"} /\ L'.buf = pending[active.state]
          /\ L'.input = L.input /\ L'.reason = L.reason /\ L'.kind = L.kind
      <3>1. actor \in [Starters -> ActorTypes] /\ "loop" \in Starters /\ L \in ActorTypes
        BY LoopTyped, Typed
      <3>2. PICK pc \in {"get_mail", "insert"} : L' = [L EXCEPT !.pc = pc, !.buf = pending[active.state]]
        BY <1>3, <3>1 DEF GetTurnInput, L
      <3> QED
        BY <3>1, <3>2 DEF ActorTypes
    <2>3. \A s \in States : pending'[s] = pending[s] \/ (s = active.state /\ pending'[s] = <<>>)
      BY <1>3, <2>1, LoopTyped DEF GetTurnInput
    <2>4. HandsInv'
      BY <2>2, LoopTyped DEF HandsInv, KeepInv
    <2>5. StateInv'
      BY <1>1, <2>2, LoopTyped, StateSame DEF KeepInv, Starting, Ends
    <2>6. \A s \in States : Reach(s) => Reach(s)'
      BY <1>1 DEF Reach, Aborting
    <2>7. Settled(X)
      BY <2>2 DEF Settled, HeldAt
    <2>8. \A s \in States : ToSet(pending[s]) \subseteq ToSet(pending'[s]) \cup X
      BY <2>3
    <2>9. ToSet(L.buf) = {}
      BY <1>1, NoItems
    <2> HIDE DEF X
    <2>10. Kept'
      BY <1>1, <2>2, <2>6, <2>7, <2>8, <2>9, LoopMoves
    <2> QED
      BY <1>1, <2>3, <2>4, <2>5, <2>10, TasksKeep
  <1> QED
    BY <1>2, <1>3

\* The mail moves into the hands of the loop.
LEMMA GetMailKeep ==
    ASSUME LoopInvs, GetMail("loop") PROVE KeepInv' /\ Kept'
  <1> DEFINE X == ToSet(mailbox)
  <1>1. L.pc = "get_mail" /\ UNCHANGED <<active, pending, allocated, history, task, fate>>
    BY DEF GetMail, L
  <1>2. /\ L'.pc = "insert" /\ L'.buf = L.buf \o mailbox
        /\ L'.input = L.input /\ L'.reason = L.reason /\ L'.kind = L.kind
    <2>1. actor \in [Starters -> ActorTypes] /\ "loop" \in Starters /\ L \in ActorTypes
      BY LoopTyped, Typed
    <2>2. L' = [L EXCEPT !.pc = "insert", !.buf = L.buf \o mailbox]
      BY <2>1 DEF GetMail, L
    <2> QED
      BY <2>1, <2>2 DEF ActorTypes
  <1>3. HandsInv'
    BY <1>2, LoopTyped DEF HandsInv, KeepInv
  <1>4. StateInv'
    BY <1>1, <1>2, LoopTyped, StateSame DEF KeepInv, Starting, Ends
  <1>5. \A s \in States : Reach(s) => Reach(s)'
    BY <1>1 DEF Reach, Aborting
  <1>6. ToSet(L'.buf) = ToSet(L.buf) \cup X
    BY <1>2, LoopTyped, ConcatItems
  <1>7. Settled(X)
    BY <1>6 DEF Settled, HeldAt
  <1> HIDE DEF X
  <1>8. Kept'
    BY <1>1, <1>2, <1>5, <1>6, <1>7, LoopMoves DEF X
  <1> QED
    BY <1>1, <1>3, <1>4, <1>8, TasksKeep

\* The loop makes sure there is a turn.
LEMMA InsertTurnKeep ==
    ASSUME LoopInvs, InsertTurn("loop") PROVE KeepInv' /\ Kept'
  <1>1. L.pc = "insert" /\ GetOrInsert /\ UNCHANGED <<pending, mailbox, history, task, fate>>
    BY DEF InsertTurn, L
  <1>2. /\ L'.pc = "extend" /\ L'.state = active'.state /\ L'.buf = L.buf
        /\ L'.input = L.input /\ L'.reason = L.reason /\ L'.kind = L.kind
    <2>1. actor \in [Starters -> ActorTypes] /\ "loop" \in Starters /\ L \in ActorTypes
      BY LoopTyped, Typed
    <2>2. L' = [L EXCEPT !.pc = "extend", !.state = active'.state]
      BY <2>1 DEF InsertTurn, L
    <2> QED
      BY <2>1, <2>2 DEF ActorTypes
  <1>3. HandsInv'
    BY <1>2, LoopTyped DEF HandsInv, KeepInv
  <1>4. StateInv' /\ \A s \in States : Reach(s) => Reach(s)'
    <2>1. CASE active = NoTurn
      <3>1. /\ active'.state = allocated + 1 /\ active'.task = None /\ allocated' = allocated + 1
            /\ \A t \in Turns : Ends(t) => task[t].state # active'.state /\ task[t].state \in 1 .. allocated'
        BY <1>1, <2>1, FreshState
      <3>2. \A t \in Turns : Ends(t)' => task'[t].state # active'.state /\ task'[t].state \in 1 .. allocated'
        BY <1>1, <3>1 DEF Ends
      <3>3. active'.state <= allocated'
        BY <3>1, LoopTyped
      <3> QED
        BY <1>1, <1>2, <2>1, <3>1, <3>2, <3>3, StatesSome DEF StateInv, Starting, Reach, Aborting
    <2>2. CASE active # NoTurn
      <3>1. UNCHANGED <<active, allocated, task>>
        BY <1>1, <2>2 DEF GetOrInsert
      <3>2. StateInv /\ L.pc \in Starting
        BY <1>1, LoopTyped DEF KeepInv, Starting
      <3>3. \A t \in Turns : Ends(t)' <=> Ends(t)
        BY <3>1 DEF Ends
      <3> QED
        BY <1>1, <1>2, <3>1, <3>2, <3>3 DEF StateInv, Starting, Reach, Aborting
    <2> QED
      BY <2>1, <2>2
  <1> QED
    BY <1>1, <1>2, <1>3, <1>4, TasksKeep, StillKept

\* The loop gives what it drained to the turn its task will run in, which is not
\* the turn of a task that ends.
LEMMA ExtendPendingKeep ==
    ASSUME LoopInvs, ExtendPending("loop") PROVE KeepInv' /\ Kept'
  <1> DEFINE s == L.state
             X == ToSet(L.buf)
  <1>1. /\ L.pc = "extend" /\ UNCHANGED <<active, allocated, mailbox, history, task, fate>>
        /\ pending' = [pending EXCEPT ![s] = pending[s] \o L.buf]
    BY DEF ExtendPending, L
  <1>2. /\ L'.pc = "install" /\ L'.buf = <<>>
        /\ L'.input = L.input /\ L'.reason = L.reason /\ L'.kind = L.kind
    <2>1. actor \in [Starters -> ActorTypes] /\ "loop" \in Starters /\ L \in ActorTypes
      BY LoopTyped, Typed
    <2>2. L' = [L EXCEPT !.pc = "install", !.buf = <<>>]
      BY <2>1 DEF ExtendPending, L
    <2> QED
      BY <2>1, <2>2 DEF ActorTypes
  <1>3. s \in States /\ s = active.state
    BY <1>1, LoopTyped DEF Inv, TypeInv, LoopInv, KeepInv, StateInv
  <1> HIDE DEF s
  <1>4. /\ \A r \in States \ {s} : pending'[r] = pending[r]
        /\ pending'[s] = pending[s] \o L.buf
    BY <1>1, <1>3, LoopTyped
  <1>5. ToSet(pending'[s]) = ToSet(pending[s]) \cup X
    BY <1>3, <1>4, LoopTyped, ConcatItems
  <1>6. HandsInv'
    BY <1>2, LoopTyped DEF HandsInv, KeepInv
  <1>7. StateInv'
    BY <1>1, <1>2, LoopTyped, StateSame DEF KeepInv, Starting, Ends
  <1>8. BufInv'
    BY <1>1, LoopTyped DEF KeepInv, BufInv
  <1>9. LateInv'
    <2>1. StateInv /\ L.pc \in Starting
      BY <1>1, LoopTyped DEF KeepInv, Starting
    <2>2. \A t \in Turns : Ends(t) => task[t].state # s
      BY <1>3, <2>1 DEF StateInv
    <2>3. ASSUME NEW t \in Turns, task[t].pc \in Ending \ {"flush"}
          PROVE  LET r == task[t].state IN pending'[r] = pending[r] \/ pending'[r] = <<>>
      <3>1. Ends(t)
        BY <2>3 DEF Ends
      <3>2. task[t].state \in States \ {s}
        BY <2>2, <3>1, EndsTyped
      <3> QED
        BY <1>4, <3>2
    <2>4. \A t \in Turns : task'[t].pc \in Ending \ {"flush"} =>
                task[t].pc \in Ending \ {"flush"} /\ task'[t].state = task[t].state
      BY <1>1
    <2> QED
      BY <2>3, <2>4, LoopTyped, LateSame DEF KeepInv
  <1>10. \A r \in States : Reach(r) => Reach(r)'
    BY <1>1 DEF Reach, Aborting
  <1>11. Settled(X)
    <2>1. PICK r \in States : r = s
      BY <1>3
    <2>2. r # None /\ Reach(r)' /\ ToSet(pending'[r]) = ToSet(pending[r]) \cup X
      BY <1>1, <1>3, <1>5, <2>1, StatesSome DEF Reach
    <2> QED
      BY <2>2 DEF Settled, HeldAt
  <1>12. \A r \in States : ToSet(pending[r]) \subseteq ToSet(pending'[r]) \cup X
    BY <1>4, <1>5
  <1> HIDE DEF X
  <1>13. Kept'
    BY <1>1, <1>2, <1>10, <1>11, <1>12, LoopMoves DEF X
  <1> QED
    BY <1>6, <1>7, <1>8, <1>9, <1>13 DEF KeepInv

\* The new task starts with the input of the operation.
LEMMA InstallKeep ==
    ASSUME LoopInvs, Install("loop") PROVE KeepInv' /\ Kept'
  <1> DEFINE t == NewTurn
             X == ToSet(L.input)
             born == [NoTask EXCEPT !.pc = "start", !.kind = L.kind, !.buf = L.input]
             state == IF active = NoTurn THEN allocated + 1 ELSE active.state
  <1>1. L.pc = "install" /\ UNCHANGED <<pending, mailbox, history>> /\ Return("loop") /\ L.buf = <<>>
    BY LoopTyped DEF Install, L, KeepInv, HandsInv
  <1>2. active.task = None
    BY <1>1, LoopTyped DEF Inv, OwnerInv, Starting
  <1>3. t \in Turns /\ t \notin Born
    <2>1. SessionInv /\ "loop" \in Starters /\ actor["loop"].pc \notin {"idle", "stopped"}
      BY <1>1, LoopTyped DEF L
    <2> QED
      BY <2>1, NewTurnUnborn
  <1>4. /\ active' = [state |-> state, task |-> t] /\ task' = [task EXCEPT ![t] = born] /\ fate' = fate
        /\ allocated' = IF active = NoTurn THEN allocated + 1 ELSE allocated
    BY <1>2 DEF Install, L
  <1>5. born.pc = "start" /\ born.kind = L.kind /\ born.buf = L.input
    BY DEF NoTask
  <1>6. task \in [Turns -> TaskTypes] /\ allocated \in Nat
    BY LoopTyped, Typed
  <1> HIDE DEF t, born
  <1>7. task'[t] = born /\ (\A u \in Turns \ {t} : task'[u] = task[u]) /\ task[t].pc = "unborn"
    BY <1>3, <1>4, <1>6 DEF Born
  <1>8. L'.pc \in {"idle", "stopped"} /\ L'.buf = <<>> /\ L'.input = <<>> /\ L'.reason = "none"
    BY <1>1, ReturnLoop
  <1>9. HandsInv'
    BY <1>8 DEF HandsInv
  <1>10. BufInv'
    <2>1. L.kind = "other" => L.input = <<>>
      BY LoopTyped DEF KeepInv, HandsInv
    <2>2. \A u \in Turns \ {t} :
            /\ task'[u].pc \notin {"start", "drain_mail", "record", "flush_record"} => task'[u].buf = <<>>
            /\ task'[u].pc = "start" /\ task'[u].kind = "other" => task'[u].buf = <<>>
      BY <1>7, LoopTyped DEF KeepInv, BufInv
    <2> QED
      BY <1>5, <1>7, <2>1, <2>2 DEF BufInv
  <1>11. \A u \in Turns : /\ Ends(u)' <=> Ends(u)
                          /\ Ends(u) => task'[u] = task[u]
    BY <1>5, <1>7 DEF Ends, Ending
  <1>12. active'.state = state /\ active'.task = t /\ t # None
    BY <1>3, <1>4 DEF Turns, None
  <1>13. StateInv'
    <2>1. StateInv /\ L.pc \in Starting
      BY <1>1, LoopTyped DEF KeepInv, Starting
    <2>2. state <= allocated'
      BY <1>4, <1>6, <2>1 DEF StateInv
    <2>3. \A u \in Turns : Ends(u) => task[u].state \in 1 .. allocated /\ task[u].state # state
      BY <1>6, <2>1 DEF StateInv
    <2>4. \A u \in Turns : Ends(u) => task[u].state \in 1 .. allocated'
      BY <1>4, <1>6, <2>3
    <2>5. L'.pc # "extend"
      BY <1>8
    <2> HIDE DEF state
    <2> QED
      BY <1>11, <1>12, <2>2, <2>3, <2>4, <2>5 DEF StateInv
  <1>14. LateInv'
    BY <1>1, <1>11, LoopTyped, LateSame DEF KeepInv, Ends
  <1>15. \A s \in States : Reach(s) => Reach(s)'
    <2>1. \A u \in Turns : task[u].pc = "flush" => task'[u] = task[u]
      BY <1>11 DEF Ends, Ending
    <2>2. \A s \in States : s = active.state => s = active'.state
      BY <1>12, StatesSome
    <2>3. L.pc \notin Aborting
      BY <1>1 DEF Aborting
    <2> QED
      BY <2>1, <2>2, <2>3 DEF Reach
  <1>16. Settled(X)
    BY <1>3, <1>5, <1>7, HandsSettle
  <1>17. \A u \in Turns : ToSet(task[u].buf) \subseteq ToSet(task'[u].buf) \cup X
    <2>1. task[t].buf = <<>>
      BY <1>3, <1>7, LoopTyped DEF KeepInv, BufInv
    <2> QED
      BY <1>7, <2>1, NoItems
  <1>18. ToSet(L.buf) = {}
    BY <1>1, NoItems
  <1> HIDE DEF X
  <1>19. Carried(X)
    BY <1>1, <1>4, <1>15, <1>17, <1>18 DEF Carried, X
  <1>20. Kept'
    BY <1>16, <1>19, CarriedKept, LoopTyped
  <1> QED
    BY <1>9, <1>10, <1>13, <1>14, <1>20 DEF KeepInv

\* The steps of the loop.
LEMMA LoopStepKeep ==
    ASSUME LoopInvs, NEW a \in Starters, ActorStep(a) PROVE KeepInv' /\ Kept'
  <1>1. a = "loop"
    BY LoopTyped DEF LoopOnly
  <1>2. ~TryStartIdle(a)
    BY <1>1, LoopTyped DEF TryStartIdle, ExtReserve, ExtRecheck, ExtConfirm, ExtClear, ExtExtend,
       Inv, TypeInv, LoopInv, L, Aborting, Starting
  <1> QED
    BY <1>1, <1>2, AbortTakeKeep, AbortKillKeep, AbortEventKeep, AbortClearKeep, MaybeStartKeep, ReserveKeep,
       GetTurnInputKeep, GetMailKeep, InsertTurnKeep, ExtendPendingKeep, InstallKeep
    DEF ActorStep, AbortTurn, StartTask

-----------------------------------------------------------------------------
(* Nothing is lost: clients *)

\* An item is queued for the active turn: that of a running task, so that no
\* task has flushed it, unless the item is injected.
LEMMA QueueKeep ==
    ASSUME LoopInvs, NEW i \in Items, NEW s \in States, s = active.state,
           pending' = [pending EXCEPT ![s] = Append(pending[s], i)],
           fate' = [fate EXCEPT ![i] = "accepted"],
           UNCHANGED <<active, allocated, mailbox, task, actor, history>>,
           i \in Injects \/ active.task # None
    PROVE  KeepInv' /\ Kept'
  <1>1. L' = L
    BY DEF L
  <1>2. HandsInv' /\ BufInv'
    BY <1>1, LoopTyped DEF KeepInv, HandsInv, BufInv
  <1>3. StateInv'
    BY <1>1, LoopTyped, StateSame DEF KeepInv, Ends
  <1>4. /\ ToSet(pending'[s]) = ToSet(pending[s]) \cup {i}
        /\ \A r \in States : r # s => pending'[r] = pending[r]
    <2>1. pending[s] \in Seq(Items) /\ pending'[s] = Append(pending[s], i)
      BY LoopTyped
    <2>2. ToSet(pending'[s]) = ToSet(pending[s]) \cup {i}
      BY <2>1, AppendItems
    <2> QED
      BY <2>2, LoopTyped
  <1>5. LateInv'
    <2> SUFFICES ASSUME NEW t \in Turns, task[t].pc \in Ending \ {"flush"}
                 PROVE  ToSet(pending'[task[t].state]) \subseteq Injects
      BY DEF LateInv
    <2>1. ToSet(pending[task[t].state]) \subseteq Injects /\ task[t].state \in States
      BY LoopTyped, EndsTyped DEF KeepInv, LateInv, Ends
    <2>2. CASE task[t].state = s
      <3>1. active.task = None
        BY <2>2, LoopTyped DEF KeepInv, StateInv, Ends
      <3> QED
        BY <1>4, <2>1, <2>2, <3>1
    <2>3. CASE task[t].state # s
      BY <1>4, <2>1, <2>3
    <2> QED
      BY <2>2, <2>3
  <1>6. \A r : Reach(r) <=> Reach(r)'
    BY <1>1 DEF Reach
  <1>7. s # None /\ Reach(s)'
    BY <1>6, StatesSome DEF Reach
  <1>8. Settled({i})
    BY <1>4, <1>7 DEF Settled, HeldAt
  <1>9. \A r \in States : ToSet(pending[r]) \subseteq ToSet(pending'[r])
    BY <1>4
  <1>10. \A j \in Inputs \cup Mails : fate'[j] = "accepted" => fate[j] = "accepted" \/ j \in {i}
    BY LoopTyped DEF Items
  <1>11. Kept'
    BY <1>1, <1>6, <1>8, <1>9, <1>10, LoopMoves
  <1> QED
    BY <1>2, <1>3, <1>5, <1>11 DEF KeepInv

\* Session::steer_input, and the refusal of input that cannot be steered.
LEMMA SteerKeep ==
    ASSUME LoopInvs, NEW i \in Inputs, SteerActive(i) \/ Refuse(i),
           UNCHANGED <<active, allocated, mailbox, task, history>>
    PROVE  KeepInv' /\ Kept'
  <1>1. i \in Items
    BY DEF Items
  <1>2. CASE SteerActive(i)
    <2>1. active.task # None
      BY <1>2 DEF SteerActive, Steerable
    <2>2. active.state \in States
      BY <2>1, LoopTyped, Typed
    <2>3. /\ pending' = [pending EXCEPT ![active.state] = Append(pending[active.state], i)]
          /\ fate' = [fate EXCEPT ![i] = "accepted"] /\ UNCHANGED actor
      BY <1>2, <2>2, LoopTyped DEF SteerActive
    <2> QED
      BY <1>1, <2>1, <2>2, <2>3, QueueKeep
  <1>3. CASE Refuse(i)
    <2>1. UNCHANGED <<pending, actor>> /\ L' = L
      BY <1>3 DEF Refuse, L
    <2>2. HandsInv'
      BY <2>1, LoopTyped DEF KeepInv, HandsInv
    <2>3. StateInv'
      BY <2>1, LoopTyped, StateSame DEF KeepInv, Ends
    <2>4. \A j \in Inputs \cup Mails : fate'[j] = "accepted" => fate[j] = "accepted"
      BY <1>1, <1>3, LoopTyped DEF Refuse, Items
    <2>5. \A r : Reach(r) => Reach(r)'
      BY <2>1 DEF Reach
    <2> QED
      BY <2>1, <2>2, <2>3, <2>4, <2>5, TasksKeep, StillKept
  <1> QED
    BY <1>2, <1>3

\* An injected item goes into the active turn, or into the conversation.
LEMMA InjectKeep ==
    ASSUME LoopInvs, NEW i \in Injects, Inject(i) PROVE KeepInv' /\ Kept'
  <1>1. i \in Items
    BY DEF Items
  <1>2. CASE active # NoTurn
    <2>1. active.state \in States
      BY <1>2, LoopTyped, Typed
    <2>2. /\ pending' = [pending EXCEPT ![active.state] = Append(pending[active.state], i)]
          /\ fate' = [fate EXCEPT ![i] = "accepted"]
          /\ UNCHANGED <<active, allocated, mailbox, task, actor, history>>
      BY <1>2, <2>1, LoopTyped DEF Inject
    <2> QED
      BY <1>1, <2>1, <2>2, QueueKeep
  <1>3. CASE active = NoTurn
    <2>1. /\ history' = Append(history, i) /\ fate' = [fate EXCEPT ![i] = "accepted"]
          /\ UNCHANGED <<active, allocated, mailbox, task, actor, pending>> /\ L' = L
      BY <1>3 DEF Inject, L
    <2>2. HandsInv'
      BY <2>1, LoopTyped DEF KeepInv, HandsInv
    <2>3. StateInv'
      BY <2>1, LoopTyped, StateSame DEF KeepInv, Ends
    <2>4. \A j \in Inputs \cup Mails : fate'[j] = "accepted" => fate[j] = "accepted"
      BY <1>1, <2>1, LoopTyped, SetsAssumption DEF Items
    <2>5. \A r : Reach(r) => Reach(r)'
      BY <2>1 DEF Reach
    <2>6. ToSet(history') = ToSet(history) \cup {i}
      BY <1>1, <2>1, LoopTyped, AppendItems
    <2>7. Carried({}) /\ Settled({})
      BY <2>1, <2>4, <2>5, <2>6 DEF Carried, Settled
    <2>8. Kept'
      BY <2>7, CarriedKept, LoopTyped
    <2> QED
      BY <2>1, <2>2, <2>3, <2>8, TasksKeep
  <1> QED
    BY <1>2, <1>3

\* The idle loop takes an operation.
LEMMA BeginKeep ==
    ASSUME LoopInvs, LoopIdle, NEW r, Begin("loop", r), r.pc \in {"abort", "maybe"}, r.buf = <<>>,
           r.input # <<>> => r.reason = "Replaced" /\ r.kind = "regular",
           r.pc = "maybe" => r.reason # "Replaced",
           UNCHANGED <<active, allocated, pending, task>>
    PROVE  /\ KeepInv' /\ L' = r /\ L.buf = <<>> /\ L.input = <<>>
           /\ \A s : Reach(s) => Reach(s)'
  <1>1. L' = r
    <2>1. actor \in [Starters -> ActorTypes] /\ "loop" \in Starters
      BY LoopTyped, Typed
    <2> QED
      BY <2>1 DEF Begin, L
  <1>2. L.pc = "idle"
    BY DEF LoopIdle, L
  <1>3. L.buf = <<>> /\ L.input = <<>>
    BY <1>2, LoopTyped DEF KeepInv, HandsInv
  <1>4. HandsInv'
    BY <1>1 DEF HandsInv
  <1>5. StateInv'
    BY <1>1, <1>2, LoopTyped, StateSame DEF KeepInv, Ends, Starting
  <1>6. \A s : Reach(s) => Reach(s)'
    BY <1>2 DEF Reach, Aborting
  <1> QED
    BY <1>1, <1>3, <1>4, <1>5, <1>6, TasksKeep

\* Compaction, review, interrupt and shutdown bring no item.
LEMMA CommandKeep ==
    ASSUME LoopInvs, StartOther \/ Interrupt \/ Shutdown PROVE KeepInv' /\ Kept'
  <1>1. PICK r : /\ Begin("loop", r) /\ r.pc = "abort" /\ r.buf = <<>> /\ r.input = <<>>
    <2>1. CASE StartOther
      <3> DEFINE r == [IdleActor EXCEPT !.pc = "abort", !.reason = "Replaced", !.kind = "other"]
      <3>1. Begin("loop", r) /\ r.pc = "abort" /\ r.buf = <<>> /\ r.input = <<>>
        BY <2>1 DEF StartOther, IdleActor
      <3> QED
        BY <3>1
    <2>2. ASSUME NEW e \in BOOLEAN, AbortAll(e)
          PROVE  \E r : Begin("loop", r) /\ r.pc = "abort" /\ r.buf = <<>> /\ r.input = <<>>
      <3> DEFINE r == [IdleActor EXCEPT !.pc = "abort", !.reason = "Interrupted", !.exiting = e]
      <3>1. Begin("loop", r) /\ r.pc = "abort" /\ r.buf = <<>> /\ r.input = <<>>
        BY <2>2 DEF AbortAll, IdleActor
      <3> QED
        BY <3>1
    <2> QED
      BY <2>1, <2>2 DEF Interrupt, Shutdown
  <1>2. LoopIdle /\ UNCHANGED <<active, allocated, pending, task, mailbox, history, fate>>
    BY DEF StartOther, Interrupt, Shutdown, AbortAll
  <1>3. KeepInv' /\ L' = r /\ L.buf = <<>> /\ L.input = <<>> /\ \A s : Reach(s) => Reach(s)'
    BY <1>1, <1>2, BeginKeep
  <1> QED
    BY <1>1, <1>2, <1>3, StillKept

\* User input is steered, refused, or starts a turn.
LEMMA UserInputKeep ==
    ASSUME LoopInvs, NEW i \in Inputs, UserInput(i) PROVE KeepInv' /\ Kept'
  <1>1. LoopIdle /\ UNCHANGED <<active, allocated, mailbox, task, history>>
    BY DEF UserInput
  <1>2. CASE SteerActive(i) \/ Refuse(i)
    BY <1>1, <1>2, SteerKeep
  <1>3. CASE ~(SteerActive(i) \/ Refuse(i))
    <2>1. /\ Begin("loop", [IdleActor EXCEPT !.pc = "abort", !.reason = "Replaced", !.input = <<i>>])
          /\ fate' = [fate EXCEPT ![i] = "accepted"] /\ UNCHANGED pending
      BY <1>3 DEF UserInput
    <2>2. PICK r : /\ Begin("loop", r) /\ r.pc = "abort" /\ r.buf = <<>> /\ r.input = <<i>>
                   /\ r.reason = "Replaced" /\ r.kind = "regular"
      <3> DEFINE r == [IdleActor EXCEPT !.pc = "abort", !.reason = "Replaced", !.input = <<i>>]
      <3>1. /\ Begin("loop", r) /\ r.pc = "abort" /\ r.buf = <<>> /\ r.input = <<i>>
            /\ r.reason = "Replaced" /\ r.kind = "regular"
        BY <2>1 DEF IdleActor
      <3> QED
        BY <3>1
    <2>3. KeepInv' /\ L' = r /\ L.buf = <<>> /\ L.input = <<>> /\ \A s : Reach(s) => Reach(s)'
      BY <1>1, <2>1, <2>2, BeginKeep
    <2>4. i \in Items
      BY DEF Items
    <2>5. i \in ToSet(L'.input)
      BY <2>2, <2>3, <2>4, OneItem
    <2>6. Settled({i})
      BY <2>5 DEF Settled, HeldAt
    <2>7. \A j \in Inputs \cup Mails : fate'[j] = "accepted" => fate[j] = "accepted" \/ j \in {i}
      BY <2>1, LoopTyped DEF Items
    <2>8. ToSet(L.buf) = {} /\ ToSet(L.input) = {}
      BY <2>3, NoItems
    <2>9. Kept'
      BY <1>1, <2>1, <2>3, <2>6, <2>7, <2>8, LoopMoves
    <2> QED
      BY <2>3, <2>9
  <1> QED
    BY <1>2, <1>3

\* Mail is queued, and may wake the loop.
LEMMA MailKeep ==
    ASSUME LoopInvs, NEW m \in Mails, Mail(m) PROVE KeepInv' /\ Kept'
  <1>1. /\ LoopIdle /\ UNCHANGED <<active, allocated, pending, task, history>>
        /\ mailbox' = Append(mailbox, m) /\ fate' = [fate EXCEPT ![m] = "accepted"] /\ m \in Items
    BY DEF Mail, Items
  <1>2. ToSet(mailbox') = ToSet(mailbox) \cup {m}
    BY <1>1, LoopTyped, AppendItems
  <1>3. Settled({m})
    BY <1>2 DEF Settled, HeldAt
  <1>4. \A j \in Inputs \cup Mails : fate'[j] = "accepted" => fate[j] = "accepted" \/ j \in {m}
    BY <1>1, LoopTyped DEF Items
  <1>5. CASE m \in Triggers
    <2>1. PICK r : /\ Begin("loop", r) /\ r.pc = "maybe" /\ r.buf = <<>> /\ r.input = <<>>
                   /\ r.reason = "none"
      <3> DEFINE r == [IdleActor EXCEPT !.pc = "maybe"]
      <3>1. Begin("loop", r) /\ r.pc = "maybe" /\ r.buf = <<>> /\ r.input = <<>> /\ r.reason = "none"
        BY <1>5 DEF Mail, IdleActor
      <3> QED
        BY <3>1
    <2>2. KeepInv' /\ L' = r /\ L.buf = <<>> /\ L.input = <<>> /\ \A s : Reach(s) => Reach(s)'
      BY <1>1, <2>1, BeginKeep
    <2>3. Kept'
      BY <1>1, <1>2, <1>3, <1>4, <2>1, <2>2, LoopMoves
    <2> QED
      BY <2>2, <2>3
  <1>6. CASE m \notin Triggers
    <2>1. UNCHANGED actor /\ L' = L
      BY <1>6 DEF Mail, L
    <2>2. HandsInv'
      BY <2>1, LoopTyped DEF KeepInv, HandsInv
    <2>3. StateInv'
      BY <1>1, <2>1, LoopTyped, StateSame DEF KeepInv, Ends
    <2>4. \A r : Reach(r) => Reach(r)'
      BY <1>1, <2>1 DEF Reach
    <2>5. Kept'
      BY <1>1, <1>2, <1>3, <1>4, <2>1, <2>4, LoopMoves
    <2> QED
      BY <1>1, <2>2, <2>3, <2>5, TasksKeep
  <1> QED
    BY <1>5, <1>6

\* The steps of clients.
LEMMA ClientKeep ==
    ASSUME LoopInvs, Client PROVE KeepInv' /\ Kept'
  <1>1. ASSUME NEW i \in Inputs, Steer(i) PROVE KeepInv' /\ Kept'
    BY <1>1, SteerKeep DEF Steer
  <1>2. \A i \in Injects : ~ExtCall(i)
    BY LoopTyped DEF ExtCall, LoopOnly
  <1>3. \A t \in Turns : ~GuardianAbort(t)
    BY LoopTyped DEF GuardianAbort, LoopOnly
  <1> QED
    BY <1>1, <1>2, <1>3, UserInputKeep, InjectKeep, MailKeep, CommandKeep DEF Client

-----------------------------------------------------------------------------
\* A new session holds nothing and owes nothing.
LEMMA InitKeep ==
    ASSUME LoopOnly, Init PROVE KeepInv /\ Kept
  <1>1. L = IdleActor /\ active = NoTurn /\ allocated = 0 /\ task = [t \in Turns |-> NoTask]
    BY DEF Init, LoopOnly, L
  <1>2. \A t \in Turns : ~Ends(t) /\ task[t].buf = <<>>
    BY <1>1 DEF Ends, Ending, NoTask
  <1>3. HandsInv /\ BufInv
    BY <1>1, <1>2 DEF HandsInv, BufInv, IdleActor
  <1>4. StateInv
    BY <1>1, <1>2 DEF StateInv, IdleActor, Starting, NoTurn, None
  <1>5. LateInv
    BY <1>2 DEF LateInv, Ends
  <1>6. Kept
    BY DEF Kept, Init, Items
  <1> QED
    BY <1>3, <1>4, <1>5, <1>6 DEF KeepInv

\* Every step keeps what the session accepted.
LEMMA NextKeep ==
    ASSUME LoopInvs, [Next]_vars PROVE KeepInv' /\ Kept'
  <1>1. CASE UNCHANGED vars
    <2>1. /\ UNCHANGED <<active, allocated, pending, mailbox, history, fate, task>> /\ L' = L
      BY <1>1 DEF vars, L
    <2>2. HandsInv'
      BY <2>1, LoopTyped DEF KeepInv, HandsInv
    <2>3. StateInv'
      BY <2>1, LoopTyped, StateSame DEF KeepInv, Ends
    <2>4. \A r : Reach(r) => Reach(r)'
      BY <2>1 DEF Reach
    <2> QED
      BY <2>1, <2>2, <2>3, <2>4, TasksKeep, StillKept
  <1> QED
    BY <1>1, ClientKeep, LoopStepKeep, TaskKeep DEF Next

\* The invariants of a loop-driven session hold together.
LEMMA LoopInvariant ==
    ASSUME LoopOnly PROVE Spec => []LoopInvs
  <1>1. Init => LoopInvs
    BY NothingAllocated, InitInv, InitKeep DEF LoopInvs
  <1>2. LoopInvs /\ [Next]_vars => LoopInvs'
    BY NextTyped, NextInv, NextKeep DEF LoopInvs, LoopOnly
  <1> QED
    BY <1>1, <1>2, PTL DEF Spec

\* With the loop alone starting turns, a user input or a mail that was accepted
\* is recorded or on its way, whatever turn it was steered into or found, unless
\* a hook blocked it or the turn it was queued for was aborted or failed; also
\* while other components inject items.
THEOREM AcceptedKept ==
    ASSUME LoopOnly PROVE Spec => []Kept
  <1>1. LoopInvs => Kept
    BY DEF LoopInvs
  <1> QED
    BY <1>1, LoopInvariant, PTL

\* So nothing is lost where nothing is injected: on_task_finished flushes what
\* was steered into the turn before it clears it, and nothing can be steered
\* into it after that.
THEOREM NothingIsLost ==
    ASSUME LoopOnly, Injects = {} PROVE Spec => []NothingLost
  <1>1. Kept => NothingLost
    BY DEF Kept, NothingLost, Items
  <1> QED
    BY <1>1, AcceptedKept, PTL
=============================================================================
