# TLA+ models of codex-rs

This directory models the parts of `codex-rs` in which several tasks share
state: the turn lifecycle of a session, the registry that caps sub-agents, the
app server's request scheduling, the readiness flag, the memory jobs that
processes share through a database, the actor of a code-mode cell, the
recovery of a remote process over broken connections, and the file that keeps
the history of a thread. TLC checks the modules
on small instances and TLAPS proves the main safety properties for every value
of the constants. Paths below are relative to `codex-rs/`.

## 1. Inventory

| Part | State it keeps | Operations | What is hard about it | Correct when |
|---|---|---|---|---|
| Readiness flag (`utils/readiness`) | atomic flag, token mutex, watch channel, token counter | `is_ready`, `subscribe`, `mark_ready`, `wait_ready` | flag, mutex and channel are separate accesses; lock timeout; dropped futures | one mark wins, subscriptions are never bypassed, waiters wake |
| Session turn lifecycle (`core/src/tasks`, `core/src/session`, `core/src/state/turn.rs`) | active turn (turn state and task), pending input and delivery phase per turn state, mailbox, spawned task, history | user input, steering, injection, mail, interrupt, compact/review, shutdown, idle start by an extension, guardian abort, `run_turn`, `on_task_finished` | `start_task`, `abort_all_tasks` and `on_task_finished` each drop the active-turn lock several times; an aborted task runs on for a grace period | one running task, one terminal event per turn, no item lost or recorded twice, every turn ends |
| Agent registry (`core/src/agent/registry.rs`, `agent/control`) | slot counter, agent tree, nicknames used, resets | reserve, name, create, commit, drop, release, unload | counter and tree are updated in separate steps by concurrent callers; any step of a spawn may fail | limit respected, slots neither lost nor returned twice, one owner per path, drawn nicknames distinct |
| Request serialization (`app-server/src/request_serialization.rs`, `connection_rpc_gate.rs`) | queue per key, drain tasks, per-connection gates | enqueue, drain, gate, close connection, shut down | a request arriving as the drain task leaves; requests of a closed connection in a queue shared with others; a cleanup that times out | requests of a key run in order with writers alone, nothing runs after cleanup, everything ends |
| Execution limiter and residency (`core/src/agent/control`) | running turns, resident threads in LRU order | check capacity, take guard, touch, unload | check and use are separate steps | capacity and residency bounds, no unload of a busy thread |
| Code-mode cells (`code-mode/src/cell_actor`, `runtime`, `session_runtime`) | cell state, observer, held output, callbacks, the V8 thread and its channels | observe, terminate, shut down, yield, pending frontier, tool calls and notifications, result, panic | handle, actor, callbacks and V8 thread run at once; a terminate races the commit of a result; clients drop their futures | one outcome, no output lost or repeated, every request answered, every cell closed |
| Unified exec store (`core/src/unified_exec`) | process table, reserved ids | allocate, store, prune, release | pruning at the limit | no process in use pruned, ids unique |
| Exec-server client (`exec-server/src/client_recovery.rs`, `client.rs`, `local_process.rs`, `server/session_registry.rs`) | server: events, retained output, attachment of the session, write ids; client: ordered stream, connection status, candidate | output, exit, close, notify, detach, expire, attach, read, recover, install, write | notifications out of order or lost; output evicted; the two ends notice a break at different times; a write retried | events published once, in order, without a gap; a failure is reported; a write reaches the process once |
| Memory jobs (`state/src/runtime/memories.rs`, `memories/write`) | job rows with leases and watermarks, outputs with marks, the consolidation row | claim, succeed, fail, delete, clear, pollute, lock, heartbeat | a lease expires under its worker; a process dies; a clock read before a transaction | one valid lease per job, cap respected, success monotone, deleted memories stay deleted |
| Rest of the state database (`state/src/runtime`) | threads, goals, logs | single statements | | |
| App-server threads and outgoing messages | subscriptions, callbacks of server requests | subscribe, unsubscribe, answer, cancel | connections close while requests are out | callbacks answered once |
| Rollout recorder and thread store (`rollout/src/recorder.rs`, `compression.rs`, `thread-store/src/local`) | command channel, buffered items, file handle; plain and compressed file | append, flush, persist, shut down, resume, update metadata, compress, restore | writes that fail half way and are retried; the worker removes a file others have open; a process dies between two file operations | what was acknowledged is on disk once, in order and readable; no history is hidden |
| Tool orchestration and network approval (`core/src/tools`) | pending approvals, per-host decisions | ask, decide, retry | several calls wait on one decision | one prompt per host, waiters answered |
| Login, file watcher, transport, TUI, CLI, configuration, MCP, sandboxing, exec policy, network proxy | see `PROJECT.json` | | mostly input/output or pure evaluation | |

How they meet: the app server's handlers call into a session's submission
channel (`handlers.rs`), the loop starts and aborts tasks through `tasks/mod.rs`,
tasks call the agent control, which spawns sessions through the registry and the
thread manager and delivers mail into another session's `InputQueue`. The
readiness flag gates tool calls inside a turn. The modules do not share state
with each other: each takes the calls of its neighbours as inputs.

## 2. Modules

| Module | Models | Checked by | Proved in |
|---|---|---|---|
| `Readiness` | the readiness flag | `readiness` | `ReadinessProofs` |
| `SessionTurns` | the turn lifecycle of one session | `session_*` | `SessionTurnsProofs` |
| `AgentRegistry` | the registry and its callers | `registry_*` | `AgentRegistryProofs` |
| `SerializedAccess` | what request scheduling promises (abstract) | through `Serialized` | `RequestSerializationProofs` |
| `RequestSerialization` | queues, drain tasks, gates, shutdown | `requests` | `RequestSerializationProofs` |
| `MemoryJobs` | memory extraction jobs and the consolidation lock | `memory_stage1`, `memory_lock` | `MemoryJobsProofs` |
| `CellActor` | one code-mode cell | `cell_actor` | `CellActorProofs` |
| `ExecRecovery` | a remote process and the recovery of its stream | `exec_recovery` | `ExecRecoveryProofs` |
| `RolloutFile` | the rollout file of a thread, its writers and its compression | `rollout`, `rollout_read` | `RolloutFileProofs` |

`MC*` modules give constants their values for TLC. In every module a step is the
code between two points where another task can run: one critical section, one
atomic access, or what happens between two awaits. Definitions whose comment
starts with "Mutant:" stand in front of the definition they distort; no
specification uses them.

### Readiness

`ready`, `next_id`, `tokens` with `lock`, and the watch channel (`tx` its value,
`rx` the receivers) are the fields of `ReadinessFlag`; `pc`, `call` and `arg` say
where each task is. `issued`, `marks` and `early` are history: tokens handed out,
marks answered `true`, tasks whose receiver existed when the flag flipped.
`is_ready` is `IsReadyCall`, `IsReadyTryLock`, `IsReadyDrop`, `IsReadySend`,
`IsReadyReload`; `subscribe` and `mark_ready` are split at the lock; `wait_ready`
is `is_ready` followed by `WaitSubscribe`, `WaitBorrow`, `WaitChanged`. The token
counter wraps at `2 * HalfRange` as the `i32` does at 2^32. The watch channel is
external: as in tokio, `send` changes the value only if a receiver exists.

### SessionTurns

`active` is `Session::active_turn`. A `TurnState` is an object shared by
reference, so turn states are numbered and `pending` and `phase` are indexed by
them; what a task or a starter holds by reference is a number in its record.
`task[t]` is the spawned future of turn `t`, `actor[a]` what a starter (the
submission loop, an extension, the guardian) is executing. `history`, `terminal`
and `fate` record what became of items and turns; `asserts` whether the
`debug_assert!` of `start_task` held.

* Loop: `UserInput`, `StartOther` (compact and review), `Interrupt`, `Shutdown`,
  `Mail`; the abort they cause is `AbortTake` (take the turn and cancel),
  `AbortKill` (grace period, then `handle.abort()`), `AbortEvent`, `AbortClear`.
* `start_task`: `GetTurnInput`, `GetMail`, `InsertTurn`, `ExtendPending`,
  `Install`, one per lock. `maybe_start_turn_for_pending_work`: `MaybeStart`,
  `Reserve`.
* `try_start_turn_if_idle`: `ExtCall`, `ExtReserve`, `ExtRecheck`, `ExtConfirm`,
  `ExtClear`, `ExtExtend`.
* The task: `TaskStart` to `TaskExit` are `RegularTask::run` around `run_turn`
  (drain, record, model request, look again); `TaskFinish` the cancel check,
  `FinishTake`, `FinishFlush`, `FinishRecord`, `FinishEvent`, `FinishRelease`
  are `on_task_finished`.
* `Steer` and `Inject` come from other tasks at any moment.

Abstractions: an item is a name. A model request ends nondeterministically as a
tool call, a final answer, or something else that may or may not need a
follow-up; compaction, stop hooks, prompt hooks and failures before the first
request are nondeterministic too (`TaskStartFails`, `RecordHead`). The retry
after an invalid image (`turn.rs` 421-430) is a request that needs a follow-up.
`has_pending_input` is atomic. The 100 ms grace period ends whenever the task has
not finished; `handle.abort()` takes effect at once. The three rechecks of
`try_start_turn_if_idle` are one step, as is recording an injected item when no
turn is active. User shell tasks, thread rollback and realtime conversations
are left out.

### AgentRegistry

`tree`, `used` and `resets` are `ActiveAgents`, `total` the atomic counter,
`loaded` the thread manager's map; `path` and `nick` what was stored for each
thread, `called` the nickname in each entry of the tree. The registry is in memory
and starts empty, the store does not: `Stored` are threads that an earlier session or
another tree left, under any path and nickname, and `ResumeCall` takes any thread of
the store. Each caller executes a spawn (`SpawnCall` or `SpawnUnlimited`), a resume
or a close; reserving a slot is `ReserveLoad` and `ReserveCas` (a spurious
failure of the weak exchange is a retry), then `RegisterRoot`, `ReservePath`,
`ReserveNickname`, `CreateSpawned`/`CreateResumed`/`CreateFails`, and `Commit`, or
`DropPath` and `Decrement` when the reservation is dropped. `Release` and
`Decrement` are the two halves of `release_spawned_thread`. `Unload` is the app
server's `remove_thread`. The last task message of an entry is left out.

A nickname is a base name with the ordinals behind it, and `Format` appends one: "X
the 2nd" drawn in the first round from a role's candidates and "X" drawn in the second
are the same value, as they are the same string. `Pools` are the candidate lists (the
default one and those configured for roles); the names are not otherwise looked into.

### RequestSerialization and SerializedAccess

`Receive` is the server loop taking a message (`Enqueue` or `Spawn`), `Pop` and
`Joined` the drain task, `Admit` and `HandlerEnds` the gate around a handler,
`ConnectionClosed`, `Cleanup`, `ShutdownBegins`, `ShutdownGate` and
`ShutdownThreads` the closing of connections and of the server. A cleanup may
stop waiting at any time (`CONNECTION_RPC_DRAIN_TIMEOUT`) and is then remembered
in `timedOut`. The early return of `drain` for a missing queue
(`request_serialization.rs` 173-175) cannot be taken, by `OneDrainer`. Handlers
are opaque and do not panic; one that did would end the drain task of its key
(line 199) and leave the later requests of the key waiting.

`SerializedAccess` is the promise: a request starts when every earlier request
of its key that conflicts with it has ended, and only while its connection is
open. The refinement mapping reads `queued` and `spawned` as waiting, `finished`
and `skipped` as ended, and the closed gates as closed connections.

### MemoryJobs

`job`, `out` and `global` are the rows of `jobs` and `stage1_outputs`, `mode` and
`updated` the columns of `threads` that the pipeline reads. `worker[w]` is one
process going through `start_memories_startup_task`, `claims` the extraction
tasks it runs. A step is one SQL statement or one transaction; NULL is -1, which
compares the way the SQL conditions treat NULL. Ownership tokens are numbered in
the order of the claims; `wiped` remembers how many there were when the rows of a
thread were last deleted.

* Startup: `Prune`, `ScanThreads`, then per thread `SkipUpToDate`, `TryClaim` or
  `ClaimRefused`, and `EndScan`. `TryClaim` takes the time it works with from any
  moment since the statement before: the code reads the clock before
  `BEGIN IMMEDIATE` may wait for the database.
* Extraction: `JobSucceeded`, `JobSucceededNoOutput`, `JobFailed`, or `ReportLost`
  when the reporting statement itself fails.
* Consolidation: `ClaimLock`/`LockRefused`, `SelectInputs`, `SyncWorkspace`,
  `AgentHeartbeat`, `AgentCompleted`, `ConfirmOwnership`, `ResetBaseline`,
  `LockSucceeded`, or `StepFails` followed by `LockFailed` and
  `LockFailedIfUnowned`.
* Around it: `ThreadUpdated`, the three statements of a pollution report,
  `DeleteMemory` and `DeleteThreadRow` (two databases), `ClearMemoryData`,
  `Crash`, `Tick`.

Abstractions: the clock is one and does not go back; ranking, scan limits and age
windows pick an arbitrary subset; the several reads of the selection are one
step; the two stages share one lease length and one retry delay; the shutdown of
the consolidation agent and the usage counts of outputs are left out. The second
statement of a failure report (`mark_global_phase2_job_failed_if_unowned`) can
match no row the code produces, since a running row always has a token.

### CellActor

`phase`, `responder` and `event` are `CellState`; `observer`, `content`, `timer`,
`ready`, `paused` and `termination` the locals of `run_cell`; `commands` its
channel; `events`, `rtCommands` and `rtControl` the channels between the actor and
the V8 thread, whose position is `rt`; `notifications` and `tools` count running
callbacks; `client[c]` is a call of `observe` or `terminate`. `pc` says where the
actor is once it has left its loop. `received` and `told` are history: items the
actor took from the script and items sent to observers.

* Calls: `Observe`, `SendObserve`, `DropObservation`, `RequestTermination`,
  `BeginShutdown`.
* V8 thread: `Started`, `ScriptOutputs`, `ScriptCalls`, `ScriptEnds`, `ThreadPanics`,
  `TakeRuntimeCommand`, `NextRuntimeCommand` (pausing at a frontier).
* Callbacks: `NotificationEnds`, `ToolEnds`.
* Actor: one action per branch of its `select!` and per event: `Cancelled`,
  `ReceiveCommand`, `TimerFires`, `ReceiveStarted` and the other `Receive*`; then the
  drains, `CommitCompletion`, `DeliverCompletion`, `FinishTermination`, `Tail_`,
  `Closed`.

Abstractions: the `biased` order of the `select!` is not used, because a branch may
become ready while an earlier one is polled; items are numbered; JavaScript
timers and the ids of pending tool calls are left out, and so is the first yield
kept for the initial observation, which `run_cell` never creates. The V8 thread is
gone when it has sent its `Result` (or panicked): the actor never joins it, so
`NothingLeftOpen` says nothing of the instant at which the thread itself exits. A value sent to a
receiver that is dropped before it reads counts as told.

### ExecRecovery

`log` is every event of the process by sequence number, `retained` the output the
server still holds, `unsent` the events whose notification is on its way out of the
task that recorded them; `attached` and `session` are the session's attachment and
its expiry. `wire[c]` holds the notifications on connection `c`; `broken` and
`closed` are the connections that are gone and those whose client side knows.
`published` and `pending` are the stream the client rebuilds, `status`, `current`,
`candidate` and `pc` its connection and the recovery task.

* Server: `StreamOutput`, `WatchExit`, `FinishOutputStream`, `MaybeEmitClosed`,
  `ForgetProcess`, `Notify`, `Detach`, `Expire`, `ExecWrite`, `ExecWriteRefused`.
* Network: `Break` (a first part of what is on its way still arrives), `Notice`.
* Client stream: `HandleNotification`, `HandleDisconnected`.
* Recovery: `Connect`, `Attach`/`AlreadyAttached`/`SessionUnknown`, `RecoveryRead`,
  `RecoverEvents`/`RecoveryImpossible`, `TerminateAnswered`, `CandidateLost`,
  `InstallRecoveredClient`/`NotInstalled`, `RecoveryTimesOut`.
* A write: `WriteCall`, `WriteAnswered`, `WriteLost` (retry with the same id),
  `WriteFails`.

Abstractions: one process and one write; the retained bytes are a number of
chunks; the retry interval and the backoff are left out, the deadline may pass at
any wait. Starting a process while recovery begins (`begin_process_start`,
`wait_for_process_starts`), signals, HTTP body streams, the replay log of local
subscribers and `sandbox_denied` are not modelled.

### RolloutFile

`file` is the contents of every file by number, `plain` and `zst` the files that
bear the names `.jsonl` and `.jsonl.zst`: a file that lost its name can still be
written to. A file is the sequence of its writes, each a complete line, one that
misses its newline, or less; `Readable` is what `load_rollout_items` makes of it.
`cold` says that the plain file is seven days old. `rec` is the recorder (its entry in
`live_recorders`, the command channel, the buffer and the command in work), `io[a]`
where the recorder or a caller is in a file operation and which file it has open,
`worker` the compression worker. `received` and `sure` are history: what the recorder
took, and what an answer Ok covers.

* Calls: `Call`, `RecordCanonicalItems`, `SendBarrier`, `SendRefused`, `RemoveRecorder`;
  a metadata update goes on with `ReadSessionMeta` and `AppendPatch`, past the recorder.
* Writer: `ReceiveItems`, `ReceiveBarrier`, `EnsureWriterOpen`, `WriteRolloutItem`,
  `WriterAnswers`; `WriteFails` and `OperationFails` lead to `AttemptFailed`, the retry or
  the error.
* Restoring the plain file, by either: `PlainExists`, `CompressedExists`, `Decompress`,
  `Link`, `RemoveCompressed`, then `OpenExisting` or `EnsureWriterOpen`.
* Worker: `FindCold`, `SkipCompressed`, `Encode`, `Compare`, `PersistCopy`,
  `CompareAgain`, `RemovePlain`, `WorkerDies`.
* `Create`, `Resume`, `Crash`, `Age`. No operation lasts the seven days of `Age`.

Abstractions: one worker, as its run marker is meant to ensure; a batch of items is
one item; copying a file takes its contents at one moment, which the comparisons that
follow make equivalent; a fragment never splits a character (such a line would make
`load_rollout_items` fail as a whole). The rows of the state database that are written
after an append, archiving, discarding a recorder and listing are left out.

## 3. Runs

| Run | Instance | Shows |
|---|---|---|
| `readiness` | 3 tasks, counter of 4 values, 2 tokens; fair | one mark answered true, no subscription bypassed, and a waiter with an early receiver returns |
| `session_loop` | loop only; 1 input, 1 trigger mail, 3 turns, 12 turn states, 1 command, 1 follow-up; fair | one runner, one terminal event, nothing lost; every turn ends, accepted input is recorded or accounted for |
| `session_all` | loop, extension, guardian; 1 input, mail and injected item, 2 turns, 8 turn states | what survives all three starters: an item is recorded at most once and a refused one is not queued as well (`OneFate`) |
| `registry_paths` | 3 callers, 2 threads of which 1 is stored already, 2 paths, limit 2 | limit, exact slots, exclusive paths |
| `registry_names` | 2 callers, 3 threads of which 1 is stored already, with no nickname or one that the pool has in its first or second round; one name, 2 resets, agents without path, no limit | no slot returned twice; nicknames given by this registry distinct over pool resets |
| `requests` | writer and two readers of one key, an unscoped request, 2 connections; fair | refinement of `SerializedAccess`; quiet after cleanup, with threads drained after handlers; requests and shutdown end |
| `memory_stage1` | 2 processes, 2 threads, cap 1, lease 1 s, clock to 1 s, 2 claims | one valid lease, cap, late reports change nothing, success monotone, deletion final |
| `memory_lock` | 2 processes, 1 thread, lease 1 s, 3 claims, pollution, clearing | one valid lock, watermark covers the outputs, marks of one run |
| `cell_actor` | 2 observers, 2 terminators, 1 item, 1 callback; fair | one outcome, output conserved, no mutual wait, nothing left open; terminations, yields and shutdown answered |
| `exec_recovery` | 2 outputs of which 1 is retained, exit and close, 2 connections, 1 write | events in order and complete, or a failure; the write once |
| `rollout` | 2 callers, 2 recorders one after the other, 2 failing operations, 1 run of the worker, channel of 1; new, plain and compressed thread | acknowledged items written once and in order, no ack dropped, no history hidden but by the three steps named in `ReadersKeepHistory` |
| `rollout_read` (violation) | 2 appends, 1 failing operation, 1 run of the worker | an append is acknowledged although its line cannot be read |

Why these bounds: each instance has one actor more than the shortest race it is
about. Three turns let a turn start, be replaced and be followed by another while
the first is in its grace period; twelve turn states are four per turn, the most
one operation allocates, so the bound never cuts an operation short (`RoomForTurn`
only keeps a new one from beginning). Three callers and a limit of two make a
reservation fail, and make two callers race for the last slot while a third
releases one. One key is enough for the queues since keys share nothing but the
map; two connections are needed for a queue shared by an open and a closed one.
A lease of one second and a clock of two instants make every lease run out while
its holder works and another process claims the job, with the old time or the
new; two claims are a holder and the one that replaces it, and three in
`memory_lock` an extraction whose memory two locks then compete for. One item and
one callback are enough for a cell since both are handled one at a time: what
matters is which of a yield, a frontier, a terminate and a result comes first (the
invariants were also run with two of each). Two connections are one that breaks
and one that replaces it and may break too; with two outputs and one retained the
gap that an exit leaves can be told from one that eviction left (the run was
repeated with three connections and nothing retained).

`TypeOK` of `Readiness`, `SessionTurns` and `AgentRegistry`, `ReadyHasNoTokens`, `NoLostBroadcast`
and `NoTaskOverwritten` are proved (section 4) and in no run. `TypeOK` of the other
modules, and `OneDrainer`, can be added to the cfg of their runs, where they hold; the
runs keep the properties that say more.

Symmetry: `registry_paths` and `registry_names` use the permutations of callers, of stored
and of other threads, and of paths, the memory runs those of processes and threads, `rollout` that of callers; runs that
check liveness use none. Deadlock is not checked: every
one of these systems may come to rest.

Fairness: `FairSpec` asks weak fairness of every task that is inside an
operation, because tokio polls runnable tasks; in `RequestSerialization` also of
`HandlerEnds`, so handlers are assumed to return. In `CellActor` the actor and the
start of the V8 thread are fair; the script and the callbacks only once they were
told to stop, by `terminate_execution` and by the cancellation that a host is to
forward (`types.rs:36`): until then a script may loop and a callback hang. Memory
jobs, recovery and the rollout file are checked for safety alone. Nothing is asked of clients,
signals, timeouts or aborts. Weak fairness of a model request is part of
`TaskStep`: a request ends, by success, error or timeout. `MaxFollowUps` bounds
the requests of a turn, and with it failures before the first request, which the
code would retry for as long as input is pending.

### Where the code and its documents differ

* `rollout_read`: "Wait for the local writer so SQLite never gets ahead of JSONL for
  accepted live appends" (`live_writer.rs:127`). A write that stops in the middle of a
  line (a full disk) is retried behind the fragment, on a file that was opened anew but
  not brought to the start of a line; the answer is Ok, and the merged line does not
  parse. The same happens to the first line after a crash that left a fragment.

Three have a configuration of their own, outside the table of runs (`tlc -config X.cfg M`
shows the counterexample):

* `MCRolloutCompress.cfg` of `MCRolloutFile`, `AckedReadable`: the sentence above is broken
  without any failure. The compression worker (a
  feature under development, off by default) removes the plain file after its last
  comparison (`compression.rs:651`), while a resumed recorder has it open; what is
  appended goes to a file without a name. And a recorder that reopens just after the
  removal creates an empty plain file, which hides the compressed one:
  `ReadersKeepHistory` says what such steps may hide.
* `MCReadinessWait.cfg` of `MCReadiness`, `WaitReturns`: "Asynchronously wait until the flag
  becomes ready" (`utils/readiness/src/lib.rs:43`). `wait_ready` subscribes to the channel
  (line 175) after `is_ready` answered; the one broadcast may come in between, the flag is
  not read again, and the waiter waits for ever. `ParkedWaiterWakes` is what holds: a
  receiver that existed when the flag flipped is served.
* `MCRegistryResume.cfg` of `MCAgentRegistry`, `NicknamesUnique`: "Optional random unique
  nickname" (`protocol/src/protocol.rs:3053`). `reserve_agent_nickname` takes the stored
  nickname of a resumed agent as it is (`core/src/agent/registry.rs:222`). A registry is
  new after a restart and knows no names of earlier sessions, so an agent spawned
  meanwhile may have the same one. `NicknamesDistinct` is what holds: the agents that this
  registry named have different nicknames.

Three more are reproduced by changing a configuration:

* `start_task` asserts `debug_assert!(turn.task.is_none())` (`tasks/mod.rs:370`).
  With `"ext"` added to `Starters` in `MCSessionLoop.cfg` and `NoTaskOverwritten` to its
  invariants, the latter fails:
  an extension and the loop are both inside `start_task` and the later finds the
  earlier's task. The same race lets two tasks run at once, and lets items
  accepted by `try_start_turn_if_idle` go to a turn state taken away after its
  reservation was confirmed.
* `inject_no_new_turn` "injects items into active work, or records them"
  (`session/inject.rs:142`). With an injected item (`Injects = {x1}`) in
  `MCSessionLoop.cfg`, `NothingLost` fails: `inject_if_running` queues into a turn that
  has no task any more and whose input was already flushed.
* `maybe_start_turn_for_pending_work` "starts a regular turn when the session is
  idle and pending work is waiting" (`tasks/mod.rs:453`). `TriggerMailWakes` fails
  under `FairSpec` with two turns: the end of a turn does not look for trigger mail
  that came after the last look.

Seen in the models and without a run of their own: `is_ready` makes a flag ready
that nobody subscribed to, against its doc (`utils/readiness/src/lib.rs:21`) and
in accord with the test at line 269; `shutdown` aborts as Interrupted, which
starts a turn for queued trigger mail; an agent without a path that is unloaded
and resumed is filed over its own entry, and one slot is never returned
(`SlotsExact` therefore is checked with paths, `SlotsCovered` without); with a
guardian abort, a task past its cancel check takes the task of the turn that
replaced it. A claim made after memories were deleted or cleared may coexist with
a lease granted before (`ExtractionExclusive` and `ConsolidationExclusive` say so),
and since a thread's row goes after its memory, a startup in between may extract
it again. A process suspended past its lease may still edit the memory workspace
while another consolidates; `memories/README.md` promises that only one does. A
notification that hangs after the end of a script holds up an observation with a
yield time. `exec-server/README.md` has `process/closed` sent after the process is
removed; the code keeps it for another `EXITED_PROCESS_RETENTION`.

## 4. Proofs

All proofs are for every value of the constants under the named assumptions of
the modules.

* `ReadinessProofs`: `TypeCorrect`, `MarkOnce`, `SubscriptionsGate`,
  `ReadyEmptiesTokens`, `BroadcastReaches`. The invariant says who holds the
  mutex (`LockInv`), what the holder knows about flag and tokens (`SectionInv`),
  that every token handed out is outstanding until one is redeemed (`TokenInv`),
  and that receivers belong to parked tasks (`ReceiverInv`). `SingleMark` alone is
  not inductive: that a second marker is turned away needs the first three.
* `SessionTurnsProofs`. Whoever starts and aborts turns (any `Starters`):
  * `TypeCorrect`. `SessionInv` adds to the types that the operands of a step exist and
    that the turn states and turns which the operations under way may still need fit the
    bounds (`RoomInv`), so no bound cuts an operation short.
  * `ItemsGoOneWay`: no item is recorded twice, and one that its caller got back is
    queued nowhere (`OneFate`). `Placed` says that an item is at most once at one of the
    places it can be at (history, mailbox, the queue of a turn state, the hands of a task
    or of an operation), and at none if it was not sent or was refused. Every step drops
    queues, moves one to another place, or adds an item that was at none.

  For sessions whose turns are started by the loop alone (`LoopOnly`), which is needed:
  with an extension that starts turns `NoTaskOverwritten` fails, and accepted items are
  lost:
  * `NeverOverwrites`, `OneRunner`, `EndsOnce`. The invariant ties the task in
    a turn to its owner, which is the active turn or the abort that took it out
    (`OwnerInv`), says when a terminal event may still be sent (`TerminalInv`), and
    that the loop never runs out of turns or turn states inside an operation
    (`BoundInv`, `LoopInv`). Steps are grouped by what they can
    disturb: inside a task, on the queues, and those that begin an operation.
  * `AcceptedKept`: an accepted user input or mail is recorded or still held, whatever is
    injected beside it. `NothingLost` is not inductive: a turn that ends drops its
    queue, so one needs that the queue holds nothing accepted by then (`LateInv`), that
    the turn state an ending task has flushed is not the one a later task uses
    (`StateInv`), and that hands are empty where a step lets go of them (`HandsInv`,
    `BufInv`).
  * `NothingIsLost`: `NothingLost` where nothing is injected (`Injects = {}`). An item
    injected between the flush of a turn and its release is lost (section 3), so
    this hypothesis cannot be dropped.
* `AgentRegistryProofs`: `TypeCorrect`, `NoDoubleRelease`, `LimitHolds`,
  `PathsExclusive`, `DrawnNicknamesDistinct`, `CounterExact`. `TreeInv` keeps the root and
  the placeholders under the keys they belong to, so that a release gives back a
  slot only for an agent that holds one; `LimitInv` bounds a limited counter;
  `SlotsCovered` and `PathHeld` are inductive with them, and that the counter is a
  natural number follows. `DrawnNicknamesDistinct` is about the agents that this registry
  named. `NicknamesDistinct` alone is not inductive, since a drawn name is first in the
  hands of a call, then stored with its thread, and may come back with a resume when
  its round is over: `NickInv` gives every such name one owner (`Held`), and says that
  its round was reached and that a name of the present round is among the used ones
  (`Known`). A name tells its round if the candidates bear no ordinals of their own
  (`PlainPools`), which holds of `agent_names.txt` and is an assumption of the theorem:
  a role that lists both "X" and "X the 2nd" would break it. `CounterExact` holds on the condition that every spawned agent has a
  path (`NoPath \notin SpawnPaths`), which is needed: an agent
  without a path that is unloaded and resumed is filed over its own entry. `PathInv`
  says that no call that may still commit is without a path.
  Cardinalities are handled by lemmas on adding and removing one element.
* `RequestSerializationProofs`: `TypeCorrect`, `KeysDrained`, `CleanedUp`,
  `AccessSerialized`, `ConflictsExcluded`, `HandlersExclusive`. The refinement needs
  that a queue is in order of arrival (`QueueInv`), that a key is in the map exactly
  while it has one drain task (`DrainInv`), that what was popped and has not ended is
  in that task's batch and does not conflict within it (`BatchInv`), and that the
  requests of a key leave its queue in the order they came (`FifoInv`); `GateInv` says
  that a connection that is being closed accepts no request any more.
  `ConflictsExcluded` is about the abstract specification alone: a request that runs
  has waited for every earlier conflict (`Waited`), and of two requests that were sent
  one is earlier. `HandlersExclusive` combines it with the refinement.
* `MemoryJobsProofs`: `TypeCorrect`, `ExtractionsExcluded`, `CapKept`,
  `OutputsOfLastSuccess`, `DeletedStaysDeleted`, `RowCoversOutputs`,
  `ConsolidationsExcluded`, `MarksAreOfLastRun` and the action property
  `SuccessesAdvance`. Everything rests on two facts: a token is issued to one claim
  (`TokenInv`), and whoever has a lease in force that no deletion took away owns the
  row (`LeaseInv`, `LockInv`), so that a conditional update by token is made by the
  worker that holds it. `JobInv` says that a running job extracts a snapshot newer
  than anything known of its thread; `MarkInv` relates marks, watermarks and the last
  finished run. The clock a worker reads before its transaction may be old: the cap
  holds because a claim counts more rows as running with an old clock than with
  the present one.
* `ExecRecoveryProofs`: `TypeCorrect`, `StreamOrdered`, `NothingForgotten`,
  `ConnectionServed`, `WrittenOnce`. `LinkInv` says that a connection in use or on
  trial is read until its end is seen and has the session until it is broken,
  `ResponseInv` what an answer to a read covers, `StreamInv` that what is published or
  held back for order agrees with the server's log, and `CoverInv` that whatever the
  subscribers miss, unless they were told of a failure, is still to be sent, on the
  wire of the connection in use, held back, or covered by the answer to the read of
  the recovery. `WriteInv` ties the writes passed on to what the server remembers.
* `CellActorProofs`: `TypeCorrect`, `OutcomeUnique`, `OutputConserved`,
  `ScriptDriven`, `ClosedIsClean`. The parts: events still in the channel were
  counted when they were made (`CountInv`, from which the bounds of the counters
  follow); phase, place of the actor and end of the thread go together, and a
  tombstone means that the actor has left its loop (`PhaseInv`, `CloseInv`); whoever
  waits is known to the actor (`WaitInv`); what is told is the event of the phase
  (`OutcomeInv`); sent, held and received items (`ContentInv`); exactly one of
  announcement, flag and answer stands for a pause of the thread (`PauseInv`), and a
  frontier observer finds a thread that is going to look at its commands
  (`FrontierInv`).
* `RolloutFileProofs`: `TypeCorrect`, `AckedAreWritten`, `WaitersAnswered` and the action
  property `ReadersSeeAll`. The state
  of the disk is seen through the set of items that have a line in some file
  (`Written`): creating, copying and compressing files leaves it as it is, a failed
  write too, and a complete write adds one item. `TextInv` says that no file and no
  copy in anybody's hands has two lines of an item, or lines against the order of the
  channel, or a line that is in no file; `PlaceInv` where the recorder is in a file
  operation at each stage of its life; `CallInv` that a command that is waited for is
  in the channel or in the hands of the writer exactly once, and that the call that
  shut the writer down is alone with its recorder; `ItemInv` that an item is sent once,
  that the buffer is the end of what was received, and that what was received is in
  the buffer or written. `AckedWritten` alone is not inductive: that a retry writes no
  line twice needs that what is in the buffer has no line anywhere, and that an answer
  Ok covers what was received needs that the buffer is empty when it is given.
  `ReadersSeeAll` says that no step makes a reader lose a line but for three: the worker
  removes a file that grew after its last look (what it compressed stays readable), a
  writer creates a file over a compressed one, and a write runs into an unfinished line
  (the finished lines stay). It rests on who may touch which of the two forms: the worker
  runs over a cold plain file only, and never while anybody restores one (`TurnInv`);
  nobody writes to a compressed file, and what is about to be linked is what is in it
  (`NameInv`); the worker's copy is the contents that it saw when it first looked, of
  which the present contents are a continuation (`CopyInv`). Removing either form then
  leaves a reader the same lines, unless the file grew after the last comparison.

The assumptions on constants are of four kinds: sets that are compared by
cardinality are finite (`FiniteAssumption`, `IsFiniteSet(Threads)`,
`IsFiniteSet(Requests)`), bounds are natural numbers, model values that stand for
"none" are not members of the sets they are added to (`NoneAssumption`,
`NoProcAssumption`), and named subsets are subsets. TLC evaluates them in the runs.
Where a proof needs a least element of a nonempty set of numbers it takes it from the
well-foundedness of the naturals; where it needs that two sets have the same
size it gives a bijection.

Only model-checked: liveness under fairness, in every module, which is outside this
prover's reach. Every invariant, action property and refinement that a passing run
checks is also a theorem. `AckedReadable`,
`WaitReturns` and `NicknamesUnique` are false of the code and have none.

## 5. Plan

1. Done: `Readiness`, `SessionTurns`, `AgentRegistry`, `RequestSerialization` with
   `SerializedAccess`, `MemoryJobs`, `CellActor`, `ExecRecovery`, `RolloutFile`, with
   their runs and proofs.
2. Proofs: done for all that the passing runs check, but for liveness. Left: the exact conditions
   under which a session with an extension that starts turns still loses nothing.
3. Next modules: execution limiter and residency of agents; the unified exec store
   at its limit; app-server subscriptions and callbacks; process starts that race the recovery of a connection.
4. Not planned: TUI, CLI, configuration, model providers, MCP, sandboxing and
   transport, which are input and output or operating-system mechanisms from the
   point of view of the state modelled here.

Coverage: the repository has some 690,000 lines of implementation, most of it user
interface, protocol types, configuration and platform code without state that
several tasks share. The modules here cover a small share of those lines, chosen
for their concurrency; a share comparable to the whole is not a goal of this
project.
