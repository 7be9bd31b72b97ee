---------------------------- MODULE MemoryJobs ----------------------------
(* The memory pipeline: every start of a root session is a worker that leases
   rollout extraction jobs, one row of table jobs per thread, runs them, and
   then takes the global consolidation lock, one more row
   (state/src/runtime/memories.rs, memories/write/src/phase1.rs, phase2.rs).
   Workers are processes that share nothing but the database, so a step is one
   SQL statement or one transaction; a worker may die between any two.

   Times are seconds of one clock. NULL is -1, which compares with times and
   watermarks the way the SQL conditions treat NULL. *)
EXTENDS Integers, FiniteSets, FiniteSetsExt

CONSTANTS
    Workers,        \* processes that start a root session
    Consolidators,  \* those that live long enough to reach phase 2
    Threads,        \* the rows of table threads
    Pollutable,     \* threads that use external context
    Deletable,      \* threads that are deleted
    Resettable,     \* whether a client resets all memories
    LeaseSeconds,   \* JOB_LEASE_SECONDS of both stages
    RetryDelay,     \* JOB_RETRY_DELAY_SECONDS of both stages
    Cooldown,       \* PHASE2_SUCCESS_COOLDOWN_SECONDS
    Retries,        \* DEFAULT_RETRY_REMAINING
    MaxRunning,     \* max_rollouts_per_startup, the cap on running jobs
    MaxTime,        \* bound: the clock stops here
    MaxTokens,      \* bound: claims granted
    MaxWatermark    \* bound: pollution is not reported beyond this watermark

ASSUME ConstantsAssumption ==
    /\ IsFiniteSet(Threads)
    /\ Consolidators \subseteq Workers
    /\ Pollutable \subseteq Threads /\ Deletable \subseteq Threads
    /\ Resettable \in BOOLEAN
    /\ LeaseSeconds \in Nat /\ RetryDelay \in Nat /\ Cooldown \in Nat
    /\ Retries \in Nat \ {0} /\ MaxRunning \in Nat
    /\ MaxTime \in Nat /\ MaxTokens \in Nat /\ MaxWatermark \in Nat

VARIABLES
    clock,     \* Utc::now().timestamp()
    issued,    \* ownership tokens handed out: token n is the n-th claim
    updated,   \* threads.updated_at
    mode,      \* threads.memory_mode, or "deleted" when the row is gone
    deleting,  \* threads whose deletion has begun
    job,       \* the memory_stage1 rows of jobs
    out,       \* the rows of stage1_outputs
    global,    \* the memory_consolidate_global row of jobs
    worker,    \* what each process is doing
    claims,    \* the extraction jobs running in the processes
    polluter,  \* reports of pollution on their way, per thread
    wiped      \* history: tokens issued when a row was last deleted

rows == <<job, out, global, issued, wiped>>
env == <<clock, updated, mode, deleting, polluter>>
vars == <<env, rows, worker, claims>>

Null == -1
Times == 0 .. MaxTime
Tokens == 1 .. MaxTokens

\* Absent rows.
NoJob == [status |-> "none", token |-> 0, lease |-> Null, retry_at |-> Null,
          retries |-> 0, input |-> Null, success |-> Null]
NoOutput == [source |-> Null, selected |-> Null, by |-> 0, token |-> 0]
NoGlobal == [status |-> "none", token |-> 0, lease |-> Null, retry_at |-> Null,
             retries |-> 0, input |-> Null, success |-> Null,
             finished |-> Null, failed |-> FALSE]

\* A process that has not started, and one that reports no pollution.
Idle == [pc |-> "idle", items |-> {}, at |-> Null, got |-> 0,
         token |-> 0, mark |-> Null, chosen |-> {}, lease |-> Null]
Silent == [pc |-> "none", at |-> Null]

Init ==
    /\ clock = 0 /\ issued = 0
    /\ updated = [t \in Threads |-> 0]
    /\ mode = [t \in Threads |-> "enabled"] /\ deleting = {}
    /\ job = [t \in Threads |-> NoJob]
    /\ out = [t \in Threads |-> NoOutput]
    /\ global = NoGlobal
    /\ worker = [w \in Workers |-> Idle]
    /\ claims = {}
    /\ polluter = [t \in Threads |-> Silent]
    /\ wiped = [jobs |-> [t \in Threads |-> 0], global |-> 0]
-----------------------------------------------------------------------------
(* Around the pipeline. *)

Tick ==
    /\ clock < MaxTime
    /\ clock' = clock + 1
    /\ UNCHANGED <<rows, updated, mode, deleting, polluter, worker, claims>>

\* A turn of a thread moves its updated_at.
ThreadUpdated(t) ==
    /\ mode[t] # "deleted" /\ updated[t] < clock
    /\ updated' = [updated EXCEPT ![t] = clock]
    /\ UNCHANGED <<rows, clock, mode, deleting, polluter, worker, claims>>

\* Mutant: a running consolidation is left alone altogether.
EnqueuedUnlessRunning(g, watermark) ==
    IF g.status = "running" THEN g ELSE
    [g EXCEPT !.status = "pending", !.retries = Retries, !.input = Max({@, watermark}),
              !.success = Max({@, 0})]

\* The upsert that enqueues consolidation or advances its watermark.
Enqueued(g, watermark) ==
    IF g.status = "none"
    THEN [NoGlobal EXCEPT !.status = "pending", !.retries = Retries,
                          !.input = watermark, !.success = 0]
    ELSE [g EXCEPT !.status = IF @ = "running" THEN @ ELSE "pending",
                   !.retry_at = IF g.status = "running" THEN @ ELSE Null,
                   !.retries = Max({@, Retries}),
                   !.input = IF watermark > @ THEN watermark ELSE @ + 1]

\* mark_thread_memory_mode_polluted: three statements over two databases.
PolluteRead(t) ==
    /\ t \in Pollutable /\ polluter[t].pc = "none" /\ mode[t] # "deleted"
    /\ global.input < MaxWatermark
    /\ polluter' = [polluter EXCEPT ![t] =
         [pc |-> IF out[t].selected # Null THEN "selected" ELSE "other", at |-> clock]]
    /\ UNCHANGED <<rows, clock, updated, mode, deleting, worker, claims>>

PolluteMode(t) ==
    /\ polluter[t].pc \in {"selected", "other"}
    /\ mode' = [mode EXCEPT ![t] = IF @ = "enabled" THEN "polluted" ELSE @]
    /\ polluter' = [polluter EXCEPT ![t] =
         IF @.pc = "selected" THEN [@ EXCEPT !.pc = "enqueue"] ELSE Silent]
    /\ UNCHANGED <<rows, clock, updated, deleting, worker, claims>>

PolluteEnqueue(t) ==
    /\ polluter[t].pc = "enqueue"
    /\ global' = Enqueued(global, polluter[t].at)
    /\ polluter' = [polluter EXCEPT ![t] = Silent]
    /\ UNCHANGED <<clock, updated, mode, deleting, job, out, issued, wiped, worker, claims>>

\* Mutant: the job row survives the deletion of the output.
DeleteMemoryKeepsJob(t) ==
    /\ t \in Deletable /\ mode[t] # "deleted" /\ global.input < MaxWatermark
    /\ out' = [out EXCEPT ![t] = NoOutput]
    /\ global' = IF out[t].selected # Null THEN Enqueued(global, clock) ELSE global
    /\ wiped' = [wiped EXCEPT !.jobs[t] = issued]
    /\ deleting' = deleting \cup {t}
    /\ UNCHANGED <<clock, updated, mode, polluter, job, issued, worker, claims>>

\* delete_thread_memory, and the deletion of the thread's row that follows it
\* in another database. The first is repeated when the second fails.
DeleteMemory(t) ==
    /\ t \in Deletable /\ mode[t] # "deleted" /\ global.input < MaxWatermark
    /\ out' = [out EXCEPT ![t] = NoOutput]
    /\ job' = [job EXCEPT ![t] = NoJob]
    /\ global' = IF out[t].selected # Null THEN Enqueued(global, clock) ELSE global
    /\ wiped' = [wiped EXCEPT !.jobs[t] = issued]
    /\ deleting' = deleting \cup {t}
    /\ UNCHANGED <<clock, updated, mode, polluter, issued, worker, claims>>

DeleteThreadRow(t) ==
    /\ t \in deleting
    /\ mode' = [mode EXCEPT ![t] = "deleted"]
    /\ deleting' = deleting \ {t}
    /\ UNCHANGED <<rows, clock, updated, polluter, worker, claims>>

\* clear_memory_data, one transaction.
ClearMemoryData ==
    /\ Resettable
    /\ global # NoGlobal \/ job # [t \in Threads |-> NoJob]
    /\ out' = [t \in Threads |-> NoOutput]
    /\ job' = [t \in Threads |-> NoJob]
    /\ global' = NoGlobal
    /\ wiped' = [jobs |-> [t \in Threads |-> issued], global |-> issued]
    /\ UNCHANGED <<env, issued, worker, claims>>

\* The process of a worker dies; its rows stay as they are.
Crash(w) ==
    /\ worker[w].pc # "idle"
    /\ worker' = [worker EXCEPT ![w] = Idle]
    /\ claims' = {c \in claims : c.worker # w}
    /\ UNCHANGED <<env, rows>>
-----------------------------------------------------------------------------
(* Phase 1: prune, scan the threads, claim, extract. *)

\* prune_stage1_outputs_for_retention, with which a startup begins: any
\* unselected outputs may be stale. With rate limits used up it ends there.
Prune(w) ==
    /\ worker[w].pc = "idle"
    /\ \E stale \in (SUBSET {t \in Threads : out[t] # NoOutput /\ out[t].selected = Null}) \ {{}} :
         out' = [t \in Threads |-> IF t \in stale THEN NoOutput ELSE out[t]]
    /\ UNCHANGED <<env, job, global, issued, wiped, worker, claims>>

\* The query over table threads; scan limit and age window pick a subset.
ScanThreads(w) ==
    /\ worker[w].pc = "idle"
    /\ \E picked \in SUBSET {t \in Threads : mode[t] = "enabled"} :
         worker' = [worker EXCEPT ![w] = [Idle EXCEPT !.pc = "scan", !.at = clock,
                      !.items = {<<t, updated[t]>> : t \in picked}]]
    /\ UNCHANGED <<env, rows, claims>>

\* Mutant: the success watermark is not consulted.
UpToDateByOutput(t, source) == out[t].source >= source

UpToDate(t, source) == out[t].source >= source \/ job[t].success >= source

\* stage1_source_needs_update is false: the item is passed over.
SkipUpToDate(w, item) ==
    /\ worker[w].pc = "scan" /\ item \in worker[w].items
    /\ worker[w].got < MaxRunning
    /\ UpToDate(item[1], item[2])
    /\ worker' = [worker EXCEPT ![w].items = @ \ {item}, ![w].at = clock]
    /\ UNCHANGED <<env, rows, claims>>

\* Jobs that count against the cap at time at.
RunningAt(at) == {t \in Threads : job[t].status = "running" /\ job[t].lease > at}

\* Mutant: nobody counts the running jobs.
ClaimableUncapped(t, source, at) ==
    LET newer == source > job[t].input IN
    /\ job[t].status # "running" \/ job[t].lease <= at
    /\ job[t].retry_at <= at \/ newer
    /\ job[t].retries > 0 \/ newer

\* Mutant: a newer snapshot is claimed from under a valid lease.
ClaimableNewer(t, source, at) ==
    LET newer == source > job[t].input IN
    /\ Cardinality(RunningAt(at) \ {t}) < MaxRunning
    /\ job[t].status # "running" \/ job[t].lease <= at \/ newer
    /\ job[t].retry_at <= at \/ newer
    /\ job[t].retries > 0 \/ newer

\* The conditions of the claiming upsert, its insert arm (NoJob) included.
Claimable(t, source, at) ==
    LET newer == source > job[t].input IN
    /\ Cardinality(RunningAt(at)) < MaxRunning
    /\ job[t].status # "running" \/ job[t].lease <= at
    /\ job[t].retry_at <= at \/ newer
    /\ job[t].retries > 0 \/ newer

ClaimedJob(t, source, at) ==
    [job[t] EXCEPT !.status = "running", !.token = issued + 1,
                   !.lease = at + LeaseSeconds, !.retry_at = Null,
                   !.retries = IF source > job[t].input THEN Retries ELSE @,
                   !.input = source]

\* try_claim_stage1_job, one transaction. It works with a time read before
\* the transaction could begin.
TryClaim(w, item, at) ==
    LET t == item[1]
        source == item[2]
    IN
    /\ worker[w].pc = "scan" /\ item \in worker[w].items
    /\ worker[w].got < MaxRunning
    /\ at \in worker[w].at .. clock
    /\ ~UpToDate(t, source) /\ Claimable(t, source, at)
    /\ issued < MaxTokens
    /\ issued' = issued + 1
    /\ job' = [job EXCEPT ![t] = ClaimedJob(t, source, at)]
    /\ claims' = claims \cup {[token |-> issued + 1, worker |-> w, thread |-> t,
                               source |-> source, lease |-> at + LeaseSeconds]}
    /\ worker' = [worker EXCEPT ![w].items = @ \ {item}, ![w].got = @ + 1, ![w].at = clock]
    /\ UNCHANGED <<env, out, global, wiped>>

ClaimRefused(w, item, at) ==
    /\ worker[w].pc = "scan" /\ item \in worker[w].items
    /\ worker[w].got < MaxRunning
    /\ at \in worker[w].at .. clock
    /\ UpToDate(item[1], item[2]) \/ ~Claimable(item[1], item[2], at)
    /\ worker' = [worker EXCEPT ![w].items = @ \ {item}, ![w].at = clock]
    /\ UNCHANGED <<env, rows, claims>>

\* Every item seen or max_claimed reached: run_jobs starts.
EndScan(w) ==
    /\ worker[w].pc = "scan"
    /\ worker[w].items = {} \/ worker[w].got >= MaxRunning
    /\ worker' = [worker EXCEPT ![w] = [Idle EXCEPT !.pc = "jobs"]]
    /\ UNCHANGED <<env, rows, claims>>

\* The update of a finished job matches the owned running row only.
Owns(c) == job[c.thread].status = "running" /\ job[c.thread].token = c.token

SucceededJob(t) == [job[t] EXCEPT !.status = "done", !.lease = Null, !.success = job[t].input]

\* What a finished job leaves behind in its process.
JobEnds(c) ==
    /\ c \in claims /\ worker[c.worker].pc = "jobs"
    /\ claims' = claims \ {c}
    /\ UNCHANGED <<env, issued, wiped, worker>>

\* mark_stage1_job_succeeded, one transaction.
JobSucceeded(c) ==
    /\ JobEnds(c)
    /\ IF ~Owns(c) THEN UNCHANGED <<job, out, global>> ELSE
         /\ job' = [job EXCEPT ![c.thread] = SucceededJob(c.thread)]
         /\ out' = [out EXCEPT ![c.thread] =
                      IF c.source >= @.source
                      THEN [@ EXCEPT !.source = c.source, !.token = c.token] ELSE @]
         /\ global' = Enqueued(global, c.source)

\* Mutant: an extraction without output keeps the older memory.
JobSucceededKeepsOutput(c) ==
    /\ JobEnds(c)
    /\ job' = IF Owns(c) THEN [job EXCEPT ![c.thread] = SucceededJob(c.thread)] ELSE job
    /\ UNCHANGED <<out, global>>

\* mark_stage1_job_succeeded_no_output, one transaction.
JobSucceededNoOutput(c) ==
    /\ JobEnds(c)
    /\ IF ~Owns(c) THEN UNCHANGED <<job, out, global>> ELSE
         /\ job' = [job EXCEPT ![c.thread] = SucceededJob(c.thread)]
         /\ out' = [out EXCEPT ![c.thread] = NoOutput]
         /\ global' = IF out[c.thread] # NoOutput
                      THEN Enqueued(global, job[c.thread].input) ELSE global

\* mark_stage1_job_failed, one statement.
JobFailed(c) ==
    /\ JobEnds(c)
    /\ job' = IF ~Owns(c) THEN job ELSE
         [job EXCEPT ![c.thread].status = "error", ![c.thread].lease = Null,
                     ![c.thread].retry_at = clock + RetryDelay, ![c.thread].retries = @ - 1]
    /\ UNCHANGED <<out, global>>

\* The statement that reports a job's end fails, and nobody repeats it.
ReportLost(c) == JobEnds(c) /\ UNCHANGED <<job, out, global>>

\* Phase 1 returns when its jobs have ended.
Phase1Done(w) ==
    /\ worker[w].pc = "jobs"
    /\ \A c \in claims : c.worker # w
    /\ worker' = [worker EXCEPT ![w] =
         IF w \in Consolidators THEN [Idle EXCEPT !.pc = "lock", !.at = clock] ELSE Idle]
    /\ UNCHANGED <<env, rows, claims>>
-----------------------------------------------------------------------------
(* Phase 2: one consolidation at a time, over the row global. *)

\* Mutant: a running row is taken over whatever its lease says.
LockUnavailableIdle(at) ==
    \/ global.retry_at > at
    \/ ~global.failed /\ global.finished # Null /\ global.finished > at - Cooldown

\* The reasons for which try_claim_global_phase2_job hands the lock to nobody.
LockUnavailable(at) ==
    \/ global.retry_at > at
    \/ global.status = "running" /\ global.lease > at
    \/ ~global.failed /\ global.finished # Null /\ global.finished > at - Cooldown

LockedRow(at) ==
    [(IF global.status = "none"
      THEN [NoGlobal EXCEPT !.retries = Retries, !.input = 0, !.success = 0]
      ELSE global)
     EXCEPT !.status = "running", !.token = issued + 1, !.lease = at + LeaseSeconds,
            !.retry_at = Null, !.finished = Null, !.failed = FALSE]

\* try_claim_global_phase2_job, one transaction.
ClaimLock(w, at) ==
    /\ worker[w].pc = "lock" /\ at \in worker[w].at .. clock
    /\ ~LockUnavailable(at)
    /\ issued < MaxTokens
    /\ issued' = issued + 1
    /\ global' = LockedRow(at)
    /\ worker' = [worker EXCEPT ![w] = [Idle EXCEPT !.pc = "select", !.token = issued + 1,
                      !.mark = LockedRow(at).input, !.lease = at + LeaseSeconds]]
    /\ UNCHANGED <<env, job, out, wiped, claims>>

LockRefused(w, at) ==
    /\ worker[w].pc = "lock" /\ at \in worker[w].at .. clock
    /\ LockUnavailable(at)
    /\ worker' = [worker EXCEPT ![w] = Idle]
    /\ UNCHANGED <<env, rows, claims>>

\* get_phase2_input_selection and get_watermark: the ranking and the retention
\* window pick some outputs of enabled threads.
SelectInputs(w) ==
    /\ worker[w].pc = "select"
    /\ \E picked \in SUBSET {t \in Threads : mode[t] = "enabled" /\ out[t] # NoOutput} :
         worker' = [worker EXCEPT ![w].pc = "sync",
              ![w].chosen = {<<t, out[t].source>> : t \in picked},
              ![w].mark = Max({@} \cup {out[t].source : t \in picked})]
    /\ UNCHANGED <<env, rows, claims>>

\* The inputs are written to the workspace; without changes there is nothing
\* to consolidate, otherwise the agent is spawned.
SyncWorkspace(w) ==
    /\ worker[w].pc = "sync"
    /\ \E next \in {"succeed", "agent"} : worker' = [worker EXCEPT ![w].pc = next]
    /\ UNCHANGED <<env, rows, claims>>

OwnsLock(w) == global.status = "running" /\ global.token = worker[w].token

\* heartbeat_global_phase2_job, and where its answers lead.
Heartbeat(w, owned, lost) ==
    /\ IF OwnsLock(w)
       THEN /\ global' = [global EXCEPT !.lease = clock + LeaseSeconds]
            /\ worker' = [worker EXCEPT ![w] = [@ EXCEPT !.pc = owned,
                                               !.lease = clock + LeaseSeconds]]
       ELSE /\ worker' = [worker EXCEPT ![w] = lost]
            /\ UNCHANGED global
    /\ UNCHANGED <<env, job, out, issued, wiped, claims>>

\* loop_agent: heartbeats while the agent runs; a lost lock ends the loop.
AgentHeartbeat(w) ==
    /\ worker[w].pc = "agent"
    /\ Heartbeat(w, "agent", [worker[w] EXCEPT !.pc = "fail"])

AgentCompleted(w) ==
    /\ worker[w].pc = "agent"
    /\ worker' = [worker EXCEPT ![w].pc = "confirm"]
    /\ UNCHANGED <<env, rows, claims>>

\* The lock is confirmed before the baseline is touched.
ConfirmOwnership(w) ==
    /\ worker[w].pc = "confirm"
    /\ Heartbeat(w, "reset", Idle)

\* reset_memory_workspace_baseline succeeds.
ResetBaseline(w) ==
    /\ worker[w].pc = "reset"
    /\ worker' = [worker EXCEPT ![w].pc = "succeed"]
    /\ UNCHANGED <<env, rows, claims>>

\* A step on the way fails: the workspace, the selection, the agent, or a
\* heartbeat that the database did not answer.
StepFails(w) ==
    /\ worker[w].pc \in {"select", "sync", "agent", "confirm", "reset"}
    /\ worker' = [worker EXCEPT ![w].pc = "fail"]
    /\ UNCHANGED <<env, rows, claims>>

\* Mutant: marks of the run before stay beside the new ones.
LockSucceededKeepsMarks(w) ==
    /\ worker[w].pc = "succeed"
    /\ IF ~OwnsLock(w) THEN UNCHANGED <<global, out>> ELSE
         /\ global' = [global EXCEPT !.status = "done", !.finished = clock, !.lease = Null,
                          !.failed = FALSE, !.success = Max({@, worker[w].mark})]
         /\ out' = [t \in Threads |->
              IF <<t, out[t].source>> \in worker[w].chosen
              THEN [out[t] EXCEPT !.selected = out[t].source, !.by = worker[w].token]
              ELSE out[t]]
    /\ worker' = [worker EXCEPT ![w] = Idle]
    /\ UNCHANGED <<env, job, issued, wiped, claims>>

\* mark_global_phase2_job_succeeded, one transaction: the row, and the marks
\* of the exact snapshots that were consolidated.
LockSucceeded(w) ==
    /\ worker[w].pc = "succeed"
    /\ IF ~OwnsLock(w) THEN UNCHANGED <<global, out>> ELSE
         /\ global' = [global EXCEPT !.status = "done", !.finished = clock, !.lease = Null,
                          !.failed = FALSE, !.success = Max({@, worker[w].mark})]
         /\ out' = [t \in Threads |->
              IF <<t, out[t].source>> \in worker[w].chosen
              THEN [out[t] EXCEPT !.selected = out[t].source, !.by = worker[w].token]
              ELSE [out[t] EXCEPT !.selected = Null, !.by = 0]]
    /\ worker' = [worker EXCEPT ![w] = Idle]
    /\ UNCHANGED <<env, job, issued, wiped, claims>>

FailedLock ==
    [global EXCEPT !.status = "error", !.finished = clock, !.lease = Null, !.failed = TRUE,
                   !.retry_at = clock + RetryDelay, !.retries = Max({@ - 1, 0})]

\* mark_global_phase2_job_failed; when it matched no row, a second statement
\* also accepts a running row without owner.
LockFailed(w) ==
    /\ worker[w].pc = "fail"
    /\ global' = IF OwnsLock(w) THEN FailedLock ELSE global
    /\ worker' = [worker EXCEPT ![w] = IF OwnsLock(w) THEN Idle ELSE [@ EXCEPT !.pc = "unowned"]]
    /\ UNCHANGED <<env, job, out, issued, wiped, claims>>

LockFailedIfUnowned(w) ==
    /\ worker[w].pc = "unowned"
    /\ global' = IF global.status = "running" /\ global.token \in {worker[w].token, 0}
                 THEN FailedLock ELSE global
    /\ worker' = [worker EXCEPT ![w] = Idle]
    /\ UNCHANGED <<env, job, out, issued, wiped, claims>>
-----------------------------------------------------------------------------
Phase1(w) ==
    \/ Prune(w) \/ ScanThreads(w) \/ EndScan(w) \/ Phase1Done(w)
    \/ \E item \in worker[w].items :
         \/ SkipUpToDate(w, item)
         \/ \E at \in Times : TryClaim(w, item, at) \/ ClaimRefused(w, item, at)

Extraction(c) ==
    JobSucceeded(c) \/ JobSucceededNoOutput(c) \/ JobFailed(c) \/ ReportLost(c)

Phase2(w) ==
    \/ \E at \in Times : ClaimLock(w, at) \/ LockRefused(w, at)
    \/ SelectInputs(w) \/ SyncWorkspace(w) \/ AgentHeartbeat(w) \/ AgentCompleted(w)
    \/ ConfirmOwnership(w) \/ ResetBaseline(w) \/ StepFails(w)
    \/ LockSucceeded(w) \/ LockFailed(w) \/ LockFailedIfUnowned(w)

Surroundings ==
    \/ Tick \/ ClearMemoryData
    \/ \E t \in Threads :
         \/ ThreadUpdated(t) \/ PolluteRead(t) \/ PolluteMode(t) \/ PolluteEnqueue(t)
         \/ DeleteMemory(t) \/ DeleteThreadRow(t)

Next ==
    \/ Surroundings
    \/ \E w \in Workers : Phase1(w) \/ Phase2(w) \/ Crash(w)
    \/ \E c \in claims : Extraction(c)

Spec == Init /\ [][Next]_vars
-----------------------------------------------------------------------------
JobRow ==
    [status : {"none", "running", "done", "error"}, token : 0 .. MaxTokens,
     lease : Int, retry_at : Int, retries : 0 .. Retries, input : {Null} \cup Times,
     success : {Null} \cup Times]
OutputRow ==
    [source : {Null} \cup Times, selected : {Null} \cup Times,
     by : 0 .. MaxTokens, token : 0 .. MaxTokens]
GlobalRow ==
    [status : {"none", "pending", "running", "done", "error"}, token : 0 .. MaxTokens,
     lease : Int, retry_at : Int, retries : 0 .. Retries, input : Int, success : Int,
     finished : {Null} \cup Times, failed : BOOLEAN]
Process ==
    [pc : {"idle", "scan", "jobs", "lock", "select", "sync", "agent", "confirm",
           "reset", "succeed", "fail", "unowned"},
     items : SUBSET (Threads \X Times), at : {Null} \cup Times, got : Nat,
     token : 0 .. MaxTokens, mark : Int, chosen : SUBSET (Threads \X Times), lease : Int]
Claim ==
    [token : Tokens, worker : Workers, thread : Threads, source : Times, lease : Int]

\* Rows and processes keep their shape. In particular retry_remaining, which
\* mark_stage1_job_failed lowers without a lower bound, never falls below zero.
TypeOK ==
    /\ clock \in Times /\ issued \in 0 .. MaxTokens
    /\ updated \in [Threads -> Times]
    /\ mode \in [Threads -> {"enabled", "polluted", "deleted"}]
    /\ deleting \subseteq Threads
    /\ job \in [Threads -> JobRow] /\ out \in [Threads -> OutputRow]
    /\ global \in GlobalRow
    /\ worker \in [Workers -> Process] /\ claims \subseteq Claim
    /\ polluter \in [Threads -> [pc : {"none", "selected", "other", "enqueue"},
                                 at : {Null} \cup Times]]
    /\ wiped \in [jobs : [Threads -> 0 .. MaxTokens], global : 0 .. MaxTokens]

\* A lease that has not run out is good for something: two processes never
\* extract the same thread under leases that are both valid, unless the rows
\* were deleted after the first of the two claims.
ExtractionExclusive ==
    \A c, d \in claims :
        /\ c.thread = d.thread /\ c # d
        /\ c.lease > clock /\ d.lease > clock
        => wiped.jobs[c.thread] >= c.token \/ wiped.jobs[c.thread] >= d.token

\* Concurrent startups never run more extraction jobs under valid leases than
\* max_running_jobs, although each counts with a clock read earlier.
RunningCapHolds == Cardinality(RunningAt(clock)) <= MaxRunning

\* A stored memory is the one of the last success of its job: a worker that
\* lost its lease neither replaces it nor deletes it.
OutputMatchesSuccess ==
    \A t \in Threads : out[t] # NoOutput => out[t].source = job[t].success

\* The success watermark of a thread only goes up while its row lives: no late
\* report of an older snapshot overwrites a newer one.
SuccessAdvances ==
    [][\A t \in Threads : job'[t].status = "none" \/ job'[t].success >= job[t].success]_vars

\* What was forgotten stays forgotten: a memory found in the database was
\* claimed after the memories of its thread were last deleted.
NothingResurrected ==
    \A t \in Threads : out[t] # NoOutput => out[t].token > wiped.jobs[t]

\* The consolidation row knows of every stored memory, and no success is
\* recorded beyond what was enqueued.
WatermarkCovers ==
    /\ \A t \in Threads : out[t].source <= global.input
    /\ global.success <= global.input

Consolidating(w) ==
    worker[w].pc \in {"select", "sync", "agent", "confirm", "reset", "succeed"}

\* Two processes never work on the memory workspace under locks that are both
\* valid, unless the rows were deleted after the first of the two claims.
ConsolidationExclusive ==
    \A v, w \in Workers :
        /\ v # w /\ Consolidating(v) /\ Consolidating(w)
        /\ worker[v].lease > clock /\ worker[w].lease > clock
        => wiped.global >= worker[v].token \/ wiped.global >= worker[w].token

\* The marks in stage1_outputs describe the last consolidation: while its row
\* says done, every mark was set by the run that owned the row, and no mark is
\* of a snapshot newer than the stored one.
MarksOfLastRun ==
    \A t \in Threads : out[t].selected # Null =>
        /\ global.status = "done" => out[t].by = global.token
        /\ out[t].selected <= out[t].source
=============================================================================
