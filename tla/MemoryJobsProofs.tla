-------------------------- MODULE MemoryJobsProofs --------------------------
(***************************************************************************)
(* The memory pipeline, for any number of processes and threads, any       *)
(* lengths of leases and any bounds: leases exclude, the cap on running    *)
(* jobs holds, a memory is the one of the last success and none comes back *)
(* after it was deleted, the consolidation row covers what is stored.      *)
(***************************************************************************)
EXTENDS MemoryJobs, FiniteSetTheorems, WellFoundedInduction, TLAPS

\* Every token was issued, to one claim.
TokenInv ==
    /\ \A t \in Threads : job[t].token <= issued /\ wiped.jobs[t] <= issued
    /\ global.token <= issued /\ wiped.global <= issued
    /\ \A c \in claims : c.token <= issued
    /\ \A c, d \in claims : c.token = d.token => c = d
    /\ \A w \in Workers : worker[w].token <= issued
    /\ \A v, w \in Workers : worker[v].token = worker[w].token => v = w \/ worker[v].token = 0

\* A job that runs extracts a snapshot newer than what is known of its thread,
\* with a retry to lose; a row or an output was made after the last deletion.
JobInv ==
    /\ \A t \in Threads : job[t].status = "running" =>
          /\ job[t].retries >= 1
          /\ job[t].input > job[t].success /\ job[t].input > out[t].source
    /\ \A t \in Threads : job[t].status # "none" => job[t].token > wiped.jobs[t]
    /\ \A c \in claims : Owns(c) => job[c.thread].input = c.source
    /\ \A t \in Threads : out[t].source = Null => out[t] = NoOutput
    /\ OutputMatchesSuccess
    /\ NothingResurrected

\* Whoever has a valid lease that no deletion took away owns the row.
LeaseInv ==
    \A c \in claims : c.lease > clock /\ c.token > wiped.jobs[c.thread] =>
        Owns(c) /\ job[c.thread].lease = c.lease

\* The same for the consolidation lock, and what its owner may record.
LockInv ==
    /\ global.status = "running" => global.token >= 1
    /\ global.status = "none" => global = NoGlobal
    /\ \A w \in Workers : Consolidating(w) /\ OwnsLock(w) => worker[w].mark <= global.input
    /\ \A w \in Workers :
          Consolidating(w) /\ worker[w].lease > clock /\ worker[w].token > wiped.global =>
              OwnsLock(w) /\ global.lease = worker[w].lease

MarkInv ==
    /\ \A t \in Threads : polluter[t].pc # "none" => polluter[t].at \in Times
    /\ WatermarkCovers
    /\ MarksOfLastRun

Inv == /\ TypeOK /\ TokenInv /\ JobInv /\ LeaseInv /\ LockInv /\ MarkInv
       /\ RunningCapHolds
-----------------------------------------------------------------------------
(* Maxima and rows *)

\* A set of numbers has a least one.
LEMMA Least ==
    ASSUME NEW T, T \subseteq Nat, T # {}
    PROVE  \E x \in T : \A y \in T : x <= y
<1>1. PICK x \in T : \A y \in T : ~(<<y, x>> \in OpToRel(<, Nat))
  BY WFMin, NatLessThanWellFounded
<1>2. \A y \in T : ~(y < x)
  BY <1>1 DEF OpToRel
<1> QED
  BY <1>2

\* A set with an upper bound has a maximum, the watermark of a selection.
LEMMA BoundedMax ==
    ASSUME NEW S, S \subseteq Int, S # {}, NEW b \in Int, \A x \in S : x <= b
    PROVE  Max(S) \in S /\ \A x \in S : x <= Max(S)
<1> DEFINE T == {b - x : x \in S}
<1>1. T \subseteq Nat /\ T # {}
  <2>1. \A x \in S : b - x \in Nat
    OBVIOUS
  <2>2. T \subseteq Nat
    BY <2>1
  <2> QED
    BY <2>2
<1>2. PICK d \in T : \A y \in T : d <= y
  <2> HIDE DEF T
  <2> QED
    BY <1>1, Least
<1>3. PICK m \in S : d = b - m
  BY <1>2
<1>4. \A x \in S : m >= x
  <2> SUFFICES ASSUME NEW x \in S PROVE m >= x
    OBVIOUS
  <2>1. b - x \in T
    OBVIOUS
  <2>2. d <= b - x
    BY <1>2, <2>1
  <2> QED
    BY <1>3, <2>2
<1>5. \E x \in S : \A y \in S : x >= y
  BY <1>4
<1>6. Max(S) \in S /\ \A y \in S : Max(S) >= y
  BY <1>5 DEF Max
<1> QED
  BY <1>6

LEMMA MaxPair ==
    ASSUME NEW a \in Int, NEW b \in Int
    PROVE  Max({a, b}) \in {a, b} /\ Max({a, b}) >= a /\ Max({a, b}) >= b
<1>1. \E x \in {a, b} : \A y \in {a, b} : x >= y
  <2>1. CASE a >= b
    BY <2>1
  <2>2. CASE b >= a
    BY <2>2
  <2> QED
    BY <2>1, <2>2
<1> QED
  BY <1>1 DEF Max

\* What the upsert that enqueues consolidation does to the row: the owner and
\* the lease of a running one stay, and the watermark grows and covers.
LEMMA EnqueuedRow ==
    ASSUME NEW g \in GlobalRow, NEW m \in Times,
           g.status = "none" => g = NoGlobal, g.success <= g.input
    PROVE  /\ Enqueued(g, m) \in GlobalRow
           /\ Enqueued(g, m).token = g.token
           /\ Enqueued(g, m).status \in {"pending", "running"}
           /\ Enqueued(g, m).status = "running" <=> g.status = "running"
           /\ g.status = "running" => Enqueued(g, m).lease = g.lease
           /\ Enqueued(g, m).input >= m /\ Enqueued(g, m).input >= g.input
           /\ Enqueued(g, m).success <= Enqueued(g, m).input
<1> USE ConstantsAssumption
<1>1. m \in Nat /\ Null \in Int /\ Null < 0 /\ Retries \in 0 .. Retries
  BY DEF Times, Null
<1>2. CASE g.status = "none"
  <2>1. Enqueued(g, m) =
          [status |-> "pending", token |-> 0, lease |-> Null, retry_at |-> Null,
           retries |-> Retries, input |-> m, success |-> 0,
           finished |-> Null, failed |-> FALSE]
    BY <1>2 DEF Enqueued, NoGlobal
  <2>2. g.token = 0 /\ g.input = Null
    BY <1>2 DEF NoGlobal
  <2>3. 0 \in 0 .. MaxTokens /\ m \in Int
    BY <1>1
  <2>4. Enqueued(g, m) \in GlobalRow
    BY <1>1, <2>1, <2>3 DEF GlobalRow
  <2> QED
    BY <1>1, <1>2, <2>1, <2>2, <2>4 DEF Null
<1>3. CASE g.status # "none"
  <2>1. g.retries \in 0 .. Retries /\ g.retries \in Int /\ Retries \in Int
    BY DEF GlobalRow
  <2>2. Max({g.retries, Retries}) \in 0 .. Retries
    BY <1>1, <2>1, MaxPair
  <2> DEFINE r == Max({g.retries, Retries})
             e == [g EXCEPT !.status = IF @ = "running" THEN @ ELSE "pending",
                            !.retry_at = IF g.status = "running" THEN @ ELSE Null,
                            !.retries = r,
                            !.input = IF m > @ THEN m ELSE @ + 1]
  <2>3. Enqueued(g, m) = e
    BY <1>3 DEF Enqueued, GlobalRow
  <2>4. r \in 0 .. Retries
    BY <2>2
  <2> HIDE DEF r
  <2>5. g.input \in Int /\ m \in Int
    BY <1>1 DEF GlobalRow
  <2>6. /\ e.token = g.token /\ e.success = g.success
        /\ e.status = IF g.status = "running" THEN g.status ELSE "pending"
        /\ e.lease = g.lease
        /\ e.input = IF m > g.input THEN m ELSE g.input + 1
    BY DEF GlobalRow
  <2>7. e \in GlobalRow
    <3> DEFINE st == IF g.status = "running" THEN g.status ELSE "pending"
               ra == IF g.status = "running" THEN g.retry_at ELSE Null
               in == IF m > g.input THEN m ELSE g.input + 1
    <3>1. /\ st \in {"none", "pending", "running", "done", "error"}
          /\ ra \in Int /\ in \in Int
      BY <1>1, <2>5 DEF GlobalRow
    <3>2. e = [g EXCEPT !.status = st, !.retry_at = ra, !.retries = r, !.input = in]
      BY DEF GlobalRow
    <3> HIDE DEF st, ra, in, e
    <3> QED
      BY <2>4, <3>1, <3>2 DEF GlobalRow
  <2>8. e.input >= m /\ e.input >= g.input /\ e.input \in Int
    BY <2>5, <2>6
  <2>9. g.success \in Int
    BY DEF GlobalRow
  <2>10. e.success <= e.input
    BY <2>5, <2>6, <2>8, <2>9
  <2> HIDE DEF e
  <2> QED
    BY <2>3, <2>6, <2>7, <2>8, <2>10
<1> QED
  BY <1>2, <1>3
-----------------------------------------------------------------------------
(* Frames: what a step that leaves some variables alone preserves *)

LEMMA TokenFrame ==
    ASSUME Inv, issued' = issued, wiped' = wiped, claims' \subseteq claims,
           \A t \in Threads : job'[t].token \in {0, job[t].token},
           global'.token \in {0, global.token},
           \A w \in Workers : worker'[w].token \in {0, worker[w].token}
    PROVE  TokenInv'
<1>1. issued \in Nat
  BY ConstantsAssumption DEF Inv, TypeOK
<1> QED
  BY <1>1 DEF Inv, TokenInv

\* Nothing but the clock and the end of jobs moves.
LEMMA JobFrame ==
    ASSUME Inv, job' = job, out' = out, wiped' = wiped, claims' \subseteq claims,
           clock' \in Times, clock' >= clock
    PROVE  JobInv' /\ LeaseInv' /\ RunningCapHolds'
<1> USE ConstantsAssumption
<1>1. JobInv'
  BY DEF Inv, JobInv, Owns, OutputMatchesSuccess, NothingResurrected
<1>2. LeaseInv'
  BY DEF Inv, LeaseInv, TypeOK, Owns, Claim, Times
<1>3. RunningCapHolds'
  <2>1. RunningAt(clock)' \subseteq RunningAt(clock)
    BY DEF Inv, TypeOK, RunningAt, JobRow, Times
  <2>2. IsFiniteSet(RunningAt(clock))
    BY FS_Subset DEF RunningAt
  <2>3. Cardinality(RunningAt(clock)') <= Cardinality(RunningAt(clock))
    BY <2>1, <2>2, FS_Subset
  <2>4. Cardinality(RunningAt(clock)) \in Nat /\ Cardinality(RunningAt(clock)') \in Nat
    BY <2>1, <2>2, FS_Subset, FS_CardinalityType
  <2> QED
    BY <2>3, <2>4 DEF Inv, RunningCapHolds
<1> QED
  BY <1>1, <1>2, <1>3

\* A worker that goes on consolidating keeps its token and lease, and its
\* watermark is one of the row.
LEMMA LockFrame ==
    ASSUME Inv, global' = global, wiped' = wiped, clock' \in Times, clock' >= clock,
           \A w \in Workers : Consolidating(w)' =>
               /\ Consolidating(w)
               /\ worker'[w].token = worker[w].token /\ worker'[w].lease = worker[w].lease
               /\ OwnsLock(w) => worker'[w].mark <= global.input
    PROVE  LockInv'
<1> USE ConstantsAssumption
<1>1. ASSUME NEW w \in Workers, Consolidating(w)', worker'[w].lease > clock',
             worker'[w].token > wiped'.global
      PROVE  OwnsLock(w)' /\ global'.lease = worker'[w].lease
  <2>1. worker[w].lease \in Int /\ clock \in Int /\ clock' \in Int
    BY DEF Inv, TypeOK, Process, Times
  <2>2. Consolidating(w) /\ worker[w].lease > clock /\ worker[w].token > wiped.global
    BY <1>1, <2>1
  <2> QED
    BY <1>1, <2>2 DEF Inv, LockInv, OwnsLock
<1>2. ASSUME NEW w \in Workers, Consolidating(w)', OwnsLock(w)'
      PROVE  worker'[w].mark <= global'.input
  BY <1>2 DEF Inv, LockInv, OwnsLock
<1> QED
  BY <1>1, <1>2 DEF Inv, LockInv

LEMMA MarkFrame ==
    ASSUME Inv, out' = out, global' = global,
           \A t \in Threads : polluter'[t].pc # "none" => polluter'[t].at \in Times
    PROVE  MarkInv'
BY DEF Inv, MarkInv, WatermarkCovers, MarksOfLastRun

\* The upsert of the consolidation row alone keeps lock and watermark.
LEMMA EnqueueKeeps ==
    ASSUME Inv, NEW m \in Times, global' = Enqueued(global, m)
    PROVE  /\ global' \in GlobalRow /\ global'.token = global.token
           /\ (wiped'.global = wiped.global /\ worker' = worker /\ clock' = clock) => LockInv'
           /\ global'.success <= global'.input
           /\ global'.input >= m /\ global'.input >= global.input
           /\ global'.status # "done"
<1>1. global \in GlobalRow /\ (global.status = "none" => global = NoGlobal)
      /\ global.success <= global.input
  BY DEF Inv, TypeOK, LockInv, MarkInv, WatermarkCovers
<1>2. /\ global' \in GlobalRow
      /\ global'.token = global.token
      /\ global'.status \in {"pending", "running"}
      /\ global'.status = "running" <=> global.status = "running"
      /\ global.status = "running" => global'.lease = global.lease
      /\ global'.input >= m /\ global'.input >= global.input
      /\ global'.success <= global'.input
  BY <1>1, EnqueuedRow
<1>3. ASSUME wiped'.global = wiped.global, worker' = worker, clock' = clock
      PROVE  LockInv'
  <2>1. global'.status = "running" => global'.token >= 1
    BY <1>2 DEF Inv, LockInv
  <2>2. global'.status = "none" => global' = NoGlobal
    BY <1>2
  <2>3. ASSUME NEW w \in Workers, Consolidating(w)', OwnsLock(w)'
        PROVE  worker'[w].mark <= global'.input
    <3>1. Consolidating(w) /\ OwnsLock(w)
      BY <1>2, <1>3, <2>3 DEF Consolidating, OwnsLock
    <3>2. worker[w].mark <= global.input
      BY <3>1 DEF Inv, LockInv
    <3>3. worker[w].mark \in Int /\ global.input \in Int /\ global'.input \in Int
      BY <1>1, <1>2 DEF Inv, TypeOK, Process, GlobalRow
    <3> QED
      BY <1>2, <1>3, <3>2, <3>3
  <2>4. ASSUME NEW w \in Workers, Consolidating(w)', worker'[w].lease > clock',
               worker'[w].token > wiped'.global
        PROVE  OwnsLock(w)' /\ global'.lease = worker'[w].lease
    BY <1>2, <1>3, <2>4 DEF Inv, LockInv, OwnsLock, Consolidating
  <2> QED
    BY <2>1, <2>2, <2>3, <2>4 DEF LockInv
<1> QED
  BY <1>2, <1>3
-----------------------------------------------------------------------------
(* The inductive invariant *)

\* Absent rows and an idle process are well formed.
LEMMA Defaults ==
    /\ NoJob \in JobRow /\ NoOutput \in OutputRow /\ NoGlobal \in GlobalRow
    /\ Idle \in Process
<1> USE ConstantsAssumption
<1>1. NoJob \in JobRow /\ NoOutput \in OutputRow
  BY DEF NoJob, JobRow, NoOutput, OutputRow, Null, Times
<1>2. NoGlobal \in GlobalRow /\ Idle \in Process
  BY DEF NoGlobal, GlobalRow, Idle, Process, Null, Times
<1> QED
  BY <1>1, <1>2

LEMMA InitInv == Init => Inv
<1> SUFFICES ASSUME Init PROVE Inv
  OBVIOUS
<1> USE ConstantsAssumption DEF Init
<1>1. TypeOK
  <2>1. Silent \in [pc : {"none", "selected", "other", "enqueue"}, at : {Null} \cup Times]
    BY DEF Silent
  <2> QED
    BY <2>1, Defaults DEF TypeOK, Times
<1>2. TokenInv
  BY DEF TokenInv, NoJob, NoGlobal, Idle
<1>3. JobInv
  BY DEF JobInv, OutputMatchesSuccess, NothingResurrected, NoJob
<1>4. LeaseInv
  BY DEF LeaseInv
<1>5. LockInv
  BY DEF LockInv, Consolidating, Idle, NoGlobal
<1>6. MarkInv
  BY DEF MarkInv, WatermarkCovers, MarksOfLastRun, NoGlobal, NoOutput, Silent, Null
<1>7. RunningCapHolds
  <2>1. RunningAt(clock) = {}
    BY DEF RunningAt, NoJob
  <2> QED
    BY <2>1, FS_EmptySet DEF RunningCapHolds
<1> QED
  BY <1>1, <1>2, <1>3, <1>4, <1>5, <1>6, <1>7 DEF Inv

\* Steps of the surroundings that leave the rows alone.
LEMMA OutsideRows ==
    ASSUME Inv, UNCHANGED <<rows, worker, claims>>, TypeOK', clock' >= clock,
           \A t \in Threads : polluter'[t].pc # "none" => polluter'[t].at \in Times
    PROVE  Inv'
<1> USE DEF rows
<1>1. clock' \in Times
  BY DEF TypeOK
<1>2. TokenInv'
  BY TokenFrame
<1>3. JobInv' /\ LeaseInv' /\ RunningCapHolds'
  BY <1>1, JobFrame
<1>4. LockInv'
  <2>1. ASSUME NEW w \in Workers, Consolidating(w)'
        PROVE  /\ Consolidating(w)
               /\ worker'[w].token = worker[w].token /\ worker'[w].lease = worker[w].lease
               /\ OwnsLock(w) => worker'[w].mark <= global.input
    <3>1. Consolidating(w)
      BY <2>1 DEF Consolidating
    <3> QED
      BY <3>1 DEF Inv, LockInv
  <2> QED
    BY <1>1, <2>1, LockFrame
<1>5. MarkInv'
  BY MarkFrame
<1> QED
  BY <1>2, <1>3, <1>4, <1>5 DEF Inv

LEMMA SurroundingsInv ==
    ASSUME Inv,
           \/ Tick
           \/ \E t \in Threads : \/ ThreadUpdated(t) \/ PolluteRead(t) \/ PolluteMode(t)
                                 \/ DeleteThreadRow(t)
    PROVE  Inv'
<1> USE ConstantsAssumption
<1>0. /\ TypeOK /\ clock \in Times /\ clock \in Int
      /\ \A t \in Threads : polluter[t].pc # "none" => polluter[t].at \in Times
  BY DEF Inv, TypeOK, MarkInv, Times
<1>1. CASE Tick
  <2>1. TypeOK' /\ clock' >= clock
    BY <1>0, <1>1 DEF TypeOK, Tick, rows, Times
  <2> QED
    BY <1>0, <1>1, <2>1, OutsideRows DEF Tick
<1>2. ASSUME NEW t \in Threads, ThreadUpdated(t) PROVE Inv'
  <2>1. TypeOK' /\ clock' >= clock
    BY <1>0, <1>2 DEF TypeOK, ThreadUpdated, rows
  <2> QED
    BY <1>0, <1>2, <2>1, OutsideRows DEF ThreadUpdated
<1>3. ASSUME NEW t \in Threads, PolluteRead(t) PROVE Inv'
  <2>1. TypeOK' /\ clock' >= clock
    BY <1>0, <1>3 DEF TypeOK, PolluteRead, rows
  <2>2. \A s \in Threads : polluter'[s].pc # "none" => polluter'[s].at \in Times
    BY <1>0, <1>3 DEF PolluteRead, TypeOK
  <2> QED
    BY <1>3, <2>1, <2>2, OutsideRows DEF PolluteRead
<1>4. ASSUME NEW t \in Threads, PolluteMode(t) PROVE Inv'
  <2>1. TypeOK' /\ clock' >= clock
    BY <1>0, <1>4 DEF TypeOK, PolluteMode, rows, Silent
  <2>2. \A s \in Threads : polluter'[s].pc # "none" => polluter'[s].at \in Times
    BY <1>0, <1>4 DEF PolluteMode, TypeOK, Silent
  <2> QED
    BY <1>4, <2>1, <2>2, OutsideRows DEF PolluteMode
<1>5. ASSUME NEW t \in Threads, DeleteThreadRow(t) PROVE Inv'
  <2>1. TypeOK' /\ clock' >= clock
    BY <1>0, <1>5 DEF TypeOK, DeleteThreadRow, rows
  <2> QED
    BY <1>0, <1>5, <2>1, OutsideRows DEF DeleteThreadRow
<1> QED
  BY <1>1, <1>2, <1>3, <1>4, <1>5

Working == {"select", "sync", "agent", "confirm", "reset", "succeed"}

\* A step within a process, which may forget its token but not change it.
LEMMA InsideWorker ==
    ASSUME Inv, NEW w \in Workers, NEW p \in Process,
           worker' = [worker EXCEPT ![w] = p], UNCHANGED <<env, rows>>, claims' \subseteq claims,
           p.token \in {0, worker[w].token},
           p.pc \in Working =>
               /\ Consolidating(w)
               /\ p.token = worker[w].token /\ p.lease = worker[w].lease
               /\ OwnsLock(w) => p.mark <= global.input
    PROVE  Inv'
<1> USE DEF rows, env
<1>1. clock' \in Times /\ clock' >= clock /\ worker \in [Workers -> Process]
  BY ConstantsAssumption DEF Inv, TypeOK, Times
<1>2. TypeOK'
  BY DEF Inv, TypeOK
<1>3. TokenInv'
  <2>1. \A v \in Workers : worker'[v].token \in {0, worker[v].token}
    BY <1>1
  <2> QED
    BY <2>1, TokenFrame
<1>4. JobInv' /\ LeaseInv' /\ RunningCapHolds'
  BY <1>1, JobFrame
<1>5. LockInv'
  <2>1. ASSUME NEW v \in Workers, Consolidating(v)'
        PROVE  /\ Consolidating(v)
               /\ worker'[v].token = worker[v].token /\ worker'[v].lease = worker[v].lease
               /\ OwnsLock(v) => worker'[v].mark <= global.input
    <3>1. CASE v = w
      BY <1>1, <2>1, <3>1 DEF Consolidating, Working
    <3>2. CASE v # w
      <4>1. worker'[v] = worker[v]
        BY <1>1, <3>2
      <4>2. Consolidating(v)
        BY <2>1, <4>1 DEF Consolidating
      <4> QED
        BY <4>1, <4>2 DEF Inv, LockInv
    <3> QED
      BY <3>1, <3>2
  <2> QED
    BY <1>1, <2>1, LockFrame
<1>6. MarkInv'
  BY MarkFrame DEF Inv, MarkInv
<1> QED
  BY <1>2, <1>3, <1>4, <1>5, <1>6 DEF Inv

\* Of the steps within a process only the selection computes something.
LEMMA SelectInputsInv ==
    ASSUME Inv, NEW w \in Workers, SelectInputs(w)
    PROVE  Inv'
<1> USE ConstantsAssumption
<1>0. /\ worker[w] \in Process /\ worker[w].mark \in Int /\ worker[w].pc = "select"
      /\ global.input \in Int /\ out \in [Threads -> OutputRow]
  BY DEF Inv, TypeOK, Process, GlobalRow, SelectInputs
<1>1. PICK picked \in SUBSET {t \in Threads : mode[t] = "enabled" /\ out[t] # NoOutput} :
         worker' = [worker EXCEPT ![w].pc = "sync",
              ![w].chosen = {<<t, out[t].source>> : t \in picked},
              ![w].mark = Max({@} \cup {out[t].source : t \in picked})]
  BY DEF SelectInputs
<1> DEFINE S == {worker[w].mark} \cup {out[t].source : t \in picked}
           chosen == {<<t, out[t].source>> : t \in picked}
           m == Max(S)
           p == [worker[w] EXCEPT !.pc = "sync", !.chosen = chosen, !.mark = m]
<1>2. \A t \in picked : t \in Threads /\ out[t].source \in Times
  BY <1>0 DEF Inv, JobInv, OutputRow
<1>3. chosen \in SUBSET (Threads \X Times)
  BY <1>2
<1>4. m \in S /\ m \in Int
  <2>1. S \subseteq Int /\ S # {}
    BY <1>0, <1>2 DEF Times
  <2>2. PICK b \in Int : b >= worker[w].mark /\ b >= MaxTime
    <3>1. CASE worker[w].mark >= MaxTime
      BY <1>0, <3>1
    <3>2. CASE ~(worker[w].mark >= MaxTime)
      BY <1>0, <3>2
    <3> QED
      BY <3>1, <3>2
  <2>3. \A x \in S : x <= b
    BY <1>0, <1>2, <2>2 DEF Times
  <2> HIDE DEF S
  <2> QED
    BY <2>1, <2>3, BoundedMax
<1>5. OwnsLock(w) => m <= global.input
  <2>1. \A t \in picked : out[t].source <= global.input
    BY <1>2 DEF Inv, MarkInv, WatermarkCovers
  <2>2. OwnsLock(w) => worker[w].mark <= global.input
    BY <1>0 DEF Inv, LockInv, Consolidating
  <2> HIDE DEF m
  <2> QED
    BY <1>4, <2>1, <2>2
<1>6. worker' = [worker EXCEPT ![w] = p]
  BY <1>0, <1>1 DEF Inv, TypeOK
<1> HIDE DEF m, chosen
<1>7. p \in Process
  BY <1>0, <1>3, <1>4 DEF Process
<1>8. p.token = worker[w].token /\ p.lease = worker[w].lease /\ p.mark = m
  BY <1>0 DEF Process
<1>9. Consolidating(w)
  BY <1>0 DEF Consolidating
<1>10. UNCHANGED <<env, rows>> /\ claims' \subseteq claims
  BY DEF SelectInputs
<1> HIDE DEF p
<1> QED
  BY <1>5, <1>6, <1>7, <1>8, <1>9, <1>10, InsideWorker

LEMMA ProcessInv ==
    ASSUME Inv, NEW w \in Workers,
           \/ ScanThreads(w) \/ EndScan(w) \/ Phase1Done(w) \/ Crash(w)
           \/ \E item \in worker[w].items :
                \/ SkipUpToDate(w, item)
                \/ \E at \in Times : ClaimRefused(w, item, at)
           \/ \E at \in Times : LockRefused(w, at)
           \/ SyncWorkspace(w) \/ AgentCompleted(w) \/ ResetBaseline(w) \/ StepFails(w)
    PROVE  Inv'
<1> USE ConstantsAssumption
<1>0. /\ worker \in [Workers -> Process] /\ worker[w] \in Process /\ clock \in Times
      /\ updated \in [Threads -> Times]
      /\ Consolidating(w) /\ OwnsLock(w) => worker[w].mark <= global.input
  BY DEF Inv, TypeOK, LockInv
<1>1. Idle \in Process /\ Idle.token = 0 /\ Idle.pc \notin Working
  BY Defaults DEF Idle, Working
<1>2. CASE ScanThreads(w)
  <2>1. PICK picked \in SUBSET {t \in Threads : mode[t] = "enabled"} :
         worker' = [worker EXCEPT ![w] = [Idle EXCEPT !.pc = "scan", !.at = clock,
                      !.items = {<<t, updated[t]>> : t \in picked}]]
    BY <1>2 DEF ScanThreads
  <2> DEFINE items == {<<t, updated[t]>> : t \in picked}
             p == [Idle EXCEPT !.pc = "scan", !.at = clock, !.items = items]
  <2>2. items \in SUBSET (Threads \X Times)
    BY <1>0
  <2> HIDE DEF items
  <2>3. p \in Process /\ p.token = 0 /\ p.pc \notin Working
    BY <1>0, <1>1, <2>2 DEF Process, Idle, Working
  <2>4. worker' = [worker EXCEPT ![w] = p]
    BY <2>1 DEF items
  <2>5. UNCHANGED <<env, rows>> /\ claims' \subseteq claims
    BY <1>2 DEF ScanThreads
  <2> HIDE DEF p
  <2> QED
    BY <2>3, <2>4, <2>5, InsideWorker
<1>3. CASE EndScan(w)
  <2> DEFINE p == [Idle EXCEPT !.pc = "jobs"]
  <2>1. p \in Process /\ p.token = 0 /\ p.pc \notin Working
    BY <1>1 DEF Process, Idle, Working
  <2>2. worker' = [worker EXCEPT ![w] = p] /\ UNCHANGED <<env, rows>> /\ claims' \subseteq claims
    BY <1>3 DEF EndScan
  <2> HIDE DEF p
  <2> QED
    BY <2>1, <2>2, InsideWorker
<1>4. CASE Phase1Done(w)
  <2> DEFINE p == IF w \in Consolidators THEN [Idle EXCEPT !.pc = "lock", !.at = clock] ELSE Idle
  <2>1. p \in Process /\ p.token = 0 /\ p.pc \notin Working
    BY <1>0, <1>1 DEF Process, Idle, Working
  <2>2. worker' = [worker EXCEPT ![w] = p] /\ UNCHANGED <<env, rows>> /\ claims' \subseteq claims
    BY <1>4 DEF Phase1Done
  <2> HIDE DEF p
  <2> QED
    BY <2>1, <2>2, InsideWorker
<1>5. CASE Crash(w) \/ \E at \in Times : LockRefused(w, at)
  <2>1. worker' = [worker EXCEPT ![w] = Idle] /\ UNCHANGED <<env, rows>> /\ claims' \subseteq claims
    BY <1>5 DEF Crash, LockRefused
  <2> QED
    BY <1>1, <2>1, InsideWorker
<1>6. ASSUME NEW item \in worker[w].items,
             SkipUpToDate(w, item) \/ \E at \in Times : ClaimRefused(w, item, at)
      PROVE  Inv'
  <2> DEFINE p == [worker[w] EXCEPT !.items = @ \ {item}, !.at = clock]
  <2>1. worker[w].pc = "scan"
    BY <1>6 DEF SkipUpToDate, ClaimRefused
  <2>2. p \in Process /\ p.token = worker[w].token /\ p.pc \notin Working
    BY <1>0, <2>1 DEF Process, Working
  <2>3. worker' = [worker EXCEPT ![w] = p] /\ UNCHANGED <<env, rows>> /\ claims' \subseteq claims
    BY <1>6, <1>0 DEF SkipUpToDate, ClaimRefused
  <2> HIDE DEF p
  <2> QED
    BY <2>2, <2>3, InsideWorker
<1>7. CASE SyncWorkspace(w) \/ AgentCompleted(w) \/ ResetBaseline(w) \/ StepFails(w)
  <2>1. PICK next \in {"succeed", "agent", "confirm", "fail"} :
           worker' = [worker EXCEPT ![w].pc = next]
    BY <1>7 DEF SyncWorkspace, AgentCompleted, ResetBaseline, StepFails
  <2> DEFINE p == [worker[w] EXCEPT !.pc = next]
  <2>2. p \in Process /\ p.token = worker[w].token
        /\ p.lease = worker[w].lease /\ p.mark = worker[w].mark
    BY <1>0 DEF Process
  <2>3. worker' = [worker EXCEPT ![w] = p]
    BY <1>0, <2>1
  <2>4. Consolidating(w) /\ UNCHANGED <<env, rows>> /\ claims' \subseteq claims
    BY <1>7 DEF SyncWorkspace, AgentCompleted, ResetBaseline, StepFails, Consolidating
  <2> HIDE DEF p
  <2> QED
    BY <1>0, <2>2, <2>3, <2>4, InsideWorker
<1> QED
  BY <1>2, <1>3, <1>4, <1>5, <1>6, <1>7
-----------------------------------------------------------------------------
(* Rows are deleted *)

\* No step but a claim adds to the running jobs.
LEMMA RunningShrinks ==
    ASSUME Inv, clock' = clock,
           \A t \in Threads : job'[t].status = "running" => job'[t] = job[t]
    PROVE  RunningCapHolds'
<1> USE ConstantsAssumption
<1>1. RunningAt(clock)' \subseteq RunningAt(clock)
  BY DEF RunningAt
<1>2. IsFiniteSet(RunningAt(clock))
  BY FS_Subset DEF RunningAt
<1>3. Cardinality(RunningAt(clock)') <= Cardinality(RunningAt(clock))
  BY <1>1, <1>2, FS_Subset
<1>4. Cardinality(RunningAt(clock)) \in Nat /\ Cardinality(RunningAt(clock)') \in Nat
  BY <1>1, <1>2, FS_Subset, FS_CardinalityType
<1> QED
  BY <1>3, <1>4 DEF Inv, RunningCapHolds

\* Outputs are deleted, and the row of consolidation is untouched or enqueued:
\* the row still covers the outputs, and the marks are those of the last run.
LEMMA ForgetKeepsMarks ==
    ASSUME Inv, NEW m \in Times,
           \A t \in Threads : out'[t] \in {out[t], NoOutput},
           global' \in {global, Enqueued(global, m)},
           \A t \in Threads : polluter'[t].pc # "none" => polluter'[t].at \in Times
    PROVE  MarkInv'
<1>1. /\ global' = global \/ global'.status # "done"
      /\ global'.input >= global.input /\ global'.success <= global'.input
      /\ global'.input \in Int /\ global.input \in Int
  <2>1. CASE global' = global
    BY <2>1 DEF Inv, MarkInv, WatermarkCovers, TypeOK, GlobalRow
  <2>2. CASE global' = Enqueued(global, m)
    BY <2>2, EnqueueKeeps DEF Inv, TypeOK, GlobalRow
  <2> QED
    BY <2>1, <2>2
<1>2. \A t \in Threads : out'[t].source <= global'.input
  <2> SUFFICES ASSUME NEW t \in Threads PROVE out'[t].source <= global'.input
    OBVIOUS
  <2>1. out[t].source \in Int /\ out[t].source >= Null /\ out[t].source <= global.input
    BY ConstantsAssumption DEF Inv, TypeOK, OutputRow, Times, Null, MarkInv, WatermarkCovers
  <2>2. out'[t].source \in {out[t].source, Null}
    BY DEF NoOutput
  <2> QED
    BY <1>1, <2>1, <2>2 DEF Null
<1>3. MarksOfLastRun'
  <2> SUFFICES ASSUME NEW t \in Threads, out'[t].selected # Null
               PROVE  /\ global'.status = "done" => out'[t].by = global'.token
                      /\ out'[t].selected <= out'[t].source
    BY DEF MarksOfLastRun
  <2>1. out'[t] = out[t]
    BY DEF NoOutput
  <2> QED
    BY <1>1, <2>1 DEF Inv, MarkInv, MarksOfLastRun
<1> QED
  BY <1>1, <1>2, <1>3 DEF MarkInv, WatermarkCovers

LEMMA PolluteEnqueueInv ==
    ASSUME Inv, NEW t \in Threads, PolluteEnqueue(t)
    PROVE  Inv'
<1> USE ConstantsAssumption
<1>1. polluter[t].at \in Times /\ global' = Enqueued(global, polluter[t].at)
  BY DEF PolluteEnqueue, Inv, MarkInv
<1>2. /\ clock' = clock /\ clock' \in Times /\ clock' >= clock
      /\ UNCHANGED <<clock, updated, mode, deleting, job, out, issued, wiped, worker, claims>>
      /\ polluter' = [polluter EXCEPT ![t] = Silent]
  BY DEF PolluteEnqueue, Inv, TypeOK, Times
<1>3. global' \in GlobalRow /\ global'.token = global.token /\ LockInv'
  BY <1>1, <1>2, EnqueueKeeps
<1>4. TypeOK'
  BY <1>2, <1>3 DEF Inv, TypeOK, Silent
<1>5. TokenInv'
  BY <1>2, <1>3, TokenFrame
<1>6. JobInv' /\ LeaseInv' /\ RunningCapHolds'
  BY <1>2, JobFrame
<1>7. MarkInv'
  <2>1. \A s \in Threads : polluter'[s].pc # "none" => polluter'[s].at \in Times
    BY <1>2 DEF Inv, MarkInv, Silent, TypeOK
  <2> QED
    BY <1>1, <1>2, <2>1, ForgetKeepsMarks
<1> QED
  BY <1>3, <1>4, <1>5, <1>6, <1>7 DEF Inv

LEMMA DeleteMemoryInv ==
    ASSUME Inv, NEW t \in Threads, DeleteMemory(t)
    PROVE  Inv'
<1> USE ConstantsAssumption
<1>1. /\ out' = [out EXCEPT ![t] = NoOutput]
      /\ job' = [job EXCEPT ![t] = NoJob]
      /\ global' \in {global, Enqueued(global, clock)}
      /\ wiped' = [wiped EXCEPT !.jobs[t] = issued]
      /\ deleting' = deleting \cup {t}
      /\ UNCHANGED <<clock, updated, mode, polluter, issued, worker, claims>>
      /\ clock \in Times /\ issued \in Nat
  BY DEF DeleteMemory, Inv, TypeOK
<1>2. /\ wiped' \in [jobs : [Threads -> 0 .. MaxTokens], global : 0 .. MaxTokens]
      /\ wiped'.global = wiped.global
      /\ wiped'.jobs = [wiped.jobs EXCEPT ![t] = issued]
      /\ wiped.jobs \in [Threads -> 0 .. MaxTokens]
  BY <1>1 DEF Inv, TypeOK
<1>3. global' \in GlobalRow /\ global'.token = global.token /\ LockInv'
  <2>1. CASE global' = global
    BY <1>1, <1>2, <2>1 DEF Inv, TypeOK, LockInv, Consolidating, OwnsLock
  <2>2. CASE global' = Enqueued(global, clock)
    BY <1>1, <1>2, <2>2, EnqueueKeeps
  <2> QED
    BY <1>1, <2>1, <2>2
<1>4. job \in [Threads -> JobRow] /\ out \in [Threads -> OutputRow] /\ claims \subseteq Claim
  BY DEF Inv, TypeOK
<1>5. TypeOK'
  BY <1>1, <1>2, <1>3, Defaults DEF Inv, TypeOK
<1>6. TokenInv'
  BY <1>1, <1>2, <1>3, <1>4 DEF Inv, TokenInv, NoJob
<1>7. JobInv'
  BY <1>1, <1>2, <1>4
     DEF Inv, JobInv, Owns, OutputMatchesSuccess, NothingResurrected, NoJob, NoOutput
<1>8. LeaseInv'
  <2> SUFFICES ASSUME NEW c \in claims, c.lease > clock, c.token > wiped'.jobs[c.thread]
               PROVE  Owns(c)' /\ job'[c.thread].lease = c.lease
    BY <1>1 DEF LeaseInv
  <2>1. c.token \in Nat /\ c.token <= issued /\ c.thread \in Threads
    BY <1>4 DEF Inv, TokenInv, Claim, Tokens
  <2>2. c.thread # t
    BY <1>1, <1>2, <2>1
  <2> QED
    BY <1>1, <1>2, <1>4, <2>1, <2>2 DEF Inv, LeaseInv, Owns
<1>9. MarkInv'
  <2>1. \A s \in Threads : out'[s] \in {out[s], NoOutput}
    BY <1>1, <1>4
  <2> QED
    BY <1>1, <2>1, ForgetKeepsMarks DEF Inv, MarkInv
<1>10. RunningCapHolds'
  BY <1>1, <1>4, RunningShrinks DEF NoJob
<1> QED
  BY <1>3, <1>5, <1>6, <1>7, <1>8, <1>9, <1>10 DEF Inv

LEMMA ClearMemoryDataInv ==
    ASSUME Inv, ClearMemoryData
    PROVE  Inv'
<1> USE ConstantsAssumption
<1>1. /\ out' = [t \in Threads |-> NoOutput]
      /\ job' = [t \in Threads |-> NoJob]
      /\ global' = NoGlobal
      /\ wiped' = [jobs |-> [t \in Threads |-> issued], global |-> issued]
      /\ UNCHANGED <<clock, updated, mode, deleting, polluter, issued, worker, claims>>
      /\ issued \in 0 .. MaxTokens
  BY DEF ClearMemoryData, env, Inv, TypeOK
<1>2. TypeOK'
  BY <1>1, Defaults DEF Inv, TypeOK
<1>3. TokenInv'
  BY <1>1 DEF Inv, TokenInv, NoJob, NoGlobal
<1>4. JobInv'
  BY <1>1 DEF Inv, TypeOK, Claim, JobInv, Owns, OutputMatchesSuccess, NothingResurrected, NoJob
<1>5. LeaseInv'
  <2> SUFFICES ASSUME NEW c \in claims, c.token > wiped'.jobs[c.thread]
               PROVE  FALSE
    BY <1>1 DEF LeaseInv
  <2>1. c.token \in Nat /\ c.token <= issued /\ c.thread \in Threads
    BY DEF Inv, TypeOK, TokenInv, Claim, Tokens
  <2> QED
    BY <1>1, <2>1
<1>6. LockInv'
  <2>1. ASSUME NEW w \in Workers, worker'[w].token > wiped'.global
        PROVE  FALSE
    <3>1. worker[w].token \in Nat /\ worker[w].token <= issued
      BY DEF Inv, TypeOK, TokenInv, Process
    <3> QED
      BY <1>1, <2>1, <3>1
  <2> QED
    BY <1>1, <2>1 DEF LockInv, OwnsLock, NoGlobal
<1>7. MarkInv'
  BY <1>1 DEF Inv, MarkInv, WatermarkCovers, MarksOfLastRun, NoGlobal, NoOutput, Null
<1>8. RunningCapHolds'
  BY <1>1, RunningShrinks DEF NoJob
<1> QED
  BY <1>2, <1>3, <1>4, <1>5, <1>6, <1>7, <1>8 DEF Inv

LEMMA PruneInv ==
    ASSUME Inv, NEW w \in Workers, Prune(w)
    PROVE  Inv'
<1> USE ConstantsAssumption
<1>1. PICK stale \in SUBSET Threads :
         out' = [t \in Threads |-> IF t \in stale THEN NoOutput ELSE out[t]]
  BY DEF Prune
<1>2. /\ UNCHANGED <<clock, updated, mode, deleting, polluter>>
      /\ UNCHANGED <<job, global, issued, wiped, worker, claims>>
      /\ out \in [Threads -> OutputRow] /\ clock \in Times /\ clock >= clock
  BY DEF Prune, env, Inv, TypeOK, Times
<1>3. TypeOK'
  BY <1>1, <1>2, Defaults DEF Inv, TypeOK
<1>4. TokenInv'
  BY <1>2, TokenFrame
<1>5. JobInv'
  <2>1. \A t \in Threads : out'[t] = out[t] \/ out'[t] = NoOutput
    BY <1>1
  <2>2. ASSUME NEW t \in Threads, job[t].status = "running"
        PROVE  job[t].input > out'[t].source
    <3>1. job[t].input > job[t].success /\ job[t].input > out[t].source
      BY <2>2 DEF Inv, JobInv
    <3>2. job[t].success \in Int /\ job[t].success >= Null /\ job[t].input \in Int
      BY DEF Inv, TypeOK, JobRow, Null, Times
    <3>3. CASE out'[t] = NoOutput
      BY <3>1, <3>2, <3>3 DEF NoOutput, Null
    <3> QED
      BY <2>1, <3>1, <3>3
  <2> QED
    BY <1>2, <2>1, <2>2
       DEF Inv, JobInv, Owns, OutputMatchesSuccess, NothingResurrected, NoOutput
<1>6. LeaseInv'
  BY <1>2 DEF Inv, LeaseInv, Owns
<1>7. LockInv'
  BY <1>2 DEF Inv, LockInv, OwnsLock, Consolidating
<1>8. MarkInv'
  BY <1>1, <1>2, ForgetKeepsMarks DEF Inv, MarkInv
<1>9. RunningCapHolds'
  BY <1>2, RunningShrinks
<1> QED
  BY <1>3, <1>4, <1>5, <1>6, <1>7, <1>8, <1>9 DEF Inv
-----------------------------------------------------------------------------
(* Extraction jobs are claimed and end *)

LEMMA TryClaimInv ==
    ASSUME Inv, NEW w \in Workers, NEW item \in worker[w].items, NEW at \in Times,
           TryClaim(w, item, at)
    PROVE  Inv'
<1> USE ConstantsAssumption
<1> DEFINE t == item[1]
           source == item[2]
           n == issued + 1
           row == ClaimedJob(t, source, at)
           new == [token |-> n, worker |-> w, thread |-> t,
                   source |-> source, lease |-> at + LeaseSeconds]
<1>1. /\ ~UpToDate(t, source) /\ Claimable(t, source, at)
      /\ issued < MaxTokens /\ issued' = n
      /\ job' = [job EXCEPT ![t] = row]
      /\ claims' = claims \cup {new}
      /\ worker' = [worker EXCEPT ![w].items = @ \ {item}, ![w].got = @ + 1, ![w].at = clock]
      /\ UNCHANGED <<clock, updated, mode, deleting, polluter, out, global, wiped>>
      /\ worker[w].pc = "scan" /\ at \in worker[w].at .. clock
  BY DEF TryClaim, env
<1>2. /\ clock \in Times /\ issued \in 0 .. MaxTokens /\ worker \in [Workers -> Process]
      /\ job \in [Threads -> JobRow] /\ out \in [Threads -> OutputRow] /\ claims \subseteq Claim
      /\ wiped.jobs \in [Threads -> 0 .. MaxTokens]
  BY DEF Inv, TypeOK
<1>3. item \in Threads \X Times
  BY <1>2 DEF Process
<1>4. t \in Threads /\ source \in Times /\ at <= clock /\ n \in Tokens /\ n > issued /\ n \in Nat
  BY <1>1, <1>2, <1>3 DEF Tokens, Process, Times
<1> HIDE DEF t, source, n
<1>5. /\ job[t].status # "running" \/ job[t].lease <= at
      /\ source > out[t].source /\ source > job[t].success
      /\ source > job[t].input \/ job[t].retries > 0
      /\ Cardinality(RunningAt(at)) < MaxRunning
  <2>1. job[t].success \in Int /\ out[t].source \in Int /\ source \in Int
    BY <1>2, <1>4 DEF JobRow, OutputRow, Times, Null
  <2> QED
    BY <1>1, <2>1 DEF Claimable, UpToDate
<1>6. /\ row \in JobRow
      /\ row.status = "running" /\ row.token = n /\ row.lease = at + LeaseSeconds
      /\ row.retries >= 1 /\ row.input = source /\ row.success = job[t].success
  <2> DEFINE r == IF source > job[t].input THEN Retries ELSE job[t].retries
  <2>1. job[t] \in JobRow
    BY <1>2, <1>4
  <2>2. r \in 0 .. Retries /\ r >= 1
    BY <1>5, <2>1 DEF JobRow
  <2>3. row = [job[t] EXCEPT !.status = "running", !.token = n, !.lease = at + LeaseSeconds,
                             !.retry_at = Null, !.retries = r, !.input = source]
    BY DEF ClaimedJob, n
  <2>4. at + LeaseSeconds \in Int /\ n \in 0 .. MaxTokens /\ Null \in Int
    BY <1>4 DEF Times, Tokens, Null
  <2> HIDE DEF r, row
  <2> QED
    BY <1>4, <2>1, <2>2, <2>3, <2>4 DEF JobRow
<1>7. new \in Claim
  <2>1. at + LeaseSeconds \in Int
    BY <1>4 DEF Times
  <2> QED
    BY <1>4, <2>1 DEF Claim
<1> HIDE DEF row
<1>8. \A s \in Threads : job'[s] = IF s = t THEN row ELSE job[s]
  BY <1>1, <1>2, <1>4
<1>9. /\ worker' \in [Workers -> Process]
      /\ \A v \in Workers : worker'[v].token = worker[v].token /\ worker'[v].pc = worker[v].pc
                            /\ worker'[v].lease = worker[v].lease /\ worker'[v].mark = worker[v].mark
  <2> DEFINE p == [worker[w] EXCEPT !.items = @ \ {item}, !.got = @ + 1, !.at = clock]
  <2>1. p \in Process
    <3> DEFINE i == worker[w].items \ {item}
               g == worker[w].got + 1
    <3>1. i \in SUBSET (Threads \X Times) /\ g \in Nat /\ worker[w] \in Process
      BY <1>2 DEF Process
    <3>2. p = [worker[w] EXCEPT !.items = i, !.got = g, !.at = clock]
      OBVIOUS
    <3> HIDE DEF i, g, p
    <3> QED
      BY <1>2, <3>1, <3>2 DEF Process
  <2>2. p.token = worker[w].token /\ p.pc = worker[w].pc /\ p.lease = worker[w].lease
        /\ p.mark = worker[w].mark
    BY <1>2 DEF Process
  <2>3. worker' = [worker EXCEPT ![w] = p]
    BY <1>1, <1>2
  <2> HIDE DEF p
  <2> QED
    BY <1>2, <2>1, <2>2, <2>3
<1>10. TypeOK'
  <2>1. job' \in [Threads -> JobRow] /\ claims' \subseteq Claim
    BY <1>1, <1>2, <1>6, <1>7
  <2>2. issued' \in 0 .. MaxTokens
    BY <1>1, <1>4 DEF Tokens
  <2> QED
    BY <1>1, <1>9, <2>1, <2>2 DEF Inv, TypeOK
<1>11. /\ new.token = n /\ new.thread = t /\ new.source = source
       /\ new.lease = at + LeaseSeconds
  OBVIOUS
<1> HIDE DEF new
<1>12. /\ \A c \in claims : c.token \in Nat /\ c.token <= issued /\ c.token # n
       /\ \A c \in claims : c.thread \in Threads
       /\ \A s \in Threads : wiped.jobs[s] <= issued /\ wiped.jobs[s] \in Nat
       /\ \A s \in Threads : job[s].token <= issued /\ job[s].token \in Nat
  BY <1>2, <1>4 DEF Inv, TokenInv, Claim, Tokens, JobRow
<1>13. TokenInv'
  <2>1. \A s \in Threads : job'[s].token <= issued' /\ wiped'.jobs[s] <= issued'
    BY <1>1, <1>2, <1>4, <1>6, <1>8, <1>12
  <2>2. global'.token <= issued' /\ wiped'.global <= issued'
    <3>1. global.token \in Nat /\ wiped.global \in Nat
      BY DEF Inv, TypeOK, GlobalRow
    <3> QED
      BY <1>1, <1>2, <1>4, <3>1 DEF Inv, TokenInv
  <2>3. \A c \in claims' : c.token <= issued'
    BY <1>1, <1>2, <1>4, <1>11, <1>12
  <2>4. \A c, d \in claims' : c.token = d.token => c = d
    BY <1>1, <1>11, <1>12 DEF Inv, TokenInv
  <2>5. \A v \in Workers : worker'[v].token <= issued'
    <3>1. \A v \in Workers : worker[v].token \in Nat /\ worker[v].token <= issued
      BY <1>2 DEF Process, Inv, TokenInv
    <3> QED
      BY <1>1, <1>2, <1>4, <1>9, <3>1
  <2>6. \A u, v \in Workers : worker'[u].token = worker'[v].token => u = v \/ worker'[u].token = 0
    BY <1>9 DEF Inv, TokenInv
  <2> QED
    BY <2>1, <2>2, <2>3, <2>4, <2>5, <2>6 DEF TokenInv
<1>14. \A c \in claims' : Owns(c)' => c = new \/ (c \in claims /\ c.thread # t /\ Owns(c))
  BY <1>1, <1>6, <1>8, <1>12 DEF Owns
<1>15. JobInv'
  <2>1. \A s \in Threads : job'[s].status = "running" =>
          /\ job'[s].retries >= 1
          /\ job'[s].input > job'[s].success /\ job'[s].input > out'[s].source
    BY <1>1, <1>5, <1>6, <1>8 DEF Inv, JobInv
  <2>2. \A s \in Threads : job'[s].status # "none" => job'[s].token > wiped'.jobs[s]
    BY <1>1, <1>2, <1>4, <1>6, <1>8, <1>12 DEF Inv, JobInv
  <2>3. \A c \in claims' : Owns(c)' => job'[c.thread].input = c.source
    BY <1>4, <1>6, <1>8, <1>11, <1>12, <1>14 DEF Inv, JobInv
  <2>4. \A s \in Threads : job'[s].success = job[s].success
    BY <1>6, <1>8
  <2> QED
    BY <1>1, <2>1, <2>2, <2>3, <2>4 DEF Inv, JobInv, OutputMatchesSuccess, NothingResurrected
<1>16. LeaseInv'
  <2> SUFFICES ASSUME NEW c \in claims', c.lease > clock, c.token > wiped.jobs[c.thread]
               PROVE  Owns(c)' /\ job'[c.thread].lease = c.lease
    BY <1>1 DEF LeaseInv
  <2>1. CASE c = new
    BY <1>4, <1>6, <1>8, <1>11, <2>1 DEF Owns
  <2>2. CASE c \in claims
    <3>1. Owns(c) /\ job[c.thread].lease = c.lease
      BY <2>2 DEF Inv, LeaseInv
    <3>2. c.thread # t
      <4>1. c.lease \in Int /\ clock \in Int /\ at \in Int
        BY <1>2, <1>4, <2>2 DEF Claim, Times
      <4> QED
        BY <1>4, <1>5, <3>1, <4>1 DEF Owns
    <3> QED
      BY <1>8, <1>12, <2>2, <3>1, <3>2 DEF Owns
  <2> QED
    BY <1>1, <2>1, <2>2
<1>17. LockInv'
  BY <1>1, <1>9 DEF Inv, LockInv, Consolidating, OwnsLock
<1>18. MarkInv'
  BY <1>1, MarkFrame DEF Inv, MarkInv
<1>19. RunningCapHolds'
  <2>1. RunningAt(clock)' \subseteq RunningAt(at) \cup {t}
    <3> SUFFICES ASSUME NEW s \in Threads, s # t, job'[s].status = "running", job'[s].lease > clock
                 PROVE  s \in RunningAt(at)
      BY <1>1 DEF RunningAt
    <3>1. job[s].lease \in Int /\ clock \in Int /\ at \in Int
      BY <1>2, <1>4 DEF JobRow, Times
    <3> QED
      BY <1>4, <1>8, <3>1 DEF RunningAt
  <2>2. IsFiniteSet(RunningAt(at))
    BY FS_Subset DEF RunningAt
  <2>3. /\ IsFiniteSet(RunningAt(at) \cup {t})
        /\ Cardinality(RunningAt(at) \cup {t}) <= Cardinality(RunningAt(at)) + 1
        /\ Cardinality(RunningAt(at)) \in Nat
    <3> DEFINE R == RunningAt(at)
    <3>1. Cardinality(R) \in Nat /\ IsFiniteSet(R)
      BY <2>2, FS_CardinalityType
    <3> HIDE DEF R
    <3>2. IsFiniteSet(R \cup {t})
      BY <3>1, FS_AddElement
    <3>3. Cardinality(R \cup {t}) = IF t \in R THEN Cardinality(R) ELSE Cardinality(R) + 1
      BY <3>1, FS_AddElement
    <3>4. Cardinality(R \cup {t}) <= Cardinality(R) + 1
      BY <3>1, <3>3
    <3> QED
      BY <3>1, <3>2, <3>4 DEF R
  <2>4. /\ Cardinality(RunningAt(clock)') <= Cardinality(RunningAt(at) \cup {t})
        /\ Cardinality(RunningAt(clock)') \in Nat /\ Cardinality(RunningAt(at) \cup {t}) \in Nat
    BY <2>1, <2>3, FS_Subset, FS_CardinalityType
  <2> QED
    BY <1>5, <2>3, <2>4 DEF RunningCapHolds
<1> QED
  BY <1>10, <1>13, <1>15, <1>16, <1>17, <1>18, <1>19 DEF Inv

\* A report that is lost, or comes from a worker that lost its row, only ends
\* the job in its process.
LEMMA JobForgotten ==
    ASSUME Inv, NEW c \in claims, JobEnds(c), UNCHANGED <<job, out, global>>
    PROVE  Inv'
<1>1. /\ claims' \subseteq claims
      /\ UNCHANGED <<clock, updated, mode, deleting, polluter, issued, wiped, worker>>
      /\ clock' \in Times /\ clock' >= clock
  BY ConstantsAssumption DEF JobEnds, env, Inv, TypeOK, Times
<1>2. TypeOK'
  BY <1>1 DEF Inv, TypeOK
<1>3. TokenInv'
  BY <1>1, TokenFrame
<1>4. JobInv' /\ LeaseInv' /\ RunningCapHolds'
  BY <1>1, JobFrame
<1>5. LockInv'
  BY <1>1 DEF Inv, LockInv, Consolidating, OwnsLock
<1>6. MarkInv'
  BY <1>1, MarkFrame DEF Inv, MarkInv
<1> QED
  BY <1>2, <1>3, <1>4, <1>5, <1>6 DEF Inv

\* The owner of a row ends its job: nobody else owns it.
LEMMA OwnerEnds ==
    ASSUME Inv, NEW c \in claims, JobEnds(c), Owns(c), NEW row \in JobRow,
           row.status \in {"done", "error"}, row.token = job[c.thread].token,
           job' = [job EXCEPT ![c.thread] = row], global'.token = global.token
    PROVE  /\ TokenInv' /\ LeaseInv' /\ RunningCapHolds'
           /\ \A d \in claims' : d.thread \in Threads
           /\ \A d \in claims' : Owns(d)' => Owns(d) /\ d.thread # c.thread
           /\ \A t \in Threads : job'[t] = IF t = c.thread THEN row ELSE job[t]
           /\ job[c.thread].token > wiped.jobs[c.thread] /\ c.thread \in Threads
           /\ job[c.thread].input = c.source
<1> USE ConstantsAssumption
<1>1. /\ claims' = claims \ {c} /\ UNCHANGED <<clock, issued, wiped, worker>>
      /\ claims \subseteq Claim /\ job \in [Threads -> JobRow]
      /\ c.thread \in Threads
  BY DEF JobEnds, env, Inv, TypeOK, Claim
<1>2. \A t \in Threads : job'[t] = IF t = c.thread THEN row ELSE job[t]
  BY <1>1
<1>3. \A d \in claims : d.thread \in Threads /\ (d.token = c.token => d = c)
  BY <1>1 DEF Claim, Inv, TokenInv
<1>4. \A d \in claims' : Owns(d)' => Owns(d) /\ d.thread # c.thread
  BY <1>1, <1>2, <1>3 DEF Owns
<1>5. TokenInv'
  BY <1>1, <1>2, TokenFrame
<1>6. LeaseInv'
  <2> SUFFICES ASSUME NEW d \in claims', d.lease > clock, d.token > wiped.jobs[d.thread]
               PROVE  Owns(d)' /\ job'[d.thread].lease = d.lease
    BY <1>1 DEF LeaseInv
  <2>1. Owns(d) /\ job[d.thread].lease = d.lease
    BY <1>1 DEF Inv, LeaseInv
  <2>2. d.thread # c.thread
    BY <1>1, <1>3, <2>1 DEF Owns
  <2> QED
    BY <1>1, <1>2, <1>3, <2>1, <2>2 DEF Owns
<1>7. RunningCapHolds'
  BY <1>1, <1>2, RunningShrinks
<1>8. job[c.thread].token > wiped.jobs[c.thread] /\ job[c.thread].input = c.source
  BY <1>1 DEF Inv, JobInv, Owns
<1> QED
  BY <1>1, <1>2, <1>3, <1>4, <1>5, <1>6, <1>7, <1>8

LEMMA JobFailedInv ==
    ASSUME Inv, NEW c \in claims, JobFailed(c)
    PROVE  Inv'
<1> USE ConstantsAssumption
<1>1. CASE ~Owns(c)
  BY <1>1, JobForgotten DEF JobFailed
<1>2. CASE Owns(c)
  <2> DEFINE row == [job[c.thread] EXCEPT !.status = "error", !.lease = Null,
                        !.retry_at = clock + RetryDelay, !.retries = @ - 1]
  <2>1. /\ JobEnds(c) /\ UNCHANGED <<out, global>>
        /\ UNCHANGED <<clock, updated, mode, deleting, polluter, issued, wiped, worker>>
        /\ claims' \subseteq claims /\ claims \subseteq Claim
        /\ c.thread \in Threads /\ job[c.thread] \in JobRow /\ job \in [Threads -> JobRow]
        /\ clock \in Times
    BY DEF JobFailed, JobEnds, env, Inv, TypeOK, Claim
  <2>2. job' = [job EXCEPT ![c.thread] = row]
    BY <1>2, <2>1 DEF JobFailed
  <2>3. row \in JobRow
    <3>1. job[c.thread].retries >= 1
      BY <1>2, <2>1 DEF Inv, JobInv, Owns
    <3>2. job[c.thread].retries - 1 \in 0 .. Retries
      BY <2>1, <3>1 DEF JobRow
    <3>3. clock + RetryDelay \in Int /\ Null \in Int
      BY <2>1 DEF Times, Null
    <3> QED
      BY <2>1, <3>2, <3>3 DEF JobRow
  <2>4. row.status = "error" /\ row.token = job[c.thread].token
        /\ row.success = job[c.thread].success
    BY <2>1 DEF JobRow
  <2> HIDE DEF row
  <2>5. /\ TokenInv' /\ LeaseInv' /\ RunningCapHolds'
        /\ \A d \in claims' : d.thread \in Threads
        /\ \A d \in claims' : Owns(d)' => Owns(d) /\ d.thread # c.thread
        /\ \A t \in Threads : job'[t] = IF t = c.thread THEN row ELSE job[t]
        /\ job[c.thread].token > wiped.jobs[c.thread]
    BY <1>2, <2>1, <2>2, <2>3, <2>4, OwnerEnds
  <2>6. TypeOK'
    BY <2>1, <2>2, <2>3 DEF Inv, TypeOK
  <2>7. JobInv'
    <3>1. \A d \in claims' : Owns(d)' => job'[d.thread].input = d.source
      BY <2>1, <2>5 DEF Inv, JobInv
    <3>2. \A t \in Threads : job'[t].success = job[t].success
      BY <2>4, <2>5
    <3> QED
      BY <2>1, <2>4, <2>5, <3>1, <3>2
         DEF Inv, JobInv, OutputMatchesSuccess, NothingResurrected
  <2>8. LockInv'
    BY <2>1 DEF Inv, LockInv, Consolidating, OwnsLock
  <2>9. MarkInv'
    BY <2>1, MarkFrame DEF Inv, MarkInv
  <2> QED
    BY <2>5, <2>6, <2>7, <2>8, <2>9 DEF Inv
<1> QED
  BY <1>1, <1>2

LEMMA JobSucceededInv ==
    ASSUME Inv, NEW c \in claims, JobSucceeded(c) \/ JobSucceededNoOutput(c)
    PROVE  Inv'
<1> USE ConstantsAssumption
<1>1. CASE ~Owns(c)
  BY <1>1, JobForgotten DEF JobSucceeded, JobSucceededNoOutput
<1>2. CASE Owns(c)
  <2> DEFINE t == c.thread
             row == SucceededJob(t)
             g == Enqueued(global, c.source)
             new == [out[t] EXCEPT !.source = c.source, !.token = c.token]
  <2>1. /\ JobEnds(c)
        /\ UNCHANGED <<clock, updated, mode, deleting, polluter, issued, wiped, worker>>
        /\ claims' \subseteq claims /\ claims \subseteq Claim /\ c \in Claim
        /\ t \in Threads /\ job[t] \in JobRow /\ job \in [Threads -> JobRow]
        /\ out[t] \in OutputRow /\ out \in [Threads -> OutputRow]
        /\ clock \in Times /\ c.source \in Times /\ c.token \in 1 .. MaxTokens
        /\ job' = [job EXCEPT ![t] = row]
    BY <1>2 DEF JobSucceeded, JobSucceededNoOutput, JobEnds, env, Inv, TypeOK, Claim, Tokens
  <2>2. /\ job[t].input = c.source /\ job[t].token = c.token
        /\ job[t].input > job[t].success /\ job[t].input > out[t].source
    BY <1>2, <2>1 DEF Inv, JobInv, Owns
  <2>3. /\ row \in JobRow /\ row.status = "done" /\ row.token = job[t].token
        /\ row.success = c.source
    <3>1. Null \in Int /\ job[t].input \in {Null} \cup Times
      BY <2>1 DEF JobRow, Null
    <3>2. row = [job[t] EXCEPT !.status = "done", !.lease = Null, !.success = job[t].input]
      BY DEF SucceededJob
    <3> HIDE DEF row
    <3> QED
      BY <2>1, <2>2, <3>1, <3>2 DEF JobRow
  <2>4. /\ \/ global' = g /\ out' = [out EXCEPT ![t] = new]
           \/ global' \in {global, g} /\ out' = [out EXCEPT ![t] = NoOutput]
    <3>1. c.source \in Int /\ out[t].source \in Int
      BY <2>1 DEF OutputRow, Times, Null
    <3>2. CASE JobSucceeded(c)
      <4>1. c.source >= out[t].source
        BY <2>2, <3>1
      <4> QED
        BY <1>2, <2>1, <3>2, <4>1 DEF JobSucceeded
    <3>3. CASE JobSucceededNoOutput(c)
      BY <1>2, <2>2, <3>3 DEF JobSucceededNoOutput
    <3> QED
      BY <3>2, <3>3
  <2>5. /\ global' \in GlobalRow /\ global'.token = global.token /\ LockInv'
        /\ global'.success <= global'.input /\ global'.input >= global.input
        /\ global' = g => global'.input >= c.source /\ global'.status # "done"
    <3>1. CASE global' = g
      BY <2>1, <3>1, EnqueueKeeps
    <3>2. CASE global' = global /\ global' # g
      <4>1. global \in GlobalRow
        BY DEF Inv, TypeOK
      <4>2. LockInv'
        BY <2>1, <3>2 DEF Inv, LockInv, Consolidating, OwnsLock
      <4> QED
        BY <3>2, <4>1, <4>2 DEF GlobalRow, Inv, MarkInv, WatermarkCovers
    <3> QED
      BY <2>4, <3>1, <3>2
  <2>6. /\ new \in OutputRow /\ new.source = c.source /\ new.token = c.token
        /\ new.selected = out[t].selected /\ new.by = out[t].by /\ new.source # Null
    <3>1. c.source # Null
      BY <2>1 DEF Null, Times
    <3>2. c.token \in 0 .. MaxTokens
      BY <2>1
    <3> QED
      BY <2>1, <3>1, <3>2 DEF OutputRow
  <2> HIDE DEF row, g, new
  <2>7. /\ TokenInv' /\ LeaseInv' /\ RunningCapHolds'
        /\ \A d \in claims' : d.thread \in Threads
        /\ \A d \in claims' : Owns(d)' => Owns(d) /\ d.thread # t
        /\ \A s \in Threads : job'[s] = IF s = t THEN row ELSE job[s]
        /\ job[t].token > wiped.jobs[t]
    BY <1>2, <2>1, <2>3, <2>5, OwnerEnds
  <2>8. \A s \in Threads : out'[s] = IF s = t THEN out'[t] ELSE out[s]
    BY <2>1, <2>4
  <2>9. out'[t] = new \/ out'[t] = NoOutput
    BY <2>1, <2>4
  <2>10. TypeOK'
    <3>1. out' \in [Threads -> OutputRow] /\ job' \in [Threads -> JobRow]
      BY <2>1, <2>3, <2>4, <2>6, Defaults
    <3> QED
      BY <2>1, <2>5, <3>1 DEF Inv, TypeOK
  <2>11. JobInv'
    <3>1. \A d \in claims' : Owns(d)' => job'[d.thread].input = d.source
      BY <2>1, <2>7 DEF Inv, JobInv
    <3>2. \A s \in Threads : job'[s].status = "running" =>
            /\ job'[s].retries >= 1
            /\ job'[s].input > job'[s].success /\ job'[s].input > out'[s].source
      BY <2>3, <2>7, <2>8 DEF Inv, JobInv
    <3>3. \A s \in Threads : job'[s].status # "none" => job'[s].token > wiped'.jobs[s]
      BY <2>1, <2>3, <2>7 DEF Inv, JobInv
    <3>4. \A s \in Threads : out'[s].source = Null => out'[s] = NoOutput
      BY <2>6, <2>8, <2>9 DEF Inv, JobInv
    <3>5. OutputMatchesSuccess'
      BY <2>3, <2>6, <2>7, <2>8, <2>9 DEF Inv, JobInv, OutputMatchesSuccess
    <3>6. NothingResurrected'
      BY <2>1, <2>2, <2>6, <2>7, <2>8, <2>9 DEF Inv, JobInv, NothingResurrected
    <3> QED
      BY <3>1, <3>2, <3>3, <3>4, <3>5, <3>6 DEF JobInv
  <2>12. MarkInv'
    <3>1. CASE out' = [out EXCEPT ![t] = NoOutput]
      <4>1. \A s \in Threads : out'[s] \in {out[s], NoOutput}
        BY <2>8, <3>1, <2>1
      <4>2. global' \in {global, Enqueued(global, c.source)}
        BY <2>4 DEF g
      <4> QED
        BY <2>1, <4>1, <4>2, ForgetKeepsMarks DEF Inv, MarkInv
    <3>2. CASE global' = g /\ out' = [out EXCEPT ![t] = new]
      <4>1. out'[t] = new
        BY <2>1, <3>2
      <4>2. global'.input \in Int /\ global.input \in Int /\ c.source \in Int
        BY <2>1, <2>5 DEF GlobalRow, Inv, TypeOK, Times
      <4>3. ASSUME NEW s \in Threads PROVE out'[s].source <= global'.input
        <5>1. out[s].source \in Int /\ out[s].source <= global.input
          BY <2>1 DEF OutputRow, Times, Null, Inv, MarkInv, WatermarkCovers
        <5>2. CASE s = t
          BY <2>5, <2>6, <3>2, <4>1, <4>2, <5>2
        <5>3. CASE s # t
          BY <2>5, <2>8, <4>2, <5>1, <5>3
        <5> QED
          BY <5>2, <5>3
      <4>4. MarksOfLastRun'
        <5> SUFFICES ASSUME NEW s \in Threads, out'[s].selected # Null
                     PROVE  out'[s].selected <= out'[s].source
          BY <2>5, <3>2 DEF MarksOfLastRun
        <5>1. CASE s = t
          <6>1. out[t].selected \in Int /\ out[t].source \in Int
            BY <2>1 DEF OutputRow, Times, Null
          <6>2. out[t].selected <= out[t].source
            BY <2>1, <2>6, <4>1, <5>1 DEF Inv, MarkInv, MarksOfLastRun
          <6> QED
            BY <2>2, <2>6, <4>1, <4>2, <5>1, <6>1, <6>2
        <5>2. CASE s # t
          BY <2>8, <5>2 DEF Inv, MarkInv, MarksOfLastRun
        <5> QED
          BY <5>1, <5>2
      <4> QED
        BY <2>1, <2>5, <4>3, <4>4 DEF Inv, MarkInv, WatermarkCovers
    <3> QED
      BY <2>4, <3>1, <3>2
  <2> QED
    BY <2>5, <2>7, <2>10, <2>11, <2>12 DEF Inv
<1> QED
  BY <1>1, <1>2
-----------------------------------------------------------------------------
(* The consolidation lock *)

LEMMA ClaimLockInv ==
    ASSUME Inv, NEW w \in Workers, NEW at \in Times, ClaimLock(w, at)
    PROVE  Inv'
<1> USE ConstantsAssumption
<1> DEFINE n == issued + 1
           l == at + LeaseSeconds
           old == IF global.status = "none"
                  THEN [NoGlobal EXCEPT !.retries = Retries, !.input = 0, !.success = 0]
                  ELSE global
           row == LockedRow(at)
           p == [Idle EXCEPT !.pc = "select", !.token = n, !.mark = row.input, !.lease = l]
<1>1. /\ ~LockUnavailable(at) /\ issued < MaxTokens /\ issued' = n
      /\ global' = row /\ worker' = [worker EXCEPT ![w] = p]
      /\ UNCHANGED <<clock, updated, mode, deleting, polluter, job, out, wiped, claims>>
      /\ at \in worker[w].at .. clock
  BY DEF ClaimLock, env
<1>2. /\ clock \in Times /\ issued \in 0 .. MaxTokens /\ worker \in [Workers -> Process]
      /\ global \in GlobalRow /\ out \in [Threads -> OutputRow] /\ claims \subseteq Claim
  BY DEF Inv, TypeOK
<1>3. at <= clock /\ n \in Tokens /\ n > issued /\ n \in Nat /\ n \in 0 .. MaxTokens /\ l \in Int
  BY <1>1, <1>2 DEF Tokens, Process, Times
<1>4. /\ old \in GlobalRow /\ old.success <= old.input
      /\ \A t \in Threads : out[t].source <= old.input
  <2>1. CASE global.status = "none"
    <3>1. global = NoGlobal /\ global.input = Null
      BY <2>1 DEF Inv, LockInv, NoGlobal
    <3>2. ASSUME NEW t \in Threads PROVE out[t].source <= 0
      BY <1>2, <3>1 DEF Inv, MarkInv, WatermarkCovers, OutputRow, Null, Times
    <3>3. old = [NoGlobal EXCEPT !.retries = Retries, !.input = 0, !.success = 0]
      BY <2>1
    <3>4. Retries \in 0 .. Retries /\ 0 \in Int
      OBVIOUS
    <3>5. old \in GlobalRow /\ old.input = 0 /\ old.success = 0
      BY <3>3, <3>4, Defaults DEF GlobalRow
    <3> QED
      BY <3>2, <3>5
  <2>2. CASE global.status # "none"
    BY <1>2, <2>2 DEF Inv, MarkInv, WatermarkCovers
  <2> QED
    BY <2>1, <2>2
<1>5. row = [old EXCEPT !.status = "running", !.token = n, !.lease = l,
                        !.retry_at = Null, !.finished = Null, !.failed = FALSE]
  BY DEF LockedRow
<1> HIDE DEF old, row, n, l
<1>6. /\ row \in GlobalRow /\ row.status = "running" /\ row.token = n /\ row.lease = l
      /\ row.input = old.input /\ row.success = old.success /\ row.input \in Int
  <2>1. Null \in Int
    BY DEF Null
  <2> QED
    BY <1>3, <1>4, <1>5, <2>1 DEF GlobalRow
<1>7. p \in Process /\ p.token = n /\ p.lease = l /\ p.mark = row.input
  BY <1>3, <1>6, Defaults DEF Process
<1> HIDE DEF p
<1>8. \A v \in Workers : worker'[v] = IF v = w THEN p ELSE worker[v]
  BY <1>1, <1>2
<1>9. TypeOK'
  BY <1>1, <1>2, <1>3, <1>6, <1>7 DEF Inv, TypeOK
<1>10. \A v \in Workers : worker[v].token \in Nat /\ worker[v].token <= issued /\ worker[v].token # n
  BY <1>2, <1>3 DEF Inv, TokenInv, Process
<1>11. TokenInv'
  <2>1. \A t \in Threads : job'[t].token <= issued' /\ wiped'.jobs[t] <= issued'
    <3>1. \A t \in Threads : job[t].token \in Nat /\ wiped.jobs[t] \in Nat
      BY DEF Inv, TypeOK, JobRow
    <3> QED
      BY <1>1, <1>2, <1>3, <3>1 DEF Inv, TokenInv
  <2>2. global'.token <= issued' /\ wiped'.global <= issued'
    <3>1. wiped.global \in Nat
      BY DEF Inv, TypeOK
    <3> QED
      BY <1>1, <1>2, <1>3, <1>6, <3>1 DEF Inv, TokenInv
  <2>3. \A c \in claims' : c.token <= issued'
    <3>1. \A c \in claims : c.token \in Nat
      BY <1>2 DEF Claim, Tokens
    <3> QED
      BY <1>1, <1>2, <1>3, <3>1 DEF Inv, TokenInv
  <2>4. \A c, d \in claims' : c.token = d.token => c = d
    BY <1>1 DEF Inv, TokenInv
  <2>5. \A v \in Workers : worker'[v].token <= issued'
    BY <1>1, <1>2, <1>3, <1>7, <1>8, <1>10
  <2>6. \A u, v \in Workers : worker'[u].token = worker'[v].token => u = v \/ worker'[u].token = 0
    BY <1>7, <1>8, <1>10 DEF Inv, TokenInv
  <2> QED
    BY <2>1, <2>2, <2>3, <2>4, <2>5, <2>6 DEF TokenInv
<1>12. JobInv' /\ LeaseInv' /\ RunningCapHolds'
  <2>1. clock' \in Times /\ clock' >= clock
    BY <1>1, <1>2 DEF Times
  <2> QED
    BY <1>1, <2>1, JobFrame
<1>13. LockInv'
  <2>1. ASSUME NEW v \in Workers, Consolidating(v)', OwnsLock(v)'
        PROVE  worker'[v].mark <= global'.input
    <3>1. v = w
      BY <1>1, <1>6, <1>8, <1>10, <2>1 DEF OwnsLock
    <3> QED
      BY <1>1, <1>6, <1>7, <1>8, <3>1
  <2>2. ASSUME NEW v \in Workers, Consolidating(v)', worker'[v].lease > clock,
               worker'[v].token > wiped.global
        PROVE  OwnsLock(v)' /\ global'.lease = worker'[v].lease
    <3>1. CASE v = w
      BY <1>1, <1>6, <1>7, <1>8, <3>1 DEF OwnsLock
    <3>2. CASE v # w
      <4>1. worker'[v] = worker[v]
        BY <1>8, <3>2
      <4>2. OwnsLock(v) /\ global.lease = worker[v].lease
        BY <2>2, <4>1 DEF Inv, LockInv, Consolidating
      <4>3. worker[v].lease \in Int /\ clock \in Int /\ at \in Int
        BY <1>2 DEF Process, Times
      <4>4. LockUnavailable(at)
        BY <1>3, <2>2, <4>1, <4>2, <4>3 DEF LockUnavailable, OwnsLock
      <4> QED
        BY <1>1, <4>4
    <3> QED
      BY <3>1, <3>2
  <2> QED
    BY <1>1, <1>3, <1>6, <2>1, <2>2 DEF LockInv, Tokens
<1>14. MarkInv'
  BY <1>1, <1>4, <1>6 DEF Inv, MarkInv, WatermarkCovers, MarksOfLastRun
<1> QED
  BY <1>9, <1>11, <1>12, <1>13, <1>14 DEF Inv

\* Nobody else has the token of a row that runs.
LEMMA OneOwner ==
    ASSUME Inv, NEW v \in Workers, NEW w \in Workers, OwnsLock(v), OwnsLock(w)
    PROVE  v = w
<1>1. global.token >= 1 /\ global.token \in Nat
  BY DEF Inv, LockInv, OwnsLock, TypeOK, GlobalRow
<1>2. worker[v].token = worker[w].token /\ worker[v].token # 0
  BY <1>1 DEF OwnsLock
<1> QED
  BY <1>2 DEF Inv, TokenInv

LEMMA HeartbeatInv ==
    ASSUME Inv, NEW w \in Workers, AgentHeartbeat(w) \/ ConfirmOwnership(w)
    PROVE  Inv'
<1> USE ConstantsAssumption
<1>1. /\ worker \in [Workers -> Process] /\ worker[w] \in Process /\ global \in GlobalRow
      /\ clock \in Times /\ Consolidating(w) /\ clock' = clock
  BY DEF Inv, TypeOK, AgentHeartbeat, ConfirmOwnership, Consolidating, Heartbeat, env
<1>2. CASE ~OwnsLock(w)
  <2>1. PICK p \in {Idle, [worker[w] EXCEPT !.pc = "fail"]} :
           worker' = [worker EXCEPT ![w] = p]
    BY <1>2 DEF AgentHeartbeat, ConfirmOwnership, Heartbeat
  <2>2. p \in Process /\ p.token \in {0, worker[w].token} /\ p.pc \notin Working
    BY <1>1, Defaults DEF Process, Idle, Working
  <2>3. UNCHANGED <<env, rows>> /\ claims' \subseteq claims
    BY <1>2 DEF AgentHeartbeat, ConfirmOwnership, Heartbeat, rows
  <2> QED
    BY <2>1, <2>2, <2>3, InsideWorker
<1>3. CASE OwnsLock(w)
  <2> DEFINE l == clock + LeaseSeconds
  <2>1. PICK next \in {"agent", "reset"} :
           /\ global' = [global EXCEPT !.lease = l]
           /\ worker' = [worker EXCEPT ![w] = [worker[w] EXCEPT !.pc = next, !.lease = l]]
           /\ UNCHANGED <<env, job, out, issued, wiped, claims>>
    BY <1>3 DEF AgentHeartbeat, ConfirmOwnership, Heartbeat
  <2> DEFINE p == [worker[w] EXCEPT !.pc = next, !.lease = l]
  <2>2. l \in Int
    BY <1>1 DEF Times
  <2> HIDE DEF l
  <2>3. /\ p \in Process /\ p.token = worker[w].token /\ p.lease = l
        /\ p.mark = worker[w].mark
    BY <1>1, <2>2 DEF Process
  <2>4. /\ global' \in GlobalRow /\ global'.lease = l /\ global'.token = global.token
        /\ global'.status = global.status /\ global'.input = global.input
        /\ global'.success = global.success
    BY <1>1, <2>1, <2>2 DEF GlobalRow
  <2>5. \A v \in Workers : worker'[v] = IF v = w THEN p ELSE worker[v]
    BY <1>1, <2>1
  <2>6. worker' \in [Workers -> Process]
    BY <1>1, <2>1, <2>3
  <2> HIDE DEF p
  <2>7. UNCHANGED <<clock, updated, mode, deleting, polluter, job, out, issued, wiped, claims>>
        /\ clock' \in Times /\ clock' >= clock
    BY <1>1, <2>1 DEF env, Times
  <2>8. TypeOK'
    BY <2>4, <2>6, <2>7 DEF Inv, TypeOK
  <2>9. TokenInv'
    BY <2>3, <2>4, <2>5, <2>7, TokenFrame
  <2>10. JobInv' /\ LeaseInv' /\ RunningCapHolds'
    BY <2>7, JobFrame
  <2>11. LockInv'
    <3>1. ASSUME NEW v \in Workers, Consolidating(v)', OwnsLock(v)'
          PROVE  worker'[v].mark <= global'.input
      <4>1. OwnsLock(v)
        BY <2>3, <2>4, <2>5, <3>1 DEF OwnsLock
      <4>2. v = w
        BY <1>3, <4>1, OneOwner
      <4> QED
        BY <1>1, <1>3, <2>3, <2>4, <2>5, <4>2 DEF Inv, LockInv
    <3>2. ASSUME NEW v \in Workers, Consolidating(v)', worker'[v].lease > clock,
                 worker'[v].token > wiped.global
          PROVE  OwnsLock(v)' /\ global'.lease = worker'[v].lease
      <4>1. CASE v = w
        BY <1>3, <2>3, <2>4, <2>5, <4>1 DEF OwnsLock
      <4>2. CASE v # w
        <5>1. OwnsLock(v)
          BY <2>5, <3>2, <4>2 DEF Inv, LockInv, Consolidating
        <5> QED
          BY <1>3, <4>2, <5>1, OneOwner
      <4> QED
        BY <4>1, <4>2
    <3>3. global'.status = "running" /\ global'.token >= 1
      BY <1>3, <2>4 DEF Inv, LockInv, OwnsLock
    <3> QED
      BY <2>7, <3>1, <3>2, <3>3 DEF LockInv
  <2>12. MarkInv'
    BY <2>4, <2>7 DEF Inv, MarkInv, WatermarkCovers, MarksOfLastRun
  <2> QED
    BY <2>8, <2>9, <2>10, <2>11, <2>12 DEF Inv
<1> QED
  BY <1>2, <1>3

\* The owner gives the row up.
LEMMA OwnerReleases ==
    ASSUME Inv, NEW w \in Workers, OwnsLock(w), worker' = [worker EXCEPT ![w] = Idle],
           global'.status \in {"done", "error"}, global'.token = global.token,
           UNCHANGED <<env, job, issued, wiped, claims>>
    PROVE  TokenInv' /\ LockInv' /\ worker' \in [Workers -> Process]
<1>1. worker \in [Workers -> Process]
  BY DEF Inv, TypeOK
<1>2. \A v \in Workers : worker'[v] = IF v = w THEN Idle ELSE worker[v]
  BY <1>1
<1>3. TokenInv'
  BY <1>2, TokenFrame DEF Idle
<1>4. LockInv'
  <2> SUFFICES ASSUME NEW v \in Workers, Consolidating(v)', worker'[v].lease > clock',
                      worker'[v].token > wiped'.global
               PROVE  FALSE
    BY DEF LockInv, OwnsLock
  <2>1. v # w
    BY <1>2 DEF Consolidating, Idle
  <2>2. OwnsLock(v)
    BY <1>2, <2>1 DEF Inv, LockInv, Consolidating, env
  <2> QED
    BY <2>1, <2>2, OneOwner
<1> QED
  BY <1>1, <1>3, <1>4, Defaults

LEMMA LockSucceededInv ==
    ASSUME Inv, NEW w \in Workers, LockSucceeded(w)
    PROVE  Inv'
<1> USE ConstantsAssumption
<1>0. worker' = [worker EXCEPT ![w] = Idle] /\ UNCHANGED <<env, job, issued, wiped, claims>>
  BY DEF LockSucceeded
<1>1. CASE ~OwnsLock(w)
  <2>1. UNCHANGED <<env, rows>> /\ claims' \subseteq claims
    BY <1>0, <1>1 DEF LockSucceeded, rows
  <2>2. Idle \in Process /\ Idle.token = 0 /\ Idle.pc \notin Working
    BY Defaults DEF Idle, Working
  <2> QED
    BY <1>0, <2>1, <2>2, InsideWorker
<1>2. CASE OwnsLock(w)
  <2> DEFINE mark == worker[w].mark
             s == Max({global.success, mark})
  <2>1. /\ worker[w].pc = "succeed" /\ worker[w] \in Process /\ global \in GlobalRow
        /\ clock \in Times /\ out \in [Threads -> OutputRow]
    BY DEF LockSucceeded, Inv, TypeOK
  <2>2. global' = [global EXCEPT !.status = "done", !.finished = clock, !.lease = Null,
                                 !.failed = FALSE, !.success = s]
    BY <1>2 DEF LockSucceeded
  <2>3. out' = [t \in Threads |->
              IF <<t, out[t].source>> \in worker[w].chosen
              THEN [out[t] EXCEPT !.selected = out[t].source, !.by = worker[w].token]
              ELSE [out[t] EXCEPT !.selected = Null, !.by = 0]]
    BY <1>2 DEF LockSucceeded
  <2>4. s \in Int /\ s <= global.input
    <3>1. mark \in Int /\ global.success \in Int /\ global.input \in Int
      BY <2>1 DEF Process, GlobalRow
    <3>2. mark <= global.input /\ global.success <= global.input
      BY <1>2, <2>1 DEF Inv, LockInv, MarkInv, WatermarkCovers, Consolidating
    <3> HIDE DEF mark
    <3> QED
      BY <3>1, <3>2, MaxPair
  <2> HIDE DEF s
  <2>5. /\ global' \in GlobalRow /\ global'.status = "done" /\ global'.token = global.token
        /\ global'.input = global.input /\ global'.success = s
    <3>1. Null \in Int
      BY DEF Null
    <3> QED
      BY <2>1, <2>2, <2>4, <3>1 DEF GlobalRow
  <2>6. TokenInv' /\ LockInv' /\ worker' \in [Workers -> Process]
    BY <1>0, <1>2, <2>5, OwnerReleases
  <2>7. ASSUME NEW t \in Threads
        PROVE  /\ out'[t] \in OutputRow
               /\ out'[t].source = out[t].source /\ out'[t].token = out[t].token
               /\ out[t] = NoOutput => out'[t] = NoOutput
               /\ out'[t].selected # Null =>
                     /\ out'[t].by = worker[w].token
                     /\ out'[t].selected = out[t].source
    <3>1. out[t] \in OutputRow /\ worker[w].token \in 0 .. MaxTokens /\ 0 \in 0 .. MaxTokens
      BY <2>1 DEF Process
    <3>2. CASE <<t, out[t].source>> \in worker[w].chosen
      <4>1. out'[t] = [out[t] EXCEPT !.selected = out[t].source, !.by = worker[w].token]
        BY <2>3, <3>2
      <4>2. out[t].source \in Times /\ out[t].source # Null
        BY <2>1, <3>2 DEF Process, Times, Null
      <4>3. out[t] # NoOutput
        BY <4>2 DEF NoOutput
      <4> QED
        BY <3>1, <4>1, <4>2, <4>3 DEF OutputRow
    <3>3. CASE ~(<<t, out[t].source>> \in worker[w].chosen)
      <4>1. out'[t] = [out[t] EXCEPT !.selected = Null, !.by = 0]
        BY <2>3, <3>3
      <4>2. ASSUME out[t] = NoOutput PROVE out'[t] = NoOutput
        <5>1. out'[t] = [NoOutput EXCEPT !.selected = Null, !.by = 0]
          BY <4>1, <4>2
        <5> QED
          BY <5>1 DEF NoOutput
      <4> QED
        BY <3>1, <4>1, <4>2 DEF OutputRow
    <3> QED
      BY <3>2, <3>3
  <2>8. TypeOK'
    <3>1. out' \in [Threads -> OutputRow]
      BY <2>3, <2>7
    <3> QED
      BY <1>0, <2>5, <2>6, <3>1 DEF Inv, TypeOK, env
  <2>9. \A t \in Threads : out'[t] # NoOutput => out[t] # NoOutput
    BY <2>7
  <2>10. JobInv'
    BY <1>0, <2>7, <2>9 DEF Inv, JobInv, Owns, OutputMatchesSuccess, NothingResurrected
  <2>11. LeaseInv'
    BY <1>0 DEF Inv, LeaseInv, Owns, env
  <2>12. MarkInv'
    <3>1. WatermarkCovers'
      BY <2>4, <2>5, <2>7 DEF Inv, MarkInv, WatermarkCovers
    <3>2. MarksOfLastRun'
      <4> SUFFICES ASSUME NEW t \in Threads, out'[t].selected # Null
                   PROVE  /\ out'[t].by = global'.token
                          /\ out'[t].selected <= out'[t].source
        BY DEF MarksOfLastRun
      <4>1. out[t].source \in Int
        BY <2>1 DEF OutputRow, Null, Times
      <4> QED
        BY <1>2, <2>5, <2>7, <4>1 DEF OwnsLock
    <3> QED
      BY <1>0, <3>1, <3>2 DEF Inv, MarkInv, env
  <2>13. RunningCapHolds'
    BY <1>0, RunningShrinks DEF env
  <2> QED
    BY <2>6, <2>8, <2>10, <2>11, <2>12, <2>13 DEF Inv
<1> QED
  BY <1>1, <1>2

LEMMA LockFailedInv ==
    ASSUME Inv, NEW w \in Workers, LockFailed(w) \/ LockFailedIfUnowned(w)
    PROVE  Inv'
<1> USE ConstantsAssumption
<1>0. /\ UNCHANGED <<env, job, out, issued, wiped, claims>>
      /\ worker \in [Workers -> Process] /\ worker[w] \in Process
      /\ global \in GlobalRow /\ clock \in Times
      /\ global.status = "running" => global.token # 0
  BY DEF LockFailed, LockFailedIfUnowned, Inv, TypeOK, LockInv
<1>1. CASE ~OwnsLock(w)
  <2>1. global' = global
    BY <1>0, <1>1 DEF LockFailed, LockFailedIfUnowned, OwnsLock
  <2>2. PICK p \in {Idle, [worker[w] EXCEPT !.pc = "unowned"]} :
           worker' = [worker EXCEPT ![w] = p]
    BY <1>1 DEF LockFailed, LockFailedIfUnowned
  <2>3. p \in Process /\ p.token \in {0, worker[w].token} /\ p.pc \notin Working
    BY <1>0, Defaults DEF Process, Idle, Working
  <2>4. UNCHANGED <<env, rows>> /\ claims' \subseteq claims
    BY <1>0, <2>1 DEF rows
  <2> QED
    BY <2>2, <2>3, <2>4, InsideWorker
<1>2. CASE OwnsLock(w)
  <2>1. global' = FailedLock /\ worker' = [worker EXCEPT ![w] = Idle]
    BY <1>2 DEF LockFailed, LockFailedIfUnowned, OwnsLock
  <2> DEFINE r == Max({global.retries - 1, 0})
             row == [global EXCEPT !.status = "error", !.finished = clock, !.lease = Null,
                                   !.failed = TRUE, !.retry_at = clock + RetryDelay,
                                   !.retries = r]
  <2>2. r \in 0 .. Retries
    <3>1. global.retries \in 0 .. Retries
      BY <1>0 DEF GlobalRow
    <3> DEFINE a == global.retries - 1
    <3>2. a \in Int /\ 0 \in Int /\ a <= Retries
      BY <3>1
    <3> HIDE DEF a
    <3>3. Max({a, 0}) \in {a, 0} /\ Max({a, 0}) >= 0
      BY <3>2, MaxPair
    <3>4. Max({a, 0}) \in 0 .. Retries
      BY <3>2, <3>3
    <3> QED
      BY <3>4 DEF a
  <2>3. global' = row
    BY <2>1 DEF FailedLock
  <2> HIDE DEF r
  <2>4. /\ row \in GlobalRow /\ row.status = "error" /\ row.token = global.token
        /\ row.input = global.input /\ row.success = global.success
    <3>1. Null \in Int /\ clock + RetryDelay \in Int
      BY <1>0 DEF Null, Times
    <3> QED
      BY <1>0, <2>2, <3>1 DEF GlobalRow
  <2> HIDE DEF row
  <2>5. TokenInv' /\ LockInv' /\ worker' \in [Workers -> Process]
    BY <1>0, <1>2, <2>1, <2>3, <2>4, OwnerReleases
  <2>6. TypeOK'
    BY <1>0, <2>3, <2>4, <2>5 DEF Inv, TypeOK, env
  <2>7. JobInv' /\ LeaseInv' /\ RunningCapHolds'
    <3>1. clock' \in Times /\ clock' >= clock
      BY <1>0 DEF env, Times
    <3> QED
      BY <1>0, <3>1, JobFrame
  <2>8. MarkInv'
    BY <1>0, <2>3, <2>4 DEF Inv, MarkInv, WatermarkCovers, MarksOfLastRun, env
  <2> QED
    BY <2>5, <2>6, <2>7, <2>8 DEF Inv
<1> QED
  BY <1>1, <1>2
-----------------------------------------------------------------------------
(* Theorems *)

LEMMA NextInv == Inv /\ [Next]_vars => Inv'
<1> SUFFICES ASSUME Inv, [Next]_vars PROVE Inv'
  OBVIOUS
<1>1. CASE Surroundings
  BY <1>1, SurroundingsInv, PolluteEnqueueInv, DeleteMemoryInv, ClearMemoryDataInv
     DEF Surroundings
<1>2. ASSUME NEW w \in Workers, Phase1(w) PROVE Inv'
  BY <1>2, PruneInv, ProcessInv, TryClaimInv DEF Phase1
<1>3. ASSUME NEW w \in Workers, Phase2(w) PROVE Inv'
  BY <1>3, ClaimLockInv, ProcessInv, SelectInputsInv, HeartbeatInv, LockSucceededInv,
     LockFailedInv DEF Phase2
<1>4. ASSUME NEW w \in Workers, Crash(w) PROVE Inv'
  BY <1>4, ProcessInv
<1>5. ASSUME NEW c \in claims, Extraction(c) PROVE Inv'
  BY <1>5, JobSucceededInv, JobFailedInv, JobForgotten DEF Extraction, ReportLost
<1>6. CASE UNCHANGED vars
  <2>1. /\ UNCHANGED <<rows, worker, claims>> /\ TypeOK' /\ clock' >= clock
        /\ \A t \in Threads : polluter'[t].pc # "none" => polluter'[t].at \in Times
    BY <1>6, ConstantsAssumption DEF vars, env, rows, Inv, TypeOK, MarkInv, Times
  <2> QED
    BY <2>1, OutsideRows
<1> QED
  BY <1>1, <1>2, <1>3, <1>4, <1>5, <1>6 DEF Next

LEMMA Invariance == Spec => []Inv
<1> QED
  BY InitInv, NextInv, PTL DEF Spec

\* Rows and processes keep their shape; retry_remaining, which a failed job
\* lowers without a lower bound, never falls below zero.
THEOREM TypeCorrect == Spec => []TypeOK
<1>1. Inv => TypeOK
  BY DEF Inv
<1> QED
  BY <1>1, Invariance, PTL

\* Two processes never extract the same thread under leases that are both
\* valid, unless the row was deleted in between: whoever has such a lease owns
\* the row, which try_claim_stage1_job hands to nobody else.
THEOREM ExtractionsExcluded == Spec => []ExtractionExclusive
<1>1. Inv => ExtractionExclusive
  <2> SUFFICES ASSUME Inv, NEW c \in claims, NEW d \in claims, c.thread = d.thread, c # d,
                      c.lease > clock, d.lease > clock,
                      ~(wiped.jobs[c.thread] >= c.token), ~(wiped.jobs[c.thread] >= d.token)
               PROVE  FALSE
    BY DEF ExtractionExclusive
  <2>1. c.token \in Int /\ d.token \in Int /\ wiped.jobs[c.thread] \in Int
    BY DEF Inv, TypeOK, Claim, Tokens
  <2>2. Owns(c) /\ Owns(d)
    BY <2>1 DEF Inv, LeaseInv
  <2> QED
    BY <2>2 DEF Inv, TokenInv, Owns
<1> QED
  BY <1>1, Invariance, PTL

\* Startups never run more extraction jobs under valid leases than the cap,
\* although each counts at a time it read before its transaction began.
THEOREM CapKept == Spec => []RunningCapHolds
<1>1. Inv => RunningCapHolds
  BY DEF Inv
<1> QED
  BY <1>1, Invariance, PTL

\* A stored memory is the one of the last success of its job.
THEOREM OutputsOfLastSuccess == Spec => []OutputMatchesSuccess
<1>1. Inv => OutputMatchesSuccess
  BY DEF Inv, JobInv
<1> QED
  BY <1>1, Invariance, PTL

\* A memory in the database was claimed after the last deletion of the memories
\* of its thread: a worker that was extracting then cannot bring it back.
THEOREM DeletedStaysDeleted == Spec => []NothingResurrected
<1>1. Inv => NothingResurrected
  BY DEF Inv, JobInv
<1> QED
  BY <1>1, Invariance, PTL

\* The watermark of the consolidation row covers every stored memory and every
\* recorded success.
THEOREM RowCoversOutputs == Spec => []WatermarkCovers
<1>1. Inv => WatermarkCovers
  BY DEF Inv, MarkInv
<1> QED
  BY <1>1, Invariance, PTL

\* Two processes never consolidate under locks that are both valid, unless the
\* row was deleted in between.
THEOREM ConsolidationsExcluded == Spec => []ConsolidationExclusive
<1>1. Inv => ConsolidationExclusive
  <2> SUFFICES ASSUME Inv, NEW v \in Workers, NEW w \in Workers, v # w,
                      Consolidating(v), Consolidating(w),
                      worker[v].lease > clock, worker[w].lease > clock,
                      ~(wiped.global >= worker[v].token), ~(wiped.global >= worker[w].token)
               PROVE  FALSE
    BY DEF ConsolidationExclusive
  <2>1. worker[v].token \in Int /\ worker[w].token \in Int /\ wiped.global \in Int
    BY DEF Inv, TypeOK, Process
  <2>2. OwnsLock(v) /\ OwnsLock(w)
    BY <2>1 DEF Inv, LockInv
  <2> QED
    BY <2>2, OneOwner
<1> QED
  BY <1>1, Invariance, PTL

\* While the consolidation row says done, every mark in stage1_outputs was set
\* by the run that owned it, and none is of a snapshot newer than the stored one.
THEOREM MarksAreOfLastRun == Spec => []MarksOfLastRun
<1>1. Inv => MarksOfLastRun
  BY DEF Inv, MarkInv
<1> QED
  BY <1>1, Invariance, PTL

\* The success watermark of a thread only goes up while its row lives: a job
\* that runs was claimed for a snapshot newer than the last success, and a
\* worker that lost its row records nothing.
THEOREM SuccessesAdvance == Spec => SuccessAdvances
<1> DEFINE Grows == \A t \in Threads :
                       job'[t].status = "none" \/ job'[t].success >= job[t].success
<1>1. Inv /\ [Next]_vars => [Grows]_vars
  <2> SUFFICES ASSUME Inv, Next PROVE Grows
    OBVIOUS
  <2>0. /\ job \in [Threads -> JobRow]
        /\ \A t \in Threads : job[t].success \in Int /\ job[t].success >= job[t].success
    BY DEF Inv, TypeOK, JobRow, Null, Times
  <2>1. CASE job' = job
    BY <2>0, <2>1
  <2>2. ASSUME NEW t \in Threads, DeleteMemory(t) PROVE Grows
    BY <2>0, <2>2 DEF DeleteMemory, NoJob
  <2>3. CASE ClearMemoryData
    BY <2>3 DEF ClearMemoryData, NoJob
  <2>4. ASSUME NEW w \in Workers, NEW item \in worker[w].items, NEW at \in Times,
               TryClaim(w, item, at)
        PROVE  Grows
    <3>1. job' = [job EXCEPT ![item[1]] = ClaimedJob(item[1], item[2], at)]
      BY <2>4 DEF TryClaim
    <3>2. item[1] \in Threads
      BY DEF Inv, TypeOK, Process
    <3>3. ClaimedJob(item[1], item[2], at).success = job[item[1]].success
      BY <2>0, <3>2 DEF ClaimedJob, JobRow
    <3> QED
      BY <2>0, <3>1, <3>2, <3>3
  <2>5. ASSUME NEW c \in claims, Extraction(c) PROVE Grows
    <3>1. c.thread \in Threads /\ job[c.thread] \in JobRow
      BY DEF Inv, TypeOK, Claim
    <3>2. CASE Owns(c) /\ (JobSucceeded(c) \/ JobSucceededNoOutput(c))
      <4>1. job' = [job EXCEPT ![c.thread] = SucceededJob(c.thread)]
        BY <3>2 DEF JobSucceeded, JobSucceededNoOutput
      <4>2. SucceededJob(c.thread).success = job[c.thread].input
        BY <3>1 DEF SucceededJob, JobRow
      <4>3. job[c.thread].input > job[c.thread].success /\ job[c.thread].input \in Int
        BY <3>1, <3>2 DEF Inv, JobInv, Owns, JobRow, Null, Times
      <4> QED
        BY <2>0, <3>1, <4>1, <4>2, <4>3
    <3>3. CASE Owns(c) /\ JobFailed(c)
      <4> DEFINE row == [job[c.thread] EXCEPT !.status = "error", !.lease = Null,
                            !.retry_at = clock + RetryDelay, !.retries = @ - 1]
      <4>1. job' = [job EXCEPT ![c.thread] = row]
        BY <2>0, <3>1, <3>3 DEF JobFailed
      <4>2. row.success = job[c.thread].success
        BY <3>1 DEF JobRow
      <4> HIDE DEF row
      <4> QED
        BY <2>0, <3>1, <4>1, <4>2
    <3>4. CASE ~Owns(c) \/ ReportLost(c)
      BY <2>1, <2>5, <3>4
         DEF Extraction, JobSucceeded, JobSucceededNoOutput, JobFailed, ReportLost
    <3> QED
      BY <2>5, <3>2, <3>3, <3>4 DEF Extraction
  <2>6. CASE Surroundings
    BY <2>1, <2>2, <2>3, <2>6 DEF Surroundings, Tick, ThreadUpdated, PolluteRead,
       PolluteMode, PolluteEnqueue, DeleteThreadRow, rows
  <2>7. ASSUME NEW w \in Workers, Phase1(w) \/ Phase2(w) \/ Crash(w) PROVE Grows
    <3>1. CASE Phase1(w)
      BY <2>1, <2>4, <3>1 DEF Phase1, Prune, ScanThreads, EndScan, Phase1Done, SkipUpToDate,
         ClaimRefused, rows
    <3>2. CASE Phase2(w)
      <4>1. job' = job
        BY <3>2 DEF Phase2, ClaimLock, LockRefused, SelectInputs, SyncWorkspace,
           AgentHeartbeat, AgentCompleted, ConfirmOwnership, ResetBaseline, StepFails,
           LockSucceeded, LockFailed, LockFailedIfUnowned, Heartbeat, rows
      <4> QED
        BY <2>1, <4>1
    <3>3. CASE Crash(w)
      BY <2>1, <3>3 DEF Crash, rows
    <3> QED
      BY <2>7, <3>1, <3>2, <3>3
  <2> QED
    BY <2>5, <2>6, <2>7 DEF Next
<1> QED
  BY <1>1, Invariance, PTL DEF Spec, SuccessAdvances
=============================================================================
