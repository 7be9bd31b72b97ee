---------------------------- MODULE RolloutFile ----------------------------
(***************************************************************************)
(* The history of one thread on disk: the recorder whose background task   *)
(* appends items to the rollout file (rollout/src/recorder.rs), the calls  *)
(* of the thread store that use it (thread-store/src/local), and the       *)
(* worker that replaces a rollout nobody wrote to for seven days by a      *)
(* compressed copy (rollout/src/compression.rs).                           *)
(*                                                                         *)
(* Files are numbered in the order they are created and plain and zst say  *)
(* which file has the name .jsonl and which .jsonl.zst (0: no file), so    *)
(* that a file may lose its name while somebody has it open.  What is in a *)
(* file is the sequence of writes: cut = "line" for a complete line,       *)
(* "json" for one that misses only its newline and "part" for less.        *)
(***************************************************************************)
EXTENDS Naturals, Sequences, FiniteSets

CONSTANTS
    Callers,      \* calls of the thread store; an item bears its caller's name
    Ops,          \* what they may call
    Meta,         \* the SessionMeta item
    Old,          \* an item of an earlier session
    Nobody,       \* no caller
    Capacity,     \* of the command channel (256)
    MaxRuns,      \* bound: runs of the compression worker
    MaxOpens,     \* bound: recorders opened
    MaxFaults     \* bound: failing file operations

ASSUME RolloutAssumption ==
    /\ Ops \subseteq {"append", "flush", "persist", "shutdown", "patch"}
    /\ {Meta, Old, Nobody} \cap Callers = {}
    /\ Meta # Old
    /\ Capacity \in Nat \ {0}
    /\ MaxRuns \in Nat /\ MaxOpens \in Nat /\ MaxFaults \in Nat
    /\ "rec" \notin Callers

VARIABLES
    file,         \* contents of every file
    plain,        \* the file named .jsonl
    zst,          \* the file named .jsonl.zst
    cold,         \* the plain file is at least MIN_ROLLOUT_AGE old
    worker,       \* the compression worker
    rec,          \* recorder: entry in live_recorders, channel, writer state
    io,           \* per actor: where it is in a file operation, its handle
    caller,       \* the calls
    opens,        \* recorders opened so far
    faults,       \* file operations that failed so far
    received,     \* history: what the recorder took from its channel, in order
    sure          \* history: items covered by an answer Ok

disk == <<file, plain, zst, cold>>
vars == <<disk, worker, rec, io, caller, opens, faults, received, sure>>

Items == Callers \cup {Meta, Old}
Actors == {"rec"} \cup Callers
Piece == [item : Items, cut : {"line", "json", "part"}]
Command == [kind : {"add", "flush", "persist", "shutdown"}, who : Callers \cup {Nobody}]

None == [kind |-> "flush", who |-> Nobody]
Closed == [life |-> "none", deferred |-> FALSE, meta |-> FALSE, pending |-> <<>>,
           queue |-> <<>>, cmd |-> None, try |-> 1]
Idle == [pc |-> "idle", copy |-> <<>>, handle |-> 0]

OldFile == <<[item |-> Meta, cut |-> "line"], [item |-> Old, cut |-> "line"]>>

\* A new thread, or one of an earlier session, compressed since or not.
Init ==
    /\ \/ file = <<>> /\ plain = 0 /\ zst = 0 /\ cold = FALSE
       \/ file = <<OldFile>> /\ plain = 1 /\ zst = 0 /\ cold \in BOOLEAN
       \/ file = <<OldFile>> /\ plain = 0 /\ zst = 1 /\ cold = FALSE
    /\ worker = [pc |-> "idle", before |-> <<>>, copy |-> <<>>, runs |-> 0]
    /\ rec = Closed
    /\ io = [a \in Actors |-> Idle]
    /\ caller = [c \in Callers |-> [op |-> "flush", pc |-> "idle", gen |-> 0]]
    /\ opens = 0 /\ faults = 0
    /\ received = <<>> /\ sure = {}

-----------------------------------------------------------------------------
(* What a reader finds. *)

\* existing_rollout_path and open_once: the plain file before the compressed one.
View == IF plain # 0 THEN file[plain] ELSE IF zst # 0 THEN file[zst] ELSE <<>>

\* load_rollout_items splits at newlines and skips what does not parse: an
\* item is read when its line holds its write and nothing else.
Readable(f) ==
    {f[i].item : i \in {j \in DOMAIN f :
        /\ f[j].cut = "line" \/ (f[j].cut = "json" /\ j = Len(f))
        /\ j = 1 \/ f[j-1].cut = "line"}}

-----------------------------------------------------------------------------
(* File operations shared by the recorder and append_rollout_item_to_path. *)

\* A new file under the plain name, modified just now.
CreatePlain(content) ==
    /\ file' = Append(file, content)
    /\ plain' = Len(file) + 1
    /\ cold' = FALSE

\* Append a write through a handle; the modification time becomes now.
AppendTo(h, item, cut) ==
    /\ file' = [file EXCEPT ![h] = Append(@, [item |-> item, cut |-> cut])]
    /\ cold' = (cold /\ h # plain)
    /\ UNCHANGED <<plain, zst>>

At(a, pc) == io[a].pc = pc
Goto(a, pc) == io' = [io EXCEPT ![a].pc = pc]
NoHandle(a) == io' = [io EXCEPT ![a] = Idle]

\* A command of c is in the channel and c waits for its ack.
Waiting(c) == \E i \in DOMAIN rec.queue : rec.queue[i].who = c /\ rec.queue[i].kind # "add"

\* on Ok a metadata update goes on to its own append, a shutdown to the removal
\* of the recorder.
AfterOk(c) ==
    CASE caller[c].op = "patch" -> "meta"
      [] caller[c].op = "shutdown" -> "remove"
      [] OTHER -> "ok"

\* Mutant: the end of the task leaves the acks of queued commands pending.
AcknowledgeKeepsQueue ==
    LET c == rec.cmd.who
    IN  /\ caller' = [d \in Callers |->
              IF d = c /\ rec.cmd.kind # "add" THEN [caller[d] EXCEPT !.pc = AfterOk(d)]
              ELSE caller[d]]
        /\ rec' = [rec EXCEPT !.cmd = None, !.try = 1,
                              !.life = IF rec.cmd.kind = "shutdown" THEN "ended" ELSE @]
        /\ sure' = IF rec.cmd.kind = "add" THEN sure
                   ELSE sure \cup {received[i] : i \in DOMAIN received}

\* The command is done and acknowledged. After a shutdown the task ends, which
\* drops the channel and with it the acks of the commands still in it.
Acknowledge ==
    LET c == rec.cmd.who
        ends == rec.cmd.kind = "shutdown"
    IN  /\ caller' = [d \in Callers |->
              IF d = c /\ rec.cmd.kind # "add" THEN [caller[d] EXCEPT !.pc = AfterOk(d)]
              ELSE IF ends /\ Waiting(d) THEN [caller[d] EXCEPT !.pc = "err"]
              ELSE caller[d]]
        /\ rec' = [rec EXCEPT !.cmd = None, !.try = 1,
                              !.life = IF ends THEN "ended" ELSE @,
                              !.queue = IF ends THEN <<>> ELSE @]
        /\ sure' = IF rec.cmd.kind = "add" THEN sure ELSE sure \cup {received[i] : i \in DOMAIN received}

\* Mutant: the buffer goes with the handle, so that the retry writes nothing.
AttemptFailedForgets ==
    \/ /\ rec.try = 1
       /\ rec' = [rec EXCEPT !.try = 2, !.pending = <<>>]
       /\ io' = [io EXCEPT !["rec"] = [Idle EXCEPT !.pc = "plain"]]
       /\ UNCHANGED caller
    \/ /\ rec.try = 2
       /\ rec' = [rec EXCEPT !.cmd = None, !.try = 1]
       /\ NoHandle("rec")
       /\ caller' = [d \in Callers |->
              IF d = rec.cmd.who /\ rec.cmd.kind # "add"
              THEN [caller[d] EXCEPT !.pc = "err"] ELSE caller[d]]

\* A failed attempt drops the handle; the second one reports the error.
AttemptFailed ==
    \/ /\ rec.try = 1
       /\ rec' = [rec EXCEPT !.try = 2]
       /\ io' = [io EXCEPT !["rec"] = [Idle EXCEPT !.pc = "plain"]]
       /\ UNCHANGED caller
    \/ /\ rec.try = 2
       /\ rec' = [rec EXCEPT !.cmd = None, !.try = 1]
       /\ NoHandle("rec")
       /\ caller' = [d \in Callers |->
              IF d = rec.cmd.who /\ rec.cmd.kind # "add"
              THEN [caller[d] EXCEPT !.pc = "err"] ELSE caller[d]]

\* What an error does: a resume ends without a recorder, a command is tried
\* again or reported, a metadata update fails.
Fails(a) ==
    \/ /\ a = "rec" /\ rec.life = "opening"
       /\ rec' = Closed
       /\ NoHandle(a)
       /\ UNCHANGED caller
    \/ /\ a = "rec" /\ rec.life = "live"
       /\ AttemptFailed
    \/ /\ a # "rec"
       /\ caller' = [caller EXCEPT ![a].pc = "err"]
       /\ NoHandle(a)
       /\ UNCHANGED rec

-----------------------------------------------------------------------------
(* materialize_rollout_for_append: the plain file from the compressed one. *)

PlainExists(a) ==
    /\ At(a, "plain")
    /\ Goto(a, IF plain # 0 THEN "open" ELSE "zst")
    /\ UNCHANGED <<disk, worker, rec, caller, opens, faults, received, sure>>

CompressedExists(a) ==
    /\ At(a, "zst")
    /\ Goto(a, IF zst # 0 THEN "read" ELSE "open")
    /\ UNCHANGED <<disk, worker, rec, caller, opens, faults, received, sure>>

\* Mutant: the compressed file is removed before the copy has its name.
DecompressMoves(a) ==
    /\ At(a, "read")
    /\ zst # 0
    /\ io' = [io EXCEPT ![a].pc = "link", ![a].copy = file[zst]]
    /\ zst' = 0
    /\ UNCHANGED <<file, plain, cold, worker, rec, caller, opens, faults, received, sure>>

Decompress(a) ==
    /\ At(a, "read")
    /\ zst # 0
    /\ io' = [io EXCEPT ![a].pc = "link", ![a].copy = file[zst]]
    /\ UNCHANGED <<disk, worker, rec, caller, opens, faults, received, sure>>

CompressedGone(a) ==
    /\ At(a, "read") /\ zst = 0
    /\ Fails(a)
    /\ UNCHANGED <<disk, worker, opens, faults, received, sure>>

\* hard_link gives the copy its name unless somebody was faster.
Link(a) ==
    /\ At(a, "link")
    /\ \/ plain # 0 /\ UNCHANGED <<file, plain, cold>>
       \/ plain = 0 /\ CreatePlain(io[a].copy)
    /\ io' = [io EXCEPT ![a].pc = "unlink", ![a].copy = <<>>]
    /\ UNCHANGED <<zst, worker, rec, caller, opens, faults, received, sure>>

RemoveCompressed(a) ==
    /\ At(a, "unlink")
    /\ zst' = 0
    /\ Goto(a, "open")
    /\ UNCHANGED <<file, plain, cold, worker, rec, caller, opens, faults, received, sure>>

\* An error of the file system in any of these operations.
OperationFails(a) ==
    /\ io[a].pc \in {"read", "link", "unlink", "open"}
    /\ faults < MaxFaults
    /\ faults' = faults + 1
    /\ Fails(a)
    /\ UNCHANGED <<disk, worker, opens, received, sure>>

-----------------------------------------------------------------------------
(* Opening. *)

\* RolloutRecorder::new for a new thread only computes the path.
Create ==
    /\ opens = 0 /\ file = <<>>
    /\ opens < MaxOpens
    /\ opens' = opens + 1
    /\ rec' = [Closed EXCEPT !.life = "live", !.deferred = TRUE, !.meta = TRUE]
    /\ received' = <<>>
    /\ UNCHANGED <<disk, worker, io, caller, faults, sure>>

\* resume_thread, once the thread has no live recorder. Its history was read,
\* which needs the SessionMeta.
Resume ==
    /\ rec.life = "none" /\ Meta \in Readable(View)
    /\ opens < MaxOpens
    /\ opens' = opens + 1
    /\ rec' = [Closed EXCEPT !.life = "opening"]
    /\ Goto("rec", "plain")
    /\ received' = <<>>
    /\ UNCHANGED <<disk, worker, caller, faults, sure>>

\* Opening an existing file to append: RolloutRecorder::new for a resumed
\* thread, and append_rollout_item_to_path.
OpenExisting(a) ==
    /\ At(a, "open") /\ (a = "rec" => rec.life = "opening")
    /\ \/ /\ plain # 0
          /\ io' = [io EXCEPT ![a] = [pc |-> IF a = "rec" THEN "idle" ELSE "write",
                                      copy |-> <<>>, handle |-> plain]]
          /\ rec' = IF a = "rec" THEN [rec EXCEPT !.life = "live"] ELSE rec
          /\ UNCHANGED caller
       \/ plain = 0 /\ Fails(a)
    /\ UNCHANGED <<disk, worker, opens, faults, received, sure>>

\* ensure_writer_open creates the file when it is not there.
EnsureWriterOpen ==
    /\ At("rec", "open") /\ rec.life = "live"
    /\ rec' = [rec EXCEPT !.deferred = FALSE]
    /\ \/ plain # 0 /\ UNCHANGED disk
       \/ plain = 0 /\ CreatePlain(<<>>) /\ UNCHANGED zst
    /\ io' = [io EXCEPT !["rec"] = [pc |-> "write", copy |-> <<>>, handle |-> plain']]
    /\ UNCHANGED <<worker, caller, opens, faults, received, sure>>

-----------------------------------------------------------------------------
(* The calls. *)

\* live_recorder found the recorder, and its channel is open.
Reaches(c) == rec.life = "live" /\ caller[c].gen = opens
Send(cmd) == rec' = [rec EXCEPT !.queue = Append(@, cmd)]

\* append_items records, then flushes; a metadata update of a live thread
\* persists it first, and goes straight to the file otherwise.
Call(c, op) ==
    /\ caller[c].pc = "idle" /\ op \in Ops
    /\ \/ /\ rec.life \in {"live", "ended"}
          /\ caller' = [caller EXCEPT ![c] =
                [op |-> op, pc |-> IF op = "append" THEN "record" ELSE "send", gen |-> opens]]
       \/ /\ rec.life \in {"none", "opening"} /\ op = "patch"
          /\ caller' = [caller EXCEPT ![c] = [op |-> op, pc |-> "meta", gen |-> opens]]
    /\ UNCHANGED <<disk, worker, rec, io, opens, faults, received, sure>>

RecordCanonicalItems(c) ==
    /\ caller[c].pc = "record" /\ Reaches(c)
    /\ Len(rec.queue) < Capacity
    /\ Send([kind |-> "add", who |-> c])
    /\ caller' = [caller EXCEPT ![c].pc = "send"]
    /\ UNCHANGED <<disk, worker, io, opens, faults, received, sure>>

Barrier(op) == CASE op = "append" -> "flush" [] op = "patch" -> "persist" [] OTHER -> op

SendBarrier(c) ==
    /\ caller[c].pc = "send" /\ Reaches(c)
    /\ Len(rec.queue) < Capacity
    /\ Send([kind |-> Barrier(caller[c].op), who |-> c])
    /\ caller' = [caller EXCEPT ![c].pc = "wait"]
    /\ UNCHANGED <<disk, worker, io, opens, faults, received, sure>>

\* The task that read the channel has ended.
SendRefused(c) ==
    /\ caller[c].pc \in {"record", "send"} /\ ~Reaches(c)
    /\ caller' = [caller EXCEPT ![c].pc = "err"]
    /\ UNCHANGED <<disk, worker, rec, io, opens, faults, received, sure>>

\* shutdown_thread takes the recorder out of live_recorders.
RemoveRecorder(c) ==
    /\ caller[c].pc = "remove"
    /\ caller' = [caller EXCEPT ![c].pc = "ok"]
    /\ rec' = Closed
    /\ UNCHANGED <<disk, worker, io, opens, faults, received, sure>>

\* apply_thread_memory_mode: the SessionMeta line is read, changed and appended.
ReadSessionMeta(c) ==
    /\ caller[c].pc = "meta"
    /\ \/ /\ Meta \in Readable(View)
          /\ caller' = [caller EXCEPT ![c].pc = "patch"]
          /\ Goto(c, "plain")
       \/ /\ Meta \notin Readable(View)
          /\ caller' = [caller EXCEPT ![c].pc = "err"]
          /\ UNCHANGED io
    /\ UNCHANGED <<disk, worker, rec, opens, faults, received, sure>>

AppendPatch(c) ==
    /\ At(c, "write")
    /\ AppendTo(io[c].handle, c, "line")
    /\ NoHandle(c)
    /\ caller' = [caller EXCEPT ![c].pc = "ok"]
    /\ sure' = sure \cup {c}
    /\ UNCHANGED <<worker, rec, opens, faults, received>>

-----------------------------------------------------------------------------
(* The writer task. *)

\* is_deferred: the file of a new thread was not created yet.
IsDeferred == io["rec"].handle = 0 /\ rec.deferred

\* The lines write_pending_once has to write.
Unwritten == (IF rec.meta THEN <<Meta>> ELSE <<>>) \o rec.pending

WriterIdle == rec.life = "live" /\ rec.cmd = None /\ At("rec", "idle")

\* write_pending_once opens the file if it has none.
Attempt == Goto("rec", IF io["rec"].handle # 0 THEN "write" ELSE "plain")

\* AddItems: buffered, and written unless the file is deferred.
ReceiveItems ==
    /\ WriterIdle /\ rec.queue # <<>> /\ Head(rec.queue).kind = "add"
    /\ LET cmd == Head(rec.queue)
           added == [rec EXCEPT !.queue = Tail(@), !.pending = Append(@, cmd.who)]
       IN  /\ received' = Append(received, cmd.who)
           /\ \/ IsDeferred /\ rec' = added /\ UNCHANGED io
              \/ ~IsDeferred /\ rec' = [added EXCEPT !.cmd = cmd] /\ Attempt
    /\ UNCHANGED <<disk, worker, caller, opens, faults, sure>>

\* Persist, Flush and Shutdown; the last two have nothing to do for a deferred
\* file without items.
ReceiveBarrier ==
    /\ WriterIdle /\ rec.queue # <<>> /\ Head(rec.queue).kind # "add"
    /\ rec' = [rec EXCEPT !.queue = Tail(@), !.cmd = Head(rec.queue)]
    /\ \/ /\ IsDeferred /\ rec.pending = <<>> /\ Head(rec.queue).kind # "persist"
          /\ Goto("rec", "done")
       \/ /\ ~(IsDeferred /\ rec.pending = <<>> /\ Head(rec.queue).kind # "persist")
          /\ Attempt
    /\ UNCHANGED <<disk, worker, caller, opens, faults, received, sure>>

\* write_rollout_item: an item leaves the buffer once its line is written.
WriteRolloutItem ==
    /\ At("rec", "write") /\ Unwritten # <<>>
    /\ AppendTo(io["rec"].handle, Head(Unwritten), "line")
    /\ rec' = [rec EXCEPT !.meta = FALSE, !.pending = IF rec.meta THEN @ ELSE Tail(@)]
    /\ UNCHANGED <<worker, io, caller, opens, faults, received, sure>>

\* write_all may stop after a part of the line.
WriteFails(a) ==
    /\ At(a, "write") /\ (a = "rec" => Unwritten # <<>>)
    /\ faults < MaxFaults
    /\ faults' = faults + 1
    /\ \/ UNCHANGED disk
       \/ \E cut \in {"json", "part"} :
             AppendTo(io[a].handle, IF a = "rec" THEN Head(Unwritten) ELSE a, cut)
    /\ Fails(a)
    /\ UNCHANGED <<worker, opens, received, sure>>

WriterAnswers ==
    /\ At("rec", "done") \/ (At("rec", "write") /\ Unwritten = <<>>)
    /\ Acknowledge
    /\ IF rec.cmd.kind = "shutdown" THEN NoHandle("rec") ELSE Goto("rec", "idle")
    /\ UNCHANGED <<disk, worker, opens, faults, received>>

-----------------------------------------------------------------------------
(* The compression worker, which one run marker keeps to one process. *)

WorkerAt(pc) == worker.pc = pc
WorkerGoto(pc) == worker' = [worker EXCEPT !.pc = pc]
WorkerEnds == worker' = [worker EXCEPT !.pc = "idle", !.before = <<>>, !.copy = <<>>]

\* Size and modification time of the plain file are those seen at first.
SameFileState == plain # 0 /\ file[plain] = worker.before

FindCold ==
    /\ WorkerAt("idle") /\ worker.runs < MaxRuns
    /\ plain # 0 /\ cold
    /\ worker' = [worker EXCEPT !.pc = "exists", !.before = file[plain], !.runs = @ + 1]
    /\ UNCHANGED <<disk, rec, io, caller, opens, faults, received, sure>>

SkipCompressed ==
    /\ WorkerAt("exists")
    /\ IF zst # 0 THEN WorkerEnds ELSE WorkerGoto("encode")
    /\ UNCHANGED <<disk, rec, io, caller, opens, faults, received, sure>>

Encode ==
    /\ WorkerAt("encode")
    /\ IF plain # 0 THEN worker' = [worker EXCEPT !.pc = "compare", !.copy = file[plain]]
       ELSE WorkerEnds
    /\ UNCHANGED <<disk, rec, io, caller, opens, faults, received, sure>>

Compare ==
    /\ WorkerAt("compare")
    /\ IF SameFileState THEN WorkerGoto("persist") ELSE WorkerEnds
    /\ UNCHANGED <<disk, rec, io, caller, opens, faults, received, sure>>

\* persist_noclobber.
PersistCopy ==
    /\ WorkerAt("persist")
    /\ \/ /\ zst = 0
          /\ file' = Append(file, worker.copy)
          /\ zst' = Len(file) + 1
          /\ WorkerGoto("again")
       \/ zst # 0 /\ WorkerEnds /\ UNCHANGED <<file, zst>>
    /\ UNCHANGED <<plain, cold, rec, io, caller, opens, faults, received, sure>>

CompareAgain ==
    /\ WorkerAt("again")
    /\ \/ SameFileState /\ WorkerGoto("unlink") /\ UNCHANGED zst
       \/ ~SameFileState /\ WorkerEnds /\ zst' = 0
    /\ UNCHANGED <<file, plain, cold, rec, io, caller, opens, faults, received, sure>>

RemovePlain ==
    /\ WorkerAt("unlink")
    /\ plain' = 0 /\ cold' = FALSE
    /\ WorkerEnds
    /\ UNCHANGED <<file, zst, rec, io, caller, opens, faults, received, sure>>

\* An error, or the end of its process.
WorkerDies ==
    /\ ~WorkerAt("idle")
    /\ WorkerEnds
    /\ UNCHANGED <<disk, rec, io, caller, opens, faults, received, sure>>

-----------------------------------------------------------------------------
(* Around them. *)

\* Seven days pass; nobody stays inside an operation for that long.
Age ==
    /\ plain # 0 /\ ~cold
    /\ WorkerAt("idle") /\ \A a \in Actors : At(a, "idle")
    /\ cold' = TRUE
    /\ UNCHANGED <<file, plain, zst, worker, rec, io, caller, opens, faults, received, sure>>

\* The process of the recorder and of its callers ends.
Crash ==
    /\ rec.life # "none" \/ \E a \in Actors : ~At(a, "idle")
    /\ rec' = Closed
    /\ io' = [a \in Actors |-> Idle]
    /\ caller' = [c \in Callers |->
          IF caller[c].pc \in {"idle", "ok", "err"} THEN caller[c]
          ELSE [caller[c] EXCEPT !.pc = "gone"]]
    /\ UNCHANGED <<disk, worker, opens, faults, received, sure>>

FileStep(a) ==
    \/ PlainExists(a) \/ CompressedExists(a) \/ Decompress(a) \/ CompressedGone(a)
    \/ Link(a) \/ RemoveCompressed(a) \/ OpenExisting(a)

WriterStep ==
    \/ FileStep("rec") \/ EnsureWriterOpen
    \/ ReceiveItems \/ ReceiveBarrier \/ WriteRolloutItem \/ WriterAnswers

CallerStep(c) ==
    \/ RecordCanonicalItems(c) \/ SendBarrier(c) \/ SendRefused(c) \/ RemoveRecorder(c)
    \/ ReadSessionMeta(c) \/ FileStep(c) \/ AppendPatch(c)

WorkerStep ==
    \/ FindCold \/ SkipCompressed \/ Encode \/ Compare
    \/ PersistCopy \/ CompareAgain \/ RemovePlain

Next ==
    \/ WriterStep
    \/ \E c \in Callers : CallerStep(c) \/ \E op \in Ops : Call(c, op)
    \/ \E a \in Actors : OperationFails(a) \/ WriteFails(a)
    \/ WorkerStep \/ WorkerDies
    \/ Create \/ Resume \/ Age \/ Crash

Spec == Init /\ [][Next]_vars

-----------------------------------------------------------------------------
(* Properties. *)

\* The type of the state.
TypeOK ==
    /\ file \in Seq(Seq(Piece))
    /\ plain \in 0..Len(file) /\ zst \in 0..Len(file) /\ cold \in BOOLEAN
    /\ worker \in [pc : {"idle", "exists", "encode", "compare", "persist", "again", "unlink"},
                   before : Seq(Piece), copy : Seq(Piece), runs : 0..MaxRuns]
    /\ rec \in [life : {"none", "opening", "live", "ended"}, deferred : BOOLEAN,
                meta : BOOLEAN, pending : Seq(Callers), queue : Seq(Command),
                cmd : Command, try : 1..2]
    /\ io \in [Actors -> [pc : {"idle", "plain", "zst", "read", "link", "unlink", "open",
                                "write", "done"},
                          copy : Seq(Piece), handle : 0..Len(file)]]
    /\ caller \in [Callers -> [op : Ops \cup {"flush"}, gen : 0..MaxOpens,
          pc : {"idle", "record", "send", "wait", "remove", "meta", "patch", "ok", "err", "gone"}]]
    /\ opens \in 0..MaxOpens /\ faults \in 0..MaxFaults
    /\ received \in Seq(Callers) /\ sure \subseteq Callers

Lines(f, x) == {i \in DOMAIN f : f[i].item = x /\ f[i].cut = "line"}

\* "remove each item from that queue only after it is written successfully"
\* (recorder.rs 1547): what an Ok answer covers was written as a line, no line
\* is written twice by a retry, and lines follow the order of the channel.
AckedWritten ==
    /\ \A x \in sure : \E n \in DOMAIN file : Lines(file[n], x) # {}
    /\ \A n \in DOMAIN file :
          /\ \A x \in Items : Cardinality(Lines(file[n], x)) <= 1
          /\ \A i, j \in DOMAIN received : i < j =>
                \A k \in Lines(file[n], received[i]), l \in Lines(file[n], received[j]) : k < l

\* The worker removes a file that grew after it looked for the last time: what
\* it compressed stays.
RemovesGrown ==
    /\ WorkerAt("unlink") /\ plain # 0 /\ plain' = 0
    /\ file[plain] # worker.before /\ Readable(worker.before) \subseteq Readable(View')

\* The writer creates a file whose history is compressed.
CreatesOverCompressed ==
    /\ At("rec", "open") /\ rec.life = "live"
    /\ plain = 0 /\ zst # 0 /\ plain' # 0 /\ View' = <<>>

\* What is read from finished lines.
OnLines(f) ==
    {f[i].item : i \in {j \in DOMAIN f : f[j].cut = "line" /\ (j = 1 \/ f[j-1].cut = "line")}}

\* A write to the plain file runs into an unfinished line: the finished ones stay.
RunsTogether ==
    /\ plain # 0 /\ plain' = plain
    /\ Len(file'[plain]) = Len(file[plain]) + 1
    /\ OnLines(file[plain]) \subseteq Readable(file'[plain])

\* Changing between the two forms of a rollout hides nothing from readers,
\* whoever dies in between: but for the three steps above, and in them but for
\* what they say, what could be read can be read after any step.
ReadersKeepHistory ==
    [][\/ Readable(View) \subseteq Readable(View')
       \/ RemovesGrown \/ CreatesOverCompressed \/ RunsTogether]_vars

\* "returns an error only when that retry also fails or the writer task is gone"
\* (recorder.rs 915): nobody waits for an ack that nobody is going to send, be
\* it dropped by a failed retry, by a shutdown that overtook the command, or by
\* a shutdown that failed.
WaitersServed ==
    \A c \in Callers : caller[c].pc = "wait" =>
        rec.life = "live" /\ (Waiting(c) \/ rec.cmd.who = c)

\* "Wait for the local writer so SQLite never gets ahead of JSONL for accepted
\* live appends" (live_writer.rs 127): what an Ok answer covers is what a reader
\* of the JSONL finds.
AckedReadable == sure \subseteq Readable(View)
=============================================================================
