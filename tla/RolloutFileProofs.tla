------------------------- MODULE RolloutFileProofs -------------------------
(***************************************************************************)
(* The rollout of a thread, for any number of calls, recorders, runs of    *)
(* the compression worker and failures: what an answer Ok covers was       *)
(* written, once and in order, nobody waits for an answer that nobody is   *)
(* going to send (Inv), and readers keep what they could read while the    *)
(* rollout changes between its two forms (ReadInv).                        *)
(***************************************************************************)
EXTENDS RolloutFile, FiniteSetTheorems, SequenceTheorems, TLAPS

\* The types of the parts of the state.
Text == Seq(Piece)
FileSteps == {"idle", "plain", "zst", "read", "link", "unlink", "open", "write", "done"}
CallSteps == {"idle", "record", "send", "wait", "remove", "meta", "patch", "ok", "err", "gone"}
DiskTypes ==
    /\ file \in Seq(Text)
    /\ plain \in 0..Len(file) /\ zst \in 0..Len(file) /\ cold \in BOOLEAN
WorkerTypes ==
    worker \in [pc : {"idle", "exists", "encode", "compare", "persist", "again", "unlink"},
                before : Text, copy : Text, runs : 0..MaxRuns]
RecType == [life : {"none", "opening", "live", "ended"}, deferred : BOOLEAN,
            meta : BOOLEAN, pending : Seq(Callers), queue : Seq(Command),
            cmd : Command, try : 1..2]
IoTypes == io \in [Actors -> [pc : FileSteps, copy : Text, handle : 0..Len(file)]]
CallType == [op : Ops \cup {"flush"}, gen : 0..MaxOpens, pc : CallSteps]
CountTypes ==
    /\ opens \in 0..MaxOpens /\ faults \in 0..MaxFaults
    /\ received \in Seq(Callers) /\ sure \subseteq Callers
Types ==
    /\ DiskTypes /\ WorkerTypes /\ rec \in RecType /\ IoTypes
    /\ caller \in [Callers -> CallType] /\ CountTypes

\* The items that have a line in a text, and in some file.
LinesOf(f) == {f[i].item : i \in {j \in DOMAIN f : f[j].cut = "line"}}
Written == UNION {LinesOf(file[n]) : n \in DOMAIN file}

\* A text has one line of an item, and the lines follow the order r.
Ordered(f, r) ==
    /\ \A i, j \in DOMAIN f :
          f[i].item = f[j].item /\ f[i].cut = "line" /\ f[j].cut = "line" => i = j
    /\ \A i, j \in DOMAIN r : i < j =>
          \A k, l \in DOMAIN f :
             /\ f[k].item = r[i] /\ f[k].cut = "line"
             /\ f[l].item = r[j] /\ f[l].cut = "line"
             => k < l
\* A copy has nothing that is in no file.
Copied(f) == Ordered(f, received) /\ LinesOf(f) \subseteq Written
TextInv ==
    /\ \A n \in DOMAIN file : Ordered(file[n], received)
    /\ Copied(worker.copy)
    /\ \A a \in Actors : Copied(io[a].copy)

\* Where the recorder is in its life says where it is in a file operation.
OpenSteps == {"plain", "zst", "read", "link", "unlink", "open"}
PlaceInv ==
    /\ rec.life \in {"none", "ended"} => io["rec"] = Idle
    /\ rec.life = "opening" => io["rec"].pc \in OpenSteps
    /\ rec.life = "live" => (io["rec"].pc = "idle" <=> rec.cmd = None)
    /\ rec.life # "live" => rec.cmd = None /\ rec.pending = <<>> /\ rec.queue = <<>>
    /\ opens = 0 => rec.life = "none"
    /\ io["rec"].pc = "done" => rec.pending = <<>>
    /\ \A a \in Actors : io[a].pc = "write" => io[a].handle # 0
    /\ \A c \in Callers : io[c].pc # "idle" => caller[c].pc = "patch"

\* A call that waits has its command in the channel or in the hands of the
\* writer, once; the one that shut the writer down is alone with its recorder.
Served(c) == Waiting(c) \/ (rec.cmd.who = c /\ rec.cmd.kind # "add")
Fits(cmd) ==
    /\ cmd.who \in Callers
    /\ cmd.kind # "add" => caller[cmd.who].pc = "wait" /\ cmd.kind = Barrier(caller[cmd.who].op)
CallInv ==
    /\ \A c \in Callers : caller[c].pc = "wait" => rec.life = "live" /\ Served(c)
    /\ \A c \in Callers : caller[c].pc = "remove" =>
          rec.life = "ended" /\ \A d \in Callers \ {c} : caller[d].pc # "remove"
    /\ \A c \in Callers : caller[c].pc = "record" => caller[c].op = "append"
    /\ \A c \in Callers : caller[c].pc \in {"meta", "patch"} => caller[c].op = "patch"
    /\ \A i \in DOMAIN rec.queue : Fits(rec.queue[i])
    /\ rec.cmd # None => Fits(rec.cmd)
    /\ \A i, j \in DOMAIN rec.queue :
          rec.queue[i].who = rec.queue[j].who /\ (rec.queue[i].kind = "add" <=> rec.queue[j].kind = "add")
          => i = j
    /\ rec.cmd.kind # "add" => ~Waiting(rec.cmd.who)

Queued(c) == \E i \in DOMAIN rec.queue : rec.queue[i].who = c /\ rec.queue[i].kind = "add"
Received(c) == \E i \in DOMAIN received : received[i] = c
Buffered(c) == \E i \in DOMAIN rec.pending : rec.pending[i] = c
\* The call has handed its item over.
Sent(c) == caller[c].op = "append" /\ caller[c].pc \notin {"idle", "record"}

\* An item is sent once, and is in the channel, in the buffer or written.
ItemInv ==
    /\ \A c \in Callers : Queued(c) \/ Received(c) => Sent(c)
    /\ \A c \in Callers : Queued(c) => ~Received(c) /\ c \notin Written
    /\ \A c \in Callers : c \in Written => Sent(c) \/ (caller[c].op = "patch" /\ caller[c].pc = "ok")
    /\ \A c \in Callers : Buffered(c) => c \notin Written
    /\ \A i, j \in DOMAIN received : received[i] = received[j] => i = j
    /\ rec.life = "opening" => received = <<>>
    /\ rec.life = "live" =>
          /\ Len(rec.pending) <= Len(received)
          /\ \A i \in DOMAIN rec.pending :
                rec.pending[i] = received[Len(received) - Len(rec.pending) + i]
          /\ \A c \in Callers : Received(c) => Buffered(c) \/ c \in Written
    /\ rec.meta => Meta \notin Written

SureInv == sure \subseteq Written

Inv == Types /\ TextInv /\ PlaceInv /\ CallInv /\ ItemInv /\ SureInv

-----------------------------------------------------------------------------
(* Texts *)

LEMMA Extended ==
    ASSUME NEW S, NEW q \in Seq(S), NEW e \in S
    PROVE  /\ Append(q, e) \in Seq(S) /\ Len(q) \in Nat
           /\ Len(Append(q, e)) = Len(q) + 1
           /\ DOMAIN q = 1..Len(q) /\ DOMAIN Append(q, e) = 1..(Len(q) + 1)
           /\ \A i \in 1..Len(q) : Append(q, e)[i] = q[i]
           /\ Append(q, e)[Len(q) + 1] = e
  OBVIOUS

LEMMA Replaced ==
    ASSUME NEW S, NEW q \in Seq(S), NEW h \in DOMAIN q, NEW e \in S, NEW p, p = [q EXCEPT ![h] = e]
    PROVE  /\ p \in Seq(S) /\ Len(p) = Len(q) /\ DOMAIN p = DOMAIN q
           /\ \A n \in DOMAIN q : p[n] = IF n = h THEN e ELSE q[n]
<1>1. h \in 1..Len(q)
  OBVIOUS
<1>2. p \in Seq(S) /\ Len(p) = Len(q)
  BY <1>1, ExceptSeq
<1> QED
  BY <1>2

LEMMA EmptyText == \A r : Ordered(<<>>, r) /\ LinesOf(<<>>) = {}
  BY DEF Ordered, LinesOf

\* A line is added to a text that has none of the item, nor of a later one.
LEMMA LineAppended ==
    ASSUME NEW f \in Text, NEW x \in Items, NEW r \in Seq(Callers), Ordered(f, r),
           x \notin LinesOf(f),
           \A i, j \in DOMAIN r : r[i] = x /\ i < j => r[j] \notin LinesOf(f),
           \A i, j \in DOMAIN r : r[i] = r[j] => i = j
    PROVE  LET g == Append(f, [item |-> x, cut |-> "line"])
           IN  g \in Text /\ Ordered(g, r) /\ LinesOf(g) = LinesOf(f) \cup {x}
<1> DEFINE e == [item |-> x, cut |-> "line"]
           g == Append(f, e)
<1>1. e \in Piece /\ e.item = x /\ e.cut = "line"
  BY DEF Piece
<1> HIDE DEF e
<1>2. /\ g \in Text /\ Len(f) \in Nat /\ DOMAIN f = 1..Len(f) /\ DOMAIN g = 1..(Len(f) + 1)
      /\ \A i \in 1..Len(f) : g[i] = f[i]
      /\ g[Len(f) + 1] = e
  BY <1>1, Extended DEF Text
<1> HIDE DEF g
<1>3. \A i \in DOMAIN f : f[i].cut = "line" => f[i].item \in LinesOf(f)
  BY DEF LinesOf
<1>4. LinesOf(g) = LinesOf(f) \cup {x}
  <2>1. LinesOf(g) \subseteq LinesOf(f) \cup {x}
    BY <1>1, <1>2 DEF LinesOf
  <2>2. LinesOf(f) \subseteq LinesOf(g)
    BY <1>2 DEF LinesOf
  <2>3. x \in LinesOf(g)
    BY <1>1, <1>2 DEF LinesOf
  <2> QED
    BY <2>1, <2>2, <2>3
<1>5. ASSUME NEW i \in DOMAIN g, NEW j \in DOMAIN g, g[i].item = g[j].item,
             g[i].cut = "line", g[j].cut = "line"
      PROVE  i = j
  <2>1. CASE i \in DOMAIN f /\ j \in DOMAIN f
    BY <1>2, <1>5, <2>1 DEF Ordered
  <2>2. CASE i = Len(f) + 1 \/ j = Len(f) + 1
    BY <1>1, <1>2, <1>3, <1>5, <2>2
  <2> QED
    BY <1>2, <2>1, <2>2
<1>6. ASSUME NEW i \in DOMAIN r, NEW j \in DOMAIN r, i < j,
             NEW k \in DOMAIN g, NEW l \in DOMAIN g,
             g[k].item = r[i], g[k].cut = "line", g[l].item = r[j], g[l].cut = "line"
      PROVE  k < l
  <2>0. i \in Nat /\ j \in Nat
    OBVIOUS
  <2>1. CASE k \in DOMAIN f /\ l \in DOMAIN f
    BY <1>2, <1>6, <2>1 DEF Ordered
  <2>2. CASE k = Len(f) + 1 /\ l \in DOMAIN f
    <3>1. r[i] = x /\ r[j] \in LinesOf(f)
      BY <1>1, <1>2, <1>3, <1>6, <2>2
    <3> QED
      BY <3>1, <1>6
  <2>3. CASE k = Len(f) + 1 /\ l = Len(f) + 1
    <3>1. r[i] = r[j]
      BY <1>6, <2>3
    <3> QED
      BY <3>1, <1>6, <2>0
  <2>4. CASE k \in DOMAIN f /\ l = Len(f) + 1
    BY <1>2, <2>4
  <2> QED
    BY <1>2, <2>1, <2>2, <2>3, <2>4
<1>7. Ordered(g, r)
  BY <1>5, <1>6 DEF Ordered
<1> QED
  BY <1>2, <1>4, <1>7 DEF g, e

\* A part of a line is no line.
LEMMA PartAppended ==
    ASSUME NEW f \in Text, NEW x \in Items, NEW cut \in {"json", "part"}, NEW r, Ordered(f, r)
    PROVE  LET g == Append(f, [item |-> x, cut |-> cut])
           IN  g \in Text /\ Ordered(g, r) /\ LinesOf(g) = LinesOf(f)
<1> DEFINE e == [item |-> x, cut |-> cut]
           g == Append(f, e)
<1>1. e \in Piece /\ e.item = x /\ e.cut # "line"
  BY DEF Piece
<1> HIDE DEF e
<1>2. /\ g \in Text /\ Len(f) \in Nat /\ DOMAIN f = 1..Len(f) /\ DOMAIN g = 1..(Len(f) + 1)
      /\ \A i \in 1..Len(f) : g[i] = f[i]
      /\ g[Len(f) + 1] = e
  BY <1>1, Extended DEF Text
<1> HIDE DEF g
<1>3. {j \in DOMAIN g : g[j].cut = "line"} = {j \in DOMAIN f : f[j].cut = "line"}
  BY <1>1, <1>2
<1>4. LinesOf(g) = LinesOf(f)
  <2>1. LinesOf(g) \subseteq LinesOf(f)
    BY <1>1, <1>2 DEF LinesOf
  <2>2. LinesOf(f) \subseteq LinesOf(g)
    BY <1>2 DEF LinesOf
  <2> QED
    BY <2>1, <2>2
<1>5. \A j \in DOMAIN g : g[j].cut = "line" => j \in DOMAIN f /\ g[j] = f[j]
  BY <1>1, <1>2
<1>6. Ordered(g, r)
  BY <1>5 DEF Ordered
<1> QED
  BY <1>2, <1>4, <1>6 DEF g, e

\* An item that nobody has a line of may come last in the order.
LEMMA OrderAppended ==
    ASSUME NEW f, NEW r \in Seq(Callers), NEW c \in Callers, Ordered(f, r), c \notin LinesOf(f)
    PROVE  Ordered(f, Append(r, c))
<1> DEFINE q == Append(r, c)
<1>1. /\ Len(r) \in Nat /\ DOMAIN r = 1..Len(r) /\ DOMAIN q = 1..(Len(r) + 1)
      /\ \A i \in 1..Len(r) : q[i] = r[i]
      /\ q[Len(r) + 1] = c
  BY Extended
<1> HIDE DEF q
<1>2. \A i \in DOMAIN f : f[i].cut = "line" => f[i].item # c
  BY DEF LinesOf
<1> SUFFICES ASSUME NEW i \in DOMAIN q, NEW j \in DOMAIN q, i < j,
                    NEW k \in DOMAIN f, NEW l \in DOMAIN f,
                    f[k].item = q[i], f[k].cut = "line", f[l].item = q[j], f[l].cut = "line"
             PROVE  k < l
  BY DEF Ordered, q
<1>3. i \in DOMAIN r /\ j \in DOMAIN r /\ q[i] = r[i] /\ q[j] = r[j]
  BY <1>1, <1>2
<1> QED
  BY <1>3 DEF Ordered

-----------------------------------------------------------------------------
(* The disk *)

\* A new file with nothing new in it.
LEMMA FileCreated ==
    ASSUME file \in Seq(Text), NEW f \in Text, Ordered(f, received), LinesOf(f) \subseteq Written,
           \A n \in DOMAIN file : Ordered(file[n], received),
           file' = Append(file, f), received' = received
    PROVE  /\ file' \in Seq(Text) /\ Len(file') = Len(file) + 1 /\ Len(file) \in Nat
           /\ Written' = Written
           /\ \A n \in DOMAIN file' : Ordered(file'[n], received')
<1>1. /\ file' \in Seq(Text) /\ Len(file) \in Nat /\ Len(file') = Len(file) + 1
      /\ DOMAIN file = 1..Len(file) /\ DOMAIN file' = 1..(Len(file) + 1)
      /\ \A i \in 1..Len(file) : file'[i] = file[i]
      /\ file'[Len(file) + 1] = f
  BY Extended
<1>2. Written' \subseteq Written
  BY <1>1 DEF Written
<1>3. Written \subseteq Written'
  BY <1>1 DEF Written
<1>4. \A n \in DOMAIN file' : Ordered(file'[n], received')
  BY <1>1
<1> QED
  BY <1>1, <1>2, <1>3, <1>4

\* A file that grows.
LEMMA FileReplaced ==
    ASSUME file \in Seq(Text), NEW h \in DOMAIN file, NEW g \in Text,
           \A n \in DOMAIN file : Ordered(file[n], received), Ordered(g, received),
           LinesOf(file[h]) \subseteq LinesOf(g),
           file' = [file EXCEPT ![h] = g], received' = received
    PROVE  /\ file' \in Seq(Text) /\ Len(file') = Len(file) /\ DOMAIN file' = DOMAIN file
           /\ Written' = Written \cup LinesOf(g)
           /\ \A n \in DOMAIN file' : Ordered(file'[n], received')
<1>1. /\ file' \in Seq(Text) /\ Len(file') = Len(file) /\ DOMAIN file' = DOMAIN file
      /\ \A n \in DOMAIN file : file'[n] = IF n = h THEN g ELSE file[n]
  BY Replaced
<1>2. Written' \subseteq Written \cup LinesOf(g)
  BY <1>1 DEF Written
<1>3. Written \subseteq Written'
  BY <1>1 DEF Written
<1>4. LinesOf(g) \subseteq Written'
  BY <1>1 DEF Written
<1>5. \A n \in DOMAIN file' : Ordered(file'[n], received')
  BY <1>1
<1> QED
  BY <1>1, <1>2, <1>3, <1>4, <1>5

\* A line of an item that has none, and that comes before none.
LEMMA LineWritten ==
    ASSUME file \in Seq(Text), received \in Seq(Callers),
           \A n \in DOMAIN file : Ordered(file[n], received),
           NEW h \in DOMAIN file, NEW x \in Items, x \notin Written,
           \A i, j \in DOMAIN received : received[i] = x /\ i < j => received[j] \notin Written,
           \A i, j \in DOMAIN received : received[i] = received[j] => i = j,
           file' = [file EXCEPT ![h] = Append(@, [item |-> x, cut |-> "line"])],
           received' = received
    PROVE  /\ file' \in Seq(Text) /\ Len(file') = Len(file) /\ DOMAIN file' = DOMAIN file
           /\ Written' = Written \cup {x}
           /\ \A n \in DOMAIN file' : Ordered(file'[n], received')
<1> DEFINE g == Append(file[h], [item |-> x, cut |-> "line"])
<1>1. file[h] \in Text /\ LinesOf(file[h]) \subseteq Written
  BY DEF Written
<1>2. g \in Text /\ Ordered(g, received) /\ LinesOf(g) = LinesOf(file[h]) \cup {x}
  BY <1>1, LineAppended
<1>3. file' = [file EXCEPT ![h] = g]
  OBVIOUS
<1> HIDE DEF g
<1>4. /\ file' \in Seq(Text) /\ Len(file') = Len(file) /\ DOMAIN file' = DOMAIN file
      /\ Written' = Written \cup LinesOf(g)
      /\ \A n \in DOMAIN file' : Ordered(file'[n], received')
  BY <1>2, <1>3, FileReplaced
<1> QED
  BY <1>1, <1>2, <1>4

LEMMA PartWritten ==
    ASSUME file \in Seq(Text),
           \A n \in DOMAIN file : Ordered(file[n], received),
           NEW h \in DOMAIN file, NEW x \in Items, NEW cut \in {"json", "part"},
           file' = [file EXCEPT ![h] = Append(@, [item |-> x, cut |-> cut])],
           received' = received
    PROVE  /\ file' \in Seq(Text) /\ Len(file') = Len(file) /\ DOMAIN file' = DOMAIN file
           /\ Written' = Written
           /\ \A n \in DOMAIN file' : Ordered(file'[n], received')
<1> DEFINE g == Append(file[h], [item |-> x, cut |-> cut])
<1>1. file[h] \in Text /\ LinesOf(file[h]) \subseteq Written
  BY DEF Written
<1>2. g \in Text /\ Ordered(g, received) /\ LinesOf(g) = LinesOf(file[h])
  BY <1>1, PartAppended
<1>3. file' = [file EXCEPT ![h] = g]
  OBVIOUS
<1> HIDE DEF g
<1>4. /\ file' \in Seq(Text) /\ Len(file') = Len(file) /\ DOMAIN file' = DOMAIN file
      /\ Written' = Written \cup LinesOf(g)
      /\ \A n \in DOMAIN file' : Ordered(file'[n], received')
  BY <1>2, <1>3, FileReplaced
<1> QED
  BY <1>1, <1>2, <1>4

-----------------------------------------------------------------------------
(* Frames *)

LEMMA InitInv == Init => Inv
<1> SUFFICES ASSUME Init PROVE Inv
  OBVIOUS
<1> USE RolloutAssumption DEF RolloutAssumption
<1>1. /\ worker = [pc |-> "idle", before |-> <<>>, copy |-> <<>>, runs |-> 0]
      /\ rec = Closed /\ io = [a \in Actors |-> Idle]
      /\ caller = [c \in Callers |-> [op |-> "flush", pc |-> "idle", gen |-> 0]]
      /\ opens = 0 /\ faults = 0 /\ received = <<>> /\ sure = {}
  BY DEF Init
<1>2. \/ file = <<>> /\ plain = 0 /\ zst = 0 /\ cold = FALSE
      \/ file = <<OldFile>> /\ plain = 1 /\ zst = 0 /\ cold \in BOOLEAN
      \/ file = <<OldFile>> /\ plain = 0 /\ zst = 1 /\ cold = FALSE
  BY DEF Init
<1>3. /\ OldFile \in Text /\ DOMAIN OldFile = 1..2
      /\ OldFile[1] = [item |-> Meta, cut |-> "line"] /\ OldFile[2] = [item |-> Old, cut |-> "line"]
  BY DEF OldFile, Text, Piece, Items
<1>4. LinesOf(OldFile) \cap Callers = {} /\ Ordered(OldFile, <<>>)
  BY <1>3 DEF LinesOf, Ordered
<1>5. <<>> \in Text
  BY DEF Text
<1>6. DiskTypes
  <2>1. CASE file = <<>>
    <3>1. file \in Seq(Text) /\ Len(file) = 0 /\ file # <<OldFile>>
      BY <2>1
    <3>2. plain = 0 /\ zst = 0 /\ cold \in BOOLEAN
      BY <1>2, <3>1, Zenon
    <3> QED
      BY <3>1, <3>2 DEF DiskTypes
  <2>2. CASE file = <<OldFile>>
    <3>1. file \in Seq(Text) /\ Len(file) = 1
      BY <1>3, <2>2
    <3>2. file # <<>>
      BY <2>2
    <3>3. plain \in {0, 1} /\ zst \in {0, 1} /\ cold \in BOOLEAN
      BY <1>2, <3>2, Zenon
    <3> QED
      BY <3>1, <3>3 DEF DiskTypes
  <2> QED
    BY <1>2, <2>1, <2>2
<1>7. Written \cap Callers = {} /\ \A n \in DOMAIN file : Ordered(file[n], received)
  <2>1. CASE file = <<>>
    BY <2>1 DEF Written
  <2>2. CASE file = <<OldFile>>
    <3>1. DOMAIN file = {1} /\ file[1] = OldFile
      BY <2>2
    <3> QED
      BY <1>1, <1>4, <3>1 DEF Written
  <2> QED
    BY <1>2, <2>1, <2>2
<1>8. WorkerTypes /\ IoTypes /\ CountTypes
  BY <1>1, <1>5, <1>6 DEF WorkerTypes, IoTypes, CountTypes, Idle, FileSteps, DiskTypes
<1>9. rec \in RecType /\ caller \in [Callers -> CallType]
  BY <1>1 DEF RecType, Closed, Command, None, CallType, CallSteps
<1>10. TextInv
  BY <1>1, <1>7, EmptyText DEF TextInv, Copied, Idle
<1>11. PlaceInv
  BY <1>1 DEF PlaceInv, Closed, Idle, Actors
<1>12. CallInv /\ ItemInv /\ SureInv
  BY <1>1, <1>7 DEF CallInv, ItemInv, SureInv, Closed, None, Queued, Received, Buffered, Waiting
<1> QED
  BY <1>6, <1>8, <1>9, <1>10, <1>11, <1>12 DEF Inv, Types

LEMMA Sources ==
    ASSUME TextInv
    PROVE  Copied(<<>>) /\ Copied(worker.copy) /\ \A n \in DOMAIN file : Copied(file[n])
  BY EmptyText DEF TextInv, Copied, Written

LEMMA TextKept ==
    ASSUME received' = received, Written \subseteq Written',
           \A n \in DOMAIN file' : Ordered(file'[n], received'),
           Copied(worker'.copy), \A a \in Actors : Copied(io'[a].copy)
    PROVE  TextInv'
<1>1. Ordered(worker'.copy, received') /\ LinesOf(worker'.copy) \subseteq Written'
  BY DEF Copied
<1>2. \A a \in Actors : Ordered(io'[a].copy, received') /\ LinesOf(io'[a].copy) \subseteq Written'
  BY DEF Copied
<1> QED
  BY <1>1, <1>2 DEF TextInv, Copied

LEMMA CallFrame ==
    ASSUME CallInv, UNCHANGED <<rec, caller>>
    PROVE  CallInv'
  BY DEF CallInv, Served, Fits, Waiting

LEMMA ItemFrame ==
    ASSUME ItemInv, UNCHANGED <<rec, caller, received>>, Written' = Written
    PROVE  ItemInv'
  BY DEF ItemInv, Queued, Received, Buffered, Sent

\* What Goto does.
IoType == [pc : FileSteps, copy : Text, handle : 0..Len(file)]
LEMMA IoMoves ==
    ASSUME IoTypes, NEW a \in Actors, NEW step \in FileSteps, Goto(a, step)
    PROVE  /\ io' \in [Actors -> IoType]
           /\ io'[a].pc = step /\ io'[a].copy = io[a].copy /\ io'[a].handle = io[a].handle
           /\ \A b \in Actors \ {a} : io'[b] = io[b]
<1>1. io \in [Actors -> IoType]
  BY DEF IoTypes, IoType
<1>2. io' = [io EXCEPT ![a].pc = step]
  BY DEF Goto
<1>3. io[a] \in IoType
  BY <1>1
<1>4. /\ [io[a] EXCEPT !.pc = step] \in IoType
      /\ [io[a] EXCEPT !.pc = step].pc = step
      /\ [io[a] EXCEPT !.pc = step].copy = io[a].copy
      /\ [io[a] EXCEPT !.pc = step].handle = io[a].handle
  BY <1>3 DEF IoType
<1> QED
  BY <1>1, <1>2, <1>4

\* A call goes on.
LEMMA CallerMoves ==
    ASSUME caller \in [Callers -> CallType], NEW c \in Callers, NEW step \in CallSteps,
           caller' = [caller EXCEPT ![c].pc = step]
    PROVE  /\ caller' \in [Callers -> CallType]
           /\ caller'[c].pc = step /\ caller'[c].op = caller[c].op /\ caller'[c].gen = caller[c].gen
           /\ \A d \in Callers \ {c} : caller'[d] = caller[d]
<1>1. caller[c] \in CallType
  OBVIOUS
<1>2. /\ [caller[c] EXCEPT !.pc = step] \in CallType
      /\ [caller[c] EXCEPT !.pc = step].pc = step
      /\ [caller[c] EXCEPT !.pc = step].op = caller[c].op
      /\ [caller[c] EXCEPT !.pc = step].gen = caller[c].gen
  BY <1>1 DEF CallType
<1> QED
  BY <1>2

-----------------------------------------------------------------------------
(* File operations *)

\* A step that leaves the recorder, the calls and the histories alone, and
\* writes nothing, has only texts and places to account for.
LEMMA QuietStep ==
    ASSUME Inv, UNCHANGED <<rec, caller, opens, faults, received, sure>>,
           DiskTypes', WorkerTypes', IoTypes', Written' = Written,
           \A n \in DOMAIN file' : Ordered(file'[n], received'),
           Copied(worker'.copy), \A a \in Actors : Copied(io'[a].copy),
           PlaceInv'
    PROVE  Inv'
<1>1. Types /\ TextInv /\ CallInv /\ ItemInv /\ SureInv
  BY DEF Inv
<1>2. Types'
  BY <1>1 DEF Types, CountTypes
<1>3. TextInv'
  BY TextKept
<1>4. CallInv' /\ ItemInv'
  BY <1>1, CallFrame, ItemFrame
<1>5. SureInv'
  BY <1>1 DEF SureInv
<1> QED
  BY <1>2, <1>3, <1>4, <1>5 DEF Inv

\* An actor in the middle of an operation moves on.
LEMMA PlaceMoves ==
    ASSUME PlaceInv, UNCHANGED <<rec, caller, opens>>, IoTypes, NEW a \in Actors,
           io[a].pc \in OpenSteps, io'[a].pc \in OpenSteps,
           \A b \in Actors \ {a} : io'[b] = io[b]
    PROVE  PlaceInv'
<1> USE RolloutAssumption DEF RolloutAssumption, Actors
<1>1. io[a].pc \notin {"idle", "write", "done"} /\ io'[a].pc \notin {"idle", "write", "done"}
  BY DEF OpenSteps
<1>2. rec.life \in {"none", "ended"} => io'["rec"] = Idle
  BY <1>1 DEF PlaceInv, Idle
<1>3. rec.life = "opening" => io'["rec"].pc \in OpenSteps
  BY DEF PlaceInv
<1>4. rec.life = "live" => (io'["rec"].pc = "idle" <=> rec.cmd = None)
  BY <1>1 DEF PlaceInv
<1>5. io'["rec"].pc = "done" => rec.pending = <<>>
  BY <1>1 DEF PlaceInv
<1>6. \A b \in Actors : io'[b].pc = "write" => io'[b].handle # 0
  BY <1>1 DEF PlaceInv
<1>7. \A c \in Callers : io'[c].pc # "idle" => caller[c].pc = "patch"
  BY <1>1 DEF PlaceInv
<1> QED
  BY <1>2, <1>3, <1>4, <1>5, <1>6, <1>7 DEF PlaceInv

LEMMA OpenStep ==
    ASSUME Inv, NEW a \in Actors,
           \/ PlainExists(a) \/ CompressedExists(a) \/ Decompress(a)
           \/ Link(a) \/ RemoveCompressed(a)
    PROVE  Inv'
<1>0. Types /\ TextInv /\ PlaceInv /\ DiskTypes /\ IoTypes /\ WorkerTypes
  BY DEF Inv, Types
<1>1. /\ UNCHANGED <<rec, caller, opens, faults, received, sure, worker>>
      /\ io[a].pc \in OpenSteps
  BY DEF PlainExists, CompressedExists, Decompress, Link, RemoveCompressed, At, OpenSteps
<1>2. io \in [Actors -> IoType] /\ io[a] \in IoType
  BY <1>0 DEF IoTypes, IoType
<1>3. OpenSteps \subseteq FileSteps /\ OpenSteps = {"plain", "zst", "read", "link", "unlink", "open"}
  BY DEF OpenSteps, FileSteps
<1>w. WorkerTypes'
  BY <1>0, <1>1 DEF WorkerTypes
<1>4. ASSUME NEW step \in OpenSteps, NEW text \in Text, Copied(text), DiskTypes', Len(file) <= Len(file'),
             Written' = Written, \A n \in DOMAIN file' : Ordered(file'[n], received'),
             io' = [io EXCEPT ![a] = [@ EXCEPT !.pc = step, !.copy = text]]
      PROVE  Inv'
  <2>1. /\ io'[a] = [io[a] EXCEPT !.pc = step, !.copy = text]
        /\ io' \in [Actors -> IoType]
        /\ \A b \in Actors \ {a} : io'[b] = io[b]
    <3>1. [io[a] EXCEPT !.pc = step, !.copy = text] \in IoType
      BY <1>2, <1>3 DEF IoType
    <3> QED
      BY <1>2, <1>4, <3>1
  <2>2. io'[a].pc = step /\ io'[a].copy = text
    BY <1>2, <2>1 DEF IoType
  <2>3. 0..Len(file) \subseteq 0..Len(file')
    BY <1>0, <1>4 DEF DiskTypes
  <2>4. IoTypes'
    BY <2>1, <2>3 DEF IoTypes, IoType
  <2>5. \A b \in Actors : Copied(io'[b].copy)
    BY <1>0, <1>4, <2>1, <2>2 DEF TextInv
  <2>6. PlaceInv'
    BY <1>0, <1>1, <2>1, <2>2, PlaceMoves
  <2> QED
    BY <1>0, <1>1, <1>w, <1>4, <2>4, <2>5, <2>6, QuietStep DEF TextInv
<1>5. Copied(io[a].copy) /\ io[a].copy \in Text /\ Copied(<<>>) /\ <<>> \in Text
  BY <1>0, <1>2, Sources DEF TextInv, IoType, Text
<1>6. ASSUME file' = file PROVE Written' = Written /\ \A n \in DOMAIN file' : Ordered(file'[n], received')
  BY <1>0, <1>1, <1>6 DEF Written, TextInv
<1>7. CASE PlainExists(a) \/ CompressedExists(a)
  <2>1. PICK step \in {"open", "zst", "read"} : Goto(a, step) /\ UNCHANGED disk
    BY <1>7 DEF PlainExists, CompressedExists
  <2>2. io' = [io EXCEPT ![a] = [@ EXCEPT !.pc = step, !.copy = io[a].copy]]
    BY <1>2, <2>1 DEF Goto, IoType
  <2>3. DiskTypes' /\ Len(file) <= Len(file')
    BY <1>0, <2>1 DEF disk, DiskTypes
  <2> QED
    BY <1>3, <1>4, <1>5, <1>6, <2>1, <2>2, <2>3 DEF disk
<1>8. CASE Decompress(a)
  <2>1. /\ zst # 0 /\ UNCHANGED disk
        /\ io' = [io EXCEPT ![a].pc = "link", ![a].copy = file[zst]]
    BY <1>8 DEF Decompress
  <2>2. io' = [io EXCEPT ![a] = [@ EXCEPT !.pc = "link", !.copy = file[zst]]]
    BY <1>2, <2>1 DEF IoType
  <2>3. file[zst] \in Text /\ Copied(file[zst])
    BY <1>0, <2>1, Sources DEF DiskTypes
  <2>4. DiskTypes' /\ Len(file) <= Len(file')
    BY <1>0, <2>1 DEF disk, DiskTypes
  <2> QED
    BY <1>3, <1>4, <1>6, <2>1, <2>2, <2>3, <2>4 DEF disk
<1>9. CASE Link(a)
  <2>1. /\ \/ UNCHANGED <<file, plain, cold>>
           \/ file' = Append(file, io[a].copy) /\ plain' = Len(file) + 1 /\ cold' = FALSE
        /\ zst' = zst
        /\ io' = [io EXCEPT ![a].pc = "unlink", ![a].copy = <<>>]
    BY <1>9 DEF Link, CreatePlain
  <2>2. io' = [io EXCEPT ![a] = [@ EXCEPT !.pc = "unlink", !.copy = <<>>]]
    BY <1>2, <2>1 DEF IoType
  <2>3. CASE UNCHANGED <<file, plain, cold>>
    <3>1. DiskTypes' /\ Len(file) <= Len(file')
      BY <1>0, <2>1, <2>3 DEF DiskTypes
    <3> QED
      BY <1>3, <1>4, <1>5, <1>6, <2>2, <2>3, <3>1
  <2>4. CASE file' = Append(file, io[a].copy) /\ plain' = Len(file) + 1 /\ cold' = FALSE
    <3>1. /\ file' \in Seq(Text) /\ Len(file') = Len(file) + 1 /\ Len(file) \in Nat
          /\ Written' = Written
          /\ \A n \in DOMAIN file' : Ordered(file'[n], received')
      BY <1>0, <1>1, <1>5, <2>4, FileCreated DEF DiskTypes, TextInv, Copied
    <3>2. DiskTypes' /\ Len(file) <= Len(file')
      <4>1. zst \in 0..Len(file)
        BY <1>0 DEF DiskTypes
      <4>2. plain' \in 0..Len(file') /\ zst' \in 0..Len(file') /\ Len(file) <= Len(file')
        BY <2>1, <2>4, <3>1, <4>1
      <4> QED
        BY <2>4, <3>1, <4>2 DEF DiskTypes
    <3> QED
      BY <1>3, <1>4, <1>5, <2>2, <3>1, <3>2
  <2> QED
    BY <2>1, <2>3, <2>4
<1>10. CASE RemoveCompressed(a)
  <2>1. Goto(a, "open") /\ zst' = 0 /\ UNCHANGED <<file, plain, cold>>
    BY <1>10 DEF RemoveCompressed
  <2>2. io' = [io EXCEPT ![a] = [@ EXCEPT !.pc = "open", !.copy = io[a].copy]]
    BY <1>2, <2>1 DEF Goto, IoType
  <2>3. DiskTypes' /\ Len(file) <= Len(file')
    BY <1>0, <2>1 DEF DiskTypes
  <2> QED
    BY <1>3, <1>4, <1>5, <1>6, <2>1, <2>2, <2>3
<1> QED
  BY <1>7, <1>8, <1>9, <1>10

LEMMA WorkerRuns ==
    ASSUME Inv, WorkerStep \/ WorkerDies \/ Age
    PROVE  Inv'
<1> USE RolloutAssumption DEF RolloutAssumption
<1>0. /\ TextInv /\ PlaceInv /\ DiskTypes /\ IoTypes /\ WorkerTypes
      /\ Copied(<<>>) /\ \A n \in DOMAIN file : Copied(file[n])
  BY Sources DEF Inv, Types
<1> USE DEF WorkerGoto, WorkerEnds, WorkerAt
<1>1. UNCHANGED <<rec, io, caller, opens, faults, received, sure>>
  BY DEF WorkerStep, FindCold, SkipCompressed, Encode, Compare, PersistCopy, CompareAgain,
         RemovePlain, WorkerDies, Age, disk
<1>2. PlaceInv'
  BY <1>0, <1>1 DEF PlaceInv
<1>3. \A a \in Actors : Copied(io'[a].copy)
  BY <1>0, <1>1 DEF TextInv
<1>4. ASSUME file' = file PROVE Written' = Written /\ \A n \in DOMAIN file' : Ordered(file'[n], received')
  BY <1>0, <1>1, <1>4 DEF Written, TextInv
<1>5. ASSUME DiskTypes', Len(file) <= Len(file'), WorkerTypes', Copied(worker'.copy),
             Written' = Written, \A n \in DOMAIN file' : Ordered(file'[n], received')
      PROVE  Inv'
  <2>1. 0..Len(file) \subseteq 0..Len(file')
    BY <1>0, <1>5 DEF DiskTypes
  <2>2. IoTypes'
    BY <1>0, <1>1, <2>1 DEF IoTypes
  <2> QED
    BY <1>1, <1>2, <1>3, <1>5, <2>2, QuietStep
<1>6. worker.copy \in Text /\ worker.before \in Text /\ worker.runs \in 0..MaxRuns /\ Copied(worker.copy)
      /\ <<>> \in Text
  BY <1>0 DEF WorkerTypes, TextInv, Text
<1>7. CASE FindCold \/ SkipCompressed \/ Encode \/ Compare \/ WorkerDies \/ Age
  <2>1. UNCHANGED <<file, plain, zst>> /\ cold' \in BOOLEAN
    BY <1>0, <1>7 DEF FindCold, SkipCompressed, Encode, Compare, WorkerDies, Age, disk, DiskTypes
  <2>2. DiskTypes' /\ Len(file) <= Len(file')
    BY <1>0, <2>1 DEF DiskTypes
  <2>3. plain # 0 => file[plain] \in Text /\ Copied(file[plain])
    BY <1>0 DEF DiskTypes
  <2>4. WorkerTypes' /\ Copied(worker'.copy)
    <3>1. CASE FindCold
      <4>1. /\ worker' = [worker EXCEPT !.pc = "exists", !.before = file[plain], !.runs = @ + 1]
            /\ plain # 0 /\ worker.runs + 1 \in 0..MaxRuns
        BY <1>6, <3>1 DEF FindCold
      <4> QED
        BY <1>0, <1>6, <2>3, <4>1 DEF WorkerTypes
    <3>2. CASE SkipCompressed
      BY <1>0, <1>6, <3>2 DEF SkipCompressed, WorkerTypes
    <3>3. CASE Encode
      BY <1>0, <1>6, <2>3, <3>3 DEF Encode, WorkerTypes
    <3>4. CASE Compare
      BY <1>0, <1>6, <3>4 DEF Compare, WorkerTypes
    <3>5. CASE WorkerDies \/ Age
      BY <1>0, <1>6, <3>5 DEF WorkerDies, Age, WorkerTypes
    <3> QED
      BY <1>7, <3>1, <3>2, <3>3, <3>4, <3>5
  <2> QED
    BY <1>4, <1>5, <2>1, <2>2, <2>4
<1>8. CASE CompareAgain \/ RemovePlain
  <2>1. file' = file /\ plain' \in {plain, 0} /\ zst' \in {zst, 0} /\ cold' \in BOOLEAN
    BY <1>0, <1>8 DEF CompareAgain, RemovePlain, DiskTypes
  <2>2. DiskTypes' /\ Len(file) <= Len(file')
    BY <1>0, <2>1 DEF DiskTypes
  <2>3. WorkerTypes' /\ Copied(worker'.copy)
    BY <1>0, <1>6, <1>8 DEF CompareAgain, RemovePlain, WorkerTypes
  <2> QED
    BY <1>4, <1>5, <2>1, <2>2, <2>3
<1>9. CASE PersistCopy
  <2>1. /\ UNCHANGED <<plain, cold>>
        /\ \/ file' = Append(file, worker.copy) /\ zst' = Len(file) + 1
           \/ UNCHANGED <<file, zst>>
    BY <1>9 DEF PersistCopy
  <2>2. WorkerTypes' /\ Copied(worker'.copy)
    BY <1>0, <1>6, <1>9 DEF PersistCopy, WorkerTypes
  <2>3. CASE UNCHANGED <<file, zst>>
    <3>1. DiskTypes' /\ Len(file) <= Len(file')
      BY <1>0, <2>1, <2>3 DEF DiskTypes
    <3> QED
      BY <1>4, <1>5, <2>2, <2>3, <3>1
  <2>4. CASE file' = Append(file, worker.copy) /\ zst' = Len(file) + 1
    <3>1. /\ file' \in Seq(Text) /\ Len(file') = Len(file) + 1 /\ Len(file) \in Nat
          /\ Written' = Written
          /\ \A n \in DOMAIN file' : Ordered(file'[n], received')
      BY <1>0, <1>1, <1>6, <2>4, FileCreated DEF DiskTypes, TextInv, Copied
    <3>2. plain \in 0..Len(file) /\ cold' \in BOOLEAN
      BY <1>0, <2>1 DEF DiskTypes
    <3>3. plain' \in 0..Len(file') /\ zst' \in 0..Len(file') /\ Len(file) <= Len(file')
      BY <2>1, <2>4, <3>1, <3>2
    <3>4. DiskTypes'
      BY <3>1, <3>2, <3>3 DEF DiskTypes
    <3> QED
      BY <1>5, <2>2, <3>1, <3>3, <3>4
  <2> QED
    BY <2>1, <2>3, <2>4
<1> QED
  BY <1>7, <1>8, <1>9 DEF WorkerStep

-----------------------------------------------------------------------------
(* Failures *)

\* A call that waits for nothing goes on.
LEMMA CallsKept ==
    ASSUME CallInv, UNCHANGED rec, NEW c \in Callers, NEW step \in CallSteps,
           caller'[c].pc = step, caller'[c].op = caller[c].op,
           \A d \in Callers \ {c} : caller'[d] = caller[d],
           caller[c].pc \notin {"wait", "ok"}, step \notin {"wait", "remove", "record", "idle"},
           step \in {"meta", "patch"} => caller[c].op = "patch"
    PROVE  CallInv' /\ \A d \in Callers : Sent(d) => Sent(d)'
<1>1. \A d \in Callers : caller'[d].pc = "wait" => rec'.life = "live" /\ Served(d)'
  BY DEF CallInv, Served, Waiting
<1>2. \A d \in Callers : caller'[d].pc = "remove" =>
         rec'.life = "ended" /\ \A e \in Callers \ {d} : caller'[e].pc # "remove"
  BY DEF CallInv
<1>3. (\A i \in DOMAIN rec.queue : Fits(rec.queue[i]))'
  BY DEF CallInv, Fits
<1>4. (rec.cmd # None => Fits(rec.cmd))'
  BY DEF CallInv, Fits
<1>5. \A d \in Callers : /\ caller'[d].pc = "record" => caller'[d].op = "append"
                         /\ caller'[d].pc \in {"meta", "patch"} => caller'[d].op = "patch"
  BY DEF CallInv
<1>6. CallInv'
  BY <1>1, <1>2, <1>3, <1>4, <1>5 DEF CallInv, Waiting
<1>7. \A d \in Callers : Sent(d) => Sent(d)'
  BY DEF Sent
<1> QED
  BY <1>6, <1>7

LEMMA CallGoesOn ==
    ASSUME CallInv, ItemInv, UNCHANGED <<rec, received>>, Written' = Written,
           NEW c \in Callers, NEW step \in CallSteps,
           caller'[c].pc = step, caller'[c].op = caller[c].op,
           \A d \in Callers \ {c} : caller'[d] = caller[d],
           caller[c].pc \notin {"wait", "ok"}, step \notin {"wait", "remove", "record", "idle"},
           step \in {"meta", "patch"} => caller[c].op = "patch"
    PROVE  CallInv' /\ ItemInv'
<1>1. CallInv' /\ \A d \in Callers : Sent(d) => Sent(d)'
  BY CallsKept
<1>2. \A d \in Callers : d \in Written => Sent(d)' \/ (caller'[d].op = "patch" /\ caller'[d].pc = "ok")
  BY <1>1 DEF ItemInv
<1>3. ItemInv'
  BY <1>1, <1>2 DEF ItemInv, Queued, Received, Buffered
<1> QED
  BY <1>1, <1>3

\* What NoHandle does.
LEMMA IoEnds ==
    ASSUME IoTypes, DiskTypes, NEW a \in Actors, NEW step \in {"idle", "plain"},
           io' = [io EXCEPT ![a] = [Idle EXCEPT !.pc = step]]
    PROVE  /\ io' \in [Actors -> IoType]
           /\ io'[a].pc = step /\ io'[a].copy = <<>>
           /\ step = "idle" => io'[a] = Idle
           /\ \A b \in Actors \ {a} : io'[b] = io[b]
<1>1. io \in [Actors -> IoType]
  BY DEF IoTypes, IoType
<1>2. [Idle EXCEPT !.pc = step] = [pc |-> step, copy |-> <<>>, handle |-> 0]
  BY DEF Idle
<1>3. [pc |-> step, copy |-> <<>>, handle |-> 0] \in IoType
  BY DEF IoType, FileSteps, Text, DiskTypes
<1> QED
  BY <1>1, <1>2, <1>3 DEF Idle

Lives == {"none", "opening", "live", "ended"}

\* The updates of the recorder.
LEMMA RecUpdates ==
    ASSUME NEW r \in RecType
    PROVE  /\ \A t \in 1..2 :
              [r EXCEPT !.try = t] \in RecType
           /\ \A t \in 1..2, c \in Command :
              [r EXCEPT !.cmd = c, !.try = t] \in RecType
           /\ \A t \in 1..2, c \in Command, l \in Lives, q \in Seq(Command) :
              [r EXCEPT !.cmd = c, !.try = t, !.life = l, !.queue = q] \in RecType
           /\ \A l \in Lives :
              [r EXCEPT !.life = l] \in RecType
           /\ \A b \in BOOLEAN :
              [r EXCEPT !.deferred = b] \in RecType
           /\ \A q \in Seq(Command) :
              [r EXCEPT !.queue = q] \in RecType
           /\ \A q \in Seq(Command), p \in Seq(Callers) :
              [r EXCEPT !.queue = q, !.pending = p] \in RecType
           /\ \A c \in Command, q \in Seq(Command) :
              [r EXCEPT !.queue = q, !.cmd = c] \in RecType
           /\ \A b \in BOOLEAN, p \in Seq(Callers) :
              [r EXCEPT !.meta = b, !.pending = p] \in RecType
           /\ \A c \in Command :
              [r EXCEPT !.cmd = c] \in RecType
<1>1. \A t \in 1..2 :
              [r EXCEPT !.try = t] \in RecType
  BY DEF RecType, Lives
<1>2. \A t \in 1..2, c \in Command :
              [r EXCEPT !.cmd = c, !.try = t] \in RecType
  BY DEF RecType, Lives
<1>3. \A t \in 1..2, c \in Command, l \in Lives, q \in Seq(Command) :
              [r EXCEPT !.cmd = c, !.try = t, !.life = l, !.queue = q] \in RecType
  BY DEF RecType, Lives
<1>4. \A l \in Lives :
              [r EXCEPT !.life = l] \in RecType
  BY DEF RecType, Lives
<1>5. \A b \in BOOLEAN :
              [r EXCEPT !.deferred = b] \in RecType
  BY DEF RecType, Lives
<1>6. \A q \in Seq(Command) :
              [r EXCEPT !.queue = q] \in RecType
  BY DEF RecType, Lives
<1>7. \A q \in Seq(Command), p \in Seq(Callers) :
              [r EXCEPT !.queue = q, !.pending = p] \in RecType
  BY DEF RecType, Lives
<1>8. \A c \in Command, q \in Seq(Command) :
              [r EXCEPT !.queue = q, !.cmd = c] \in RecType
  BY DEF RecType, Lives
<1>9. \A b \in BOOLEAN, p \in Seq(Callers) :
              [r EXCEPT !.meta = b, !.pending = p] \in RecType
  BY DEF RecType, Lives
<1>10. \A c \in Command :
              [r EXCEPT !.cmd = c] \in RecType
  BY DEF RecType, Lives
<1> QED
  BY <1>1, <1>2, <1>3, <1>4, <1>5, <1>6, <1>7, <1>8, <1>9, <1>10

LEMMA NoCommand == None \in Command /\ None.kind = "flush" /\ None.who = Nobody
  BY DEF None, Command

\* The retry failed, too: the writer is idle again, and whoever waited for the
\* command is told.
LEMMA GiveUp ==
    ASSUME Inv, Written' = Written, received' = received, opens' = opens, rec.life = "live",
           rec' = [rec EXCEPT !.cmd = None, !.try = 1], rec.cmd # None,
           caller' = [d \in Callers |-> IF d = rec.cmd.who /\ rec.cmd.kind # "add"
                                        THEN [caller[d] EXCEPT !.pc = "err"] ELSE caller[d]],
           io'["rec"] = Idle, \A b \in Actors \ {"rec"} : io'[b] = io[b]
    PROVE  rec' \in RecType /\ caller' \in [Callers -> CallType] /\ PlaceInv' /\ CallInv' /\ ItemInv'
<1> USE RolloutAssumption DEF RolloutAssumption
<1>0. rec \in RecType /\ caller \in [Callers -> CallType] /\ PlaceInv /\ CallInv /\ ItemInv
  BY DEF Inv, Types
<1>1. /\ rec' \in RecType /\ rec'.cmd = None
      /\ rec'.life = "live" /\ rec'.pending = rec.pending /\ rec'.queue = rec.queue /\ rec'.meta = rec.meta
  <2>0. 1 \in 1..2
    OBVIOUS
  <2>1. rec' \in RecType
    BY <1>0, <2>0, NoCommand, RecUpdates, Zenon
  <2>2. rec'.cmd = None /\ rec'.life = "live" /\ rec'.pending = rec.pending /\ rec'.queue = rec.queue
    BY <1>0 DEF RecType
  <2>3. rec'.meta = rec.meta
    BY <1>0 DEF RecType
  <2> QED
    BY <2>1, <2>2, <2>3
<1>2. /\ caller' \in [Callers -> CallType]
      /\ \A d \in Callers : caller'[d].op = caller[d].op
      /\ \A d \in Callers : ~(d = rec.cmd.who /\ rec.cmd.kind # "add") => caller'[d] = caller[d]
      /\ \A d \in Callers : (d = rec.cmd.who /\ rec.cmd.kind # "add") => caller'[d].pc = "err"
  BY <1>0 DEF CallType, CallSteps
<1>3. \A d \in Callers : (d = rec.cmd.who /\ rec.cmd.kind # "add") => caller[d].pc = "wait"
  BY <1>0 DEF CallInv, Fits
<1>4. PlaceInv'
  <2>1. io'["rec"].pc = "idle"
    BY DEF Idle
  <2>2. \A c \in Callers : io'[c] = io[c] /\ (io'[c].pc # "idle" => caller'[c].pc = "patch")
    BY <1>0, <1>2, <1>3 DEF PlaceInv, Actors
  <2>3. \A a \in Actors : io'[a].pc = "write" => io'[a].handle # 0
    BY <1>0, <2>1 DEF PlaceInv, Actors
  <2> QED
    BY <1>0, <1>1, <2>1, <2>2, <2>3 DEF PlaceInv
<1>5. CallInv'
  <2>1. \A c \in Callers : caller'[c].pc = "wait" => rec'.life = "live" /\ Served(c)'
    BY <1>0, <1>1, <1>2, <1>3 DEF CallInv, Served, Waiting
  <2>2. \A c \in Callers : caller'[c].pc = "remove" =>
           rec'.life = "ended" /\ \A d \in Callers \ {c} : caller'[d].pc # "remove"
    BY <1>0, <1>2, <1>3 DEF CallInv
  <2>3. (\A i \in DOMAIN rec.queue : Fits(rec.queue[i]))'
    <3> SUFFICES ASSUME NEW i \in DOMAIN rec.queue PROVE Fits(rec.queue[i])'
      BY <1>1
    <3>1. Fits(rec.queue[i])
      BY <1>0 DEF CallInv
    <3>2. rec.queue[i].kind # "add" => Waiting(rec.queue[i].who)
      BY DEF Waiting
    <3>3. rec.queue[i].kind # "add" => caller'[rec.queue[i].who] = caller[rec.queue[i].who]
      BY <1>0, <1>2, <3>1, <3>2 DEF CallInv, Fits
    <3>4. rec'.queue[i] = rec.queue[i]
      BY <1>1
    <3> QED
      BY <3>1, <3>3, <3>4 DEF Fits
  <2>4. \A d \in Callers : /\ caller'[d].pc = "record" => caller'[d].op = "append"
                           /\ caller'[d].pc \in {"meta", "patch"} => caller'[d].op = "patch"
    BY <1>0, <1>2 DEF CallInv
  <2>5. ~Waiting(None.who)'
    <3>1. \A i \in DOMAIN rec.queue : rec.queue[i].who # Nobody
      BY <1>0 DEF CallInv, Fits
    <3> QED
      BY <1>1, <3>1 DEF Waiting, None
  <2> QED
    BY <1>0, <1>1, <2>1, <2>2, <2>3, <2>4, <2>5 DEF CallInv
<1>6. ItemInv'
  <2>1. \A d \in Callers : Sent(d) => Sent(d)'
    BY <1>2 DEF Sent
  <2>2. \A d \in Callers : d \in Written => Sent(d)' \/ (caller'[d].op = "patch" /\ caller'[d].pc = "ok")
    BY <1>0, <1>2, <1>3, <2>1 DEF ItemInv
  <2> QED
    BY <1>0, <1>1, <2>1, <2>2 DEF ItemInv, Queued, Received, Buffered
<1> QED
  BY <1>1, <1>2, <1>4, <1>5, <1>6

LEMMA FailStep ==
    ASSUME Inv, NEW a \in Actors, Fails(a), io[a].pc \in OpenSteps \cup {"write"},
           UNCHANGED <<worker, opens, received, sure>>, faults' \in 0..MaxFaults,
           DiskTypes', Len(file) <= Len(file'), Written' = Written,
           \A n \in DOMAIN file' : Ordered(file'[n], received')
    PROVE  Inv'
<1> USE RolloutAssumption DEF RolloutAssumption
<1>0. /\ DiskTypes /\ WorkerTypes /\ rec \in RecType /\ IoTypes
      /\ caller \in [Callers -> CallType] /\ CountTypes
      /\ TextInv /\ PlaceInv /\ CallInv /\ ItemInv /\ SureInv
  BY DEF Inv, Types
<1>1. 0..Len(file) \subseteq 0..Len(file')
  BY <1>0 DEF DiskTypes
<1>2. ASSUME rec' \in RecType, caller' \in [Callers -> CallType], io' \in [Actors -> IoType],
             io'[a].copy = <<>>, \A b \in Actors \ {a} : io'[b] = io[b],
             PlaceInv', CallInv', ItemInv'
      PROVE  Inv'
  <2>1. IoTypes'
    BY <1>1, <1>2 DEF IoTypes, IoType
  <2>2. Types'
    BY <1>0, <1>2, <2>1 DEF Types, WorkerTypes, CountTypes
  <2>3. \A b \in Actors : Copied(io'[b].copy)
    BY <1>0, <1>2, Sources DEF TextInv
  <2>4. TextInv'
    BY <1>0, <2>3, TextKept DEF TextInv
  <2>5. SureInv'
    BY <1>0 DEF SureInv
  <2> QED
    BY <1>2, <2>2, <2>4, <2>5 DEF Inv
<1>3. io[a].pc # "idle"
  BY DEF OpenSteps
<1>4. CASE a = "rec" /\ rec.life = "opening"
  <2>1. rec' = Closed /\ UNCHANGED caller /\ io' = [io EXCEPT ![a] = Idle]
    BY <1>4 DEF Fails, NoHandle
  <2>2. io' \in [Actors -> IoType] /\ io'[a] = Idle /\ \A b \in Actors \ {a} : io'[b] = io[b]
    <3>1. Idle = [Idle EXCEPT !.pc = "idle"]
      BY DEF Idle
    <3> QED
      BY <1>0, <2>1, <3>1, IoEnds
  <2>3. rec' \in RecType
    BY <2>1 DEF Closed, RecType, Command, None
  <2>4. PlaceInv'
    BY <1>0, <1>4, <2>1, <2>2 DEF PlaceInv, Closed, Idle, Actors
  <2>5. CallInv'
    BY <1>0, <1>4, <2>1 DEF CallInv, Closed, Waiting, None
  <2>6. ItemInv'
    BY <1>0, <1>4, <2>1 DEF ItemInv, Closed, Queued, Received, Buffered, Sent
  <2> QED
    BY <1>0, <1>2, <2>1, <2>2, <2>3, <2>4, <2>5, <2>6 DEF Idle
<1>5. CASE a = "rec" /\ rec.life = "live" /\ rec.try = 1
  <2>1. /\ rec' = [rec EXCEPT !.try = 2] /\ UNCHANGED caller
        /\ io' = [io EXCEPT ![a] = [Idle EXCEPT !.pc = "plain"]]
    BY <1>5 DEF Fails, AttemptFailed
  <2>2. /\ io' \in [Actors -> IoType] /\ io'[a].pc = "plain" /\ io'[a].copy = <<>>
        /\ \A b \in Actors \ {a} : io'[b] = io[b]
    BY <1>0, <2>1, IoEnds
  <2>3. /\ rec' \in RecType /\ rec'.life = rec.life /\ rec'.cmd = rec.cmd /\ rec'.pending = rec.pending
        /\ rec'.queue = rec.queue /\ rec'.meta = rec.meta
    <3>0. 2 \in 1..2
      OBVIOUS
    <3>1. rec' \in RecType
      BY <1>0, <2>1, <3>0, RecUpdates, Zenon
    <3>2. rec'.life = rec.life /\ rec'.cmd = rec.cmd /\ rec'.pending = rec.pending /\ rec'.queue = rec.queue
      BY <1>0, <2>1 DEF RecType
    <3>3. rec'.meta = rec.meta
      BY <1>0, <2>1 DEF RecType
    <3> QED
      BY <3>1, <3>2, <3>3
  <2>4. PlaceInv'
    <3>1. rec.cmd # None
      BY <1>0, <1>3, <1>5 DEF PlaceInv
    <3>2. \A b \in Actors : io'[b].pc = "write" => io'[b].handle # 0
      BY <1>0, <2>2 DEF PlaceInv
    <3>3. \A c \in Callers : io'[c] = io[c]
      BY <1>5, <2>2 DEF Actors
    <3> QED
      BY <1>0, <1>5, <2>1, <2>2, <2>3, <3>1, <3>2, <3>3 DEF PlaceInv
  <2>5. CallInv'
    BY <1>0, <2>1, <2>3 DEF CallInv, Served, Fits, Waiting
  <2>6. ItemInv'
    BY <1>0, <2>1, <2>3 DEF ItemInv, Queued, Received, Buffered, Sent
  <2> QED
    BY <1>0, <1>2, <2>1, <2>2, <2>3, <2>4, <2>5, <2>6
<1>6. CASE a = "rec" /\ rec.life = "live" /\ rec.try # 1
  <2>1. /\ rec' = [rec EXCEPT !.cmd = None, !.try = 1]
        /\ io' = [io EXCEPT ![a] = Idle]
        /\ caller' = [d \in Callers |-> IF d = rec.cmd.who /\ rec.cmd.kind # "add"
                                        THEN [caller[d] EXCEPT !.pc = "err"] ELSE caller[d]]
    BY <1>6 DEF Fails, AttemptFailed, NoHandle
  <2>2. io' \in [Actors -> IoType] /\ io'[a] = Idle /\ \A b \in Actors \ {a} : io'[b] = io[b]
    <3>1. Idle = [Idle EXCEPT !.pc = "idle"]
      BY DEF Idle
    <3> QED
      BY <1>0, <2>1, <3>1, IoEnds
  <2>3. rec.cmd # None
    BY <1>0, <1>3, <1>6 DEF PlaceInv
  <2>4. rec' \in RecType /\ caller' \in [Callers -> CallType] /\ PlaceInv' /\ CallInv' /\ ItemInv'
    BY <1>6, <2>1, <2>2, <2>3, GiveUp
  <2> QED
    BY <1>2, <2>2, <2>4 DEF Idle
<1>7. CASE a # "rec"
  <2>1. /\ UNCHANGED rec /\ io' = [io EXCEPT ![a] = Idle]
        /\ caller' = [caller EXCEPT ![a].pc = "err"] /\ a \in Callers
    BY <1>7 DEF Fails, NoHandle, Actors
  <2>2. io' \in [Actors -> IoType] /\ io'[a] = Idle /\ \A b \in Actors \ {a} : io'[b] = io[b]
    <3>1. Idle = [Idle EXCEPT !.pc = "idle"]
      BY DEF Idle
    <3> QED
      BY <1>0, <2>1, <3>1, IoEnds
  <2>3. /\ caller' \in [Callers -> CallType]
        /\ caller'[a].pc = "err" /\ caller'[a].op = caller[a].op
        /\ \A d \in Callers \ {a} : caller'[d] = caller[d]
    BY <1>0, <2>1, CallerMoves DEF CallSteps
  <2>4. caller[a].pc = "patch"
    BY <1>0, <1>3, <2>1 DEF PlaceInv
  <2>5. CallInv' /\ ItemInv'
    BY <1>0, <2>1, <2>3, <2>4, CallGoesOn DEF CallSteps
  <2>6. PlaceInv'
    BY <1>0, <1>7, <2>1, <2>2, <2>3 DEF PlaceInv, Idle, Actors
  <2> QED
    BY <1>0, <1>2, <2>1, <2>2, <2>3, <2>5, <2>6 DEF Idle
<1> QED
  BY <1>4, <1>5, <1>6, <1>7 DEF Fails

LEMMA DiskKept ==
    ASSUME DiskTypes, TextInv, received' = received, file' = file, plain' \in {plain, 0},
           zst' \in {zst, 0}, cold' \in BOOLEAN
    PROVE  /\ DiskTypes' /\ Len(file) <= Len(file') /\ Written' = Written
           /\ \A n \in DOMAIN file' : Ordered(file'[n], received')
  BY DEF DiskTypes, TextInv, Written

\* What write_pending_once writes next.
LEMMA NextLine ==
    ASSUME rec \in RecType, Unwritten # <<>>
    PROVE  /\ rec.meta => Head(Unwritten) = Meta
           /\ ~rec.meta => rec.pending # <<>> /\ Head(Unwritten) = Head(rec.pending)
                           /\ Head(rec.pending) \in Callers
           /\ Head(Unwritten) \in Items
<1>1. rec.pending \in Seq(Callers)
  BY DEF RecType
<1>2. CASE rec.meta
  <2>1. Unwritten = <<Meta>> \o rec.pending
    BY <1>2 DEF Unwritten
  <2>2. Head(Unwritten) = Meta
    BY <1>1, <2>1
  <2> QED
    BY <1>2, <2>2 DEF Items
<1>3. CASE ~rec.meta
  <2>1. Unwritten = rec.pending
    BY <1>1, <1>3 DEF Unwritten
  <2>2. rec.pending # <<>> /\ Head(rec.pending) \in Callers
    BY <1>1, <2>1
  <2> QED
    BY <1>3, <2>1, <2>2 DEF Items
<1> QED
  BY <1>2, <1>3

LEMMA OperationStep ==
    ASSUME Inv, NEW a \in Actors,
           CompressedGone(a) \/ OperationFails(a) \/ WriteFails(a) \/ (OpenExisting(a) /\ plain = 0)
    PROVE  Inv'
<1> USE RolloutAssumption DEF RolloutAssumption
<1>0. /\ DiskTypes /\ rec \in RecType /\ IoTypes /\ CountTypes /\ TextInv /\ PlaceInv
      /\ cold \in BOOLEAN
  BY DEF Inv, Types, DiskTypes
<1>1. /\ Fails(a) /\ UNCHANGED <<worker, opens, received, sure>>
      /\ io[a].pc \in OpenSteps \cup {"write"} /\ faults' \in 0..MaxFaults
  <2>1. CASE CompressedGone(a) \/ (OpenExisting(a) /\ plain = 0)
    BY <1>0, <2>1 DEF CompressedGone, OpenExisting, At, OpenSteps, CountTypes
  <2>2. CASE OperationFails(a) \/ WriteFails(a)
    <3>1. /\ Fails(a) /\ UNCHANGED <<worker, opens, received, sure>>
          /\ io[a].pc \in OpenSteps \cup {"write"} /\ faults < MaxFaults /\ faults' = faults + 1
      BY <2>2 DEF OperationFails, WriteFails, At, OpenSteps
    <3> QED
      BY <1>0, <3>1 DEF CountTypes
  <2> QED
    BY <2>1, <2>2
<1>2. CASE UNCHANGED disk
  <2>1. file' = file /\ plain' = plain /\ zst' = zst /\ cold' = cold
    BY <1>2 DEF disk
  <2>2. /\ DiskTypes' /\ Len(file) <= Len(file') /\ Written' = Written
        /\ \A n \in DOMAIN file' : Ordered(file'[n], received')
    BY <1>0, <1>1, <2>1, DiskKept
  <2> QED
    BY <1>1, <2>2, FailStep
<1>3. CASE WriteFails(a) /\ ~UNCHANGED disk
  <2>1. PICK cut \in {"json", "part"} :
           AppendTo(io[a].handle, IF a = "rec" THEN Head(Unwritten) ELSE a, cut)
    BY <1>3 DEF WriteFails
  <2> DEFINE h == io[a].handle
             x == IF a = "rec" THEN Head(Unwritten) ELSE a
  <2>2. x \in Items
    <3>1. CASE a = "rec"
      BY <1>0, <1>3, <3>1, NextLine DEF WriteFails
    <3>2. CASE a # "rec"
      BY <3>2 DEF Actors, Items
    <3> QED
      BY <3>1, <3>2
  <2>3. h \in DOMAIN file
    <3>1. io[a].pc = "write"
      BY <1>3 DEF WriteFails, At
    <3>2. h # 0 /\ h \in 0..Len(file)
      BY <1>0, <3>1 DEF PlaceInv, IoTypes
    <3> QED
      BY <1>0, <3>2 DEF DiskTypes
  <2>4. /\ file' = [file EXCEPT ![h] = Append(@, [item |-> x, cut |-> cut])]
        /\ plain' = plain /\ zst' = zst /\ cold' = (cold /\ h # plain)
    BY <2>1 DEF AppendTo
  <2> HIDE DEF h, x
  <2>5. /\ file' \in Seq(Text) /\ Len(file') = Len(file) /\ Written' = Written
        /\ \A n \in DOMAIN file' : Ordered(file'[n], received')
    BY <1>0, <1>1, <2>2, <2>3, <2>4, PartWritten DEF DiskTypes, TextInv
  <2>6. cold' \in BOOLEAN
    BY <2>4
  <2>7. DiskTypes' /\ Len(file) <= Len(file')
    BY <1>0, <2>4, <2>5, <2>6 DEF DiskTypes
  <2> QED
    BY <1>1, <2>5, <2>7, FailStep
<1> QED
  BY <1>2, <1>3 DEF CompressedGone, OperationFails, OpenExisting

-----------------------------------------------------------------------------
(* Opening *)

\* The file is there.
LEMMA OpenedStep ==
    ASSUME Inv, NEW a \in Actors, OpenExisting(a), plain # 0
    PROVE  Inv'
<1> USE RolloutAssumption DEF RolloutAssumption
<1>0. /\ DiskTypes /\ WorkerTypes /\ rec \in RecType /\ IoTypes
      /\ caller \in [Callers -> CallType] /\ CountTypes
      /\ TextInv /\ PlaceInv /\ CallInv /\ ItemInv /\ SureInv
      /\ cold \in BOOLEAN
  BY DEF Inv, Types, DiskTypes
<1> DEFINE step == IF a = "rec" THEN "idle" ELSE "write"
<1>1. /\ io[a].pc = "open" /\ (a = "rec" => rec.life = "opening")
      /\ io' = [io EXCEPT ![a] = [pc |-> step, copy |-> <<>>, handle |-> plain]]
      /\ rec' = IF a = "rec" THEN [rec EXCEPT !.life = "live"] ELSE rec
      /\ UNCHANGED <<caller, disk, worker, opens, faults, received, sure>>
  BY DEF OpenExisting, At
<1>2. io \in [Actors -> IoType] /\ [pc |-> step, copy |-> <<>>, handle |-> plain] \in IoType
  BY <1>0 DEF IoTypes, IoType, FileSteps, Text, DiskTypes
<1>3. /\ io' \in [Actors -> IoType]
      /\ io'[a].pc = step /\ io'[a].copy = <<>> /\ io'[a].handle = plain
      /\ \A b \in Actors \ {a} : io'[b] = io[b]
  BY <1>1, <1>2
<1>4. /\ rec' \in RecType /\ (rec'.life = IF a = "rec" THEN "live" ELSE rec.life)
      /\ rec'.cmd = rec.cmd /\ rec'.pending = rec.pending
      /\ rec'.queue = rec.queue /\ rec'.meta = rec.meta
  <2>0. "live" \in Lives
    BY DEF Lives
  <2>1. rec' \in RecType
    BY <1>0, <1>1, <2>0, RecUpdates, Zenon
  <2>2. /\ (rec'.life = IF a = "rec" THEN "live" ELSE rec.life)
        /\ rec'.cmd = rec.cmd /\ rec'.pending = rec.pending /\ rec'.queue = rec.queue
    BY <1>0, <1>1 DEF RecType
  <2>3. rec'.meta = rec.meta
    BY <1>0, <1>1 DEF RecType
  <2> QED
    BY <2>1, <2>2, <2>3
<1>5. file' = file /\ plain' = plain /\ zst' = zst /\ cold' = cold
  BY <1>1 DEF disk
<1>6. /\ DiskTypes' /\ Written' = Written
      /\ \A n \in DOMAIN file' : Ordered(file'[n], received')
  BY <1>0, <1>1, <1>5, DiskKept
<1>7. Types'
  <2>1. IoTypes'
    BY <1>3, <1>5 DEF IoTypes, IoType
  <2> QED
    BY <1>0, <1>1, <1>4, <1>6, <2>1 DEF Types, WorkerTypes, CountTypes
<1>8. TextInv'
  <2>1. \A b \in Actors : Copied(io'[b].copy)
    BY <1>0, <1>3, Sources DEF TextInv
  <2> QED
    BY <1>0, <1>1, <1>6, <2>1, TextKept DEF TextInv
<1>9. PlaceInv'
  <2>1. \A b \in Actors : io'[b].pc = "write" => io'[b].handle # 0
    BY <1>0, <1>3 DEF PlaceInv
  <2>2. \A c \in Callers : io'[c].pc # "idle" => caller[c].pc = "patch"
    BY <1>0, <1>1, <1>3 DEF PlaceInv, Actors
  <2>3. CASE a = "rec"
    BY <1>0, <1>1, <1>3, <1>4, <2>1, <2>2, <2>3 DEF PlaceInv
  <2>4. CASE a # "rec"
    <3>1. io'["rec"] = io["rec"] /\ rec' = rec
      BY <1>1, <1>3, <2>4 DEF Actors
    <3> QED
      BY <1>0, <1>1, <2>1, <2>2, <3>1 DEF PlaceInv
  <2> QED
    BY <2>3, <2>4
<1>10. CallInv'
  BY <1>0, <1>1, <1>4 DEF CallInv, Served, Fits, Waiting
<1>11. ItemInv'
  <2>1. a = "rec" => received = <<>> /\ rec.pending = <<>>
    BY <1>0, <1>1 DEF ItemInv, PlaceInv
  <2>2. ASSUME a = "rec"
        PROVE  Len(rec.pending) <= Len(received) /\ \A c \in Callers : ~Received(c)
               /\ DOMAIN rec.pending = {}
    BY <2>1, <2>2 DEF Received
  <2> QED
    BY <1>0, <1>1, <1>4, <1>6, <2>2 DEF ItemInv, Queued, Received, Buffered, Sent
<1>12. SureInv'
  BY <1>0, <1>1, <1>6 DEF SureInv
<1> QED
  BY <1>7, <1>8, <1>9, <1>10, <1>11, <1>12 DEF Inv

\* ensure_writer_open: the file is there, or is created empty.
LEMMA WriterOpens ==
    ASSUME Inv, EnsureWriterOpen
    PROVE  Inv'
<1> USE RolloutAssumption DEF RolloutAssumption
<1>0. /\ DiskTypes /\ WorkerTypes /\ rec \in RecType /\ IoTypes
      /\ caller \in [Callers -> CallType] /\ CountTypes
      /\ TextInv /\ PlaceInv /\ CallInv /\ ItemInv /\ SureInv
      /\ cold \in BOOLEAN
  BY DEF Inv, Types, DiskTypes
<1>1. /\ io["rec"].pc = "open" /\ rec.life = "live" /\ rec' = [rec EXCEPT !.deferred = FALSE]
      /\ io' = [io EXCEPT !["rec"] = [pc |-> "write", copy |-> <<>>, handle |-> plain']]
      /\ UNCHANGED <<worker, caller, opens, faults, received, sure>>
  BY DEF EnsureWriterOpen, At
<1>2. /\ DiskTypes' /\ Len(file) <= Len(file') /\ Written' = Written
      /\ \A n \in DOMAIN file' : Ordered(file'[n], received')
      /\ plain' # 0
  <2>1. CASE plain # 0 /\ UNCHANGED disk
    <3>1. file' = file /\ plain' = plain /\ zst' = zst /\ cold' = cold
      BY <2>1 DEF disk
    <3> QED
      BY <1>0, <1>1, <2>1, <3>1, DiskKept
  <2>2. CASE plain = 0 /\ CreatePlain(<<>>) /\ UNCHANGED zst
    <3>1. file' = Append(file, <<>>) /\ plain' = Len(file) + 1 /\ cold' = FALSE /\ zst' = zst
      BY <2>2 DEF CreatePlain
    <3>2. <<>> \in Text /\ Copied(<<>>)
      BY <1>0, Sources DEF Text
    <3>3. /\ file' \in Seq(Text) /\ Len(file') = Len(file) + 1 /\ Len(file) \in Nat
          /\ Written' = Written
          /\ \A n \in DOMAIN file' : Ordered(file'[n], received')
      BY <1>0, <1>1, <3>1, <3>2, FileCreated DEF DiskTypes, TextInv, Copied
    <3>4. zst \in 0..Len(file)
      BY <1>0 DEF DiskTypes
    <3>5. plain' \in 0..Len(file') /\ zst' \in 0..Len(file') /\ Len(file) <= Len(file') /\ plain' # 0
      BY <3>1, <3>3, <3>4
    <3> QED
      BY <3>1, <3>3, <3>5 DEF DiskTypes
  <2> QED
    BY <2>1, <2>2 DEF EnsureWriterOpen
<1>3. /\ IoTypes' /\ io'["rec"].pc = "write" /\ io'["rec"].copy = <<>> /\ io'["rec"].handle = plain'
      /\ \A b \in Actors \ {"rec"} : io'[b] = io[b]
  <2>1. 0..Len(file) \subseteq 0..Len(file')
    BY <1>0, <1>2 DEF DiskTypes
  <2> DEFINE type == [pc : FileSteps, copy : Text, handle : 0..Len(file')]
  <2>2. io \in [Actors -> type]
    BY <1>0, <2>1 DEF IoTypes
  <2>3. [pc |-> "write", copy |-> <<>>, handle |-> plain'] \in type
    BY <1>2 DEF FileSteps, Text, DiskTypes
  <2>4. "rec" \in Actors
    BY DEF Actors
  <2>5. io' \in [Actors -> type]
    BY <1>1, <2>2, <2>3
  <2> QED
    BY <1>1, <2>2, <2>4, <2>5 DEF IoTypes
<1>4. /\ rec' \in RecType /\ rec'.life = rec.life /\ rec'.cmd = rec.cmd /\ rec'.pending = rec.pending
      /\ rec'.queue = rec.queue /\ rec'.meta = rec.meta
  <2>1. rec' \in RecType
    BY <1>0, <1>1, RecUpdates, Zenon
  <2>2. rec'.life = rec.life /\ rec'.cmd = rec.cmd /\ rec'.pending = rec.pending /\ rec'.queue = rec.queue
    BY <1>0, <1>1 DEF RecType
  <2>3. rec'.meta = rec.meta
    BY <1>0, <1>1 DEF RecType
  <2> QED
    BY <2>1, <2>2, <2>3
<1>5. Types'
  BY <1>0, <1>1, <1>2, <1>3, <1>4 DEF Types, WorkerTypes, CountTypes
<1>6. TextInv'
  <2>1. \A b \in Actors : Copied(io'[b].copy)
    BY <1>0, <1>3, Sources DEF TextInv
  <2> QED
    BY <1>0, <1>1, <1>2, <2>1, TextKept DEF TextInv
<1>7. PlaceInv'
  <2>1. \A b \in Actors : io'[b].pc = "write" => io'[b].handle # 0
    BY <1>0, <1>2, <1>3 DEF PlaceInv
  <2>2. \A c \in Callers : io'[c] = io[c]
    BY <1>3 DEF Actors
  <2>3. rec.cmd # None
    BY <1>0, <1>1 DEF PlaceInv
  <2> QED
    BY <1>0, <1>1, <1>3, <1>4, <2>1, <2>2, <2>3 DEF PlaceInv
<1>8. CallInv'
  BY <1>0, <1>1, <1>4 DEF CallInv, Served, Fits, Waiting
<1>9. ItemInv'
  BY <1>0, <1>1, <1>2, <1>4 DEF ItemInv, Queued, Received, Buffered, Sent
<1>10. SureInv'
  BY <1>0, <1>1, <1>2 DEF SureInv
<1> QED
  BY <1>5, <1>6, <1>7, <1>8, <1>9, <1>10 DEF Inv

-----------------------------------------------------------------------------
(* The calls *)

\* A step that leaves the disk alone.
LEMMA MemoryStep ==
    ASSUME Inv, UNCHANGED <<disk, worker, faults, received, sure>>, opens' \in 0..MaxOpens,
           rec' \in RecType, caller' \in [Callers -> CallType], io' \in [Actors -> IoType],
           \A a \in Actors : Copied(io'[a].copy), PlaceInv', CallInv', ItemInv'
    PROVE  Inv'
<1>0. DiskTypes /\ WorkerTypes /\ CountTypes /\ TextInv /\ SureInv /\ cold \in BOOLEAN
  BY DEF Inv, Types, DiskTypes
<1>1. file' = file /\ plain' = plain /\ zst' = zst /\ cold' = cold
  BY DEF disk
<1>2. /\ DiskTypes' /\ Written' = Written
      /\ \A n \in DOMAIN file' : Ordered(file'[n], received')
  BY <1>0, <1>1, DiskKept
<1>3. IoTypes'
  BY <1>1 DEF IoTypes, IoType
<1>4. Types'
  BY <1>0, <1>2, <1>3 DEF Types, WorkerTypes, CountTypes
<1>5. TextInv'
  BY <1>0, <1>2, TextKept DEF TextInv
<1>6. SureInv'
  BY <1>0, <1>2 DEF SureInv
<1> QED
  BY <1>4, <1>5, <1>6 DEF Inv

\* A command enters the channel.
LEMMA QueueGrows ==
    ASSUME rec \in RecType, NEW cmd \in Command, Send(cmd)
    PROVE  /\ rec' \in RecType /\ rec'.life = rec.life /\ rec'.cmd = rec.cmd
           /\ rec'.pending = rec.pending /\ rec'.meta = rec.meta
           /\ Len(rec.queue) \in Nat /\ DOMAIN rec.queue = 1..Len(rec.queue)
           /\ DOMAIN rec'.queue = 1..(Len(rec.queue) + 1)
           /\ \A i \in DOMAIN rec.queue : rec'.queue[i] = rec.queue[i]
           /\ rec'.queue[Len(rec.queue) + 1] = cmd
<1>1. rec' = [rec EXCEPT !.queue = Append(rec.queue, cmd)] /\ rec.queue \in Seq(Command)
  BY DEF Send, RecType
<1>2. /\ Append(rec.queue, cmd) \in Seq(Command) /\ Len(rec.queue) \in Nat
      /\ DOMAIN rec.queue = 1..Len(rec.queue)
      /\ DOMAIN Append(rec.queue, cmd) = 1..(Len(rec.queue) + 1)
      /\ \A i \in 1..Len(rec.queue) : Append(rec.queue, cmd)[i] = rec.queue[i]
      /\ Append(rec.queue, cmd)[Len(rec.queue) + 1] = cmd
  BY <1>1, Extended
<1>3. rec' \in RecType
  BY <1>1, <1>2, RecUpdates, Zenon
<1>4. rec'.life = rec.life /\ rec'.cmd = rec.cmd /\ rec'.pending = rec.pending
      /\ rec'.queue = Append(rec.queue, cmd)
  BY <1>1 DEF RecType
<1>5. rec'.meta = rec.meta
  BY <1>1 DEF RecType
<1> QED
  BY <1>2, <1>3, <1>4, <1>5

LEMMA CallBegins ==
    ASSUME Inv, NEW c \in Callers, NEW op \in Ops, Call(c, op)
    PROVE  Inv'
<1> USE RolloutAssumption DEF RolloutAssumption
<1>0. /\ rec \in RecType /\ IoTypes /\ caller \in [Callers -> CallType] /\ CountTypes
      /\ TextInv /\ PlaceInv /\ CallInv /\ ItemInv
  BY DEF Inv, Types
<1>1. /\ caller[c].pc = "idle" /\ UNCHANGED <<disk, worker, rec, io, opens, faults, received, sure>>
  BY DEF Call
<1>2. PICK step \in {"record", "send", "meta"} :
        /\ caller' = [caller EXCEPT ![c] = [op |-> op, pc |-> step, gen |-> opens]]
        /\ step = "record" => op = "append"
        /\ step = "meta" => op = "patch"
  BY DEF Call
<1>3. /\ caller' \in [Callers -> CallType] /\ caller'[c].pc = step /\ caller'[c].op = op
      /\ \A d \in Callers \ {c} : caller'[d] = caller[d]
  <2>1. [op |-> op, pc |-> step, gen |-> opens] \in CallType
    BY <1>0 DEF CallType, CallSteps, CountTypes
  <2> QED
    BY <1>0, <1>2, <2>1
<1>4. Written' = Written
  BY <1>1 DEF Written, disk
<1>5. ~Queued(c) /\ ~Received(c) /\ c \notin Written
  BY <1>0, <1>1 DEF ItemInv, Sent
<1>6. PlaceInv'
  BY <1>0, <1>1, <1>3 DEF PlaceInv
<1>7. CallInv'
  <2>1. \A d \in Callers : caller'[d].pc = "wait" => rec'.life = "live" /\ Served(d)'
    BY <1>0, <1>1, <1>3 DEF CallInv, Served, Waiting
  <2>2. \A d \in Callers : caller'[d].pc = "remove" =>
           rec'.life = "ended" /\ \A e \in Callers \ {d} : caller'[e].pc # "remove"
    BY <1>0, <1>1, <1>3 DEF CallInv
  <2>3. (\A i \in DOMAIN rec.queue : Fits(rec.queue[i]))'
    BY <1>0, <1>1, <1>3 DEF CallInv, Fits
  <2>4. (rec.cmd # None => Fits(rec.cmd))'
    BY <1>0, <1>1, <1>3 DEF CallInv, Fits
  <2>5. \A d \in Callers : /\ caller'[d].pc = "record" => caller'[d].op = "append"
                           /\ caller'[d].pc \in {"meta", "patch"} => caller'[d].op = "patch"
    BY <1>0, <1>2, <1>3 DEF CallInv
  <2> QED
    BY <1>0, <1>1, <2>1, <2>2, <2>3, <2>4, <2>5 DEF CallInv, Waiting
<1>8. ItemInv'
  <2>1. \A d \in Callers \ {c} : Sent(d)' <=> Sent(d)
    BY <1>3 DEF Sent
  <2>2. \A d \in Callers : (Queued(d)' <=> Queued(d)) /\ (Received(d)' <=> Received(d))
    BY <1>1 DEF Queued, Received
  <2>3. \A d \in Callers : d \in Written => Sent(d)' \/ (caller'[d].op = "patch" /\ caller'[d].pc = "ok")
    BY <1>0, <1>3, <1>5, <2>1 DEF ItemInv
  <2>4. \A d \in Callers : Queued(d)' \/ Received(d)' => Sent(d)'
    BY <1>0, <1>5, <2>1, <2>2 DEF ItemInv
  <2> QED
    BY <1>0, <1>1, <1>4, <2>2, <2>3, <2>4 DEF ItemInv, Buffered
<1> QED
  BY <1>0, <1>1, <1>3, <1>6, <1>7, <1>8, MemoryStep DEF IoTypes, IoType, TextInv, CountTypes

\* A call that waits for nothing ends, or reads the SessionMeta.
LEMMA CallMoves ==
    ASSUME Inv, NEW c \in Callers, SendRefused(c) \/ ReadSessionMeta(c)
    PROVE  Inv'
<1> USE RolloutAssumption DEF RolloutAssumption
<1>0. /\ rec \in RecType /\ IoTypes /\ caller \in [Callers -> CallType] /\ CountTypes
      /\ TextInv /\ PlaceInv /\ CallInv /\ ItemInv
  BY DEF Inv, Types
<1>1. UNCHANGED <<disk, worker, rec, opens, faults, received, sure>>
  BY DEF SendRefused, ReadSessionMeta
<1>2. PICK step \in {"err", "patch"} :
        /\ caller' = [caller EXCEPT ![c].pc = step]
        /\ step = "err" => io' = io
        /\ step = "patch" => Goto(c, "plain") /\ caller[c].pc = "meta"
        /\ caller[c].pc \in {"record", "send", "meta"}
  BY DEF SendRefused, ReadSessionMeta
<1>3. /\ caller' \in [Callers -> CallType] /\ caller'[c].pc = step /\ caller'[c].op = caller[c].op
      /\ \A d \in Callers \ {c} : caller'[d] = caller[d]
  BY <1>0, <1>2, CallerMoves DEF CallSteps
<1>4. Written' = Written
  BY <1>1 DEF Written, disk
<1>5. CallInv' /\ ItemInv'
  <2>1. step = "patch" => caller[c].op = "patch"
    BY <1>0, <1>2 DEF CallInv
  <2> QED
    BY <1>0, <1>1, <1>2, <1>3, <1>4, <2>1, CallGoesOn DEF CallSteps
<1>6. io[c].pc = "idle"
  BY <1>0, <1>2 DEF PlaceInv
<1>7. /\ io' \in [Actors -> IoType] /\ \A a \in Actors : io'[a].copy = io[a].copy
      /\ \A a \in Actors \ {c} : io'[a] = io[a]
      /\ (step = "err" => io' = io) /\ io'[c].pc \in {"idle", "plain"}
  <2>1. CASE step = "err"
    BY <1>0, <1>2, <1>6, <2>1 DEF IoTypes, IoType
  <2>2. CASE step = "patch"
    BY <1>0, <1>2, <2>2, IoMoves DEF FileSteps, Actors
  <2> QED
    BY <2>1, <2>2
<1>8. PlaceInv'
  <2>1. io'["rec"] = io["rec"]
    BY <1>7 DEF Actors
  <2>2. \A a \in Actors : io'[a].pc = "write" => io'[a].handle # 0
    BY <1>0, <1>7 DEF PlaceInv
  <2>3. \A d \in Callers : io'[d].pc # "idle" => caller'[d].pc = "patch"
    BY <1>0, <1>2, <1>3, <1>6, <1>7 DEF PlaceInv, Actors
  <2> QED
    BY <1>0, <1>1, <2>1, <2>2, <2>3 DEF PlaceInv
<1> QED
  BY <1>0, <1>1, <1>3, <1>5, <1>7, <1>8, MemoryStep DEF TextInv, CountTypes

\* record_canonical_items: the item was sent by nobody else, nor before.
LEMMA ItemSent ==
    ASSUME Inv, NEW c \in Callers, RecordCanonicalItems(c)
    PROVE  Inv'
<1> USE RolloutAssumption DEF RolloutAssumption
<1>0. /\ rec \in RecType /\ IoTypes /\ caller \in [Callers -> CallType] /\ CountTypes
      /\ TextInv /\ PlaceInv /\ CallInv /\ ItemInv
  BY DEF Inv, Types
<1> DEFINE cmd == [kind |-> "add", who |-> c]
<1>n. PICK n : n = Len(rec.queue) + 1
  OBVIOUS
<1>1. /\ caller[c].pc = "record" /\ rec.life = "live" /\ Send(cmd)
      /\ caller' = [caller EXCEPT ![c].pc = "send"]
      /\ UNCHANGED <<disk, worker, io, opens, faults, received, sure>>
  BY DEF RecordCanonicalItems, Reaches
<1>2. cmd \in Command /\ cmd.kind = "add" /\ cmd.who = c
  BY DEF Command
<1> HIDE DEF cmd
<1>3. /\ rec' \in RecType /\ rec'.life = rec.life /\ rec'.cmd = rec.cmd
      /\ rec'.pending = rec.pending /\ rec'.meta = rec.meta
      /\ Len(rec.queue) \in Nat /\ DOMAIN rec.queue = 1..Len(rec.queue)
      /\ DOMAIN rec'.queue = 1..n
      /\ \A i \in DOMAIN rec.queue : rec'.queue[i] = rec.queue[i]
      /\ rec'.queue[n] = cmd
  BY <1>0, <1>1, <1>2, <1>n, QueueGrows
<1>4. /\ \A i \in DOMAIN rec'.queue : i \in DOMAIN rec.queue \/ i = n
      /\ DOMAIN rec.queue \subseteq DOMAIN rec'.queue /\ n \in DOMAIN rec'.queue
      /\ n \notin DOMAIN rec.queue
  BY <1>3, <1>n
<1>5. /\ caller' \in [Callers -> CallType] /\ caller'[c].pc = "send" /\ caller'[c].op = caller[c].op
      /\ \A d \in Callers \ {c} : caller'[d] = caller[d]
  BY <1>0, <1>1, CallerMoves DEF CallSteps
<1>6. Written' = Written
  BY <1>1 DEF Written, disk
<1>7. ~Queued(c) /\ ~Received(c) /\ c \notin Written
  BY <1>0, <1>1 DEF ItemInv, Sent
<1>8. caller[c].op = "append"
  BY <1>0, <1>1 DEF CallInv
<1>9. PlaceInv'
  BY <1>0, <1>1, <1>3, <1>5 DEF PlaceInv
<1>10. CallInv'
  <2>1. \A d : Waiting(d)' <=> Waiting(d)
    BY <1>2, <1>3, <1>4 DEF Waiting
  <2>2. \A d \in Callers : caller'[d].pc = "wait" => rec'.life = "live" /\ Served(d)'
    BY <1>0, <1>1, <1>3, <1>5, <2>1 DEF CallInv, Served
  <2>3. \A d \in Callers : caller'[d].pc = "remove" =>
           rec'.life = "ended" /\ \A e \in Callers \ {d} : caller'[e].pc # "remove"
    BY <1>0, <1>1, <1>5 DEF CallInv
  <2>4. (\A i \in DOMAIN rec.queue : Fits(rec.queue[i]))'
    <3>1. ASSUME NEW i \in DOMAIN rec.queue PROVE Fits(rec.queue[i])'
      <4>1. Fits(rec.queue[i]) /\ rec'.queue[i] = rec.queue[i]
        BY <1>0, <1>3 DEF CallInv
      <4> QED
        BY <1>1, <1>5, <4>1 DEF Fits
    <3>2. Fits(rec.queue[n])'
      BY <1>2, <1>3 DEF Fits
    <3> QED
      BY <1>4, <3>1, <3>2
  <2>5. (rec.cmd # None => Fits(rec.cmd))'
    BY <1>0, <1>1, <1>3, <1>5 DEF CallInv, Fits
  <2>6. \A d \in Callers : /\ caller'[d].pc = "record" => caller'[d].op = "append"
                           /\ caller'[d].pc \in {"meta", "patch"} => caller'[d].op = "patch"
    BY <1>0, <1>5 DEF CallInv
  <2>7. (\A i, j \in DOMAIN rec.queue :
           rec.queue[i].who = rec.queue[j].who /\ (rec.queue[i].kind = "add" <=> rec.queue[j].kind = "add")
           => i = j)'
    <3>1. \A i \in DOMAIN rec.queue : ~(rec.queue[i].who = c /\ rec.queue[i].kind = "add")
      BY <1>7 DEF Queued
    <3> SUFFICES ASSUME NEW i \in DOMAIN rec'.queue, NEW j \in DOMAIN rec'.queue,
                        rec'.queue[i].who = rec'.queue[j].who,
                        rec'.queue[i].kind = "add" <=> rec'.queue[j].kind = "add"
                 PROVE  i = j
      OBVIOUS
    <3>2. CASE i \in DOMAIN rec.queue /\ j \in DOMAIN rec.queue
      BY <1>0, <1>3, <3>2 DEF CallInv
    <3>3. CASE i = n \/ j = n
      BY <1>2, <1>3, <1>4, <3>1, <3>3
    <3> QED
      BY <1>4, <3>2, <3>3
  <2> QED
    BY <1>0, <1>3, <2>1, <2>2, <2>3, <2>4, <2>5, <2>6, <2>7 DEF CallInv
<1>11. ItemInv'
  <2>1. \A d \in Callers : Sent(d) => Sent(d)'
    BY <1>1, <1>5 DEF Sent
  <2>2. Sent(c)'
    BY <1>5, <1>8 DEF Sent
  <2>3. \A d \in Callers \ {c} : Queued(d)' <=> Queued(d)
    BY <1>2, <1>3, <1>4 DEF Queued
  <2>4. \A d \in Callers : (Received(d)' <=> Received(d)) /\ (Buffered(d)' <=> Buffered(d))
    BY <1>1, <1>3 DEF Received, Buffered
  <2>5. \A d \in Callers : Queued(d)' \/ Received(d)' => Sent(d)'
    BY <1>0, <2>1, <2>2, <2>3, <2>4 DEF ItemInv
  <2>6. \A d \in Callers : Queued(d)' => ~Received(d)' /\ d \notin Written'
    BY <1>0, <1>6, <1>7, <2>3, <2>4 DEF ItemInv
  <2>7. \A d \in Callers : d \in Written => Sent(d)' \/ (caller'[d].op = "patch" /\ caller'[d].pc = "ok")
    BY <1>0, <1>5, <2>1, <2>2 DEF ItemInv
  <2> QED
    BY <1>0, <1>1, <1>3, <1>6, <2>4, <2>5, <2>6, <2>7 DEF ItemInv
<1> QED
  BY <1>0, <1>1, <1>3, <1>5, <1>9, <1>10, <1>11, MemoryStep DEF IoTypes, IoType, TextInv, CountTypes

\* flush, persist and shutdown: the call waits for the answer.
LEMMA BarrierSent ==
    ASSUME Inv, NEW c \in Callers, SendBarrier(c)
    PROVE  Inv'
<1> USE RolloutAssumption DEF RolloutAssumption
<1>0. /\ rec \in RecType /\ IoTypes /\ caller \in [Callers -> CallType] /\ CountTypes
      /\ TextInv /\ PlaceInv /\ CallInv /\ ItemInv
  BY DEF Inv, Types
<1> DEFINE cmd == [kind |-> Barrier(caller[c].op), who |-> c]
<1>n. PICK n : n = Len(rec.queue) + 1
  OBVIOUS
<1>1. /\ caller[c].pc = "send" /\ rec.life = "live" /\ Send(cmd)
      /\ caller' = [caller EXCEPT ![c].pc = "wait"]
      /\ UNCHANGED <<disk, worker, io, opens, faults, received, sure>>
  BY DEF SendBarrier, Reaches
<1>2. cmd \in Command /\ cmd.kind # "add" /\ cmd.who = c /\ cmd.kind = Barrier(caller[c].op)
  <2>1. caller[c].op \in {"append", "flush", "persist", "shutdown", "patch"}
    BY <1>0 DEF CallType
  <2>2. Barrier(caller[c].op) \in {"flush", "persist", "shutdown"}
    BY <2>1 DEF Barrier
  <2> QED
    BY <2>2 DEF Command
<1> HIDE DEF cmd
<1>3. /\ rec' \in RecType /\ rec'.life = rec.life /\ rec'.cmd = rec.cmd
      /\ rec'.pending = rec.pending /\ rec'.meta = rec.meta
      /\ Len(rec.queue) \in Nat /\ DOMAIN rec.queue = 1..Len(rec.queue)
      /\ DOMAIN rec'.queue = 1..n
      /\ \A i \in DOMAIN rec.queue : rec'.queue[i] = rec.queue[i]
      /\ rec'.queue[n] = cmd
  BY <1>0, <1>1, <1>2, <1>n, QueueGrows
<1>4. /\ \A i \in DOMAIN rec'.queue : i \in DOMAIN rec.queue \/ i = n
      /\ DOMAIN rec.queue \subseteq DOMAIN rec'.queue /\ n \in DOMAIN rec'.queue
      /\ n \notin DOMAIN rec.queue
  BY <1>3, <1>n
<1>5. /\ caller' \in [Callers -> CallType] /\ caller'[c].pc = "wait" /\ caller'[c].op = caller[c].op
      /\ \A d \in Callers \ {c} : caller'[d] = caller[d]
  BY <1>0, <1>1, CallerMoves DEF CallSteps
<1>6. Written' = Written
  BY <1>1 DEF Written, disk
<1>7. \A i \in DOMAIN rec.queue : ~(rec.queue[i].who = c /\ rec.queue[i].kind # "add")
  BY <1>0, <1>1 DEF CallInv, Fits
<1>8. rec.cmd.kind # "add" => rec.cmd.who # c
  BY <1>0, <1>1, NoCommand DEF CallInv, Fits
<1>9. PlaceInv'
  BY <1>0, <1>1, <1>3, <1>5 DEF PlaceInv
<1>10. CallInv'
  <2>1. Waiting(c)' /\ \A d : d # c => (Waiting(d)' <=> Waiting(d))
    BY <1>2, <1>3, <1>4 DEF Waiting
  <2>2. \A d \in Callers : caller'[d].pc = "wait" => rec'.life = "live" /\ Served(d)'
    BY <1>0, <1>1, <1>3, <1>5, <2>1 DEF CallInv, Served
  <2>3. \A d \in Callers : caller'[d].pc = "remove" =>
           rec'.life = "ended" /\ \A e \in Callers \ {d} : caller'[e].pc # "remove"
    BY <1>0, <1>1, <1>5 DEF CallInv
  <2>4. (\A i \in DOMAIN rec.queue : Fits(rec.queue[i]))'
    <3>1. ASSUME NEW i \in DOMAIN rec.queue PROVE Fits(rec.queue[i])'
      <4>1. Fits(rec.queue[i]) /\ rec'.queue[i] = rec.queue[i]
        BY <1>0, <1>3 DEF CallInv
      <4> QED
        BY <1>1, <1>5, <4>1 DEF Fits
    <3>2. Fits(rec.queue[n])'
      BY <1>2, <1>3, <1>5 DEF Fits
    <3> QED
      BY <1>4, <3>1, <3>2
  <2>5. (rec.cmd # None => Fits(rec.cmd))'
    BY <1>0, <1>1, <1>3, <1>5 DEF CallInv, Fits
  <2>6. \A d \in Callers : /\ caller'[d].pc = "record" => caller'[d].op = "append"
                           /\ caller'[d].pc \in {"meta", "patch"} => caller'[d].op = "patch"
    BY <1>0, <1>5 DEF CallInv
  <2>7. (\A i, j \in DOMAIN rec.queue :
           rec.queue[i].who = rec.queue[j].who /\ (rec.queue[i].kind = "add" <=> rec.queue[j].kind = "add")
           => i = j)'
    <3> SUFFICES ASSUME NEW i \in DOMAIN rec'.queue, NEW j \in DOMAIN rec'.queue,
                        rec'.queue[i].who = rec'.queue[j].who,
                        rec'.queue[i].kind = "add" <=> rec'.queue[j].kind = "add"
                 PROVE  i = j
      OBVIOUS
    <3>1. CASE i \in DOMAIN rec.queue /\ j \in DOMAIN rec.queue
      BY <1>0, <1>3, <3>1 DEF CallInv
    <3>2. CASE i = n \/ j = n
      BY <1>2, <1>3, <1>4, <1>7, <3>2
    <3> QED
      BY <1>4, <3>1, <3>2
  <2>8. (rec.cmd.kind # "add" => ~Waiting(rec.cmd.who))'
    <3>1. rec'.cmd.kind # "add" => (Waiting(rec.cmd.who)' <=> Waiting(rec.cmd.who))
      BY <1>3, <1>8, <2>1
    <3> QED
      BY <1>0, <1>3, <3>1 DEF CallInv
  <2> QED
    BY <2>2, <2>3, <2>4, <2>5, <2>6, <2>7, <2>8 DEF CallInv
<1>11. ItemInv'
  <2>1. \A d \in Callers : Sent(d) => Sent(d)'
    BY <1>1, <1>5 DEF Sent
  <2>2. \A d \in Callers : Queued(d)' <=> Queued(d)
    BY <1>2, <1>3, <1>4 DEF Queued
  <2>3. \A d \in Callers : (Received(d)' <=> Received(d)) /\ (Buffered(d)' <=> Buffered(d))
    BY <1>1, <1>3 DEF Received, Buffered
  <2>4. \A d \in Callers : d \in Written => Sent(d)' \/ (caller'[d].op = "patch" /\ caller'[d].pc = "ok")
    BY <1>0, <1>1, <1>5, <2>1 DEF ItemInv
  <2> QED
    BY <1>0, <1>1, <1>3, <1>6, <2>1, <2>2, <2>3, <2>4 DEF ItemInv
<1> QED
  BY <1>0, <1>1, <1>3, <1>5, <1>9, <1>10, <1>11, MemoryStep DEF IoTypes, IoType, TextInv, CountTypes

\* shutdown_thread, alone with a writer that ended.
LEMMA RecorderRemoved ==
    ASSUME Inv, NEW c \in Callers, RemoveRecorder(c)
    PROVE  Inv'
<1> USE RolloutAssumption DEF RolloutAssumption
<1>0. /\ IoTypes /\ caller \in [Callers -> CallType] /\ CountTypes
      /\ TextInv /\ PlaceInv /\ CallInv /\ ItemInv
  BY DEF Inv, Types
<1>1. /\ caller[c].pc = "remove" /\ rec' = Closed /\ caller' = [caller EXCEPT ![c].pc = "ok"]
      /\ UNCHANGED <<disk, worker, io, opens, faults, received, sure>>
  BY DEF RemoveRecorder
<1>2. /\ rec' \in RecType /\ rec'.life = "none" /\ rec'.queue = <<>> /\ rec'.pending = <<>>
      /\ rec'.cmd = None /\ rec'.meta = FALSE
  BY <1>1, NoCommand DEF Closed, RecType
<1>3. /\ caller' \in [Callers -> CallType] /\ caller'[c].pc = "ok" /\ caller'[c].op = caller[c].op
      /\ \A d \in Callers \ {c} : caller'[d] = caller[d]
  BY <1>0, <1>1, CallerMoves DEF CallSteps
<1>4. Written' = Written
  BY <1>1 DEF Written, disk
<1>5. rec.life = "ended" /\ (\A d \in Callers \ {c} : caller[d].pc # "remove")
      /\ \A d \in Callers : caller[d].pc # "wait"
  BY <1>0, <1>1 DEF CallInv
<1>6. PlaceInv'
  BY <1>0, <1>1, <1>2, <1>3, <1>5 DEF PlaceInv
<1>7. CallInv'
  BY <1>0, <1>2, <1>3, <1>5 DEF CallInv, Waiting
<1>8. ItemInv'
  <2>1. \A d \in Callers : Sent(d) => Sent(d)'
    BY <1>3 DEF Sent
  <2>2. \A d \in Callers : d \in Written => Sent(d)' \/ (caller'[d].op = "patch" /\ caller'[d].pc = "ok")
    BY <1>0, <1>3, <2>1 DEF ItemInv
  <2> QED
    BY <1>0, <1>1, <1>2, <1>4, <2>1, <2>2 DEF ItemInv, Queued, Received, Buffered
<1> QED
  BY <1>0, <1>1, <1>2, <1>3, <1>6, <1>7, <1>8, MemoryStep DEF IoTypes, IoType, TextInv, CountTypes

\* The buffer holds what the recorder took last.
LEMMA BufferReceived ==
    ASSUME rec \in RecType, received \in Seq(Callers), PlaceInv, ItemInv
    PROVE  \A c \in Callers : Buffered(c) => Received(c)
<1> SUFFICES ASSUME NEW c \in Callers, NEW i \in DOMAIN rec.pending, rec.pending[i] = c
             PROVE  Received(c)
  BY DEF Buffered
<1>1. rec.pending \in Seq(Callers) /\ rec.pending # <<>>
  BY DEF RecType
<1>2. rec.life = "live"
  BY <1>1 DEF PlaceInv
<1>3. /\ Len(rec.pending) <= Len(received)
      /\ rec.pending[i] = received[Len(received) - Len(rec.pending) + i]
  BY <1>2 DEF ItemInv
<1>4. Len(received) - Len(rec.pending) + i \in DOMAIN received
  BY <1>1, <1>3
<1> QED
  BY <1>3, <1>4 DEF Received

\* append_rollout_item_to_path: nobody has written the item.
LEMMA PatchAppended ==
    ASSUME Inv, NEW c \in Callers, AppendPatch(c)
    PROVE  Inv'
<1> USE RolloutAssumption DEF RolloutAssumption
<1>0. /\ DiskTypes /\ WorkerTypes /\ rec \in RecType /\ IoTypes
      /\ caller \in [Callers -> CallType] /\ CountTypes
      /\ TextInv /\ PlaceInv /\ CallInv /\ ItemInv /\ SureInv
  BY DEF Inv, Types
<1> DEFINE h == io[c].handle
<1>1. /\ io[c].pc = "write" /\ io' = [io EXCEPT ![c] = Idle]
      /\ file' = [file EXCEPT ![h] = Append(@, [item |-> c, cut |-> "line"])]
      /\ plain' = plain /\ zst' = zst /\ cold' = (cold /\ h # plain)
      /\ caller' = [caller EXCEPT ![c].pc = "ok"] /\ sure' = sure \cup {c}
      /\ UNCHANGED <<worker, rec, opens, faults, received>>
  BY DEF AppendPatch, AppendTo, NoHandle, At
<1>2. caller[c].pc = "patch" /\ caller[c].op = "patch"
  BY <1>0, <1>1 DEF PlaceInv, CallInv
<1>3. ~Queued(c) /\ ~Received(c) /\ ~Buffered(c) /\ c \notin Written
  <2>1. ~Queued(c) /\ ~Received(c) /\ c \notin Written
    BY <1>0, <1>2 DEF ItemInv, Sent
  <2> QED
    BY <1>0, <2>1, BufferReceived DEF CountTypes
<1>4. h \in DOMAIN file
  <2>1. h # 0 /\ h \in 0..Len(file)
    BY <1>0, <1>1 DEF PlaceInv, IoTypes, Actors
  <2> QED
    BY <1>0, <2>1 DEF DiskTypes
<1> HIDE DEF h
<1>5. /\ file' \in Seq(Text) /\ Len(file') = Len(file) /\ Written' = Written \cup {c}
      /\ \A n \in DOMAIN file' : Ordered(file'[n], received')
  <2>1. \A i, j \in DOMAIN received : received[i] = c /\ i < j => received[j] \notin Written
    BY <1>3 DEF Received
  <2>2. \A i, j \in DOMAIN received : received[i] = received[j] => i = j
    BY <1>0 DEF ItemInv
  <2>3. c \in Items
    BY DEF Items
  <2> QED
    BY <1>0, <1>1, <1>3, <1>4, <2>1, <2>2, <2>3, LineWritten DEF DiskTypes, TextInv, CountTypes
<1>6. cold' \in BOOLEAN
  BY <1>1
<1>7. DiskTypes'
  BY <1>0, <1>1, <1>5, <1>6 DEF DiskTypes
<1>8. io' \in [Actors -> IoType] /\ io'[c] = Idle /\ \A b \in Actors \ {c} : io'[b] = io[b]
  <2>1. Idle = [Idle EXCEPT !.pc = "idle"]
    BY DEF Idle
  <2> QED
    BY <1>0, <1>1, <2>1, IoEnds DEF Actors
<1>9. /\ caller' \in [Callers -> CallType] /\ caller'[c].pc = "ok" /\ caller'[c].op = caller[c].op
      /\ \A d \in Callers \ {c} : caller'[d] = caller[d]
  BY <1>0, <1>1, CallerMoves DEF CallSteps
<1>10. Types'
  <2>1. IoTypes'
    BY <1>5, <1>8 DEF IoTypes, IoType
  <2> QED
    BY <1>0, <1>1, <1>7, <1>9, <2>1 DEF Types, WorkerTypes, CountTypes
<1>11. TextInv'
  <2>1. \A b \in Actors : Copied(io'[b].copy)
    BY <1>0, <1>8, Sources DEF TextInv, Idle
  <2> QED
    BY <1>0, <1>1, <1>5, <2>1, TextKept DEF TextInv
<1>12. PlaceInv'
  BY <1>0, <1>1, <1>8, <1>9 DEF PlaceInv, Idle, Actors
<1>13. CallInv' /\ \A d \in Callers : Sent(d) => Sent(d)'
  BY <1>0, <1>1, <1>2, <1>9, CallsKept DEF CallSteps
<1>14. ItemInv'
  <2>1. \A d \in Callers : d \in Written' => Sent(d)' \/ (caller'[d].op = "patch" /\ caller'[d].pc = "ok")
    BY <1>0, <1>2, <1>5, <1>9, <1>13 DEF ItemInv
  <2>2. \A d \in Callers : /\ Queued(d)' <=> Queued(d)
                           /\ Received(d)' <=> Received(d)
                           /\ Buffered(d)' <=> Buffered(d)
    BY <1>1 DEF Queued, Received, Buffered
  <2>3. \A d \in Callers : Queued(d) \/ Buffered(d) => d \notin Written'
    BY <1>0, <1>3, <1>5 DEF ItemInv
  <2>4. rec.meta => Meta \notin Written'
    BY <1>0, <1>5 DEF ItemInv
  <2> QED
    BY <1>0, <1>1, <1>5, <1>13, <2>1, <2>2, <2>3, <2>4 DEF ItemInv
<1>15. SureInv'
  BY <1>0, <1>1, <1>5 DEF SureInv
<1> QED
  BY <1>10, <1>11, <1>12, <1>13, <1>14, <1>15 DEF Inv

-----------------------------------------------------------------------------
(* Recorders come and go *)

LEMMA RecorderOpens ==
    ASSUME Inv, Create \/ Resume
    PROVE  Inv'
<1> USE RolloutAssumption DEF RolloutAssumption
<1>0. /\ DiskTypes /\ WorkerTypes /\ IoTypes
      /\ caller \in [Callers -> CallType] /\ CountTypes
      /\ TextInv /\ PlaceInv /\ CallInv /\ ItemInv /\ SureInv /\ cold \in BOOLEAN
  BY DEF Inv, Types, DiskTypes
<1>1. /\ opens < MaxOpens /\ opens' = opens + 1 /\ received' = <<>>
      /\ UNCHANGED <<disk, worker, caller, faults, sure>>
  BY DEF Create, Resume
<1>2. rec.life = "none" /\ io["rec"] = Idle
  BY <1>0 DEF Create, Resume, PlaceInv
<1>3. /\ rec' \in RecType /\ rec'.queue = <<>> /\ rec'.pending = <<>>
      /\ rec'.cmd = None /\ rec'.life \in {"live", "opening"}
      /\ rec'.meta => Meta \notin Written
  <2>1. CASE Create
    <3>1. file = <<>> /\ rec' = [Closed EXCEPT !.life = "live", !.deferred = TRUE, !.meta = TRUE]
      BY <2>1 DEF Create
    <3>2. Written = {}
      BY <3>1 DEF Written
    <3>3. rec' = [life |-> "live", deferred |-> TRUE, meta |-> TRUE, pending |-> <<>>,
                  queue |-> <<>>, cmd |-> None, try |-> 1]
      BY <3>1 DEF Closed
    <3>4. rec' \in RecType
      BY <3>3, NoCommand DEF RecType
    <3> QED
      BY <3>2, <3>3, <3>4
  <2>2. CASE Resume
    <3>1. rec' = [Closed EXCEPT !.life = "opening"]
      BY <2>2 DEF Resume
    <3>2. rec' = [life |-> "opening", deferred |-> FALSE, meta |-> FALSE, pending |-> <<>>,
                  queue |-> <<>>, cmd |-> None, try |-> 1]
      BY <3>1 DEF Closed
    <3>3. rec' \in RecType
      BY <3>2, NoCommand DEF RecType
    <3> QED
      BY <3>2, <3>3
  <2> QED
    BY <2>1, <2>2
<1>4. /\ io' \in [Actors -> IoType] /\ \A a \in Actors : io'[a].copy = io[a].copy
      /\ \A a \in Actors \ {"rec"} : io'[a] = io[a]
      /\ rec'.life = "live" => io'["rec"].pc = "idle"
      /\ rec'.life = "opening" => io'["rec"].pc = "plain"
  <2>1. CASE Create
    <3>1. io' = io /\ rec'.life = "live"
      BY <2>1 DEF Create, Closed
    <3> QED
      BY <1>0, <1>2, <3>1 DEF IoTypes, IoType, Idle
  <2>2. CASE Resume
    <3>1. Goto("rec", "plain") /\ rec'.life = "opening"
      BY <2>2 DEF Resume, Closed
    <3> QED
      BY <1>0, <3>1, IoMoves DEF FileSteps, Actors
  <2> QED
    BY <2>1, <2>2
<1>5. file' = file /\ plain' = plain /\ zst' = zst /\ cold' = cold /\ DOMAIN received' = {}
  BY <1>1 DEF disk
<1>6. DiskTypes' /\ Written' = Written
  BY <1>0, <1>5 DEF DiskTypes, Written
<1>7. Types'
  <2>1. IoTypes'
    BY <1>4, <1>5 DEF IoTypes, IoType
  <2>2. CountTypes'
    BY <1>0, <1>1 DEF CountTypes
  <2> QED
    BY <1>0, <1>1, <1>3, <1>6, <2>1, <2>2 DEF Types, WorkerTypes
<1>8. TextInv'
  <2>1. ASSUME NEW f, Ordered(f, received)
        PROVE  Ordered(f, received')
    BY <1>5, <2>1 DEF Ordered
  <2>2. ASSUME NEW f, Copied(f)
        PROVE  Ordered(f, received') /\ LinesOf(f) \subseteq Written'
    BY <1>6, <2>1, <2>2 DEF Copied
  <2>3. \A n \in DOMAIN file' : Ordered(file'[n], received')
    BY <1>0, <1>5, <2>1 DEF TextInv
  <2>4. Ordered(worker'.copy, received') /\ LinesOf(worker'.copy) \subseteq Written'
    BY <1>0, <1>1, <2>2 DEF TextInv
  <2>5. \A a \in Actors : Ordered(io'[a].copy, received') /\ LinesOf(io'[a].copy) \subseteq Written'
    BY <1>0, <1>4, <2>2 DEF TextInv
  <2> QED
    BY <2>3, <2>4, <2>5 DEF TextInv, Copied
<1>9. PlaceInv'
  <2>1. \A a \in Actors : io'[a].pc = "write" => io'[a].handle # 0
    BY <1>0, <1>3, <1>4 DEF PlaceInv
  <2>2. \A c \in Callers : io'[c].pc # "idle" => caller'[c].pc = "patch"
    BY <1>0, <1>1, <1>4 DEF PlaceInv, Actors
  <2>3. opens' # 0
    BY <1>0, <1>1 DEF CountTypes
  <2> QED
    BY <1>3, <1>4, <2>1, <2>2, <2>3 DEF PlaceInv, OpenSteps
<1>10. CallInv'
  <2>1. \A c \in Callers : caller[c].pc # "wait" /\ caller[c].pc # "remove"
    BY <1>0, <1>2 DEF CallInv
  <2> QED
    BY <1>0, <1>1, <1>3, <2>1 DEF CallInv, Waiting
<1>11. ItemInv'
  <2>1. \A c \in Callers : ~Queued(c)' /\ ~Received(c)' /\ ~Buffered(c)' /\ (Sent(c)' <=> Sent(c))
    BY <1>1, <1>3, <1>5 DEF Queued, Received, Buffered, Sent
  <2>2. Len(rec'.pending) = 0 /\ DOMAIN rec'.pending = {} /\ Len(received') = 0
    BY <1>1, <1>3
  <2> QED
    BY <1>0, <1>1, <1>3, <1>5, <1>6, <2>1, <2>2 DEF ItemInv
<1>12. SureInv'
  BY <1>0, <1>1, <1>6 DEF SureInv
<1> QED
  BY <1>7, <1>8, <1>9, <1>10, <1>11, <1>12 DEF Inv

LEMMA ProcessDies ==
    ASSUME Inv, Crash
    PROVE  Inv'
<1> USE RolloutAssumption DEF RolloutAssumption
<1>0. /\ DiskTypes /\ caller \in [Callers -> CallType] /\ CountTypes
      /\ TextInv /\ PlaceInv /\ CallInv /\ ItemInv
  BY DEF Inv, Types
<1>1. /\ rec' = Closed /\ io' = [a \in Actors |-> Idle]
      /\ caller' = [c \in Callers |-> IF caller[c].pc \in {"idle", "ok", "err"} THEN caller[c]
                                      ELSE [caller[c] EXCEPT !.pc = "gone"]]
      /\ UNCHANGED <<disk, worker, opens, faults, received, sure>>
  BY DEF Crash
<1>2. /\ rec' \in RecType /\ rec'.life = "none" /\ rec'.queue = <<>> /\ rec'.pending = <<>>
      /\ rec'.cmd = None /\ rec'.meta = FALSE
  BY <1>1, NoCommand DEF Closed, RecType
<1>3. /\ caller' \in [Callers -> CallType]
      /\ \A c \in Callers : /\ caller'[c].op = caller[c].op
                            /\ caller'[c].pc \in {"idle", "ok", "err", "gone"}
                            /\ caller[c].pc \in {"idle", "ok", "err"} => caller'[c].pc = caller[c].pc
                            /\ caller[c].pc \notin {"idle", "ok", "err"} => caller'[c].pc = "gone"
  BY <1>0, <1>1 DEF CallType, CallSteps
<1>4. /\ io' \in [Actors -> IoType] /\ \A a \in Actors : io'[a] = Idle /\ Copied(io'[a].copy)
  BY <1>0, <1>1, Sources DEF Idle, IoType, FileSteps, Text, DiskTypes
<1>5. Written' = Written
  BY <1>1 DEF Written, disk
<1>6. PlaceInv'
  <2>1. \A a \in Actors : io'[a] = Idle /\ io'[a].pc = "idle"
    BY <1>4 DEF Idle
  <2>2. io'["rec"] = Idle /\ io'["rec"].pc = "idle" /\ \A c \in Callers : io'[c].pc = "idle"
    BY <2>1 DEF Actors
  <2> QED
    BY <1>2, <2>1, <2>2 DEF PlaceInv
<1>7. CallInv'
  BY <1>2, <1>3 DEF CallInv, Waiting
<1>8. ItemInv'
  <2>1. \A d \in Callers : Sent(d) => Sent(d)'
    BY <1>3 DEF Sent
  <2>2. \A d \in Callers : d \in Written => Sent(d)' \/ (caller'[d].op = "patch" /\ caller'[d].pc = "ok")
    BY <1>0, <1>3, <2>1 DEF ItemInv
  <2> QED
    BY <1>0, <1>1, <1>2, <1>5, <2>1, <2>2 DEF ItemInv, Queued, Received, Buffered
<1> QED
  BY <1>0, <1>1, <1>2, <1>3, <1>4, <1>6, <1>7, <1>8, MemoryStep DEF CountTypes

-----------------------------------------------------------------------------
(* The writer *)

\* The writer takes the first command out of the channel.
LEMMA HeadTaken ==
    ASSUME rec \in RecType, CallInv, rec.queue # <<>>, rec'.queue = Tail(rec.queue),
           NEW h, h = Head(rec.queue)
    PROVE  /\ h \in Command /\ Fits(h) /\ Tail(rec.queue) \in Seq(Command)
           /\ \A d : Waiting(d)' <=> Waiting(d) /\ ~(h.kind # "add" /\ h.who = d)
           /\ \A d : Queued(d)' <=> Queued(d) /\ ~(h.kind = "add" /\ h.who = d)
           /\ h.kind = "add" => Queued(h.who)
           /\ \A i \in DOMAIN rec'.queue : i + 1 \in DOMAIN rec.queue /\ rec'.queue[i] = rec.queue[i + 1]
           /\ \A i, j \in DOMAIN rec'.queue :
                 /\ rec'.queue[i].who = rec'.queue[j].who
                 /\ rec'.queue[i].kind = "add" <=> rec'.queue[j].kind = "add"
                 => i = j
<1>1. rec.queue \in Seq(Command)
  BY DEF RecType
<1>2. /\ Len(rec.queue) \in Nat /\ DOMAIN rec.queue = 1..Len(rec.queue) /\ 1 \in DOMAIN rec.queue
      /\ h = rec.queue[1] /\ h \in Command
      /\ Tail(rec.queue) \in Seq(Command) /\ DOMAIN rec'.queue = 1..(Len(rec.queue) - 1)
      /\ \A i \in 1..(Len(rec.queue) - 1) : rec'.queue[i] = rec.queue[i + 1]
  BY <1>1
<1>3. \A i \in DOMAIN rec'.queue :
         i \in Nat /\ i + 1 \in DOMAIN rec.queue /\ i + 1 # 1 /\ rec'.queue[i] = rec.queue[i + 1]
  BY <1>2
<1>4. \A i \in DOMAIN rec.queue : i # 1 => i - 1 \in DOMAIN rec'.queue /\ rec'.queue[i - 1] = rec.queue[i]
  BY <1>2
<1>5. \A i, j \in DOMAIN rec.queue :
         rec.queue[i].who = rec.queue[j].who /\ (rec.queue[i].kind = "add" <=> rec.queue[j].kind = "add")
         => i = j
  BY DEF CallInv
<1>6. ASSUME NEW d
      PROVE  Waiting(d)' <=> Waiting(d) /\ ~(h.kind # "add" /\ h.who = d)
  <2>1. ASSUME Waiting(d)'
        PROVE  Waiting(d) /\ ~(h.kind # "add" /\ h.who = d)
    <3>1. PICK i \in DOMAIN rec'.queue : rec'.queue[i].who = d /\ rec'.queue[i].kind # "add"
      BY <2>1 DEF Waiting
    <3>2. /\ i + 1 \in DOMAIN rec.queue /\ i + 1 # 1
          /\ rec.queue[i + 1].who = d /\ rec.queue[i + 1].kind # "add"
      BY <1>3, <3>1
    <3> QED
      BY <1>2, <1>5, <3>2 DEF Waiting
  <2>2. ASSUME Waiting(d), ~(h.kind # "add" /\ h.who = d)
        PROVE  Waiting(d)'
    BY <1>2, <1>4, <2>2 DEF Waiting
  <2> QED
    BY <2>1, <2>2
<1>7. ASSUME NEW d
      PROVE  Queued(d)' <=> Queued(d) /\ ~(h.kind = "add" /\ h.who = d)
  <2>1. ASSUME Queued(d)'
        PROVE  Queued(d) /\ ~(h.kind = "add" /\ h.who = d)
    BY <1>2, <1>3, <1>5, <2>1 DEF Queued
  <2>2. ASSUME Queued(d), ~(h.kind = "add" /\ h.who = d)
        PROVE  Queued(d)'
    BY <1>2, <1>4, <2>2 DEF Queued
  <2> QED
    BY <2>1, <2>2
<1>8. Fits(h)
  BY <1>2 DEF CallInv
<1>9. h.kind = "add" => Queued(h.who)
  BY <1>2 DEF Queued
<1>10. ASSUME NEW i \in DOMAIN rec'.queue, NEW j \in DOMAIN rec'.queue,
              rec'.queue[i].who = rec'.queue[j].who,
              rec'.queue[i].kind = "add" <=> rec'.queue[j].kind = "add"
       PROVE  i = j
  <2>1. i + 1 = j + 1
    BY <1>3, <1>5, <1>10
  <2> QED
    BY <1>3, <2>1
<1> QED
  BY <1>2, <1>3, <1>6, <1>7, <1>8, <1>9, <1>10

\* A barrier is taken: whoever waits for it is the only one to.
LEMMA BarrierReceived ==
    ASSUME Inv, ReceiveBarrier
    PROVE  Inv'
<1> USE RolloutAssumption DEF RolloutAssumption
<1>0. /\ rec \in RecType /\ IoTypes /\ caller \in [Callers -> CallType] /\ CountTypes
      /\ TextInv /\ PlaceInv /\ CallInv /\ ItemInv
  BY DEF Inv, Types
<1>h. PICK h : h = Head(rec.queue)
  OBVIOUS
<1>1. /\ rec.life = "live" /\ rec.cmd = None /\ io["rec"].pc = "idle"
      /\ rec.queue # <<>> /\ h.kind # "add"
      /\ rec' = [rec EXCEPT !.queue = Tail(rec.queue), !.cmd = h]
      /\ UNCHANGED <<disk, worker, caller, opens, faults, received, sure>>
  BY <1>h DEF ReceiveBarrier, WriterIdle, At
<1>2. PICK step \in {"done", "write", "plain"} :
        /\ Goto("rec", step)
        /\ step = "done" => rec.pending = <<>>
        /\ step = "write" => io["rec"].handle # 0
  BY DEF ReceiveBarrier, Attempt
<1>3. rec'.queue = Tail(rec.queue) /\ rec'.cmd = h
      /\ rec'.life = rec.life /\ rec'.pending = rec.pending
  BY <1>0, <1>1 DEF RecType
<1>4. /\ h \in Command /\ Fits(h) /\ Tail(rec.queue) \in Seq(Command)
      /\ \A d : Waiting(d)' <=> Waiting(d) /\ ~(h.kind # "add" /\ h.who = d)
      /\ \A d : Queued(d)' <=> Queued(d) /\ ~(h.kind = "add" /\ h.who = d)
      /\ \A i \in DOMAIN rec'.queue : i + 1 \in DOMAIN rec.queue /\ rec'.queue[i] = rec.queue[i + 1]
      /\ \A i, j \in DOMAIN rec'.queue :
            /\ rec'.queue[i].who = rec'.queue[j].who
            /\ rec'.queue[i].kind = "add" <=> rec'.queue[j].kind = "add"
            => i = j
  BY <1>0, <1>1, <1>3, <1>h, HeadTaken
<1>5. rec' \in RecType
  BY <1>0, <1>1, <1>4, RecUpdates, Zenon
<1>6. rec'.meta = rec.meta
  BY <1>0, <1>1 DEF RecType
<1>7. Written' = Written
  BY <1>1 DEF Written, disk
<1>8. /\ io' \in [Actors -> IoType]
      /\ io'["rec"].pc = step /\ io'["rec"].copy = io["rec"].copy /\ io'["rec"].handle = io["rec"].handle
      /\ \A b \in Actors \ {"rec"} : io'[b] = io[b]
  <2>1. "rec" \in Actors /\ step \in FileSteps
    BY DEF Actors, FileSteps
  <2> QED
    BY <1>0, <1>2, <2>1, IoMoves
<1>9. \A a \in Actors : Copied(io'[a].copy)
  BY <1>0, <1>8 DEF TextInv
<1>10. PlaceInv'
  <2>1. h # None
    BY <1>4, NoCommand DEF Fits
  <2>2. \A a \in Actors : io'[a].pc = "write" => io'[a].handle # 0
    BY <1>0, <1>2, <1>8 DEF PlaceInv
  <2>3. \A c \in Callers : io'[c] = io[c]
    BY <1>8 DEF Actors
  <2> QED
    BY <1>0, <1>1, <1>2, <1>3, <1>8, <2>1, <2>2, <2>3 DEF PlaceInv
<1>11. CallInv'
  <2>1. \A d \in Callers : caller'[d].pc = "wait" => rec'.life = "live" /\ Served(d)'
    BY <1>0, <1>1, <1>3, <1>4, NoCommand DEF CallInv, Served
  <2>2. (\A i \in DOMAIN rec.queue : Fits(rec.queue[i]))'
    <3> SUFFICES ASSUME NEW i \in DOMAIN rec'.queue PROVE Fits(rec.queue[i])'
      OBVIOUS
    <3>1. rec'.queue[i] = rec.queue[i + 1] /\ Fits(rec.queue[i + 1])
      BY <1>0, <1>4 DEF CallInv
    <3> QED
      BY <1>1, <3>1 DEF Fits
  <2>3. Fits(rec.cmd)'
    BY <1>1, <1>3, <1>4 DEF Fits
  <2>4. ~Waiting(rec.cmd.who)'
    BY <1>1, <1>3, <1>4
  <2> QED
    BY <1>0, <1>1, <1>3, <1>4, <2>1, <2>2, <2>3, <2>4 DEF CallInv
<1>12. ItemInv'
  BY <1>0, <1>1, <1>3, <1>4, <1>6, <1>7 DEF ItemInv, Received, Buffered, Sent
<1> QED
  BY <1>0, <1>1, <1>5, <1>8, <1>9, <1>10, <1>11, <1>12, MemoryStep DEF CountTypes

\* Items are taken: they come last in the buffer and in the order, and no file
\* or copy has them yet.
LEMMA ItemsReceived ==
    ASSUME Inv, ReceiveItems
    PROVE  Inv'
<1> USE RolloutAssumption DEF RolloutAssumption
<1>0. /\ DiskTypes /\ WorkerTypes /\ rec \in RecType /\ IoTypes
      /\ caller \in [Callers -> CallType] /\ CountTypes
      /\ TextInv /\ PlaceInv /\ CallInv /\ ItemInv /\ SureInv /\ cold \in BOOLEAN
  BY DEF Inv, Types, DiskTypes
<1>h. PICK h : h = Head(rec.queue)
  OBVIOUS
<1>w. PICK w : w = h.who
  OBVIOUS
<1>1. /\ rec.life = "live" /\ rec.cmd = None /\ io["rec"].pc = "idle"
      /\ rec.queue # <<>> /\ h.kind = "add"
      /\ received' = Append(received, w)
      /\ UNCHANGED <<disk, worker, caller, opens, faults, sure>>
  BY <1>h, <1>w DEF ReceiveItems, WriterIdle, At
<1> DEFINE added == [rec EXCEPT !.queue = Tail(rec.queue), !.pending = Append(rec.pending, w)]
<1>2. \/ rec' = added /\ io' = io
      \/ /\ rec' = [added EXCEPT !.cmd = h]
         /\ Goto("rec", IF io["rec"].handle # 0 THEN "write" ELSE "plain")
  BY <1>h, <1>w DEF ReceiveItems, Attempt
<1>3. /\ added.queue = Tail(rec.queue) /\ added.pending = Append(rec.pending, w)
      /\ added.life = rec.life /\ added.cmd = rec.cmd /\ added.meta = rec.meta
  BY <1>0 DEF RecType
<1>4. rec'.queue = Tail(rec.queue)
  BY <1>0, <1>2 DEF RecType
<1>5. /\ h \in Command /\ Fits(h) /\ Tail(rec.queue) \in Seq(Command)
      /\ \A d : Waiting(d)' <=> Waiting(d) /\ ~(h.kind # "add" /\ h.who = d)
      /\ \A d : Queued(d)' <=> Queued(d) /\ ~(h.kind = "add" /\ h.who = d)
      /\ h.kind = "add" => Queued(h.who)
      /\ \A i \in DOMAIN rec'.queue : i + 1 \in DOMAIN rec.queue /\ rec'.queue[i] = rec.queue[i + 1]
      /\ \A i, j \in DOMAIN rec'.queue :
            /\ rec'.queue[i].who = rec'.queue[j].who
            /\ rec'.queue[i].kind = "add" <=> rec'.queue[j].kind = "add"
            => i = j
  BY <1>0, <1>1, <1>4, <1>h, HeadTaken
<1>6. w \in Callers /\ Queued(w) /\ ~Received(w) /\ w \notin Written /\ Sent(w)
  BY <1>0, <1>1, <1>5, <1>w DEF Fits, ItemInv
<1>7. /\ rec.pending \in Seq(Callers) /\ received \in Seq(Callers)
      /\ Append(rec.pending, w) \in Seq(Callers) /\ received' \in Seq(Callers)
      /\ Len(rec.pending) \in Nat /\ Len(received) \in Nat
      /\ Len(Append(rec.pending, w)) = Len(rec.pending) + 1 /\ Len(received') = Len(received) + 1
      /\ DOMAIN rec.pending = 1..Len(rec.pending) /\ DOMAIN received = 1..Len(received)
      /\ DOMAIN Append(rec.pending, w) = 1..(Len(rec.pending) + 1)
      /\ DOMAIN received' = 1..(Len(received) + 1)
      /\ \A i \in 1..Len(rec.pending) : Append(rec.pending, w)[i] = rec.pending[i]
      /\ \A i \in 1..Len(received) : received'[i] = received[i]
      /\ Append(rec.pending, w)[Len(rec.pending) + 1] = w /\ received'[Len(received) + 1] = w
  <2>1. rec.pending \in Seq(Callers) /\ received \in Seq(Callers)
    BY <1>0 DEF RecType, CountTypes
  <2> QED
    BY <1>1, <1>6, <2>1, Extended
<1>8. added \in RecType
  BY <1>0, <1>5, <1>7, RecUpdates, Zenon
<1>9. /\ rec' \in RecType /\ rec'.pending = Append(rec.pending, w)
      /\ rec'.life = "live" /\ rec'.meta = rec.meta
      /\ (rec'.cmd = None /\ io' = io) \/ (rec'.cmd = h /\ io'["rec"].pc # "idle")
      /\ io' \in [Actors -> IoType] /\ \A a \in Actors : io'[a].copy = io[a].copy
      /\ \A a \in Actors \ {"rec"} : io'[a] = io[a]
      /\ io'["rec"].pc # "done" /\ (io'["rec"].pc = "write" => io'["rec"].handle # 0)
  <2>1. CASE rec' = added /\ io' = io
    <3>1. io \in [Actors -> IoType] /\ io["rec"].pc # "done" /\ io["rec"].pc # "write"
      BY <1>0, <1>1 DEF IoTypes, IoType
    <3>2. rec'.meta = rec.meta /\ rec' \in RecType
      BY <1>3, <1>8, <2>1, Zenon
    <3> HIDE DEF added
    <3>3. rec'.pending = Append(rec.pending, w) /\ rec'.life = "live" /\ rec'.cmd = None
      BY <1>1, <1>3, <2>1
    <3> QED
      BY <2>1, <3>1, <3>2, <3>3, Zenon
  <2>2. CASE /\ rec' = [added EXCEPT !.cmd = h]
             /\ Goto("rec", IF io["rec"].handle # 0 THEN "write" ELSE "plain")
    <3>1. rec' \in RecType
      BY <1>5, <1>8, <2>2, RecUpdates, Zenon
    <3> HIDE DEF added
    <3>2. rec'.cmd = h /\ rec'.pending = added.pending /\ rec'.life = added.life
      BY <1>8, <2>2 DEF RecType
    <3>3. rec'.meta = added.meta
      BY <1>8, <2>2 DEF RecType
    <3>4. PICK step \in {"write", "plain"} : Goto("rec", step) /\ (step = "write" => io["rec"].handle # 0)
      BY <2>2
    <3>5. "rec" \in Actors /\ step \in FileSteps
      BY DEF Actors, FileSteps
    <3>6. /\ io' \in [Actors -> IoType]
          /\ io'["rec"].pc = step /\ io'["rec"].copy = io["rec"].copy
          /\ io'["rec"].handle = io["rec"].handle
          /\ \A b \in Actors \ {"rec"} : io'[b] = io[b]
      BY <1>0, <3>4, <3>5, IoMoves
    <3> QED
      BY <1>1, <1>3, <3>1, <3>2, <3>3, <3>4, <3>6
  <2> QED
    BY <1>2, <2>1, <2>2
<1> HIDE DEF added
<1>10. file' = file /\ plain' = plain /\ zst' = zst /\ cold' = cold
  BY <1>1 DEF disk
<1>11. DiskTypes' /\ Written' = Written
  BY <1>0, <1>10 DEF DiskTypes, Written
<1>12. Types'
  <2>1. IoTypes'
    BY <1>9, <1>10 DEF IoTypes, IoType
  <2>2. CountTypes'
    BY <1>0, <1>1, <1>7 DEF CountTypes
  <2> QED
    BY <1>0, <1>1, <1>9, <1>11, <2>1, <2>2 DEF Types, WorkerTypes
<1>13. TextInv'
  <2>1. ASSUME NEW f, Copied(f)
        PROVE  Ordered(f, received') /\ LinesOf(f) \subseteq Written'
    <3>1. Ordered(f, received) /\ w \notin LinesOf(f) /\ LinesOf(f) \subseteq Written
      BY <1>6, <2>1 DEF Copied
    <3>2. Ordered(f, Append(received, w))
      BY <1>6, <1>7, <3>1, OrderAppended
    <3> QED
      BY <1>1, <1>11, <3>1, <3>2
  <2>2. \A n \in DOMAIN file' : Ordered(file'[n], received')
    BY <1>0, <1>10, <2>1, Sources
  <2>3. Ordered(worker'.copy, received') /\ LinesOf(worker'.copy) \subseteq Written'
    BY <1>0, <1>1, <2>1 DEF TextInv
  <2>4. \A a \in Actors : Ordered(io'[a].copy, received') /\ LinesOf(io'[a].copy) \subseteq Written'
    BY <1>0, <1>9, <2>1 DEF TextInv
  <2> QED
    BY <2>2, <2>3, <2>4 DEF TextInv, Copied
<1>14. PlaceInv'
  <2>1. h # None
    BY <1>5, NoCommand DEF Fits
  <2>2. \A a \in Actors : io'[a].pc = "write" => io'[a].handle # 0
    BY <1>0, <1>9 DEF PlaceInv
  <2>3. \A c \in Callers : io'[c] = io[c]
    BY <1>9 DEF Actors
  <2> QED
    BY <1>0, <1>1, <1>9, <2>1, <2>2, <2>3 DEF PlaceInv
<1>15. CallInv'
  <2>1. \A d : Waiting(d)' <=> Waiting(d)
    BY <1>1, <1>5
  <2>2. \A d \in Callers : caller'[d].pc = "wait" => rec'.life = "live" /\ Served(d)'
    BY <1>0, <1>1, <1>9, <2>1, NoCommand DEF CallInv, Served
  <2>3. (\A i \in DOMAIN rec.queue : Fits(rec.queue[i]))'
    <3> SUFFICES ASSUME NEW i \in DOMAIN rec'.queue PROVE Fits(rec.queue[i])'
      OBVIOUS
    <3>1. rec'.queue[i] = rec.queue[i + 1] /\ Fits(rec.queue[i + 1])
      BY <1>0, <1>5 DEF CallInv
    <3> QED
      BY <1>1, <3>1 DEF Fits
  <2>4. (rec.cmd # None => Fits(rec.cmd))'
    BY <1>1, <1>5, <1>9 DEF Fits
  <2>5. (rec.cmd.kind # "add" => ~Waiting(rec.cmd.who))'
    <3>1. ~Waiting(Nobody)
      BY <1>0 DEF CallInv, Fits, Waiting
    <3>2. rec'.cmd.kind # "add" => rec'.cmd.who = Nobody
      BY <1>1, <1>9, NoCommand
    <3> QED
      BY <2>1, <3>1, <3>2
  <2> QED
    BY <1>0, <1>1, <1>5, <1>9, <2>2, <2>3, <2>4, <2>5 DEF CallInv
<1>16. ItemInv'
  <2>1. \A d \in Callers : Sent(d)' <=> Sent(d)
    BY <1>1 DEF Sent
  <2>2. \A d \in Callers : Received(d)' <=> Received(d) \/ d = w
    BY <1>7 DEF Received
  <2>3. \A d \in Callers : Buffered(d)' <=> Buffered(d) \/ d = w
    <3>1. rec'.pending = Append(rec.pending, w)
      BY <1>9
    <3> QED
      BY <1>7, <3>1 DEF Buffered
  <2>4. \A d \in Callers : Queued(d)' => Queued(d) /\ d # w
    BY <1>1, <1>5, <1>w
  <2>5. \A i, j \in DOMAIN received' : received'[i] = received'[j] => i = j
    <3>1. \A i \in DOMAIN received : received[i] # w
      BY <1>6 DEF Received
    <3> QED
      BY <1>0, <1>7, <3>1 DEF ItemInv
  <2>6. Len(rec'.pending) <= Len(received')
    BY <1>0, <1>1, <1>7, <1>9 DEF ItemInv
  <2>7. \A i \in DOMAIN rec'.pending : rec'.pending[i] = received'[Len(received') - Len(rec'.pending) + i]
    <3>1. PICK m \in Nat : m = Len(rec.pending)
      BY <1>7
    <3>2. PICK k \in Nat : k = Len(received)
      BY <1>7
    <3>3. m <= k /\ \A i \in 1..m : rec.pending[i] = received[k - m + i]
      BY <1>0, <1>1, <1>7, <3>1, <3>2 DEF ItemInv
    <3>4. /\ Len(rec'.pending) = m + 1 /\ DOMAIN rec'.pending = 1..(m + 1)
          /\ \A i \in 1..m : rec'.pending[i] = rec.pending[i]
          /\ rec'.pending[m + 1] = w
      BY <1>7, <1>9, <3>1
    <3>5. /\ Len(received') = k + 1
          /\ \A i \in 1..k : received'[i] = received[i]
          /\ received'[k + 1] = w
      BY <1>7, <3>2
    <3>6. ASSUME NEW i \in 1..(m + 1)
          PROVE  rec'.pending[i] = received'[(k + 1) - (m + 1) + i]
      <4>1. CASE i \in 1..m
        <5>1. k - m + i \in 1..k /\ (k + 1) - (m + 1) + i = k - m + i
          BY <3>3, <4>1
        <5>2. rec'.pending[i] = received[k - m + i] /\ received'[k - m + i] = received[k - m + i]
          BY <3>3, <3>4, <3>5, <4>1, <5>1
        <5> QED
          BY <5>1, <5>2
      <4>2. CASE i = m + 1
        <5>1. (k + 1) - (m + 1) + i = k + 1
          BY <4>2
        <5> QED
          BY <3>4, <3>5, <4>2, <5>1
      <4> QED
        BY <4>1, <4>2
    <3> QED
      BY <3>4, <3>5, <3>6
  <2>8. \A c \in Callers : Received(c)' => Buffered(c)' \/ c \in Written'
    BY <1>0, <1>1, <1>11, <2>2, <2>3 DEF ItemInv
  <2>9. \A c \in Callers : (Queued(c)' \/ Received(c)' => Sent(c)')
                           /\ (Queued(c)' => ~Received(c)' /\ c \notin Written')
                           /\ (Buffered(c)' => c \notin Written')
    BY <1>0, <1>6, <1>11, <2>1, <2>2, <2>3, <2>4 DEF ItemInv
  <2> QED
    BY <1>0, <1>1, <1>9, <1>11, <2>1, <2>5, <2>6, <2>7, <2>8, <2>9 DEF ItemInv
<1>17. SureInv'
  BY <1>0, <1>1, <1>11 DEF SureInv
<1> QED
  BY <1>12, <1>13, <1>14, <1>15, <1>16, <1>17 DEF Inv

\* The first of a buffer p that is the end of r, and what comes after it.
EndOf(p, r) ==
    /\ Len(p) <= Len(r)
    /\ \A i \in DOMAIN p : p[i] = r[Len(r) - Len(p) + i]
    /\ \A i, j \in DOMAIN r : r[i] = r[j] => i = j
Has(p, c) == \E i \in DOMAIN p : p[i] = c
LEMMA BufferHead ==
    ASSUME NEW p \in Seq(Callers), NEW r \in Seq(Callers), p # <<>>, EndOf(p, r)
    PROVE  /\ Head(p) \in Callers /\ Has(p, Head(p)) /\ Has(r, Head(p))
           /\ \A i, j \in DOMAIN r : r[i] = Head(p) /\ i < j => Has(p, r[j])
           /\ Tail(p) \in Seq(Callers) /\ EndOf(Tail(p), r)
           /\ \A c : Has(Tail(p), c) <=> c # Head(p) /\ Has(p, c)
<1>x. PICK x : x = Head(p)
  OBVIOUS
<1>t. PICK t : t = Tail(p)
  OBVIOUS
<1>1. PICK m \in Nat : m = Len(p)
  OBVIOUS
<1>2. PICK n \in Nat : n = Len(r)
  OBVIOUS
<1>3. /\ DOMAIN p = 1..m /\ DOMAIN r = 1..n /\ m # 0 /\ m <= n
      /\ \A i \in 1..m : p[i] = r[n - m + i]
      /\ t \in Seq(Callers) /\ Len(t) = m - 1 /\ DOMAIN t = 1..(m - 1)
      /\ \A i \in 1..(m - 1) : t[i] = p[i + 1]
      /\ x = p[1] /\ x \in Callers
  <2>1. DOMAIN p = 1..m /\ DOMAIN r = 1..n /\ m # 0 /\ m <= n
    BY <1>1, <1>2 DEF EndOf
  <2>a. \A i \in DOMAIN p : p[i] = r[Len(r) - Len(p) + i]
    BY DEF EndOf
  <2>2. \A i \in 1..m : p[i] = r[n - m + i]
    BY <1>1, <1>2, <2>1, <2>a
  <2>3. Tail(p) \in Seq(Callers) /\ Len(Tail(p)) = m - 1 /\ \A i \in 1..(m - 1) : Tail(p)[i] = p[i + 1]
    BY <1>1
  <2>4. DOMAIN Tail(p) = 1..(m - 1)
    BY <2>3
  <2>5. x = p[1] /\ x \in Callers
    BY <1>x
  <2> QED
    BY <1>t, <2>1, <2>2, <2>3, <2>4, <2>5
<1>4. \A i, j \in 1..n : r[i] = r[j] => i = j
  BY <1>3 DEF EndOf
<1>5. \A i \in 1..m : n - m + i \in 1..n
  BY <1>3
<1>6. 1 \in 1..m
  BY <1>3
<1>a. n - m + 1 \in 1..n /\ r[n - m + 1] = x
  BY <1>3, <1>5, <1>6
<1>7. Has(p, x) /\ Has(r, x)
  <2>1. 1 \in DOMAIN p /\ p[1] = x
    BY <1>3, <1>6
  <2> QED
    BY <1>3, <1>a, <2>1 DEF Has
<1>8. ASSUME NEW i \in DOMAIN r, NEW j \in DOMAIN r, r[i] = x, i < j
      PROVE  Has(p, r[j])
  <2>1. i \in 1..n /\ j \in 1..n
    BY <1>3
  <2>2. i = n - m + 1
    BY <1>4, <1>8, <1>a, <2>1
  <2>3. j - (n - m) \in 1..m /\ n - m + (j - (n - m)) = j
    BY <1>3, <1>8, <2>1, <2>2
  <2>4. p[j - (n - m)] = r[j]
    BY <1>3, <2>3
  <2> QED
    BY <1>3, <2>3, <2>4 DEF Has
<1>9. ASSUME NEW i \in 1..(m - 1)
      PROVE  t[i] = r[n - (m - 1) + i]
  <2>1. i + 1 \in 1..m /\ n - (m - 1) + i = n - m + (i + 1)
    BY <1>3
  <2>2. t[i] = p[i + 1] /\ p[i + 1] = r[n - m + (i + 1)]
    BY <1>3, <2>1
  <2> QED
    BY <2>1, <2>2
<1>10. ASSUME NEW c
       PROVE  Has(t, c) <=> c # x /\ Has(p, c)
  <2>1. ASSUME NEW i \in 1..(m - 1), t[i] = c
        PROVE  c # x /\ Has(p, c)
    <3>1. i + 1 \in 1..m /\ n - m + (i + 1) # n - m + 1
      BY <1>3
    <3>2. p[i + 1] = c /\ p[i + 1] = r[n - m + (i + 1)] /\ x = r[n - m + 1]
      BY <1>3, <1>6, <2>1, <3>1
    <3>3. c # x
      BY <1>4, <1>5, <1>6, <3>1, <3>2
    <3> QED
      BY <1>3, <3>1, <3>2, <3>3 DEF Has
  <2>2. ASSUME NEW j \in 1..m, p[j] = c, c # x
        PROVE  Has(t, c)
    <3>1. j # 1
      BY <1>3, <2>2
    <3>2. j - 1 \in 1..(m - 1) /\ (j - 1) + 1 = j
      BY <3>1
    <3>3. t[j - 1] = c
      BY <1>3, <2>2, <3>2
    <3> QED
      BY <1>3, <3>2, <3>3 DEF Has
  <2> QED
    BY <1>3, <2>1, <2>2 DEF Has
<1>11. EndOf(t, r)
  <2>1. Len(t) = m - 1 /\ Len(r) = n /\ DOMAIN t = 1..(m - 1) /\ m - 1 <= n
    BY <1>2, <1>3
  <2> QED
    BY <1>9, <2>1 DEF EndOf
<1> QED
  BY <1>3, <1>7, <1>8, <1>10, <1>11, <1>x, <1>t

\* write_rollout_item: the line is of the first item that has none.
LEMMA ItemWritten ==
    ASSUME Inv, WriteRolloutItem
    PROVE  Inv'
<1> USE RolloutAssumption DEF RolloutAssumption
<1>0. /\ DiskTypes /\ WorkerTypes /\ rec \in RecType /\ IoTypes
      /\ caller \in [Callers -> CallType] /\ CountTypes
      /\ TextInv /\ PlaceInv /\ CallInv /\ ItemInv /\ SureInv
  BY DEF Inv, Types
<1>x. PICK x : x = Head(Unwritten)
  OBVIOUS
<1> DEFINE h == io["rec"].handle
           rest == IF rec.meta THEN rec.pending ELSE Tail(rec.pending)
<1>1. /\ io["rec"].pc = "write" /\ Unwritten # <<>>
      /\ file' = [file EXCEPT ![h] = Append(@, [item |-> x, cut |-> "line"])]
      /\ plain' = plain /\ zst' = zst /\ cold' = (cold /\ h # plain)
      /\ rec' = [rec EXCEPT !.meta = FALSE, !.pending = rest]
      /\ UNCHANGED <<worker, io, caller, opens, faults, received, sure>>
  BY <1>x DEF WriteRolloutItem, AppendTo, At
<1>2. rec.life = "live"
  <2>1. rec.life \in {"none", "opening", "live", "ended"}
    BY <1>0 DEF RecType
  <2> QED
    BY <1>0, <1>1, <2>1 DEF PlaceInv, OpenSteps, Idle
<1>3. h \in DOMAIN file
  <2>1. h # 0 /\ h \in 0..Len(file)
    BY <1>0, <1>1 DEF PlaceInv, IoTypes, Actors
  <2> QED
    BY <1>0, <2>1 DEF DiskTypes
<1>4. /\ rec.meta => x = Meta
      /\ ~rec.meta => rec.pending # <<>> /\ x = Head(rec.pending)
      /\ x \in Items
  BY <1>0, <1>1, <1>x, NextLine
<1>5. rec.pending \in Seq(Callers) /\ received \in Seq(Callers) /\ EndOf(rec.pending, received)
  BY <1>0, <1>2 DEF RecType, CountTypes, ItemInv, EndOf
<1>6. ASSUME ~rec.meta
      PROVE  /\ x \in Callers /\ Buffered(x) /\ Received(x)
             /\ \A i, j \in DOMAIN received : received[i] = x /\ i < j => Buffered(received[j])
             /\ rest \in Seq(Callers) /\ EndOf(rest, received)
             /\ \A c : Has(rest, c) <=> c # x /\ Buffered(c)
  <2>1. rest = Tail(rec.pending) /\ rec.pending # <<>> /\ x = Head(rec.pending)
    BY <1>4, <1>6
  <2> HIDE DEF rest
  <2>2. /\ x \in Callers /\ Has(rec.pending, x) /\ Has(received, x)
        /\ \A i, j \in DOMAIN received : received[i] = x /\ i < j => Has(rec.pending, received[j])
        /\ rest \in Seq(Callers) /\ EndOf(rest, received)
        /\ \A c : Has(rest, c) <=> c # x /\ Has(rec.pending, c)
    BY <1>5, <2>1, BufferHead
  <2> QED
    BY <2>2 DEF Buffered, Received, Has
<1>7. x \notin Written
  BY <1>0, <1>4, <1>6 DEF ItemInv
<1>8. \A i, j \in DOMAIN received : received[i] = x /\ i < j => received[j] \notin Written
  <2> SUFFICES ASSUME NEW i \in DOMAIN received, NEW j \in DOMAIN received, received[i] = x, i < j
               PROVE  received[j] \notin Written
    OBVIOUS
  <2>1. received[i] \in Callers /\ received[j] \in Callers
    BY <1>5
  <2>2. ~rec.meta
    BY <1>4, <2>1
  <2>3. Buffered(received[j])
    BY <1>6, <2>2
  <2> QED
    BY <1>0, <2>1, <2>3 DEF ItemInv
<1>9. /\ file' \in Seq(Text) /\ Len(file') = Len(file) /\ Written' = Written \cup {x}
      /\ \A n \in DOMAIN file' : Ordered(file'[n], received')
  <2> HIDE DEF h
  <2> QED
    BY <1>0, <1>1, <1>3, <1>4, <1>5, <1>7, <1>8, LineWritten DEF DiskTypes, TextInv, EndOf
<1>10. cold' \in BOOLEAN
  BY <1>1
<1>11. DiskTypes'
  BY <1>0, <1>1, <1>9, <1>10 DEF DiskTypes
<1>12. /\ rest \in Seq(Callers) /\ EndOf(rest, received)
       /\ \A c \in Callers : Has(rest, c) <=> c # x /\ Buffered(c)
  <2>1. CASE rec.meta
    <3>1. rest = rec.pending /\ x = Meta
      BY <1>4, <2>1
    <3> QED
      BY <1>5, <3>1 DEF Buffered, Has
  <2>2. CASE ~rec.meta
    BY <1>6, <2>2
  <2> QED
    BY <2>1, <2>2
<1> HIDE DEF rest
<1>13. /\ rec' \in RecType /\ rec'.life = rec.life /\ rec'.cmd = rec.cmd /\ rec'.queue = rec.queue
       /\ rec'.pending = rest /\ rec'.meta = FALSE
  <2>1. rec' \in RecType
    BY <1>0, <1>1, <1>12, RecUpdates, Zenon
  <2>2. rec'.life = rec.life /\ rec'.cmd = rec.cmd /\ rec'.queue = rec.queue /\ rec'.pending = rest
    BY <1>0, <1>1 DEF RecType
  <2>3. rec'.meta = FALSE
    BY <1>0, <1>1 DEF RecType
  <2> QED
    BY <2>1, <2>2, <2>3
<1>14. Types'
  <2>1. IoTypes'
    BY <1>0, <1>1, <1>9 DEF IoTypes
  <2> QED
    BY <1>0, <1>1, <1>11, <1>13, <2>1 DEF Types, WorkerTypes, CountTypes
<1>15. TextInv'
  BY <1>0, <1>1, <1>9, TextKept DEF TextInv
<1>16. PlaceInv'
  BY <1>0, <1>1, <1>2, <1>13 DEF PlaceInv
<1>17. CallInv'
  BY <1>0, <1>1, <1>13, SMTT(30) DEF CallInv, Served, Fits, Waiting
<1>18. ItemInv'
  <2>1. \A d \in Callers : /\ Queued(d)' <=> Queued(d)
                           /\ Received(d)' <=> Received(d)
                           /\ Sent(d)' <=> Sent(d)
    BY <1>1, <1>13 DEF Queued, Received, Sent
  <2>2. \A d \in Callers : Buffered(d)' <=> d # x /\ Buffered(d)
    BY <1>12, <1>13 DEF Buffered, Has
  <2>3. x \in Callers => Received(x) /\ Sent(x)
    BY <1>0, <1>4, <1>6 DEF ItemInv
  <2>4. \A d \in Callers : Queued(d) => ~Received(d) /\ d \notin Written'
    BY <1>0, <1>9, <2>3 DEF ItemInv
  <2>5. \A d \in Callers : d \in Written' => Sent(d)' \/ (caller'[d].op = "patch" /\ caller'[d].pc = "ok")
    BY <1>0, <1>1, <1>9, <2>1, <2>3 DEF ItemInv
  <2>6. \A d \in Callers : Buffered(d)' => d \notin Written'
    BY <1>0, <1>9, <2>2 DEF ItemInv
  <2>7. \A d \in Callers : Received(d)' => Buffered(d)' \/ d \in Written'
    BY <1>0, <1>2, <1>9, <2>1, <2>2 DEF ItemInv
  <2>8. /\ Len(rec'.pending) <= Len(received')
        /\ \A i \in DOMAIN rec'.pending :
              rec'.pending[i] = received'[Len(received') - Len(rec'.pending) + i]
    BY <1>1, <1>12, <1>13 DEF EndOf
  <2>9. \A d \in Callers : Queued(d)' \/ Received(d)' => Sent(d)'
    BY <1>0, <2>1 DEF ItemInv
  <2> QED
    BY <1>0, <1>1, <1>2, <1>13, <2>1, <2>4, <2>5, <2>6, <2>7, <2>8, <2>9 DEF ItemInv
<1>19. SureInv'
  BY <1>0, <1>1, <1>9 DEF SureInv
<1> QED
  BY <1>14, <1>15, <1>16, <1>17, <1>18, <1>19 DEF Inv

\* The command is done: everything that was received is written, the call that
\* waits for the command is told, and after a shutdown so is everyone else.
LEMMA CommandAnswered ==
    ASSUME Inv, WriterAnswers
    PROVE  Inv'
<1> USE RolloutAssumption DEF RolloutAssumption
<1>0. /\ DiskTypes /\ WorkerTypes /\ rec \in RecType /\ IoTypes
      /\ caller \in [Callers -> CallType] /\ CountTypes
      /\ TextInv /\ PlaceInv /\ CallInv /\ ItemInv /\ SureInv /\ cold \in BOOLEAN
  BY DEF Inv, Types, DiskTypes
<1>w. PICK w : w = rec.cmd.who
  OBVIOUS
<1>k. PICK kind : kind = rec.cmd.kind
  OBVIOUS
<1> DEFINE ends == kind = "shutdown"
           l == IF ends THEN "ended" ELSE rec.life
           q == IF ends THEN <<>> ELSE rec.queue
<1>1. /\ io["rec"].pc = "done" \/ (io["rec"].pc = "write" /\ Unwritten = <<>>)
      /\ caller' = [d \in Callers |->
            IF d = w /\ kind # "add" THEN [caller[d] EXCEPT !.pc = AfterOk(d)]
            ELSE IF ends /\ Waiting(d) THEN [caller[d] EXCEPT !.pc = "err"]
            ELSE caller[d]]
      /\ rec' = [rec EXCEPT !.cmd = None, !.try = 1, !.life = l, !.queue = q]
      /\ sure' = (IF kind = "add" THEN sure ELSE sure \cup {received[i] : i \in DOMAIN received})
      /\ io' = (IF ends THEN [io EXCEPT !["rec"] = Idle] ELSE [io EXCEPT !["rec"].pc = "idle"])
      /\ UNCHANGED <<disk, worker, opens, faults, received>>
  BY <1>w, <1>k DEF WriterAnswers, Acknowledge, NoHandle, Goto, At
<1>2. rec.life = "live" /\ rec.cmd # None
  <2>1. rec.life \in {"none", "opening", "live", "ended"}
    BY <1>0 DEF RecType
  <2>2. rec.life = "live"
    BY <1>0, <1>1, <2>1 DEF PlaceInv, OpenSteps, Idle
  <2> QED
    BY <1>0, <1>1, <2>2 DEF PlaceInv
<1>3. rec.pending = <<>>
  <2>1. CASE Unwritten = <<>>
    <3>1. rec.pending \in Seq(Callers)
      BY <1>0 DEF RecType
    <3>2. CASE rec.meta
      <4>1. Unwritten = <<Meta>> \o rec.pending
        BY <3>2 DEF Unwritten
      <4>2. Len(<<Meta>> \o rec.pending) # 0
        BY <3>1
      <4> QED
        BY <2>1, <4>1, <4>2
    <3>3. CASE ~rec.meta
      BY <2>1, <3>1, <3>3 DEF Unwritten
    <3> QED
      BY <3>2, <3>3
  <2>2. CASE io["rec"].pc = "done"
    BY <1>0, <2>2 DEF PlaceInv
  <2> QED
    BY <1>1, <2>1, <2>2
<1>4. \A c \in Callers : Received(c) => c \in Written
  BY <1>0, <1>2, <1>3 DEF ItemInv, Buffered
<1>5. /\ w \in Callers /\ ~Waiting(Nobody) /\ (kind # "add" => ~Waiting(w))
      /\ kind # "add" => caller[w].pc = "wait" /\ kind = Barrier(caller[w].op)
  <2>1. ~Waiting(Nobody)
    BY <1>0 DEF CallInv, Fits, Waiting
  <2> QED
    BY <1>0, <1>2, <1>w, <1>k, <2>1 DEF CallInv, Fits
<1>6. \A d \in Callers : Waiting(d) => caller[d].pc = "wait"
  BY <1>0 DEF CallInv, Fits, Waiting
<1> HIDE DEF ends, l, q
<1>7. /\ rec' \in RecType /\ rec'.cmd = None /\ rec'.life = l /\ rec'.queue = q
      /\ rec'.pending = <<>> /\ rec'.meta = rec.meta
  <2>0. 1 \in 1..2 /\ l \in Lives /\ q \in Seq(Command)
    BY <1>0 DEF l, q, RecType, Lives
  <2>1. rec' \in RecType
    BY <1>0, <1>1, <2>0, NoCommand, RecUpdates, Zenon
  <2>2. rec'.cmd = None /\ rec'.life = l /\ rec'.queue = q /\ rec'.pending = <<>>
    BY <1>0, <1>1, <1>3 DEF RecType
  <2>3. rec'.meta = rec.meta
    BY <1>0, <1>1 DEF RecType
  <2> QED
    BY <2>1, <2>2, <2>3
<1>8. /\ io' \in [Actors -> IoType] /\ io'["rec"].pc = "idle" /\ (ends => io'["rec"] = Idle)
      /\ Copied(io'["rec"].copy) /\ \A b \in Actors \ {"rec"} : io'[b] = io[b]
  <2>1. "rec" \in Actors /\ "idle" \in FileSteps
    BY DEF Actors, FileSteps
  <2>2. CASE ends
    <3>1. Idle = [Idle EXCEPT !.pc = "idle"]
      BY DEF Idle
    <3>2. io' = [io EXCEPT !["rec"] = [Idle EXCEPT !.pc = "idle"]]
      BY <1>1, <2>2, <3>1
    <3>3. /\ io' \in [Actors -> IoType] /\ io'["rec"].pc = "idle" /\ io'["rec"].copy = <<>>
          /\ io'["rec"] = Idle /\ \A b \in Actors \ {"rec"} : io'[b] = io[b]
      BY <1>0, <2>1, <3>2, IoEnds
    <3>4. Copied(io'["rec"].copy)
      BY <1>0, <3>3, Sources
    <3> QED
      BY <3>3, <3>4
  <2>3. CASE ~ends
    <3>1. Goto("rec", "idle")
      BY <1>1, <2>3 DEF Goto
    <3> QED
      BY <1>0, <2>1, <2>3, <3>1, IoMoves DEF TextInv
  <2> QED
    BY <2>2, <2>3
<1>9. /\ caller' \in [Callers -> CallType]
      /\ \A d \in Callers : caller'[d].op = caller[d].op
      /\ kind # "add" => caller'[w].pc = AfterOk(w)
      /\ \A d \in Callers : ~(d = w /\ kind # "add") /\ ends /\ Waiting(d) => caller'[d].pc = "err"
      /\ \A d \in Callers : ~(d = w /\ kind # "add") /\ ~(ends /\ Waiting(d)) => caller'[d] = caller[d]
  <2>1. \A d \in Callers : AfterOk(d) \in {"meta", "remove", "ok"}
    BY DEF AfterOk
  <2>2. \A d \in Callers : caller[d] \in CallType
    BY <1>0
  <2>3. \A d \in Callers, step \in CallSteps :
           /\ [caller[d] EXCEPT !.pc = step] \in CallType
           /\ [caller[d] EXCEPT !.pc = step].pc = step
           /\ [caller[d] EXCEPT !.pc = step].op = caller[d].op
    BY <2>2 DEF CallType
  <2>4. \A d \in Callers : AfterOk(d) \in CallSteps /\ "err" \in CallSteps
    BY <2>1 DEF CallSteps
  <2>5. \A d \in Callers : caller'[d] =
            IF d = w /\ kind # "add" THEN [caller[d] EXCEPT !.pc = AfterOk(d)]
            ELSE IF ends /\ Waiting(d) THEN [caller[d] EXCEPT !.pc = "err"]
            ELSE caller[d]
    BY <1>1
  <2>6. \A d \in Callers : caller'[d] \in CallType /\ caller'[d].op = caller[d].op
    <3> SUFFICES ASSUME NEW d \in Callers PROVE caller'[d] \in CallType /\ caller'[d].op = caller[d].op
      OBVIOUS
    <3>1. CASE d = w /\ kind # "add"
      <4>1. caller'[d] = [caller[d] EXCEPT !.pc = AfterOk(d)]
        BY <2>5, <3>1
      <4> QED
        BY <2>3, <2>4, <4>1
    <3>2. CASE ~(d = w /\ kind # "add") /\ ends /\ Waiting(d)
      <4>1. caller'[d] = [caller[d] EXCEPT !.pc = "err"]
        BY <2>5, <3>2
      <4> QED
        BY <2>3, <2>4, <4>1
    <3>3. CASE ~(d = w /\ kind # "add") /\ ~(ends /\ Waiting(d))
      <4>1. caller'[d] = caller[d]
        BY <2>5, <3>3
      <4> QED
        BY <2>2, <4>1
    <3> QED
      BY <3>1, <3>2, <3>3
  <2>7. caller' \in [Callers -> CallType]
    BY <1>1, <2>6
  <2>8. ASSUME kind # "add" PROVE caller'[w].pc = AfterOk(w)
    <3>1. caller'[w] = [caller[w] EXCEPT !.pc = AfterOk(w)]
      BY <1>5, <2>5, <2>8
    <3> QED
      BY <1>5, <2>3, <2>4, <3>1
  <2>9. ASSUME NEW d \in Callers, ~(d = w /\ kind # "add"), ends, Waiting(d) PROVE caller'[d].pc = "err"
    <3>1. caller'[d] = [caller[d] EXCEPT !.pc = "err"]
      BY <2>5, <2>9
    <3> QED
      BY <2>3, <2>4, <3>1
  <2>10. ASSUME NEW d \in Callers, ~(d = w /\ kind # "add"), ~(ends /\ Waiting(d))
         PROVE  caller'[d] = caller[d]
    BY <2>5, <2>10
  <2> QED
    BY <2>6, <2>7, <2>8, <2>9, <2>10
<1>10. \A d \in Callers : \/ caller'[d] = caller[d]
                          \/ caller[d].pc = "wait" /\ caller'[d].pc \in {"meta", "remove", "ok", "err"}
  <2>1. AfterOk(w) \in {"meta", "remove", "ok"}
    BY DEF AfterOk
  <2> QED
    BY <1>5, <1>6, <1>9, <2>1
<1>11. file' = file /\ plain' = plain /\ zst' = zst /\ cold' = cold
  BY <1>1 DEF disk
<1>12. /\ DiskTypes' /\ Written' = Written
       /\ \A n \in DOMAIN file' : Ordered(file'[n], received')
  BY <1>0, <1>1, <1>11, DiskKept
<1>13. sure' \subseteq Callers /\ sure' \subseteq Written
  <2>1. \A i \in DOMAIN received : received[i] \in Callers /\ received[i] \in Written
    BY <1>0, <1>4 DEF Received, CountTypes
  <2> QED
    BY <1>0, <1>1, <2>1 DEF SureInv, CountTypes
<1>14. Types'
  <2>1. IoTypes'
    BY <1>8, <1>11 DEF IoTypes, IoType
  <2>2. CountTypes'
    BY <1>0, <1>1, <1>13 DEF CountTypes
  <2> QED
    BY <1>0, <1>1, <1>7, <1>9, <1>12, <2>1, <2>2 DEF Types, WorkerTypes
<1>15. TextInv'
  <2>1. \A a \in Actors : Copied(io'[a].copy)
    BY <1>0, <1>8 DEF TextInv
  <2> QED
    BY <1>0, <1>1, <1>12, <2>1, TextKept DEF TextInv
<1>16. PlaceInv'
  <2>1. \A a \in Actors : io'[a].pc = "write" => io'[a].handle # 0
    BY <1>0, <1>8 DEF PlaceInv
  <2>2. \A c \in Callers : io'[c].pc # "idle" => caller'[c].pc = "patch"
    BY <1>0, <1>8, <1>10 DEF PlaceInv, Actors
  <2>3. opens # 0 /\ (ends => l = "ended" /\ q = <<>>) /\ (~ends => l = "live")
    BY <1>0, <1>2 DEF PlaceInv, l, q
  <2> QED
    BY <1>1, <1>7, <1>8, <2>1, <2>2, <2>3 DEF PlaceInv
<1>17. CallInv'
  <2>1. ASSUME NEW d \in Callers, caller'[d].pc = "wait"
        PROVE  rec'.life = "live" /\ Served(d)'
    <3>1. caller'[d] = caller[d] /\ caller[d].pc = "wait"
      BY <1>10, <2>1
    <3>2. ~(d = w /\ kind # "add")
      <4>1. AfterOk(w) # "wait"
        BY DEF AfterOk
      <4> QED
        BY <1>9, <2>1, <4>1
    <3>3. Waiting(d)
      BY <1>0, <1>w, <1>k, <3>1, <3>2 DEF CallInv, Served
    <3>4. ~ends
      BY <1>9, <2>1, <3>2, <3>3
    <3>5. rec'.life = "live" /\ rec'.queue = rec.queue
      BY <1>2, <1>7, <3>4 DEF l, q
    <3> QED
      BY <3>3, <3>5 DEF Served, Waiting
  <2>2. \A d \in Callers : caller[d].pc # "remove"
    BY <1>0, <1>2 DEF CallInv
  <2>3. ASSUME NEW d \in Callers, caller'[d].pc = "remove"
        PROVE  d = w /\ rec'.life = "ended"
    <3>1. d = w /\ kind # "add"
      BY <1>9, <2>2, <2>3
    <3>2. AfterOk(w) = "remove"
      BY <1>9, <2>3, <3>1
    <3>3. caller[w].op = "shutdown"
      BY <3>2 DEF AfterOk
    <3>4. kind = "shutdown"
      BY <1>5, <3>1, <3>3 DEF Barrier
    <3> QED
      BY <1>7, <3>1, <3>4 DEF l, ends
  <2>4. \A d \in Callers : caller'[d].pc = "remove" =>
           rec'.life = "ended" /\ \A e \in Callers \ {d} : caller'[e].pc # "remove"
    BY <2>3
  <2>5. \A d \in Callers : /\ caller'[d].pc = "record" => caller'[d].op = "append"
                           /\ caller'[d].pc \in {"meta", "patch"} => caller'[d].op = "patch"
    <3>1. AfterOk(w) # "patch" /\ (AfterOk(w) = "meta" => caller[w].op = "patch")
      BY DEF AfterOk
    <3> QED
      BY <1>0, <1>9, <1>10, <3>1 DEF CallInv
  <2>6. ASSUME NEW i \in DOMAIN rec'.queue
        PROVE  Fits(rec.queue[i])' /\ rec'.queue = rec.queue
    <3>1. ~ends /\ rec'.queue = rec.queue
      BY <1>7, <2>6 DEF q
    <3>2. Fits(rec.queue[i]) /\ (rec.queue[i].kind # "add" => Waiting(rec.queue[i].who))
      BY <1>0, <2>6, <3>1 DEF CallInv, Waiting
    <3>3. rec.queue[i].kind # "add" => caller'[rec.queue[i].who] = caller[rec.queue[i].who]
      BY <1>5, <1>9, <3>1, <3>2 DEF Fits
    <3> QED
      BY <3>1, <3>2, <3>3 DEF Fits
  <2>7. \A i, j \in DOMAIN rec'.queue :
           /\ rec'.queue[i].who = rec'.queue[j].who
           /\ rec'.queue[i].kind = "add" <=> rec'.queue[j].kind = "add"
           => i = j
    BY <1>0, <2>6 DEF CallInv
  <2>8. ~Waiting(rec.cmd.who)'
    <3>1. rec'.cmd.who = Nobody
      BY <1>7, NoCommand
    <3>2. ASSUME NEW i \in DOMAIN rec'.queue PROVE rec'.queue[i].who # Nobody
      BY <2>6, <3>2 DEF Fits
    <3> QED
      BY <3>1, <3>2 DEF Waiting
  <2> QED
    BY <1>7, <2>1, <2>4, <2>5, <2>6, <2>7, <2>8 DEF CallInv
<1>18. ItemInv'
  <2>1. \A d \in Callers : Sent(d) => Sent(d)'
    BY <1>9, <1>10 DEF Sent
  <2>2. \A d \in Callers : d \in Written => Sent(d)' \/ (caller'[d].op = "patch" /\ caller'[d].pc = "ok")
    BY <1>0, <1>10, <2>1 DEF ItemInv
  <2>3. \A d \in Callers : (Queued(d)' => Queued(d)) /\ (Received(d)' <=> Received(d)) /\ ~Buffered(d)'
    <3>1. \A i \in DOMAIN q : i \in DOMAIN rec.queue /\ q[i] = rec.queue[i]
      BY DEF q
    <3> QED
      BY <1>1, <1>7, <3>1 DEF Queued, Received, Buffered
  <2>4. Len(rec'.pending) = 0 /\ DOMAIN rec'.pending = {}
    BY <1>7
  <2>5. Len(rec'.pending) <= Len(received')
    BY <1>0, <1>1, <2>4 DEF CountTypes
  <2>6. rec'.life # "opening"
    BY <1>2, <1>7 DEF l
  <2> QED
    BY <1>0, <1>1, <1>4, <1>7, <1>12, <2>1, <2>2, <2>3, <2>4, <2>5, <2>6 DEF ItemInv
<1>19. SureInv'
  BY <1>12, <1>13 DEF SureInv
<1> QED
  BY <1>14, <1>15, <1>16, <1>17, <1>18, <1>19 DEF Inv

-----------------------------------------------------------------------------
(* The theorems *)

LEMMA NextInv == Inv /\ [Next]_vars => Inv'
<1> SUFFICES ASSUME Inv, [Next]_vars PROVE Inv'
  OBVIOUS
<1>r. "rec" \in Actors /\ Callers \subseteq Actors
  BY DEF Actors
<1>1. CASE WriterStep
  BY <1>1, <1>r, OpenStep, OperationStep, OpenedStep, WriterOpens, ItemsReceived, BarrierReceived,
     ItemWritten, CommandAnswered DEF WriterStep, FileStep
<1>2. ASSUME NEW c \in Callers, CallerStep(c) PROVE Inv'
  BY <1>2, <1>r, OpenStep, OperationStep, OpenedStep, ItemSent, BarrierSent, CallMoves,
     RecorderRemoved, PatchAppended DEF CallerStep, FileStep
<1>3. ASSUME NEW c \in Callers, NEW op \in Ops, Call(c, op) PROVE Inv'
  BY <1>3, CallBegins
<1>4. ASSUME NEW a \in Actors, OperationFails(a) \/ WriteFails(a) PROVE Inv'
  BY <1>4, OperationStep
<1>5. CASE WorkerStep \/ WorkerDies \/ Age
  BY <1>5, WorkerRuns
<1>6. CASE Create \/ Resume \/ Crash
  BY <1>6, RecorderOpens, ProcessDies
<1>7. CASE UNCHANGED vars
  <2>1. UNCHANGED <<rec, caller, opens, faults, received, sure, worker, io, file, plain, zst, cold>>
    BY <1>7 DEF vars, disk
  <2>2. /\ DiskTypes' /\ WorkerTypes' /\ IoTypes' /\ Written' = Written /\ PlaceInv'
        /\ \A n \in DOMAIN file' : Ordered(file'[n], received')
        /\ Copied(worker'.copy) /\ \A a \in Actors : Copied(io'[a].copy)
    BY <2>1 DEF Inv, Types, DiskTypes, WorkerTypes, IoTypes, Written, PlaceInv, TextInv
  <2> QED
    BY <2>1, <2>2, QuietStep
<1> QED
  BY <1>1, <1>2, <1>3, <1>4, <1>5, <1>6, <1>7 DEF Next

LEMMA Invariance == Spec => []Inv
  BY InitInv, NextInv, PTL DEF Spec

\* The type of the state, whatever the bounds.
THEOREM TypeCorrect == Spec => []TypeOK
<1>1. Inv => TypeOK
  BY DEF Inv, Types, TypeOK, DiskTypes, WorkerTypes, RecType, IoTypes, CallType, CountTypes,
         Text, FileSteps, CallSteps
<1> QED
  BY <1>1, Invariance, PTL

\* What an answer Ok covers was written, no file has a line twice, and the
\* lines of a file are in the order of the channel (recorder.rs 1547).
THEOREM AckedAreWritten == Spec => []AckedWritten
<1>1. Inv => AckedWritten
  <2> SUFFICES ASSUME Inv PROVE AckedWritten
    OBVIOUS
  <2>0. file \in Seq(Text) /\ SureInv /\ \A n \in DOMAIN file : Ordered(file[n], received)
    BY DEF Inv, Types, DiskTypes, TextInv
  <2>1. \A x \in sure : \E n \in DOMAIN file : Lines(file[n], x) # {}
    <3> SUFFICES ASSUME NEW x \in sure PROVE \E n \in DOMAIN file : Lines(file[n], x) # {}
      OBVIOUS
    <3>1. PICK n \in DOMAIN file : x \in LinesOf(file[n])
      BY <2>0 DEF SureInv, Written
    <3> QED
      BY <3>1 DEF LinesOf, Lines
  <2>2. ASSUME NEW n \in DOMAIN file, NEW x \in Items
        PROVE  Cardinality(Lines(file[n], x)) <= 1
    <3>1. \A i, j \in Lines(file[n], x) : i = j
      BY <2>0 DEF Ordered, Lines
    <3>2. CASE Lines(file[n], x) = {}
      BY <3>2, FS_EmptySet
    <3>3. CASE Lines(file[n], x) # {}
      <4>1. PICK i : Lines(file[n], x) = {i}
        BY <3>1, <3>3
      <4> QED
        BY <4>1, FS_Singleton, SMTT(30)
    <3> QED
      BY <3>2, <3>3
  <2>3. ASSUME NEW n \in DOMAIN file, NEW i \in DOMAIN received, NEW j \in DOMAIN received, i < j,
               NEW k \in Lines(file[n], received[i]), NEW m \in Lines(file[n], received[j])
        PROVE  k < m
    BY <2>0, <2>3 DEF Ordered, Lines
  <2> QED
    BY <2>1, <2>2, <2>3 DEF AckedWritten
<1> QED
  BY <1>1, Invariance, PTL

\* Nobody waits for an answer that nobody is going to send (recorder.rs 915).
THEOREM WaitersAnswered == Spec => []WaitersServed
<1>1. Inv => WaitersServed
  BY DEF Inv, CallInv, Served, WaitersServed
<1> QED
  BY <1>1, Invariance, PTL

-----------------------------------------------------------------------------
(* What readers find *)

\* One text is the beginning of another.
Begins(s, t) == Len(s) <= Len(t) /\ \A i \in 1..Len(s) : s[i] = t[i]

\* The steps of an actor that found no plain file, until it has made sure of one.
Restoring == {"zst", "read", "link", "unlink"}

\* The compressed copy is restored and made in turns: the worker runs only over a
\* plain file that is cold, and a restored one is not.
TurnInv ==
    /\ plain = 0 => WorkerAt("idle") /\ ~cold
    /\ \A a \in Actors : io[a].pc \in Restoring => WorkerAt("idle") /\ ~cold
    /\ \A a \in Actors : At(a, "unlink") => plain # 0
\* Nobody writes to a compressed file, and what is restored is what is in it.
NameInv ==
    /\ zst # 0 => plain # zst /\ \A a \in Actors : io[a].handle # zst
    /\ \A a \in Actors : At(a, "link") /\ zst # 0 => io[a].copy = file[zst]
\* The worker compresses what was in the file when it first looked: the file only
\* grows, and had not grown when the worker looked again.
CopyInv ==
    /\ worker.pc \in {"exists", "encode", "compare"} => Begins(worker.before, file[plain])
    /\ WorkerAt("compare") => Begins(worker.before, worker.copy) /\ Begins(worker.copy, file[plain])
    /\ worker.pc \in {"persist", "again", "unlink"} => worker.copy = worker.before
    /\ worker.pc \in {"again", "unlink"} => zst # 0 /\ file[zst] = worker.before
ReadInv == TurnInv /\ NameInv /\ CopyInv

\* What a step is allowed to do to readers.
Shown ==
    \/ Readable(View) \subseteq Readable(View')
    \/ RemovesGrown \/ CreatesOverCompressed \/ RunsTogether

\* What every step of the files starts from.
LEMMA DiskParts ==
    ASSUME Inv
    PROVE  /\ file \in Seq(Text) /\ Len(file) \in Nat /\ DOMAIN file = 1..Len(file)
           /\ plain \in 0..Len(file) /\ zst \in 0..Len(file) /\ cold \in BOOLEAN
           /\ io \in [Actors -> IoType] /\ IoTypes /\ "rec" \in Actors /\ Callers \subseteq Actors
           /\ \A a \in Actors : io[a] \in IoType /\ io[a].handle \in 0..Len(file)
           /\ worker.before \in Text /\ worker.copy \in Text
           /\ worker \in [pc : {"idle", "exists", "encode", "compare", "persist", "again", "unlink"},
                          before : Text, copy : Text, runs : 0..MaxRuns]
  <1>1. DiskTypes /\ WorkerTypes /\ IoTypes
    BY DEF Inv, Types
  <1>2. file \in Seq(Text) /\ plain \in 0..Len(file) /\ zst \in 0..Len(file) /\ cold \in BOOLEAN
    BY <1>1 DEF DiskTypes
  <1>3. Len(file) \in Nat /\ DOMAIN file = 1..Len(file)
    BY <1>2
  <1>4. io \in [Actors -> IoType]
    BY <1>1 DEF IoTypes, IoType
  <1>5. \A a \in Actors : io[a] \in IoType /\ io[a].handle \in 0..Len(file)
    BY <1>4 DEF IoType
  <1>6. worker \in [pc : {"idle", "exists", "encode", "compare", "persist", "again", "unlink"},
                    before : Text, copy : Text, runs : 0..MaxRuns]
    BY <1>1 DEF WorkerTypes
  <1>7. worker.before \in Text /\ worker.copy \in Text
    BY <1>6
  <1> QED
    BY <1>1, <1>2, <1>3, <1>4, <1>5, <1>6, <1>7 DEF Actors

\* The files a reader finds are left alone.
LEMMA SameView == ASSUME UNCHANGED disk PROVE Shown
  BY DEF disk, Shown, View

\* A step on the way to the file, which leaves the files alone.
LEMMA IoOnly ==
    ASSUME ReadInv, UNCHANGED <<disk, worker>>,
           \A b \in Actors :
              \/ io'[b] = io[b]
              \/ /\ io'[b].pc \in Restoring => WorkerAt("idle") /\ ~cold
                 /\ io'[b].pc = "unlink" => plain # 0
                 /\ io'[b].pc = "link" /\ zst # 0 => io'[b].copy = file[zst]
                 /\ io'[b].handle \in {0, plain, io[b].handle}
    PROVE  ReadInv' /\ Shown
  <1>1. TurnInv'
    BY DEF ReadInv, TurnInv, disk, WorkerAt, At
  <1>2. NameInv'
    BY DEF ReadInv, NameInv, disk, At
  <1>3. CopyInv'
    BY DEF ReadInv, CopyInv, disk, WorkerAt
  <1> QED
    BY <1>1, <1>2, <1>3, SameView DEF ReadInv

\* An operation that failed starts again, or is over.
LEMMA FailsIo ==
    ASSUME Inv, NEW a \in Actors, Fails(a)
    PROVE  /\ io'[a].pc \in {"idle", "plain"} /\ io'[a].handle = 0
           /\ \A b \in Actors \ {a} : io'[b] = io[b]
  <1>1. io \in [Actors -> IoType]
    BY DiskParts
  <1>2. PICK p \in {"idle", "plain"} : io' = [io EXCEPT ![a] = [Idle EXCEPT !.pc = p]]
    <2>1. NoHandle(a) => io' = [io EXCEPT ![a] = [Idle EXCEPT !.pc = "idle"]]
      BY DEF NoHandle, Idle
    <2> QED
      BY <2>1 DEF Fails, AttemptFailed
  <1> QED
    BY <1>1, <1>2 DEF Idle

\* A failed operation hides nothing.
LEMMA FailsRead ==
    ASSUME Inv, ReadInv, NEW a \in Actors, Fails(a), UNCHANGED <<disk, worker>>
    PROVE  ReadInv' /\ Shown
  <1>1. \A b \in Actors : io'[b] = io[b] \/ (io'[b].pc \in {"idle", "plain"} /\ io'[b].handle = 0)
    BY FailsIo
  <1> QED
    BY <1>1, IoOnly DEF Restoring

\* An actor goes on at a step where it restores nothing.
LEMMA GotoRead ==
    ASSUME Inv, ReadInv, NEW a \in Actors, NEW p \in FileSteps, p \notin Restoring, Goto(a, p),
           UNCHANGED <<disk, worker>>
    PROVE  ReadInv' /\ Shown
  <1>1. io'[a].pc = p /\ io'[a].handle = io[a].handle /\ \A b \in Actors \ {a} : io'[b] = io[b]
    BY DiskParts, IoMoves
  <1> QED
    BY <1>1, IoOnly DEF Restoring

-----------------------------------------------------------------------------
\* The steps to a plain file that leave the files alone.
LEMMA RestoreRead ==
    ASSUME Inv, ReadInv, NEW a \in Actors,
           PlainExists(a) \/ CompressedExists(a) \/ Decompress(a) \/ CompressedGone(a) \/ OpenExisting(a)
    PROVE  ReadInv' /\ Shown
  <1>1. UNCHANGED <<disk, worker>>
    BY DEF PlainExists, CompressedExists, Decompress, CompressedGone, OpenExisting
  <1>2. CASE PlainExists(a)
    <2>1. CASE plain # 0
      <3>1. Goto(a, "open")
        BY <1>2, <2>1 DEF PlainExists
      <3> QED
        BY <1>1, <3>1, GotoRead DEF FileSteps, Restoring
    <2>2. CASE plain = 0
      <3>1. Goto(a, "zst") /\ WorkerAt("idle") /\ ~cold
        BY <1>2, <2>2 DEF PlainExists, ReadInv, TurnInv
      <3>2. io'[a].pc = "zst" /\ io'[a].handle = io[a].handle /\ \A b \in Actors \ {a} : io'[b] = io[b]
        BY <3>1, DiskParts, IoMoves DEF FileSteps
      <3> QED
        BY <1>1, <3>1, <3>2, IoOnly
    <2> QED
      BY <2>1, <2>2
  <1>3. CASE CompressedExists(a)
    <2>1. CASE zst # 0
      <3>1. Goto(a, "read") /\ At(a, "zst")
        BY <1>3, <2>1 DEF CompressedExists
      <3>2. WorkerAt("idle") /\ ~cold
        BY <3>1 DEF ReadInv, TurnInv, At, Restoring
      <3>3. io'[a].pc = "read" /\ io'[a].handle = io[a].handle /\ \A b \in Actors \ {a} : io'[b] = io[b]
        BY <3>1, DiskParts, IoMoves DEF FileSteps
      <3> QED
        BY <1>1, <3>2, <3>3, IoOnly
    <2>2. CASE zst = 0
      <3>1. Goto(a, "open")
        BY <1>3, <2>2 DEF CompressedExists
      <3> QED
        BY <1>1, <3>1, GotoRead DEF FileSteps, Restoring
    <2> QED
      BY <2>1, <2>2
  <1>4. CASE Decompress(a)
    <2>1. io' = [io EXCEPT ![a] = [io[a] EXCEPT !.pc = "link", !.copy = file[zst]]]
      BY <1>4, DiskParts DEF Decompress
    <2>2. io[a] \in IoType /\ io \in [Actors -> IoType]
      BY DiskParts
    <2>3. /\ io'[a].pc = "link" /\ io'[a].copy = file[zst] /\ io'[a].handle = io[a].handle
          /\ \A b \in Actors \ {a} : io'[b] = io[b]
      BY <2>1, <2>2 DEF IoType
    <2>4. WorkerAt("idle") /\ ~cold
      BY <1>4 DEF Decompress, ReadInv, TurnInv, At, Restoring
    <2> QED
      BY <1>1, <2>3, <2>4, IoOnly
  <1>5. CASE CompressedGone(a)
    BY <1>1, <1>5, FailsRead DEF CompressedGone
  <1>6. CASE OpenExisting(a)
    <2>1. CASE Fails(a)
      BY <1>1, <2>1, FailsRead
    <2>2. CASE ~Fails(a)
      <3>1. PICK p \in {"idle", "write"} : io' = [io EXCEPT ![a] = [pc |-> p, copy |-> <<>>, handle |-> plain]]
        BY <1>6, <2>2 DEF OpenExisting
      <3>2. io'[a].pc = p /\ io'[a].handle = plain /\ \A b \in Actors \ {a} : io'[b] = io[b]
        BY <3>1, DiskParts
      <3> QED
        BY <1>1, <3>2, IoOnly DEF Restoring
    <2> QED
      BY <2>1, <2>2
  <1> QED
    BY <1>2, <1>3, <1>4, <1>5, <1>6

\* The steps of the recorder and of the calls that touch no file.
LEMMA QuietRead ==
    ASSUME Inv, ReadInv, UNCHANGED <<disk, worker, io>> PROVE ReadInv' /\ Shown
  BY IoOnly

\* The steps of the recorder and of the calls that start or end a file operation.
LEMMA TalkRead ==
    ASSUME Inv, ReadInv,
           \/ Resume \/ ReceiveItems \/ ReceiveBarrier \/ WriterAnswers \/ Crash
           \/ \E c \in Callers : ReadSessionMeta(c)
    PROVE  ReadInv' /\ Shown
  <1>1. UNCHANGED <<disk, worker>> /\ "rec" \in Actors
    BY DiskParts DEF Resume, ReceiveItems, ReceiveBarrier, WriterAnswers, Crash, ReadSessionMeta
  <1>2. ASSUME NEW a \in Actors, NEW p \in {"plain", "write", "done", "idle"}, Goto(a, p) PROVE ReadInv' /\ Shown
    BY <1>1, <1>2, GotoRead DEF FileSteps, Restoring
  <1>3. CASE io' = io
    BY <1>1, <1>3, QuietRead
  <1>4. CASE Resume
    BY <1>1, <1>2, <1>4 DEF Resume
  <1>5. CASE ReceiveItems
    <2>1. io' = io \/ Attempt
      BY <1>5 DEF ReceiveItems
    <2> QED
      BY <1>1, <1>2, <1>3, <2>1 DEF Attempt
  <1>6. CASE ReceiveBarrier
    <2>1. Goto("rec", "done") \/ Attempt
      BY <1>6 DEF ReceiveBarrier
    <2> QED
      BY <1>1, <1>2, <2>1 DEF Attempt
  <1>7. CASE WriterAnswers
    <2>1. NoHandle("rec") \/ Goto("rec", "idle")
      BY <1>7 DEF WriterAnswers
    <2>2. CASE NoHandle("rec")
      <3>1. io'["rec"].pc = "idle" /\ io'["rec"].handle = 0 /\ \A b \in Actors \ {"rec"} : io'[b] = io[b]
        BY <1>1, <2>2, DiskParts DEF NoHandle, Idle
      <3> QED
        BY <1>1, <3>1, IoOnly DEF Restoring
    <2> QED
      BY <1>1, <1>2, <2>1, <2>2
  <1>8. CASE Crash
    <2>1. \A b \in Actors : io'[b].pc = "idle" /\ io'[b].handle = 0
      BY <1>8 DEF Crash, Idle
    <2> QED
      BY <1>1, <2>1, IoOnly DEF Restoring
  <1>9. ASSUME NEW c \in Callers, ReadSessionMeta(c) PROVE ReadInv' /\ Shown
    <2>1. c \in Actors
      BY DiskParts
    <2> QED
      BY <1>2, <1>3, <1>9, <2>1 DEF ReadSessionMeta
  <1> QED
    BY <1>4, <1>5, <1>6, <1>7, <1>8, <1>9

-----------------------------------------------------------------------------
(* What readers find: writes, and files that get or lose a name *)

\* A file of one text that grows at its end.
LEMMA BeginsGrow ==
    ASSUME NEW s \in Text, NEW t \in Text, NEW e \in Piece, Begins(s, t)
    PROVE  Begins(s, Append(t, e))
  <1>1. Len(s) \in Nat /\ Len(t) \in Nat /\ Len(Append(t, e)) = Len(t) + 1
        /\ \A i \in 1..Len(t) : Append(t, e)[i] = t[i]
    BY DEF Text
  <1> QED
    BY <1>1 DEF Begins

\* A text begins with itself.
LEMMA BeginsSelf == ASSUME NEW s \in Text PROVE Begins(s, s)
  BY DEF Begins, Text

\* A text between a beginning and itself.
LEMMA BeginsBetween ==
    ASSUME NEW s \in Text, NEW t \in Text, Begins(s, t), Begins(t, s) PROVE s = t
  <1>1. Len(s) \in Nat /\ Len(t) \in Nat /\ s \in Seq(Piece) /\ t \in Seq(Piece)
    BY DEF Text
  <1>2. Len(s) = Len(t) /\ \A i \in 1..Len(s) : s[i] = t[i]
    BY <1>1 DEF Begins
  <1> QED
    BY <1>1, <1>2, SeqEqual

\* Which files are there, after one is created and after one grows.
LEMMA OneMoreFile ==
    ASSUME Inv, NEW x \in Text, file' = Append(file, x)
    PROVE  Len(file') = Len(file) + 1 /\ file'[Len(file) + 1] = x /\ \A n \in 1..Len(file) : file'[n] = file[n]
  BY DiskParts, Extended

\* Where nothing could be read, nothing is lost.
LEMMA NothingReadable == ASSUME View = <<>> PROVE Shown
  <1>1. Readable(View) = {}
    BY DEF Readable
  <1> QED
    BY <1>1 DEF Shown

\* A finished line is read whatever is written behind it.
LEMMA LinesStay ==
    ASSUME NEW f \in Text, NEW e \in Piece PROVE OnLines(f) \subseteq Readable(Append(f, e))
  <1> DEFINE g == Append(f, e)
  <1>1. /\ Len(f) \in Nat /\ DOMAIN f = 1..Len(f) /\ DOMAIN g = 1..(Len(f) + 1)
        /\ \A i \in 1..Len(f) : g[i] = f[i]
    BY DEF Text
  <1> HIDE DEF g
  <1>2. ASSUME NEW i \in DOMAIN f, f[i].cut = "line", i = 1 \/ f[i-1].cut = "line"
        PROVE  f[i].item \in Readable(g)
    <2>1. i \in DOMAIN g /\ g[i] = f[i] /\ (i = 1 \/ g[i-1].cut = "line")
      BY <1>1, <1>2
    <2> QED
      BY <1>2, <2>1 DEF Readable
  <1> QED
    BY <1>2 DEF OnLines, g

-----------------------------------------------------------------------------
\* A write that does not reach the plain file is seen by no reader: it goes to a
\* file that lost its name, never to a compressed one.
LEMMA AppendRead ==
    ASSUME Inv, ReadInv, NEW a \in Actors, At(a, "write"), NEW x \in Items, NEW cut \in {"line", "json", "part"},
           AppendTo(io[a].handle, x, cut), UNCHANGED worker,
           \A b \in Actors : io'[b] = io[b] \/ (io'[b].pc \notin Restoring /\ io'[b].handle \in {0, io[b].handle})
    PROVE  ReadInv' /\ Shown
  <1> DEFINE h == io[a].handle
             e == [item |-> x, cut |-> cut]
  <1>1. h \in 1..Len(file) /\ e \in Piece
    <2>1. h # 0
      BY DEF Inv, PlaceInv, At
    <2> QED
      BY <2>1, DiskParts DEF Piece
  <1>2. /\ plain' = plain /\ zst' = zst /\ cold' = (cold /\ h # plain)
        /\ file' = [file EXCEPT ![h] = Append(file[h], e)]
    BY DEF AppendTo
  <1>3. zst # 0 => plain # zst /\ \A b \in Actors : io[b].handle # zst
    BY DEF ReadInv, NameInv
  <1>4. zst # 0 => h # zst
    BY <1>3
  <1> HIDE DEF h, e
  <1>5. /\ file'[h] = Append(file[h], e) /\ file[h] \in Text
        /\ \A n \in 1..Len(file) : n # h => file'[n] = file[n]
    BY <1>1, <1>2, DiskParts
  <1>6. zst # 0 => file'[zst] = file[zst]
    BY <1>4, <1>5, DiskParts
  <1>7. TurnInv'
    BY <1>2 DEF ReadInv, TurnInv, At, WorkerAt, Restoring
  <1>8. NameInv'
    <2>1. zst' # 0 => plain' # zst' /\ \A b \in Actors : io'[b].handle # zst'
      BY <1>2, <1>3
    <2>2. \A b \in Actors : io'[b].pc = "link" /\ zst' # 0 => io'[b].copy = file'[zst']
      BY <1>2, <1>6 DEF ReadInv, NameInv, At, Restoring
    <2> QED
      BY <2>1, <2>2 DEF NameInv, At
  <1>9. plain # 0 => /\ file[plain] \in Text
                     /\ file'[plain] = file[plain] \/ file'[plain] = Append(file[plain], e)
    BY <1>5, DiskParts
  <1>10. \A s \in Text : plain # 0 /\ Begins(s, file[plain]) => Begins(s, file'[plain])
    BY <1>1, <1>9, BeginsGrow
  <1>11. CopyInv'
    <2>1. worker.before \in Text /\ worker.copy \in Text
      BY DiskParts
    <2>2. worker.pc # "idle" => plain # 0
      BY DEF ReadInv, TurnInv, WorkerAt
    <2>3. worker.pc \in {"exists", "encode", "compare"} => Begins(worker.before, file'[plain])
      BY <1>10, <2>1, <2>2 DEF ReadInv, CopyInv
    <2>4. worker.pc = "compare" => Begins(worker.before, worker.copy) /\ Begins(worker.copy, file'[plain])
      BY <1>10, <2>1, <2>2 DEF ReadInv, CopyInv, WorkerAt
    <2>5. worker.pc \in {"persist", "again", "unlink"} => worker.copy = worker.before
      BY DEF ReadInv, CopyInv
    <2>6. worker.pc \in {"again", "unlink"} => zst # 0 /\ file'[zst] = worker.before
      BY <1>6 DEF ReadInv, CopyInv
    <2> QED
      BY <1>2, <2>3, <2>4, <2>5, <2>6 DEF CopyInv, WorkerAt
  <1>12. Shown
    <2>1. CASE h = plain
      <3>1. plain # 0 /\ file[plain] \in Text /\ file'[plain] = Append(file[plain], e)
        BY <1>1, <1>5, <2>1
      <3>2. Len(file'[plain]) = Len(file[plain]) + 1
        BY <1>1, <3>1 DEF Text
      <3>3. OnLines(file[plain]) \subseteq Readable(file'[plain])
        BY <1>1, <3>1, LinesStay
      <3> QED
        BY <1>2, <3>1, <3>2, <3>3 DEF Shown, RunsTogether
    <2>2. CASE h # plain
      <3>1. View' = View
        BY <1>2, <1>5, <1>6, <2>2, DiskParts DEF View
      <3> QED
        BY <3>1 DEF Shown
    <2> QED
      BY <2>1, <2>2
  <1> QED
    BY <1>7, <1>8, <1>11, <1>12 DEF ReadInv

\* The writes, whole and partial.
LEMMA WritesRead ==
    ASSUME Inv, ReadInv,
           \/ WriteRolloutItem
           \/ \E c \in Callers : AppendPatch(c)
           \/ \E a \in Actors : WriteFails(a)
    PROVE  ReadInv' /\ Shown
  <1>0. rec \in RecType
    BY DEF Inv, Types
  <1>1. CASE WriteRolloutItem
    <2>1. "rec" \in Actors /\ Head(Unwritten) \in Items
      BY <1>0, <1>1, DiskParts, NextLine DEF WriteRolloutItem
    <2> QED
      BY <1>1, <2>1, AppendRead DEF WriteRolloutItem
  <1>2. ASSUME NEW c \in Callers, AppendPatch(c) PROVE ReadInv' /\ Shown
    <2>1. c \in Actors /\ c \in Items
      BY DiskParts DEF Items
    <2>2. \A b \in Actors : io'[b] = io[b] \/ (io'[b].pc \notin Restoring /\ io'[b].handle \in {0, io[b].handle})
      BY <1>2, <2>1, DiskParts DEF AppendPatch, NoHandle, Idle, Restoring
    <2> QED
      BY <1>2, <2>1, <2>2, AppendRead DEF AppendPatch
  <1>3. ASSUME NEW a \in Actors, WriteFails(a) PROVE ReadInv' /\ Shown
    <2>1. At(a, "write") /\ Fails(a) /\ UNCHANGED worker
      BY <1>3 DEF WriteFails
    <2>2. CASE UNCHANGED disk
      BY <2>1, <2>2, FailsRead
    <2>3. CASE ~UNCHANGED disk
      <3> DEFINE x == IF a = "rec" THEN Head(Unwritten) ELSE a
      <3>1. PICK cut \in {"json", "part"} : AppendTo(io[a].handle, x, cut)
        BY <1>3, <2>3 DEF WriteFails
      <3>2. x \in Items
        BY <1>0, <1>3, NextLine DEF WriteFails, Items, Actors
      <3>3. \A b \in Actors : io'[b] = io[b] \/ (io'[b].pc \notin Restoring /\ io'[b].handle \in {0, io[b].handle})
        BY <2>1, FailsIo DEF Restoring
      <3> HIDE DEF x
      <3> QED
        BY <2>1, <3>1, <3>2, <3>3, AppendRead
    <2> QED
      BY <2>2, <2>3
  <1> QED
    BY <1>1, <1>2, <1>3

-----------------------------------------------------------------------------
\* A file gets the plain name, where there was none.
LEMMA CreateRead ==
    ASSUME Inv, ReadInv, plain = 0, NEW x \in Text, CreatePlain(x), UNCHANGED <<zst, worker>>,
           \A b \in Actors :
              \/ io'[b] = io[b]
              \/ /\ io'[b].pc \in Restoring => io[b].pc \in Restoring
                 /\ io'[b].pc # "link" /\ io'[b].handle \in {plain', io[b].handle}
    PROVE  ReadInv' /\ View' = x
  <1>1. file' = Append(file, x) /\ plain' = Len(file) + 1 /\ cold' = FALSE
    BY DEF CreatePlain
  <1>2. Len(file) \in Nat /\ zst \in 0..Len(file) /\ \A b \in Actors : io[b].handle \in 0..Len(file)
    BY DiskParts
  <1>3. file'[plain'] = x /\ (zst # 0 => file'[zst] = file[zst])
    BY <1>1, <1>2, OneMoreFile
  <1>4. WorkerAt("idle")
    BY DEF ReadInv, TurnInv
  <1>5. TurnInv'
    BY <1>1, <1>2, <1>4 DEF ReadInv, TurnInv, WorkerAt, At
  <1>6. NameInv'
    BY <1>1, <1>2, <1>3 DEF ReadInv, NameInv, At
  <1>7. CopyInv'
    BY <1>4 DEF CopyInv, WorkerAt
  <1>8. View' = x
    BY <1>1, <1>2, <1>3 DEF View
  <1> QED
    BY <1>5, <1>6, <1>7, <1>8 DEF ReadInv

\* hard_link gives the copy the plain name: readers find in it what was compressed.
LEMMA LinkRead ==
    ASSUME Inv, ReadInv, NEW a \in Actors, Link(a) PROVE ReadInv' /\ Shown
  <1>1. At(a, "link") /\ UNCHANGED <<zst, worker>>
    BY DEF Link
  <1>2. WorkerAt("idle") /\ ~cold
    BY <1>1 DEF ReadInv, TurnInv, At, Restoring
  <1>3. /\ io'[a].pc = "unlink" /\ io'[a].handle = io[a].handle
        /\ \A b \in Actors \ {a} : io'[b] = io[b]
    <2>1. io' = [io EXCEPT ![a] = [io[a] EXCEPT !.pc = "unlink", !.copy = <<>>]]
      BY DiskParts DEF Link
    <2>2. io[a] \in IoType /\ io \in [Actors -> IoType]
      BY DiskParts
    <2> QED
      BY <2>1, <2>2 DEF IoType
  <1>4. CASE plain # 0
    <2>1. UNCHANGED disk
      BY <1>1, <1>4 DEF Link, disk, CreatePlain
    <2> QED
      BY <1>1, <1>2, <1>3, <1>4, <2>1, IoOnly
  <1>5. CASE plain = 0
    <2>1. CreatePlain(io[a].copy)
      BY <1>5 DEF Link
    <2>2. io[a].copy \in Text /\ io[a].pc \in Restoring
      BY <1>1, DiskParts DEF IoType, At, Restoring
    <2>3. \A b \in Actors :
              \/ io'[b] = io[b]
              \/ /\ io'[b].pc \in Restoring => io[b].pc \in Restoring
                 /\ io'[b].pc # "link" /\ io'[b].handle \in {plain', io[b].handle}
      BY <1>3, <2>2
    <2>4. ReadInv' /\ View' = io[a].copy
      BY <1>1, <1>5, <2>1, <2>2, <2>3, CreateRead
    <2>5. CASE zst # 0
      <3>1. View = io[a].copy
        BY <1>1, <1>5, <2>5 DEF View, ReadInv, NameInv
      <3> QED
        BY <2>4, <3>1 DEF Shown
    <2>6. CASE zst = 0
      <3>1. View = <<>>
        BY <1>5, <2>6 DEF View
      <3> QED
        BY <2>4, <3>1, NothingReadable
    <2> QED
      BY <2>5, <2>6
  <1> QED
    BY <1>4, <1>5

\* ensure_writer_open, on a file or on none.
LEMMA EnsureOpenRead ==
    ASSUME Inv, ReadInv, EnsureWriterOpen PROVE ReadInv' /\ Shown
  <1>1. At("rec", "open") /\ rec.life = "live" /\ UNCHANGED worker /\ "rec" \in Actors
    BY DiskParts DEF EnsureWriterOpen
  <1>2. /\ io'["rec"].pc = "write" /\ io'["rec"].handle = plain'
        /\ \A b \in Actors \ {"rec"} : io'[b] = io[b]
    BY <1>1, DiskParts DEF EnsureWriterOpen
  <1>3. CASE plain # 0
    <2>1. UNCHANGED disk
      BY <1>3 DEF EnsureWriterOpen
    <2> QED
      BY <1>1, <1>2, <2>1, IoOnly DEF Restoring, disk
  <1>4. CASE plain = 0
    <2>1. CreatePlain(<<>>) /\ UNCHANGED zst /\ <<>> \in Text
      BY <1>4 DEF EnsureWriterOpen, Text
    <2>2. ReadInv' /\ View' = <<>>
      BY <1>1, <1>2, <1>4, <2>1, CreateRead DEF Restoring
    <2>3. CASE zst # 0
      <3>1. plain' # 0
        BY <2>1, DiskParts DEF CreatePlain
      <3> QED
        BY <1>1, <1>4, <2>2, <2>3, <3>1 DEF Shown, CreatesOverCompressed
    <2>4. CASE zst = 0
      <3>1. View = <<>>
        BY <1>4, <2>4 DEF View
      <3> QED
        BY <2>2, <3>1, NothingReadable
    <2> QED
      BY <2>3, <2>4
  <1> QED
    BY <1>3, <1>4

\* The compressed file goes, where a plain one is.
LEMMA RemoveCompressedRead ==
    ASSUME Inv, ReadInv, NEW a \in Actors, RemoveCompressed(a) PROVE ReadInv' /\ Shown
  <1>1. /\ At(a, "unlink") /\ zst' = 0 /\ UNCHANGED <<file, plain, cold, worker>>
        /\ io'[a].pc = "open" /\ \A b \in Actors \ {a} : io'[b] = io[b]
    <2>1. Goto(a, "open")
      BY DEF RemoveCompressed
    <2>2. io'[a].pc = "open" /\ \A b \in Actors \ {a} : io'[b] = io[b]
      BY <2>1, DiskParts, IoMoves DEF FileSteps
    <2> QED
      BY <2>2 DEF RemoveCompressed
  <1>2. plain # 0 /\ WorkerAt("idle")
    BY <1>1 DEF ReadInv, TurnInv, At, Restoring
  <1>3. TurnInv'
    BY <1>1 DEF ReadInv, TurnInv, At, WorkerAt, Restoring
  <1>4. NameInv' /\ CopyInv'
    BY <1>1, <1>2 DEF NameInv, CopyInv, WorkerAt
  <1>5. View' = View
    BY <1>1, <1>2 DEF View
  <1> QED
    BY <1>3, <1>4, <1>5 DEF ReadInv, Shown

-----------------------------------------------------------------------------
(* What readers find: the compression worker, and the theorem *)

\* What a step of the worker makes of its record.
LEMMA WorkerMoves ==
    ASSUME Inv, NEW p, WorkerGoto(p)
    PROVE  worker'.pc = p /\ worker'.before = worker.before /\ worker'.copy = worker.copy
  BY DiskParts DEF WorkerGoto

\* The worker is over.
LEMMA WorkerStops == ASSUME Inv, WorkerEnds PROVE worker'.pc = "idle"
  BY DiskParts DEF WorkerEnds

\* The worker goes on, or is over, with the files as they are.
LEMMA WorkerOnly ==
    ASSUME ReadInv, UNCHANGED <<disk, io>>, CopyInv', worker'.pc # "idle" => worker.pc # "idle"
    PROVE  ReadInv' /\ Shown
  <1>1. TurnInv'
    BY DEF ReadInv, TurnInv, disk, WorkerAt, At
  <1>2. NameInv'
    BY DEF ReadInv, NameInv, disk, At
  <1> QED
    BY <1>1, <1>2, SameView DEF ReadInv

\* The steps of the worker that only look.
LEMMA WorkerLooksRead ==
    ASSUME Inv, ReadInv, FindCold \/ SkipCompressed \/ Encode \/ Compare \/ WorkerDies
    PROVE  ReadInv' /\ Shown
  <1>1. UNCHANGED <<disk, io>> /\ file' = file /\ plain' = plain /\ zst' = zst
    BY DEF FindCold, SkipCompressed, Encode, Compare, WorkerDies, disk
  <1>2. /\ worker.before \in Text /\ worker.copy \in Text
        /\ plain # 0 => file[plain] \in Text
    BY DiskParts
  <1>3. CASE WorkerEnds
    <2>1. worker'.pc = "idle"
      BY <1>3, WorkerStops
    <2>2. CopyInv'
      BY <2>1 DEF CopyInv, WorkerAt
    <2> QED
      BY <1>1, <2>1, <2>2, WorkerOnly
  <1>4. CASE FindCold
    <2>1. worker'.pc = "exists" /\ worker'.before = file[plain] /\ plain # 0 /\ cold
      BY <1>4, DiskParts DEF FindCold
    <2>2. TurnInv'
      BY <1>1, <2>1 DEF ReadInv, TurnInv, disk, WorkerAt, At
    <2>3. NameInv'
      BY <1>1 DEF ReadInv, NameInv, disk, At
    <2>4. CopyInv'
      BY <1>1, <1>2, <2>1, BeginsSelf DEF CopyInv, WorkerAt
    <2> QED
      BY <1>1, <2>2, <2>3, <2>4, SameView DEF ReadInv
  <1>5. CASE SkipCompressed /\ ~WorkerEnds
    <2>1. WorkerGoto("encode") /\ worker.pc = "exists"
      BY <1>5 DEF SkipCompressed, WorkerAt
    <2>2. CopyInv'
      BY <1>1, <2>1, WorkerMoves DEF ReadInv, CopyInv, WorkerAt
    <2> QED
      BY <1>1, <2>1, <2>2, WorkerOnly
  <1>6. CASE Encode /\ ~WorkerEnds
    <2>1. plain # 0 /\ worker.pc = "encode" /\ worker' = [worker EXCEPT !.pc = "compare", !.copy = file[plain]]
      BY <1>6 DEF Encode, WorkerAt
    <2>2. worker'.pc = "compare" /\ worker'.copy = file[plain] /\ worker'.before = worker.before
      BY <2>1, DiskParts
    <2>3. Begins(worker.before, file[plain]) /\ Begins(file[plain], file[plain])
      BY <1>2, <2>1, BeginsSelf DEF ReadInv, CopyInv
    <2>4. CopyInv'
      BY <1>1, <2>2, <2>3 DEF CopyInv, WorkerAt
    <2> QED
      BY <1>1, <2>1, <2>4, WorkerOnly
  <1>7. CASE Compare /\ ~WorkerEnds
    <2>1. WorkerGoto("persist") /\ worker.pc = "compare" /\ plain # 0 /\ file[plain] = worker.before
      BY <1>7 DEF Compare, WorkerAt, SameFileState
    <2>2. worker.copy = worker.before
      BY <1>2, <2>1, BeginsBetween DEF ReadInv, CopyInv, WorkerAt
    <2>3. CopyInv'
      BY <2>1, <2>2, WorkerMoves DEF CopyInv, WorkerAt
    <2> QED
      BY <1>1, <2>1, <2>3, WorkerOnly
  <1>8. CASE WorkerDies
    BY <1>3, <1>8 DEF WorkerDies
  <1> QED
    BY <1>3, <1>4, <1>5, <1>6, <1>7, <1>8

\* persist_noclobber, beside the plain file.
LEMMA PersistRead ==
    ASSUME Inv, ReadInv, PersistCopy PROVE ReadInv' /\ Shown
  <1>1. worker.pc = "persist" /\ UNCHANGED <<plain, cold, io>>
    BY DEF PersistCopy, WorkerAt
  <1>2. plain # 0 /\ \A a \in Actors : io[a].pc \notin Restoring
    BY <1>1 DEF ReadInv, TurnInv, WorkerAt
  <1>3. worker.copy = worker.before /\ worker.copy \in Text
    BY <1>1, DiskParts DEF ReadInv, CopyInv
  <1>4. CASE zst # 0
    <2>1. WorkerEnds /\ UNCHANGED disk
      BY <1>1, <1>4 DEF PersistCopy, disk
    <2>2. worker'.pc = "idle"
      BY <2>1, WorkerStops
    <2>3. CopyInv'
      BY <2>2 DEF CopyInv, WorkerAt
    <2> QED
      BY <1>1, <2>1, <2>2, <2>3, WorkerOnly
  <1>5. CASE zst = 0
    <2>1. file' = Append(file, worker.copy) /\ zst' = Len(file) + 1 /\ WorkerGoto("again")
      BY <1>5 DEF PersistCopy
    <2>2. worker'.pc = "again" /\ worker'.before = worker.before /\ worker'.copy = worker.copy
      BY <2>1, WorkerMoves
    <2>3. /\ Len(file) \in Nat /\ plain \in 1..Len(file) /\ \A a \in Actors : io[a].handle \in 0..Len(file)
      BY <1>2, DiskParts
    <2>4. file'[zst'] = worker.copy /\ file'[plain] = file[plain]
      BY <1>3, <2>1, <2>3, OneMoreFile
    <2>5. TurnInv'
      BY <1>1, <1>2 DEF TurnInv, At, Restoring
    <2>6. NameInv'
      BY <1>1, <1>2, <2>1, <2>3 DEF NameInv, At, Restoring
    <2>7. CopyInv'
      BY <1>3, <2>1, <2>2, <2>3, <2>4 DEF CopyInv, WorkerAt
    <2>8. View' = View
      BY <1>1, <1>2, <2>4 DEF View
    <2> QED
      BY <2>5, <2>6, <2>7, <2>8 DEF ReadInv, Shown
  <1> QED
    BY <1>4, <1>5

\* The copy is taken back when the plain file changed.
LEMMA CompareAgainRead ==
    ASSUME Inv, ReadInv, CompareAgain PROVE ReadInv' /\ Shown
  <1>1. worker.pc = "again" /\ UNCHANGED <<file, plain, cold, io>>
    BY DEF CompareAgain, WorkerAt
  <1>2. plain # 0 /\ \A a \in Actors : io[a].pc \notin Restoring
    BY <1>1 DEF ReadInv, TurnInv, WorkerAt
  <1>3. CASE SameFileState
    <2>1. WorkerGoto("unlink") /\ UNCHANGED disk
      BY <1>1, <1>3 DEF CompareAgain, disk
    <2>2. CopyInv'
      BY <1>1, <2>1, WorkerMoves DEF ReadInv, CopyInv, WorkerAt, disk
    <2> QED
      BY <1>1, <2>1, <2>2, WorkerOnly
  <1>4. CASE ~SameFileState
    <2>1. WorkerEnds /\ zst' = 0
      BY <1>4 DEF CompareAgain
    <2>2. worker'.pc = "idle"
      BY <2>1, WorkerStops
    <2>3. TurnInv' /\ NameInv' /\ CopyInv'
      BY <1>1, <1>2, <2>1, <2>2 DEF TurnInv, NameInv, CopyInv, WorkerAt, At, Restoring
    <2>4. View' = View
      BY <1>1, <1>2 DEF View
    <2> QED
      BY <2>3, <2>4 DEF ReadInv, Shown
  <1> QED
    BY <1>3, <1>4

\* The plain file goes; its copy has what was in it, unless it grew.
LEMMA RemovePlainRead ==
    ASSUME Inv, ReadInv, RemovePlain PROVE ReadInv' /\ Shown
  <1>1. worker.pc = "unlink" /\ plain' = 0 /\ cold' = FALSE /\ WorkerEnds /\ UNCHANGED <<file, zst, io>>
    BY DEF RemovePlain, WorkerAt
  <1>2. plain # 0 /\ zst # 0 /\ file[zst] = worker.before /\ \A a \in Actors : io[a].pc \notin Restoring
    BY <1>1 DEF ReadInv, TurnInv, CopyInv, WorkerAt
  <1>3. worker'.pc = "idle"
    BY <1>1, WorkerStops
  <1>4. TurnInv'
    BY <1>1, <1>2, <1>3 DEF TurnInv, WorkerAt, At, Restoring
  <1>5. NameInv'
    BY <1>1, <1>2 DEF ReadInv, NameInv, At
  <1>6. CopyInv'
    BY <1>3 DEF CopyInv, WorkerAt
  <1>7. CASE file[plain] = worker.before
    <2>1. View' = View
      BY <1>1, <1>2, <1>7 DEF View
    <2> QED
      BY <1>4, <1>5, <1>6, <2>1 DEF ReadInv, Shown
  <1>8. CASE file[plain] # worker.before
    <2>1. View' = worker.before
      BY <1>1, <1>2 DEF View
    <2> QED
      BY <1>1, <1>2, <1>4, <1>5, <1>6, <1>8, <2>1 DEF ReadInv, Shown, RemovesGrown, WorkerAt
  <1> QED
    BY <1>7, <1>8

\* Time passes.
LEMMA AgeRead ==
    ASSUME Inv, ReadInv, Age PROVE ReadInv' /\ Shown
  <1>1. /\ plain # 0 /\ UNCHANGED <<file, plain, zst, worker, io>>
        /\ WorkerAt("idle") /\ \A a \in Actors : io[a].pc = "idle"
    BY DEF Age, At
  <1>2. TurnInv' /\ NameInv' /\ CopyInv'
    BY <1>1 DEF ReadInv, TurnInv, NameInv, CopyInv, WorkerAt, At, Restoring
  <1>3. View' = View
    BY <1>1 DEF View
  <1> QED
    BY <1>2, <1>3 DEF ReadInv, Shown

-----------------------------------------------------------------------------
\* A new thread, and one of an earlier session.
LEMMA InitRead == Init => ReadInv
  <1> SUFFICES ASSUME Init PROVE ReadInv
    OBVIOUS
  <1>1. worker.pc = "idle" /\ \A a \in Actors : io[a].pc = "idle" /\ io[a].handle = 0
    BY DEF Init, Idle
  <1>2. plain \in {0, 1} /\ zst \in {0, 1} /\ (plain = 0 => ~cold) /\ (zst # 0 => plain # zst)
    BY DEF Init
  <1> QED
    BY <1>1, <1>2 DEF ReadInv, TurnInv, NameInv, CopyInv, WorkerAt, At, Restoring

\* Every step keeps the invariant and shows readers what they had.
LEMMA NextRead == Inv /\ ReadInv /\ [Next]_vars => ReadInv' /\ Shown
  <1> SUFFICES ASSUME Inv, ReadInv, [Next]_vars PROVE ReadInv' /\ Shown
    OBVIOUS
  <1>1. CASE UNCHANGED vars
    BY <1>1, QuietRead DEF vars
  <1>2. "rec" \in Actors /\ Callers \subseteq Actors
    BY DiskParts
  <1>3. ASSUME NEW a \in Actors, FileStep(a) PROVE ReadInv' /\ Shown
    BY <1>3, RestoreRead, LinkRead, RemoveCompressedRead DEF FileStep
  <1>4. CASE WriterStep
    BY <1>2, <1>3, <1>4, EnsureOpenRead, TalkRead, WritesRead DEF WriterStep
  <1>5. ASSUME NEW c \in Callers, CallerStep(c) PROVE ReadInv' /\ Shown
    <2>1. CASE RecordCanonicalItems(c) \/ SendBarrier(c) \/ SendRefused(c) \/ RemoveRecorder(c)
      <3>1. UNCHANGED <<disk, worker, io>>
        BY <2>1 DEF RecordCanonicalItems, SendBarrier, SendRefused, RemoveRecorder
      <3> QED
        BY <3>1, QuietRead
    <2> QED
      BY <1>2, <1>3, <1>5, <2>1, TalkRead, WritesRead DEF CallerStep
  <1>6. ASSUME NEW c \in Callers, NEW op \in Ops, Call(c, op) PROVE ReadInv' /\ Shown
    BY <1>6, QuietRead DEF Call
  <1>7. ASSUME NEW a \in Actors, OperationFails(a) PROVE ReadInv' /\ Shown
    BY <1>7, FailsRead DEF OperationFails
  <1>8. CASE WorkerStep
    BY <1>8, WorkerLooksRead, PersistRead, CompareAgainRead, RemovePlainRead DEF WorkerStep
  <1>9. CASE Create
    BY <1>9, QuietRead DEF Create
  <1> QED
    BY <1>1, <1>4, <1>5, <1>6, <1>7, <1>8, <1>9, WritesRead, WorkerLooksRead, TalkRead, AgeRead DEF Next

\* Readers of a thread lose nothing when its rollout changes between its two
\* forms, whoever dies in between, but for the steps the property names: the
\* worker unlinks a file that grew after it last looked, which loses no more than
\* it grew by; the writer creates a file whose history is compressed; a write
\* runs into an unfinished line, which loses that line.
THEOREM ReadersSeeAll == Spec => ReadersKeepHistory
  <1>1. Inv /\ ReadInv /\ [Next]_vars => [Shown]_vars
    BY NextRead
  <1>2. [Shown]_vars => [\/ Readable(View) \subseteq Readable(View')
                         \/ RemovesGrown \/ CreatesOverCompressed \/ RunsTogether]_vars
    BY DEF Shown
  <1> QED
    BY <1>1, <1>2, InitInv, InitRead, NextInv, NextRead, PTL DEF Spec, ReadersKeepHistory
=============================================================================
