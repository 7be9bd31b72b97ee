-------------------------- MODULE CellActorProofs --------------------------
(***************************************************************************)
(* The code-mode cell, for any number of clients and any script: it has    *)
(* one outcome, its output is conserved, the actor and the V8 thread do    *)
(* not wait for each other, and nothing is left when it is closed.         *)
(***************************************************************************)
EXTENDS CellActor, FiniteSetTheorems, SequenceTheorems, TLAPS

\* The types of the parts of the state. The bounds of the counters are not
\* among them: they follow from CountInv.
CellTypes ==
    /\ phase \in {"Running", "Terminating", "Completed",
                  "CompletionClaimed", "Tombstone"}
    /\ responder \in Terminators \cup {None}
    /\ (responder # None) <=> (phase = "Terminating")
    /\ event \in Terminal \cup {None}
    /\ cancelled \in BOOLEAN /\ stored \in BOOLEAN
CallType == [at : {"idle", "admitted", "waiting", "answered", "dropped"},
             mode : Modes \cup {None}, answer : Answers \cup {None}]
ClientTypes ==
    /\ client \in [Clients -> CallType]
    /\ commands \in Seq(Observers) /\ open \in BOOLEAN
ContentTypes == content \in Items /\ told \in Items /\ received \in Nat
ActorTypes ==
    /\ observer \in Observers \cup {None}
    /\ ready \in BOOLEAN /\ paused \in BOOLEAN /\ timer \in BOOLEAN
    /\ termination \in BOOLEAN /\ runtimeClosed \in BOOLEAN
    /\ callbacksCancelled \in BOOLEAN
    /\ pc \in {"loop", "drainNotifications", "drainTools", "commit",
               "deliver", "finish", "tail", "closing", "closed"}
    /\ after \in {None, "commit", "finish", "closing"}
EventKinds == {"Started", "Pending", "ContentItem", "YieldRequested", "Notify",
               "ToolCall", "Result", "ThreadPanicked"}
ControlKinds == {"Continue", "Resume", "Terminate"}
CommandKinds == {"ToolResponse", "ObservePendingFrontier", "Terminate"}
ThreadTypes ==
    /\ made \in [items : 0..MaxItems, calls : 0..MaxCalls]
    /\ rt \in {"starting", "executing", "polling", "paused", "waiting", "gone"}
    /\ events \in Seq(EventKinds)
    /\ rtCommands \in Seq(CommandKinds)
    /\ rtControl \in Seq(ControlKinds)
Types == CellTypes /\ ClientTypes /\ ContentTypes /\ ActorTypes /\ ThreadTypes

\* What is still in the event channel was counted when the script made it.
Count(q, K) == Cardinality({i \in DOMAIN q : q[i] \in K})
CountInv ==
    /\ notifications \in Nat /\ tools \in Nat
    /\ received + Count(events, {"ContentItem"}) <= made.items
    /\ notifications + tools + Count(events, {"Notify", "ToolCall"}) <= made.calls

\* The phase, the place of the actor and the end of the thread go together:
\* the tombstone is set when the actor leaves its loop for good.
Draining == pc \in {"drainNotifications", "drainTools"}
Buried == pc \in {"tail", "closing", "closed"} \/ (Draining /\ after = "closing")
Complete == phase \in {"Completed", "CompletionClaimed"}
PhaseInv ==
    /\ pc # "loop" => runtimeClosed
    /\ runtimeClosed => rt = "gone"
    /\ "Result" \in ToSet(events) => rt = "gone"
    /\ Complete => runtimeClosed
    /\ (Complete /\ pc = "loop") => observer = None
    /\ (phase = "Tombstone") <=> Buried
    /\ phase = "Tombstone" => observer = None
    /\ Draining => after \in {"commit", "finish", "closing"}

\* The queue of commands is closed before the cell is, and the callbacks are
\* drained.
CloseInv ==
    /\ ~open => commands = <<>>
    /\ (Buried /\ pc # "tail") => ~open
    /\ pc = "drainTools" => notifications = 0
    /\ pc \in {"closing", "closed"} => (notifications = 0 /\ tools = 0)

\* Whoever waits is known to the actor.
WaitInv ==
    \A c \in Clients : client[c].at = "waiting" =>
        c \in ToSet(commands) \/ c = observer \/ c = responder

\* Nobody is told an outcome before it is decided, and then only that one.
OutcomeInv ==
    /\ phase \in {"Running", "Terminating"} => ~stored
    /\ Complete => (stored /\ event \in Terminal /\ event.kind = "Completed")
    /\ phase \in {"Running", "Terminating", "Completed"} => Outcomes = {}
    /\ phase = "CompletionClaimed" => Outcomes \subseteq {event}
    /\ \A o, p \in Outcomes : o = p
    /\ \A o \in Outcomes : /\ (o.kind = "Completed") <=> stored
                           /\ told \o o.items = Numbered(received)

ContentInv == phase # "Tombstone" => told \o Held = Numbered(received)

\* A pause of the thread is announced once, and answered once: one of the
\* announcement, the flag of the actor and the answer stands for it.
Pauses == Count(events, {"Pending"}) + Count(rtControl, {"Continue", "Resume"})
             + (IF paused THEN 1 ELSE 0)
PauseInv == rt # "gone" => Pauses = IF rt = "paused" THEN 1 ELSE 0

\* A frontier observer finds a thread that is going to look at its commands.
FrontierInv ==
    /\ observer # None => (~paused /\ client[observer].at \notin {"idle", "admitted"})
    /\ (Alive(observer) /\ client[observer].mode = "PendingFrontier") =>
          /\ rt = "waiting" => rtCommands # <<>>
          /\ (rt = "paused" /\ "Continue" \in ToSet(rtControl)) => rtCommands # <<>>

Inv ==
    /\ Types /\ CountInv /\ PhaseInv /\ CloseInv /\ WaitInv /\ OutcomeInv
    /\ ContentInv /\ PauseInv /\ FrontierInv

-----------------------------------------------------------------------------
(***************************************************************************)
(* Sequences: what an append, a head and a tail do to members and counts.  *)
(***************************************************************************)
LEMMA Appended ==
    ASSUME NEW T, NEW q \in Seq(T), NEW e \in T
    PROVE  /\ Append(q, e) \in Seq(T) /\ Append(q, e) # <<>>
           /\ Len(Append(q, e)) = Len(q) + 1
           /\ \A i \in 1..Len(q) : Append(q, e)[i] = q[i]
           /\ Append(q, e)[Len(q) + 1] = e
           /\ ToSet(Append(q, e)) = ToSet(q) \cup {e}
  BY DEF ToSet

LEMMA Shortened ==
    ASSUME NEW T, NEW q \in Seq(T), q # <<>>
    PROVE  /\ Tail(q) \in Seq(T) /\ Head(q) \in T
           /\ Len(q) \in Nat \ {0} /\ Len(Tail(q)) = Len(q) - 1
           /\ \A i \in 1..(Len(q) - 1) : Tail(q)[i] = q[i + 1]
           /\ q[1] = Head(q)
           /\ ToSet(q) = ToSet(Tail(q)) \cup {Head(q)}
<1>1. /\ Tail(q) \in Seq(T) /\ Head(q) \in T
      /\ Len(q) \in Nat \ {0} /\ Len(Tail(q)) = Len(q) - 1
      /\ \A i \in 1..(Len(q) - 1) : Tail(q)[i] = q[i + 1]
      /\ q[1] = Head(q)
  OBVIOUS
<1>2. ASSUME NEW i \in 1..Len(q) PROVE q[i] \in ToSet(Tail(q)) \cup {Head(q)}
  <2>1. CASE i = 1
    BY <2>1, <1>1
  <2>2. CASE i # 1
    <3>1. i - 1 \in DOMAIN Tail(q) /\ Tail(q)[i - 1] = q[i]
      BY <2>2, <1>1
    <3> QED
      BY <3>1 DEF ToSet
  <2> QED
    BY <2>1, <2>2
<1>3. ASSUME NEW i \in 1..Len(Tail(q)) PROVE Tail(q)[i] \in ToSet(q)
  <2>1. i + 1 \in DOMAIN q /\ Tail(q)[i] = q[i + 1]
    BY <1>1
  <2> QED
    BY <2>1 DEF ToSet
<1>4. Head(q) \in ToSet(q)
  <2>1. 1 \in DOMAIN q
    BY <1>1
  <2> QED
    BY <2>1, <1>1 DEF ToSet
<1>5. ToSet(q) \subseteq ToSet(Tail(q)) \cup {Head(q)}
  BY <1>2 DEF ToSet
<1>6. ToSet(Tail(q)) \subseteq ToSet(q)
  BY <1>1, <1>3 DEF ToSet
<1> QED
  BY <1>1, <1>4, <1>5, <1>6

LEMMA CountType ==
    ASSUME NEW T, NEW q \in Seq(T), NEW K
    PROVE  /\ Count(q, K) \in Nat
           /\ IsFiniteSet({i \in DOMAIN q : q[i] \in K})
<1>1. IsFiniteSet(1..Len(q))
  BY FS_Interval
<1>2. {i \in DOMAIN q : q[i] \in K} \subseteq 1..Len(q)
  OBVIOUS
<1>3. IsFiniteSet({i \in DOMAIN q : q[i] \in K})
  BY <1>1, <1>2, FS_Subset
<1> QED
  BY <1>3, FS_CardinalityType DEF Count

LEMMA CountAppend ==
    ASSUME NEW T, NEW q \in Seq(T), NEW e \in T, NEW K
    PROVE  Count(Append(q, e), K) = Count(q, K) + (IF e \in K THEN 1 ELSE 0)
<1> DEFINE S == {i \in DOMAIN q : q[i] \in K}
           R == {i \in DOMAIN Append(q, e) : Append(q, e)[i] \in K}
<1>1. R = IF e \in K THEN S \cup {Len(q) + 1} ELSE S
  BY Appended
<1>2. IsFiniteSet(S) /\ Len(q) + 1 \notin S
  <2>1. IsFiniteSet(S)
    BY CountType
  <2>2. Len(q) + 1 \notin S
    OBVIOUS
  <2> QED
    BY <2>1, <2>2
<1>3. Cardinality(S) \in Nat
  BY CountType DEF Count
<1> HIDE DEF S, R
<1>4. Cardinality(R) = Cardinality(S) + (IF e \in K THEN 1 ELSE 0)
  <2>1. CASE e \in K
    <3>1. Cardinality(S \cup {Len(q) + 1}) = Cardinality(S) + 1
      BY <1>2, FS_AddElement
    <3> QED
      BY <2>1, <3>1, <1>1
  <2>2. CASE e \notin K
    BY <2>2, <1>1, <1>3
  <2> QED
    BY <2>1, <2>2
<1> QED
  BY <1>4 DEF Count, S, R

LEMMA CountTail ==
    ASSUME NEW T, NEW q \in Seq(T), q # <<>>, NEW K
    PROVE  Count(q, K) = Count(Tail(q), K) + (IF Head(q) \in K THEN 1 ELSE 0)
<1> DEFINE S == {i \in DOMAIN Tail(q) : Tail(q)[i] \in K}
           R == {i \in DOMAIN q : q[i] \in K}
           U == R \ {1}
           f == [i \in S |-> i + 1]
<1>0. /\ Tail(q) \in Seq(T) /\ Len(q) \in Nat \ {0} /\ Len(Tail(q)) = Len(q) - 1
      /\ \A i \in 1..(Len(q) - 1) : Tail(q)[i] = q[i + 1]
      /\ q[1] = Head(q)
  OBVIOUS
<1>1. DOMAIN q = 1..Len(q) /\ DOMAIN Tail(q) = 1..(Len(q) - 1)
  BY <1>0
<1>2. \A i \in S : i + 1 \in U /\ i \in Nat
  BY <1>0, <1>1
<1>3. \A u \in U : u - 1 \in S /\ (u - 1) + 1 = u
  <2> SUFFICES ASSUME NEW u \in U PROVE u - 1 \in S /\ (u - 1) + 1 = u
    OBVIOUS
  <2>1. u \in 1..Len(q) /\ u # 1 /\ q[u] \in K
    BY <1>1
  <2>2. u - 1 \in 1..(Len(q) - 1) /\ (u - 1) + 1 = u
    BY <2>1, <1>0
  <2> QED
    BY <2>1, <2>2, <1>0, <1>1
<1>4. IsFiniteSet(S) /\ Cardinality(S) \in Nat
  BY <1>0, CountType DEF Count
<1>5. IsFiniteSet(R)
  BY CountType
<1>6. (1 \in R) <=> (Head(q) \in K)
  BY <1>0, <1>1
<1> HIDE DEF S, R, U
<1>7. f \in Bijection(S, U)
  <2>1. f \in [S -> U]
    BY <1>2
  <2>2. f \in Injection(S, U)
    BY <2>1, <1>2 DEF Injection, IsInjective
  <2>3. f \in Surjection(S, U)
    BY <2>1, <1>3 DEF Surjection
  <2> QED
    BY <2>2, <2>3 DEF Bijection
<1>8. Cardinality(U) = Cardinality(S)
  <2>1. ExistsBijection(S, U)
    BY <1>7 DEF ExistsBijection
  <2> QED
    BY <2>1, <1>4, FS_Bijection
<1>9. Cardinality(R) = Cardinality(U) + (IF 1 \in R THEN 1 ELSE 0)
  <2>1. IsFiniteSet(U) /\ Cardinality(U) \in Nat
    BY <1>4, <1>5, <1>8, FS_Subset DEF U
  <2>2. CASE 1 \in R
    <3>1. R = U \cup {1} /\ 1 \notin U
      BY <2>2 DEF U
    <3> QED
      BY <2>1, <2>2, <3>1, FS_AddElement
  <2>3. CASE 1 \notin R
    <3>1. R = U
      BY <2>3 DEF U
    <3> QED
      BY <2>1, <2>3, <3>1
  <2> QED
    BY <2>2, <2>3
<1> QED
  BY <1>6, <1>8, <1>9 DEF Count, S, R

\* What the actor took in order is a sequence of items however it is split.
LEMMA ItemsAre ==
    ASSUME NEW x, MaxItems \in Nat
    PROVE  x \in Items <=> (x \in Seq(1..MaxItems) /\ Len(x) <= MaxItems)
<1>1. x \in Items <=> \E m \in 0..MaxItems : x \in [1..m -> 1..MaxItems]
  BY DEF Items, BoundedSeq, SeqOf
<1>2. ASSUME NEW m \in 0..MaxItems, x \in [1..m -> 1..MaxItems]
      PROVE  x \in Seq(1..MaxItems) /\ Len(x) <= MaxItems
  <2>1. m \in Nat /\ m <= MaxItems
    OBVIOUS
  <2>2. x \in Seq(1..MaxItems)
    BY <1>2, <2>1, SeqDef
  <2>3. Len(x) = m
    BY <1>2, <2>1, <2>2
  <2> QED
    BY <2>1, <2>2, <2>3
<1>3. ASSUME x \in Seq(1..MaxItems), Len(x) <= MaxItems
      PROVE  \E m \in 0..MaxItems : x \in [1..m -> 1..MaxItems]
  <2>1. Len(x) \in 0..MaxItems /\ x \in [1..Len(x) -> 1..MaxItems]
    BY <1>3
  <2> QED
    BY <2>1
<1> QED
  BY <1>1, <1>2, <1>3

LEMMA SplitItems ==
    ASSUME NEW s \in Seq(Nat), NEW x \in Seq(Nat), NEW n \in Nat,
           MaxItems \in Nat, n <= MaxItems, s \o x = Numbered(n)
    PROVE  s \in Items /\ x \in Items /\ s \o x \in Items
<1>1. Numbered(n) \in Seq(Nat) /\ Len(Numbered(n)) = n /\ \A i \in 1..n : Numbered(n)[i] = i
  BY DEF Numbered
<1>2. Len(s) + Len(x) = n /\ Len(s) \in Nat /\ Len(x) \in Nat
  <2>1. Len(s \o x) = Len(s) + Len(x)
    OBVIOUS
  <2> QED
    BY <2>1, <1>1
<1>3. \A i \in 1..Len(s) : s[i] \in 1..MaxItems
  <2> SUFFICES ASSUME NEW i \in 1..Len(s) PROVE s[i] \in 1..MaxItems
    OBVIOUS
  <2>1. (s \o x)[i] = s[i] /\ i \in 1..n
    BY <1>2
  <2> QED
    BY <2>1, <1>1
<1>4. \A i \in 1..Len(x) : x[i] \in 1..MaxItems
  <2> SUFFICES ASSUME NEW i \in 1..Len(x) PROVE x[i] \in 1..MaxItems
    OBVIOUS
  <2>1. (s \o x)[Len(s) + i] = x[i] /\ Len(s) + i \in 1..n
    BY <1>2
  <2> QED
    BY <2>1, <1>1
<1>5. s \in Seq(1..MaxItems) /\ x \in Seq(1..MaxItems)
  <2>1. s \in [1..Len(s) -> 1..MaxItems] /\ x \in [1..Len(x) -> 1..MaxItems]
    BY <1>3, <1>4
  <2> DEFINE M == 1..MaxItems
  <2> HIDE DEF M
  <2>2. \A y : \A m \in Nat : y \in [1..m -> M] => y \in Seq(M)
    BY SeqDef
  <2> QED
    BY <2>1, <2>2, <1>2 DEF M
<1>6. Len(s \o x) = n /\ s \o x \in Seq(1..MaxItems)
  <2>1. s \o x \in Seq(1..MaxItems)
    BY <1>5, ConcatProperties
  <2>2. Len(s \o x) = Len(s) + Len(x)
    OBVIOUS
  <2> QED
    BY <2>1, <2>2, <1>2
<1> QED
  BY <1>2, <1>5, <1>6, ItemsAre

LEMMA CountNone ==
    ASSUME NEW T, NEW q \in Seq(T), NEW K, Count(q, K) = 0
    PROVE  ToSet(q) \cap K = {}
<1>1. IsFiniteSet({i \in DOMAIN q : q[i] \in K})
  BY CountType
<1>2. {i \in DOMAIN q : q[i] \in K} = {}
  BY <1>1, FS_EmptySet DEF Count
<1> QED
  BY <1>2 DEF ToSet

LEMMA CountEmpty == \A K : Count(<<>>, K) = 0
<1> SUFFICES ASSUME NEW K PROVE Count(<<>>, K) = 0
  OBVIOUS
<1>1. {i \in DOMAIN <<>> : <<>>[i] \in K} = {}
  OBVIOUS
<1> QED
  BY <1>1, FS_EmptySet DEF Count

LEMMA EventCounts ==
    ASSUME ThreadTypes
    PROVE  /\ \A K : Count(events, K) \in Nat
           /\ \A K : Count(rtControl, K) \in Nat
  BY CountType DEF ThreadTypes

-----------------------------------------------------------------------------
(***************************************************************************)
(* The parts of the invariant that a step does not touch.                  *)
(***************************************************************************)
\* No call starts to wait or starts over, nor changes what it waits for.
Shrinks ==
    \A c \in Clients :
        /\ client'[c].at = "waiting" =>
              (client[c].at = "waiting" /\ client'[c].mode = client[c].mode)
        /\ client'[c].at \in {"idle", "admitted"} => client[c].at \in {"idle", "admitted"}

LEMMA Unshrunk ==
    ASSUME client' = client
    PROVE  Shrinks /\ Outcomes' = Outcomes
  BY DEF Shrinks, Outcomes

LEMMA CellFrame ==
    ASSUME CellTypes, UNCHANGED <<phase, responder, event, stored, cancelled>>
    PROVE  CellTypes'
  BY DEF CellTypes

LEMMA ClientFrame ==
    ASSUME ClientTypes, UNCHANGED <<client, commands, open>>
    PROVE  ClientTypes'
  BY DEF ClientTypes

LEMMA ContentTypesFrame ==
    ASSUME ContentTypes, UNCHANGED <<content, told, received>>
    PROVE  ContentTypes'
  BY DEF ContentTypes

LEMMA ActorFrame ==
    ASSUME ActorTypes,
           UNCHANGED <<observer, ready, paused, timer, termination,
                       runtimeClosed, callbacksCancelled, pc, after>>
    PROVE  ActorTypes'
  BY DEF ActorTypes

LEMMA ThreadFrame ==
    ASSUME ThreadTypes, UNCHANGED <<made, rt, events, rtCommands, rtControl>>
    PROVE  ThreadTypes'
  BY DEF ThreadTypes

LEMMA CountFrame ==
    ASSUME CountInv, UNCHANGED <<notifications, tools, received, events, made>>
    PROVE  CountInv'
  BY DEF CountInv

LEMMA PhaseFrame ==
    ASSUME PhaseInv, UNCHANGED <<pc, after, phase, runtimeClosed, rt, events, observer>>
    PROVE  PhaseInv'
  BY DEF PhaseInv, Complete, Buried, Draining

LEMMA CloseFrame ==
    ASSUME CloseInv, UNCHANGED <<open, commands, pc, after, notifications, tools>>
    PROVE  CloseInv'
  BY DEF CloseInv, Buried, Draining

LEMMA WaitFrame ==
    ASSUME WaitInv, Shrinks, UNCHANGED <<commands, observer, responder>>
    PROVE  WaitInv'
  BY DEF WaitInv, Shrinks

LEMMA OutcomeFrame ==
    ASSUME OutcomeInv, Outcomes' \subseteq Outcomes,
           UNCHANGED <<phase, event, stored, told, received>>
    PROVE  OutcomeInv'
  BY DEF OutcomeInv, Complete

LEMMA ContentFrame ==
    ASSUME ContentInv, UNCHANGED <<phase, event, content, told, received>>
    PROVE  ContentInv'
  BY DEF ContentInv, Held

LEMMA PauseFrame ==
    ASSUME PauseInv, UNCHANGED <<events, rtControl, paused, rt>>
    PROVE  PauseInv'
  BY DEF PauseInv, Pauses

LEMMA ObserverIsClient ==
    ASSUME ActorTypes, observer # None
    PROVE  observer \in Clients
  BY DEF ActorTypes, Clients

LEMMA FrontierFrame ==
    ASSUME FrontierInv, ActorTypes, Shrinks,
           UNCHANGED <<observer, paused, rt, rtControl>>,
           rtCommands' # <<>> \/ rtCommands' = rtCommands
    PROVE  FrontierInv'
<1>1. CASE observer = None
  BY <1>1 DEF FrontierInv, Alive
<1>2. CASE observer # None
  <2>1. observer \in Clients
    BY <1>2, ObserverIsClient
  <2> QED
    BY <1>2, <2>1 DEF FrontierInv, Alive, Shrinks
<1> QED
  BY <1>1, <1>2

LEMMA InitInv == Init => Inv
<1> SUFFICES ASSUME Init PROVE Inv
  OBVIOUS
<1> USE ConstantsAssumption, NoneAssumption
<1>1. Initial \in Observers /\ Initial \in Clients /\ Initial # None
  BY DEF ConstantsAssumption, Clients
<1>2. MaxItems \in Nat /\ MaxCalls \in Nat /\ 0 \in 0..MaxItems /\ 0 \in 0..MaxCalls
  BY DEF ConstantsAssumption
<1>3. <<>> \in Items
  <2>1. <<>> \in Seq(1..MaxItems) /\ Len(<<>>) <= MaxItems
    BY <1>2
  <2> QED
    BY <2>1, <1>2, ItemsAre
<1>4. Outcomes = {}
  <2>1. \A c \in Clients : client[c].answer = None
    BY DEF Init
  <2>2. None \notin Terminal
    BY DEF NoneAssumption, Answers
  <2> QED
    BY <2>1, <2>2 DEF Outcomes
<1>5. CellTypes
  BY DEF Init, CellTypes
<1>6. ClientTypes
  <2>1. client \in [Clients -> [at : {"idle", "waiting"}, mode : Modes \cup {None}, answer : {None}]]
    BY DEF Init
  <2>2. client \in [Clients -> CallType]
    BY <2>1 DEF CallType
  <2> QED
    BY <2>2 DEF Init, ClientTypes
<1>7. ContentTypes
  BY <1>3 DEF Init, ContentTypes
<1>8. ActorTypes
  BY <1>1 DEF Init, ActorTypes
<1>9. ThreadTypes
  <2>1. made \in [items : 0..MaxItems, calls : 0..MaxCalls]
    BY <1>2 DEF Init
  <2> QED
    BY <2>1 DEF Init, ThreadTypes
<1>10. \A K : Count(events, K) = 0 /\ Count(rtControl, K) = 0
  BY CountEmpty DEF Init
<1>11. CountInv
  BY <1>10 DEF Init, CountInv
<1>12. PhaseInv
  <2>1. ToSet(events) = {}
    BY DEF Init, ToSet
  <2> QED
    BY <2>1 DEF Init, PhaseInv, Complete, Buried, Draining
<1>13. CloseInv
  BY DEF Init, CloseInv, Buried, Draining
<1>14. WaitInv
  BY DEF Init, WaitInv
<1>15. OutcomeInv
  BY <1>4 DEF Init, OutcomeInv, Complete
<1>16. ContentInv
  <2>1. Numbered(0) = <<>>
    BY DEF Numbered
  <2> QED
    BY <2>1 DEF Init, ContentInv, Held
<1>17. PauseInv
  BY <1>10 DEF Init, PauseInv, Pauses
<1>18. FrontierInv
  <2>1. client[Initial].at = "waiting"
    BY <1>1 DEF Init
  <2> QED
    BY <2>1 DEF Init, FrontierInv
<1> QED
  BY <1>5, <1>6, <1>7, <1>8, <1>9, <1>11, <1>12, <1>13, <1>14, <1>15, <1>16, <1>17, <1>18
     DEF Inv, Types

-----------------------------------------------------------------------------
(***************************************************************************)
(* The clients. A call that is answered gets one answer; a reply is not an *)
(* outcome.                                                                *)
(***************************************************************************)
LEMMA RepliesAre ==
    /\ \A kind \in Replies : Reply(kind) \in Answers /\ Reply(kind) \notin Terminal
    /\ Terminal \subseteq Answers
  BY DEF Reply, Answers, Terminal, Replies

LEMMA AnsweredIs ==
    ASSUME NEW c, NEW answer \in Answers
    PROVE  /\ Answered(c, answer) \in CallType
           /\ Answered(c, answer).at = "answered" /\ Answered(c, answer).answer = answer
  BY DEF Answered, CallType

\* The effect of Tell on the calls.
LEMMA Told ==
    ASSUME ClientTypes, NEW R, NEW answer \in Answers, Tell(R, answer)
    PROVE  /\ client' \in [Clients -> CallType]
           /\ Shrinks
           /\ \A c \in Clients : client'[c].at = "waiting" => c \notin R
           /\ Outcomes' \subseteq Outcomes \cup ({answer} \cap Terminal)
<1>1. client \in [Clients -> CallType]
  BY DEF ClientTypes
<1>2. /\ client' \in [Clients -> CallType]
      /\ \A c \in Clients : client'[c] = IF c \in R /\ Alive(c) THEN Answered(c, answer) ELSE client[c]
  BY <1>1, AnsweredIs DEF Tell
<1>3. \A c \in Clients : c # None
  BY ConstantsAssumption DEF Clients, ConstantsAssumption
<1>4. Shrinks
  BY <1>2, AnsweredIs DEF Shrinks
<1>5. \A c \in Clients : client'[c].at = "waiting" => c \notin R
  BY <1>2, <1>3, AnsweredIs DEF Alive
<1>6. \A c \in Clients : client'[c].answer \in {answer, client[c].answer}
  BY <1>2, AnsweredIs
<1>7. Outcomes' \subseteq Outcomes \cup ({answer} \cap Terminal)
  BY <1>6 DEF Outcomes
<1> QED
  BY <1>2, <1>4, <1>5, <1>7

\* The calls are changed at one place.
LEMMA ClientSet ==
    ASSUME ClientTypes, NEW c \in Clients,
           NEW new \in CallType,
           client' = [client EXCEPT ![c] = new]
    PROVE  /\ client' \in [Clients -> CallType]
           /\ client'[c] = new
           /\ \A d \in Clients \ {c} : client'[d] = client[d]
           /\ Outcomes' \subseteq Outcomes \cup ({new.answer} \cap Terminal)
<1>1. client \in [Clients -> CallType]
  BY DEF ClientTypes
<1>2. client' \in [Clients -> CallType] /\ client'[c] = new /\ \A d \in Clients \ {c} : client'[d] = client[d]
  BY <1>1
<1>3. \A d \in Clients : client'[d].answer \in {new.answer, client[d].answer}
  BY <1>2
<1>4. Outcomes' \subseteq Outcomes \cup ({new.answer} \cap Terminal)
  BY <1>3 DEF Outcomes
<1> QED
  BY <1>2, <1>4

LEMMA ObserveStep ==
    ASSUME Inv, NEW c \in Observers, Observe(c) \/ (c \in Impatient /\ DropObservation(c))
    PROVE  Inv'
<1> USE DEF cellState, actorVars, controlVars, callbackVars, threadVars, runtimeVars, queueVars, history
<1>0. /\ Types /\ CountInv /\ PhaseInv /\ CloseInv /\ WaitInv /\ OutcomeInv
      /\ ContentInv /\ PauseInv /\ FrontierInv
      /\ CellTypes /\ ClientTypes /\ ContentTypes /\ ActorTypes /\ ThreadTypes
  BY DEF Inv, Types
<1>1. UNCHANGED <<cellState, cancelled, commands, open, actorVars, callbackVars, threadVars, history>>
  BY DEF Observe, DropObservation
<1>2. c \in Clients
  BY DEF Clients
<1>3. client[c] \in CallType
  BY <1>0, <1>2 DEF ClientTypes
<1>4. PICK new \in CallType :
           /\ client' = [client EXCEPT ![c] = new]
           /\ new.at # "waiting" /\ (new.at = "admitted" => client[c].at = "idle") /\ new.at # "idle"
           /\ new.answer = client[c].answer \/ new.answer \notin Terminal
  <2>1. CASE Observe(c) /\ acceptingObservations
    <3>1. client' = [client EXCEPT ![c] = [client[c] EXCEPT !.at = "admitted"]] /\ client[c].at = "idle"
      BY <2>1 DEF Observe
    <3> DEFINE n == [client[c] EXCEPT !.at = "admitted"]
    <3>2. n \in CallType /\ n.at = "admitted" /\ n.answer = client[c].answer
      BY <1>3 DEF CallType
    <3> HIDE DEF n
    <3>3. client' = [client EXCEPT ![c] = n]
      BY <3>1 DEF n
    <3> QED
      BY <3>1, <3>2, <3>3
  <2>2. CASE Observe(c) /\ ~acceptingObservations
    <3>1. client' = [client EXCEPT ![c] = Answered(c, Reply("Closed"))]
      BY <2>2 DEF Observe
    <3>2. Reply("Closed") \in Answers /\ Reply("Closed") \notin Terminal
      BY RepliesAre DEF Replies
    <3> DEFINE n == Answered(c, Reply("Closed"))
    <3>3. n \in CallType /\ n.at = "answered" /\ n.answer \notin Terminal
      BY <3>2, AnsweredIs
    <3> HIDE DEF n
    <3>4. client' = [client EXCEPT ![c] = n]
      BY <3>1 DEF n
    <3> QED
      BY <3>3, <3>4
  <2>3. CASE DropObservation(c)
    <3>1. client' = [client EXCEPT ![c] = [client[c] EXCEPT !.at = "dropped"]]
      BY <2>3 DEF DropObservation
    <3> DEFINE n == [client[c] EXCEPT !.at = "dropped"]
    <3>2. n \in CallType /\ n.at = "dropped" /\ n.answer = client[c].answer
      BY <1>3 DEF CallType
    <3> HIDE DEF n
    <3>3. client' = [client EXCEPT ![c] = n]
      BY <3>1 DEF n
    <3> QED
      BY <3>1, <3>2, <3>3
  <2> QED
    BY <2>1, <2>2, <2>3
<1>5. /\ client' \in [Clients -> CallType]
      /\ client'[c] = new
      /\ \A d \in Clients \ {c} : client'[d] = client[d]
      /\ Outcomes' \subseteq Outcomes \cup ({new.answer} \cap Terminal)
  BY <1>0, <1>2, <1>4, ClientSet
<1>6. Outcomes' \subseteq Outcomes
  BY <1>2, <1>4, <1>5 DEF Outcomes
<1>7. Shrinks
  BY <1>2, <1>4, <1>5 DEF Shrinks
<1>8. ClientTypes'
  BY <1>0, <1>1, <1>5 DEF ClientTypes
<1>9. CellTypes' /\ ContentTypes' /\ ActorTypes' /\ ThreadTypes'
  BY <1>0, <1>1, CellFrame, ContentTypesFrame, ActorFrame, ThreadFrame
<1>10. CountInv' /\ PhaseInv' /\ CloseInv' /\ ContentInv' /\ PauseInv'
  BY <1>0, <1>1, CountFrame, PhaseFrame, CloseFrame, ContentFrame, PauseFrame
<1>11. WaitInv' /\ OutcomeInv' /\ FrontierInv'
  BY <1>0, <1>1, <1>6, <1>7, WaitFrame, OutcomeFrame, FrontierFrame
<1> QED
  BY <1>8, <1>9, <1>10, <1>11 DEF Inv, Types

LEMMA SendStep ==
    ASSUME Inv, NEW c \in Observers, SendObserve(c)
    PROVE  Inv'
<1> USE DEF cellState, actorVars, controlVars, callbackVars, threadVars, runtimeVars, queueVars, history
<1>0. /\ Types /\ CountInv /\ PhaseInv /\ CloseInv /\ WaitInv /\ OutcomeInv
      /\ ContentInv /\ PauseInv /\ FrontierInv
      /\ CellTypes /\ ClientTypes /\ ContentTypes /\ ActorTypes /\ ThreadTypes
  BY DEF Inv, Types
<1>1. /\ UNCHANGED <<cellState, cancelled, open, actorVars, callbackVars, threadVars, history>>
      /\ client[c].at = "admitted"
      /\ commands' = IF open THEN Append(commands, c) ELSE commands
  BY DEF SendObserve
<1>2. c \in Clients
  BY DEF Clients
<1>3. client[c] \in CallType
  BY <1>0, <1>2 DEF ClientTypes
<1>4. PICK new \in CallType :
           /\ client' = [client EXCEPT ![c] = new]
           /\ new.at \in {"waiting", "answered"} /\ (new.at = "waiting" => open)
           /\ new.answer = client[c].answer \/ new.answer \notin Terminal
  <2>1. CASE open
    <3>1. client' = [client EXCEPT ![c] = [client[c] EXCEPT !.at = "waiting"]]
      BY <2>1 DEF SendObserve
    <3> DEFINE n == [client[c] EXCEPT !.at = "waiting"]
    <3>2. n \in CallType /\ n.at = "waiting" /\ n.answer = client[c].answer
      BY <1>3 DEF CallType
    <3> HIDE DEF n
    <3>3. client' = [client EXCEPT ![c] = n]
      BY <3>1 DEF n
    <3> QED
      BY <3>1, <3>2, <3>3, <2>1
  <2>2. CASE ~open
    <3>1. client' = [client EXCEPT ![c] = Answered(c, Reply("Closed"))]
      BY <2>2 DEF SendObserve
    <3>2. Reply("Closed") \in Answers /\ Reply("Closed") \notin Terminal
      BY RepliesAre DEF Replies
    <3> DEFINE n == Answered(c, Reply("Closed"))
    <3>3. n \in CallType /\ n.at = "answered" /\ n.answer \notin Terminal
      BY <3>2, AnsweredIs
    <3> HIDE DEF n
    <3>4. client' = [client EXCEPT ![c] = n]
      BY <3>1 DEF n
    <3> QED
      BY <3>3, <3>4
  <2> QED
    BY <2>1, <2>2
<1>5. /\ client' \in [Clients -> CallType]
      /\ client'[c] = new
      /\ \A d \in Clients \ {c} : client'[d] = client[d]
      /\ Outcomes' \subseteq Outcomes \cup ({new.answer} \cap Terminal)
  BY <1>0, <1>2, <1>4, ClientSet
<1>6. Outcomes' \subseteq Outcomes
  BY <1>2, <1>4, <1>5 DEF Outcomes
<1>7. /\ commands' \in Seq(Observers)
      /\ ToSet(commands') = IF open THEN ToSet(commands) \cup {c} ELSE ToSet(commands)
  <2>1. commands \in Seq(Observers)
    BY <1>0 DEF ClientTypes
  <2>2. Append(commands, c) \in Seq(Observers) /\ ToSet(Append(commands, c)) = ToSet(commands) \cup {c}
    BY <2>1, Appended
  <2> QED
    BY <2>1, <2>2, <1>1
<1>8. ClientTypes'
  BY <1>0, <1>1, <1>5, <1>7 DEF ClientTypes
<1>9. CellTypes' /\ ContentTypes' /\ ActorTypes' /\ ThreadTypes'
  BY <1>0, <1>1, CellFrame, ContentTypesFrame, ActorFrame, ThreadFrame
<1>10. CountInv' /\ PhaseInv' /\ ContentInv' /\ PauseInv'
  BY <1>0, <1>1, CountFrame, PhaseFrame, ContentFrame, PauseFrame
<1>11. CloseInv'
  BY <1>0, <1>1 DEF CloseInv, Buried, Draining
<1>12. WaitInv'
  BY <1>0, <1>1, <1>2, <1>4, <1>5, <1>7 DEF WaitInv
<1>13. OutcomeInv'
  BY <1>0, <1>1, <1>6, OutcomeFrame
<1>14. FrontierInv'
  <2>1. observer # c
    BY <1>0, <1>1, ConstantsAssumption DEF FrontierInv, ConstantsAssumption
  <2>2. observer # None => client'[observer] = client[observer]
    BY <2>1, <1>0, <1>5, ObserverIsClient
  <2> QED
    BY <2>2, <1>0, <1>1 DEF FrontierInv, Alive
<1> QED
  BY <1>8, <1>9, <1>10, <1>11, <1>12, <1>13, <1>14 DEF Inv, Types

LEMMA ObserverKept ==
    ASSUME FrontierInv, ActorTypes,
           observer # None => client'[observer] = client[observer],
           UNCHANGED <<observer, paused, rt, rtControl, rtCommands>>
    PROVE  FrontierInv'
  BY DEF FrontierInv, Alive

LEMMA TerminateStep ==
    ASSUME Inv, NEW c \in Terminators, RequestTermination(c)
    PROVE  Inv'
<1> USE DEF actorVars, controlVars, callbackVars, threadVars, runtimeVars, queueVars, history
<1>0. /\ Types /\ CountInv /\ PhaseInv /\ CloseInv /\ WaitInv /\ OutcomeInv
      /\ ContentInv /\ PauseInv /\ FrontierInv
      /\ CellTypes /\ ClientTypes /\ ContentTypes /\ ActorTypes /\ ThreadTypes
  BY DEF Inv, Types
<1>1. /\ UNCHANGED <<event, stored, commands, open, actorVars, callbackVars, threadVars, history>>
      /\ client[c].at = "idle"
  BY DEF RequestTermination
<1>2. c \in Clients /\ c # None /\ c # observer
  BY <1>0, ConstantsAssumption DEF Clients, ConstantsAssumption, ActorTypes
<1>3. client[c] \in CallType
  BY <1>0, <1>2 DEF ClientTypes
<1>4. ContentTypes' /\ ActorTypes' /\ ThreadTypes' /\ CountInv' /\ CloseInv' /\ PauseInv'
  BY <1>0, <1>1, ContentTypesFrame, ActorFrame, ThreadFrame, CountFrame, CloseFrame, PauseFrame
<1> DEFINE Changed(new) ==
        /\ new \in CallType /\ client' = [client EXCEPT ![c] = new]
<1>5. ASSUME NEW new, Changed(new)
      PROVE  /\ ClientTypes'
             /\ client'[c] = new
             /\ \A d \in Clients \ {c} : client'[d] = client[d]
             /\ Outcomes' \subseteq Outcomes \cup ({new.answer} \cap Terminal)
             /\ FrontierInv'
  <2>1. /\ client' \in [Clients -> CallType]
        /\ client'[c] = new
        /\ \A d \in Clients \ {c} : client'[d] = client[d]
        /\ Outcomes' \subseteq Outcomes \cup ({new.answer} \cap Terminal)
    BY <1>0, <1>2, <1>5, ClientSet
  <2>2. ClientTypes'
    BY <2>1, <1>0, <1>1 DEF ClientTypes
  <2>3. FrontierInv'
    BY <2>1, <1>0, <1>1, <1>2, ObserverIsClient, ObserverKept
  <2> QED
    BY <2>1, <2>2, <2>3
<1> HIDE DEF Changed
<1>6. CASE phase = "Running"
  <2>1. /\ phase' = "Terminating" /\ responder' = c /\ cancelled' = TRUE
        /\ client' = [client EXCEPT ![c].at = "waiting"]
    BY <1>6 DEF RequestTermination
  <2> DEFINE n == [client[c] EXCEPT !.at = "waiting"]
  <2>2. n \in CallType /\ n.at = "waiting" /\ n.answer = client[c].answer
    BY <1>3 DEF CallType
  <2>3. client' = [client EXCEPT ![c] = n]
    BY <2>1
  <2> HIDE DEF n
  <2>4. /\ ClientTypes'
        /\ client'[c] = n
        /\ \A d \in Clients \ {c} : client'[d] = client[d]
        /\ Outcomes' \subseteq Outcomes \cup ({n.answer} \cap Terminal)
        /\ FrontierInv'
    BY <2>2, <2>3, <1>5 DEF Changed
  <2>5. Outcomes' \subseteq Outcomes
    BY <2>2, <2>4, <1>2 DEF Outcomes
  <2>6. CellTypes'
    BY <2>1, <1>0, <1>1, <1>2 DEF CellTypes
  <2>7. PhaseInv'
    BY <2>1, <1>0, <1>1, <1>6 DEF PhaseInv, Complete, Buried, Draining
  <2>8. OutcomeInv'
    BY <2>1, <2>5, <1>0, <1>1, <1>6 DEF OutcomeInv, Complete
  <2>9. ContentInv'
    BY <2>1, <1>0, <1>1, <1>6 DEF ContentInv, Held
  <2>10. responder = None
    BY <1>0, <1>6 DEF CellTypes
  <2>11. WaitInv'
    <3> SUFFICES ASSUME NEW d \in Clients, client'[d].at = "waiting"
                 PROVE  d \in ToSet(commands) \/ d = observer \/ d = c
      BY <2>1, <1>1 DEF WaitInv
    <3>1. d # None
      BY ConstantsAssumption DEF Clients, ConstantsAssumption
    <3>2. CASE d # c
      BY <3>1, <3>2, <2>4, <2>10, <1>0 DEF WaitInv
    <3> QED
      BY <3>2
  <2> QED
    BY <2>4, <2>6, <2>7, <2>8, <2>9, <2>11, <1>4 DEF Inv, Types
<1>7. CASE phase = "Completed"
  <2>1. /\ phase' = "CompletionClaimed" /\ cancelled' = TRUE
        /\ client' = [client EXCEPT ![c] = Answered(c, event)]
        /\ responder' = responder
    BY <1>7 DEF RequestTermination
  <2>2. event \in Terminal /\ event \in Answers /\ stored /\ event.kind = "Completed" /\ Outcomes = {}
    BY <1>0, <1>7, RepliesAre DEF OutcomeInv, Complete
  <2> DEFINE n == Answered(c, event)
  <2>3. n \in CallType /\ n.at = "answered" /\ n.answer = event
    BY <2>2, AnsweredIs
  <2>4. client' = [client EXCEPT ![c] = n]
    BY <2>1
  <2> HIDE DEF n
  <2>5. /\ ClientTypes'
        /\ client'[c] = n
        /\ \A d \in Clients \ {c} : client'[d] = client[d]
        /\ Outcomes' \subseteq Outcomes \cup ({n.answer} \cap Terminal)
        /\ FrontierInv'
    BY <2>3, <2>4, <1>5 DEF Changed
  <2>6. Outcomes' \subseteq {event}
    BY <2>2, <2>3, <2>5
  <2>7. CellTypes'
    BY <2>1, <1>0, <1>1, <1>7 DEF CellTypes
  <2>8. PhaseInv'
    BY <2>1, <1>0, <1>1, <1>7 DEF PhaseInv, Complete, Buried, Draining
  <2>9. told \o event.items = Numbered(received)
    BY <1>0, <1>7 DEF ContentInv, Held
  <2>10. OutcomeInv'
    BY <2>1, <2>2, <2>6, <2>9, <1>1 DEF OutcomeInv, Complete
  <2>11. ContentInv'
    BY <2>1, <2>9, <1>1 DEF ContentInv, Held
  <2>12. WaitInv'
    BY <2>1, <2>3, <2>5, <1>0, <1>1 DEF WaitInv
  <2> QED
    BY <2>5, <2>7, <2>8, <2>10, <2>11, <2>12, <1>4 DEF Inv, Types
<1>8. CASE phase \notin {"Running", "Completed"}
  <2>1. PICK kind \in Replies : client' = [client EXCEPT ![c] = Answered(c, Reply(kind))]
    BY <1>8 DEF RequestTermination, Replies
  <2>2. UNCHANGED <<phase, responder, cancelled>>
    BY <1>8 DEF RequestTermination
  <2>3. Reply(kind) \in Answers /\ Reply(kind) \notin Terminal
    BY RepliesAre
  <2> DEFINE n == Answered(c, Reply(kind))
  <2>4. n \in CallType /\ n.at = "answered" /\ n.answer \notin Terminal
    BY <2>3, AnsweredIs
  <2>5. client' = [client EXCEPT ![c] = n]
    BY <2>1
  <2> HIDE DEF n
  <2>6. /\ ClientTypes'
        /\ client'[c] = n
        /\ \A d \in Clients \ {c} : client'[d] = client[d]
        /\ Outcomes' \subseteq Outcomes \cup ({n.answer} \cap Terminal)
        /\ FrontierInv'
    BY <2>4, <2>5, <1>5 DEF Changed
  <2>7. Outcomes' \subseteq Outcomes
    BY <2>4, <2>6
  <2>8. WaitInv'
    BY <2>2, <2>4, <2>6, <1>0, <1>1 DEF WaitInv
  <2>9. CellTypes' /\ PhaseInv' /\ OutcomeInv' /\ ContentInv'
    BY <2>2, <2>7, <1>0, <1>1, CellFrame, PhaseFrame, OutcomeFrame, ContentFrame
  <2> QED
    BY <2>6, <2>8, <2>9, <1>4 DEF Inv, Types
<1> QED
  BY <1>6, <1>7, <1>8

LEMMA ShutdownStep ==
    ASSUME Inv, BeginShutdown
    PROVE  Inv'
<1> USE DEF cellState, clientVars, actorVars, controlVars, callbackVars, threadVars, runtimeVars, queueVars, history
<1>0. /\ Types /\ CountInv /\ PhaseInv /\ CloseInv /\ WaitInv /\ OutcomeInv
      /\ ContentInv /\ PauseInv /\ FrontierInv
      /\ CellTypes /\ ClientTypes /\ ContentTypes /\ ActorTypes /\ ThreadTypes
  BY DEF Inv, Types
<1>1. /\ UNCHANGED <<cellState, clientVars, actorVars, callbackVars, threadVars, history>>
      /\ cancelled' = TRUE
  BY DEF BeginShutdown
<1>2. CellTypes'
  BY <1>0, <1>1 DEF CellTypes
<1>3. Shrinks /\ Outcomes' = Outcomes
  BY <1>1, Unshrunk
<1>4. ClientTypes' /\ ContentTypes' /\ ActorTypes' /\ ThreadTypes'
  BY <1>0, <1>1, ClientFrame, ContentTypesFrame, ActorFrame, ThreadFrame
<1>5. CountInv' /\ PhaseInv' /\ CloseInv' /\ ContentInv' /\ PauseInv'
  BY <1>0, <1>1, CountFrame, PhaseFrame, CloseFrame, ContentFrame, PauseFrame
<1>6. WaitInv' /\ OutcomeInv' /\ FrontierInv'
  BY <1>0, <1>1, <1>3, WaitFrame, OutcomeFrame, FrontierFrame
<1> QED
  BY <1>2, <1>4, <1>5, <1>6 DEF Inv, Types

-----------------------------------------------------------------------------
(***************************************************************************)
(* The V8 thread. It only changes its own state and its channels.          *)
(***************************************************************************)
LEMMA ToRuntimeIs ==
    ASSUME NEW T, NEW q \in Seq(T), NEW command \in T
    PROVE  /\ ToRuntime(q, command) \in Seq(T)
           /\ rt = "gone" => ToRuntime(q, command) = q
           /\ rt # "gone" => /\ ToRuntime(q, command) = Append(q, command)
                             /\ ToRuntime(q, command) # <<>>
  BY Appended DEF ToRuntime

LEMMA ThreadRest ==
    ASSUME Inv, UNCHANGED <<cellState, cancelled, clientVars, actorVars, callbackVars, history>>
    PROVE  /\ CellTypes' /\ ClientTypes' /\ ContentTypes' /\ ActorTypes'
           /\ CloseInv' /\ WaitInv' /\ OutcomeInv' /\ ContentInv'
<1> USE DEF cellState, clientVars, actorVars, controlVars, callbackVars, history
<1>0. /\ CloseInv /\ WaitInv /\ OutcomeInv /\ ContentInv
      /\ CellTypes /\ ClientTypes /\ ContentTypes /\ ActorTypes
  BY DEF Inv, Types
<1>1. Shrinks /\ Outcomes' = Outcomes
  BY Unshrunk
<1>2. CellTypes' /\ ClientTypes' /\ ContentTypes' /\ ActorTypes'
  BY <1>0, CellFrame, ClientFrame, ContentTypesFrame, ActorFrame
<1>3. CloseInv' /\ WaitInv' /\ OutcomeInv' /\ ContentInv'
  BY <1>0, <1>1, CloseFrame, WaitFrame, OutcomeFrame, ContentFrame
<1> QED
  BY <1>2, <1>3

\* The thread reports something other than a pause, and may end with it.
Reports(e) ==
    /\ rt \in {"starting", "executing"}
    /\ Emit(e)
    /\ made' \in [items : 0..MaxItems, calls : 0..MaxCalls]
    /\ made'.items = made.items + (IF e = "ContentItem" THEN 1 ELSE 0)
    /\ made'.calls >= made.calls + (IF e \in {"Notify", "ToolCall"} THEN 1 ELSE 0)
    /\ \/ e # "Result" /\ rt' = "executing" /\ UNCHANGED queueVars
       \/ RuntimeEnds
    /\ UNCHANGED <<cellState, cancelled, clientVars, actorVars, callbackVars, history>>

LEMMA ReportStep ==
    ASSUME Inv, NEW e \in EventKinds \ {"Pending"}, Reports(e)
    PROVE  Inv'
<1>0. /\ Types /\ CountInv /\ PhaseInv /\ PauseInv /\ FrontierInv
      /\ ActorTypes /\ ThreadTypes /\ ContentTypes
  BY DEF Inv, Types
<1>1. /\ rt \in {"starting", "executing"}
      /\ events' = Append(events, e)
      /\ made' \in [items : 0..MaxItems, calls : 0..MaxCalls]
      /\ made'.items = made.items + (IF e = "ContentItem" THEN 1 ELSE 0)
      /\ made'.calls >= made.calls + (IF e \in {"Notify", "ToolCall"} THEN 1 ELSE 0)
      /\ \/ e # "Result" /\ rt' = "executing" /\ rtCommands' = rtCommands /\ rtControl' = rtControl
         \/ rt' = "gone" /\ rtCommands' = <<>> /\ rtControl' = <<>>
      /\ UNCHANGED <<cellState, cancelled, clientVars, actorVars, callbackVars, history>>
  BY DEF Reports, Emit, RuntimeEnds, queueVars
<1>2. UNCHANGED <<client, observer, paused, runtimeClosed, pc, after, phase, notifications, tools, received>>
  BY <1>1 DEF cellState, clientVars, actorVars, controlVars, callbackVars, history
<1>3. /\ CellTypes' /\ ClientTypes' /\ ContentTypes' /\ ActorTypes'
      /\ CloseInv' /\ WaitInv' /\ OutcomeInv' /\ ContentInv'
  BY <1>1, ThreadRest
<1>4. events \in Seq(EventKinds) /\ rtControl \in Seq(ControlKinds)
  BY <1>0 DEF ThreadTypes
<1>5. /\ events' \in Seq(EventKinds) /\ ToSet(events') = ToSet(events) \cup {e}
      /\ \A K : Count(events', K) = Count(events, K) + (IF e \in K THEN 1 ELSE 0)
      /\ \A K : Count(events, K) \in Nat
  <2>1. e \in EventKinds
    OBVIOUS
  <2>2. events' \in Seq(EventKinds) /\ ToSet(events') = ToSet(events) \cup {e}
    BY <2>1, <1>1, <1>4, Appended
  <2>3. \A K : Count(events', K) = Count(events, K) + (IF e \in K THEN 1 ELSE 0)
    BY <2>1, <1>1, <1>4, CountAppend
  <2> QED
    BY <2>2, <2>3, <1>4, CountType
<1>6. ThreadTypes'
  <2>1. rtCommands' \in Seq(CommandKinds) /\ rtControl' \in Seq(ControlKinds)
    <3>1. rtCommands \in Seq(CommandKinds) /\ rtControl \in Seq(ControlKinds)
      BY <1>0 DEF ThreadTypes
    <3>2. <<>> \in Seq(CommandKinds) /\ <<>> \in Seq(ControlKinds)
      OBVIOUS
    <3>3. \/ rtCommands' = rtCommands /\ rtControl' = rtControl
          \/ rtCommands' = <<>> /\ rtControl' = <<>>
      BY <1>1
    <3> QED
      BY <3>1, <3>2, <3>3
  <2> QED
    BY <2>1, <1>1, <1>5 DEF ThreadTypes
<1>7. CountInv'
  <2>1. made.items \in Nat /\ made.calls \in Nat /\ made'.items \in Nat /\ made'.calls \in Nat
    BY <1>0, <1>1, ConstantsAssumption DEF ThreadTypes, ConstantsAssumption
  <2>2. /\ Count(events', {"ContentItem"}) = Count(events, {"ContentItem"}) + (IF e = "ContentItem" THEN 1 ELSE 0)
        /\ Count(events', {"Notify", "ToolCall"})
              = Count(events, {"Notify", "ToolCall"}) + (IF e \in {"Notify", "ToolCall"} THEN 1 ELSE 0)
        /\ Count(events, {"ContentItem"}) \in Nat /\ Count(events, {"Notify", "ToolCall"}) \in Nat
    BY <1>5
  <2>3. received \in Nat
    BY <1>0 DEF ContentTypes
  <2>4. /\ notifications \in Nat /\ tools \in Nat
        /\ received + Count(events, {"ContentItem"}) <= made.items
        /\ notifications + tools + Count(events, {"Notify", "ToolCall"}) <= made.calls
    BY <1>0 DEF CountInv
  <2>5. received' + Count(events', {"ContentItem"}) <= made'.items
    <3>1. /\ received' = received
          /\ made'.items = made.items + (IF e = "ContentItem" THEN 1 ELSE 0)
      BY <1>1, <1>2
    <3> QED
      BY <2>1, <2>2, <2>3, <2>4, <3>1
  <2>6. notifications' + tools' + Count(events', {"Notify", "ToolCall"}) <= made'.calls
    BY <2>1, <2>2, <2>4, <1>1, <1>2
  <2> QED
    BY <2>4, <2>5, <2>6, <1>2 DEF CountInv
<1>8. PhaseInv'
  BY <1>0, <1>1, <1>2, <1>5 DEF PhaseInv, Complete, Buried, Draining
<1>9. PauseInv'
  <2>1. CASE rt' = "executing"
    <3>1. Count(events', {"Pending"}) = Count(events, {"Pending"})
      BY <1>5
    <3>2. rtControl' = rtControl
      BY <2>1, <1>1
    <3> QED
      BY <2>1, <3>1, <3>2, <1>0, <1>1, <1>2 DEF PauseInv, Pauses
  <2>2. CASE rt' = "gone"
    BY <2>2 DEF PauseInv
  <2> QED
    BY <2>1, <2>2, <1>1
<1>10. FrontierInv'
  BY <1>0, <1>1, <1>2 DEF FrontierInv, Alive
<1> QED
  BY <1>3, <1>6, <1>7, <1>8, <1>9, <1>10 DEF Inv, Types

LEMMA ScriptStep ==
    ASSUME Inv,
           \/ Started \/ ScriptOutputs \/ ScriptEnds \/ ThreadPanics
           \/ \E e \in {"YieldRequested", "Notify", "ToolCall"} : ScriptCalls(e)
    PROVE  Inv'
<1>0. MaxItems \in Nat /\ MaxCalls \in Nat
  BY ConstantsAssumption DEF ConstantsAssumption
<1>1. made \in [items : 0..MaxItems, calls : 0..MaxCalls]
  BY DEF Inv, Types, ThreadTypes
<1>2. made.items \in Nat /\ made.calls \in Nat
  BY <1>0, <1>1
<1>3. CASE Started
  <2>1. Reports("Started")
    BY <1>1, <1>2, <1>3 DEF Started, Reports
  <2> QED
    BY <2>1, ReportStep DEF EventKinds
<1>4. CASE ScriptOutputs
  <2>1. made' \in [items : 0..MaxItems, calls : 0..MaxCalls] /\ made'.items = made.items + 1 /\ made'.calls = made.calls
    BY <1>0, <1>1, <1>2, <1>4 DEF ScriptOutputs
  <2>2. Reports("ContentItem")
    BY <2>1, <1>2, <1>4 DEF ScriptOutputs, Reports
  <2> QED
    BY <2>2, ReportStep DEF EventKinds
<1>5. CASE ScriptEnds
  <2>1. Reports("Result")
    BY <1>1, <1>2, <1>5 DEF ScriptEnds, Reports
  <2> QED
    BY <2>1, ReportStep DEF EventKinds
<1>6. CASE ThreadPanics
  <2>1. Reports("ThreadPanicked")
    BY <1>1, <1>2, <1>6 DEF ThreadPanics, Reports
  <2> QED
    BY <2>1, ReportStep DEF EventKinds
<1>7. ASSUME NEW e \in {"YieldRequested", "Notify", "ToolCall"}, ScriptCalls(e) PROVE Inv'
  <2>1. made' \in [items : 0..MaxItems, calls : 0..MaxCalls] /\ made'.items = made.items /\ made'.calls = made.calls + 1
    BY <1>0, <1>1, <1>2, <1>7 DEF ScriptCalls
  <2>2. Reports(e)
    BY <2>1, <1>2, <1>7 DEF ScriptCalls, Reports
  <2> QED
    BY <2>2, ReportStep DEF EventKinds
<1> QED
  BY <1>3, <1>4, <1>5, <1>6, <1>7

LEMMA CommandStep ==
    ASSUME Inv, NextRuntimeCommand
    PROVE  Inv'
<1>0. /\ Types /\ CountInv /\ PhaseInv /\ PauseInv /\ FrontierInv
      /\ ActorTypes /\ ThreadTypes /\ ContentTypes
  BY DEF Inv, Types
<1>1. UNCHANGED <<cellState, cancelled, clientVars, actorVars, callbackVars, made, history>>
  BY DEF NextRuntimeCommand
<1>2. UNCHANGED <<client, observer, paused, runtimeClosed, pc, after, phase, notifications, tools, received, made>>
  BY <1>1 DEF cellState, clientVars, actorVars, controlVars, callbackVars, history
<1>3. /\ CellTypes' /\ ClientTypes' /\ ContentTypes' /\ ActorTypes'
      /\ CloseInv' /\ WaitInv' /\ OutcomeInv' /\ ContentInv'
  BY <1>1, ThreadRest
<1>4. /\ events \in Seq(EventKinds) /\ rtControl \in Seq(ControlKinds) /\ rtCommands \in Seq(CommandKinds)
      /\ paused \in BOOLEAN
  BY <1>0 DEF ThreadTypes, ActorTypes
<1>5. \A K : Count(events, K) \in Nat /\ Count(rtControl, K) \in Nat
  BY <1>0, EventCounts
<1>6. CASE RuntimeEnds /\ events' = events
  <2>1. rt' = "gone" /\ rtCommands' = <<>> /\ rtControl' = <<>> /\ events' = events
    BY <1>6 DEF RuntimeEnds
  <2>2. ThreadTypes'
    BY <2>1, <1>0, <1>2 DEF ThreadTypes
  <2>3. CountInv'
    BY <2>1, <1>0, <1>2, CountFrame
  <2>4. PhaseInv'
    BY <2>1, <1>0, <1>2 DEF PhaseInv, Complete, Buried, Draining
  <2>5. PauseInv' /\ FrontierInv'
    BY <2>1, <1>0, <1>2 DEF PauseInv, FrontierInv, Alive
  <2> QED
    BY <2>2, <2>3, <2>4, <2>5, <1>3 DEF Inv, Types
<1>7. CASE /\ rt \in {"executing", "polling", "waiting"} /\ rtCommands # <<>>
           /\ rt' = "executing" /\ rtCommands' = Tail(rtCommands)
           /\ rtControl' = rtControl /\ events' = events
  <2>1. Tail(rtCommands) \in Seq(CommandKinds)
    BY <1>4, <1>7
  <2>2. ThreadTypes'
    BY <2>1, <1>0, <1>2, <1>7 DEF ThreadTypes
  <2>3. CountInv'
    BY <1>0, <1>2, <1>7, CountFrame
  <2>4. PhaseInv'
    BY <1>0, <1>2, <1>7 DEF PhaseInv, Complete, Buried, Draining
  <2>5. PauseInv'
    BY <1>0, <1>2, <1>7 DEF PauseInv, Pauses
  <2>6. FrontierInv'
    BY <1>0, <1>2, <1>7 DEF FrontierInv, Alive
  <2> QED
    BY <2>2, <2>3, <2>4, <2>5, <2>6, <1>3 DEF Inv, Types
<1>8. CASE /\ rt \in {"executing", "polling"} /\ events' = Append(events, "Pending")
           /\ rt' = "paused" /\ rtCommands' = rtCommands /\ rtControl' = rtControl
  <2>1. "Pending" \in EventKinds
    BY DEF EventKinds
  <2>2. /\ events' \in Seq(EventKinds) /\ ToSet(events') = ToSet(events) \cup {"Pending"}
        /\ \A K : Count(events', K) = Count(events, K) + (IF "Pending" \in K THEN 1 ELSE 0)
    BY <2>1, <1>4, <1>8, Appended, CountAppend
  <2>3. ThreadTypes'
    BY <2>2, <1>0, <1>2, <1>8 DEF ThreadTypes
  <2>4. CountInv'
    <3>1. /\ Count(events', {"ContentItem"}) = Count(events, {"ContentItem"})
          /\ Count(events', {"Notify", "ToolCall"}) = Count(events, {"Notify", "ToolCall"})
      BY <2>2, <1>5
    <3> QED
      BY <3>1, <1>0, <1>2 DEF CountInv
  <2>5. PhaseInv'
    BY <2>2, <1>0, <1>2, <1>8 DEF PhaseInv, Complete, Buried, Draining
  <2>6. Pauses = 0
    BY <1>0, <1>8 DEF PauseInv
  <2>7. PauseInv'
    <3>1. Count(events', {"Pending"}) = Count(events, {"Pending"}) + 1
      BY <2>2
    <3> QED
      BY <2>6, <3>1, <1>2, <1>4, <1>5, <1>8 DEF PauseInv, Pauses
  <2>8. FrontierInv'
    <3>1. Count(rtControl, {"Continue", "Resume"}) = 0
      BY <2>6, <1>4, <1>5 DEF Pauses
    <3>2. "Continue" \notin ToSet(rtControl)
      BY <3>1, <1>4, CountNone
    <3> QED
      BY <3>2, <1>0, <1>2, <1>8 DEF FrontierInv
  <2> QED
    BY <2>3, <2>4, <2>5, <2>7, <2>8, <1>3 DEF Inv, Types
<1>9. CASE /\ rt = "paused" /\ rtControl # <<>> /\ Head(rtControl) # "Terminate"
           /\ rt' = IF Head(rtControl) = "Continue" THEN "waiting" ELSE "polling"
           /\ rtControl' = Tail(rtControl)
           /\ rtCommands' = rtCommands /\ events' = events
  <2>1. Tail(rtControl) \in Seq(ControlKinds) /\ Head(rtControl) \in ControlKinds /\ Head(rtControl) \in ToSet(rtControl)
    BY <1>4, <1>9, Shortened
  <2>2. ThreadTypes'
    BY <2>1, <1>0, <1>2, <1>9 DEF ThreadTypes
  <2>3. CountInv'
    BY <1>0, <1>2, <1>9, CountFrame
  <2>4. PhaseInv'
    BY <1>0, <1>2, <1>9 DEF PhaseInv, Complete, Buried, Draining
  <2>5. PauseInv'
    <3>1. Head(rtControl) \in {"Continue", "Resume"}
      BY <2>1, <1>9 DEF ControlKinds
    <3>2. Count(rtControl, {"Continue", "Resume"}) = Count(rtControl', {"Continue", "Resume"}) + 1
      BY <3>1, <1>4, <1>9, CountTail
    <3>3. Count(rtControl', {"Continue", "Resume"}) \in Nat
      BY <2>1, <1>9, CountType
    <3>4. Pauses = 1
      BY <1>0, <1>9 DEF PauseInv
    <3>5. /\ Count(events, {"Pending"}) \in Nat /\ Count(events', {"Pending"}) = Count(events, {"Pending"})
          /\ paused' = paused
      BY <1>2, <1>5, <1>9
    <3>6. Count(events, {"Pending"}) = 0 /\ ~paused /\ Count(rtControl', {"Continue", "Resume"}) = 0
      BY <3>2, <3>3, <3>4, <3>5 DEF Pauses
    <3>7. Pauses' = 0
      BY <3>5, <3>6 DEF Pauses
    <3> QED
      BY <3>7, <1>9 DEF PauseInv
  <2>6. FrontierInv'
    BY <2>1, <1>0, <1>2, <1>9 DEF FrontierInv, Alive
  <2> QED
    BY <2>2, <2>3, <2>4, <2>5, <2>6, <1>3 DEF Inv, Types
<1> QED
  BY <1>6, <1>7, <1>8, <1>9 DEF NextRuntimeCommand, TakeRuntimeCommand, Emit, queueVars

-----------------------------------------------------------------------------
(***************************************************************************)
(* The callbacks.                                                          *)
(***************************************************************************)
LEMMA CallbackStepInv ==
    ASSUME Inv, CallbackStep
    PROVE  Inv'
<1> USE DEF cellState, clientVars, actorVars, controlVars, threadVars, runtimeVars, queueVars, history
<1>0. /\ Types /\ CountInv /\ PhaseInv /\ CloseInv /\ WaitInv /\ OutcomeInv
      /\ ContentInv /\ PauseInv /\ FrontierInv
      /\ CellTypes /\ ClientTypes /\ ContentTypes /\ ActorTypes /\ ThreadTypes
  BY DEF Inv, Types
<1>1. /\ UNCHANGED <<cellState, cancelled, clientVars, actorVars, callbacksCancelled,
                     rt, made, events, rtControl, history>>
      /\ \/ notifications > 0 /\ notifications' = notifications - 1 /\ tools' = tools /\ rtCommands' = rtCommands
         \/ /\ tools > 0 /\ tools' = tools - 1 /\ notifications' = notifications
            /\ rtCommands' = ToRuntime(rtCommands, "ToolResponse")
  BY DEF CallbackStep, NotificationEnds, ToolEnds
<1>2. Shrinks /\ Outcomes' = Outcomes
  BY <1>1, Unshrunk
<1>3. rtCommands' \in Seq(CommandKinds) /\ (rtCommands' # <<>> \/ rtCommands' = rtCommands)
  <2>1. rtCommands \in Seq(CommandKinds) /\ "ToolResponse" \in CommandKinds
    BY <1>0 DEF ThreadTypes, CommandKinds
  <2> QED
    BY <2>1, <1>1, ToRuntimeIs
<1>4. CellTypes' /\ ClientTypes' /\ ContentTypes' /\ ActorTypes'
  BY <1>0, <1>1, CellFrame, ClientFrame, ContentTypesFrame, ActorFrame
<1>5. ThreadTypes'
  BY <1>0, <1>1, <1>3 DEF ThreadTypes
<1>6. notifications \in Nat /\ tools \in Nat /\ notifications' \in Nat /\ tools' \in Nat
  BY <1>0, <1>1 DEF CountInv
<1>7. CountInv'
  <2>1. Count(events, {"Notify", "ToolCall"}) \in Nat /\ made.calls \in Nat
    BY <1>0, EventCounts, ConstantsAssumption DEF ThreadTypes, ConstantsAssumption
  <2> QED
    BY <2>1, <1>0, <1>1, <1>6 DEF CountInv
<1>8. CloseInv'
  BY <1>0, <1>1, <1>6 DEF CloseInv, Buried, Draining
<1>9. PhaseInv' /\ WaitInv' /\ OutcomeInv' /\ ContentInv' /\ PauseInv' /\ FrontierInv'
  BY <1>0, <1>1, <1>2, <1>3, PhaseFrame, WaitFrame, OutcomeFrame, ContentFrame, PauseFrame, FrontierFrame
<1> QED
  BY <1>4, <1>5, <1>7, <1>8, <1>9 DEF Inv, Types

-----------------------------------------------------------------------------
(***************************************************************************)
(* The actor: the parts its steps are made of.                             *)
(***************************************************************************)
LEMMA ToldReply ==
    ASSUME ClientTypes, NEW R, NEW kind \in Replies, Tell(R, Reply(kind))
    PROVE  /\ client' \in [Clients -> CallType]
           /\ Shrinks
           /\ \A c \in Clients : client'[c].at = "waiting" => c \notin R
           /\ Outcomes' \subseteq Outcomes
<1>1. Reply(kind) \in Answers /\ Reply(kind) \notin Terminal
  BY RepliesAre
<1> QED
  BY <1>1, Told

LEMMA NobodyObserves ==
    ASSUME observer' = None
    PROVE  FrontierInv'
  BY DEF FrontierInv, Alive

\* begin_termination: the thread gets something to read wherever it waits.
LEMMA TerminationBegins ==
    ASSUME ThreadTypes, ActorTypes, PauseInv, FrontierInv, Shrinks, beginTermination,
           UNCHANGED <<rt, made, events, paused, observer>>
    PROVE  ThreadTypes' /\ PauseInv' /\ FrontierInv'
<1>1. rtControl \in Seq(ControlKinds) /\ rtCommands \in Seq(CommandKinds)
  BY DEF ThreadTypes
<1>2. "Terminate" \in ControlKinds /\ "Terminate" \in CommandKinds
  BY DEF ControlKinds, CommandKinds
<1>3. rtCommands' = ToRuntime(rtCommands, "Terminate") /\ rtControl' = ToRuntime(rtControl, "Terminate")
  BY DEF beginTermination
<1>4. rtCommands' \in Seq(CommandKinds) /\ rtControl' \in Seq(ControlKinds)
  BY <1>1, <1>2, <1>3, ToRuntimeIs
<1>5. ThreadTypes'
  BY <1>4 DEF ThreadTypes
<1>6. CASE rt = "gone"
  <2>1. rtCommands' = rtCommands /\ rtControl' = rtControl
    BY <1>3, <1>6 DEF ToRuntime
  <2> QED
    BY <2>1, <1>5, PauseFrame, FrontierFrame
<1>7. CASE rt # "gone"
  <2>1. rtCommands' # <<>> /\ rtControl' = Append(rtControl, "Terminate")
    BY <1>1, <1>2, <1>3, <1>7, ToRuntimeIs
  <2>2. Count(rtControl', {"Continue", "Resume"}) = Count(rtControl, {"Continue", "Resume"})
    <3>1. "Terminate" \notin {"Continue", "Resume"}
      OBVIOUS
    <3>2. Count(rtControl, {"Continue", "Resume"}) \in Nat
      BY <1>1, CountType
    <3> QED
      BY <2>1, <3>1, <3>2, <1>1, <1>2, CountAppend
  <2>3. PauseInv'
    BY <2>2 DEF PauseInv, Pauses
  <2>4. FrontierInv'
    <3>1. observer # None => observer \in Clients
      BY ObserverIsClient
    <3> QED
      BY <2>1, <3>1 DEF FrontierInv, Shrinks
  <2> QED
    BY <2>3, <2>4, <1>5
<1> QED
  BY <1>6, <1>7

\* The queue of commands is dropped: whoever waits in it is told.
LEMMA CommandsDropped ==
    ASSUME ClientTypes, WaitInv, DropCommands, UNCHANGED <<observer, responder>>
    PROVE  ClientTypes' /\ Shrinks /\ Outcomes' \subseteq Outcomes /\ WaitInv'
<1>1. commands' = <<>> /\ open' = FALSE /\ Tell(ToSet(commands), Reply("Closed"))
  BY DEF DropCommands
<1>2. /\ client' \in [Clients -> CallType]
      /\ Shrinks
      /\ \A c \in Clients : client'[c].at = "waiting" => c \notin ToSet(commands)
      /\ Outcomes' \subseteq Outcomes
  BY <1>1, ToldReply DEF Replies
<1>3. ClientTypes'
  <2>1. <<>> \in Seq(Observers)
    OBVIOUS
  <2> QED
    BY <2>1, <1>1, <1>2 DEF ClientTypes
<1>4. WaitInv'
  BY <1>2 DEF WaitInv, Shrinks
<1> QED
  BY <1>2, <1>3, <1>4

\* An event is taken.
LEMMA Taken ==
    ASSUME ThreadTypes, NEW e, TakeEvent(e)
    PROVE  /\ events' \in Seq(EventKinds) /\ e \in ToSet(events)
           /\ ToSet(events') \subseteq ToSet(events)
           /\ \A K : Count(events, K) = Count(events', K) + (IF e \in K THEN 1 ELSE 0)
           /\ \A K : Count(events, K) \in Nat /\ Count(events', K) \in Nat
           /\ pc = "loop" /\ ~runtimeClosed
<1>1. events \in Seq(EventKinds) /\ events # <<>> /\ Head(events) = e /\ events' = Tail(events)
      /\ pc = "loop" /\ ~runtimeClosed
  BY DEF ThreadTypes, TakeEvent
<1>2. events' \in Seq(EventKinds) /\ ToSet(events) = ToSet(events') \cup {e}
  BY <1>1, Shortened
<1>3. \A K : Count(events, K) = Count(events', K) + (IF e \in K THEN 1 ELSE 0)
  BY <1>1, CountTail
<1>4. \A K : Count(events, K) \in Nat /\ Count(events', K) \in Nat
  BY <1>1, <1>2, CountType
<1> QED
  BY <1>1, <1>2, <1>3, <1>4

\* What is delivered and what is held are sequences of items.
LEMMA AllItems ==
    ASSUME ContentTypes, ThreadTypes, CountInv, ContentInv, phase \in {"Running", "Terminating"}
    PROVE  told \o content \in Items /\ <<>> \in Items /\ told \o content = Numbered(received)
<1>1. MaxItems \in Nat
  BY ConstantsAssumption DEF ConstantsAssumption
<1>2. told \in Seq(1..MaxItems) /\ content \in Seq(1..MaxItems) /\ received \in Nat
  BY <1>1, ItemsAre DEF ContentTypes
<1>3. 1..MaxItems \subseteq Nat
  BY <1>1
<1>4. told \in Seq(Nat) /\ content \in Seq(Nat)
  BY <1>2, <1>3, SeqMonotonic
<1>5. told \o content = Numbered(received)
  BY DEF ContentInv, Held
<1>6. received <= MaxItems
  <2>1. Count(events, {"ContentItem"}) \in Nat
    BY EventCounts
  <2>2. made.items \in Nat /\ made.items <= MaxItems
    BY <1>1 DEF ThreadTypes
  <2>3. received + Count(events, {"ContentItem"}) <= made.items
    BY DEF CountInv
  <2> QED
    BY <2>1, <2>2, <2>3, <1>1, <1>2
<1>7. <<>> \in Items
  <2>1. <<>> \in Seq(1..MaxItems) /\ Len(<<>>) <= MaxItems
    BY <1>1
  <2> QED
    BY <2>1, <1>1, ItemsAre
<1> QED
  BY <1>1, <1>2, <1>4, <1>5, <1>6, <1>7, SplitItems

\* The observer is sent what is held, if it is still there, and is let go.
Yields(kind) ==
    /\ pc = "loop"
    /\ Tell({observer}, Reply(kind))
    /\ told' = IF Alive(observer) THEN told \o content ELSE told
    /\ content' = IF Alive(observer) THEN <<>> ELSE content
    /\ observer' = None
    /\ UNCHANGED <<cellState, cancelled, commands, open, received>>

LEMMA YieldEffect ==
    ASSUME Inv, NEW kind \in Replies, Yields(kind)
    PROVE  /\ CellTypes' /\ ClientTypes' /\ ContentTypes'
           /\ WaitInv' /\ OutcomeInv' /\ ContentInv' /\ FrontierInv'
<1>0. /\ Types /\ CountInv /\ PhaseInv /\ WaitInv /\ OutcomeInv /\ ContentInv
      /\ CellTypes /\ ClientTypes /\ ContentTypes /\ ActorTypes /\ ThreadTypes
  BY DEF Inv, Types
<1>1. /\ pc = "loop" /\ Tell({observer}, Reply(kind))
      /\ told' = IF Alive(observer) THEN told \o content ELSE told
      /\ content' = IF Alive(observer) THEN <<>> ELSE content
      /\ observer' = None
      /\ UNCHANGED <<phase, responder, event, stored, cancelled, commands, open, received>>
  BY DEF Yields, cellState
<1>2. /\ client' \in [Clients -> CallType]
      /\ Shrinks
      /\ \A c \in Clients : client'[c].at = "waiting" => c \notin {observer}
      /\ Outcomes' \subseteq Outcomes
  BY <1>0, <1>1, ToldReply
<1>3. CellTypes' /\ FrontierInv'
  BY <1>0, <1>1, CellFrame, NobodyObserves
<1>4. ClientTypes'
  BY <1>0, <1>1, <1>2 DEF ClientTypes
<1>5. WaitInv'
  BY <1>0, <1>1, <1>2 DEF WaitInv, Shrinks
<1>6. CASE ~Alive(observer)
  <2>1. UNCHANGED <<told, content>>
    BY <1>1, <1>6
  <2> QED
    BY <2>1, <1>0, <1>1, <1>2, <1>3, <1>4, <1>5, ContentTypesFrame, OutcomeFrame, ContentFrame
<1>7. CASE Alive(observer)
  <2>1. phase \in {"Running", "Terminating"}
    BY <1>0, <1>1, <1>7 DEF PhaseInv, CellTypes, Complete, Buried, Draining, Alive
  <2>2. told \o content \in Items /\ <<>> \in Items /\ told \o content = Numbered(received)
    BY <2>1, <1>0, AllItems
  <2>3. told' = told \o content /\ content' = <<>>
    BY <1>1, <1>7
  <2>4. ContentTypes'
    BY <2>2, <2>3, <1>0, <1>1 DEF ContentTypes
  <2>5. OutcomeInv'
    BY <2>1, <1>0, <1>1, <1>2 DEF OutcomeInv, Complete
  <2>6. ContentInv'
    <3>1. (told \o content) \o <<>> = told \o content
      <4>1. told \o content \in Seq(1..MaxItems)
        BY <2>2, ItemsAre, ConstantsAssumption DEF ConstantsAssumption
      <4> QED
        BY <4>1, ConcatEmptySeq
    <3> QED
      BY <2>1, <2>2, <2>3, <3>1, <1>1 DEF ContentInv, Held
  <2> QED
    BY <2>4, <2>5, <2>6, <1>3, <1>4, <1>5
<1> QED
  BY <1>6, <1>7

-----------------------------------------------------------------------------
(***************************************************************************)
(* The actor: its loop.                                                    *)
(***************************************************************************)
LEMMA CancelledStep ==
    ASSUME Inv, Cancelled
    PROVE  Inv'
<1> USE DEF cellState, runtimeVars, history
<1>0. /\ Types /\ CountInv /\ PhaseInv /\ CloseInv /\ WaitInv /\ OutcomeInv
      /\ ContentInv /\ PauseInv /\ FrontierInv
      /\ CellTypes /\ ClientTypes /\ ContentTypes /\ ActorTypes /\ ThreadTypes
  BY DEF Inv, Types
<1>1. /\ pc = "loop" /\ termination' = TRUE /\ timer' = FALSE
      /\ DropCommands /\ beginTermination
      /\ \/ runtimeClosed /\ pc' = "drainNotifications" /\ after' = "finish" /\ callbacksCancelled' = TRUE
         \/ ~runtimeClosed /\ UNCHANGED <<pc, after, callbacksCancelled>>
      /\ UNCHANGED <<cellState, observer, content, ready, paused, runtimeClosed,
                     notifications, tools, runtimeVars, events, history>>
  BY DEF Cancelled, FinishCallbacks
<1>2. ClientTypes' /\ Shrinks /\ Outcomes' \subseteq Outcomes /\ WaitInv'
  BY <1>0, <1>1, CommandsDropped
<1>3. ThreadTypes' /\ PauseInv' /\ FrontierInv'
  BY <1>0, <1>1, <1>2, TerminationBegins
<1>4. CellTypes'
  BY <1>0, <1>1 DEF CellTypes, beginTermination
<1>5. ActorTypes'
  BY <1>0, <1>1 DEF ActorTypes
<1>6. ContentTypes' /\ CountInv' /\ ContentInv' /\ OutcomeInv'
  BY <1>0, <1>1, <1>2, ContentTypesFrame, CountFrame, ContentFrame, OutcomeFrame
<1>7. PhaseInv'
  BY <1>0, <1>1 DEF PhaseInv, Complete, Buried, Draining
<1>8. CloseInv'
  BY <1>0, <1>1 DEF CloseInv, Buried, Draining, DropCommands
<1> QED
  BY <1>2, <1>3, <1>4, <1>5, <1>6, <1>7, <1>8 DEF Inv, Types

LEMMA TimerStep ==
    ASSUME Inv, TimerFires
    PROVE  Inv'
<1> USE DEF controlVars, callbackVars, threadVars, runtimeVars, queueVars
<1>0. /\ Types /\ CountInv /\ PhaseInv /\ CloseInv /\ PauseInv /\ ActorTypes /\ ThreadTypes
  BY DEF Inv, Types
<1>1. /\ pc = "loop" /\ timer' = FALSE /\ yieldObserver
      /\ UNCHANGED <<cellState, cancelled, commands, open, ready, paused, controlVars,
                     callbackVars, threadVars, received>>
  BY DEF TimerFires
<1>2. Yields("Yielded") /\ observer' = None
  BY <1>1 DEF Yields, yieldObserver
<1>3. /\ CellTypes' /\ ClientTypes' /\ ContentTypes'
      /\ WaitInv' /\ OutcomeInv' /\ ContentInv' /\ FrontierInv'
  BY <1>2, YieldEffect DEF Replies
<1>4. ActorTypes'
  BY <1>0, <1>1, <1>2 DEF ActorTypes
<1>5. ThreadTypes' /\ CountInv' /\ CloseInv' /\ PauseInv'
  BY <1>0, <1>1, ThreadFrame, CountFrame, CloseFrame, PauseFrame
<1>6. PhaseInv'
  BY <1>0, <1>1, <1>2 DEF PhaseInv, Complete, Buried, Draining, cellState
<1> QED
  BY <1>3, <1>4, <1>5, <1>6 DEF Inv, Types

\* An event that is neither an item nor a pause: the actor changes no more
\* than its timer, and counts a callback.
Passes(e) ==
    /\ TakeEvent(e)
    /\ e \notin {"Pending"}
    /\ timer' \in BOOLEAN
    /\ \/ notifications' = notifications /\ tools' = tools
       \/ e \in {"Notify", "ToolCall"} /\ notifications' = notifications + 1 /\ tools' = tools
       \/ e \in {"Notify", "ToolCall"} /\ notifications' = notifications /\ tools' = tools + 1
    /\ UNCHANGED <<cellState, cancelled, clientVars, observer, content, ready, paused, controlVars,
                   callbacksCancelled, runtimeVars, queueVars, history>>

LEMMA PassStep ==
    ASSUME Inv, NEW e, Passes(e)
    PROVE  Inv'
<1> USE DEF cellState, clientVars, controlVars, runtimeVars, queueVars, history
<1>0. /\ Types /\ CountInv /\ PhaseInv /\ CloseInv /\ WaitInv /\ OutcomeInv
      /\ ContentInv /\ PauseInv /\ FrontierInv
      /\ CellTypes /\ ClientTypes /\ ContentTypes /\ ActorTypes /\ ThreadTypes
  BY DEF Inv, Types
<1>1. /\ TakeEvent(e) /\ e \notin {"Pending"} /\ timer' \in BOOLEAN
      /\ \/ notifications' = notifications /\ tools' = tools
         \/ e \in {"Notify", "ToolCall"} /\ notifications' = notifications + 1 /\ tools' = tools
         \/ e \in {"Notify", "ToolCall"} /\ notifications' = notifications /\ tools' = tools + 1
      /\ UNCHANGED <<cellState, cancelled, clientVars, observer, content, ready, paused, controlVars,
                     callbacksCancelled, runtimeVars, queueVars, history>>
  BY DEF Passes
<1>2. /\ events' \in Seq(EventKinds) /\ e \in ToSet(events)
      /\ ToSet(events') \subseteq ToSet(events)
      /\ \A K : Count(events, K) = Count(events', K) + (IF e \in K THEN 1 ELSE 0)
      /\ \A K : Count(events, K) \in Nat /\ Count(events', K) \in Nat
      /\ pc = "loop" /\ ~runtimeClosed
  BY <1>0, <1>1, Taken
<1>3. Shrinks /\ Outcomes' = Outcomes
  BY <1>1, Unshrunk
<1>4. CellTypes' /\ ClientTypes' /\ ContentTypes'
  BY <1>0, <1>1, CellFrame, ClientFrame, ContentTypesFrame
<1>5. ActorTypes' /\ ThreadTypes'
  BY <1>0, <1>1, <1>2 DEF ActorTypes, ThreadTypes
<1>6. CountInv'
  <2>1. /\ Count(events, {"ContentItem"}) = Count(events', {"ContentItem"}) + (IF e = "ContentItem" THEN 1 ELSE 0)
        /\ Count(events, {"Notify", "ToolCall"})
              = Count(events', {"Notify", "ToolCall"}) + (IF e \in {"Notify", "ToolCall"} THEN 1 ELSE 0)
        /\ Count(events', {"ContentItem"}) \in Nat /\ Count(events', {"Notify", "ToolCall"}) \in Nat
    BY <1>2
  <2>2. received \in Nat /\ made.items \in Nat /\ made.calls \in Nat
    BY <1>0, ConstantsAssumption DEF ContentTypes, ThreadTypes, ConstantsAssumption
  <2> QED
    BY <2>1, <2>2, <1>0, <1>1 DEF CountInv
<1>7. PhaseInv'
  BY <1>0, <1>1, <1>2 DEF PhaseInv, Complete, Buried, Draining
<1>8. CloseInv'
  BY <1>0, <1>1, <1>2 DEF CloseInv, Buried, Draining
<1>9. PauseInv'
  <2>1. Count(events', {"Pending"}) = Count(events, {"Pending"})
    BY <1>1, <1>2
  <2> QED
    BY <2>1, <1>0, <1>1 DEF PauseInv, Pauses
<1>10. WaitInv' /\ OutcomeInv' /\ ContentInv' /\ FrontierInv'
  BY <1>0, <1>1, <1>3, WaitFrame, OutcomeFrame, ContentFrame, FrontierFrame
<1> QED
  BY <1>4, <1>5, <1>6, <1>7, <1>8, <1>9, <1>10 DEF Inv, Types

LEMMA PassedStep ==
    ASSUME Inv, ReceiveStarted \/ ReceiveCallback \/ ReceiveThreadPanicked
    PROVE  Inv'
<1>0. timer \in BOOLEAN
  BY DEF Inv, Types, ActorTypes
<1>1. ASSUME ReceiveStarted PROVE \E e : Passes(e)
  <2>1. timer' \in BOOLEAN
    BY <1>1 DEF ReceiveStarted, ObserverMode
  <2>2. Passes("Started")
    BY <2>1, <1>1 DEF ReceiveStarted, Passes, callbackVars
  <2> QED
    BY <2>2
<1>2. ASSUME ReceiveThreadPanicked PROVE \E e : Passes(e)
  <2>1. Passes("ThreadPanicked")
    BY <1>0, <1>2 DEF ReceiveThreadPanicked, Passes, callbackVars, actorVars
  <2> QED
    BY <2>1
<1>3. ASSUME ReceiveCallback PROVE \E e : Passes(e)
  <2>1. Passes("Notify") \/ Passes("ToolCall")
    BY <1>0, <1>3 DEF ReceiveCallback, Passes, actorVars
  <2> QED
    BY <2>1
<1>4. PICK e : Passes(e)
  BY <1>1, <1>2, <1>3
<1> QED
  BY <1>4, PassStep

LEMMA YieldRequestStep ==
    ASSUME Inv, ReceiveYieldRequested
    PROVE  Inv'
<1>0. /\ Types /\ CountInv /\ PhaseInv /\ CloseInv /\ PauseInv
      /\ ContentTypes /\ ActorTypes /\ ThreadTypes
  BY DEF Inv, Types
<1>1. CASE ~ObserverMode("YieldAfter")
  <2>1. timer' = timer /\ timer \in BOOLEAN
    BY <1>0, <1>1 DEF ReceiveYieldRequested, ActorTypes
  <2>2. Passes("YieldRequested")
    BY <2>1, <1>1 DEF ReceiveYieldRequested, Passes, callbackVars, clientVars, history
  <2> QED
    BY <2>2, PassStep
<1>2. CASE ObserverMode("YieldAfter")
  <2> USE DEF controlVars, callbackVars, runtimeVars, queueVars
  <2>1. /\ TakeEvent("YieldRequested") /\ timer' = FALSE /\ yieldObserver
        /\ UNCHANGED <<cellState, cancelled, commands, open, ready, paused, controlVars,
                       callbackVars, runtimeVars, queueVars, received>>
    BY <1>2 DEF ReceiveYieldRequested
  <2>2. /\ events' \in Seq(EventKinds)
        /\ ToSet(events') \subseteq ToSet(events)
        /\ \A K : Count(events, K) = Count(events', K) + (IF "YieldRequested" \in K THEN 1 ELSE 0)
        /\ \A K : Count(events, K) \in Nat /\ Count(events', K) \in Nat
        /\ pc = "loop" /\ ~runtimeClosed
    BY <2>1, <1>0, Taken
  <2>3. Yields("Yielded") /\ observer' = None
    BY <2>1, <2>2 DEF Yields, yieldObserver
  <2>4. /\ CellTypes' /\ ClientTypes' /\ ContentTypes'
        /\ WaitInv' /\ OutcomeInv' /\ ContentInv' /\ FrontierInv'
    BY <2>3, YieldEffect DEF Replies
  <2>5. ActorTypes' /\ ThreadTypes'
    BY <2>1, <2>2, <2>3, <1>0 DEF ActorTypes, ThreadTypes
  <2>6. /\ Count(events', {"ContentItem"}) = Count(events, {"ContentItem"})
        /\ Count(events', {"Notify", "ToolCall"}) = Count(events, {"Notify", "ToolCall"})
        /\ Count(events', {"Pending"}) = Count(events, {"Pending"})
    BY <2>2
  <2>7. CountInv' /\ PauseInv'
    BY <2>1, <2>6, <1>0 DEF CountInv, PauseInv, Pauses
  <2>8. PhaseInv'
    BY <2>1, <2>2, <2>3, <1>0 DEF PhaseInv, Complete, Buried, Draining, cellState
  <2>9. CloseInv'
    BY <2>1, <1>0, CloseFrame
  <2> QED
    BY <2>4, <2>5, <2>7, <2>8, <2>9 DEF Inv, Types
<1> QED
  BY <1>1, <1>2

LEMMA PendingStep ==
    ASSUME Inv, ReceivePending
    PROVE  Inv'
<1> USE DEF controlVars, callbackVars, runtimeVars, queueVars
<1>0. /\ Types /\ CountInv /\ PhaseInv /\ CloseInv /\ WaitInv /\ OutcomeInv
      /\ ContentInv /\ PauseInv /\ FrontierInv
      /\ CellTypes /\ ClientTypes /\ ContentTypes /\ ActorTypes /\ ThreadTypes
  BY DEF Inv, Types
<1>1. /\ TakeEvent("Pending")
      /\ UNCHANGED <<cellState, cancelled, commands, open, controlVars,
                     callbackVars, runtimeVars, rtCommands, received>>
  BY DEF ReceivePending
<1>2. /\ events' \in Seq(EventKinds)
      /\ ToSet(events') \subseteq ToSet(events)
      /\ \A K : Count(events, K) = Count(events', K) + (IF "Pending" \in K THEN 1 ELSE 0)
      /\ \A K : Count(events, K) \in Nat /\ Count(events', K) \in Nat
      /\ pc = "loop" /\ ~runtimeClosed
  BY <1>0, <1>1, Taken
<1>3. /\ Count(events', {"ContentItem"}) = Count(events, {"ContentItem"})
      /\ Count(events', {"Notify", "ToolCall"}) = Count(events, {"Notify", "ToolCall"})
      /\ Count(events, {"Pending"}) = Count(events', {"Pending"}) + 1
      /\ Count(events', {"Pending"}) \in Nat
  BY <1>2
<1>4. CountInv' /\ CloseInv'
  BY <1>0, <1>1, <1>3, CloseFrame DEF CountInv
<1>5. /\ rtControl \in Seq(ControlKinds) /\ paused \in BOOLEAN
      /\ Count(rtControl, {"Continue", "Resume"}) \in Nat
  BY <1>0, EventCounts DEF ThreadTypes, ActorTypes
<1>6. rt # "gone" => /\ rt = "paused" /\ ~paused /\ Count(events', {"Pending"}) = 0
                     /\ Count(rtControl, {"Continue", "Resume"}) = 0
  <2> SUFFICES ASSUME rt # "gone"
               PROVE  /\ rt = "paused" /\ ~paused /\ Count(events', {"Pending"}) = 0
                      /\ Count(rtControl, {"Continue", "Resume"}) = 0
    OBVIOUS
  <2>1. Pauses = IF rt = "paused" THEN 1 ELSE 0
    BY <1>0 DEF PauseInv
  <2>2. Pauses = Count(events', {"Pending"}) + 1 + Count(rtControl, {"Continue", "Resume"})
                    + (IF paused THEN 1 ELSE 0)
    BY <1>3 DEF Pauses
  <2> QED
    BY <2>1, <2>2, <1>3, <1>5
<1>7. CASE ObserverMode("PendingFrontier")
  <2>1. /\ paused' = TRUE /\ timer' = FALSE /\ observer' = None
        /\ Tell({observer}, Reply("Pending"))
        /\ ready' = ~Alive(observer)
        /\ told' = IF Alive(observer) THEN told \o content ELSE told
        /\ content' = IF Alive(observer) THEN <<>> ELSE content
        /\ rtControl' = rtControl
    BY <1>7 DEF ReceivePending
  <2>2. Yields("Pending")
    BY <2>1, <1>1, <1>2 DEF Yields
  <2>3. /\ CellTypes' /\ ClientTypes' /\ ContentTypes'
        /\ WaitInv' /\ OutcomeInv' /\ ContentInv' /\ FrontierInv'
    BY <2>2, YieldEffect DEF Replies
  <2>4. ready' \in BOOLEAN
    BY <2>1 DEF Alive
  <2>5. ActorTypes' /\ ThreadTypes'
    BY <2>1, <2>4, <1>0, <1>1, <1>2 DEF ActorTypes, ThreadTypes
  <2>6. PhaseInv'
    BY <2>1, <1>0, <1>1, <1>2 DEF PhaseInv, Complete, Buried, Draining, cellState
  <2>7. PauseInv'
    BY <2>1, <1>1, <1>6 DEF PauseInv, Pauses
  <2> QED
    BY <2>3, <2>5, <2>6, <2>7, <1>4 DEF Inv, Types
<1>8. CASE ~ObserverMode("PendingFrontier")
  <2>1. /\ rtControl' = ToRuntime(rtControl, "Continue")
        /\ paused' = FALSE
        /\ UNCHANGED <<client, observer, content, ready, timer, told>>
    BY <1>8 DEF ReceivePending
  <2> USE DEF cellState
  <2>2. Shrinks /\ Outcomes' = Outcomes
    BY <2>1, Unshrunk
  <2>3. "Continue" \in ControlKinds
    BY DEF ControlKinds
  <2>4. /\ rtControl' \in Seq(ControlKinds)
        /\ rt # "gone" => rtControl' = Append(rtControl, "Continue")
    BY <2>1, <2>3, <1>5, ToRuntimeIs
  <2>5. CellTypes' /\ ClientTypes' /\ ContentTypes'
    BY <2>1, <1>0, <1>1, CellFrame, ClientFrame, ContentTypesFrame
  <2>6. ActorTypes' /\ ThreadTypes'
    BY <2>1, <2>4, <1>0, <1>1, <1>2 DEF ActorTypes, ThreadTypes
  <2>7. PhaseInv'
    BY <2>1, <1>0, <1>1, <1>2 DEF PhaseInv, Complete, Buried, Draining
  <2>8. PauseInv'
    <3> SUFFICES ASSUME rt # "gone" PROVE Pauses' = 1 /\ rt = "paused"
      BY <1>1 DEF PauseInv
    <3>1. rtControl' = Append(rtControl, "Continue")
      BY <2>4
    <3>2. Count(rtControl', {"Continue", "Resume"}) = Count(rtControl, {"Continue", "Resume"}) + 1
      BY <3>1, <2>3, <1>5, CountAppend
    <3> QED
      BY <3>2, <2>1, <1>6 DEF Pauses
  <2>9. WaitInv' /\ OutcomeInv' /\ ContentInv'
    BY <2>1, <2>2, <1>0, <1>1, WaitFrame, OutcomeFrame, ContentFrame
  <2>10. FrontierInv'
    <3>1. observer # None => client[observer].mode # "PendingFrontier"
      BY <1>8 DEF ObserverMode
    <3> QED
      BY <3>1, <2>1, <1>0 DEF FrontierInv, Alive
  <2> QED
    BY <2>5, <2>6, <2>7, <2>8, <2>9, <2>10, <1>4 DEF Inv, Types
<1> QED
  BY <1>7, <1>8

\* The next item goes behind all the others.
LEMMA NextItem ==
    ASSUME NEW s \in Seq(Nat), NEW x \in Seq(Nat), NEW n \in Nat, s \o x = Numbered(n)
    PROVE  s \o Append(x, n + 1) = Numbered(n + 1)
<1> DEFINE l == s \o Append(x, n + 1)
           r == Numbered(n + 1)
<1>1. /\ Numbered(n) \in Seq(Nat) /\ Len(Numbered(n)) = n /\ \A i \in 1..n : Numbered(n)[i] = i
      /\ r \in Seq(Nat) /\ Len(r) = n + 1 /\ \A i \in 1..(n + 1) : r[i] = i
  BY DEF Numbered
<1>2. Len(s \o x) = Len(s) + Len(x) /\ Len(s) \in Nat /\ Len(x) \in Nat
  OBVIOUS
<1>3. Len(s) + Len(x) = n
  BY <1>1, <1>2
<1>4. /\ Append(x, n + 1) \in Seq(Nat) /\ Len(Append(x, n + 1)) = Len(x) + 1
      /\ \A i \in 1..Len(x) : Append(x, n + 1)[i] = x[i]
      /\ Append(x, n + 1)[Len(x) + 1] = n + 1
  OBVIOUS
<1> DEFINE y == Append(x, n + 1)
<1> HIDE DEF y
<1>5. y \in Seq(Nat) /\ Len(y) = Len(x) + 1 /\ (\A i \in 1..Len(x) : y[i] = x[i]) /\ y[Len(x) + 1] = n + 1
  BY <1>4 DEF y
<1>6. /\ s \o y \in Seq(Nat) /\ Len(s \o y) = Len(s) + Len(y)
      /\ \A i \in 1..(Len(s) + Len(y)) : (s \o y)[i] = IF i <= Len(s) THEN s[i] ELSE y[i - Len(s)]
  BY <1>5, ConcatProperties
<1>7. \A i \in 1..(Len(s) + Len(x)) : (s \o x)[i] = IF i <= Len(s) THEN s[i] ELSE x[i - Len(s)]
  BY ConcatProperties
<1>8. Len(s \o y) = n + 1
  BY <1>2, <1>3, <1>5, <1>6
<1>9. ASSUME NEW i \in 1..(n + 1) PROVE (s \o y)[i] = i
  <2>1. CASE i = n + 1
    <3>0. Len(s) \in Nat /\ Len(x) \in Nat /\ Len(y) = Len(x) + 1 /\ i = Len(s) + Len(x) + 1
      BY <2>1, <1>2, <1>3, <1>5
    <3>1. i - Len(s) = Len(x) + 1 /\ ~(i <= Len(s)) /\ i \in 1..(Len(s) + Len(y))
      BY <3>0
    <3> QED
      BY <3>1, <2>1, <1>5, <1>6
  <2>2. CASE i # n + 1
    <3>1. i \in 1..n /\ i \in 1..(Len(s) + Len(x)) /\ i \in 1..(Len(s) + Len(y))
      BY <2>2, <1>2, <1>3, <1>5
    <3>2. (s \o x)[i] = i
      BY <3>1, <1>1
    <3>3. CASE i <= Len(s)
      BY <3>1, <3>2, <3>3, <1>6, <1>7
    <3>4. CASE ~(i <= Len(s))
      <4>1. i - Len(s) \in 1..Len(x)
        BY <3>1, <3>4, <1>2
      <4> QED
        BY <4>1, <3>1, <3>2, <3>4, <1>5, <1>6, <1>7
    <3> QED
      BY <3>3, <3>4
  <2> QED
    BY <2>1, <2>2
<1> HIDE DEF r
<1>10. s \o y = r
  BY <1>1, <1>6, <1>8, <1>9, SeqEqual
<1> QED
  BY <1>10 DEF r, y

LEMMA ContentItemStep ==
    ASSUME Inv, ReceiveContentItem
    PROVE  Inv'
<1> USE DEF cellState, clientVars, controlVars, callbackVars, runtimeVars, queueVars
<1>0. /\ Types /\ CountInv /\ PhaseInv /\ CloseInv /\ WaitInv /\ OutcomeInv
      /\ ContentInv /\ PauseInv /\ FrontierInv
      /\ CellTypes /\ ClientTypes /\ ContentTypes /\ ActorTypes /\ ThreadTypes
  BY DEF Inv, Types
<1>1. /\ TakeEvent("ContentItem") /\ received' = received + 1
      /\ content' = Append(content, received + 1)
      /\ UNCHANGED <<cellState, cancelled, clientVars, observer, ready, paused, timer, controlVars,
                     callbackVars, runtimeVars, queueVars, told>>
  BY DEF ReceiveContentItem
<1>2. /\ events' \in Seq(EventKinds)
      /\ ToSet(events') \subseteq ToSet(events)
      /\ \A K : Count(events, K) = Count(events', K) + (IF "ContentItem" \in K THEN 1 ELSE 0)
      /\ \A K : Count(events, K) \in Nat /\ Count(events', K) \in Nat
      /\ pc = "loop" /\ ~runtimeClosed
  BY <1>0, <1>1, Taken
<1>3. /\ Count(events, {"ContentItem"}) = Count(events', {"ContentItem"}) + 1
      /\ Count(events', {"Notify", "ToolCall"}) = Count(events, {"Notify", "ToolCall"})
      /\ Count(events', {"Pending"}) = Count(events, {"Pending"})
      /\ Count(events', {"ContentItem"}) \in Nat
  BY <1>2
<1>4. MaxItems \in Nat /\ received \in Nat /\ made.items \in Nat /\ made.items <= MaxItems
  BY <1>0, ConstantsAssumption DEF ContentTypes, ThreadTypes, ConstantsAssumption
<1>5. CountInv'
  BY <1>0, <1>1, <1>3, <1>4 DEF CountInv
<1>6. received + 1 <= MaxItems /\ received + 1 \in Nat
  BY <1>0, <1>3, <1>4 DEF CountInv
<1>7. phase \in {"Running", "Terminating"}
  BY <1>0, <1>2 DEF PhaseInv, CellTypes, Complete, Buried, Draining
<1>8. told \in Seq(Nat) /\ content \in Seq(Nat)
  <2>1. told \in Seq(1..MaxItems) /\ content \in Seq(1..MaxItems)
    BY <1>0, <1>4, ItemsAre DEF ContentTypes
  <2>2. 1..MaxItems \subseteq Nat
    BY <1>4
  <2> QED
    BY <2>1, <2>2, SeqMonotonic
<1>9. told \o content = Numbered(received)
  BY <1>0, <1>7 DEF ContentInv, Held
<1>10. told \o Append(content, received + 1) = Numbered(received + 1)
  BY <1>4, <1>8, <1>9, NextItem
<1>11. ContentTypes'
  <2>1. Append(content, received + 1) \in Seq(Nat)
    BY <1>6, <1>8, Appended
  <2>2. Append(content, received + 1) \in Items
    BY <2>1, <1>4, <1>6, <1>8, <1>10, SplitItems
  <2> QED
    BY <2>2, <1>0, <1>1, <1>6 DEF ContentTypes
<1>12. ContentInv'
  BY <1>1, <1>7, <1>10 DEF ContentInv, Held
<1>13. Shrinks /\ Outcomes' = Outcomes
  BY <1>1, Unshrunk
<1>14. OutcomeInv'
  BY <1>0, <1>1, <1>7, <1>13 DEF OutcomeInv, Complete
<1>15. CellTypes' /\ ClientTypes'
  BY <1>0, <1>1, CellFrame, ClientFrame
<1>16. ActorTypes' /\ ThreadTypes'
  BY <1>0, <1>1, <1>2 DEF ActorTypes, ThreadTypes
<1>17. PhaseInv'
  BY <1>0, <1>1, <1>2 DEF PhaseInv, Complete, Buried, Draining
<1>18. PauseInv'
  BY <1>0, <1>1, <1>3 DEF PauseInv, Pauses
<1>19. CloseInv' /\ WaitInv' /\ FrontierInv'
  BY <1>0, <1>1, <1>13, CloseFrame, WaitFrame, FrontierFrame
<1> QED
  BY <1>5, <1>11, <1>12, <1>14, <1>15, <1>16, <1>17, <1>18, <1>19 DEF Inv, Types

LEMMA EndStep ==
    ASSUME Inv, ReceiveResult \/ ReceiveEnd
    PROVE  Inv'
<1> USE DEF cellState, clientVars, runtimeVars, queueVars, history
<1>0. /\ Types /\ CountInv /\ PhaseInv /\ CloseInv /\ WaitInv /\ OutcomeInv
      /\ ContentInv /\ PauseInv /\ FrontierInv
      /\ CellTypes /\ ClientTypes /\ ContentTypes /\ ActorTypes /\ ThreadTypes
  BY DEF Inv, Types
<1>1. RuntimeCloses
  BY DEF ReceiveResult, ReceiveEnd
<1>2. /\ runtimeClosed' = TRUE /\ pc' = "drainNotifications" /\ after' \in {"commit", "finish"}
      /\ callbacksCancelled' \in BOOLEAN
      /\ UNCHANGED <<cellState, cancelled, clientVars, observer, content, ready, paused, termination,
                     notifications, tools, runtimeVars, queueVars, history>>
  BY <1>0, <1>1 DEF RuntimeCloses, FinishCallbacks, ActorTypes
<1>3. /\ pc = "loop" /\ rt = "gone" /\ timer' \in BOOLEAN
      /\ events' \in Seq(EventKinds)
      /\ Count(events', {"ContentItem"}) <= Count(events, {"ContentItem"})
      /\ Count(events', {"Notify", "ToolCall"}) <= Count(events, {"Notify", "ToolCall"})
      /\ Count(events', {"ContentItem"}) \in Nat /\ Count(events', {"Notify", "ToolCall"}) \in Nat
      /\ Count(events, {"ContentItem"}) \in Nat /\ Count(events, {"Notify", "ToolCall"}) \in Nat
  <2>1. CASE ReceiveResult
    <3>1. TakeEvent("Result") /\ timer' = FALSE
      BY <2>1 DEF ReceiveResult
    <3>2. /\ events' \in Seq(EventKinds) /\ "Result" \in ToSet(events)
          /\ \A K : Count(events, K) = Count(events', K) + (IF "Result" \in K THEN 1 ELSE 0)
          /\ \A K : Count(events, K) \in Nat /\ Count(events', K) \in Nat
          /\ pc = "loop"
      BY <3>1, <1>0, Taken
    <3>3. rt = "gone"
      BY <3>2, <1>0 DEF PhaseInv
    <3>4. /\ Count(events', {"ContentItem"}) = Count(events, {"ContentItem"})
          /\ Count(events', {"Notify", "ToolCall"}) = Count(events, {"Notify", "ToolCall"})
          /\ Count(events, {"ContentItem"}) \in Nat /\ Count(events, {"Notify", "ToolCall"}) \in Nat
      BY <3>2
    <3>5. timer' \in BOOLEAN
      BY <3>1
    <3>6. events' \in Seq(EventKinds) /\ pc = "loop"
      BY <3>2
    <3> QED
      BY <3>3, <3>4, <3>5, <3>6
  <2>2. CASE ReceiveEnd
    <3>1. pc = "loop" /\ rt = "gone" /\ timer' = timer /\ events' = events
      BY <2>2 DEF ReceiveEnd
    <3>2. \A K : Count(events, K) \in Nat
      BY <1>0, EventCounts
    <3>3. events \in Seq(EventKinds) /\ timer \in BOOLEAN
      BY <1>0 DEF ThreadTypes, ActorTypes
    <3>4. \A K : Count(events', K) = Count(events, K)
      BY <3>1
    <3>5. /\ Count(events', {"ContentItem"}) = Count(events, {"ContentItem"})
          /\ Count(events', {"Notify", "ToolCall"}) = Count(events, {"Notify", "ToolCall"})
          /\ Count(events, {"ContentItem"}) \in Nat /\ Count(events, {"Notify", "ToolCall"}) \in Nat
      BY <3>2, <3>4
    <3> QED
      BY <3>1, <3>3, <3>5
  <2> QED
    BY <2>1, <2>2
<1>4. Shrinks /\ Outcomes' = Outcomes
  BY <1>2, Unshrunk
<1>5. CellTypes' /\ ClientTypes' /\ ContentTypes'
  BY <1>0, <1>2, CellFrame, ClientFrame, ContentTypesFrame
<1>6. ActorTypes' /\ ThreadTypes'
  BY <1>0, <1>2, <1>3 DEF ActorTypes, ThreadTypes
<1>7. CountInv'
  <2>1. received \in Nat /\ made.items \in Nat /\ made.calls \in Nat
    BY <1>0, ConstantsAssumption DEF ContentTypes, ThreadTypes, ConstantsAssumption
  <2> QED
    BY <2>1, <1>0, <1>2, <1>3 DEF CountInv
<1>8. PhaseInv'
  BY <1>0, <1>2, <1>3 DEF PhaseInv, Complete, Buried, Draining
<1>9. CloseInv'
  BY <1>0, <1>2, <1>3 DEF CloseInv, Buried, Draining
<1>10. PauseInv'
  BY <1>2, <1>3 DEF PauseInv
<1>11. WaitInv' /\ OutcomeInv' /\ ContentInv' /\ FrontierInv'
  BY <1>0, <1>2, <1>4, WaitFrame, OutcomeFrame, ContentFrame, FrontierFrame
<1> QED
  BY <1>5, <1>6, <1>7, <1>8, <1>9, <1>10, <1>11 DEF Inv, Types

\* What a command leaves alone whatever becomes of it, and what holds if the
\* call that made it waits no longer or becomes the observer.
LEMMA CommandRest ==
    ASSUME Inv, NEW c, pc = "loop", open, commands # <<>>, c = Head(commands), commands' = Tail(commands),
           UNCHANGED <<responder, event, stored, open, termination, runtimeClosed, after,
                       callbackVars, runtimeVars, events, received>>
    PROVE  /\ CountInv'
           /\ c \in Observers /\ c \in Clients /\ c # None
           /\ commands' \in Seq(Observers) /\ ToSet(commands) = ToSet(commands') \cup {c}
           /\ client' \in [Clients -> CallType] => ClientTypes'
           /\ pc' \in {"loop", "tail"} => CloseInv'
           /\ (/\ Shrinks
               /\ client'[c].at = "waiting" => observer' = c
               /\ observer' = observer \/ ~Alive(observer))
              => WaitInv'
<1> USE DEF callbackVars, runtimeVars
<1>0. CountInv /\ CloseInv /\ WaitInv /\ ClientTypes
  BY DEF Inv, Types
<1>1. CountInv'
  BY <1>0, CountFrame
<1>2. /\ c \in Observers /\ commands' \in Seq(Observers)
      /\ ToSet(commands) = ToSet(commands') \cup {c}
  BY <1>0, Shortened DEF ClientTypes
<1>3. c \in Clients /\ c # None
  BY <1>2, ConstantsAssumption DEF Clients, ConstantsAssumption
<1>4. client' \in [Clients -> CallType] => ClientTypes'
  BY <1>0, <1>2 DEF ClientTypes
<1>5. pc' \in {"loop", "tail"} => CloseInv'
  BY <1>0 DEF CloseInv, Buried, Draining
<1>6. ASSUME Shrinks, client'[c].at = "waiting" => observer' = c,
             observer' = observer \/ ~Alive(observer)
      PROVE  WaitInv'
  <2> SUFFICES ASSUME NEW d \in Clients, client'[d].at = "waiting"
               PROVE  d \in ToSet(commands') \/ d = observer' \/ d = responder'
    BY DEF WaitInv
  <2>1. client[d].at = "waiting"
    BY <1>6 DEF Shrinks
  <2>2. d \in ToSet(commands) \/ d = observer \/ d = responder
    BY <2>1, <1>0 DEF WaitInv
  <2>3. d # None
    BY ConstantsAssumption DEF Clients, ConstantsAssumption
  <2>4. d = observer => observer' = observer
    BY <2>1, <2>3, <1>6 DEF Alive
  <2> QED
    BY <2>2, <2>4, <1>2, <1>6
<1> QED
  BY <1>1, <1>2, <1>3, <1>4, <1>5, <1>6

\* A command that changes nothing but the call that made it.
LEMMA ReplyStep ==
    ASSUME Inv, NEW c, pc = "loop", open, commands # <<>>, c = Head(commands), commands' = Tail(commands),
           UNCHANGED <<cellState, cancelled, open, actorVars, callbackVars, threadVars, history>>,
           \/ ~Alive(c) /\ client' = client
           \/ \E kind \in Replies : Tell({c}, Reply(kind))
    PROVE  Inv'
<1> USE DEF cellState, actorVars, controlVars, callbackVars, threadVars, runtimeVars, queueVars, history
<1>0. /\ Types /\ CountInv /\ PhaseInv /\ CloseInv /\ WaitInv /\ OutcomeInv
      /\ ContentInv /\ PauseInv /\ FrontierInv
      /\ CellTypes /\ ClientTypes /\ ContentTypes /\ ActorTypes /\ ThreadTypes
  BY DEF Inv, Types
<1>1. /\ CountInv'
      /\ c \in Observers /\ c \in Clients /\ c # None
      /\ client' \in [Clients -> CallType] => ClientTypes'
      /\ pc' \in {"loop", "tail"} => CloseInv'
      /\ (/\ Shrinks
          /\ client'[c].at = "waiting" => observer' = c
          /\ observer' = observer \/ ~Alive(observer))
         => WaitInv'
  BY CommandRest
<1>2. /\ client' \in [Clients -> CallType]
      /\ Shrinks
      /\ client'[c].at # "waiting"
      /\ Outcomes' \subseteq Outcomes
  <2>1. CASE ~Alive(c) /\ client' = client
    BY <2>1, <1>0, <1>1, Unshrunk DEF ClientTypes, Alive
  <2>2. CASE \E kind \in Replies : Tell({c}, Reply(kind))
    BY <2>2, <1>0, <1>1, ToldReply
  <2> QED
    BY <2>1, <2>2
<1>3. ClientTypes' /\ CloseInv' /\ WaitInv'
  BY <1>1, <1>2
<1>4. CellTypes' /\ ContentTypes' /\ ActorTypes' /\ ThreadTypes'
  BY <1>0, CellFrame, ContentTypesFrame, ActorFrame, ThreadFrame
<1>5. PhaseInv' /\ OutcomeInv' /\ ContentInv' /\ PauseInv' /\ FrontierInv'
  BY <1>0, <1>2, PhaseFrame, OutcomeFrame, ContentFrame, PauseFrame, FrontierFrame
<1> QED
  BY <1>1, <1>3, <1>4, <1>5 DEF Inv, Types

\* A frontier is ready: the new observer is sent what is held.
LEMMA FrontierReadyStep ==
    ASSUME Inv, NEW c, pc = "loop", open, commands # <<>>, c = Head(commands), commands' = Tail(commands),
           phase = "Running", ~Alive(observer),
           Tell({c}, Reply("Pending")),
           observer' = None, ready' = FALSE, content' = <<>>, timer' \in BOOLEAN, told' = told \o content,
           UNCHANGED <<cellState, cancelled, open, paused, controlVars, callbackVars, threadVars, received>>
    PROVE  Inv'
<1> USE DEF cellState, controlVars, callbackVars, threadVars, runtimeVars, queueVars
<1>0. /\ Types /\ CountInv /\ PhaseInv /\ CloseInv /\ WaitInv /\ OutcomeInv
      /\ ContentInv /\ PauseInv /\ FrontierInv
      /\ CellTypes /\ ClientTypes /\ ContentTypes /\ ActorTypes /\ ThreadTypes
  BY DEF Inv, Types
<1>1. /\ CountInv'
      /\ c \in Observers /\ c \in Clients /\ c # None
      /\ client' \in [Clients -> CallType] => ClientTypes'
      /\ pc' \in {"loop", "tail"} => CloseInv'
      /\ (/\ Shrinks
          /\ client'[c].at = "waiting" => observer' = c
          /\ observer' = observer \/ ~Alive(observer))
         => WaitInv'
  BY CommandRest
<1>2. /\ client' \in [Clients -> CallType]
      /\ Shrinks
      /\ client'[c].at # "waiting"
      /\ Outcomes' \subseteq Outcomes
  <2>1. "Pending" \in Replies
    BY DEF Replies
  <2> QED
    BY <2>1, <1>0, <1>1, ToldReply
<1>3. ClientTypes' /\ CloseInv' /\ WaitInv'
  BY <1>1, <1>2
<1>4. told \o content \in Items /\ <<>> \in Items /\ told \o content = Numbered(received)
  BY <1>0, AllItems
<1>5. ContentTypes'
  BY <1>0, <1>4 DEF ContentTypes
<1>6. ContentInv'
  <2>1. told \o content \in Seq(1..MaxItems)
    BY <1>4, ItemsAre, ConstantsAssumption DEF ConstantsAssumption
  <2>2. (told \o content) \o <<>> = told \o content
    BY <2>1, ConcatEmptySeq
  <2> QED
    BY <2>2, <1>4 DEF ContentInv, Held
<1>7. OutcomeInv'
  BY <1>0, <1>2 DEF OutcomeInv, Complete
<1>8. CellTypes' /\ ThreadTypes' /\ PauseInv' /\ FrontierInv'
  BY <1>0, CellFrame, ThreadFrame, PauseFrame, NobodyObserves
<1>9. ActorTypes'
  BY <1>0 DEF ActorTypes
<1>10. PhaseInv'
  BY <1>0 DEF PhaseInv, Complete, Buried, Draining
<1> QED
  BY <1>1, <1>3, <1>5, <1>6, <1>7, <1>8, <1>9, <1>10 DEF Inv, Types

\* The call becomes the observer, and the thread is woken if need be.
LEMMA NewObserverStep ==
    ASSUME Inv, NEW c, pc = "loop", open, commands # <<>>, c = Head(commands), commands' = Tail(commands),
           phase = "Running", Alive(c), ~Alive(observer),
           observer' = c, ready' \in BOOLEAN, timer' \in BOOLEAN,
           resumeForObservation(client[c].mode),
           UNCHANGED <<cellState, cancelled, client, open, content, controlVars, callbackVars,
                       runtimeVars, events, history>>
    PROVE  Inv'
<1> USE DEF cellState, controlVars, callbackVars, runtimeVars, history
<1>0. /\ Types /\ CountInv /\ PhaseInv /\ CloseInv /\ WaitInv /\ OutcomeInv
      /\ ContentInv /\ PauseInv /\ FrontierInv
      /\ CellTypes /\ ClientTypes /\ ContentTypes /\ ActorTypes /\ ThreadTypes
  BY DEF Inv, Types
<1>1. /\ CountInv'
      /\ c \in Observers /\ c \in Clients /\ c # None
      /\ client' \in [Clients -> CallType] => ClientTypes'
      /\ pc' \in {"loop", "tail"} => CloseInv'
      /\ (/\ Shrinks
          /\ client'[c].at = "waiting" => observer' = c
          /\ observer' = observer \/ ~Alive(observer))
         => WaitInv'
  BY CommandRest
<1>2. Shrinks /\ Outcomes' = Outcomes
  BY Unshrunk
<1>3. ClientTypes' /\ CloseInv' /\ WaitInv'
  BY <1>0, <1>1, <1>2 DEF ClientTypes
<1>4. CellTypes' /\ ContentTypes' /\ OutcomeInv' /\ ContentInv'
  BY <1>0, <1>2, CellFrame, ContentTypesFrame, OutcomeFrame, ContentFrame
<1>5. PhaseInv'
  BY <1>0 DEF PhaseInv, Complete, Buried, Draining
<1> DEFINE k == IF client[c].mode = "YieldAfter" THEN "Continue" ELSE "Resume"
<1>6. /\ paused' = FALSE
      /\ rtControl' = IF paused THEN ToRuntime(rtControl, k) ELSE rtControl
      /\ rtCommands' = IF ~paused /\ client[c].mode = "PendingFrontier"
                       THEN ToRuntime(rtCommands, "ObservePendingFrontier") ELSE rtCommands
  BY DEF resumeForObservation
<1>7. /\ rtControl \in Seq(ControlKinds) /\ rtCommands \in Seq(CommandKinds) /\ paused \in BOOLEAN
      /\ k \in ControlKinds /\ "ObservePendingFrontier" \in CommandKinds
      /\ k \in {"Continue", "Resume"}
      /\ client[c].mode = "PendingFrontier" => k = "Resume"
  BY <1>0 DEF ThreadTypes, ActorTypes, ControlKinds, CommandKinds
<1> HIDE DEF k
<1>8. /\ rtControl' \in Seq(ControlKinds) /\ rtCommands' \in Seq(CommandKinds)
      /\ (rt # "gone" /\ paused) => rtControl' = Append(rtControl, k)
      /\ ~paused => rtControl' = rtControl
      /\ (rt # "gone" /\ ~paused /\ client[c].mode = "PendingFrontier") => rtCommands' # <<>>
  BY <1>6, <1>7, ToRuntimeIs
<1>9. ActorTypes' /\ ThreadTypes'
  BY <1>0, <1>1, <1>6, <1>8 DEF ActorTypes, ThreadTypes
<1>10. /\ Count(events, {"Pending"}) \in Nat /\ Count(rtControl, {"Continue", "Resume"}) \in Nat
  BY <1>0, EventCounts
<1>11. PauseInv'
  <2> SUFFICES ASSUME rt # "gone" PROVE Pauses' = Pauses
    BY <1>0 DEF PauseInv
  <2>1. CASE paused
    <3>1. Count(rtControl', {"Continue", "Resume"}) = Count(rtControl, {"Continue", "Resume"}) + 1
      <4>1. rtControl' = Append(rtControl, k)
        BY <2>1, <1>8
      <4>2. \A K : Count(Append(rtControl, k), K) = Count(rtControl, K) + (IF k \in K THEN 1 ELSE 0)
        BY <1>7, CountAppend
      <4>3. k \in {"Continue", "Resume"}
        BY <1>7
      <4> QED
        BY <4>1, <4>2, <4>3
    <3> QED
      BY <2>1, <3>1, <1>6, <1>10 DEF Pauses
  <2>2. CASE ~paused
    BY <2>2, <1>6, <1>8 DEF Pauses
  <2> QED
    BY <2>1, <2>2
<1>12. FrontierInv'
  <2>1. client'[c].at = "waiting" /\ observer' = c /\ paused' = FALSE
    BY <1>6 DEF Alive
  <2>2. ASSUME client[c].mode = "PendingFrontier", rt # "gone"
        PROVE  /\ rt = "waiting" => rtCommands' # <<>>
               /\ (rt = "paused" /\ "Continue" \in ToSet(rtControl')) => rtCommands' # <<>>
    <3>1. CASE ~paused
      BY <3>1, <2>2, <1>8
    <3>2. CASE paused
      <4>1. rt = "paused" /\ Count(rtControl, {"Continue", "Resume"}) = 0
        <5>1. Pauses = IF rt = "paused" THEN 1 ELSE 0
          BY <2>2, <1>0 DEF PauseInv
        <5>2. Pauses = Count(events, {"Pending"}) + Count(rtControl, {"Continue", "Resume"}) + 1
          BY <3>2 DEF Pauses
        <5> QED
          BY <5>1, <5>2, <1>10
      <4>2. "Continue" \notin ToSet(rtControl)
        BY <4>1, <1>7, CountNone
      <4>3. ToSet(rtControl') = ToSet(rtControl) \cup {"Resume"}
        <5>1. rtControl' = Append(rtControl, k) /\ k = "Resume"
          BY <3>2, <2>2, <1>7, <1>8
        <5>2. ToSet(Append(rtControl, k)) = ToSet(rtControl) \cup {k}
          BY <1>7, Appended
        <5> QED
          BY <5>1, <5>2
      <4> QED
        BY <4>1, <4>2, <4>3
    <3> QED
      BY <3>1, <3>2
  <2> QED
    BY <2>1, <2>2 DEF FrontierInv, Alive
<1> QED
  BY <1>1, <1>3, <1>4, <1>5, <1>9, <1>11, <1>12 DEF Inv, Types

\* A cell that has completed is claimed by the call.
LEMMA ClaimStep ==
    ASSUME Inv, NEW c, pc = "loop", open, commands # <<>>, c = Head(commands), commands' = Tail(commands),
           phase = "Completed", Tell({c}, event),
           phase' = "Tombstone", cancelled' = TRUE, pc' = "tail",
           UNCHANGED <<responder, event, stored, open, observer, content, ready, paused, timer, termination,
                       runtimeClosed, after, callbackVars, threadVars, history>>
    PROVE  Inv'
<1> USE DEF callbackVars, threadVars, runtimeVars, queueVars, history
<1>0. /\ Types /\ CountInv /\ PhaseInv /\ CloseInv /\ WaitInv /\ OutcomeInv
      /\ ContentInv /\ PauseInv /\ FrontierInv
      /\ CellTypes /\ ClientTypes /\ ContentTypes /\ ActorTypes /\ ThreadTypes
  BY DEF Inv, Types
<1>1. /\ CountInv'
      /\ c \in Observers /\ c \in Clients /\ c # None
      /\ client' \in [Clients -> CallType] => ClientTypes'
      /\ pc' \in {"loop", "tail"} => CloseInv'
      /\ (/\ Shrinks
          /\ client'[c].at = "waiting" => observer' = c
          /\ observer' = observer \/ ~Alive(observer))
         => WaitInv'
  BY CommandRest
<1>2. event \in Terminal /\ event \in Answers /\ stored /\ event.kind = "Completed" /\ Outcomes = {}
  BY <1>0, RepliesAre DEF OutcomeInv, Complete
<1>3. /\ client' \in [Clients -> CallType]
      /\ Shrinks
      /\ client'[c].at # "waiting"
      /\ Outcomes' \subseteq {event}
  BY <1>0, <1>1, <1>2, Told
<1>4. ClientTypes' /\ CloseInv' /\ WaitInv'
  BY <1>1, <1>3
<1>5. told \o event.items = Numbered(received)
  BY <1>0 DEF ContentInv, Held
<1>6. OutcomeInv'
  BY <1>2, <1>3, <1>5 DEF OutcomeInv, Complete
<1>7. CellTypes'
  BY <1>0 DEF CellTypes
<1>8. ActorTypes'
  BY <1>0 DEF ActorTypes
<1>9. observer = None /\ observer' = None /\ runtimeClosed
  BY <1>0 DEF PhaseInv, Complete
<1>10. PhaseInv'
  BY <1>0, <1>9 DEF PhaseInv, Complete, Buried, Draining
<1>11. ContentTypes' /\ ThreadTypes' /\ PauseInv' /\ FrontierInv'
  BY <1>0, <1>9, ContentTypesFrame, ThreadFrame, PauseFrame, NobodyObserves
<1>12. ContentInv'
  BY DEF ContentInv
<1> QED
  BY <1>1, <1>4, <1>6, <1>7, <1>8, <1>10, <1>11, <1>12 DEF Inv, Types

LEMMA ReceiveCommandStep ==
    ASSUME Inv, ReceiveCommand
    PROVE  Inv'
<1> DEFINE c == Head(commands)
<1>0. ready \in BOOLEAN /\ timer \in BOOLEAN /\ paused \in BOOLEAN
  BY DEF Inv, Types, ActorTypes
<1>1. /\ pc = "loop" /\ open /\ commands # <<>> /\ commands' = Tail(commands)
      /\ UNCHANGED <<responder, event, stored, open, termination, runtimeClosed, after,
                     callbackVars, runtimeVars, events, received>>
  BY DEF ReceiveCommand
<1>2. CASE /\ ~Alive(c)
           /\ UNCHANGED <<phase, cancelled, client, observer, content, ready,
                          paused, timer, pc, queueVars, told>>
  <2>1. UNCHANGED <<cellState, cancelled, open, actorVars, callbackVars, threadVars, history>>
    BY <1>1, <1>2 DEF cellState, actorVars, controlVars, threadVars, history
  <2> QED
    BY <2>1, <1>1, <1>2, ReplyStep
<1>3. ASSUME NEW kind \in Replies, Tell({c}, Reply(kind)),
             UNCHANGED <<phase, cancelled, observer, content, ready, paused, timer, pc, queueVars, told>>
      PROVE  Inv'
  <2>1. UNCHANGED <<cellState, cancelled, open, actorVars, callbackVars, threadVars, history>>
    BY <1>1, <1>3 DEF cellState, actorVars, controlVars, threadVars, history
  <2> QED
    BY <2>1, <1>1, <1>3, ReplyStep
<1>4. CASE Alive(c) /\ phase = "Running" /\ AdmitObserver(c) /\ UNCHANGED <<phase, cancelled, pc>>
  <2>1. CASE Tell({c}, Reply("Busy")) /\ UNCHANGED <<observer, content, ready, paused, timer, queueVars, told>>
    BY <2>1, <1>3, <1>4 DEF Replies
  <2>2. CASE /\ ~Alive(observer)
             /\ Tell({c}, Reply("Pending"))
             /\ observer' = None /\ ready' = FALSE /\ content' = <<>>
             /\ timer' = IF observer = None THEN timer ELSE FALSE
             /\ told' = told \o content
             /\ UNCHANGED <<paused, queueVars>>
    <3>1. timer' \in BOOLEAN
      BY <2>2, <1>0
    <3>2. UNCHANGED <<cellState, cancelled, open, paused, controlVars, callbackVars, threadVars, received>>
      BY <2>2, <1>1, <1>4 DEF cellState, controlVars, threadVars
    <3> QED
      BY <2>2, <3>1, <3>2, <1>1, <1>4, FrontierReadyStep
  <2>3. CASE /\ ~Alive(observer)
             /\ observer' = c
             /\ timer' = (client[c].mode = "YieldAfter")
             /\ ready' = (ready /\ ~paused)
             /\ resumeForObservation(client[c].mode)
             /\ UNCHANGED <<client, content, told>>
    <3>1. timer' \in BOOLEAN /\ ready' \in BOOLEAN
      BY <2>3
    <3>2. UNCHANGED <<cellState, cancelled, client, open, content, controlVars, callbackVars,
                      runtimeVars, events, history>>
      BY <2>3, <1>1, <1>4 DEF cellState, controlVars, history
    <3> QED
      BY <2>3, <3>1, <3>2, <1>1, <1>4, NewObserverStep
  <2> QED
    BY <2>1, <2>2, <2>3, <1>4 DEF AdmitObserver
<1>5. CASE /\ Alive(c) /\ phase = "Completed"
           /\ Tell({c}, event)
           /\ phase' = "Tombstone" /\ cancelled' = TRUE /\ pc' = "tail"
           /\ UNCHANGED <<observer, content, ready, paused, timer, queueVars, told>>
  <2>1. UNCHANGED <<responder, event, stored, open, observer, content, ready, paused, timer, termination,
                    runtimeClosed, after, callbackVars, threadVars, history>>
    BY <1>1, <1>5 DEF threadVars, history
  <2> QED
    BY <2>1, <1>1, <1>5, ClaimStep
<1>6. CASE /\ Alive(c)
           /\ Tell({c}, Reply("Closed"))
           /\ UNCHANGED <<phase, cancelled, observer, content, ready, paused, timer, pc, queueVars, told>>
  BY <1>3, <1>6 DEF Replies
<1> QED
  BY <1>2, <1>4, <1>5, <1>6 DEF ReceiveCommand

-----------------------------------------------------------------------------
(***************************************************************************)
(* The actor: the end.                                                     *)
(***************************************************************************)
\* A step that only moves the actor.
LEMMA MoveStep ==
    ASSUME Inv, DrainNotifications \/ DrainTools \/ Closed
    PROVE  Inv'
<1> USE DEF cellState, clientVars, callbackVars, threadVars, runtimeVars, queueVars, history
<1>0. /\ Types /\ CountInv /\ PhaseInv /\ CloseInv /\ WaitInv /\ OutcomeInv
      /\ ContentInv /\ PauseInv /\ FrontierInv
      /\ CellTypes /\ ClientTypes /\ ContentTypes /\ ActorTypes /\ ThreadTypes
  BY DEF Inv, Types
<1>1. /\ UNCHANGED <<cellState, cancelled, clientVars, observer, content, ready, paused, timer, termination,
                     runtimeClosed, after, notifications, tools, threadVars, history>>
      /\ callbacksCancelled' \in BOOLEAN
      /\ \/ pc = "drainNotifications" /\ pc' = "drainTools" /\ notifications = 0
         \/ pc = "drainTools" /\ pc' = after /\ tools = 0
         \/ pc = "closing" /\ pc' = "closed"
  BY <1>0 DEF DrainNotifications, DrainTools, Closed, ActorTypes
<1>2. Shrinks /\ Outcomes' = Outcomes
  BY <1>1, Unshrunk
<1>3. CellTypes' /\ ClientTypes' /\ ContentTypes' /\ ThreadTypes' /\ CountInv' /\ PauseInv'
  BY <1>0, <1>1, CellFrame, ClientFrame, ContentTypesFrame, ThreadFrame, CountFrame, PauseFrame
<1>4. WaitInv' /\ OutcomeInv' /\ ContentInv' /\ FrontierInv'
  BY <1>0, <1>1, <1>2, WaitFrame, OutcomeFrame, ContentFrame, FrontierFrame
<1>5. CASE pc = "drainNotifications" /\ pc' = "drainTools" /\ notifications = 0
  <2>1. ActorTypes'
    BY <1>0, <1>1, <1>5 DEF ActorTypes
  <2>2. PhaseInv'
    BY <1>0, <1>1, <1>5 DEF PhaseInv, Complete, Buried, Draining
  <2>3. CloseInv'
    BY <1>0, <1>1, <1>5 DEF CloseInv, Buried, Draining
  <2> QED
    BY <2>1, <2>2, <2>3, <1>3, <1>4 DEF Inv, Types
<1>6. CASE pc = "drainTools" /\ pc' = after /\ tools = 0
  <2>0. after \in {"commit", "finish", "closing"}
    BY <1>0, <1>6 DEF PhaseInv, Draining
  <2>1. ActorTypes'
    BY <2>0, <1>0, <1>1, <1>6 DEF ActorTypes
  <2>2. PhaseInv'
    BY <2>0, <1>0, <1>1, <1>6 DEF PhaseInv, Complete, Buried, Draining
  <2>3. CloseInv'
    BY <2>0, <1>0, <1>1, <1>6 DEF CloseInv, Buried, Draining
  <2> QED
    BY <2>1, <2>2, <2>3, <1>3, <1>4 DEF Inv, Types
<1>7. CASE pc = "closing" /\ pc' = "closed"
  <2>1. ActorTypes'
    BY <1>0, <1>1, <1>7 DEF ActorTypes
  <2>2. PhaseInv'
    BY <1>0, <1>1, <1>7 DEF PhaseInv, Complete, Buried, Draining
  <2>3. CloseInv'
    BY <1>0, <1>1, <1>7 DEF CloseInv, Buried, Draining
  <2> QED
    BY <2>1, <2>2, <2>3, <1>3, <1>4 DEF Inv, Types
<1> QED
  BY <1>1, <1>5, <1>6, <1>7

LEMMA CommitStep ==
    ASSUME Inv, CommitCompletion
    PROVE  Inv'
<1> USE DEF clientVars, callbackVars, threadVars, runtimeVars, queueVars, history
<1>0. /\ Types /\ CountInv /\ PhaseInv /\ CloseInv /\ WaitInv /\ OutcomeInv
      /\ ContentInv /\ PauseInv /\ FrontierInv
      /\ CellTypes /\ ClientTypes /\ ContentTypes /\ ActorTypes /\ ThreadTypes
  BY DEF Inv, Types
<1>1. /\ pc = "commit" /\ pc' = "deliver"
      /\ UNCHANGED <<responder, cancelled, clientVars, observer, ready, paused, timer, termination,
                     runtimeClosed, after, callbackVars, threadVars, history>>
  BY DEF CommitCompletion
<1>2. Shrinks /\ Outcomes' = Outcomes
  BY <1>1, Unshrunk
<1>3. ClientTypes' /\ ThreadTypes' /\ CountInv' /\ PauseInv' /\ WaitInv' /\ FrontierInv'
  BY <1>0, <1>1, <1>2, ClientFrame, ThreadFrame, CountFrame, PauseFrame, WaitFrame, FrontierFrame
<1>4. ActorTypes'
  BY <1>0, <1>1 DEF ActorTypes
<1>5. CloseInv'
  BY <1>0, <1>1 DEF CloseInv, Buried, Draining
<1>6. CASE phase = "Running" /\ ~cancelled
  <2>1. /\ phase' = "Completed" /\ event' = Outcome("Completed", content)
        /\ stored' = TRUE /\ content' = <<>>
    BY <1>6 DEF CommitCompletion
  <2>2. <<>> \in Items /\ told \o content = Numbered(received)
    BY <1>0, <1>6, AllItems
  <2>3. event' \in Terminal /\ event'.kind = "Completed" /\ event'.items = content
    BY <2>1, <1>0 DEF Outcome, Terminal, ContentTypes
  <2>4. CellTypes'
    BY <2>1, <2>3, <1>0, <1>1, <1>6 DEF CellTypes
  <2>5. ContentTypes'
    BY <2>1, <2>2, <1>0, <1>1 DEF ContentTypes
  <2>6. PhaseInv'
    BY <2>1, <1>0, <1>1 DEF PhaseInv, Complete, Buried, Draining
  <2>7. OutcomeInv'
    BY <2>1, <2>3, <1>0, <1>2, <1>6 DEF OutcomeInv, Complete
  <2>8. ContentInv'
    BY <2>1, <2>2, <2>3, <1>1 DEF ContentInv, Held
  <2> QED
    BY <2>4, <2>5, <2>6, <2>7, <2>8, <1>3, <1>4, <1>5 DEF Inv, Types
<1>7. CASE ~(phase = "Running" /\ ~cancelled)
  <2>1. UNCHANGED <<phase, event, stored, content>>
    BY <1>7 DEF CommitCompletion
  <2>2. CellTypes' /\ ContentTypes' /\ OutcomeInv' /\ ContentInv'
    BY <2>1, <1>0, <1>1, <1>2, CellFrame, ContentTypesFrame, OutcomeFrame, ContentFrame
  <2>3. PhaseInv'
    BY <2>1, <1>0, <1>1 DEF PhaseInv, Complete, Buried, Draining
  <2> QED
    BY <2>2, <2>3, <1>3, <1>4, <1>5 DEF Inv, Types
<1> QED
  BY <1>6, <1>7

\* Everybody who may wait for the outcome is told, and the actor is done.
LEMMA LastWord ==
    ASSUME Inv, NEW answer, NEW R, Tell(R, answer), answer \in Terminal,
           pc \in {"deliver", "finish"},
           Outcomes \subseteq {answer}, (answer.kind = "Completed") <=> stored,
           told \o answer.items = Numbered(received),
           \A c \in Clients : c \in {observer, responder} => c \in R,
           phase' = "Tombstone", cancelled' = TRUE, observer' = None, responder' = None, pc' = "tail",
           content' \in {content, <<>>},
           UNCHANGED <<event, stored, commands, open, ready, paused, timer, termination,
                       runtimeClosed, after, callbackVars, threadVars, history>>
    PROVE  Inv'
<1> USE DEF callbackVars, threadVars, runtimeVars, queueVars, history
<1>0. /\ Types /\ CountInv /\ PhaseInv /\ CloseInv /\ WaitInv /\ OutcomeInv
      /\ ContentInv /\ PauseInv /\ FrontierInv
      /\ CellTypes /\ ClientTypes /\ ContentTypes /\ ActorTypes /\ ThreadTypes
  BY DEF Inv, Types
<1>1. /\ client' \in [Clients -> CallType]
      /\ Shrinks
      /\ \A c \in Clients : client'[c].at = "waiting" => c \notin R
      /\ Outcomes' \subseteq {answer}
  <2>1. answer \in Answers
    BY RepliesAre
  <2> QED
    BY <2>1, <1>0, Told
<1>2. CellTypes'
  BY <1>0 DEF CellTypes
<1>3. ClientTypes'
  BY <1>0, <1>1 DEF ClientTypes
<1>4. ContentTypes'
  <2>1. <<>> \in Items
    <3>1. MaxItems \in Nat
      BY ConstantsAssumption DEF ConstantsAssumption
    <3>2. <<>> \in Seq(1..MaxItems) /\ Len(<<>>) <= MaxItems
      BY <3>1
    <3> QED
      BY <3>1, <3>2, ItemsAre
  <2> QED
    BY <2>1, <1>0 DEF ContentTypes
<1>5. ActorTypes'
  BY <1>0 DEF ActorTypes
<1>6. ThreadTypes' /\ CountInv' /\ PauseInv' /\ FrontierInv'
  BY <1>0, ThreadFrame, CountFrame, PauseFrame, NobodyObserves
<1>7. PhaseInv'
  BY <1>0 DEF PhaseInv, Complete, Buried, Draining
<1>8. CloseInv'
  BY <1>0 DEF CloseInv, Buried, Draining
<1>9. WaitInv'
  BY <1>0, <1>1 DEF WaitInv, Shrinks
<1>10. OutcomeInv'
  BY <1>1 DEF OutcomeInv, Complete
<1>11. ContentInv'
  BY DEF ContentInv
<1> QED
  BY <1>2, <1>3, <1>4, <1>5, <1>6, <1>7, <1>8, <1>9, <1>10, <1>11 DEF Inv, Types

LEMMA DeliverStep ==
    ASSUME Inv, DeliverCompletion
    PROVE  Inv'
<1>0. /\ Types /\ CountInv /\ PhaseInv /\ CloseInv /\ WaitInv /\ OutcomeInv
      /\ ContentInv /\ PauseInv /\ FrontierInv
      /\ CellTypes /\ ClientTypes /\ ContentTypes /\ ActorTypes /\ ThreadTypes
  BY DEF Inv, Types
<1>1. /\ pc = "deliver"
      /\ UNCHANGED <<responder, event, stored, commands, open, content, ready, paused, timer, termination,
                     runtimeClosed, after, callbackVars, threadVars, history>>
  BY DEF DeliverCompletion
<1>2. CASE /\ phase = "Completed" /\ Alive(observer)
           /\ Tell({observer}, event)
           /\ phase' = "Tombstone" /\ cancelled' = TRUE /\ observer' = None
           /\ pc' = "tail"
  <2>1. event \in Terminal /\ stored /\ event.kind = "Completed" /\ Outcomes = {}
    BY <1>0, <1>2 DEF OutcomeInv, Complete
  <2>2. told \o event.items = Numbered(received)
    BY <1>0, <1>2 DEF ContentInv, Held
  <2>3. responder = None /\ responder' = None
    BY <1>0, <1>1, <1>2 DEF CellTypes
  <2>4. \A c \in Clients : c \in {observer, responder} => c \in {observer}
    BY <2>3, ConstantsAssumption DEF Clients, ConstantsAssumption
  <2> QED
    BY <2>1, <2>2, <2>3, <2>4, <1>1, <1>2, LastWord
<1>3. CASE \/ /\ phase = "Completed" /\ ~Alive(observer)
              /\ observer' = None /\ pc' = "loop"
              /\ UNCHANGED <<phase, cancelled, client>>
           \/ /\ phase # "Completed"
              /\ pc' = "finish"
              /\ UNCHANGED <<phase, cancelled, client, observer>>
  <2> USE DEF callbackVars, threadVars, runtimeVars, queueVars, history
  <2>1. Shrinks /\ Outcomes' = Outcomes
    BY <1>3, Unshrunk
  <2>2. CellTypes' /\ ClientTypes' /\ ContentTypes' /\ ThreadTypes' /\ CountInv' /\ PauseInv'
    BY <1>0, <1>1, <1>3, CellFrame, ClientFrame, ContentTypesFrame, ThreadFrame, CountFrame, PauseFrame
  <2>3. OutcomeInv' /\ ContentInv'
    BY <2>1, <1>0, <1>1, <1>3, OutcomeFrame, ContentFrame
  <2>4. ActorTypes'
    BY <1>0, <1>1, <1>3 DEF ActorTypes
  <2>5. PhaseInv'
    BY <1>0, <1>1, <1>3 DEF PhaseInv, Complete, Buried, Draining
  <2>6. CloseInv'
    BY <1>0, <1>1, <1>3 DEF CloseInv, Buried, Draining
  <2>7. WaitInv'
    <3> SUFFICES ASSUME NEW c \in Clients, client'[c].at = "waiting"
                 PROVE  c \in ToSet(commands) \/ c = observer' \/ c = responder
      BY <1>1 DEF WaitInv
    <3>1. client[c].at = "waiting" /\ c # None
      BY <1>3, ConstantsAssumption DEF Clients, ConstantsAssumption
    <3>2. c \in ToSet(commands) \/ c = observer \/ c = responder
      BY <3>1, <1>0 DEF WaitInv
    <3> QED
      BY <3>1, <3>2, <1>3 DEF Alive
  <2>8. FrontierInv'
    <3>1. CASE observer' = None
      BY <3>1, NobodyObserves
    <3>2. CASE observer' = observer
      BY <3>2, <2>1, <1>0, <1>1, FrontierFrame
    <3> QED
      BY <3>1, <3>2, <1>3
  <2> QED
    BY <2>2, <2>3, <2>4, <2>5, <2>6, <2>7, <2>8 DEF Inv, Types
<1> QED
  BY <1>2, <1>3 DEF DeliverCompletion

LEMMA FinishStep ==
    ASSUME Inv, FinishTermination
    PROVE  Inv'
<1>0. /\ Types /\ PhaseInv /\ OutcomeInv /\ ContentInv /\ CellTypes /\ ContentTypes
  BY DEF Inv, Types
<1>1. /\ pc = "finish"
      /\ phase' = "Tombstone" /\ cancelled' = TRUE /\ content' = <<>>
      /\ responder' = None /\ observer' = None /\ pc' = "tail"
      /\ UNCHANGED <<event, stored, commands, open, ready, paused, timer, termination,
                     runtimeClosed, after, callbackVars, threadVars, history>>
  BY DEF FinishTermination
<1>2. phase \in {"Running", "Terminating", "Completed", "CompletionClaimed"}
  BY <1>0, <1>1 DEF PhaseInv, CellTypes, Buried, Draining
<1> DEFINE answer == IF Complete THEN event ELSE Outcome("Terminated", content)
           R == {observer, responder}
<1>3. Tell(R, answer)
  BY <1>2 DEF FinishTermination, Complete
<1>4. (Complete => answer = event) /\ (~Complete => answer = Outcome("Terminated", content))
  OBVIOUS
<1> HIDE DEF answer
<1>5. /\ answer \in Terminal /\ Outcomes \subseteq {answer}
      /\ (answer.kind = "Completed") <=> stored
      /\ told \o answer.items = Numbered(received)
  <2>1. CASE Complete
    <3>1. answer = event
      BY <2>1, <1>4
    <3>2. event \in Terminal /\ stored /\ event.kind = "Completed" /\ Outcomes \subseteq {event}
      BY <2>1, <1>0 DEF OutcomeInv, Complete
    <3>3. told \o event.items = Numbered(received)
      BY <2>1, <1>0 DEF ContentInv, Held, Complete
    <3>4. (event.kind = "Completed") <=> stored
      BY <3>2
    <3> QED
      BY <3>1, <3>2, <3>3, <3>4
  <2>2. CASE ~Complete
    <3>1. answer = Outcome("Terminated", content)
      BY <2>2, <1>4
    <3>2. /\ Outcome("Terminated", content) \in Terminal
          /\ Outcome("Terminated", content).kind = "Terminated"
          /\ Outcome("Terminated", content).items = content
      BY <1>0 DEF Outcome, Terminal, ContentTypes
    <3>3. ~stored /\ Outcomes = {}
      BY <2>2, <1>0, <1>2 DEF OutcomeInv, Complete
    <3>4. told \o content = Numbered(received)
      BY <2>2, <1>0, <1>2 DEF ContentInv, Held, Complete
    <3> QED
      BY <3>1, <3>2, <3>3, <3>4
  <2> QED
    BY <2>1, <2>2
<1>6. \A c \in Clients : c \in {observer, responder} => c \in R
  OBVIOUS
<1> HIDE DEF R
<1> QED
  BY <1>1, <1>3, <1>5, <1>6, LastWord

LEMMA TailStep ==
    ASSUME Inv, Tail_
    PROVE  Inv'
<1> USE DEF runtimeVars, history
<1>0. /\ Types /\ CountInv /\ PhaseInv /\ CloseInv /\ WaitInv /\ OutcomeInv
      /\ ContentInv /\ PauseInv /\ FrontierInv
      /\ CellTypes /\ ClientTypes /\ ContentTypes /\ ActorTypes /\ ThreadTypes
  BY DEF Inv, Types
<1>1. /\ pc = "tail" /\ phase' = "Tombstone" /\ DropCommands /\ beginTermination
      /\ pc' = "drainNotifications" /\ after' = "closing" /\ callbacksCancelled' = TRUE
      /\ UNCHANGED <<responder, event, stored, observer, content, ready, paused, timer, termination,
                     runtimeClosed, notifications, tools, runtimeVars, events, history>>
  BY DEF Tail_, FinishCallbacks
<1>2. phase = "Tombstone"
  BY <1>0, <1>1 DEF PhaseInv, Buried
<1>3. ClientTypes' /\ Shrinks /\ Outcomes' \subseteq Outcomes /\ WaitInv'
  BY <1>0, <1>1, CommandsDropped
<1>4. ThreadTypes' /\ PauseInv' /\ FrontierInv'
  BY <1>0, <1>1, <1>3, TerminationBegins
<1>5. CellTypes'
  BY <1>0, <1>1, <1>2 DEF CellTypes, beginTermination
<1>6. ActorTypes'
  BY <1>0, <1>1 DEF ActorTypes
<1>7. ContentTypes' /\ CountInv' /\ ContentInv' /\ OutcomeInv'
  BY <1>0, <1>1, <1>2, <1>3, ContentTypesFrame, CountFrame, ContentFrame, OutcomeFrame
<1>8. PhaseInv'
  BY <1>0, <1>1 DEF PhaseInv, Complete, Buried, Draining
<1>9. CloseInv'
  BY <1>1 DEF CloseInv, DropCommands
<1> QED
  BY <1>3, <1>4, <1>5, <1>6, <1>7, <1>8, <1>9 DEF Inv, Types

-----------------------------------------------------------------------------
LEMMA StutterInv ==
    ASSUME Inv, UNCHANGED vars
    PROVE  Inv'
<1> USE DEF vars, cellState, clientVars, actorVars, controlVars, callbackVars, threadVars, runtimeVars,
            queueVars, history
<1>0. /\ Types /\ CountInv /\ PhaseInv /\ CloseInv /\ WaitInv /\ OutcomeInv
      /\ ContentInv /\ PauseInv /\ FrontierInv /\ ActorTypes /\ ThreadTypes
  BY DEF Inv, Types
<1>1. Shrinks
  BY Unshrunk
<1>2. /\ CellTypes' /\ ClientTypes' /\ ContentTypes' /\ ActorTypes'
      /\ CloseInv' /\ WaitInv' /\ OutcomeInv' /\ ContentInv'
  BY ThreadRest
<1>3. ThreadTypes' /\ CountInv' /\ PhaseInv' /\ PauseInv' /\ FrontierInv'
  BY <1>0, <1>1, ThreadFrame, CountFrame, PhaseFrame, PauseFrame, FrontierFrame
<1> QED
  BY <1>2, <1>3 DEF Inv, Types

LEMMA NextInv ==
    ASSUME Inv, [Next]_vars
    PROVE  Inv'
<1>1. CASE ActorStep
  BY <1>1, CancelledStep, ReceiveCommandStep, TimerStep, PassedStep, PendingStep, ContentItemStep,
     YieldRequestStep, EndStep, MoveStep, CommitStep, DeliverStep, FinishStep, TailStep DEF ActorStep
<1>2. CASE RuntimeStep
  BY <1>2, ScriptStep, CommandStep DEF RuntimeStep
<1>3. CASE CallbackStep
  BY <1>3, CallbackStepInv
<1>4. CASE ClientStep
  <2>1. ASSUME NEW c \in Impatient, DropObservation(c) PROVE Inv'
    <3>1. c \in Observers
      BY ConstantsAssumption DEF ConstantsAssumption
    <3> QED
      BY <2>1, <3>1, ObserveStep
  <2> QED
    BY <1>4, <2>1, ObserveStep, SendStep, TerminateStep, ShutdownStep DEF ClientStep
<1>5. CASE UNCHANGED vars
  BY <1>5, StutterInv
<1> QED
  BY <1>1, <1>2, <1>3, <1>4, <1>5 DEF Next

LEMMA Invariance == Spec => []Inv
  BY InitInv, NextInv, PTL DEF Spec

(***************************************************************************)
(* The state keeps its types: in particular the counters stay within what  *)
(* the script made, there is a terminate call to answer exactly while the  *)
(* cell terminates, and an event to deliver once it has completed.         *)
(***************************************************************************)
THEOREM TypeCorrect == Spec => []TypeOK
<1>1. Inv => TypeOK
  <2> SUFFICES ASSUME Inv PROVE TypeOK
    OBVIOUS
  <2>0. /\ CellTypes /\ ClientTypes /\ ContentTypes /\ ActorTypes /\ ThreadTypes /\ CountInv /\ OutcomeInv
    BY DEF Inv, Types
  <2>1. MaxItems \in Nat /\ MaxCalls \in Nat
    BY ConstantsAssumption DEF ConstantsAssumption
  <2>2. /\ Count(events, {"ContentItem"}) \in Nat /\ Count(events, {"Notify", "ToolCall"}) \in Nat
    BY <2>0, EventCounts
  <2>3. received \in 0..MaxItems
    <3>1. made.items \in Nat /\ made.items <= MaxItems /\ received \in Nat
      BY <2>0, <2>1 DEF ThreadTypes, ContentTypes
    <3> QED
      BY <3>1, <2>0, <2>1, <2>2 DEF CountInv
  <2>4. notifications + tools \in 0..MaxCalls
    <3>1. made.calls \in Nat /\ made.calls <= MaxCalls
      BY <2>0, <2>1 DEF ThreadTypes
    <3> QED
      BY <3>1, <2>0, <2>1, <2>2 DEF CountInv
  <2>5. phase \in {"Completed", "CompletionClaimed"} => event # None
    <3>1. None \notin Terminal
      BY NoneAssumption DEF NoneAssumption, Answers
    <3> QED
      BY <3>1, <2>0 DEF OutcomeInv, Complete
  <2>6. {cancelled, stored, open, ready, paused, timer, termination,
         runtimeClosed, callbacksCancelled} \subseteq BOOLEAN
    BY <2>0 DEF CellTypes, ClientTypes, ActorTypes
  <2> QED
    BY <2>0, <2>3, <2>4, <2>5, <2>6
       DEF TypeOK, CellTypes, ClientTypes, CallType, ContentTypes, ActorTypes, ThreadTypes,
           EventKinds, CommandKinds, ControlKinds
<1> QED
  BY <1>1, Invariance, PTL

(***************************************************************************)
(* A cell has one outcome, whoever is told it and however the terminate    *)
(* calls, the shutdown and the end of the script race, and it is Completed *)
(* exactly if the stored values were written.                              *)
(***************************************************************************)
THEOREM OutcomeUnique == Spec => []OneOutcome
<1>1. Inv => OneOutcome
  <2> SUFFICES ASSUME Inv PROVE OneOutcome
    OBVIOUS
  <2>1. /\ \A o, p \in Outcomes : o = p
        /\ \A o \in Outcomes : (o.kind = "Completed") <=> stored
    BY DEF Inv, OutcomeInv
  <2>2. Cardinality(Outcomes) <= 1
    <3>1. CASE Outcomes = {}
      <4>1. Cardinality(Outcomes) = 0
        BY <3>1, FS_EmptySet
      <4> QED
        BY <4>1
    <3>2. CASE Outcomes # {}
      <4>1. PICK o : o \in Outcomes
        BY <3>2
      <4>2. Outcomes = {o}
        BY <4>1, <2>1
      <4>3. Cardinality(Outcomes) = 1
        BY <4>2, FS_Singleton
      <4> QED
        BY <4>3
    <3> QED
      BY <3>1, <3>2
  <2> QED
    BY <2>1, <2>2 DEF OneOutcome
<1> QED
  BY <1>1, Invariance, PTL

(***************************************************************************)
(* The output of the script is conserved: what was sent to observers,      *)
(* followed by what is held or by what the outcome carries, is everything  *)
(* the actor received, in its order.                                       *)
(***************************************************************************)
THEOREM OutputConserved == Spec => []ContentConserved
<1>1. Inv => ContentConserved
  BY DEF Inv, ContentInv, OutcomeInv, ContentConserved
<1> QED
  BY <1>1, Invariance, PTL

(***************************************************************************)
(* The actor and the V8 thread never wait for each other while somebody    *)
(* observes: a paused thread has the answer to its pause on the way, one   *)
(* that waits for a command has one if the observer wants a frontier.      *)
(***************************************************************************)
THEOREM ScriptDriven == Spec => []ObserverDrivesScript
<1>1. Inv => ObserverDrivesScript
  <2> SUFFICES ASSUME Inv, Alive(observer)
               PROVE  /\ rt = "paused" => rtControl # <<>> \/ "Pending" \in ToSet(events)
                      /\ (rt = "waiting" /\ client[observer].mode = "PendingFrontier")
                            => rtCommands # <<>>
    BY DEF ObserverDrivesScript
  <2>0. FrontierInv /\ PauseInv /\ ThreadTypes
    BY DEF Inv, Types
  <2>1. ~paused
    BY <2>0 DEF FrontierInv, Alive
  <2>2. ASSUME rt = "paused", rtControl = <<>> PROVE "Pending" \in ToSet(events)
    <3>1. Count(rtControl, {"Continue", "Resume"}) = 0
      BY <2>2, CountEmpty
    <3>2. Count(events, {"Pending"}) \in Nat
      BY <2>0, EventCounts
    <3>3. Count(events, {"Pending"}) = 1
      BY <3>1, <3>2, <2>0, <2>1, <2>2 DEF PauseInv, Pauses
    <3>4. {i \in DOMAIN events : events[i] \in {"Pending"}} # {}
      BY <3>3, FS_EmptySet DEF Count
    <3> QED
      BY <3>4 DEF ToSet
  <2> QED
    BY <2>0, <2>2 DEF FrontierInv
<1> QED
  BY <1>1, Invariance, PTL

(***************************************************************************)
(* When the session is told that the cell is closed the V8 thread has sent *)
(* its result or panicked, no callback runs and no call waits.             *)
(***************************************************************************)
THEOREM ClosedIsClean == Spec => []NothingLeftOpen
<1>1. Inv => NothingLeftOpen
  <2> SUFFICES ASSUME Inv, pc = "closed"
               PROVE  /\ rt = "gone" /\ notifications = 0 /\ tools = 0
                      /\ \A c \in Clients : ~Alive(c)
    BY DEF NothingLeftOpen
  <2>0. PhaseInv /\ CloseInv /\ WaitInv /\ CellTypes
    BY DEF Inv, Types
  <2>1. rt = "gone" /\ phase = "Tombstone" /\ observer = None
    BY <2>0 DEF PhaseInv, Buried
  <2>2. notifications = 0 /\ tools = 0 /\ commands = <<>>
    BY <2>0 DEF CloseInv, Buried
  <2>3. responder = None
    BY <2>0, <2>1 DEF CellTypes
  <2>4. ToSet(commands) = {}
    BY <2>2 DEF ToSet
  <2>5. \A c \in Clients : c # None
    BY ConstantsAssumption DEF Clients, ConstantsAssumption
  <2>6. \A c \in Clients : ~Alive(c)
    BY <2>0, <2>1, <2>3, <2>4, <2>5 DEF WaitInv, Alive
  <2> QED
    BY <2>1, <2>2, <2>6
<1> QED
  BY <1>1, Invariance, PTL
=============================================================================
