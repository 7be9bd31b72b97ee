------------------------- MODULE ExecRecoveryProofs -------------------------
(***************************************************************************)
(* The recovery of a remote process, for any number of connections and of  *)
(* events and any retention: subscribers see a prefix of what happened, a  *)
(* connection in use has everything they miss, and a write arrives once.   *)
(***************************************************************************)
EXTENDS ExecRecovery, FiniteSetTheorems, SequenceTheorems, WellFoundedInduction,
        TLAPS

\* The process exits once, closes at its end, and is not numbered beyond its
\* output and these two.
Outputs == {s \in DOMAIN log : log[s] = "output"}
Ends == (IF Exited THEN 1 ELSE 0) + (IF Closed THEN 1 ELSE 0)
ExitsOnce == \A i, j \in DOMAIN log : (log[i] = "exited" /\ log[j] = "exited") => i = j
ClosesLast == \A i \in DOMAIN log : log[i] = "closed" => i = Len(log)
LogInv ==
    /\ ExitsOnce
    /\ ClosesLast
    /\ Closed => (streams = 0 /\ Exited)
    /\ Cardinality(Outputs) <= MaxOutputs
    /\ Len(log) = Cardinality(Outputs) + Ends
    /\ \A s \in retained : log[s] = "output"

\* A used connection and one that is tried are read until their end is seen,
\* and have the session until it comes.
LinkInv ==
    /\ pc = "idle" <=> status # "recovering"
    /\ status = "connected" => current \in Connections
    /\ UsedConnectionServed
    /\ pc \in {"initialize", "read", "recover", "terminate", "install"} =>
          candidate \in Connections /\ candidate \in closed \cup reading
    /\ pc \in {"read", "recover", "terminate", "install"} =>
          candidate \in broken \/ attached = candidate

WriteInv ==
    /\ stdin = IF accepted THEN 1 ELSE 0
    /\ \A c \in Connections : attempt[c] = "accepted" => accepted
    /\ write.at = "accepted" => accepted
    /\ write.at = "call" => write.on \in Connections

\* The answer of a read speaks of the events that had happened by then.
ResponseInv ==
    pc = "recover" =>
        /\ response.known \in BOOLEAN
        /\ response.nextSeq \in 1..(Len(log) + 1)
        /\ \A s \in response.chunks : s \in DOMAIN log /\ log[s] = "output"
        /\ response.exited => \E s \in 1..(response.nextSeq - 1) : log[s] = "exited"
        /\ response.closed =>
              response.nextSeq - 1 \in DOMAIN log /\ log[response.nextSeq - 1] = "closed"

\* What waits is what happened. It waits for an event before it, unless a
\* recovery that gave up left it behind; the next one finds it.
StreamInv ==
    /\ EventsInOrder
    /\ \A s \in DOMAIN pending : pending[s] = log[s]
    /\ failed => DOMAIN pending = {}
    /\ ~registered => failed \/ closedPublished
    /\ status = "failed" => failed \/ closedPublished
    /\ lastPublished + 1 \in DOMAIN pending =>
          /\ pc \in {"connect", "initialize", "read", "recover", "terminate"}
          /\ pc = "recover" => response.nextSeq > lastPublished + 1

\* What will reach the client over a connection, or has.
Coming(c) == unsent \cup ToSet(wire[c]) \cup DOMAIN pending

\* No event is lost: what is not published will come over the connection in
\* use, or over the one that is tried unless its read covers it.
CoverInv ==
    ~failed => \A s \in (lastPublished + 1)..Len(log) :
        /\ status = "connected" /\ current \notin broken => s \in Coming(current)
        /\ pc = "recover" /\ candidate \notin broken =>
              s < response.nextSeq \/ s \in Coming(candidate)
        /\ pc = "install" /\ candidate \notin broken => s \in Coming(candidate)

Inv == TypeOK /\ LogInv /\ LinkInv /\ WriteInv /\ ResponseInv /\ StreamInv /\ CoverInv

-----------------------------------------------------------------------------
\* A step of the client keeps the types of the process, the sessions and the
\* write.
LEMMA ClientTypes ==
    ASSUME TypeOK, UNCHANGED <<processVars, sessionVars, writeVars, connections>>,
           broken' \subseteq Connections, closed' \subseteq broken', reading' \subseteq Connections,
           wire' \in [Connections -> Seq(DOMAIN log)],
           status' \in {"connected", "recovering", "failed"},
           current' \in Connections \cup {NoConnection},
           published' \in Seq(Kinds \cup {"failed"}),
           DOMAIN pending' \subseteq DOMAIN log, registered' \in BOOLEAN,
           pc' \in {"idle", "connect", "initialize", "read", "recover", "terminate", "install"},
           candidate' \in Connections \cup {NoConnection}
    PROVE  TypeOK'
<1>1. UNCHANGED <<log, retained, unsent, streams, present, session, attached, accepted, stdin,
                  connections, attempt, write>>
  BY DEF processVars, sessionVars, writeVars
<1> QED
  BY <1>1 DEF TypeOK

\* A set of numbers that is not empty has a least one.
LEMMA Least ==
    ASSUME NEW S, S \subseteq Nat, S # {}
    PROVE  \E m \in S : \A k \in S : m <= k
<1>1. PICK m \in S : \A k \in S : ~(<<k, m>> \in OpToRel(<, Nat))
  BY WFMin, NatLessThanWellFounded
<1>2. \A k \in S : ~(k < m)
  BY <1>1 DEF OpToRel
<1> QED
  BY <1>2, SMT

\* What an append to a sequence of numbers or kinds leaves in it.
LEMMA Appended ==
    ASSUME NEW T, NEW q \in Seq(T), NEW e \in T
    PROVE  /\ Append(q, e) \in Seq(T)
           /\ Len(Append(q, e)) = Len(q) + 1
           /\ \A i \in 1..Len(q) : Append(q, e)[i] = q[i]
           /\ Append(q, e)[Len(q) + 1] = e
           /\ ToSet(Append(q, e)) = ToSet(q) \cup {e}
  BY DEF ToSet

LEMMA LastPublished ==
    ASSUME published \in Seq(Kinds \cup {"failed"})
    PROVE  /\ lastPublished \in Nat
           /\ ~failed => lastPublished = Len(published)
           /\ failed => lastPublished = Len(published) - 1
  BY DEF lastPublished, failed, ToSet

\* Nothing follows the close: who has published it has published all.
LEMMA ClosedIsAll ==
    ASSUME TypeOK, LogInv, EventsInOrder, closedPublished
    PROVE  failed \/ lastPublished = Len(log)
<1> SUFFICES ASSUME ~failed PROVE lastPublished = Len(log)
  OBVIOUS
<1>1. lastPublished = Len(published) /\ lastPublished \in Nat
  BY LastPublished DEF TypeOK
<1>2. PICK i \in 1..Len(published) : published[i] = "closed"
  BY DEF closedPublished, ToSet, TypeOK
<1>3. log[i] = "closed" /\ i \in 1..Len(log)
  BY <1>1, <1>2 DEF EventsInOrder, TypeOK
<1>4. ClosesLast
  BY DEF LogInv
<1>5. log \in Seq(Kinds)
  BY DEF TypeOK
<1>6. i = Len(log)
  BY <1>3, <1>4, <1>5 DEF ClosesLast
<1> QED
  BY <1>1, <1>2, <1>6 DEF EventsInOrder, TypeOK

-----------------------------------------------------------------------------
\* The number up to which publish_ready goes exists: D has a first gap.
LEMMA FirstGap ==
    ASSUME NEW D, NEW last \in Nat, NEW top \in Nat, last <= top,
           D \subseteq 1..top
    PROVE  \E n \in last..top : (last + 1)..n \subseteq D /\ n + 1 \notin D
<1> DEFINE S == {n \in Nat : n >= last /\ n + 1 \notin D}
<1>1. top \in S
  BY SMT
<1>2. PICK m \in S : \A k \in S : m <= k
  BY <1>1, Least
<1>3. m \in last..top
  BY <1>1, <1>2
<1>4. ASSUME NEW k \in (last + 1)..m PROVE k \in D
  <2>1. k - 1 \in Nat /\ k - 1 >= last /\ k - 1 < m /\ (k - 1) + 1 = k
    BY <1>3, <1>4
  <2> QED
    BY <2>1, <1>2
<1> QED
  BY <1>2, <1>3, <1>4

\* publish_ready: what is published is what happened, up to the first event
\* that does not wait; what waits beyond it stays.
LEMMA Ready ==
    ASSUME ConstantsAssumption, TypeOK, EventsInOrder, ~failed,
           NEW waiting, DOMAIN waiting \subseteq DOMAIN log,
           \A s \in DOMAIN waiting : waiting[s] = log[s],
           PublishReady(waiting), log' = log
    PROVE  /\ published' \in Seq(Kinds \cup {"failed"})
           /\ DOMAIN pending' \subseteq DOMAIN waiting
           /\ registered' \in BOOLEAN
           /\ ~failed'
           /\ EventsInOrder'
           /\ lastPublished' \in Nat /\ lastPublished' >= lastPublished
           /\ \A s \in DOMAIN pending' : pending'[s] = log[s]
           /\ \A s \in DOMAIN waiting : s > lastPublished' => s \in DOMAIN pending'
           /\ lastPublished' + 1 \notin DOMAIN waiting
           /\ registered' \/ ~registered \/ closedPublished'
<1> DEFINE last == lastPublished
           top == MaxOutputs + 2
           next == CHOOSE n \in last..top :
                      (last + 1)..n \subseteq DOMAIN waiting /\ n + 1 \notin DOMAIN waiting
           more == [i \in 1..(next - last) |-> waiting[last + i]]
<1>1. log \in Seq(Kinds) /\ Len(log) <= top /\ top \in Nat
  <2>1. log \in Seq(Kinds) /\ Len(log) <= top
    BY DEF TypeOK
  <2>2. top \in Nat
    BY DEF ConstantsAssumption
  <2> QED
    BY <2>1, <2>2
<1>2. last = Len(published) /\ last \in Nat /\ published \in Seq(Kinds \cup {"failed"})
  BY LastPublished DEF TypeOK
<1>3. last <= Len(log) /\ \A i \in 1..last : published[i] = log[i]
  BY DEF EventsInOrder
<1>4. next \in last..top /\ (last + 1)..next \subseteq DOMAIN waiting
         /\ next + 1 \notin DOMAIN waiting
  <2>1. DOMAIN waiting \subseteq 1..top
    BY <1>1
  <2>2. \E n \in last..top :
           (last + 1)..n \subseteq DOMAIN waiting /\ n + 1 \notin DOMAIN waiting
    <3> DEFINE D == DOMAIN waiting
    <3>1. last <= top /\ D \subseteq 1..top /\ last \in Nat /\ top \in Nat
      BY <2>1, <1>1, <1>2, <1>3
    <3> HIDE DEF last, top, D
    <3>2. \E n \in last..top : (last + 1)..n \subseteq D /\ n + 1 \notin D
      BY <3>1, FirstGap
    <3> QED
      BY <3>2 DEF D
  <2> QED
    BY <2>2
<1>5. /\ published' = published \o more
      /\ pending' = [s \in {t \in DOMAIN waiting : t > next} |-> waiting[s]]
      /\ registered' = (registered /\ "closed" \notin ToSet(published'))
  BY DEF PublishReady
<1> HIDE DEF next, last, top
<1>6. more \in Seq(Kinds) /\ Len(more) = next - last
        /\ \A i \in 1..(next - last) : more[i] = log[last + i]
  <2>1. \A i \in 1..(next - last) : last + i \in (last + 1)..next
    BY <1>1, <1>2, <1>4
  <2>2. \A i \in 1..(next - last) : waiting[last + i] = log[last + i]
                                    /\ log[last + i] \in Kinds
    BY <2>1, <1>1, <1>4
  <2>3. next - last \in Nat
    BY <1>1, <1>2, <1>4
  <2> QED
    BY <2>2, <2>3
<1> HIDE DEF more
<1>7. /\ published' \in Seq(Kinds \cup {"failed"}) /\ Len(published') = next
      /\ \A i \in 1..next : published'[i] = log[i]
  <2>1. more \in Seq(Kinds \cup {"failed"})
    BY <1>6
  <2>2. published' \in Seq(Kinds \cup {"failed"}) /\ Len(published') = Len(published) + Len(more)
    BY <2>1, <1>2, <1>5
  <2>3. Len(published') = next
    BY <2>2, <1>1, <1>2, <1>4, <1>6
  <2>4. ASSUME NEW i \in 1..next PROVE published'[i] = log[i]
    <3>1. CASE i <= last
      BY <3>1, <1>1, <1>2, <1>3, <1>4, <1>5, <2>1
    <3>2. CASE i > last
      <4>1. i - last \in 1..(next - last) /\ last + (i - last) = i
        BY <3>2, <1>1, <1>2, <1>4
      <4>2. published'[i] = more[i - last]
        BY <3>2, <4>1, <1>1, <1>2, <1>4, <1>5, <1>6, <2>1
      <4> QED
        BY <4>1, <4>2, <1>6
    <3> QED
      BY <3>1, <3>2, <1>1, <1>2, <1>4
  <2> QED
    BY <2>2, <2>3, <2>4
<1>8. next <= Len(log)
  <2>1. CASE next = last
    BY <2>1, <1>3
  <2>2. CASE next # last
    <3>1. next \in (last + 1)..next
      BY <2>2, <1>1, <1>2, <1>4
    <3> QED
      BY <3>1, <1>1, <1>4
  <2> QED
    BY <2>1, <2>2
<1>9. ~failed'
  <2>1. \A i \in 1..next : published'[i] # "failed"
    BY <1>1, <1>2, <1>4, <1>7, <1>8 DEF Kinds
  <2> QED
    BY <2>1, <1>7 DEF failed, ToSet
<1>10. lastPublished' = next
  BY <1>7, <1>9 DEF lastPublished
<1>11. EventsInOrder'
  BY <1>7, <1>8, <1>10 DEF EventsInOrder
<1>12. registered' \/ ~registered \/ closedPublished'
  BY <1>5 DEF closedPublished
<1>13. next \in Nat /\ next >= lastPublished
  BY <1>1, <1>2, <1>4 DEF last
<1>14. registered' \in BOOLEAN
  BY <1>5
<1>15. \A s \in DOMAIN pending' : s \in DOMAIN waiting /\ pending'[s] = log[s]
  BY <1>5
<1>16. \A s \in DOMAIN waiting : s > next => s \in DOMAIN pending'
  BY <1>5
<1> QED
  BY <1>4, <1>7, <1>9, <1>10, <1>11, <1>12, <1>13, <1>14, <1>15, <1>16

-----------------------------------------------------------------------------
\* The parts of the invariant that a step does not touch.
LEMMA LogFrame ==
    ASSUME LogInv, UNCHANGED <<log, streams, retained>>
    PROVE  LogInv'
  BY DEF LogInv, ExitsOnce, ClosesLast, Outputs, Ends, Exited, Closed

LEMMA LinkFrame ==
    ASSUME LinkInv,
           UNCHANGED <<pc, status, current, candidate, broken, closed, reading, attached>>
    PROVE  LinkInv'
  BY DEF LinkInv, UsedConnectionServed

LEMMA WriteFrame ==
    ASSUME WriteInv, UNCHANGED writeVars
    PROVE  WriteInv'
  BY DEF WriteInv, writeVars

LEMMA ResponseFrame ==
    ASSUME ResponseInv, UNCHANGED <<pc, response, log>>
    PROVE  ResponseInv'
  BY DEF ResponseInv

LEMMA PublishedFrame ==
    ASSUME UNCHANGED published
    PROVE  /\ lastPublished' = lastPublished /\ failed' = failed
           /\ closedPublished' = closedPublished /\ exitPublished' = exitPublished
  BY DEF lastPublished, failed, closedPublished, exitPublished

LEMMA StreamFrame ==
    ASSUME StreamInv, UNCHANGED <<published, pending, log, registered, status, pc, response>>
    PROVE  StreamInv'
  BY PublishedFrame DEF StreamInv, EventsInOrder

\* A step of the recovery that neither ends nor starts a use or a read.
LEMMA NothingToCover ==
    ASSUME ~(status' = "connected"), ~(pc' = "recover"), ~(pc' = "install")
    PROVE  CoverInv'
  BY DEF CoverInv

LEMMA InitInv == Init => Inv
<1> SUFFICES ASSUME Init PROVE Inv
  OBVIOUS
<1>1. MaxConnections >= 1 /\ 1 \in Connections
  BY ConstantsAssumption DEF Connections
<1>2. ToSet(published) = {} /\ ToSet(log) = {}
  BY DEF Init, ToSet
<1>3. ~failed /\ ~closedPublished /\ lastPublished = 0 /\ ~Exited /\ ~Closed
  BY <1>2 DEF Init, failed, closedPublished, lastPublished, Exited, Closed
<1>4. TypeOK
  <2>1. wire \in [Connections -> Seq(DOMAIN log)]
    BY DEF Init
  <2>2. DOMAIN pending = {} /\ log \in Seq(Kinds) /\ published \in Seq(Kinds \cup {"failed"}) /\ Len(log) = 0
    BY DEF Init
  <2>3. write \in [at : {"idle", "call", "accepted", "refused"},
                   on : Connections \cup {NoConnection}]
    BY DEF Init
  <2>4. attempt \in [Connections -> {"none", "sent", "accepted", "refused"}]
    BY DEF Init
  <2>5. Len(log) <= MaxOutputs + 2
    BY <2>2, ConstantsAssumption
  <2>6. /\ retained \subseteq DOMAIN log /\ unsent \subseteq DOMAIN log
        /\ broken \subseteq Connections /\ closed \subseteq broken
        /\ reading \subseteq Connections
    BY <1>1 DEF Init
  <2>7. /\ streams \in 0..2 /\ stdin \in Nat
        /\ connections \in Connections /\ attached \in Connections
        /\ current \in Connections
    BY <1>1 DEF Init
  <2>8. /\ present \in BOOLEAN /\ session \in {"live", "expired"}
        /\ accepted \in BOOLEAN /\ registered \in BOOLEAN
        /\ status \in {"connected", "recovering", "failed"}
        /\ pc \in {"idle", "connect", "initialize", "read", "recover",
                   "terminate", "install"}
        /\ candidate = NoConnection
    BY DEF Init
  <2> QED
    BY <2>1, <2>2, <2>3, <2>4, <2>5, <2>6, <2>7, <2>8 DEF TypeOK
<1>5. LogInv
  <2>1. Outputs = {} /\ Ends = 0 /\ DOMAIN log = {} /\ Len(log) = 0
    BY <1>3 DEF Init, Outputs, Ends
  <2>2. Cardinality(Outputs) = 0
    BY <2>1, FS_EmptySet
  <2>3. retained = {}
    BY DEF Init
  <2> QED
    BY <1>3, <2>1, <2>2, <2>3, ConstantsAssumption DEF LogInv, ExitsOnce, ClosesLast
<1>6. LinkInv
  BY <1>1 DEF Init, LinkInv, UsedConnectionServed
<1>7. WriteInv
  BY DEF Init, WriteInv
<1>8. ResponseInv
  BY DEF Init, ResponseInv
<1>9. StreamInv
  BY <1>3 DEF Init, StreamInv, EventsInOrder
<1>10. CoverInv
  BY <1>3 DEF Init, CoverInv
<1> QED
  BY <1>4, <1>5, <1>6, <1>7, <1>8, <1>9, <1>10 DEF Inv

-----------------------------------------------------------------------------
\* The process. A new event is not sent yet, so that it is on its way.
LEMMA OutputsFinite ==
    ASSUME TypeOK
    PROVE  IsFiniteSet(Outputs) /\ Cardinality(Outputs) \in Nat
<1>1. Len(log) \in Nat /\ Outputs \subseteq 1..Len(log)
  BY DEF TypeOK, Outputs
<1>2. IsFiniteSet(1..Len(log))
  BY <1>1, FS_Interval
<1>3. IsFiniteSet(Outputs)
  BY <1>1, <1>2, FS_Subset
<1> QED
  BY <1>3, FS_CardinalityType

LEMMA RecordedLog ==
    ASSUME TypeOK, LogInv, ~Closed, NEW kind \in Kinds, log' = Append(log, kind)
    PROVE  /\ log' \in Seq(Kinds) /\ Len(log') = Len(log) + 1 /\ Len(log) \in Nat
           /\ DOMAIN log = 1..Len(log) /\ DOMAIN log' = 1..(Len(log) + 1)
           /\ \A i \in DOMAIN log : log'[i] = log[i]
           /\ log'[Len(log) + 1] = kind
           /\ Outputs' = IF kind = "output" THEN Outputs \cup {Len(log) + 1} ELSE Outputs
           /\ Exited' <=> (Exited \/ kind = "exited")
           /\ Closed' <=> kind = "closed"
           /\ ClosesLast'
<1>1. log \in Seq(Kinds)
  BY DEF TypeOK
<1>2. /\ log' \in Seq(Kinds) /\ Len(log') = Len(log) + 1 /\ Len(log) \in Nat
      /\ DOMAIN log = 1..Len(log) /\ DOMAIN log' = 1..(Len(log) + 1)
      /\ \A i \in DOMAIN log : log'[i] = log[i]
      /\ log'[Len(log) + 1] = kind
  BY <1>1
<1>3. ToSet(log') = ToSet(log) \cup {kind}
  BY <1>1, Appended
<1>4. Exited' <=> (Exited \/ kind = "exited")
  BY <1>3 DEF Exited
<1>5. Closed' <=> kind = "closed"
  BY <1>3 DEF Closed
<1>6. Outputs' = IF kind = "output" THEN Outputs \cup {Len(log) + 1} ELSE Outputs
  BY <1>2 DEF Outputs
<1>7. \A i \in DOMAIN log : log[i] # "closed"
  BY <1>1 DEF Closed, ToSet
<1>8. ClosesLast'
  BY <1>2, <1>7 DEF ClosesLast
<1> QED
  BY <1>2, <1>4, <1>5, <1>6, <1>8

LEMMA RecordedCount ==
    ASSUME ConstantsAssumption, TypeOK, LogInv, ~Closed, NEW kind \in Kinds, log' = Append(log, kind),
           kind = "output" => Cardinality(Outputs) < MaxOutputs,
           kind = "exited" => ~Exited
    PROVE  /\ Cardinality(Outputs') <= MaxOutputs
           /\ Len(log') = Cardinality(Outputs') + Ends'
           /\ Len(log') <= MaxOutputs + 2
           /\ ExitsOnce'
<1>1. Cardinality(Outputs) \in Nat /\ IsFiniteSet(Outputs)
  BY OutputsFinite
<1>2. Len(log') = Len(log) + 1 /\ Len(log) \in Nat
  BY RecordedLog
<1>3. Cardinality(Outputs) <= MaxOutputs /\ Len(log) = Cardinality(Outputs) + Ends
  BY DEF LogInv
<1>4. Len(log) + 1 \notin Outputs
  BY <1>2 DEF Outputs, TypeOK
<1>7. Ends \in 0..2 /\ Ends' \in 0..2 /\ MaxOutputs \in Nat
  BY ConstantsAssumption DEF Ends
<1> DEFINE Counted == Cardinality(Outputs') <= MaxOutputs
                      /\ Len(log') = Cardinality(Outputs') + Ends'
<1>5. ASSUME kind = "output" PROVE Counted
  <2>1. Cardinality(Outputs') = Cardinality(Outputs) + 1
    BY <1>1, <1>4, <1>5, RecordedLog, FS_AddElement
  <2>2. Ends' = Ends
    BY <1>5, RecordedLog DEF Ends
  <2> QED
    BY <1>1, <1>2, <1>3, <1>5, <1>7, <2>1, <2>2
<1>6. ASSUME kind # "output" PROVE Counted
  <2>1. Outputs' = Outputs
    BY <1>6, RecordedLog
  <2>2. Ends' = Ends + 1
    BY <1>6, RecordedLog DEF Ends, Kinds
  <2> QED
    BY <1>1, <1>2, <1>3, <1>7, <2>1, <2>2
<1>8. Len(log') <= MaxOutputs + 2
  <2>1. Counted
    BY <1>5, <1>6
  <2>2. Cardinality(Outputs') \in Nat
    <3>1. Outputs' = Outputs \/ Outputs' = Outputs \cup {Len(log) + 1}
      BY RecordedLog
    <3>2. IsFiniteSet(Outputs')
      BY <3>1, <1>1, FS_AddElement
    <3> QED
      BY <3>2, FS_CardinalityType
  <2> QED
    BY <2>1, <2>2, <1>2, <1>7
<1>9. ExitsOnce'
  <2>1. ExitsOnce
    BY DEF LogInv
  <2>2. Exited \/ \A i \in DOMAIN log : log[i] # "exited"
    BY DEF Exited, ToSet, TypeOK
  <2> QED
    BY <2>1, <2>2, RecordedLog DEF ExitsOnce
<1> QED
  BY <1>5, <1>6, <1>8, <1>9

LEMMA Recorded ==
    ASSUME ConstantsAssumption, Inv, ~Closed, NEW kind \in Kinds, Record(kind),
           kind = "output" => Cardinality(Outputs) < MaxOutputs,
           kind = "exited" => ~Exited,
           kind = "closed" => (streams = 0 /\ Exited),
           retained' \subseteq retained \/
              (kind = "output" /\ retained' \subseteq retained \cup {nextSeq}),
           UNCHANGED <<streams, present, sessionVars, writeVars, linkVars, wire,
                       streamVars, recoveryVars>>
    PROVE  Inv'
<1> USE DEF sessionVars, writeVars, linkVars, streamVars, recoveryVars
<1>0. TypeOK /\ LogInv /\ LinkInv /\ WriteInv /\ ResponseInv /\ StreamInv /\ CoverInv
  BY DEF Inv
<1>1. log' = Append(log, kind) /\ unsent' = unsent \cup {Len(log) + 1}
  BY DEF Record, nextSeq
<1>2. /\ log' \in Seq(Kinds) /\ Len(log') = Len(log) + 1 /\ Len(log) \in Nat
      /\ DOMAIN log = 1..Len(log) /\ DOMAIN log' = 1..(Len(log) + 1)
      /\ \A i \in DOMAIN log : log'[i] = log[i]
      /\ log'[Len(log) + 1] = kind
      /\ Exited' <=> (Exited \/ kind = "exited")
      /\ Closed' <=> kind = "closed"
      /\ ClosesLast'
  BY <1>0, <1>1, RecordedLog
<1>3. /\ Cardinality(Outputs') <= MaxOutputs
      /\ Len(log') = Cardinality(Outputs') + Ends'
      /\ Len(log') <= MaxOutputs + 2
      /\ ExitsOnce'
  BY <1>0, <1>1, RecordedCount
<1>4. DOMAIN log \subseteq DOMAIN log' /\ Len(log) + 1 \in DOMAIN log'
  BY <1>2
<1>5. lastPublished' = lastPublished /\ failed' = failed /\ closedPublished' = closedPublished
         /\ lastPublished \in Nat
  BY <1>0, PublishedFrame, LastPublished DEF TypeOK
<1>6. retained' \subseteq DOMAIN log' /\ \A s \in retained' : log'[s] = "output"
  BY <1>0, <1>2, <1>4 DEF nextSeq, LogInv, TypeOK
<1>7. LogInv'
  BY <1>2, <1>3, <1>6 DEF LogInv
<1>8. TypeOK'
  <2>1. wire' \in [Connections -> Seq(DOMAIN log')]
    <3>1. \A c \in Connections : wire[c] \in Seq(DOMAIN log')
      BY <1>0, <1>4 DEF TypeOK
    <3> QED
      BY <1>0, <3>1 DEF TypeOK
  <2>2. unsent' \subseteq DOMAIN log' /\ DOMAIN pending' \subseteq DOMAIN log'
    BY <1>0, <1>1, <1>4 DEF TypeOK
  <2> QED
    BY <1>0, <1>2, <1>3, <1>6, <2>1, <2>2 DEF TypeOK
<1>9. LinkInv'
  BY <1>0, LinkFrame
<1>10. WriteInv'
  BY <1>0, WriteFrame
<1>11. ResponseInv'
  <2> SUFFICES ASSUME pc = "recover" PROVE ResponseInv'
    BY DEF ResponseInv
  <2>1. /\ response.known \in BOOLEAN
        /\ response.nextSeq \in 1..(Len(log) + 1)
        /\ \A s \in response.chunks : s \in DOMAIN log /\ log[s] = "output"
        /\ response.exited => \E s \in 1..(response.nextSeq - 1) : log[s] = "exited"
        /\ response.closed =>
              response.nextSeq - 1 \in DOMAIN log /\ log[response.nextSeq - 1] = "closed"
    BY <1>0 DEF ResponseInv
  <2>2. \A s \in 1..(response.nextSeq - 1) : s \in DOMAIN log
    BY <2>1, <1>2
  <2>3. response.nextSeq \in 1..(Len(log') + 1)
    BY <2>1, <1>2
  <2> QED
    BY <2>1, <2>2, <2>3, <1>2, <1>4 DEF ResponseInv
<1>12. StreamInv'
  <2>1. EventsInOrder'
    BY <1>0, <1>2, <1>5 DEF StreamInv, EventsInOrder
  <2>2. \A s \in DOMAIN pending' : pending'[s] = log'[s]
    BY <1>0, <1>2 DEF StreamInv, TypeOK
  <2> QED
    BY <2>1, <2>2, <1>0, <1>5 DEF StreamInv
<1>13. CoverInv'
  <2> SUFFICES ASSUME ~failed', NEW s \in (lastPublished' + 1)..Len(log')
               PROVE  /\ status' = "connected" /\ current' \notin broken' => s \in Coming(current)'
                      /\ pc' = "recover" /\ candidate' \notin broken' =>
                             s < response'.nextSeq \/ s \in Coming(candidate)'
                      /\ pc' = "install" /\ candidate' \notin broken' => s \in Coming(candidate)'
    BY DEF CoverInv
  <2>1. CASE s = Len(log) + 1
    BY <2>1, <1>1 DEF Coming
  <2>2. CASE s # Len(log) + 1
    <3>1. s \in (lastPublished + 1)..Len(log)
      BY <2>2, <1>2, <1>5
    <3>2. Coming(current) \subseteq Coming(current)' /\ Coming(candidate) \subseteq Coming(candidate)'
      BY <1>1 DEF Coming
    <3> QED
      BY <3>1, <3>2, <1>0, <1>5 DEF CoverInv
  <2> QED
    BY <2>1, <2>2
<1> QED
  BY <1>7, <1>8, <1>9, <1>10, <1>11, <1>12, <1>13 DEF Inv

LEMMA ProcessStep ==
    ASSUME ConstantsAssumption, Inv,
           StreamOutput \/ WatchExit \/ MaybeEmitClosed
    PROVE  Inv'
<1>0. TypeOK /\ LogInv
  BY DEF Inv
<1>1. CASE StreamOutput
  <2>1. streams # 0
    <3>1. UnsentOutput \subseteq Outputs /\ IsFiniteSet(Outputs)
      BY <1>0, OutputsFinite DEF UnsentOutput, Outputs, TypeOK
    <3>2. Cardinality(UnsentOutput) \in Nat
      BY <3>1, FS_Subset, FS_CardinalityType
    <3>3. Cardinality(UnsentOutput) < streams
      BY <1>1 DEF StreamOutput
    <3> QED
      BY <3>2, <3>3
  <2>2. ~Closed
    BY <2>1, <1>0 DEF LogInv
  <2>3. Cardinality(Outputs) < MaxOutputs
    BY <1>1 DEF StreamOutput, Outputs
  <2>4. retained' \subseteq retained \cup {nextSeq}
    BY <1>1 DEF StreamOutput
  <2>5. Record("output") /\ UNCHANGED <<streams, present, sessionVars, writeVars, linkVars, wire,
                       streamVars, recoveryVars>>
    BY <1>1 DEF StreamOutput
  <2> QED
    BY <2>2, <2>3, <2>4, <2>5, Recorded DEF Kinds
<1>2. CASE WatchExit
  <2>1. ~Exited /\ ~Closed
    BY <1>2, <1>0 DEF WatchExit, LogInv
  <2>2. Record("exited") /\ UNCHANGED <<retained, streams, present, sessionVars, writeVars,
                       linkVars, wire, streamVars, recoveryVars>>
    BY <1>2 DEF WatchExit
  <2> QED
    BY <2>1, <2>2, Recorded DEF Kinds
<1>3. CASE MaybeEmitClosed
  <2>1. Exited /\ ~Closed /\ streams = 0
    BY <1>3 DEF MaybeEmitClosed
  <2>2. Record("closed") /\ UNCHANGED <<retained, streams, present, sessionVars, writeVars,
                       linkVars, wire, streamVars, recoveryVars>>
    BY <1>3 DEF MaybeEmitClosed
  <2> QED
    BY <2>1, <2>2, Recorded DEF Kinds
<1> QED
  BY <1>1, <1>2, <1>3

\* What is not sent, waits or is on the wire matters only where it shrinks.
LEMMA CoverFrame ==
    ASSUME CoverInv, UNCHANGED <<published, pending, log, status, pc, current, candidate, response>>,
           broken \subseteq broken',
           \A c \in Connections \ broken' :
              ((c = current /\ status = "connected")
                  \/ (c = candidate /\ pc \in {"recover", "install"}))
              => Coming(c) \subseteq Coming(c)',
           status = "connected" => current \in Connections,
           pc \in {"recover", "install"} => candidate \in Connections
    PROVE  CoverInv'
<1>1. lastPublished' = lastPublished /\ failed' = failed
  BY PublishedFrame
<1>2. ASSUME ~failed', NEW s \in (lastPublished' + 1)..Len(log')
      PROVE  /\ status' = "connected" /\ current' \notin broken' => s \in Coming(current)'
             /\ pc' = "recover" /\ candidate' \notin broken' =>
                    s < response'.nextSeq \/ s \in Coming(candidate)'
             /\ pc' = "install" /\ candidate' \notin broken' => s \in Coming(candidate)'
  BY <1>1, <1>2 DEF CoverInv
<1> QED
  BY <1>2 DEF CoverInv

LEMMA TableStep ==
    ASSUME ConstantsAssumption, Inv, FinishOutputStream \/ ForgetProcess \/ Expire \/ Detach
    PROVE  Inv'
<1> USE DEF sessionVars, writeVars, linkVars, streamVars, recoveryVars, processVars
<1>0. TypeOK /\ LogInv /\ LinkInv /\ WriteInv /\ ResponseInv /\ StreamInv /\ CoverInv
  BY DEF Inv
<1>1. /\ UNCHANGED <<log, retained, unsent, stdin, accepted, write, linkVars, wire, streamVars, recoveryVars>>
  BY DEF FinishOutputStream, ForgetProcess, Expire, Detach
<1>2. streams' \in 0..2 /\ streams' <= streams
  <2>1. ASSUME FinishOutputStream PROVE streams' \in 0..2 /\ streams' <= streams
    <3>1. UnsentOutput \subseteq Outputs /\ IsFiniteSet(Outputs)
      BY <1>0, OutputsFinite DEF UnsentOutput, Outputs, TypeOK
    <3>2. Cardinality(UnsentOutput) \in Nat
      BY <3>1, FS_Subset, FS_CardinalityType
    <3>3. Cardinality(UnsentOutput) < streams /\ streams' = streams - 1 /\ streams \in 0..2
      BY <2>1, <1>0 DEF FinishOutputStream, TypeOK
    <3> QED
      BY <3>2, <3>3
  <2>2. ASSUME ~FinishOutputStream PROVE streams' = streams /\ streams \in 0..2
    BY <2>2, <1>0 DEF ForgetProcess, Expire, Detach, TypeOK
  <2> QED
    BY <2>1, <2>2
<1>3. attached' \in {attached, NoConnection} /\ (attached' = attached \/ attached \in broken)
  BY DEF FinishOutputStream, ForgetProcess, Expire, Detach
<1>4. attempt' \in [Connections -> {"none", "sent", "accepted", "refused"}]
         /\ \A c \in Connections : attempt'[c] = attempt[c] \/ attempt'[c] = "none"
  <2>1. attempt \in [Connections -> {"none", "sent", "accepted", "refused"}]
    BY <1>0 DEF TypeOK
  <2>2. attempt' = attempt \/
        attempt' = [attempt EXCEPT ![attached] = IF attempt[attached] = "sent" THEN "none" ELSE attempt[attached]]
    BY DEF FinishOutputStream, ForgetProcess, Expire, Detach
  <2> QED
    BY <2>1, <2>2
<1>5. present' \in BOOLEAN /\ session' \in {"live", "expired"}
  BY <1>0 DEF FinishOutputStream, ForgetProcess, Expire, Detach, TypeOK
<1>6. TypeOK'
  BY <1>0, <1>1, <1>2, <1>3, <1>4, <1>5 DEF TypeOK
<1>7. LogInv'
  <2>1. /\ Outputs' = Outputs /\ Ends' = Ends /\ (ExitsOnce' <=> ExitsOnce)
        /\ (ClosesLast' <=> ClosesLast) /\ (Closed' <=> Closed) /\ (Exited' <=> Exited)
    BY <1>1 DEF Outputs, Ends, ExitsOnce, ClosesLast, Closed, Exited
  <2>2. streams = 0 => streams' = 0
    BY <1>0, <1>2
  <2> QED
    BY <2>1, <2>2, <1>0, <1>1 DEF LogInv
<1>8. LinkInv'
  BY <1>0, <1>1, <1>3 DEF LinkInv, UsedConnectionServed
<1>9. WriteInv'
  BY <1>0, <1>1, <1>4 DEF WriteInv
<1>10. ResponseInv' /\ StreamInv'
  BY <1>0, <1>1, ResponseFrame, StreamFrame
<1>11. CoverInv'
  <2>1. \A c \in Connections : Coming(c)' = Coming(c)
    BY <1>1 DEF Coming
  <2> QED
    BY <2>1, <1>0, <1>1, CoverFrame DEF LinkInv
<1> QED
  BY <1>6, <1>7, <1>8, <1>9, <1>10, <1>11 DEF Inv

\* A notification goes to the connection that is in use or tried, if to any
\* that matters.
LEMMA NotifyStep ==
    ASSUME Inv, NEW s \in Sequences_, Notify(s)
    PROVE  Inv'
<1> USE DEF sessionVars, writeVars, linkVars, streamVars, recoveryVars, processVars
<1>0. TypeOK /\ LogInv /\ LinkInv /\ WriteInv /\ ResponseInv /\ StreamInv /\ CoverInv
  BY DEF Inv
<1>1. UNCHANGED <<log, retained, streams, present, sessionVars, writeVars,
                   linkVars, streamVars, recoveryVars>>
      /\ unsent' = unsent \ {s} /\ s \in unsent
  BY DEF Notify
<1>2. /\ wire' \in [Connections -> Seq(DOMAIN log)]
      /\ \A c \in Connections : ToSet(wire[c]) \subseteq ToSet(wire'[c])
      /\ attached \in Connections \ broken => s \in ToSet(wire'[attached])
  <2>1. wire \in [Connections -> Seq(DOMAIN log)] /\ s \in DOMAIN log
    BY <1>0, <1>1 DEF TypeOK
  <2>2. CASE attached \in Connections \ broken
    <3>1. wire' = [wire EXCEPT ![attached] = Append(wire[attached], s)]
      BY <2>2 DEF Notify
    <3>2. ToSet(Append(wire[attached], s)) = ToSet(wire[attached]) \cup {s}
            /\ Append(wire[attached], s) \in Seq(DOMAIN log)
      BY <2>1, <2>2, Appended
    <3>3. wire'[attached] = Append(wire[attached], s)
            /\ \A c \in Connections \ {attached} : wire'[c] = wire[c]
      BY <2>1, <2>2, <3>1
    <3> HIDE DEF ToSet
    <3> QED
      BY <2>1, <2>2, <3>1, <3>2, <3>3
  <2>3. CASE attached \notin Connections \ broken
    BY <2>1, <2>3 DEF Notify
  <2> QED
    BY <2>2, <2>3
<1>3. TypeOK'
  BY <1>0, <1>1, <1>2 DEF TypeOK
<1>4. LogInv' /\ LinkInv' /\ WriteInv' /\ ResponseInv' /\ StreamInv'
  BY <1>0, <1>1, LogFrame, LinkFrame, WriteFrame, ResponseFrame, StreamFrame
<1>5. ASSUME NEW c \in Connections \ broken,
             (c = current /\ status = "connected")
                \/ (c = candidate /\ pc \in {"recover", "install"})
      PROVE  Coming(c) \subseteq Coming(c)'
  <2>1. attached = c
    BY <1>0, <1>5 DEF LinkInv, UsedConnectionServed
  <2>2. s \in ToSet(wire'[c]) /\ ToSet(wire[c]) \subseteq ToSet(wire'[c])
    BY <1>2, <1>5, <2>1
  <2> QED
    BY <2>2, <1>1 DEF Coming
<1>6. CoverInv'
  <2>1. /\ status = "connected" => current \in Connections
        /\ pc \in {"recover", "install"} => candidate \in Connections
    BY <1>0 DEF LinkInv
  <2> QED
    BY <2>1, <1>0, <1>1, <1>5, CoverFrame
<1> QED
  BY <1>3, <1>4, <1>6 DEF Inv

-----------------------------------------------------------------------------
\* The connections: what is lost is lost with a connection that is broken.
LEMMA BreakStep ==
    ASSUME Inv, NEW c \in Connections, Break(c) \/ Notice(c)
    PROVE  Inv'
<1> USE DEF sessionVars, writeVars, linkVars, streamVars, recoveryVars, processVars
<1>0. TypeOK /\ LogInv /\ LinkInv /\ WriteInv /\ ResponseInv /\ StreamInv /\ CoverInv
  BY DEF Inv
<1>1. UNCHANGED <<processVars, sessionVars, writeVars, connections, reading, streamVars, recoveryVars>>
  BY DEF Break, Notice
<1>2. /\ broken \subseteq broken' /\ broken' \subseteq Connections
      /\ closed \subseteq closed' /\ closed' \subseteq broken'
  BY <1>0 DEF Break, Notice, TypeOK
<1>3. wire' \in [Connections -> Seq(DOMAIN log)]
         /\ \A d \in Connections \ broken' : wire'[d] = wire[d]
  <2>1. wire \in [Connections -> Seq(DOMAIN log)]
    BY <1>0 DEF TypeOK
  <2>2. CASE Break(c)
    <3>1. PICK n \in 0..Len(wire[c]) : wire' = [wire EXCEPT ![c] = SubSeq(wire[c], 1, n)]
      BY <2>2 DEF Break
    <3>2. SubSeq(wire[c], 1, n) \in Seq(DOMAIN log)
      BY <2>1
    <3>3. c \in broken'
      BY <2>2 DEF Break
    <3> QED
      BY <2>1, <3>1, <3>2, <3>3
  <2>3. CASE Notice(c)
    BY <2>1, <2>3 DEF Notice
  <2> QED
    BY <2>2, <2>3
<1>4. TypeOK'
  <2>1. UNCHANGED <<status, current, published, pending, registered, pc, candidate, reading, connections>>
    BY <1>1
  <2> QED
    BY <2>1, <1>0, <1>1, <1>2, <1>3, ClientTypes DEF TypeOK
<1>5. LinkInv'
  BY <1>0, <1>1, <1>2 DEF LinkInv, UsedConnectionServed
<1>6. LogInv' /\ WriteInv' /\ ResponseInv' /\ StreamInv'
  BY <1>0, <1>1, LogFrame, WriteFrame, ResponseFrame, StreamFrame
<1>7. CoverInv'
  <2>1. \A d \in Connections \ broken' : Coming(d)' = Coming(d)
    BY <1>1, <1>3 DEF Coming
  <2> QED
    BY <2>1, <1>0, <1>1, <1>2, CoverFrame DEF LinkInv
<1> QED
  BY <1>4, <1>5, <1>6, <1>7 DEF Inv

\* The reader of a connection meets its end and, if it is in use, asks for a
\* recovery.
LEMMA DisconnectedStep ==
    ASSUME Inv, NEW c \in Connections, HandleDisconnected(c)
    PROVE  Inv'
<1> USE DEF sessionVars, writeVars, linkVars, streamVars, recoveryVars, processVars
<1>0. TypeOK /\ LogInv /\ LinkInv /\ WriteInv /\ ResponseInv /\ StreamInv /\ CoverInv
  BY DEF Inv
<1>1. /\ UNCHANGED <<processVars, sessionVars, writeVars, connections, broken, wire, streamVars>>
      /\ closed' = closed \cup {c} /\ reading' = reading \ {c} /\ c \in broken
      /\ RequestRecovery(c)
  BY DEF HandleDisconnected
<1>2. UNCHANGED <<candidate, response>>
  BY <1>1 DEF RequestRecovery
<1>3. \/ status = "connected" /\ current = c /\ status' = "recovering" /\ current' = NoConnection
         /\ pc' = "connect"
      \/ ~(status = "connected" /\ current = c) /\ UNCHANGED <<status, current, pc>>
  BY <1>1 DEF RequestRecovery
<1>4. TypeOK'
  BY <1>0, <1>1, <1>2, <1>3 DEF TypeOK
<1>5. LinkInv'
  <2>1. CASE status = "connected" /\ current = c
    BY <2>1, <1>0, <1>1, <1>2, <1>3 DEF LinkInv, UsedConnectionServed
  <2>2. CASE ~(status = "connected" /\ current = c)
    BY <2>2, <1>0, <1>1, <1>2, <1>3 DEF LinkInv, UsedConnectionServed
  <2> QED
    BY <2>1, <2>2
<1>6. LogInv' /\ WriteInv'
  BY <1>0, <1>1, LogFrame, WriteFrame
<1>7. ResponseInv'
  BY <1>0, <1>1, <1>2, <1>3 DEF ResponseInv
<1>8. StreamInv'
  BY <1>0, <1>1, <1>2, <1>3, PublishedFrame DEF StreamInv, EventsInOrder
<1>9. CoverInv'
  <2>1. CASE status = "connected" /\ current = c
    BY <2>1, <1>3, NothingToCover
  <2>2. CASE ~(status = "connected" /\ current = c)
    <3>1. \A d \in Connections : Coming(d)' = Coming(d)
      BY <1>1 DEF Coming
    <3> QED
      BY <3>1, <2>2, <1>0, <1>1, <1>2, <1>3, CoverFrame DEF LinkInv
  <2> QED
    BY <2>1, <2>2
<1> QED
  BY <1>4, <1>5, <1>6, <1>7, <1>8, <1>9 DEF Inv

\* A step that publishes what has become ready and keeps the rest waiting.
LEMMA ReadyStream ==
    ASSUME ConstantsAssumption, Inv, ~failed, ~closedPublished,
           NEW waiting, DOMAIN pending \subseteq DOMAIN waiting,
           DOMAIN waiting \subseteq DOMAIN log,
           \A s \in DOMAIN waiting : waiting[s] = log[s],
           PublishReady(waiting), log' = log, status' = status, status # "failed",
           registered
    PROVE  /\ StreamInv'
           /\ ~failed'
           /\ published' \in Seq(Kinds \cup {"failed"})
           /\ DOMAIN pending' \subseteq DOMAIN log
           /\ registered' \in BOOLEAN
           /\ lastPublished' \in Nat /\ lastPublished' >= lastPublished
           /\ \A s \in DOMAIN waiting : s > lastPublished' => s \in DOMAIN pending'
           /\ lastPublished' + 1 \notin DOMAIN waiting
<1>1. TypeOK /\ EventsInOrder
  BY DEF Inv, StreamInv
<1>2. /\ published' \in Seq(Kinds \cup {"failed"})
      /\ DOMAIN pending' \subseteq DOMAIN waiting
      /\ registered' \in BOOLEAN
      /\ ~failed'
      /\ EventsInOrder'
      /\ lastPublished' \in Nat /\ lastPublished' >= lastPublished
      /\ \A s \in DOMAIN pending' : pending'[s] = log[s]
      /\ \A s \in DOMAIN waiting : s > lastPublished' => s \in DOMAIN pending'
      /\ lastPublished' + 1 \notin DOMAIN waiting
      /\ registered' \/ ~registered \/ closedPublished'
  BY <1>1, Ready
<1>3. StreamInv'
  BY <1>2 DEF StreamInv
<1> QED
  BY <1>2, <1>3

LEMMA NotificationStep ==
    ASSUME ConstantsAssumption, Inv, NEW c \in Connections, HandleNotification(c)
    PROVE  Inv'
<1> USE DEF sessionVars, writeVars, linkVars, recoveryVars, processVars
<1>0. TypeOK /\ LogInv /\ LinkInv /\ WriteInv /\ ResponseInv /\ StreamInv /\ CoverInv
  BY DEF Inv
<1> DEFINE s == Head(wire[c])
           ignored == ~registered \/ failed \/ closedPublished \/ s <= lastPublished
<1>1. /\ UNCHANGED <<processVars, sessionVars, writeVars, linkVars, recoveryVars>>
      /\ c \in reading /\ wire[c] # <<>>
      /\ wire' = [wire EXCEPT ![c] = Tail(wire[c])]
      /\ IF ignored THEN UNCHANGED streamVars ELSE PublishReady(AddEvent(s, log[s]))
  BY DEF HandleNotification
<1>2. /\ wire' \in [Connections -> Seq(DOMAIN log)]
      /\ \A d \in Connections : ToSet(wire[d]) \subseteq ToSet(wire'[d]) \cup {s}
      /\ s \in DOMAIN log
  <2>1. wire \in [Connections -> Seq(DOMAIN log)]
    BY <1>0 DEF TypeOK
  <2>2. s \in DOMAIN log /\ Tail(wire[c]) \in Seq(DOMAIN log)
    BY <2>1, <1>1
  <2>3. ToSet(wire[c]) \subseteq ToSet(Tail(wire[c])) \cup {s}
    <3> DEFINE w == wire[c]
    <3>1. w \in Seq(DOMAIN log) /\ w # <<>>
      BY <2>1, <1>1
    <3> HIDE DEF w
    <3>2. ASSUME NEW i \in 1..Len(w) PROVE w[i] \in ToSet(Tail(w)) \cup {Head(w)}
      <4>1. CASE i = 1
        BY <4>1, <3>1
      <4>2. CASE i > 1
        <5>1. i - 1 \in DOMAIN Tail(w) /\ Tail(w)[i - 1] = w[i]
          BY <4>2, <3>1
        <5> QED
          BY <5>1, <3>1 DEF ToSet
      <4> QED
        BY <4>1, <4>2
    <3> QED
      BY <3>1, <3>2 DEF ToSet, w
  <2>4. wire'[c] = Tail(wire[c]) /\ \A d \in Connections \ {c} : wire'[d] = wire[d]
    BY <2>1, <1>1
  <2> HIDE DEF ToSet, s
  <2> QED
    BY <2>1, <2>2, <2>3, <2>4, <1>1
<1>3. LogInv' /\ LinkInv' /\ WriteInv' /\ ResponseInv'
  BY <1>0, <1>1, LogFrame, LinkFrame, WriteFrame, ResponseFrame
<1>4. lastPublished \in Nat /\ Len(log) \in Nat
  BY <1>0, LastPublished DEF TypeOK
<1> HIDE DEF s
<1>5. CASE ignored
  <2>1. UNCHANGED <<published, pending, registered>>
    BY <1>1, <1>5 DEF streamVars
  <2>2. TypeOK'
    BY <1>0, <1>1, <1>2, <2>1 DEF TypeOK
  <2>3. StreamInv'
    BY <2>1, <1>0, <1>1, StreamFrame
  <2>4. lastPublished' = lastPublished /\ failed' = failed
    BY <2>1, PublishedFrame
  <2>5. CoverInv'
    <3>1. CASE failed
      BY <3>1, <2>4 DEF CoverInv
    <3>2. CASE ~failed /\ (~registered \/ closedPublished)
      <4>1. closedPublished /\ EventsInOrder
        BY <3>2, <1>0 DEF StreamInv
      <4>2. lastPublished = Len(log)
        BY <4>1, <3>2, <1>0, ClosedIsAll
      <4>3. (lastPublished' + 1)..Len(log') = {}
        BY <4>2, <2>4, <1>1, <1>4
      <4> QED
        BY <4>3 DEF CoverInv
    <3>3. CASE ~failed /\ s <= lastPublished
      <4>1. ASSUME NEW t \in (lastPublished + 1)..Len(log), NEW d \in Connections, t \in Coming(d)
            PROVE  t \in Coming(d)'
        <5>1. t # s
          BY <3>3, <1>4, <1>2
        <5> QED
          BY <5>1, <4>1, <1>1, <1>2, <2>1 DEF Coming
      <4>2. /\ status = "connected" => current \in Connections
            /\ pc \in {"recover", "install"} => candidate \in Connections
        BY <1>0 DEF LinkInv
      <4>3. UNCHANGED <<log, status, pc, current, candidate, response, broken>>
        BY <1>1
      <4> QED
        BY <4>1, <4>2, <4>3, <2>4, <1>0 DEF CoverInv
    <3> QED
      BY <3>1, <3>2, <3>3, <1>5
  <2> QED
    BY <1>3, <2>2, <2>3, <2>5 DEF Inv
<1>6. CASE ~ignored
  <2> DEFINE waiting == AddEvent(s, log[s])
  <2>1. /\ DOMAIN waiting = DOMAIN pending \cup {s}
        /\ DOMAIN waiting \subseteq DOMAIN log
        /\ \A t \in DOMAIN waiting : waiting[t] = log[t]
    BY <1>0, <1>2 DEF AddEvent, TypeOK, StreamInv
  <2>2. PublishReady(waiting)
    BY <1>1, <1>6
  <2>3. status # "failed"
    BY <1>0, <1>6 DEF StreamInv
  <2> HIDE DEF waiting
  <2>4. /\ StreamInv'
        /\ ~failed'
        /\ published' \in Seq(Kinds \cup {"failed"})
        /\ DOMAIN pending' \subseteq DOMAIN log
        /\ registered' \in BOOLEAN
        /\ lastPublished' \in Nat /\ lastPublished' >= lastPublished
        /\ \A t \in DOMAIN waiting : t > lastPublished' => t \in DOMAIN pending'
    BY <2>1, <2>2, <2>3, <1>1, <1>6, ReadyStream
  <2>5. TypeOK'
    <3>1. UNCHANGED <<status, current, candidate, pc, broken, closed, reading, connections>>
      BY <1>1
    <3> QED
      BY <3>1, <1>0, <1>1, <1>2, <2>4, ClientTypes DEF TypeOK
  <2>6. PICK n \in Nat : n = lastPublished' /\ n >= lastPublished
    BY <2>4
  <2>7. CoverInv'
    <3>1. ASSUME NEW t \in (n + 1)..Len(log), NEW d \in Connections, t \in Coming(d)
          PROVE  t \in Coming(d)'
      <4>1. t > n
        BY <1>4
      <4>2. t \in DOMAIN waiting => t \in DOMAIN pending'
        BY <2>4, <2>6, <4>1
      <4> QED
        BY <4>2, <3>1, <1>1, <1>2, <2>1 DEF Coming
    <3>2. (n + 1)..Len(log) \subseteq (lastPublished + 1)..Len(log)
      BY <2>6, <1>4
    <3>3. /\ status = "connected" => current \in Connections
          /\ pc \in {"recover", "install"} => candidate \in Connections
      BY <1>0 DEF LinkInv
    <3>4. UNCHANGED <<log, status, pc, current, candidate, response, broken>>
      BY <1>1
    <3> QED
      BY <3>1, <3>2, <3>3, <3>4, <2>6, <1>0, <1>6 DEF CoverInv
  <2> QED
    BY <1>3, <2>4, <2>5, <2>7 DEF Inv
<1> QED
  BY <1>5, <1>6

-----------------------------------------------------------------------------
\* The recovery. While it runs no connection is in use.
LEMMA Dropped ==
    ASSUME TypeOK, DropCandidate
    PROVE  /\ candidate' = NoConnection
           /\ reading' \subseteq Connections
           /\ broken' \subseteq Connections /\ closed' \subseteq broken'
           /\ wire' \in [Connections -> Seq(DOMAIN log)]
<1>1. wire \in [Connections -> Seq(DOMAIN log)]
  BY DEF TypeOK
<1>2. wire' \in [Connections -> Seq(DOMAIN log)]
  <2> DEFINE kept(c) == IF c \in {candidate} \cap Connections THEN <<>> ELSE wire[c]
  <2>1. wire' = [c \in Connections |-> kept(c)]
    BY DEF DropCandidate
  <2>2. ASSUME NEW c \in Connections PROVE kept(c) \in Seq(DOMAIN log)
    <3>1. <<>> \in Seq(DOMAIN log) /\ wire[c] \in Seq(DOMAIN log)
      BY <1>1
    <3> QED
      BY <3>1
  <2> HIDE DEF kept
  <2> QED
    BY <2>1, <2>2
<1> QED
  BY <1>2 DEF DropCandidate, TypeOK

LEMMA TryAgainStep ==
    ASSUME Inv, TryAgain, pc # "idle"
    PROVE  Inv'
<1> USE DEF sessionVars, writeVars, streamVars, processVars
<1>0. TypeOK /\ LogInv /\ LinkInv /\ WriteInv /\ ResponseInv /\ StreamInv /\ CoverInv
  BY DEF Inv
<1>1. /\ UNCHANGED <<processVars, sessionVars, writeVars, connections, streamVars, status, current>>
      /\ pc' = "connect" /\ DropCandidate
  BY DEF TryAgain
<1>2. status = "recovering"
  BY <1>0 DEF LinkInv
<1>3. TypeOK'
  BY <1>0, <1>1, Dropped DEF TypeOK
<1>4. LogInv' /\ WriteInv'
  BY <1>0, <1>1, LogFrame, WriteFrame
<1>5. LinkInv'
  BY <1>1, <1>2 DEF LinkInv, UsedConnectionServed
<1>6. ResponseInv' /\ CoverInv'
  BY <1>1, <1>2, NothingToCover DEF ResponseInv
<1>7. StreamInv'
  BY <1>0, <1>1, PublishedFrame DEF StreamInv, EventsInOrder
<1> QED
  BY <1>3, <1>4, <1>5, <1>6, <1>7 DEF Inv

\* set_failure: the failure is the last thing published, and nothing waits.
LEMMA FailureSet ==
    ASSUME TypeOK, LogInv, StreamInv, SetFailure, log' = log
    PROVE  /\ published' \in Seq(Kinds \cup {"failed"})
           /\ DOMAIN pending' \subseteq DOMAIN log
           /\ EventsInOrder'
           /\ \A s \in DOMAIN pending' : pending'[s] = log[s]
           /\ failed' => DOMAIN pending' = {}
           /\ failed' \/ closedPublished'
           /\ ~failed' => (lastPublished' = Len(log) /\ lastPublished' + 1 \notin DOMAIN pending')
<1>1. published \in Seq(Kinds \cup {"failed"}) /\ log \in Seq(Kinds) /\ DOMAIN pending \subseteq DOMAIN log
  BY DEF TypeOK
<1>2. EventsInOrder
  BY DEF StreamInv
<1>3. CASE failed \/ closedPublished
  <2>1. published' = published /\ pending' = pending
    BY <1>3 DEF SetFailure
  <2>2. /\ lastPublished' = lastPublished /\ failed' = failed /\ closedPublished' = closedPublished
    BY <2>1, PublishedFrame
  <2>3. ~failed => lastPublished = Len(log)
    BY <1>2, <1>3, ClosedIsAll
  <2>4. Len(log) + 1 \notin DOMAIN pending
    BY <1>1
  <2>5. EventsInOrder'
    BY <1>2, <2>1, <2>2 DEF EventsInOrder
  <2>6. (\A s \in DOMAIN pending : pending[s] = log[s]) /\ (failed => DOMAIN pending = {})
    BY DEF StreamInv
  <2> QED
    BY <1>1, <1>3, <2>1, <2>2, <2>3, <2>4, <2>5, <2>6
<1>4. CASE ~(failed \/ closedPublished)
  <2>1. published' = Append(published, "failed") /\ pending' = <<>>
    BY <1>4 DEF SetFailure
  <2>2. /\ published' \in Seq(Kinds \cup {"failed"}) /\ Len(published') = Len(published) + 1
        /\ \A i \in 1..Len(published) : published'[i] = published[i]
        /\ ToSet(published') = ToSet(published) \cup {"failed"}
    BY <1>1, <2>1, Appended
  <2>3. failed'
    BY <2>2 DEF failed
  <2>4. lastPublished' = Len(published) /\ lastPublished = Len(published)
    BY <1>1, <1>4, <2>2, <2>3 DEF lastPublished
  <2>5. EventsInOrder'
    BY <1>2, <2>2, <2>4 DEF EventsInOrder
  <2>6. DOMAIN pending' = {}
    BY <2>1
  <2> QED
    BY <2>2, <2>3, <2>5, <2>6
<1> QED
  BY <1>3, <1>4

LEMMA FailStep ==
    ASSUME Inv, Fail
    PROVE  Inv'
<1> USE DEF sessionVars, writeVars, processVars
<1>0. TypeOK /\ LogInv /\ LinkInv /\ WriteInv /\ ResponseInv /\ StreamInv /\ CoverInv
  BY DEF Inv
<1>1. /\ UNCHANGED <<processVars, sessionVars, writeVars, connections>>
      /\ status' = "failed" /\ current' = NoConnection /\ pc' = "idle" /\ DropCandidate
      /\ registered' = FALSE
  BY DEF Fail
<1>2. /\ published' \in Seq(Kinds \cup {"failed"})
      /\ DOMAIN pending' \subseteq DOMAIN log
      /\ EventsInOrder'
      /\ \A s \in DOMAIN pending' : pending'[s] = log[s]
      /\ failed' => DOMAIN pending' = {}
      /\ failed' \/ closedPublished'
      /\ ~failed' => (lastPublished' = Len(log) /\ lastPublished' + 1 \notin DOMAIN pending')
  <2>1. SetFailure
    <3>1. CASE registered
      BY <3>1 DEF Fail
    <3>2. CASE ~registered
      <4>1. failed \/ closedPublished
        BY <3>2, <1>0 DEF StreamInv
      <4> QED
        BY <4>1, <3>2 DEF Fail, SetFailure
    <3> QED
      BY <3>1, <3>2
  <2> QED
    BY <2>1, <1>0, <1>1, FailureSet
<1>3. TypeOK'
  BY <1>0, <1>1, <1>2, Dropped DEF TypeOK
<1>4. LogInv' /\ WriteInv'
  BY <1>0, <1>1, LogFrame, WriteFrame
<1>5. LinkInv'
  BY <1>1 DEF LinkInv, UsedConnectionServed
<1>6. ResponseInv' /\ CoverInv'
  BY <1>1, NothingToCover DEF ResponseInv
<1>7. StreamInv'
  BY <1>1, <1>2 DEF StreamInv
<1> QED
  BY <1>3, <1>4, <1>5, <1>6, <1>7 DEF Inv

LEMMA ConnectStep ==
    ASSUME ConstantsAssumption, Inv, Connect \/ Attach
    PROVE  Inv'
<1> USE DEF sessionVars, writeVars, streamVars, processVars
<1>0. TypeOK /\ LogInv /\ LinkInv /\ WriteInv /\ ResponseInv /\ StreamInv /\ CoverInv
  BY DEF Inv
<1>1. /\ UNCHANGED <<processVars, session, writeVars, broken, closed, wire, streamVars, status, current, response>>
      /\ pc' \in {"initialize", "read"} /\ pc \in {"connect", "initialize"}
  BY DEF Connect, Attach, linkVars
<1>2. status = "recovering"
  BY <1>0, <1>1 DEF LinkInv
<1>3. /\ connections' \in Connections /\ candidate' \in Connections
      /\ attached' \in Connections \cup {NoConnection}
      /\ reading' \subseteq Connections
      /\ candidate' \in closed' \cup reading'
      /\ pc' = "read" => attached' = candidate'
  <2>1. CASE Connect
    <3>1. connections' = connections + 1 /\ connections < MaxConnections
            /\ candidate' = connections' /\ reading' = reading \cup {connections'}
            /\ attached' = attached /\ pc' = "initialize"
      BY <2>1 DEF Connect
    <3>2. connections' \in Connections
      BY <3>1, <1>0, ConstantsAssumption DEF TypeOK, Connections
    <3> QED
      BY <3>1, <3>2, <1>0 DEF TypeOK
  <2>2. CASE Attach
    BY <2>2, <1>0 DEF Attach, TypeOK, LinkInv, linkVars
  <2> QED
    BY <2>1, <2>2
<1>4. TypeOK'
  BY <1>0, <1>1, <1>3 DEF TypeOK
<1>5. LogInv' /\ WriteInv'
  BY <1>0, <1>1, LogFrame, WriteFrame
<1>6. LinkInv'
  BY <1>1, <1>2, <1>3 DEF LinkInv, UsedConnectionServed
<1>7. ResponseInv' /\ CoverInv'
  BY <1>1, <1>2, NothingToCover DEF ResponseInv
<1>8. StreamInv'
  BY <1>0, <1>1, PublishedFrame DEF StreamInv, EventsInOrder
<1> QED
  BY <1>4, <1>5, <1>6, <1>7, <1>8 DEF Inv

\* A read that is answered now covers everything that has happened.
LEMMA ReadStep ==
    ASSUME ConstantsAssumption, Inv, RecoveryRead
    PROVE  Inv'
<1> USE DEF sessionVars, writeVars, streamVars, processVars, linkVars
<1>0. TypeOK /\ LogInv /\ LinkInv /\ WriteInv /\ ResponseInv /\ StreamInv /\ CoverInv
  BY DEF Inv
<1>1. /\ UNCHANGED <<processVars, sessionVars, writeVars, linkVars, wire, streamVars, status, current, candidate>>
      /\ pc' = "recover" /\ pc = "read"
  BY DEF RecoveryRead
<1>2. /\ response'.known = present /\ response'.nextSeq = Len(log) + 1
      /\ response'.chunks = {s \in retained : s > lastPublished}
      /\ response'.exited = Exited /\ response'.closed = Closed
  BY DEF RecoveryRead, nextSeq
<1>3. status = "recovering"
  BY <1>0, <1>1 DEF LinkInv
<1>4. log \in Seq(Kinds) /\ Len(log) \in Nat /\ lastPublished \in Nat
  BY <1>0, LastPublished DEF TypeOK
<1>5. TypeOK'
  BY <1>0, <1>1 DEF TypeOK
<1>6. LogInv' /\ WriteInv'
  BY <1>0, <1>1, LogFrame, WriteFrame
<1>7. LinkInv'
  BY <1>0, <1>1, <1>3 DEF LinkInv, UsedConnectionServed
<1>8. ResponseInv'
  <2>1. /\ response'.known \in BOOLEAN
        /\ response'.nextSeq \in 1..(Len(log) + 1)
        /\ response'.nextSeq - 1 = Len(log)
    BY <1>0, <1>2, <1>4 DEF TypeOK
  <2>2. \A s \in response'.chunks : s \in DOMAIN log /\ log[s] = "output"
    BY <1>0, <1>2 DEF TypeOK, LogInv
  <2>3. response'.exited => \E s \in 1..Len(log) : log[s] = "exited"
    <3>1. Exited => \E s \in 1..Len(log) : log[s] = "exited"
      BY <1>4 DEF Exited, ToSet
    <3> QED
      BY <3>1, <1>2
  <2>4. response'.closed => Len(log) \in DOMAIN log /\ log[Len(log)] = "closed"
    <3>1. ClosesLast
      BY <1>0 DEF LogInv
    <3> QED
      BY <3>1, <1>2, <1>4 DEF Closed, ToSet, ClosesLast
  <2> QED
    BY <1>1, <2>1, <2>2, <2>3, <2>4 DEF ResponseInv
<1>9. UNCHANGED <<lastPublished, failed, closedPublished>>
  BY <1>1, PublishedFrame
<1>10. StreamInv'
  <2>1. EventsInOrder'
    BY <1>0, <1>1, <1>9 DEF StreamInv, EventsInOrder
  <2>2. lastPublished + 1 \in DOMAIN pending => response'.nextSeq > lastPublished + 1
    BY <1>0, <1>2, <1>4 DEF TypeOK
  <2> QED
    BY <1>0, <1>1, <1>9, <2>1, <2>2 DEF StreamInv
<1>11. CoverInv'
  <2>1. \A s \in (lastPublished + 1)..Len(log) : s < response'.nextSeq
    BY <1>2, <1>4
  <2> QED
    BY <2>1, <1>1, <1>3, <1>9 DEF CoverInv
<1> QED
  BY <1>5, <1>6, <1>7, <1>8, <1>10, <1>11 DEF Inv

\* The steps that only move the recovery on, or end it with a connection.
LEMMA NothingStep ==
    ASSUME ConstantsAssumption, Inv, NothingToRecover
    PROVE  Inv'
<1> USE DEF sessionVars, writeVars, streamVars, processVars, linkVars
<1>0. TypeOK /\ LogInv /\ LinkInv /\ WriteInv /\ ResponseInv /\ StreamInv /\ CoverInv
  BY DEF Inv
<1>1. /\ UNCHANGED <<processVars, sessionVars, writeVars, linkVars, wire, streamVars, status, current, candidate, response>>
      /\ pc' = "install" /\ pc = "read" /\ ~registered
  BY DEF NothingToRecover
<1>2. status = "recovering"
  BY <1>0, <1>1 DEF LinkInv
<1>3. log \in Seq(Kinds) /\ Len(log) \in Nat
  BY <1>0 DEF TypeOK
<1>4. failed \/ lastPublished = Len(log)
  BY <1>0, <1>1, ClosedIsAll DEF StreamInv
<1>5. lastPublished + 1 \notin DOMAIN pending
  BY <1>0, <1>3, <1>4 DEF StreamInv, TypeOK
<1>6. UNCHANGED <<lastPublished, failed, closedPublished>>
  BY <1>1, PublishedFrame
<1>7. TypeOK'
  BY <1>0, <1>1 DEF TypeOK
<1>8. LogInv' /\ WriteInv' /\ ResponseInv'
  BY <1>0, <1>1, LogFrame, WriteFrame DEF ResponseInv
<1>9. LinkInv'
  BY <1>0, <1>1, <1>2 DEF LinkInv, UsedConnectionServed
<1>10. StreamInv'
  BY <1>0, <1>1, <1>5, <1>6 DEF StreamInv, EventsInOrder
<1>11. CoverInv'
  <2>1. ~failed => (lastPublished + 1)..Len(log) = {}
    BY <1>3, <1>4
  <2> QED
    BY <2>1, <1>1, <1>6 DEF CoverInv
<1> QED
  BY <1>7, <1>8, <1>9, <1>10, <1>11 DEF Inv

LEMMA InstallStep ==
    ASSUME ConstantsAssumption, Inv, InstallRecoveredClient
    PROVE  Inv'
<1> USE DEF sessionVars, writeVars, streamVars, processVars, linkVars
<1>0. TypeOK /\ LogInv /\ LinkInv /\ WriteInv /\ ResponseInv /\ StreamInv /\ CoverInv
  BY DEF Inv
<1>1. /\ UNCHANGED <<processVars, sessionVars, writeVars, linkVars, wire, streamVars>>
      /\ pc' = "idle" /\ pc = "install" /\ candidate \notin closed
      /\ status' = "connected" /\ current' = candidate /\ candidate' = NoConnection
  BY DEF InstallRecoveredClient
<1>2. candidate \in Connections /\ candidate \in reading /\ (candidate \in broken \/ attached = candidate)
  BY <1>0, <1>1 DEF LinkInv
<1>3. UNCHANGED <<lastPublished, failed, closedPublished>>
  BY <1>1, PublishedFrame
<1>4. TypeOK'
  BY <1>0, <1>1, <1>2 DEF TypeOK
<1>5. LogInv' /\ WriteInv' /\ ResponseInv'
  BY <1>0, <1>1, LogFrame, WriteFrame DEF ResponseInv
<1>6. LinkInv'
  BY <1>1, <1>2 DEF LinkInv, UsedConnectionServed
<1>7. StreamInv'
  BY <1>0, <1>1, <1>3 DEF StreamInv, EventsInOrder
<1>8. CoverInv'
  <2>1. Coming(current)' = Coming(candidate)
    BY <1>1 DEF Coming
  <2> QED
    BY <2>1, <1>0, <1>1, <1>3 DEF CoverInv
<1> QED
  BY <1>4, <1>5, <1>6, <1>7, <1>8 DEF Inv

LEMMA TerminateStep ==
    ASSUME ConstantsAssumption, Inv, TerminateAnswered
    PROVE  Inv'
<1> USE DEF sessionVars, writeVars, processVars, linkVars
<1>0. TypeOK /\ LogInv /\ LinkInv /\ WriteInv /\ ResponseInv /\ StreamInv /\ CoverInv
  BY DEF Inv
<1>1. /\ UNCHANGED <<processVars, sessionVars, writeVars, linkVars, wire, status, current, candidate, response>>
      /\ pc' = "install" /\ pc = "terminate" /\ registered' = FALSE /\ SetFailure
  BY DEF TerminateAnswered
<1>2. status = "recovering"
  BY <1>0, <1>1 DEF LinkInv
<1>3. /\ published' \in Seq(Kinds \cup {"failed"})
      /\ DOMAIN pending' \subseteq DOMAIN log
      /\ EventsInOrder'
      /\ \A s \in DOMAIN pending' : pending'[s] = log[s]
      /\ failed' => DOMAIN pending' = {}
      /\ failed' \/ closedPublished'
      /\ ~failed' => (lastPublished' = Len(log) /\ lastPublished' + 1 \notin DOMAIN pending')
  BY <1>0, <1>1, FailureSet
<1>4. TypeOK'
  <2>1. UNCHANGED <<status, current, candidate, wire, broken, closed, reading, connections>>
    BY <1>1
  <2> QED
    BY <2>1, <1>0, <1>1, <1>3, ClientTypes DEF TypeOK
<1>5. LogInv' /\ WriteInv' /\ ResponseInv'
  BY <1>0, <1>1, LogFrame, WriteFrame DEF ResponseInv
<1>6. LinkInv'
  BY <1>0, <1>1, <1>2 DEF LinkInv, UsedConnectionServed
<1>7. StreamInv'
  BY <1>1, <1>2, <1>3 DEF StreamInv
<1>8. CoverInv'
  <2>1. Len(log) \in Nat
    BY <1>0 DEF TypeOK
  <2>2. ~failed' => (lastPublished' + 1)..Len(log') = {}
    BY <2>1, <1>1, <1>3
  <2> QED
    BY <2>2 DEF CoverInv
<1> QED
  BY <1>4, <1>5, <1>6, <1>7, <1>8 DEF Inv

\* What waits once the answer of a read is merged in is what happened.
LEMMA MergedIsLog ==
    ASSUME TypeOK, ResponseInv, StreamInv, pc = "recover"
    PROVE  /\ DOMAIN pending \subseteq DOMAIN Merged
           /\ DOMAIN Merged \subseteq DOMAIN log
           /\ \A s \in DOMAIN Merged : Merged[s] = log[s]
<1>1. /\ \A s \in response.chunks : s \in DOMAIN log /\ log[s] = "output"
      /\ response.closed =>
            response.nextSeq - 1 \in DOMAIN log /\ log[response.nextSeq - 1] = "closed"
  BY DEF ResponseInv
<1>2. DOMAIN pending \subseteq DOMAIN log /\ \A s \in DOMAIN pending : pending[s] = log[s]
  BY DEF TypeOK, StreamInv
<1> DEFINE target == response.nextSeq - 1
           read == {s \in response.chunks : s > lastPublished}
           ends == IF response.closed THEN {target} ELSE {}
           kind(s) == IF s \in DOMAIN pending THEN pending[s]
                      ELSE IF s \in read THEN "output" ELSE "closed"
<1>3. Merged = [s \in DOMAIN pending \cup read \cup ends |-> kind(s)]
  BY DEF Merged
<1>4. \A s \in read : s \in DOMAIN log /\ log[s] = "output"
  BY <1>1
<1>5. \A s \in ends : s \in DOMAIN log /\ log[s] = "closed"
  BY <1>1
<1> HIDE DEF read, ends
<1>6. \A s \in DOMAIN pending \cup read \cup ends : s \in DOMAIN log /\ kind(s) = log[s]
  BY <1>2, <1>4, <1>5
<1> HIDE DEF kind
<1> QED
  BY <1>3, <1>6

\* The one gap of an answer that speaks of an exit nobody knows is the exit.
LEMMA GapIsExit ==
    ASSUME ConstantsAssumption, Inv, pc = "recover", NEW g \in RecoverableEvents.exitSeq
    PROVE  g \in DOMAIN log /\ log[g] = "exited"
<1>0. TypeOK /\ ResponseInv /\ StreamInv
  BY DEF Inv
<1> DEFINE target == response.nextSeq - 1
           missing == ((lastPublished + 1)..target) \ DOMAIN Merged
           exitKnown == \/ exitPublished
                        \/ \E s \in DOMAIN Merged :
                              s <= target /\ Merged[s] = "exited"
<1>1. /\ response.exited /\ ~exitKnown /\ Cardinality(missing) = 1 /\ g \in missing
  <2>1. RecoverableEvents.exitSeq = IF response.exited /\ ~exitKnown /\ Cardinality(missing) = 1
                                    THEN missing ELSE {}
    BY DEF RecoverableEvents
  <2> HIDE DEF exitKnown, missing
  <2> QED
    BY <2>1
<1>2. PICK e \in 1..target : log[e] = "exited"
  BY <1>0, <1>1 DEF ResponseInv
<1>3. log \in Seq(Kinds) /\ Len(log) \in Nat /\ lastPublished \in Nat /\ response.nextSeq \in 1..(Len(log) + 1)
  BY <1>0, LastPublished DEF TypeOK, ResponseInv
<1>4. e \in DOMAIN log /\ e <= target /\ e \in Nat /\ target \in Nat
  BY <1>2, <1>3
<1>5. e > lastPublished
  <2> SUFFICES ASSUME e <= lastPublished PROVE FALSE
    BY <1>3, <1>4
  <2>1. published[e] = "exited"
    <3>1. EventsInOrder
      BY <1>0 DEF StreamInv
    <3> QED
      BY <3>1, <1>2, <1>3, <1>4 DEF EventsInOrder
  <2>2. e \in DOMAIN published
    <3>1. published \in Seq(Kinds \cup {"failed"})
      BY <1>0 DEF TypeOK
    <3>2. lastPublished <= Len(published)
      BY <3>1, LastPublished
    <3> QED
      BY <3>1, <3>2, <1>2, <1>3, <1>4
  <2>3. exitPublished
    BY <2>1, <2>2 DEF exitPublished, ToSet
  <2> QED
    BY <2>3, <1>1
<1>6. e \notin DOMAIN Merged
  <2>1. e \in DOMAIN Merged => Merged[e] = "exited"
    BY <1>0, <1>2, MergedIsLog
  <2> QED
    BY <2>1, <1>1, <1>4
<1>7. e \in missing
  BY <1>3, <1>4, <1>5, <1>6
<1>8. e = g
  <2>1. IsFiniteSet(missing)
    <3>1. IsFiniteSet((lastPublished + 1)..target)
      <4>1. lastPublished + 1 \in Int /\ target \in Int
        BY <1>3, <1>4
      <4> HIDE DEF target
      <4> QED
        BY <4>1, FS_Interval
    <3> QED
      BY <3>1, FS_Difference
  <2> HIDE DEF missing
  <2>2. \E x : missing = {x}
    BY <2>1, <1>1, FS_Singleton
  <2> QED
    BY <2>2, <1>1, <1>7
<1> QED
  BY <1>2, <1>4, <1>8

\* A recovery that knows every event publishes all that the answer speaks of,
\* so that what is left is on its way over the connection that is tried.
LEMMA RecoverStep ==
    ASSUME ConstantsAssumption, Inv, RecoverEvents
    PROVE  Inv'
<1> USE DEF sessionVars, writeVars, processVars, linkVars
<1>0. TypeOK /\ LogInv /\ LinkInv /\ WriteInv /\ ResponseInv /\ StreamInv /\ CoverInv
  BY DEF Inv
<1> DEFINE found == RecoverableEvents
           nothing == failed \/ closedPublished \/ found.target <= lastPublished
           waiting == [s \in DOMAIN Merged \cup found.exitSeq |->
                          IF s \in found.exitSeq THEN "exited" ELSE Merged[s]]
<1>1. /\ UNCHANGED <<processVars, sessionVars, writeVars, linkVars, wire, status, current, candidate, response>>
      /\ pc' = "install" /\ pc = "recover"
      /\ IF nothing THEN UNCHANGED streamVars ELSE Complete(found) /\ PublishReady(waiting)
  BY DEF RecoverEvents
<1>2. status = "recovering" /\ candidate \in Connections
  BY <1>0, <1>1 DEF LinkInv
<1>3. /\ Len(log) \in Nat /\ lastPublished \in Nat /\ response.nextSeq \in 1..(Len(log) + 1)
      /\ log \in Seq(Kinds)
  BY <1>0, <1>1, LastPublished DEF TypeOK, ResponseInv
<1>4. found.target = response.nextSeq - 1
        /\ found.gaps = ((lastPublished + 1)..(response.nextSeq - 1)) \ DOMAIN Merged
  BY DEF RecoverableEvents
<1>5. LogInv' /\ WriteInv' /\ ResponseInv'
  BY <1>0, <1>1, LogFrame, WriteFrame DEF ResponseInv
<1>6. LinkInv'
  BY <1>0, <1>1, <1>2 DEF LinkInv, UsedConnectionServed
<1>7. CASE nothing
  <2>1. UNCHANGED <<published, pending, registered>>
    BY <1>1, <1>7 DEF streamVars
  <2>2. UNCHANGED <<lastPublished, failed, closedPublished>>
    BY <2>1, PublishedFrame
  <2>3. TypeOK'
    BY <1>0, <1>1, <2>1 DEF TypeOK
  <2>4. failed \/ lastPublished = Len(log) \/ response.nextSeq - 1 <= lastPublished
    BY <1>0, <1>4, <1>7, ClosedIsAll DEF StreamInv
  <2>5. lastPublished + 1 \notin DOMAIN pending
    <3>1. failed => DOMAIN pending = {}
      BY <1>0 DEF StreamInv
    <3>2. DOMAIN pending \subseteq 1..Len(log)
      BY <1>0, <1>3 DEF TypeOK
    <3>3. lastPublished + 1 \in DOMAIN pending => response.nextSeq > lastPublished + 1
      BY <1>0, <1>1 DEF StreamInv
    <3> QED
      BY <3>1, <3>2, <3>3, <2>4, <1>3
  <2>6. StreamInv'
    BY <1>0, <1>1, <2>1, <2>2, <2>5 DEF StreamInv, EventsInOrder
  <2>7. CoverInv'
    <3>1. ASSUME ~failed, NEW s \in (lastPublished + 1)..Len(log), candidate \notin broken
          PROVE  s \in Coming(candidate)
      <4>1. ~(s < response.nextSeq)
        BY <3>1, <2>4, <1>3
      <4> QED
        BY <3>1, <4>1, <1>0, <1>1 DEF CoverInv
    <3>2. Coming(candidate)' = Coming(candidate)
      BY <1>1, <2>1 DEF Coming
    <3> QED
      BY <3>1, <3>2, <1>1, <1>2, <2>2 DEF CoverInv
  <2> QED
    BY <1>5, <1>6, <2>3, <2>6, <2>7 DEF Inv
<1>8. CASE ~nothing
  <2>0. \A s \in found.exitSeq : s \in DOMAIN log /\ log[s] = "exited"
    BY <1>1, GapIsExit
  <2>1. /\ DOMAIN pending \subseteq DOMAIN Merged
        /\ DOMAIN Merged \subseteq DOMAIN log
        /\ \A s \in DOMAIN Merged : Merged[s] = log[s]
    BY <1>0, <1>1, MergedIsLog
  <2>2. Complete(found) /\ PublishReady(waiting) /\ ~failed /\ ~closedPublished
    BY <1>1, <1>8
  <2>3. DOMAIN waiting = DOMAIN Merged \cup found.exitSeq
    OBVIOUS
  <2>4. /\ DOMAIN pending \subseteq DOMAIN waiting
        /\ DOMAIN waiting \subseteq DOMAIN log
        /\ \A s \in DOMAIN waiting : waiting[s] = log[s]
    <3> HIDE DEF found
    <3> QED
      BY <2>0, <2>1
  <2>5. registered /\ status # "failed"
    BY <1>0, <1>2, <2>2 DEF StreamInv
  <2>6. (lastPublished + 1)..(response.nextSeq - 1) \subseteq DOMAIN waiting
    BY <2>2, <2>3, <1>4 DEF Complete
  <2> HIDE DEF waiting
  <2>7. /\ StreamInv'
        /\ ~failed'
        /\ published' \in Seq(Kinds \cup {"failed"})
        /\ DOMAIN pending' \subseteq DOMAIN log
        /\ registered' \in BOOLEAN
        /\ lastPublished' \in Nat /\ lastPublished' >= lastPublished
        /\ \A t \in DOMAIN waiting : t > lastPublished' => t \in DOMAIN pending'
        /\ lastPublished' + 1 \notin DOMAIN waiting
    BY <2>2, <2>4, <2>5, <1>1, ReadyStream
  <2>8. TypeOK'
    BY <1>0, <1>1, <2>7 DEF TypeOK
  <2>9. PICK n \in Nat : n = lastPublished' /\ n >= lastPublished /\ n + 1 \notin DOMAIN waiting
    BY <2>7
  <2>10. n >= response.nextSeq - 1
    BY <2>6, <2>9, <1>3
  <2>11. CoverInv'
    <3>1. ASSUME NEW s \in (n + 1)..Len(log), candidate \notin broken
          PROVE  s \in Coming(candidate)'
      <4>1. s > n /\ s \in (lastPublished + 1)..Len(log) /\ ~(s < response.nextSeq)
        <5>1. s \in Nat /\ s > n /\ s <= Len(log)
          BY <1>3
        <5>2. n >= lastPublished
          BY <2>9
        <5> QED
          BY <5>1, <5>2, <2>10, <1>3
      <4>2. s \in Coming(candidate)
        BY <3>1, <4>1, <2>2, <1>0, <1>1 DEF CoverInv
      <4>3. s \in DOMAIN pending => s \in DOMAIN pending'
        BY <4>1, <2>4, <2>7, <2>9
      <4> QED
        BY <4>2, <4>3, <1>1 DEF Coming
    <3> QED
      BY <3>1, <2>9, <1>1, <1>2 DEF CoverInv
  <2> QED
    BY <1>5, <1>6, <2>7, <2>8, <2>11 DEF Inv
<1> QED
  BY <1>7, <1>8

LEMMA ImpossibleStep ==
    ASSUME ConstantsAssumption, Inv, RecoveryImpossible
    PROVE  Inv'
<1> USE DEF sessionVars, writeVars, processVars, linkVars
<1>0. TypeOK /\ LogInv /\ LinkInv /\ WriteInv /\ ResponseInv /\ StreamInv /\ CoverInv
  BY DEF Inv
<1>1. /\ UNCHANGED <<processVars, sessionVars, writeVars, linkVars, wire,
                     published, registered, status, current, candidate, response>>
      /\ pc' = "terminate" /\ pc = "recover"
      /\ pending' = pending \/ (~failed /\ pending' = Merged)
  BY DEF RecoveryImpossible
<1>2. status = "recovering"
  BY <1>0, <1>1 DEF LinkInv
<1>3. DOMAIN pending' \subseteq DOMAIN log /\ \A s \in DOMAIN pending' : pending'[s] = log[s]
  BY <1>0, <1>1, MergedIsLog DEF TypeOK, StreamInv
<1>4. UNCHANGED <<lastPublished, failed, closedPublished>>
  BY <1>1, PublishedFrame
<1>5. TypeOK'
  BY <1>0, <1>1, <1>3 DEF TypeOK
<1>6. LogInv' /\ WriteInv' /\ ResponseInv'
  BY <1>0, <1>1, LogFrame, WriteFrame DEF ResponseInv
<1>7. LinkInv'
  BY <1>0, <1>1, <1>2 DEF LinkInv, UsedConnectionServed
<1>8. StreamInv'
  BY <1>0, <1>1, <1>3, <1>4 DEF StreamInv, EventsInOrder
<1>9. CoverInv'
  BY <1>1, <1>2, NothingToCover
<1> QED
  BY <1>5, <1>6, <1>7, <1>8, <1>9 DEF Inv

-----------------------------------------------------------------------------
\* The write. Only its own variables change.
LEMMA WriteStep ==
    ASSUME ConstantsAssumption, Inv,
           NEW c \in Connections,
           \/ WriteCall \/ WriteAnswered \/ WriteLost \/ WriteFails
           \/ ExecWrite(c) \/ ExecWriteRefused(c)
    PROVE  Inv'
<1> USE DEF sessionVars, streamVars, recoveryVars, processVars, linkVars, writeFrame
<1>0. TypeOK /\ LogInv /\ LinkInv /\ WriteInv /\ ResponseInv /\ StreamInv /\ CoverInv
  BY DEF Inv
<1>1. UNCHANGED writeFrame
  BY DEF WriteCall, WriteAnswered, WriteLost, WriteFails, ExecWrite, ExecWriteRefused
<1> DEFINE Answers == {"none", "sent", "accepted", "refused"}
           AttemptOK == attempt' \in [Connections -> Answers]
           WriteOK == write' \in [at : {"idle", "call", "accepted", "refused"},
                                  on : Connections \cup {NoConnection}]
<1>2. attempt \in [Connections -> Answers] /\ stdin \in Nat /\ accepted \in BOOLEAN
        /\ write \in [at : {"idle", "call", "accepted", "refused"},
                      on : Connections \cup {NoConnection}]
        /\ current \in Connections \cup {NoConnection}
  BY <1>0 DEF TypeOK
<1>3. AttemptOK /\ WriteOK /\ stdin' \in Nat /\ accepted' \in BOOLEAN /\ WriteInv'
  <2>1. CASE WriteCall
    <3>1. current \in Connections /\ write' = [at |-> "call", on |-> current]
            /\ attempt' = [attempt EXCEPT ![current] = "sent"] /\ UNCHANGED <<accepted, stdin>>
      BY <2>1, <1>0 DEF WriteCall, LinkInv
    <3>2. AttemptOK /\ \A d \in Connections : attempt'[d] = "accepted" => attempt[d] = "accepted"
      BY <3>1, <1>2
    <3> QED
      BY <3>1, <3>2, <1>0, <1>2 DEF WriteInv
  <2>2. CASE WriteAnswered
    <3>1. write.on \in Connections
      BY <2>2, <1>0 DEF WriteInv, WriteAnswered
    <3>2. /\ write' = [at |-> attempt[write.on], on |-> NoConnection]
          /\ attempt[write.on] \in {"accepted", "refused"}
          /\ attempt' = [attempt EXCEPT ![write.on] = "none"] /\ UNCHANGED <<accepted, stdin>>
      BY <2>2 DEF WriteAnswered
    <3>3. AttemptOK /\ \A d \in Connections : attempt'[d] = "accepted" => attempt[d] = "accepted"
      BY <3>1, <3>2, <1>2
    <3> QED
      BY <3>1, <3>2, <3>3, <1>0, <1>2 DEF WriteInv
  <2>3. CASE WriteLost
    <3>1. /\ write'.at \in {"refused", "idle"} /\ write' = [at |-> write'.at, on |-> NoConnection]
          /\ attempt' = [attempt EXCEPT ![write.on] = IF attempt[write.on] = "sent" THEN "sent" ELSE "none"]
          /\ UNCHANGED <<accepted, stdin>>
      BY <2>3 DEF WriteLost
    <3>2. AttemptOK /\ \A d \in Connections : attempt'[d] = "accepted" => attempt[d] = "accepted"
      BY <3>1, <1>2
    <3>3. WriteOK /\ write'.at # "accepted" /\ write'.at # "call"
      BY <3>1
    <3> QED
      BY <3>1, <3>2, <3>3, <1>0, <1>2 DEF WriteInv
  <2>4. CASE WriteFails
    <3>1. /\ write' = [at |-> "refused", on |-> NoConnection]
          /\ UNCHANGED <<accepted, stdin, attempt>>
      BY <2>4 DEF WriteFails
    <3> QED
      BY <3>1, <1>0, <1>2 DEF WriteInv
  <2>5. CASE ExecWrite(c)
    <3>1. /\ stdin' = (IF accepted THEN stdin ELSE stdin + 1) /\ accepted' = TRUE
          /\ write' = write
          /\ attempt' = [attempt EXCEPT ![c] = IF c \in broken THEN "none" ELSE "accepted"]
      BY <2>5 DEF ExecWrite, Reply
    <3>2. AttemptOK
      BY <3>1, <1>2
    <3>3. stdin' = 1
      BY <3>1, <1>0, <1>2 DEF WriteInv
    <3> QED
      BY <3>1, <3>2, <3>3, <1>0, <1>2 DEF WriteInv
  <2>6. CASE ExecWriteRefused(c)
    <3>1. /\ UNCHANGED <<stdin, accepted, write>>
          /\ attempt' = [attempt EXCEPT ![c] = IF c \in broken THEN "none" ELSE "refused"]
      BY <2>6 DEF ExecWriteRefused, Reply
    <3>2. AttemptOK /\ \A d \in Connections : attempt'[d] = "accepted" => attempt[d] = "accepted"
      BY <3>1, <1>2
    <3> QED
      BY <3>1, <3>2, <1>0, <1>2 DEF WriteInv
  <2> QED
    BY <2>1, <2>2, <2>3, <2>4, <2>5, <2>6
<1>4. TypeOK'
  BY <1>0, <1>1, <1>3 DEF TypeOK
<1>5. LogInv' /\ LinkInv' /\ ResponseInv' /\ StreamInv'
  BY <1>0, <1>1, LogFrame, LinkFrame, ResponseFrame, StreamFrame
<1>6. CoverInv'
  <2>1. \A d \in Connections : Coming(d)' = Coming(d)
    BY <1>1 DEF Coming
  <2> QED
    BY <2>1, <1>0, <1>1, CoverFrame DEF LinkInv
<1> QED
  BY <1>3, <1>4, <1>5, <1>6 DEF Inv

LEMMA StutterInv ==
    ASSUME Inv, UNCHANGED vars
    PROVE  Inv'
<1> USE DEF vars, sessionVars, streamVars, recoveryVars, processVars, linkVars, writeVars
<1>0. TypeOK /\ LogInv /\ LinkInv /\ WriteInv /\ ResponseInv /\ StreamInv /\ CoverInv
  BY DEF Inv
<1>1. TypeOK'
  BY <1>0 DEF TypeOK
<1>2. LogInv' /\ LinkInv' /\ WriteInv' /\ ResponseInv' /\ StreamInv'
  BY <1>0, LogFrame, LinkFrame, WriteFrame, ResponseFrame, StreamFrame
<1>3. CoverInv'
  <2>1. \A d \in Connections : Coming(d)' = Coming(d)
    BY DEF Coming
  <2> QED
    BY <2>1, <1>0, CoverFrame DEF LinkInv
<1> QED
  BY <1>1, <1>2, <1>3 DEF Inv

LEMMA NextInv == Inv /\ [Next]_vars => Inv'
<1> SUFFICES ASSUME Inv, [Next]_vars PROVE Inv'
  OBVIOUS
<1> USE ConstantsAssumption
<1>0. 1 \in Connections
  BY DEF Connections, ConstantsAssumption
<1>1. CASE Server
  <2>1. CASE StreamOutput \/ WatchExit \/ MaybeEmitClosed
    BY <2>1, ProcessStep
  <2>2. CASE FinishOutputStream \/ ForgetProcess \/ Expire \/ Detach
    BY <2>2, TableStep
  <2>3. CASE \E s \in Sequences_ : Notify(s)
    BY <2>3, NotifyStep
  <2>4. CASE \E c \in Connections : ExecWrite(c) \/ ExecWriteRefused(c)
    BY <2>4, WriteStep
  <2> QED
    BY <1>1, <2>1, <2>2, <2>3, <2>4 DEF Server
<1>2. CASE Recovery
  <2>1. CASE AlreadyAttached \/ CandidateLost \/ NotInstalled
    <3>1. TryAgain /\ pc # "idle"
      BY <2>1 DEF AlreadyAttached, CandidateLost, NotInstalled
    <3> QED
      BY <3>1, TryAgainStep
  <2>2. CASE SessionUnknown \/ RecoveryTimesOut
    <3>1. Fail
      BY <2>2 DEF SessionUnknown, RecoveryTimesOut
    <3> QED
      BY <3>1, FailStep
  <2>3. CASE Connect \/ Attach
    BY <2>3, ConnectStep
  <2> QED
    BY <1>2, <2>1, <2>2, <2>3, ReadStep, NothingStep, RecoverStep, ImpossibleStep,
       TerminateStep, InstallStep DEF Recovery
<1>3. CASE \E c \in Connections : HandleNotification(c) \/ HandleDisconnected(c)
  BY <1>3, NotificationStep, DisconnectedStep
<1>4. CASE WriteCall \/ WriteAnswered \/ WriteLost \/ WriteFails
  BY <1>0, <1>4, WriteStep
<1>5. CASE \E c \in Connections : Break(c) \/ Notice(c)
  BY <1>5, BreakStep
<1>6. CASE UNCHANGED vars
  BY <1>6, StutterInv
<1> QED
  BY <1>1, <1>2, <1>3, <1>4, <1>5, <1>6 DEF Next, Client

LEMMA Invariance == Spec => []Inv
  BY InitInv, NextInv, PTL DEF Spec

-----------------------------------------------------------------------------
\* The state is well typed.
THEOREM TypeCorrect == Spec => []TypeOK
<1>1. Inv => TypeOK
  BY DEF Inv
<1> QED
  BY <1>1, Invariance, PTL

\* The subscribers of a process are sent its events in their order, none left
\* out, and after a failure nothing (publish_ready and recover_events): also
\* the exit whose number recover_events infers is published where it happened.
THEOREM StreamOrdered == Spec => []EventsInOrder
<1>1. Inv => EventsInOrder
  BY DEF Inv, StreamInv
<1> QED
  BY <1>1, Invariance, PTL

\* When the connection in use works and has nothing left to deliver, the
\* subscribers have seen all that happened, however many connections broke
\* before it; and a client that has given up has told them.
THEOREM NothingForgotten == Spec => []CaughtUp
<1>1. Inv => CaughtUp
  <2> SUFFICES ASSUME Inv PROVE CaughtUp
    OBVIOUS
  <2>0. TypeOK /\ LinkInv /\ StreamInv /\ CoverInv
    BY DEF Inv
  <2>1. status = "failed" => failed \/ closedPublished
    BY <2>0 DEF StreamInv
  <2>2. ASSUME status = "connected", current \notin broken, unsent = {},
               wire[current] = <<>>, ~failed
        PROVE  lastPublished = Len(log)
    <3>1. lastPublished \in Nat /\ Len(log) \in Nat /\ lastPublished <= Len(log)
      BY <2>0, LastPublished DEF TypeOK, StreamInv, EventsInOrder
    <3>2. pc = "idle"
      BY <2>0, <2>2 DEF LinkInv
    <3>3. lastPublished + 1 \notin DOMAIN pending
      BY <2>0, <3>2 DEF StreamInv
    <3>4. Coming(current) = DOMAIN pending
      BY <2>2 DEF Coming, ToSet
    <3>5. lastPublished + 1 \notin (lastPublished + 1)..Len(log)
      BY <2>0, <2>2, <3>3, <3>4 DEF CoverInv
    <3> QED
      BY <3>1, <3>5
  <2> QED
    BY <2>1, <2>2 DEF CaughtUp
<1> QED
  BY <1>1, Invariance, PTL

\* The connection the client uses is read, and has the session unless it is
\* broken: install_recovered_client puts no dead connection into use whose
\* end nobody would see.
THEOREM ConnectionServed == Spec => []UsedConnectionServed
<1>1. Inv => UsedConnectionServed
  BY DEF Inv, LinkInv
<1> QED
  BY <1>1, Invariance, PTL

\* A write that is retried over any number of connections reaches the process
\* once, and before its caller is told so (exec_write).
THEOREM WrittenOnce == Spec => []StdinOnce
<1>1. Inv => StdinOnce
  <2> SUFFICES ASSUME WriteInv PROVE StdinOnce
    BY DEF Inv
  <2> QED
    BY DEF WriteInv, StdinOnce
<1> QED
  BY <1>1, Invariance, PTL
=============================================================================
