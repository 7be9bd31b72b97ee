--------------------- MODULE RequestSerializationProofs ---------------------
(***************************************************************************)
(* The queues, drain tasks and gates of the app server, for any number of  *)
(* requests, keys and connections: they implement SerializedAccess, a key  *)
(* has exactly one drain task while it is in the map, and a connection     *)
(* whose cleanup waited for its handlers has none left.                    *)
(***************************************************************************)
EXTENDS RequestSerialization, FiniteSetTheorems, SequenceTheorems,
        WellFoundedInduction, TLAPS

Active(d) == drain[d].pc \in {"pop", "run"}

\* r comes before s in a sequence.
Earlier(seq, r, s) ==
    \E i, j \in 1 .. Len(seq) : i < j /\ seq[i] = r /\ seq[j] = s

\* Every request that was sent was taken by the loop, once.
ArrivalInv ==
    /\ \A i, j \in 1 .. Len(arrived) : arrived[i] = arrived[j] => i = j
    /\ \A r \in Requests : status[r] # "unsent" <=> \E i \in 1 .. Len(arrived) : arrived[i] = r

\* The queue of a key holds its queued requests, in the order they were taken.
QueueInv ==
    /\ \A k \in Keys : \A i \in 1 .. Len(queues[k]) :
          KeyOf[queues[k][i]] = k /\ status[queues[k][i]] = "queued"
    /\ \A r \in Requests : status[r] = "queued" =>
          KeyOf[r] \in Keys /\ \E i \in 1 .. Len(queues[KeyOf[r]]) : queues[KeyOf[r]][i] = r
    /\ \A k \in Keys : \A i, j \in 1 .. Len(queues[k]) :
          i < j => Earlier(arrived, queues[k][i], queues[k][j])

\* A key is in the map exactly while it has a drain task, and then it has one.
DrainInv ==
    /\ \A d \in Requests : Active(d) => KeyOf[d] \in mapped
    /\ \A d, e \in Requests : Active(d) /\ Active(e) /\ KeyOf[d] = KeyOf[e] => d = e
    /\ \A k \in mapped : \E d \in Requests : Active(d) /\ KeyOf[d] = k
    /\ \A k \in Keys \ mapped : queues[k] = <<>>

\* What was popped and has not ended is in the batch of the drain task of its
\* key, and the requests of a batch do not conflict with each other.
BatchInv ==
    /\ \A d \in Requests : \A r \in drain[d].batch : KeyOf[r] = KeyOf[d] /\ drain[d].pc = "run"
    /\ \A d \in Requests : \A r, s \in drain[d].batch :
          r = s \/ (r \in SharedReads /\ s \in SharedReads)
    /\ \A r \in Requests : KeyOf[r] # NoKey /\ status[r] \in {"spawned", "running"} =>
          \E d \in Requests : r \in drain[d].batch

\* Requests of one key leave its queue in the order they came.
FifoInv ==
    \A r, s \in Requests :
        /\ KeyOf[r] = KeyOf[s] /\ KeyOf[r] # NoKey
        /\ Earlier(arrived, s, r) /\ status[s] = "queued" /\ status[r] # "unsent"
        => status[r] = "queued"

\* A connection that is being closed takes no request any more, and neither
\* does any once the threads are shut down.
GateInv ==
    /\ \A c \in Conns : conn[c] # "open" => ~accepting[c]
    /\ server = "stopped" => \A c \in Conns : ~accepting[c]
    /\ CleanupQuiesces

Inv == TypeOK /\ ArrivalInv /\ QueueInv /\ DrainInv /\ BatchInv /\ FifoInv /\ GateInv
-----------------------------------------------------------------------------
(* What is popped *)

\* A set of numbers has a least one.
LEMMA Least ==
    ASSUME NEW T, T \subseteq Nat, T # {}
    PROVE  \E x \in T : \A y \in T : x <= y
<1>1. PICK x \in T : \A y \in T : ~(<<y, x>> \in OpToRel(<, Nat))
  BY WFMin, NatLessThanWellFounded
<1>2. \A y \in T : ~(y < x)
  BY <1>1 DEF OpToRel
<1> QED
  BY <1>2

\* Of a queue that is not empty some requests are popped, from its head on, and
\* more than one only if all of them are shared reads.
LEMMA BatchPrefix ==
    ASSUME NEW q \in Seq(Requests), q # <<>>
    PROVE  /\ BatchLen(q) \in 1 .. Len(q)
           /\ \A i, j \in 1 .. BatchLen(q) :
                 i = j \/ (q[i] \in SharedReads /\ q[j] \in SharedReads)
<1>0. Len(q) \in Nat \ {0}
  BY EmptySeq
<1>1. CASE q[1] \notin SharedReads
  BY <1>0, <1>1 DEF BatchLen
<1>2. CASE q[1] \in SharedReads
  <2> DEFINE P(n) == /\ \A i \in 1 .. n : q[i] \in SharedReads
                     /\ n < Len(q) => q[n + 1] \notin SharedReads
  <2>1. \E n \in 1 .. Len(q) : P(n)
    <3>1. CASE \A i \in 1 .. Len(q) : q[i] \in SharedReads
      BY <1>0, <3>1
    <3>2. CASE \E i \in 1 .. Len(q) : q[i] \notin SharedReads
      <4> DEFINE T == {i \in 1 .. Len(q) : q[i] \notin SharedReads}
      <4>1. PICK m \in T : \A i \in T : m <= i
        <5>1. T \subseteq Nat /\ T # {}
          BY <1>0, <3>2
        <5> HIDE DEF T
        <5> QED
          BY <5>1, Least
      <4>2. m - 1 \in 1 .. Len(q) /\ P(m - 1)
        BY <1>0, <1>2, <4>1
      <4> QED
        BY <4>2
    <3> QED
      BY <3>1, <3>2
  <2>2. BatchLen(q) = CHOOSE n \in 1 .. Len(q) : P(n)
    BY <1>2 DEF BatchLen
  <2> HIDE DEF P
  <2>3. BatchLen(q) \in 1 .. Len(q) /\ P(BatchLen(q))
    BY <2>1, <2>2
  <2> USE DEF P
  <2> QED
    BY <2>3
<1> QED
  BY <1>1, <1>2
-----------------------------------------------------------------------------
(* The inductive invariant *)

LEMMA InitInv == Init => Inv
<1> SUFFICES ASSUME Init PROVE Inv
  OBVIOUS
<1> USE RequestsAssumption DEF Init
<1>1. TypeOK
  BY DEF TypeOK, NoDrain, DrainSteps, Statuses
<1>2. ArrivalInv /\ QueueInv /\ FifoInv
  BY DEF ArrivalInv, QueueInv, FifoInv, Earlier
<1>3. DrainInv /\ BatchInv
  BY DEF DrainInv, BatchInv, Active, NoDrain
<1>4. GateInv
  BY DEF GateInv, CleanupQuiesces, InFlight
<1> QED
  BY <1>1, <1>2, <1>3, <1>4 DEF Inv

\* A request that was taken last has nobody behind it.
LEMMA ArrivedLast ==
    ASSUME Inv, NEW r \in Requests, status[r] = "unsent", arrived' = Append(arrived, r)
    PROVE  /\ arrived' \in Seq(Requests)
           /\ \A i, j \in 1 .. Len(arrived') : arrived'[i] = arrived'[j] => i = j
           /\ \A s \in Requests : (\E i \in 1 .. Len(arrived') : arrived'[i] = s)
                 <=> s = r \/ \E i \in 1 .. Len(arrived) : arrived[i] = s
           /\ \A s, t \in Requests : Earlier(arrived, s, t) => Earlier(arrived', s, t)
           /\ \A s, t \in Requests : Earlier(arrived', s, t) /\ t # r => Earlier(arrived, s, t)
           /\ \A s \in Requests : Earlier(arrived', r, s) => s = r
           /\ \A s \in Requests \ {r} : status[s] # "unsent" => Earlier(arrived', s, r)
<1>1. /\ arrived \in Seq(Requests)
      /\ Len(arrived) \in Nat
      /\ ~ \E i \in 1 .. Len(arrived) : arrived[i] = r
      /\ \A i, j \in 1 .. Len(arrived) : arrived[i] = arrived[j] => i = j
      /\ \A s \in Requests : status[s] # "unsent" <=> \E i \in 1 .. Len(arrived) : arrived[i] = s
  BY DEF Inv, TypeOK, ArrivalInv
<1>2. /\ arrived' \in Seq(Requests)
      /\ Len(arrived') = Len(arrived) + 1
      /\ \A i \in 1 .. Len(arrived) : arrived'[i] = arrived[i]
      /\ arrived'[Len(arrived) + 1] = r
  BY <1>1, AppendProperties
<1>3. \A i \in 1 .. Len(arrived') : i \in 1 .. Len(arrived) \/ i = Len(arrived) + 1
  BY <1>1, <1>2
<1>4. \A i, j \in 1 .. Len(arrived') : arrived'[i] = arrived'[j] => i = j
  BY <1>1, <1>2, <1>3
<1>5. \A s \in Requests : (\E i \in 1 .. Len(arrived') : arrived'[i] = s)
                 <=> s = r \/ \E i \in 1 .. Len(arrived) : arrived[i] = s
  BY <1>1, <1>2, <1>3
<1>6. \A s, t \in Requests : Earlier(arrived, s, t) => Earlier(arrived', s, t)
  BY <1>1, <1>2 DEF Earlier
<1>7. \A s, t \in Requests : Earlier(arrived', s, t) /\ t # r => Earlier(arrived, s, t)
  BY <1>1, <1>2, <1>3 DEF Earlier
<1>8. \A s \in Requests : Earlier(arrived', r, s) => s = r
  BY <1>1, <1>2, <1>3 DEF Earlier
<1>9. \A s \in Requests \ {r} : status[s] # "unsent" => Earlier(arrived', s, r)
  BY <1>1, <1>2 DEF Earlier
<1> QED
  BY <1>2, <1>4, <1>5, <1>6, <1>7, <1>8, <1>9

\* The loop takes a request that has no scope.
LEMMA SpawnStep ==
    ASSUME Inv, NEW r \in Requests, Receive(r), KeyOf[r] = NoKey
    PROVE  Inv'
<1> USE RequestsAssumption
<1>1. /\ status[r] = "unsent" /\ arrived' = Append(arrived, r)
      /\ status' = [status EXCEPT ![r] = "spawned"]
      /\ UNCHANGED <<queues, mapped, drain, accepting, conn, timedOut, server>>
  BY DEF Receive, Spawn
<1> USE ArrivedLast
<1>2. status' \in [Requests -> Statuses] /\ \A s \in Requests :
         status'[s] = IF s = r THEN "spawned" ELSE status[s]
  BY <1>1 DEF Inv, TypeOK, Statuses
<1>3. TypeOK'
  BY <1>1, <1>2, ArrivedLast DEF Inv, TypeOK
<1>4. ArrivalInv'
  BY <1>1, <1>2, ArrivedLast DEF Inv, ArrivalInv
<1>5. QueueInv'
  <2>1. ASSUME NEW k \in Keys, NEW i \in 1 .. Len(queues[k])
        PROVE  queues[k][i] \in Requests /\ queues[k][i] # r
    BY <1>1 DEF Inv, TypeOK, QueueInv
  <2>2. \A s, t \in Requests : Earlier(arrived, s, t) => Earlier(arrived', s, t)
    BY <1>1, ArrivedLast
  <2>3. ASSUME NEW k \in Keys, NEW i \in 1 .. Len(queues[k]), NEW j \in 1 .. Len(queues[k]), i < j
        PROVE  Earlier(arrived', queues[k][i], queues[k][j])
    BY <2>1, <2>2, <2>3 DEF Inv, QueueInv
  <2> QED
    BY <1>1, <1>2, <2>1, <2>3 DEF Inv, QueueInv
<1>6. DrainInv'
  BY <1>1 DEF Inv, DrainInv, Active
<1>7. BatchInv'
  BY <1>1, <1>2 DEF Inv, BatchInv
<1>8. FifoInv'
  <2> SUFFICES ASSUME NEW s \in Requests, NEW t \in Requests,
                      KeyOf[s] = KeyOf[t], KeyOf[s] # NoKey, Earlier(arrived', t, s),
                      status'[t] = "queued", status'[s] # "unsent"
               PROVE  status'[s] = "queued"
    BY DEF FifoInv
  <2>1. s # r /\ t # r
    OBVIOUS
  <2> QED
    BY <1>1, <1>2, <2>1, ArrivedLast DEF Inv, FifoInv
<1>9. GateInv'
  BY <1>1, <1>2 DEF Inv, GateInv, CleanupQuiesces, InFlight
<1> QED
  BY <1>3, <1>4, <1>5, <1>6, <1>7, <1>8, <1>9 DEF Inv

\* The loop takes a request of a key and queues it.
LEMMA EnqueueStep ==
    ASSUME Inv, NEW r \in Requests, Receive(r), KeyOf[r] # NoKey
    PROVE  Inv'
<1> USE RequestsAssumption
<1> DEFINE k == KeyOf[r]
<1>1. /\ status[r] = "unsent" /\ arrived' = Append(arrived, r) /\ k \in Keys
      /\ queues' = [queues EXCEPT ![k] = Append(@, r)]
      /\ mapped' = mapped \cup {k}
      /\ drain' = IF k \in mapped THEN drain ELSE [drain EXCEPT ![r] = [pc |-> "pop", batch |-> {}]]
      /\ status' = [status EXCEPT ![r] = "queued"]
      /\ UNCHANGED <<accepting, conn, timedOut, server>>
  BY DEF Receive, Enqueue
<1>2. /\ status \in [Requests -> Statuses]
      /\ queues \in [Keys -> Seq(Requests)]
      /\ drain \in [Requests -> [pc : DrainSteps, batch : SUBSET Requests]]
      /\ mapped \subseteq Keys
  BY DEF Inv, TypeOK
<1>3. status' \in [Requests -> Statuses] /\ \A s \in Requests :
         status'[s] = IF s = r THEN "queued" ELSE status[s]
  BY <1>1, <1>2 DEF Statuses
<1>4. /\ queues' \in [Keys -> Seq(Requests)]
      /\ \A l \in Keys \ {k} : queues'[l] = queues[l]
      /\ Len(queues[k]) \in Nat /\ Len(queues'[k]) = Len(queues[k]) + 1
      /\ \A i \in 1 .. Len(queues[k]) : queues'[k][i] = queues[k][i]
      /\ queues'[k][Len(queues[k]) + 1] = r
  <2>1. queues[k] \in Seq(Requests) /\ Append(queues[k], r) \in Seq(Requests)
    BY <1>1, <1>2, AppendProperties
  <2>2. queues'[k] = Append(queues[k], r)
    BY <1>1, <1>2
  <2> QED
    BY <1>1, <1>2, <2>1, <2>2, AppendProperties
<1>5. \A l \in Keys : \A i \in 1 .. Len(queues[l]) : queues[l][i] \in Requests \ {r}
  <2> SUFFICES ASSUME NEW l \in Keys, NEW i \in 1 .. Len(queues[l])
               PROVE  queues[l][i] \in Requests /\ queues[l][i] # r
    OBVIOUS
  <2>1. queues[l] \in Seq(Requests)
    BY <1>2
  <2>2. queues[l][i] \in Requests
    BY <2>1, ElementOfSeq
  <2> QED
    BY <1>1, <2>2 DEF Inv, QueueInv
<1>6. /\ drain' \in [Requests -> [pc : DrainSteps, batch : SUBSET Requests]]
      /\ \A d \in Requests : d # r \/ k \in mapped => drain'[d] = drain[d]
      /\ k \notin mapped => drain'[r] = [pc |-> "pop", batch |-> {}]
  BY <1>1, <1>2 DEF DrainSteps
<1>7. TypeOK'
  BY <1>1, <1>2, <1>3, <1>4, <1>6, ArrivedLast DEF Inv, TypeOK
<1>8. ArrivalInv'
  BY <1>1, <1>3, ArrivedLast DEF Inv, ArrivalInv
<1>9. QueueInv'
  <2>1. ASSUME NEW l \in Keys, NEW i \in 1 .. Len(queues'[l])
        PROVE  KeyOf[queues'[l][i]] = l /\ status'[queues'[l][i]] = "queued"
    <3>1. CASE l = k /\ i = Len(queues[k]) + 1
      BY <1>3, <1>4, <3>1
    <3>2. CASE ~(l = k /\ i = Len(queues[k]) + 1)
      <4>1. i \in 1 .. Len(queues[l]) /\ queues'[l][i] = queues[l][i]
        BY <1>4, <3>2
      <4> QED
        BY <1>3, <1>5, <4>1 DEF Inv, QueueInv
    <3> QED
      BY <3>1, <3>2
  <2>2. ASSUME NEW s \in Requests, status'[s] = "queued"
        PROVE  KeyOf[s] \in Keys /\ \E i \in 1 .. Len(queues'[KeyOf[s]]) : queues'[KeyOf[s]][i] = s
    <3>1. CASE s = r
      BY <1>1, <1>4, <3>1
    <3>2. CASE s # r
      <4>1. PICK i \in 1 .. Len(queues[KeyOf[s]]) : KeyOf[s] \in Keys /\ queues[KeyOf[s]][i] = s
        BY <1>3, <2>2, <3>2 DEF Inv, QueueInv
      <4>2. CASE KeyOf[s] = k
        BY <1>4, <4>1, <4>2
      <4>3. CASE KeyOf[s] # k
        <5>1. queues'[KeyOf[s]] = queues[KeyOf[s]]
          BY <1>4, <4>1, <4>3
        <5> QED
          BY <4>1, <5>1
      <4> QED
        BY <4>2, <4>3
    <3> QED
      BY <3>1, <3>2
  <2>3. ASSUME NEW l \in Keys, NEW i \in 1 .. Len(queues'[l]), NEW j \in 1 .. Len(queues'[l]), i < j
        PROVE  Earlier(arrived', queues'[l][i], queues'[l][j])
    <3>1. i \in 1 .. Len(queues[l]) /\ queues'[l][i] = queues[l][i]
      BY <1>4, <2>3
    <3>2. CASE l = k /\ j = Len(queues[k]) + 1
      <4>1. status[queues[l][i]] # "unsent"
        BY <3>1 DEF Inv, QueueInv
      <4> QED
        BY <1>1, <1>4, <1>5, <3>1, <3>2, <4>1, ArrivedLast
    <3>3. CASE ~(l = k /\ j = Len(queues[k]) + 1)
      <4>1. j \in 1 .. Len(queues[l]) /\ queues'[l][j] = queues[l][j]
        BY <1>4, <3>3
      <4>2. Earlier(arrived, queues[l][i], queues[l][j])
        BY <2>3, <3>1, <4>1 DEF Inv, QueueInv
      <4> QED
        BY <1>1, <1>5, <3>1, <4>1, <4>2, ArrivedLast
    <3> QED
      BY <3>2, <3>3
  <2> QED
    BY <2>1, <2>2, <2>3 DEF QueueInv
<1>10. DrainInv'
  <2>1. CASE k \in mapped
    BY <1>1, <1>2, <1>4, <1>6, <2>1 DEF Inv, DrainInv, Active
  <2>2. CASE k \notin mapped
    <3>1. /\ Active(r)' /\ KeyOf[r] = k
          /\ \A d \in Requests \ {r} : Active(d)' <=> Active(d)
          /\ \A d \in Requests : Active(d) => KeyOf[d] # k
      BY <1>6, <2>2 DEF Inv, DrainInv, Active
    <3>2. \A l \in mapped : \E d \in Requests : Active(d)' /\ KeyOf[d] = l
      <4> SUFFICES ASSUME NEW l \in mapped PROVE \E d \in Requests : Active(d)' /\ KeyOf[d] = l
        OBVIOUS
      <4>1. PICK d \in Requests : Active(d) /\ KeyOf[d] = l
        BY DEF Inv, DrainInv
      <4> QED
        BY <2>2, <3>1, <4>1
    <3> QED
      BY <1>1, <1>2, <1>4, <2>2, <3>1, <3>2 DEF Inv, DrainInv
  <2> QED
    BY <2>1, <2>2
<1>11. BatchInv'
  <2>1. \A d \in Requests : drain'[d].batch \subseteq drain[d].batch
    BY <1>2, <1>6
  <2>2. \A d \in Requests : drain'[d].batch # {} => drain'[d] = drain[d]
    BY <1>2, <1>6
  <2>3. \A d \in Requests : r \notin drain[d].batch \/ drain[d].batch # {}
    OBVIOUS
  <2>4. \A s, d \in Requests : s \in drain[d].batch => s \in drain'[d].batch
    <3> SUFFICES ASSUME NEW s \in Requests, NEW d \in Requests, s \in drain[d].batch,
                        d = r, k \notin mapped
                 PROVE  FALSE
      BY <1>6
    <3> QED
      BY DEF Inv, BatchInv, DrainInv, Active
  <2>5. ASSUME NEW s \in Requests, KeyOf[s] # NoKey, status'[s] \in {"spawned", "running"}
        PROVE  \E d \in Requests : s \in drain'[d].batch
    BY <1>3, <2>4, <2>5 DEF Inv, BatchInv
  <2> QED
    BY <2>1, <2>2, <2>5 DEF Inv, BatchInv
<1>12. FifoInv'
  <2> SUFFICES ASSUME NEW s \in Requests, NEW t \in Requests,
                      KeyOf[s] = KeyOf[t], KeyOf[s] # NoKey, Earlier(arrived', t, s),
                      status'[t] = "queued", status'[s] # "unsent", s # r
               PROVE  status'[s] = "queued"
    BY <1>3 DEF FifoInv
  <2>1. t # r
    BY <1>1, ArrivedLast
  <2>2. Earlier(arrived, t, s)
    BY <1>1, ArrivedLast
  <2> QED
    BY <1>3, <2>1, <2>2 DEF Inv, FifoInv
<1>13. GateInv'
  BY <1>1, <1>3 DEF Inv, GateInv, CleanupQuiesces, InFlight
<1> QED
  BY <1>7, <1>8, <1>9, <1>10, <1>11, <1>12, <1>13 DEF Inv

\* A drain task pops the requests at the head of its queue.
LEMMA PopRequestsStep ==
    ASSUME Inv, NEW d \in Requests, Pop(d), queues[KeyOf[d]] # <<>>
    PROVE  Inv'
<1> USE RequestsAssumption
<1> DEFINE k == KeyOf[d]
           q == queues[k]
           n == BatchLen(q)
           popped == {q[i] : i \in 1 .. n}
<1>0. /\ status \in [Requests -> Statuses]
      /\ queues \in [Keys -> Seq(Requests)]
      /\ drain \in [Requests -> [pc : DrainSteps, batch : SUBSET Requests]]
      /\ mapped \subseteq Keys /\ arrived \in Seq(Requests)
  BY DEF Inv, TypeOK
<1>1. /\ drain[d].pc = "pop"
      /\ queues' = [queues EXCEPT ![k] = SubSeq(@, n + 1, Len(@))]
      /\ drain' = [drain EXCEPT ![d] = [pc |-> "run", batch |-> popped]]
      /\ status' = [r \in Requests |-> IF r \in popped THEN "spawned" ELSE status[r]]
      /\ UNCHANGED <<mapped, arrived, accepting, conn, timedOut, server>>
  BY DEF Pop, PopRequests
<1>2. k \in mapped /\ k \in Keys
  BY <1>0, <1>1 DEF Inv, DrainInv, Active
<1>3. /\ q \in Seq(Requests) /\ Len(q) \in Nat /\ n \in 1 .. Len(q)
      /\ \A i, j \in 1 .. n : i = j \/ (q[i] \in SharedReads /\ q[j] \in SharedReads)
      /\ \A i \in 1 .. Len(q) : q[i] \in Requests
  <2>1. q \in Seq(Requests) /\ q # <<>>
    BY <1>0, <1>2
  <2> HIDE DEF q
  <2> QED
    BY <2>1, BatchPrefix, ElementOfSeq, LenProperties
<1>4. /\ queues' \in [Keys -> Seq(Requests)]
      /\ \A l \in Keys \ {k} : queues'[l] = queues[l]
      /\ Len(queues'[k]) = Len(q) - n
      /\ \A i \in 1 .. Len(q) - n : queues'[k][i] = q[i + n]
  <2>1. /\ SubSeq(q, n + 1, Len(q)) \in Seq(Requests)
        /\ Len(SubSeq(q, n + 1, Len(q))) = Len(q) - n
        /\ \A i \in 1 .. Len(q) - n : SubSeq(q, n + 1, Len(q))[i] = q[i + n]
    <3> HIDE DEF q, n
    <3> QED
      BY <1>3, SubSeqProperties
  <2>2. queues'[k] = SubSeq(q, n + 1, Len(q))
    BY <1>0, <1>1, <1>2
  <2> QED
    BY <1>0, <1>1, <1>2, <2>1, <2>2
<1> HIDE DEF q, n
<1>5. popped \subseteq Requests /\ \A r \in popped : KeyOf[r] = k /\ status[r] = "queued"
  BY <1>2, <1>3 DEF Inv, QueueInv, q
<1> HIDE DEF popped
<1>6. /\ status' \in [Requests -> Statuses]
      /\ \A r \in Requests : status'[r] = IF r \in popped THEN "spawned" ELSE status[r]
  BY <1>0, <1>1 DEF Statuses
<1>7. /\ drain' \in [Requests -> [pc : DrainSteps, batch : SUBSET Requests]]
      /\ drain'[d] = [pc |-> "run", batch |-> popped]
      /\ \A e \in Requests \ {d} : drain'[e] = drain[e]
  BY <1>0, <1>1, <1>5 DEF DrainSteps
<1>8. TypeOK'
  BY <1>1, <1>4, <1>6, <1>7 DEF Inv, TypeOK
<1>9. ArrivalInv'
  BY <1>1, <1>5, <1>6 DEF Inv, ArrivalInv
\* No request is in a queue twice, so those left behind were not popped.
<1>10. \A i \in n + 1 .. Len(q) : q[i] \notin popped
  <2> SUFFICES ASSUME NEW i \in n + 1 .. Len(q), NEW j \in 1 .. n, q[i] = q[j]
               PROVE  FALSE
    BY DEF popped
  <2>1. Earlier(arrived, q[j], q[i])
    BY <1>2, <1>3 DEF Inv, QueueInv, q
  <2>2. \A a, b \in 1 .. Len(arrived) : arrived[a] = arrived[b] => a = b
    BY DEF Inv, ArrivalInv
  <2> QED
    BY <1>0, <2>1, <2>2 DEF Earlier
<1>11. QueueInv'
  <2>1. ASSUME NEW l \in Keys, NEW i \in 1 .. Len(queues'[l])
        PROVE  KeyOf[queues'[l][i]] = l /\ status'[queues'[l][i]] = "queued"
    <3>1. CASE l = k
      <4>1. i + n \in n + 1 .. Len(q) /\ queues'[l][i] = q[i + n]
        BY <1>3, <1>4, <3>1
      <4> QED
        BY <1>2, <1>3, <1>6, <1>10, <3>1, <4>1 DEF Inv, QueueInv, q
    <3>2. CASE l # k
      <4>1. queues'[l] = queues[l]
        BY <1>4, <3>2
      <4>2. queues[l][i] \in Requests
        BY <1>0, <4>1, ElementOfSeq
      <4> QED
        BY <1>5, <1>6, <3>2, <4>1, <4>2 DEF Inv, QueueInv
    <3> QED
      BY <3>1, <3>2
  <2>2. ASSUME NEW s \in Requests, status'[s] = "queued"
        PROVE  KeyOf[s] \in Keys /\ \E i \in 1 .. Len(queues'[KeyOf[s]]) : queues'[KeyOf[s]][i] = s
    <3>1. s \notin popped /\ status[s] = "queued"
      BY <1>6, <2>2
    <3>2. PICK i \in 1 .. Len(queues[KeyOf[s]]) : KeyOf[s] \in Keys /\ queues[KeyOf[s]][i] = s
      BY <3>1 DEF Inv, QueueInv
    <3>3. CASE KeyOf[s] = k
      <4>1. i \in 1 .. Len(q) /\ q[i] = s
        BY <3>2, <3>3 DEF q
      <4>2. i \notin 1 .. n
        BY <3>1, <4>1 DEF popped
      <4>3. i - n \in 1 .. Len(q) - n /\ (i - n) + n = i
        BY <1>3, <4>1, <4>2
      <4> QED
        BY <1>2, <1>4, <3>3, <4>1, <4>3
    <3>4. CASE KeyOf[s] # k
      BY <1>4, <3>2, <3>4
    <3> QED
      BY <3>3, <3>4
  <2>3. ASSUME NEW l \in Keys, NEW i \in 1 .. Len(queues'[l]), NEW j \in 1 .. Len(queues'[l]), i < j
        PROVE  Earlier(arrived', queues'[l][i], queues'[l][j])
    <3>1. CASE l = k
      <4>1. /\ i + n \in 1 .. Len(q) /\ queues'[l][i] = q[i + n]
            /\ j + n \in 1 .. Len(q) /\ queues'[l][j] = q[j + n]
            /\ i + n < j + n
        BY <1>3, <1>4, <2>3, <3>1
      <4>2. Earlier(arrived, q[i + n], q[j + n])
        BY <1>2, <4>1 DEF Inv, QueueInv, q
      <4> QED
        BY <1>1, <4>1, <4>2
    <3>2. CASE l # k
      BY <1>1, <1>4, <2>3, <3>2 DEF Inv, QueueInv
    <3> QED
      BY <3>1, <3>2
  <2> QED
    BY <2>1, <2>2, <2>3 DEF QueueInv
<1>12. DrainInv'
  <2>1. \A e \in Requests : Active(e)' <=> Active(e)
    BY <1>1, <1>7 DEF Active
  <2>2. \A l \in Keys \ mapped : queues'[l] = queues[l]
    BY <1>2, <1>4
  <2> QED
    BY <1>1, <2>1, <2>2 DEF Inv, DrainInv
<1>13. BatchInv'
  <2>1. \A e \in Requests : \A r \in drain'[e].batch :
           KeyOf[r] = KeyOf[e] /\ drain'[e].pc = "run"
    <3> SUFFICES ASSUME NEW e \in Requests, NEW r \in drain'[e].batch
                 PROVE  KeyOf[r] = KeyOf[e] /\ drain'[e].pc = "run"
      OBVIOUS
    <3>1. CASE e = d
      BY <1>5, <1>7, <3>1
    <3>2. CASE e # d
      BY <1>7, <3>2 DEF Inv, BatchInv
    <3> QED
      BY <3>1, <3>2
  <2>2. \A r, s \in popped : r = s \/ (r \in SharedReads /\ s \in SharedReads)
    BY <1>3 DEF popped
  <2>3. \A e \in Requests : \A r, s \in drain'[e].batch :
           r = s \/ (r \in SharedReads /\ s \in SharedReads)
    <3> SUFFICES ASSUME NEW e \in Requests, NEW r \in drain'[e].batch, NEW s \in drain'[e].batch
                 PROVE  r = s \/ (r \in SharedReads /\ s \in SharedReads)
      OBVIOUS
    <3>1. CASE e = d
      BY <1>7, <2>2, <3>1
    <3>2. CASE e # d
      BY <1>7, <3>2 DEF Inv, BatchInv
    <3> QED
      BY <3>1, <3>2
  <2>4. ASSUME NEW r \in Requests, KeyOf[r] # NoKey, status'[r] \in {"spawned", "running"}
        PROVE  \E e \in Requests : r \in drain'[e].batch
    <3>1. CASE r \in popped
      BY <1>7, <3>1
    <3>2. CASE r \notin popped
      <4>1. PICK e \in Requests : r \in drain[e].batch
        BY <1>6, <2>4, <3>2 DEF Inv, BatchInv
      <4>2. drain[e].pc = "run"
        BY <4>1 DEF Inv, BatchInv
      <4> QED
        BY <1>1, <1>7, <4>1, <4>2
    <3> QED
      BY <3>1, <3>2
  <2> QED
    BY <2>1, <2>3, <2>4 DEF BatchInv
<1>14. FifoInv'
  <2> SUFFICES ASSUME NEW s \in Requests, NEW t \in Requests,
                      KeyOf[s] = KeyOf[t], KeyOf[s] # NoKey, Earlier(arrived', t, s),
                      status'[t] = "queued", status'[s] # "unsent"
               PROVE  status'[s] = "queued"
    BY DEF FifoInv
  <2>1. t \notin popped /\ status[t] = "queued" /\ Earlier(arrived, t, s)
    BY <1>1, <1>6
  <2>2. status[s] # "unsent"
    BY <1>5, <1>6
  <2>3. status[s] = "queued"
    BY <2>1, <2>2 DEF Inv, FifoInv
  <2>4. ASSUME s \in popped PROVE FALSE
    <3>1. KeyOf[t] = k
      BY <1>5, <2>4
    <3>2. PICK j \in 1 .. n : q[j] = s
      BY <2>4 DEF popped
    <3>3. PICK i \in 1 .. Len(q) : q[i] = t
      BY <2>1, <3>1 DEF Inv, QueueInv, q
    <3>4. i \notin 1 .. n
      BY <2>1, <3>3 DEF popped
    <3>5. Earlier(arrived, s, t)
      <4>1. j \in 1 .. Len(q) /\ j < i
        BY <1>3, <3>3, <3>4
      <4> QED
        BY <1>2, <3>2, <3>3, <4>1 DEF Inv, QueueInv, q
    <3>6. \A a, b \in 1 .. Len(arrived) : arrived[a] = arrived[b] => a = b
      BY DEF Inv, ArrivalInv
    <3> QED
      BY <1>0, <2>1, <3>5, <3>6 DEF Earlier
  <2> QED
    BY <1>6, <2>3, <2>4
<1>15. GateInv'
  <2>1. \A c \in Conns : InFlight(c)' = InFlight(c)
    BY <1>5, <1>6 DEF InFlight
  <2> QED
    BY <1>1, <2>1 DEF Inv, GateInv, CleanupQuiesces
<1> QED
  BY <1>8, <1>9, <1>11, <1>12, <1>13, <1>14, <1>15 DEF Inv

\* A drain task returns.
LEMMA RemoveKeyStep ==
    ASSUME Inv, NEW d \in Requests, Pop(d), queues[KeyOf[d]] = <<>>
    PROVE  Inv'
<1> USE RequestsAssumption
<1>0. /\ drain \in [Requests -> [pc : DrainSteps, batch : SUBSET Requests]]
      /\ mapped \subseteq Keys
  BY DEF Inv, TypeOK
<1>1. /\ drain[d].pc = "pop"
      /\ mapped' = mapped \ {KeyOf[d]}
      /\ drain' = [drain EXCEPT ![d] = [pc |-> "done", batch |-> {}]]
      /\ UNCHANGED <<queues, status, arrived, accepting, conn, timedOut, server>>
  BY DEF Pop, RemoveKey
<1>2. /\ drain' \in [Requests -> [pc : DrainSteps, batch : SUBSET Requests]]
      /\ drain'[d] = [pc |-> "done", batch |-> {}]
      /\ \A e \in Requests \ {d} : drain'[e] = drain[e]
  BY <1>0, <1>1 DEF DrainSteps
<1>3. TypeOK' /\ ArrivalInv' /\ QueueInv' /\ FifoInv'
  BY <1>1, <1>2 DEF Inv, TypeOK, ArrivalInv, QueueInv, FifoInv
<1>4. DrainInv'
  <2>1. Active(d) /\ ~Active(d)' /\ \A e \in Requests \ {d} : Active(e)' <=> Active(e)
    BY <1>1, <1>2 DEF Active
  <2>2. ASSUME NEW l \in mapped' PROVE \E e \in Requests : Active(e)' /\ KeyOf[e] = l
    <3>1. PICK e \in Requests : Active(e) /\ KeyOf[e] = l
      BY <1>1 DEF Inv, DrainInv
    <3> QED
      BY <1>1, <2>1, <3>1
  <2>3. \A e \in Requests : Active(e)' => KeyOf[e] \in mapped'
    BY <1>1, <2>1 DEF Inv, DrainInv
  <2>4. \A e, f \in Requests : Active(e)' /\ Active(f)' /\ KeyOf[e] = KeyOf[f] => e = f
    BY <2>1 DEF Inv, DrainInv
  <2>5. \A l \in Keys \ mapped' : queues'[l] = <<>>
    BY <1>1 DEF Inv, DrainInv
  <2> QED
    BY <2>2, <2>3, <2>4, <2>5 DEF DrainInv
<1>5. BatchInv'
  <2>1. drain[d].batch = {} /\ drain'[d].batch = {}
    BY <1>0, <1>1, <1>2 DEF Inv, BatchInv
  <2> QED
    BY <1>1, <1>2, <2>1 DEF Inv, BatchInv
<1>6. GateInv'
  BY <1>1 DEF Inv, GateInv, CleanupQuiesces, InFlight
<1> QED
  BY <1>3, <1>4, <1>5, <1>6 DEF Inv

\* The requests of a batch have ended: none of them needs the batch any more.
LEMMA JoinedStep ==
    ASSUME Inv, NEW d \in Requests, Joined(d)
    PROVE  Inv'
<1> USE RequestsAssumption
<1>1. /\ drain \in [Requests -> [pc : DrainSteps, batch : SUBSET Requests]]
      /\ drain[d].pc = "run" /\ \A r \in drain[d].batch : Ended(r)
      /\ drain' = [drain EXCEPT ![d] = [pc |-> "pop", batch |-> {}]]
      /\ UNCHANGED <<queues, mapped, status, arrived, accepting, conn, timedOut, server>>
  BY DEF Inv, TypeOK, Joined
<1>2. /\ drain' \in [Requests -> [pc : DrainSteps, batch : SUBSET Requests]]
      /\ drain'[d] = [pc |-> "pop", batch |-> {}]
      /\ \A e \in Requests \ {d} : drain'[e] = drain[e]
  BY <1>1 DEF DrainSteps
<1>3. TypeOK' /\ ArrivalInv' /\ QueueInv' /\ FifoInv'
  BY <1>1, <1>2 DEF Inv, TypeOK, ArrivalInv, QueueInv, FifoInv
<1>4. DrainInv'
  <2>1. \A e \in Requests : Active(e)' <=> Active(e)
    BY <1>1, <1>2 DEF Active
  <2> QED
    BY <1>1, <2>1 DEF Inv, DrainInv
<1>5. BatchInv'
  <2>1. ASSUME NEW r \in Requests, KeyOf[r] # NoKey, status[r] \in {"spawned", "running"}
        PROVE  \E e \in Requests : r \in drain'[e].batch
    <3>1. PICK e \in Requests : r \in drain[e].batch
      BY <2>1 DEF Inv, BatchInv
    <3> QED
      BY <1>1, <1>2, <2>1, <3>1 DEF Ended
  <2> QED
    BY <1>1, <1>2, <2>1 DEF Inv, BatchInv
<1>6. GateInv'
  BY <1>1 DEF Inv, GateInv, CleanupQuiesces, InFlight
<1> QED
  BY <1>3, <1>4, <1>5, <1>6 DEF Inv

\* The gate and the handler move one request that was popped.
LEMMA HandlerStep ==
    ASSUME Inv, NEW r \in Requests, Admit(r) \/ HandlerEnds(r)
    PROVE  Inv'
<1> USE RequestsAssumption
<1>1. /\ status \in [Requests -> Statuses]
      /\ status[r] \in {"spawned", "running"} /\ status'[r] \in {"running", "skipped", "finished"}
      /\ status'[r] = "running" => accepting[ConnOf[r]]
      /\ \A s \in Requests \ {r} : status'[s] = status[s]
      /\ status' \in [Requests -> Statuses]
      /\ UNCHANGED <<queues, mapped, drain, arrived, accepting, conn, timedOut, server>>
  BY DEF Inv, TypeOK, Admit, HandlerEnds, Statuses
<1>2. TypeOK' /\ ArrivalInv' /\ DrainInv'
  BY <1>1 DEF Inv, TypeOK, ArrivalInv, DrainInv, Active
<1>3. QueueInv'
  <2>1. \A k \in Keys : \A i \in 1 .. Len(queues[k]) : queues[k][i] \in Requests
    BY ElementOfSeq DEF Inv, TypeOK
  <2> QED
    BY <1>1, <2>1 DEF Inv, QueueInv
<1>4. FifoInv' /\ BatchInv'
  BY <1>1 DEF Inv, FifoInv, BatchInv
<1>5. GateInv'
  <2>1. \A c \in Conns : ~accepting[c] => InFlight(c)' \subseteq InFlight(c)
    BY <1>1 DEF InFlight
  <2>2. ASSUME NEW c \in Conns \ timedOut, conn[c] = "cleaned" \/ server = "stopped"
        PROVE  InFlight(c)' = {}
    BY <2>1, <2>2 DEF Inv, GateInv, CleanupQuiesces
  <2> QED
    BY <1>1, <2>2 DEF Inv, GateInv, CleanupQuiesces
<1> QED
  BY <1>2, <1>3, <1>4, <1>5 DEF Inv

\* Connections close and the server shuts down.
LEMMA CloseStep ==
    ASSUME Inv,
           \/ \E c \in Conns : ConnectionClosed(c) \/ Cleanup(c)
           \/ \E forced \in BOOLEAN : ShutdownBegins(forced)
           \/ ServerLoop
    PROVE  Inv'
<1>1. UNCHANGED <<queues, mapped, drain, status, arrived>>
  BY DEF ConnectionClosed, Cleanup, ShutdownBegins, ServerLoop, ShutdownGate, ShutdownThreads
<1>2. TypeOK'
  BY DEF Inv, TypeOK, ConnectionClosed, Cleanup, ShutdownBegins, ServerLoop, ShutdownGate,
         ShutdownThreads
<1>3. ArrivalInv' /\ QueueInv' /\ DrainInv' /\ BatchInv' /\ FifoInv'
  BY <1>1 DEF Inv, ArrivalInv, QueueInv, DrainInv, BatchInv, FifoInv, Active
<1>4. GateInv'
  <2>0. \A c \in Conns : InFlight(c)' = InFlight(c)
    BY <1>1 DEF InFlight
  <2> USE <2>0 DEF Inv, TypeOK, GateInv, CleanupQuiesces
  <2>1. ASSUME NEW c \in Conns, ConnectionClosed(c) PROVE GateInv'
    BY <2>1 DEF ConnectionClosed
  <2>2. ASSUME NEW c \in Conns, Cleanup(c) PROVE GateInv'
    BY <2>2 DEF Cleanup
  <2>3. ASSUME NEW forced \in BOOLEAN, ShutdownBegins(forced) PROVE GateInv'
    BY <2>3 DEF ShutdownBegins
  <2>4. ASSUME NEW c \in Conns, ShutdownGate(c) PROVE GateInv'
    BY <2>4 DEF ShutdownGate
  <2>5. CASE ShutdownThreads
    BY <2>5 DEF ShutdownThreads
  <2> QED
    BY <2>1, <2>2, <2>3, <2>4, <2>5 DEF ServerLoop
<1> QED
  BY <1>2, <1>3, <1>4 DEF Inv

LEMMA NextInv == Inv /\ [Next]_vars => Inv'
<1> SUFFICES ASSUME Inv, [Next]_vars PROVE Inv'
  OBVIOUS
<1>1. ASSUME NEW r \in Requests, Receive(r) PROVE Inv'
  BY <1>1, SpawnStep, EnqueueStep
<1>2. ASSUME NEW d \in Requests, Pop(d) PROVE Inv'
  BY <1>2, PopRequestsStep, RemoveKeyStep
<1>3. ASSUME NEW d \in Requests, Joined(d) PROVE Inv'
  BY <1>3, JoinedStep
<1>4. ASSUME NEW r \in Requests, Admit(r) \/ HandlerEnds(r) PROVE Inv'
  BY <1>4, HandlerStep
<1>5. CASE UNCHANGED vars
  BY <1>5 DEF vars, Inv, TypeOK, ArrivalInv, QueueInv, DrainInv, BatchInv, FifoInv, GateInv,
              Active, CleanupQuiesces, InFlight
<1> QED
  BY <1>1, <1>2, <1>3, <1>4, <1>5, CloseStep DEF Next

LEMMA Invariance == Spec => []Inv
  BY InitInv, NextInv, PTL DEF Spec
-----------------------------------------------------------------------------
(* The theorems *)

\* The state of the queues, gates and connections keeps its type.
THEOREM TypeCorrect == Spec => []TypeOK
<1>1. Inv => TypeOK
  BY DEF Inv
<1> QED
  BY <1>1, Invariance, PTL

\* No queued request is stranded and none is drained twice over: the drain that
\* finds its queue empty and the enqueue that finds the key in the map agree,
\* for any number of keys and requests (request_serialization.rs).
THEOREM KeysDrained == Spec => []OneDrainer
<1>1. Inv => OneDrainer
  <2> SUFFICES ASSUME Inv, NEW k \in Keys
               PROVE  Cardinality(Drainers(k)) = (IF k \in mapped THEN 1 ELSE 0)
    BY DEF OneDrainer
  <2>1. CASE k \in mapped
    <3>1. PICK d \in Requests : Active(d) /\ KeyOf[d] = k
      BY <2>1 DEF Inv, DrainInv
    <3>2. Drainers(k) = {d}
      BY <3>1 DEF Inv, DrainInv, Drainers, Active
    <3> QED
      BY <2>1, <3>2, FS_Singleton
  <2>2. CASE k \notin mapped
    <3>1. Drainers(k) = {}
      BY <2>2 DEF Inv, DrainInv, Drainers, Active
    <3> QED
      BY <2>2, <3>1, FS_EmptySet
  <2> QED
    BY <2>1, <2>2
<1> QED
  BY <1>1, Invariance, PTL

\* A connection whose cleanup waited for its handlers has none that runs, for
\* ever after, and neither has any other when the threads are shut down
\* (connection_rpc_gate.rs and the end of the server loop).
THEOREM CleanedUp == Spec => []CleanupQuiesces
<1>1. Inv => CleanupQuiesces
  BY DEF Inv, GateInv
<1> QED
  BY <1>1, Invariance, PTL

\* A request that was popped has nobody before it whom it conflicts with: such
\* a request would be queued still, against the order of the queue, or be in
\* the same batch.
LEMMA PoppedHasWaited ==
    ASSUME Inv, NEW r \in Requests, status[r] = "spawned",
           NEW s \in Requests, Access!Conflict(s, r), Access!Before(s, r)
    PROVE  Ended(s)
<1> USE RequestsAssumption
<1>1. /\ s # r /\ KeyOf[s] = KeyOf[r] /\ KeyOf[s] # NoKey
      /\ ~(s \in SharedReads /\ r \in SharedReads)
  BY DEF Access!Conflict
<1>2. Earlier(arrived, s, r)
  BY DEF Access!Before, Earlier
<1>3. status[s] # "unsent"
  BY <1>2 DEF Inv, ArrivalInv, Earlier
<1>4. status[s] # "queued"
  BY <1>1, <1>2 DEF Inv, FifoInv
<1>5. status[s] \notin {"spawned", "running"}
  <2> SUFFICES ASSUME status[s] \in {"spawned", "running"} PROVE FALSE
    OBVIOUS
  <2>1. PICK d \in Requests : r \in drain[d].batch
    BY <1>1 DEF Inv, BatchInv
  <2>2. PICK e \in Requests : s \in drain[e].batch
    BY <1>1 DEF Inv, BatchInv
  <2>3. d = e
    BY <1>1, <2>1, <2>2 DEF Inv, BatchInv, DrainInv, Active
  <2> QED
    BY <1>1, <2>1, <2>2, <2>3 DEF Inv, BatchInv
<1> QED
  BY <1>3, <1>4, <1>5 DEF Inv, TypeOK, Statuses, Ended

\* Every step of the server is one of SerializedAccess, or changes nothing that
\* a client could see.
LEMMA NextRefines == Inv /\ [Next]_vars => [Access!Next]_(Access!vars)
<1> SUFFICES ASSUME Inv, [Next]_vars PROVE [Access!Next]_(Access!vars)
  OBVIOUS
<1> DEFINE stage == [r \in Requests |-> Stage(r)]
           opened == {c \in Conns : accepting[c]}
<1> USE RequestsAssumption
<1>0. status \in [Requests -> Statuses] /\ accepting \in [Conns -> BOOLEAN]
  BY DEF Inv, TypeOK
<1>1. ASSUME NEW r \in Requests, Receive(r) PROVE Access!Next
  <2>1. /\ status[r] = "unsent" /\ status'[r] \in {"queued", "spawned"}
        /\ \A s \in Requests \ {r} : status'[s] = status[s]
        /\ arrived' = Append(arrived, r) /\ accepting' = accepting
    BY <1>0, <1>1 DEF Receive, Spawn, Enqueue
  <2>2. stage' = [stage EXCEPT ![r] = "waiting"] /\ stage[r] = "unsent"
    BY <2>1 DEF Stage, Ended
  <2>3. Access!Arrive(r)
    BY <2>1, <2>2 DEF Access!Arrive
  <2> QED
    BY <2>3 DEF Access!Next
<1>2. ASSUME NEW d \in Requests, Pop(d) PROVE UNCHANGED Access!vars
  <2>1. \A r \in Requests : Stage(r)' = Stage(r)
    <3>1. CASE queues[KeyOf[d]] = <<>>
      BY <1>2, <3>1 DEF Pop, RemoveKey, Stage, Ended
    <3>2. CASE queues[KeyOf[d]] # <<>>
      <4>1. KeyOf[d] \in Keys /\ queues[KeyOf[d]] \in Seq(Requests)
        BY <1>2 DEF Pop, Inv, TypeOK, DrainInv, Active
      <4>2. BatchLen(queues[KeyOf[d]]) \in 1 .. Len(queues[KeyOf[d]])
        BY <3>2, <4>1, BatchPrefix
      <4>3. \A i \in 1 .. BatchLen(queues[KeyOf[d]]) : status[queues[KeyOf[d]][i]] = "queued"
        BY <4>1, <4>2 DEF Inv, QueueInv
      <4>4. \A r \in Requests : status'[r] = status[r] \/ (status[r] = "queued" /\ status'[r] = "spawned")
        BY <1>2, <3>2, <4>3 DEF Pop, PopRequests
      <4> QED
        BY <4>4 DEF Stage, Ended
    <3> QED
      BY <3>1, <3>2
  <2> QED
    BY <1>2, <2>1 DEF Pop, Access!vars
<1>3. ASSUME NEW d \in Requests, Joined(d) PROVE UNCHANGED Access!vars
  BY <1>3 DEF Joined, Access!vars, Stage, Ended
<1>4. ASSUME NEW r \in Requests, Admit(r) PROVE Access!Next
  <2>1. /\ status[r] = "spawned" /\ stage[r] = "waiting"
        /\ arrived' = arrived /\ accepting' = accepting
        /\ \A s \in Requests \ {r} : status'[s] = status[s]
    BY <1>0, <1>4 DEF Admit, Stage
  <2>2. CASE accepting[ConnOf[r]]
    <3>1. status'[r] = "running"
      BY <1>0, <1>4, <2>2 DEF Admit
    <3>2. stage' = [stage EXCEPT ![r] = "running"]
      BY <2>1, <3>1 DEF Stage, Ended
    <3>3. \A s \in Requests : Access!Conflict(s, r) /\ Access!Before(s, r) => stage[s] = "ended"
      BY <2>1, PoppedHasWaited DEF Stage, Ended
    <3>4. Access!Start(r)
      BY <2>1, <2>2, <3>2, <3>3 DEF Access!Start
    <3> QED
      BY <3>4 DEF Access!Next
  <2>3. CASE ~accepting[ConnOf[r]]
    <3>1. status'[r] = "skipped"
      BY <1>0, <1>4, <2>3 DEF Admit
    <3>2. stage' = [stage EXCEPT ![r] = "ended"]
      BY <2>1, <3>1 DEF Stage, Ended
    <3>3. Access!Skip(r)
      BY <2>1, <2>3, <3>2 DEF Access!Skip
    <3> QED
      BY <3>3 DEF Access!Next
  <2> QED
    BY <2>2, <2>3
<1>5. ASSUME NEW r \in Requests, HandlerEnds(r) PROVE Access!Next
  <2>1. /\ status[r] = "running" /\ status'[r] = "finished" /\ stage[r] = "running"
        /\ arrived' = arrived /\ accepting' = accepting
        /\ \A s \in Requests \ {r} : status'[s] = status[s]
    BY <1>0, <1>5 DEF HandlerEnds, Stage, Ended
  <2>2. stage' = [stage EXCEPT ![r] = "ended"]
    BY <2>1 DEF Stage, Ended
  <2>3. Access!Finish(r)
    BY <2>1, <2>2 DEF Access!Finish
  <2> QED
    BY <2>3 DEF Access!Next
<1>6. ASSUME NEW c \in Conns, ConnectionClosed(c) \/ ShutdownGate(c) PROVE Access!Next
  <2>1. opened' = opened \ {c} /\ arrived' = arrived /\ status' = status
    BY <1>0, <1>6 DEF ConnectionClosed, ShutdownGate
  <2>2. stage' = stage
    BY <2>1 DEF Stage, Ended
  <2>3. Access!Close(c)
    BY <2>1, <2>2 DEF Access!Close
  <2> QED
    BY <2>3 DEF Access!Next
<1>7. ASSUME \/ \E c \in Conns : Cleanup(c)
             \/ \E forced \in BOOLEAN : ShutdownBegins(forced)
             \/ ShutdownThreads
             \/ UNCHANGED vars
      PROVE  UNCHANGED Access!vars
  <2>1. arrived' = arrived /\ status' = status /\ accepting' = accepting
    BY <1>7 DEF Cleanup, ShutdownBegins, ShutdownThreads, vars
  <2> QED
    BY <2>1 DEF Access!vars, Stage, Ended
<1> QED
  BY <1>1, <1>2, <1>3, <1>4, <1>5, <1>6, <1>7 DEF Next, ServerLoop

\* The queues, the batches and the gates implement serialized access, for any
\* requests, keys and connections: conflicting requests of a key run one after
\* the other, in the order the server took them, and none of a closed
\* connection starts.
THEOREM AccessSerialized == Spec => Serialized
<1>1. Init => Access!Init
  <2> SUFFICES ASSUME Init PROVE Access!Init
    OBVIOUS
  <2> QED
    BY DEF Init, Access!Init, Stage, Ended
<1> QED
  BY <1>1, NextRefines, Invariance, PTL DEF Spec, Serialized, Access!Spec

-----------------------------------------------------------------------------
(* What SerializedAccess promises. The induction needs that a running       *)
(* request has no unfinished conflict before it in the order of arrival,    *)
(* and that a request is in that order once it was sent. How stages, order  *)
(* and open connections are read off the queues plays no part in it.        *)

Stages == {"unsent", "waiting", "running", "ended"}
stages == [r \in Requests |-> Stage(r)]

AccessShape ==
    /\ arrived \in Seq(Requests)
    /\ \A r \in Requests : Stage(r) \in Stages
    /\ \A r \in Requests :
         Stage(r) # "unsent" <=> \E i \in 1 .. Len(arrived) : arrived[i] = r

\* A running request has waited for every earlier one it conflicts with.
Waited ==
    \A r, s \in Requests :
        Stage(r) = "running" /\ Access!Conflict(s, r) /\ Access!Before(s, r) => Stage(s) = "ended"

AccessInv == AccessShape /\ Waited

\* Of two requests that were sent, one was taken before the other.
LEMMA Ordered ==
    ASSUME AccessShape, NEW r \in Requests, NEW s \in Requests, r # s,
           Stage(r) # "unsent", Stage(s) # "unsent"
    PROVE  Access!Before(r, s) \/ Access!Before(s, r)
<1>1. PICK i \in 1 .. Len(arrived) : arrived[i] = r
  BY DEF AccessShape
<1>2. PICK j \in 1 .. Len(arrived) : arrived[j] = s
  BY DEF AccessShape
<1>3. i < j \/ j < i
  BY <1>1, <1>2 DEF AccessShape
<1> QED
  BY <1>1, <1>2, <1>3 DEF Access!Before

\* A request that has waited excludes its conflicts while it runs.
LEMMA WaitedExcludes == AccessInv => Access!Exclusive
<1> SUFFICES ASSUME AccessInv, NEW r \in Requests, NEW s \in Requests, Access!Conflict(r, s),
                    Stage(r) = "running", Stage(s) = "running"
             PROVE  FALSE
  BY DEF Access!Exclusive
<1>1. Access!Before(r, s) \/ Access!Before(s, r)
  BY Ordered DEF AccessInv, Access!Conflict
<1>2. Access!Conflict(s, r)
  BY DEF Access!Conflict
<1> QED
  BY <1>1, <1>2 DEF AccessInv, Waited

\* Arrive is the only step that moves the order, and it adds a request that
\* nobody has to wait for yet.
LEMMA ArriveStep ==
    ASSUME AccessInv, NEW q \in Requests, Access!Arrive(q)
    PROVE  AccessInv'
<1>1. /\ Stage(q) = "unsent" /\ Stage(q)' = "waiting"
      /\ \A r \in Requests \ {q} : Stage(r)' = Stage(r)
      /\ arrived' = Append(arrived, q)
  BY DEF Access!Arrive
<1>2. /\ arrived' \in Seq(Requests)
      /\ Len(arrived') = Len(arrived) + 1
      /\ \A i \in 1 .. Len(arrived) : arrived'[i] = arrived[i]
      /\ arrived'[Len(arrived) + 1] = q
  BY <1>1 DEF AccessInv, AccessShape
<1>3. AccessShape'
  <2>1. ASSUME NEW r \in Requests
        PROVE  /\ Stage(r)' \in Stages
               /\ Stage(r)' # "unsent" <=> \E i \in 1 .. Len(arrived') : arrived'[i] = r
    <3>0. /\ Stage(r) \in Stages /\ Len(arrived) \in Nat
          /\ Stage(r) # "unsent" <=> \E i \in 1 .. Len(arrived) : arrived[i] = r
      BY DEF AccessInv, AccessShape
    <3>1. CASE r = q
      BY <1>1, <1>2, <3>0, <3>1 DEF Stages
    <3>2. CASE r # q
      <4>1. (\E i \in 1 .. Len(arrived') : arrived'[i] = r)
              <=> \E i \in 1 .. Len(arrived) : arrived[i] = r
        BY <1>2, <3>0, <3>2
      <4> QED
        BY <1>1, <3>0, <3>2, <4>1
    <3> QED
      BY <3>1, <3>2
  <2> QED
    BY <1>2, <2>1 DEF AccessShape
<1>4. Waited'
  <2> SUFFICES ASSUME NEW r \in Requests, NEW s \in Requests,
                      Stage(r)' = "running", Access!Conflict(s, r), Access!Before(s, r)'
               PROVE  Stage(s)' = "ended"
    BY DEF Waited, Access!Conflict
  <2>1. r # q /\ Stage(r) = "running"
    BY <1>1
  <2>2. Access!Before(s, r)
    BY <1>2, <2>1 DEF Access!Before, AccessInv, AccessShape
  <2>3. Stage(s) = "ended"
    BY <2>1, <2>2 DEF AccessInv, Waited
  <2> QED
    BY <1>1, <2>3
<1> QED
  BY <1>3, <1>4 DEF AccessInv

\* Start waits, and nothing an earlier request may do takes its end back.
LEMMA StageStep ==
    ASSUME AccessInv, NEW q \in Requests, Access!Start(q) \/ Access!Finish(q) \/ Access!Skip(q)
    PROVE  AccessInv'
<1>1. /\ Stage(q) \in {"waiting", "running"}
      /\ arrived' = arrived
      /\ \A r \in Requests \ {q} : Stage(r)' = Stage(r)
      /\ Stage(q)' \in {"running", "ended"}
      /\ Stage(q)' = "running" => Access!Start(q)
  BY DEF Access!Start, Access!Finish, Access!Skip
<1>2. AccessShape'
  BY <1>1 DEF AccessInv, AccessShape, Stages
<1>3. Waited'
  <2> SUFFICES ASSUME NEW r \in Requests, NEW s \in Requests,
                      Stage(r)' = "running", Access!Conflict(s, r), Access!Before(s, r)
               PROVE  Stage(s)' = "ended"
    BY <1>1 DEF Waited, Access!Conflict, Access!Before
  <2>1. CASE r = q
    <3>1. Stage(s) = "ended"
      BY <1>1, <2>1 DEF Access!Start
    <3> QED
      BY <1>1, <2>1, <3>1 DEF Access!Conflict
  <2>2. CASE r # q
    <3>1. Stage(s) = "ended"
      BY <1>1, <2>2 DEF AccessInv, Waited
    <3> QED
      BY <1>1, <3>1
  <2> QED
    BY <2>1, <2>2
<1> QED
  BY <1>2, <1>3 DEF AccessInv

\* SerializedAccess, read off the queues: whatever the clients send and
\* whenever connections close, two requests of one key run at the same time
\* only if both are shared reads.
THEOREM ConflictsExcluded == Access!Spec => []Access!Exclusive
<1>1. Access!Init => AccessInv
  <2> SUFFICES ASSUME Access!Init PROVE AccessInv
    OBVIOUS
  <2>1. arrived = <<>> /\ \A r \in Requests : Stage(r) = "unsent"
    BY DEF Access!Init
  <2> QED
    BY <2>1 DEF AccessInv, AccessShape, Waited, Stages
<1>2. AccessInv /\ [Access!Next]_(Access!vars) => AccessInv'
  <2> SUFFICES ASSUME AccessInv, [Access!Next]_(Access!vars)
               PROVE  AccessInv'
    OBVIOUS
  <2>1. ASSUME NEW q \in Requests, Access!Arrive(q)
        PROVE  AccessInv'
    BY <2>1, ArriveStep
  <2>2. ASSUME NEW q \in Requests, Access!Start(q) \/ Access!Finish(q) \/ Access!Skip(q)
        PROVE  AccessInv'
    BY <2>2, StageStep
  <2>3. CASE UNCHANGED Access!vars \/ \E c \in Conns : Access!Close(c)
    <3>1. arrived' = arrived /\ stages' = stages
      BY <2>3 DEF Access!Close, Access!vars, stages
    <3>2. \A r \in Requests : Stage(r)' = Stage(r)
      BY <3>1 DEF stages
    <3> QED
      BY <3>1, <3>2 DEF AccessInv, AccessShape, Waited, Access!Conflict, Access!Before
  <2> QED
    BY <2>1, <2>2, <2>3 DEF Access!Next
<1> QED
  BY <1>1, <1>2, WaitedExcludes, PTL DEF Access!Spec

\* So the server has it: no two handlers run at the same time that may not.
THEOREM HandlersExclusive == Spec => []Access!Exclusive
  BY AccessSerialized, ConflictsExcluded, PTL DEF Serialized
=============================================================================
