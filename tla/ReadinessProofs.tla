-------------------------- MODULE ReadinessProofs --------------------------
(***************************************************************************)
(* The readiness flag, for any number of tasks and any token width: the    *)
(* safety properties MCReadiness checks follow from one inductive          *)
(* invariant about who holds the mutex and what the flag says meanwhile.   *)
(***************************************************************************)
EXTENDS Readiness, TLAPS

\* The steps a task takes with the token mutex in its hands.
Critical == {"is_drop_ready", "is_drop", "sub_insert", "mark_store", "mark_clear"}
\* The steps after which a broadcast is still to come.
Sending == {"is_drop", "is_send", "mark_clear", "mark_send"}
\* The steps at which a task owns a receiver.
Parked == {"wait_borrow", "wait_changed"}

\* The mutex is held by exactly the task that is in its critical section.
LockInv == \A p \in Procs : lock = p <=> pc[p] \in Critical

\* What each critical section knows of the flag and the token set.
SectionInv ==
    \A p \in Procs :
        /\ pc[p] = "sub_insert" => ~ready
        /\ pc[p] \in {"is_drop_ready", "is_drop"} => ready /\ tokens = {}
        /\ pc[p] = "mark_store" => ~ready /\ marks = 1
        /\ pc[p] = "mark_clear" => ready /\ marks = 1

\* Until a token was redeemed every token handed out is still outstanding.
TokenInv ==
    /\ marks \in {0, 1}
    /\ ~ready /\ marks = 0 => tokens = issued
    /\ ~ready /\ marks = 1 => \E p \in Procs : pc[p] = "mark_store"

\* Receivers belong to parked tasks, and a task parked when the flag flipped
\* never starts to wait again.
ReceiverInv ==
    /\ \A p \in Procs : p \in rx <=> pc[p] \in Parked
    /\ \A p \in early : ready /\ pc[p] \in Parked \cup {"idle"}

Inv == /\ TypeOK
       /\ LockInv
       /\ SectionInv
       /\ TokenInv
       /\ ReceiverInv
       /\ ReadyHasNoTokens
       /\ NoBypass
       /\ NoLostBroadcast

\* fetch_add of an i32 yields an i32.
LEMMA WrapType ==
    ASSUME NEW n \in Int PROVE Wrap(n) \in Ids
  <1>1. (n + HalfRange) % (2 * HalfRange) \in 0 .. 2 * HalfRange - 1
    BY HalfRangeAssumption
  <1> QED
    BY <1>1, HalfRangeAssumption DEF Wrap, Ids

\* A new flag satisfies the invariant.
LEMMA InitInv == Init => Inv
  <1> SUFFICES ASSUME Init PROVE Inv
    OBVIOUS
  <1>1. TypeOK
    <2>1. next_id \in Ids BY WrapType DEF Init
    <2>2. 0 \in Ids BY HalfRangeAssumption DEF Ids
    <2> QED BY <2>1, <2>2 DEF Init, TypeOK, Steps, Calls
  <1>2. LockInv /\ SectionInv /\ TokenInv /\ ReceiverInv
    BY NoProcAssumption
    DEF Init, LockInv, SectionInv, TokenInv, ReceiverInv, Critical, Parked
  <1> QED
    BY <1>1, <1>2 DEF Init, Inv, ReadyHasNoTokens, NoBypass, NoLostBroadcast

\* Every step keeps the types.
LEMMA NextType ==
    ASSUME TypeOK, [Next]_vars PROVE TypeOK'
  <1> USE DEF TypeOK, Steps, Calls
  <1>0. CASE UNCHANGED vars
    BY <1>0 DEF vars
  <1> SUFFICES ASSUME NEW p \in Procs, Run(p) \/ Environment(p) PROVE TypeOK'
    BY <1>0 DEF Next
  <1> USE DEF Goto, Return, Enter, Send, SetReady
  <1>1. CASE IsReadyTryLock(p) \/ IsReadyDrop(p) \/ IsReadySend(p) \/ IsReadyReload(p)
    BY <1>1 DEF IsReadyTryLock, IsReadyDrop, IsReadySend, IsReadyReload, IsReadyAnswer
  <1>2. CASE SubscribeLock(p)
    BY <1>2 DEF SubscribeLock
  <1>3. CASE SubscribeInsert(p)
    <2>1. PICK k \in 0 .. 2 * HalfRange - 1 :
              /\ Wrap(next_id + k) \notin tokens \cup {0}
              /\ next_id' = Wrap(next_id + k + 1)
              /\ tokens' = tokens \cup {Wrap(next_id + k)}
              /\ issued' = issued \cup {Wrap(next_id + k)}
      BY <1>3 DEF SubscribeInsert
    <2>2. next_id + k \in Int /\ next_id + k + 1 \in Int
      BY HalfRangeAssumption DEF Ids
    <2>3. Wrap(next_id + k) \in Ids /\ next_id' \in Ids
      BY <2>1, <2>2, WrapType
    <2> QED
      BY <1>3, <2>1, <2>3 DEF SubscribeInsert
  <1>4. CASE MarkLock(p)
    BY <1>4 DEF MarkLock
  <1>8. CASE MarkStore(p) \/ MarkClear(p)
    BY <1>8 DEF MarkStore, MarkClear
  <1>7. CASE MarkSend(p)
    BY <1>7 DEF MarkSend
  <1>5. CASE WaitSubscribe(p) \/ WaitBorrow(p) \/ WaitChanged(p) \/ WaitCancel(p)
    BY <1>5 DEF WaitSubscribe, WaitBorrow, WaitChanged, WaitCancel
  <1>6. CASE IsReadyCall(p) \/ SubscribeCall(p) \/ MarkCall(p) \/ LockTimeout(p)
    BY <1>6 DEF IsReadyCall, SubscribeCall, MarkCall, LockTimeout
  <1> QED
    BY <1>1, <1>2, <1>3, <1>4, <1>5, <1>6, <1>7, <1>8 DEF Run, Environment

\* Every step keeps the mutual exclusion of the token mutex.
LEMMA NextLock ==
    ASSUME TypeOK, LockInv, [Next]_vars PROVE LockInv'
  <1> USE NoProcAssumption DEF TypeOK, LockInv, Critical
  <1>0. CASE UNCHANGED vars
    BY <1>0 DEF vars
  <1> SUFFICES ASSUME NEW p \in Procs, Run(p) \/ Environment(p) PROVE LockInv'
    BY <1>0 DEF Next
  <1> USE DEF Goto, Return, Enter
  <1>1. CASE IsReadyTryLock(p) \/ IsReadyDrop(p) \/ IsReadySend(p) \/ IsReadyReload(p)
    BY <1>1 DEF IsReadyTryLock, IsReadyDrop, IsReadySend, IsReadyReload, IsReadyAnswer
  <1>2. CASE SubscribeLock(p) \/ SubscribeInsert(p)
    BY <1>2 DEF SubscribeLock, SubscribeInsert
  <1>3. CASE MarkLock(p) \/ MarkStore(p) \/ MarkClear(p) \/ MarkSend(p)
    BY <1>3 DEF MarkLock, MarkStore, MarkClear, MarkSend
  <1>4. CASE WaitSubscribe(p) \/ WaitBorrow(p) \/ WaitChanged(p) \/ WaitCancel(p)
    BY <1>4 DEF WaitSubscribe, WaitBorrow, WaitChanged, WaitCancel
  <1>5. CASE IsReadyCall(p) \/ SubscribeCall(p) \/ MarkCall(p) \/ LockTimeout(p)
    BY <1>5 DEF IsReadyCall, SubscribeCall, MarkCall, LockTimeout
  <1> QED
    BY <1>1, <1>2, <1>3, <1>4, <1>5 DEF Run, Environment

\* The flag, the token set and the marks move together: this is where the
\* recheck under the mutex in subscribe and the emptiness test in is_ready are
\* needed.
LEMMA NextTokens ==
    ASSUME TypeOK, LockInv, SectionInv, TokenInv, ReadyHasNoTokens, NoBypass, [Next]_vars
    PROVE  SectionInv' /\ TokenInv' /\ ReadyHasNoTokens' /\ NoBypass'
  <1> USE NoProcAssumption
      DEF TypeOK, LockInv, Critical, SectionInv, TokenInv, ReadyHasNoTokens, NoBypass
  <1> DEFINE Goal == SectionInv' /\ TokenInv' /\ ReadyHasNoTokens' /\ NoBypass'
  <1>0. CASE UNCHANGED vars
    BY <1>0 DEF vars
  <1> SUFFICES ASSUME NEW p \in Procs, Run(p) \/ Environment(p) PROVE Goal
    BY <1>0 DEF Next
  <1> USE DEF Goto, Return, Enter, SetReady
  <1>1. CASE IsReadyTryLock(p)
    BY <1>1 DEF IsReadyTryLock
  <1>2. CASE IsReadyDrop(p) \/ IsReadySend(p) \/ IsReadyReload(p)
    BY <1>2 DEF IsReadyDrop, IsReadySend, IsReadyReload, IsReadyAnswer
  <1>3. CASE SubscribeLock(p)
    BY <1>3 DEF SubscribeLock
  <1>4. CASE SubscribeInsert(p)
    BY <1>4 DEF SubscribeInsert
  <1>5. CASE MarkLock(p)
    BY <1>5 DEF MarkLock
  <1>6. CASE MarkStore(p)
    BY <1>6 DEF MarkStore
  <1>7. CASE MarkClear(p)
    BY <1>7 DEF MarkClear
  <1>8. CASE MarkSend(p) \/ WaitSubscribe(p) \/ WaitBorrow(p) \/ WaitChanged(p) \/ WaitCancel(p)
    BY <1>8 DEF MarkSend, WaitSubscribe, WaitBorrow, WaitChanged, WaitCancel
  <1>9. CASE IsReadyCall(p) \/ SubscribeCall(p) \/ MarkCall(p) \/ LockTimeout(p)
    BY <1>9 DEF IsReadyCall, SubscribeCall, MarkCall, LockTimeout
  <1> QED
    BY <1>1, <1>2, <1>3, <1>4, <1>5, <1>6, <1>7, <1>8, <1>9 DEF Run, Environment

\* A receiver that existed when the flag flipped is not missed.
LEMMA NextReceivers ==
    ASSUME TypeOK, ReceiverInv, NoLostBroadcast, [Next]_vars
    PROVE  ReceiverInv' /\ NoLostBroadcast'
  <1> USE DEF TypeOK, ReceiverInv, NoLostBroadcast, Parked
  <1> DEFINE Goal == ReceiverInv' /\ NoLostBroadcast'
  <1>0. CASE UNCHANGED vars
    BY <1>0 DEF vars
  <1> SUFFICES ASSUME NEW p \in Procs, Run(p) \/ Environment(p) PROVE Goal
    BY <1>0 DEF Next
  <1> USE DEF Goto, Return, Enter, SetReady, Send
  <1>1. CASE IsReadyTryLock(p)
    BY <1>1 DEF IsReadyTryLock
  <1>2. CASE IsReadyDrop(p)
    BY <1>2 DEF IsReadyDrop
  <1>3. CASE IsReadySend(p)
    BY <1>3 DEF IsReadySend
  <1>4. CASE IsReadyReload(p)
    BY <1>4 DEF IsReadyReload, IsReadyAnswer
  <1>5. CASE SubscribeLock(p) \/ SubscribeInsert(p)
    BY <1>5 DEF SubscribeLock, SubscribeInsert
  <1>6. CASE MarkLock(p) \/ MarkClear(p)
    BY <1>6 DEF MarkLock, MarkClear
  <1>7. CASE MarkStore(p)
    BY <1>7 DEF MarkStore
  <1>8. CASE MarkSend(p)
    BY <1>8 DEF MarkSend
  <1>9. CASE WaitSubscribe(p) \/ WaitBorrow(p) \/ WaitChanged(p) \/ WaitCancel(p)
    BY <1>9 DEF WaitSubscribe, WaitBorrow, WaitChanged, WaitCancel
  <1>10. CASE IsReadyCall(p) \/ SubscribeCall(p) \/ MarkCall(p) \/ LockTimeout(p)
    BY <1>10 DEF IsReadyCall, SubscribeCall, MarkCall, LockTimeout
  <1> QED
    BY <1>1, <1>2, <1>3, <1>4, <1>5, <1>6, <1>7, <1>8, <1>9, <1>10 DEF Run, Environment

\* The invariant holds throughout.
LEMMA SpecInv == Spec => []Inv
  <1>1. Inv /\ [Next]_vars => Inv'
    BY NextType, NextLock, NextTokens, NextReceivers DEF Inv
  <1> QED
    BY InitInv, <1>1, PTL DEF Spec

\* Every variable of the flag keeps its type, token ids included.
THEOREM TypeCorrect == Spec => []TypeOK
  BY SpecInv, PTL DEF Inv

\* However many tasks present however many tokens, mark_ready answers true at
\* most once.
THEOREM MarkOnce == Spec => []SingleMark
  <1>1. Inv => SingleMark
    BY DEF Inv, TokenInv, SingleMark
  <1> QED
    BY SpecInv, <1>1, PTL

\* The no-subscriber shortcut of is_ready never overtakes a subscription.
THEOREM SubscriptionsGate == Spec => []NoBypass
  BY SpecInv, PTL DEF Inv

\* The lock-free flag and the token set agree whenever the mutex is free.
THEOREM ReadyEmptiesTokens == Spec => []ReadyHasNoTokens
  BY SpecInv, PTL DEF Inv

\* A task that owned a receiver when the flag flipped has the value or a
\* sender still on its way.
THEOREM BroadcastReaches == Spec => []NoLostBroadcast
  BY SpecInv, PTL DEF Inv
=============================================================================
