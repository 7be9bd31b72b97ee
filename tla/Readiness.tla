------------------------------ MODULE Readiness ------------------------------
(***************************************************************************)
(* utils/readiness: a one-way readiness flag.  Callers subscribe for an    *)
(* authorization token, any token holder may mark the flag ready, and      *)
(* wait_ready parks a caller until that happens.  The flag is an atomic    *)
(* boolean, a mutex-protected token set and a tokio watch channel; every   *)
(* access to one of the three is a step of its own.                        *)
(***************************************************************************)
EXTENDS Integers, FiniteSets

CONSTANTS
    Procs,       \* the tasks that share the flag
    HalfRange,   \* token ids are -HalfRange .. HalfRange-1 (2^31 in the code)
    MaxIssued,   \* bound: subscriptions granted in a behaviour
    NoProc       \* the token mutex is free

ASSUME HalfRangeAssumption == HalfRange \in Nat \ {0}
ASSUME MaxIssuedAssumption == MaxIssued \in Nat /\ MaxIssued < 2 * HalfRange - 1
ASSUME NoProcAssumption == NoProc \notin Procs

VARIABLES
    ready,     \* AtomicBool
    next_id,   \* AtomicI32
    tokens,    \* contents of the token mutex
    lock,      \* holder of the token mutex
    tx,        \* value held by the watch channel
    rx,        \* tasks that own a live watch::Receiver
    pc,        \* next step of each task
    call,      \* the public operation each task is in
    arg,       \* the token passed to mark_ready
    issued,    \* history: every token subscribe returned
    marks,     \* history: number of mark_ready calls answered Ok(true)
    early      \* history: tasks that owned a receiver when the flag flipped

vars == <<ready, next_id, tokens, lock, tx, rx, pc, call, arg, issued, marks, early>>

Ids == -HalfRange .. HalfRange - 1
Wrap(n) == ((n + HalfRange) % (2 * HalfRange)) - HalfRange

Steps == {"idle", "is_try", "is_drop_ready", "is_drop", "is_send", "is_reload",
          "sub_lock", "sub_insert", "mark_lock", "mark_store", "mark_clear",
          "mark_send", "wait_subscribe", "wait_borrow", "wait_changed"}
Calls == {"none", "is_ready", "subscribe", "mark_ready", "wait_ready"}

TypeOK ==
    /\ ready \in BOOLEAN
    /\ next_id \in Ids
    /\ tokens \subseteq Ids \ {0}
    /\ lock \in Procs \cup {NoProc}
    /\ tx \in BOOLEAN
    /\ rx \subseteq Procs
    /\ pc \in [Procs -> Steps]
    /\ call \in [Procs -> Calls]
    /\ arg \in [Procs -> Ids]
    /\ issued \subseteq Ids \ {0}
    /\ marks \in Nat
    /\ early \subseteq Procs

\* ReadinessFlag::new: the receiver made with the channel is dropped at once.
Init ==
    /\ ready = FALSE
    /\ next_id = Wrap(1)
    /\ tokens = {}
    /\ lock = NoProc
    /\ tx = FALSE
    /\ rx = {}
    /\ pc = [p \in Procs |-> "idle"]
    /\ call = [p \in Procs |-> "none"]
    /\ arg = [p \in Procs |-> 0]
    /\ issued = {}
    /\ marks = 0
    /\ early = {}

Goto(p, step) == pc' = [pc EXCEPT ![p] = step] /\ UNCHANGED call
Return(p) == /\ pc' = [pc EXCEPT ![p] = "idle"]
             /\ call' = [call EXCEPT ![p] = "none"]
Enter(p, op, step) == /\ pc[p] = "idle"
                      /\ pc' = [pc EXCEPT ![p] = step]
                      /\ call' = [call EXCEPT ![p] = op]

\* tokio watch::Sender::send: without a receiver it fails and keeps the old
\* value, so the sent value is lost.
Send == tx' = IF rx # {} THEN TRUE ELSE tx

\* The store to the atomic flag.
SetReady == /\ ready' = TRUE
            /\ early' = IF ready THEN early ELSE rx

-----------------------------------------------------------------------------
(* is_ready, also the first step of wait_ready *)

\* The answer of is_ready: wait_ready goes on to park when it was false.
IsReadyAnswer(p, answer) ==
    IF call[p] = "wait_ready" /\ ~answer THEN Goto(p, "wait_subscribe") ELSE Return(p)

\* Called on a ready flag, every operation returns at its first load without
\* a trace: the calls below are those that found it not ready.
IsReadyCall(p) ==
    /\ ~ready
    /\ \E op \in {"is_ready", "wait_ready"} : Enter(p, op, "is_try")
    /\ UNCHANGED <<ready, next_id, tokens, lock, tx, rx, arg, issued, marks, early>>

\* try_lock, then the swap under the lock when no subscription is outstanding.
IsReadyTryLock(p) ==
    /\ pc[p] = "is_try"
    /\ IF lock = NoProc /\ tokens = {}
         THEN /\ lock' = p
              /\ SetReady
              /\ Goto(p, IF ready THEN "is_drop_ready" ELSE "is_drop")
         ELSE Goto(p, "is_reload") /\ UNCHANGED <<ready, lock, early>>
    /\ UNCHANGED <<next_id, tokens, tx, rx, arg, issued, marks>>

\* drop(tokens); only the task whose swap flipped the flag broadcasts.
IsReadyDrop(p) ==
    /\ \/ pc[p] = "is_drop_ready" /\ Return(p)
       \/ pc[p] = "is_drop" /\ Goto(p, "is_send")
    /\ lock' = NoProc
    /\ UNCHANGED <<ready, next_id, tokens, tx, rx, arg, issued, marks, early>>

IsReadySend(p) ==
    /\ pc[p] = "is_send"
    /\ Send
    /\ Return(p)
    /\ UNCHANGED <<ready, next_id, tokens, lock, rx, arg, issued, marks, early>>

IsReadyReload(p) ==
    /\ pc[p] = "is_reload"
    /\ IsReadyAnswer(p, ready)
    /\ UNCHANGED <<ready, next_id, tokens, lock, tx, rx, arg, issued, marks, early>>

-----------------------------------------------------------------------------
(* subscribe *)

SubscribeCall(p) ==
    /\ ~ready
    /\ Cardinality(issued) + Cardinality({q \in Procs : call[q] = "subscribe"}) < MaxIssued
    /\ Enter(p, "subscribe", "sub_lock")
    /\ UNCHANGED <<ready, next_id, tokens, lock, tx, rx, arg, issued, marks, early>>

\* Mutant: the flag is not rechecked under the mutex.
SubscribeLockUnchecked(p) ==
    /\ pc[p] = "sub_lock"
    /\ lock = NoProc
    /\ Goto(p, "sub_insert")
    /\ lock' = p
    /\ UNCHANGED <<ready, next_id, tokens, tx, rx, arg, issued, marks, early>>

\* with_tokens acquires the mutex; the closure rechecks the flag first.
SubscribeLock(p) ==
    /\ pc[p] = "sub_lock"
    /\ lock = NoProc
    /\ IF ready THEN Return(p) /\ UNCHANGED lock
                ELSE Goto(p, "sub_insert") /\ lock' = p
    /\ UNCHANGED <<ready, next_id, tokens, tx, rx, arg, issued, marks, early>>

\* The loop draws ids until one is non-zero and not outstanding.
Skips(k) == \A j \in 0 .. k - 1 : Wrap(next_id + j) \in tokens \cup {0}

SubscribeInsert(p) ==
    /\ pc[p] = "sub_insert"
    /\ \E k \in 0 .. 2 * HalfRange - 1 :
          LET token == Wrap(next_id + k) IN
          /\ token \notin tokens \cup {0}
          /\ Skips(k)
          /\ next_id' = Wrap(next_id + k + 1)
          /\ tokens' = tokens \cup {token}
          /\ issued' = issued \cup {token}
    /\ lock' = NoProc
    /\ Return(p)
    /\ UNCHANGED <<ready, tx, rx, arg, marks, early>>

-----------------------------------------------------------------------------
(* mark_ready *)

\* Tokens are Copy: any task may present any token that was handed out, once
\* or many times.  Token(0) is refused before the lock.
MarkCall(p) ==
    /\ ~ready
    /\ \E token \in issued : arg' = [arg EXCEPT ![p] = token]
    /\ Enter(p, "mark_ready", "mark_lock")
    /\ UNCHANGED <<ready, next_id, tokens, lock, tx, rx, issued, marks, early>>

MarkLock(p) ==
    /\ pc[p] = "mark_lock"
    /\ lock = NoProc
    /\ IF arg[p] \in tokens
         THEN /\ lock' = p
              /\ tokens' = tokens \ {arg[p]}
              /\ marks' = marks + 1
              /\ Goto(p, "mark_store")
         ELSE /\ Return(p)
              /\ UNCHANGED <<lock, tokens, marks>>
    /\ UNCHANGED <<ready, next_id, tx, rx, arg, issued, early>>

MarkStore(p) ==
    /\ pc[p] = "mark_store"
    /\ SetReady
    /\ Goto(p, "mark_clear")
    /\ UNCHANGED <<next_id, tokens, lock, tx, rx, arg, issued, marks>>

\* Mutant: the remaining subscriptions survive the mark.
MarkClearKeepsTokens(p) ==
    /\ pc[p] = "mark_clear"
    /\ lock' = NoProc
    /\ Goto(p, "mark_send")
    /\ UNCHANGED <<ready, next_id, tokens, tx, rx, arg, issued, marks, early>>

\* Mutant: the marker returns without the broadcast.
MarkClearSilent(p) ==
    /\ pc[p] = "mark_clear"
    /\ tokens' = {}
    /\ lock' = NoProc
    /\ Return(p)
    /\ UNCHANGED <<ready, next_id, tx, rx, arg, issued, marks, early>>

MarkClear(p) ==
    /\ pc[p] = "mark_clear"
    /\ tokens' = {}
    /\ lock' = NoProc
    /\ Goto(p, "mark_send")
    /\ UNCHANGED <<ready, next_id, tx, rx, arg, issued, marks, early>>

MarkSend(p) ==
    /\ pc[p] = "mark_send"
    /\ Send
    /\ Return(p)
    /\ UNCHANGED <<ready, next_id, tokens, lock, rx, arg, issued, marks, early>>

\* with_tokens gives up after LOCK_TIMEOUT while another task holds the mutex:
\* TokenLockFailed.  Dropping the future there has the same effect.
LockTimeout(p) ==
    /\ pc[p] \in {"sub_lock", "mark_lock"}
    /\ lock # NoProc
    /\ Return(p)
    /\ UNCHANGED <<ready, next_id, tokens, lock, tx, rx, arg, issued, marks, early>>

-----------------------------------------------------------------------------
(* wait_ready, after its call of is_ready answered false *)

WaitSubscribe(p) ==
    /\ pc[p] = "wait_subscribe"
    /\ rx' = rx \cup {p}
    /\ Goto(p, "wait_borrow")
    /\ UNCHANGED <<ready, next_id, tokens, lock, tx, arg, issued, marks, early>>

WaitBorrow(p) ==
    /\ pc[p] = "wait_borrow"
    /\ IF tx THEN Return(p) /\ rx' = rx \ {p}
             ELSE Goto(p, "wait_changed") /\ UNCHANGED rx
    /\ UNCHANGED <<ready, next_id, tokens, lock, tx, arg, issued, marks, early>>

\* changed() resolves once a value was sent after the receiver was created.
\* Only `true` is ever sent, so that is when the channel holds true.
WaitChanged(p) ==
    /\ pc[p] = "wait_changed"
    /\ tx
    /\ rx' = rx \ {p}
    /\ Return(p)
    /\ UNCHANGED <<ready, next_id, tokens, lock, tx, arg, issued, marks, early>>

\* The caller drops the parked future.
WaitCancel(p) ==
    /\ pc[p] = "wait_changed"
    /\ rx' = rx \ {p}
    /\ Return(p)
    /\ UNCHANGED <<ready, next_id, tokens, lock, tx, arg, issued, marks, early>>

-----------------------------------------------------------------------------
\* What a task does by itself once it is inside an operation.
Run(p) ==
    \/ IsReadyTryLock(p) \/ IsReadyDrop(p) \/ IsReadySend(p) \/ IsReadyReload(p)
    \/ SubscribeLock(p) \/ SubscribeInsert(p)
    \/ MarkLock(p) \/ MarkStore(p) \/ MarkClear(p) \/ MarkSend(p)
    \/ WaitSubscribe(p) \/ WaitBorrow(p) \/ WaitChanged(p)

\* What callers and the clock decide.
Environment(p) ==
    \/ IsReadyCall(p) \/ SubscribeCall(p) \/ MarkCall(p)
    \/ LockTimeout(p) \/ WaitCancel(p)

Next == \E p \in Procs : Run(p) \/ Environment(p)

Spec == Init /\ [][Next]_vars

\* Tokio polls a runnable task eventually; nothing forces a caller to call.
FairSpec == Spec /\ \A p \in Procs : WF_vars(Run(p))

-----------------------------------------------------------------------------
(* Properties *)

\* mark_ready answers Ok(true) at most once, whichever tasks present whichever
\* tokens at the same time ("the flag was not already ready").
SingleMark == marks <= 1

\* Once a token was handed out, the flag becomes ready only through a token:
\* the no-subscriber shortcut of is_ready never overtakes a subscription, and
\* no token is handed out after the shortcut was taken.
NoBypass == ready /\ issued # {} => marks = 1

\* A ready flag keeps no subscription once the marker has released the mutex:
\* what load_ready tells lock-free readers agrees with the token set.
ReadyHasNoTokens == ready /\ lock = NoProc => tokens = {}

\* The broadcast cannot miss a receiver that existed when the flag flipped: as
\* long as such a task is parked without the value, some task still has to send.
NoLostBroadcast ==
    ready /\ ~tx /\ early \cap rx # {} =>
        \E q \in Procs : pc[q] \in {"is_drop", "is_send", "mark_clear", "mark_send"}

\* So a task whose receiver existed when the flag flipped leaves wait_ready.
ParkedWaiterWakes ==
    \A p \in Procs : (p \in early) ~> (call[p] # "wait_ready")

\* "Asynchronously wait until the flag becomes ready" (doc of wait_ready): a
\* task inside wait_ready of a flag that is ready returns.
WaitReturns ==
    \A p \in Procs : (ready /\ call[p] = "wait_ready") ~> (call[p] # "wait_ready")
=============================================================================
