------------------------ MODULE AgentRegistryProofs ------------------------
(***************************************************************************)
(* The agent registry, for any number of callers, agents and paths and any *)
(* limit: slots are never given back twice, the limit holds for the agents *)
(* registered, a reserved path stays with its reservation, the names drawn *)
(* are distinct, and with paths for all agents the counter is exact.       *)
(***************************************************************************)
EXTENDS AgentRegistry, FiniteSetTheorems, TLAPS

\* The calls in progress, as TypeOK types them.
OpTypes == [pc : Steps, resume : BOOLEAN, thread : Threads \cup {RootThread},
            path : Paths \cup {NoPath}, nick : Nicknames \cup {NoNick}, seen : Nat]

\* What a caller knows between its steps: the count it is about to swap is
\* below the limit, and a thread that is resumed or committed is a sub-agent.
Ops == {o \in OpTypes :
            /\ o.pc = "cas" => o.seen < MaxThreads
            /\ o.resume => o.thread \in Threads
            /\ o.pc = "commit" => o.thread \in Threads}

\* The types, the counter apart: that it never falls below zero follows from
\* SlotsCovered.
Shape ==
    /\ tree \in [Keys -> Threads \cup {RootThread, Vacant, Reserved}]
    /\ loaded \subseteq Threads \cup {RootThread}
    /\ path \in [Threads -> Paths \cup {NoPath, Unborn}]
    /\ nick \in [Threads -> Nicknames \cup {NoNick}]
    /\ called \in [Keys -> Nicknames \cup {NoNick}]
    /\ used \subseteq Nicknames
    /\ resets \in 0 .. MaxResets
    /\ op \in [Procs -> Ops]

\* The root's key holds the root or nothing, no other key holds the root; a
\* key made from a thread id never holds a placeholder.
TreeInv ==
    /\ tree[Root] \in {RootThread, Vacant}
    /\ \A k \in Keys \ {Root} : tree[k] # RootThread
    /\ \A t \in Threads : tree[t] # Reserved

LimitInv == ~Unlimited => total <= MaxThreads

Inv == /\ Shape
       /\ total \in Nat
       /\ TreeInv
       /\ LimitInv
       /\ SlotsCovered
       /\ PathHeld

\* The counted sets are finite, so their cardinalities are numbers.
LEMMA CountsFinite ==
    /\ IsFiniteSet(Owners) /\ Cardinality(Owners) \in Nat
    /\ IsFiniteSet(Agents) /\ Cardinality(Agents) \in Nat
  <1>1. Owners \subseteq Procs
    BY DEF Owners
  <1>2. Agents \subseteq Paths \cup Threads
    BY DEF Agents, Keys
  <1>3. IsFiniteSet(Paths \cup Threads)
    BY FiniteAssumption, FS_Union
  <1> QED
    BY <1>1, <1>2, <1>3, FiniteAssumption, FS_Subset, FS_CardinalityType

\* A new registry satisfies the invariant.
LEMMA InitInv == Init => Inv
  <1> SUFFICES ASSUME Init PROVE Inv
    OBVIOUS
  <1> USE DEF Init
  <1>1. Shape /\ total \in Nat
    <2>1. /\ path \in [Threads -> Paths \cup {NoPath, Unborn}]
          /\ nick \in [Threads -> Nicknames \cup {NoNick}]
      BY DistinctAssumption, NamesAssumption
    <2> QED
      BY <2>1, LimitsAssumption DEF Shape, NoOp, Steps, Ops, OpTypes
  <1>2. TreeInv /\ LimitInv /\ PathHeld
    BY DistinctAssumption, LimitsAssumption DEF TreeInv, LimitInv, PathHeld, NoOp, Keys
  <1>3. SlotsCovered
    <2>1. Owners = {} /\ Agents = {}
      BY DistinctAssumption DEF Owners, Agents, NoOp, Keys
    <2> QED
      BY <2>1, FS_EmptySet DEF SlotsCovered
  <1> QED
    BY <1>1, <1>2, <1>3 DEF Inv

\* A candidate with an ordinal behind it is a nickname too.
LEMMA FormatName ==
    ASSUME NEW names \in Pools, NEW n \in names, NEW r \in Nat
    PROVE  n \in Nicknames /\ Format(n, r) \in Nicknames
  <1>1. n \in Nicknames
    BY NamesAssumption
  <1>2. n[1] \in Bases /\ n[2] \in Seq(Nat)
    BY <1>1 DEF Nicknames
  <1>3. Append(n[2], r + 1) \in Seq(Nat)
    BY <1>2
  <1> QED
    BY <1>1, <1>2, <1>3 DEF Nicknames, Format

\* Every step keeps the shape of the state and leaves the other callers alone.
LEMMA NextShape ==
    ASSUME Inv, [Next]_vars PROVE Shape'
  <1> USE DEF Inv, Shape, Goto, Return
  <1>n. NoOp \in Ops
    BY DEF NoOp, Ops, OpTypes, Steps
  <1>0. CASE UNCHANGED vars
    BY <1>0 DEF vars
  <1>u. CASE \E t \in Threads : Unload(t)
    BY <1>u DEF Unload
  <1> SUFFICES ASSUME NEW p \in Procs,
                      ReserveSlot(p) \/ Prepare(p) \/ Settle(p) \/ CloseCall(p) \/ Release(p)
               PROVE  Shape'
    BY <1>0, <1>u DEF Next
  <1>c. \A o \in Ops : [op EXCEPT ![p] = o] \in [Procs -> Ops]
    OBVIOUS
  <1>o. op[p] \in Ops
    OBVIOUS
  <1>g. \A step \in Steps \ {"cas", "commit"} : [op[p] EXCEPT !.pc = step] \in Ops
    BY <1>o DEF Ops, OpTypes
  <1>1. CASE SpawnCall(p) \/ SpawnUnlimited(p)
    <2>1. PICK step \in {"load", "root"}, k \in SpawnPaths :
              op' = [op EXCEPT ![p] = [NoOp EXCEPT !.pc = step, !.path = k]]
      BY <1>1 DEF SpawnCall, SpawnUnlimited
    <2>2. [NoOp EXCEPT !.pc = step, !.path = k] \in Ops
      BY <1>n, DistinctAssumption DEF Ops, OpTypes, Steps
    <2> QED
      BY <1>1, <2>1, <2>2, <1>c DEF SpawnCall, SpawnUnlimited
  <1>2. CASE ResumeCall(p)
    <2>1. PICK t \in Threads :
              /\ path[t] # Unborn
              /\ op' = [op EXCEPT ![p] = [NoOp EXCEPT !.pc = "load", !.resume = TRUE, !.thread = t,
                                                      !.path = path[t], !.nick = nick[t]]]
      BY <1>2 DEF ResumeCall
    <2>2. [NoOp EXCEPT !.pc = "load", !.resume = TRUE, !.thread = t,
                       !.path = path[t], !.nick = nick[t]] \in Ops
      BY <1>n, <2>1 DEF Ops, OpTypes, Steps
    <2> QED
      BY <1>2, <2>1, <2>2, <1>c DEF ResumeCall
  <1>3. CASE ReserveLoad(p) \/ ReserveCas(p)
    <2>1. CASE op' = [op EXCEPT ![p].pc = "root"]
      <3>1. [op[p] EXCEPT !.pc = "root"] \in Ops
        BY <1>g DEF Steps
      <3> QED
        BY <1>3, <2>1, <3>1, <1>c DEF ReserveLoad, ReserveCas
    <2>2. CASE Attempt(p)
      <3>1. total < MaxThreads => [op[p] EXCEPT !.pc = "cas", !.seen = total] \in Ops
        BY <1>o DEF Ops, OpTypes, Steps
      <3>2. total >= MaxThreads \/ total < MaxThreads
        BY LimitsAssumption
      <3>3. \E o \in Ops : op' = [op EXCEPT ![p] = o]
        BY <2>2, <3>1, <3>2, <1>n DEF Attempt
      <3> QED
        BY <1>3, <3>3, <1>c DEF ReserveLoad, ReserveCas
    <2> QED
      BY <1>3, <2>1, <2>2 DEF ReserveLoad, ReserveCas
  <1>4. CASE RegisterRoot(p)
    <2>1. [op[p] EXCEPT !.pc = "path"] \in Ops
      BY <1>g DEF Steps
    <2> QED
      BY <1>4, <2>1, <1>c DEF RegisterRoot
  <1>5. CASE ReservePath(p)
    <2>1. [op[p] EXCEPT !.pc = "nick"] \in Ops /\ [op[p] EXCEPT !.pc = "dec"] \in Ops
      BY <1>g DEF Steps
    <2> QED
      BY <1>5, <2>1, <1>c DEF ReservePath
  <1>6. CASE ReserveNickname(p)
    <2>1. \A names \in Pools : \A n \in names :
              Format(n, resets) \in Nicknames /\ Format(n, resets + 1) \in Nicknames
      <3>1. resets \in Nat /\ resets + 1 \in Nat
        BY LimitsAssumption
      <3> QED
        BY <3>1, FormatName
    <2>2. \A x \in Nicknames : [op[p] EXCEPT !.pc = "create", !.nick = x] \in Ops
      BY <1>o DEF Ops, OpTypes, Steps
    <2>3. op[p].nick \in Nicknames \cup {NoNick}
      BY <1>o DEF Ops, OpTypes
    <2>4. CASE /\ op[p].nick # NoNick /\ used' = used \cup {op[p].nick}
               /\ Goto(p, "create") /\ UNCHANGED resets
      <3>1. [op[p] EXCEPT !.pc = "create"] \in Ops
        BY <1>g DEF Steps
      <3> QED
        BY <1>6, <2>3, <2>4, <3>1, <1>c DEF ReserveNickname
    <2>5. CASE UNCHANGED resets /\ \E names \in Pools : \E n \in Available(names) :
                  /\ used' = used \cup {Format(n, resets)}
                  /\ TakeNickname(p, Format(n, resets))
      <3>1. PICK x \in Nicknames :
                /\ used' = used \cup {x}
                /\ op' = [op EXCEPT ![p] = [op[p] EXCEPT !.pc = "create", !.nick = x]]
        BY <2>5, <2>1 DEF Available, TakeNickname
      <3>2. op' \in [Procs -> Ops]
        BY <3>1, <2>2, <1>c
      <3> QED
        BY <1>6, <2>5, <3>1, <3>2 DEF ReserveNickname
    <2>6. CASE \E names \in Pools : \E n \in names : DrawNickname(p, n)
      <3>1. PICK x \in Nicknames :
                /\ used' = {x}
                /\ op' = [op EXCEPT ![p] = [op[p] EXCEPT !.pc = "create", !.nick = x]]
        BY <2>6, <2>1 DEF DrawNickname, TakeNickname
      <3>2. op' \in [Procs -> Ops]
        BY <3>1, <2>2, <1>c
      <3>3. resets' \in 0 .. MaxResets
        BY <2>6, LimitsAssumption DEF DrawNickname
      <3> QED
        BY <1>6, <3>1, <3>2, <3>3 DEF ReserveNickname
    <2> QED
      BY <1>6, <2>4, <2>5, <2>6 DEF ReserveNickname
  <1>7. CASE CreateFails(p) \/ CreateResumed(p)
    <2>1. op[p].thread \in Threads \cup {RootThread} /\ [op[p] EXCEPT !.pc = "drop"] \in Ops
      BY <1>o, <1>g DEF Ops, OpTypes, Steps
    <2>2. op[p].resume => [op[p] EXCEPT !.pc = "commit"] \in Ops
      BY <1>o DEF Ops, OpTypes, Steps
    <2> QED
      BY <1>7, <2>1, <2>2, <1>c DEF CreateFails, CreateResumed
  <1>8. CASE CreateSpawned(p)
    <2>1. PICK t \in Threads :
              /\ path' = [path EXCEPT ![t] = op[p].path]
              /\ nick' = [nick EXCEPT ![t] = op[p].nick]
              /\ loaded' = loaded \cup {t}
              /\ op' = [op EXCEPT ![p] = [@ EXCEPT !.pc = "commit", !.thread = t]]
      BY <1>8 DEF CreateSpawned
    <2>2. [op[p] EXCEPT !.pc = "commit", !.thread = t] \in Ops
      BY <1>o DEF Ops, OpTypes, Steps
    <2>3. op[p].path \in Paths \cup {NoPath} /\ op[p].nick \in Nicknames \cup {NoNick}
      BY <1>o DEF Ops, OpTypes
    <2> QED
      BY <1>8, <2>1, <2>2, <2>3, <1>c DEF CreateSpawned
  <1>9. CASE Commit(p)
    <2>1. op[p].thread \in Threads \cup {RootThread}
      BY <1>o DEF Ops, OpTypes
    <2>2. op[p].nick \in Nicknames \cup {NoNick}
      BY <1>o DEF Ops, OpTypes
    <2>3. used \cup ({op[p].nick} \ {NoNick}) \subseteq Nicknames
      BY <2>2, <1>c
    <2>4. tree' \in [Keys -> Threads \cup {RootThread, Vacant, Reserved}]
      BY <1>9, <2>1 DEF Commit
    <2>5. called' \in [Keys -> Nicknames \cup {NoNick}]
      BY <1>9, <2>2 DEF Commit
    <2> QED
      BY <1>9, <2>3, <2>4, <2>5, <1>n, <1>c DEF Commit
  <1>10. CASE DropPath(p)
    <2>1. [op[p] EXCEPT !.pc = "dec"] \in Ops
      BY <1>g DEF Steps
    <2> QED
      BY <1>10, <2>1, <1>c DEF DropPath
  <1>11. CASE Decrement(p)
    BY <1>11, <1>n, <1>c DEF Decrement
  <1>12. CASE CloseCall(p)
    <2>1. PICK t \in Threads \cup {RootThread} :
              op' = [op EXCEPT ![p] = [NoOp EXCEPT !.pc = "release", !.thread = t]]
      BY <1>12 DEF CloseCall
    <2>2. [NoOp EXCEPT !.pc = "release", !.thread = t] \in Ops
      BY <1>n DEF Ops, OpTypes, Steps, NoOp
    <2> QED
      BY <1>12, <2>1, <2>2, <1>c DEF CloseCall
  <1>13. CASE Release(p)
    <2>1. [op[p] EXCEPT !.pc = "dec"] \in Ops
      BY <1>g DEF Steps
    <2>2. called' \in [Keys -> Nicknames \cup {NoNick}]
      BY <1>13 DEF Release
    <2> QED
      BY <1>13, <2>1, <2>2, <1>n, <1>c DEF Release
  <1> QED
    BY <1>1, <1>2, <1>3, <1>4, <1>5, <1>6, <1>7, <1>8, <1>9, <1>10, <1>11, <1>12, <1>13
    DEF ReserveSlot, Prepare, Settle

\* Every step keeps the root's key apart from the others.
LEMMA NextTree ==
    ASSUME Inv, [Next]_vars PROVE TreeInv'
  <1> USE DEF Inv, Shape, TreeInv
  <1>0. CASE UNCHANGED tree
    BY <1>0
  <1> SUFFICES ASSUME NEW p \in Procs,
                      \/ RegisterRoot(p) \/ ReservePath(p) \/ Commit(p)
                      \/ DropPath(p) \/ Release(p)
               PROVE  TreeInv'
    <2>1. CASE UNCHANGED vars
      BY <2>1, <1>0 DEF vars
    <2>2. CASE \E t \in Threads : Unload(t)
      BY <2>2, <1>0 DEF Unload
    <2>3. ASSUME NEW p \in Procs, ReserveSlot(p) \/ CloseCall(p) PROVE UNCHANGED tree
      BY <2>3 DEF ReserveSlot, CloseCall, SpawnCall, SpawnUnlimited, ResumeCall, ReserveLoad, ReserveCas
    <2>4. ASSUME NEW p \in Procs,
                 \/ ReserveNickname(p) \/ CreateFails(p) \/ CreateSpawned(p)
                 \/ CreateResumed(p) \/ Decrement(p)
          PROVE  UNCHANGED tree
      BY <2>4 DEF ReserveNickname, CreateFails, CreateSpawned, CreateResumed, Decrement
    <2> QED
      BY <1>0, <2>1, <2>2, <2>3, <2>4 DEF Next, Prepare, Settle
  <1>o. op[p] \in Ops /\ op[p].path \in Paths \cup {NoPath}
        /\ op[p].thread \in Threads \cup {RootThread}
    BY DEF Ops, OpTypes
  <1>1. CASE RegisterRoot(p)
    BY <1>1, <1>0, DistinctAssumption DEF RegisterRoot, Keys
  <1>2. CASE ReservePath(p)
    BY <1>2, <1>o, <1>0, DistinctAssumption DEF ReservePath, Keys
  <1>3. CASE Commit(p)
    <2>1. op[p].thread \in Threads
      BY <1>3, <1>o DEF Commit, Ops
    <2>2. KeyOf(p) \in Keys \ {Root}
      BY <2>1, <1>o, DistinctAssumption DEF KeyOf, Keys
    <2> QED
      BY <1>3, <2>1, <2>2, DistinctAssumption DEF Commit, Keys
  <1>4. CASE DropPath(p)
    BY <1>4, <1>o, <1>0, DistinctAssumption DEF DropPath, Keys
  <1>5. CASE Release(p)
    BY <1>5, <1>0, DistinctAssumption DEF Release, Keys
  <1> QED
    BY <1>1, <1>2, <1>3, <1>4, <1>5

\* The steps at which a caller owns a slot.
SlotSteps == {"root", "path", "nick", "create", "commit", "drop", "dec"}

\* The fields of a call.
LEMMA OpFields ==
    ASSUME op \in [Procs -> Ops], NEW p \in Procs
    PROVE  /\ op[p] \in Ops /\ op[p].path \in Paths \cup {NoPath}
           /\ op[p].thread \in Threads \cup {RootThread}
           /\ \A step : LET r == [op[p] EXCEPT !.pc = step] IN
                 r.pc = step /\ r.path = op[p].path
  <1>1. op[p] \in OpTypes
    BY DEF Ops
  <1> QED
    BY <1>1 DEF OpTypes

\* What Goto changes of a call.
LEMMA GotoMoves ==
    ASSUME op \in [Procs -> Ops], NEW p \in Procs, NEW step, Goto(p, step)
    PROVE  op'[p].pc = step /\ op'[p].path = op[p].path
  <1>1. op[p] \in OpTypes
    BY DEF Ops
  <1> QED
    BY <1>1 DEF OpTypes, Goto

\* How calls begin.
LEMMA CallMoves ==
    ASSUME op \in [Procs -> Ops], NEW p \in Procs
    PROVE  /\ SpawnCall(p) => op'[p].pc = "load" /\ op'[p].nick = NoNick
           /\ SpawnUnlimited(p) => op'[p].pc = "root" /\ op'[p].nick = NoNick
           /\ ResumeCall(p) => op'[p].pc = "load"
           /\ CloseCall(p) => op'[p].pc = "release" /\ op'[p].nick = NoNick
  <1>1. ASSUME SpawnCall(p) PROVE op'[p].pc = "load" /\ op'[p].nick = NoNick
    BY <1>1 DEF SpawnCall, NoOp
  <1>2. ASSUME SpawnUnlimited(p) PROVE op'[p].pc = "root" /\ op'[p].nick = NoNick
    BY <1>2 DEF SpawnUnlimited, NoOp
  <1>3. ASSUME ResumeCall(p) PROVE op'[p].pc = "load"
    BY <1>3 DEF ResumeCall, NoOp
  <1>4. ASSUME CloseCall(p) PROVE op'[p].pc = "release" /\ op'[p].nick = NoNick
    BY <1>4 DEF CloseCall, NoOp
  <1> QED
    BY <1>1, <1>2, <1>3, <1>4

\* Drawing a nickname and creating the thread keep the path of the call.
LEMMA PrepareMoves ==
    ASSUME op \in [Procs -> Ops], NEW p \in Procs,
           ReserveNickname(p) \/ CreateFails(p) \/ CreateSpawned(p) \/ CreateResumed(p)
    PROVE  op'[p].pc \in {"create", "drop", "commit"} /\ op'[p].path = op[p].path
  <1>1. op[p] \in OpTypes
    BY DEF Ops
  <1>2. ASSUME NEW x, op' = [op EXCEPT ![p] = [@ EXCEPT !.pc = "create", !.nick = x]]
        PROVE  op'[p].pc = "create" /\ op'[p].path = op[p].path
    BY <1>1, <1>2 DEF OpTypes
  <1>3. ASSUME NEW x, op' = [op EXCEPT ![p] = [@ EXCEPT !.pc = "commit", !.thread = x]]
        PROVE  op'[p].pc = "commit" /\ op'[p].path = op[p].path
    BY <1>1, <1>3 DEF OpTypes
  <1>4. CASE \E step \in {"create", "drop", "commit"} : Goto(p, step)
    BY <1>4, GotoMoves
  <1>5. CASE ReserveNickname(p)
    BY <1>5, <1>2, <1>4 DEF ReserveNickname, DrawNickname, TakeNickname
  <1>6. CASE CreateFails(p)
    BY <1>6, <1>4 DEF CreateFails
  <1>7. CASE CreateSpawned(p)
    BY <1>7, <1>3 DEF CreateSpawned
  <1>8. CASE CreateResumed(p)
    BY <1>8, <1>4 DEF CreateResumed
  <1> QED
    BY <1>5, <1>6, <1>7, <1>8

\* Only one caller moves in a step.
LEMMA OthersWait ==
    ASSUME NEW p \in Procs, op \in [Procs -> Ops],
           ReserveSlot(p) \/ Prepare(p) \/ Settle(p) \/ CloseCall(p) \/ Release(p)
    PROVE  \A q \in Procs \ {p} : op'[q] = op[q]
  <1> USE DEF Goto, Return
  <1>1. CASE ReserveSlot(p) \/ CloseCall(p)
    BY <1>1 DEF ReserveSlot, SpawnCall, SpawnUnlimited, ResumeCall, ReserveLoad, ReserveCas,
                Attempt, CloseCall
  <1>2. CASE Prepare(p)
    BY <1>2 DEF Prepare, RegisterRoot, ReservePath, ReserveNickname, DrawNickname,
                TakeNickname
  <1>3. CASE Settle(p) \/ Release(p)
    BY <1>3 DEF Settle, CreateFails, CreateSpawned, CreateResumed, Commit, DropPath, Decrement,
                Release
  <1> QED
    BY <1>1, <1>2, <1>3

\* How the callers that own a slot change when one caller moves.
LEMMA OwnersMove ==
    ASSUME NEW p \in Procs, op \in [Procs -> Ops], \A q \in Procs \ {p} : op'[q] = op[q]
    PROVE  /\ (op[p].pc \in SlotSteps <=> op'[p].pc \in SlotSteps) => Owners' = Owners
           /\ op[p].pc \in SlotSteps /\ op'[p].pc \notin SlotSteps =>
                  p \in Owners /\ Owners' = Owners \ {p}
           /\ op[p].pc \notin SlotSteps /\ op'[p].pc \in SlotSteps =>
                  p \notin Owners /\ Owners' = Owners \cup {p}
  BY DEF Owners, SlotSteps

\* A slot is taken: the counter goes up with it.
LEMMA CoverTake ==
    ASSUME SlotsCovered, total \in Nat, NEW p,
           Owners' = Owners \cup {p}, Agents' = Agents, total' = total + 1
    PROVE  total' \in Nat /\ SlotsCovered'
  <1>1. Cardinality(Owners \cup {p}) = IF p \in Owners THEN Cardinality(Owners)
                                                     ELSE Cardinality(Owners) + 1
    BY CountsFinite, FS_AddElement
  <1> QED
    BY <1>1, CountsFinite DEF SlotsCovered

\* A slot is given back: the counter was above zero.
LEMMA CoverGive ==
    ASSUME SlotsCovered, total \in Nat, NEW p \in Owners,
           Owners' = Owners \ {p}, Agents' = Agents, total' = total - 1
    PROVE  total' \in Nat /\ SlotsCovered'
  <1>1. /\ IsFiniteSet(Owners \ {p})
        /\ Cardinality(Owners \ {p}) = Cardinality(Owners) - 1
    BY CountsFinite, FS_RemoveElement
  <1>2. Cardinality(Owners \ {p}) \in Nat
    BY <1>1, FS_CardinalityType
  <1> QED
    BY <1>1, <1>2, CountsFinite DEF SlotsCovered

\* A commit hands the slot of the reservation to the agent it registers.
LEMMA CoverCommit ==
    ASSUME SlotsCovered, total \in Nat, NEW p \in Owners, NEW k,
           Owners' = Owners \ {p}, Agents' = Agents \cup {k}, total' = total
    PROVE  SlotsCovered'
  <1>1. Cardinality(Owners \ {p}) = Cardinality(Owners) - 1
    BY CountsFinite, FS_RemoveElement
  <1>2. Cardinality(Agents \cup {k}) = IF k \in Agents THEN Cardinality(Agents)
                                                     ELSE Cardinality(Agents) + 1
    BY CountsFinite, FS_AddElement
  <1> QED
    BY <1>1, <1>2, CountsFinite DEF SlotsCovered

\* A release hands the slot of the agent to the caller that will decrement.
LEMMA CoverRelease ==
    ASSUME SlotsCovered, total \in Nat, NEW p, NEW k \in Agents,
           Owners' = Owners \cup {p}, Agents' = Agents \ {k}, total' = total
    PROVE  SlotsCovered'
  <1>1. Cardinality(Owners \cup {p}) = IF p \in Owners THEN Cardinality(Owners)
                                                     ELSE Cardinality(Owners) + 1
    BY CountsFinite, FS_AddElement
  <1>2. Cardinality(Agents \ {k}) = Cardinality(Agents) - 1
    BY CountsFinite, FS_RemoveElement
  <1> QED
    BY <1>1, <1>2, CountsFinite DEF SlotsCovered

\* What a step may do to the slots: nothing, take one below the limit, give one
\* back, hand one to the agent that is registered, or from one that is released.
Kept == UNCHANGED total /\ Owners' = Owners /\ Agents' = Agents
Taken ==
    \E p \in Procs \ Owners :
        /\ Owners' = Owners \cup {p} /\ Agents' = Agents /\ total' = total + 1
        /\ Unlimited \/ total < MaxThreads
Given ==
    \E p \in Owners :
        Owners' = Owners \ {p} /\ Agents' = Agents /\ total' = total - 1
Registered ==
    \E p \in Owners :
        /\ op[p].pc = "commit" /\ UNCHANGED total
        /\ Owners' = Owners \ {p} /\ Agents' = Agents \cup {KeyOf(p)}
Released ==
    \E p \in Procs \ Owners, k \in Agents :
        Owners' = Owners \cup {p} /\ Agents' = Agents \ {k} /\ UNCHANGED total

LEMMA SlotStep ==
    ASSUME Inv, [Next]_vars
    PROVE  Kept \/ Taken \/ Given \/ Registered \/ Released
  <1> USE DEF Inv, Shape
  <1>1. ASSUME UNCHANGED <<tree, total, op>> PROVE Kept
    BY <1>1 DEF Kept, Owners, Agents
  <1>2. CASE UNCHANGED vars
    BY <1>1, <1>2 DEF vars
  <1>3. CASE \E t \in Threads : Unload(t)
    BY <1>1, <1>3 DEF Unload
  <1> SUFFICES ASSUME NEW p \in Procs,
                      ReserveSlot(p) \/ Prepare(p) \/ Settle(p) \/ CloseCall(p) \/ Release(p)
               PROVE  Kept \/ Taken \/ Given \/ Registered \/ Released
    BY <1>2, <1>3 DEF Next
  <1>o. op[p] \in Ops /\ op[p].path \in Paths \cup {NoPath}
        /\ op[p].thread \in Threads \cup {RootThread}
        /\ \A step : [op[p] EXCEPT !.pc = step].pc = step
    BY OpFields
  <1>q. \A q \in Procs \ {p} : op'[q] = op[q]
    BY OthersWait
  \* A step that moves neither the counter nor the agents, and keeps the slot
  \* with its owner, keeps everything.
  <1>k. ASSUME UNCHANGED total, Agents' = Agents, op[p].pc \in SlotSteps <=> op'[p].pc \in SlotSteps
        PROVE  Kept
    BY <1>k, <1>q, OwnersMove DEF Kept
  <1>4. CASE SpawnCall(p) \/ ResumeCall(p) \/ CloseCall(p)
    <2>1. op'[p].pc \in {"load", "release"}
      BY <1>4, CallMoves
    <2>2. op[p].pc = "idle" /\ UNCHANGED <<total, tree>>
      BY <1>4 DEF SpawnCall, ResumeCall, CloseCall
    <2> QED
      BY <2>1, <2>2, <1>k DEF Agents, SlotSteps
  <1>5. CASE SpawnUnlimited(p)
    <2>1. op[p].pc = "idle" /\ op'[p].pc = "root"
      BY <1>5 DEF SpawnUnlimited, NoOp
    <2>2. /\ p \notin Owners /\ Owners' = Owners \cup {p}
          /\ Agents' = Agents /\ total' = total + 1 /\ Unlimited
      BY <1>5, <2>1, <1>q, OwnersMove DEF SpawnUnlimited, Agents, SlotSteps
    <2> QED
      BY <2>2 DEF Taken
  <1>6. CASE ReserveLoad(p) \/ ReserveCas(p)
    <2>1. CASE Attempt(p) /\ UNCHANGED <<tree, total>> /\ op[p].pc \in {"load", "cas"}
      <3>1. op'[p].pc \in {"idle", "cas"}
        BY <2>1, <1>o DEF Attempt, NoOp, Ops, OpTypes
      <3> QED
        BY <2>1, <3>1, <1>k DEF Agents, SlotSteps
    <2>2. CASE /\ op[p].pc = "cas" /\ total = op[p].seen /\ total' = total + 1
               /\ op' = [op EXCEPT ![p].pc = "root"] /\ UNCHANGED tree
      <3>1. op'[p].pc = "root"
        BY <2>2, <1>o
      <3>2. p \notin Owners /\ Owners' = Owners \cup {p} /\ Agents' = Agents
        BY <2>2, <3>1, <1>q, OwnersMove DEF Agents, SlotSteps
      <3>3. total < MaxThreads
        BY <2>2, <1>o DEF Ops
      <3> QED
        BY <2>2, <3>2, <3>3 DEF Taken
    <2> QED
      BY <1>6, <2>1, <2>2 DEF ReserveLoad, ReserveCas, Goto
  <1>7. CASE RegisterRoot(p)
    <2>1. Agents' = Agents
      BY <1>7, DistinctAssumption DEF RegisterRoot, Agents, Keys
    <2>2. op[p].pc = "root" /\ op'[p].pc = "path" /\ UNCHANGED total
      BY <1>7, <1>o DEF RegisterRoot, Goto
    <2> QED
      BY <2>1, <2>2, <1>k DEF SlotSteps
  <1>8. CASE ReservePath(p)
    <2>1. Agents' = Agents
      BY <1>8, <1>o, DistinctAssumption DEF ReservePath, Agents, Keys
    <2>2. op[p].pc = "path" /\ op'[p].pc \in {"nick", "dec"} /\ UNCHANGED total
      BY <1>8, <1>o DEF ReservePath, Goto
    <2> QED
      BY <2>1, <2>2, <1>k DEF SlotSteps
  <1>9. CASE ReserveNickname(p) \/ CreateFails(p) \/ CreateSpawned(p) \/ CreateResumed(p)
    <2>1. op[p].pc \in {"nick", "create"} /\ UNCHANGED <<tree, total>>
      BY <1>9 DEF ReserveNickname, CreateFails, CreateSpawned, CreateResumed
    <2>2. op'[p].pc \in {"create", "drop", "commit"}
      BY <1>9, PrepareMoves
    <2> QED
      BY <2>1, <2>2, <1>k DEF Agents, SlotSteps
  <1>10. CASE Commit(p)
    <2>1. op[p].thread \in Threads
      BY <1>10, <1>o DEF Commit, Ops
    <2>2. KeyOf(p) \in Keys \ {Root}
      BY <2>1, <1>o, DistinctAssumption DEF KeyOf, Keys
    <2>3. Agents' = Agents \cup {KeyOf(p)}
      BY <1>10, <2>1, <2>2 DEF Commit, Agents, Keys
    <2>4. op[p].pc = "commit" /\ op'[p].pc = "idle" /\ total' = total
      BY <1>10 DEF Commit, Return, NoOp
    <2>5. p \in Owners /\ Owners' = Owners \ {p}
      BY <2>4, <1>q, OwnersMove DEF SlotSteps
    <2> QED
      BY <2>3, <2>4, <2>5 DEF Registered
  <1>11. CASE DropPath(p)
    <2>1. Agents' = Agents
      BY <1>11, <1>o, DistinctAssumption DEF DropPath, Agents, Keys
    <2>2. op[p].pc = "drop" /\ op'[p].pc = "dec" /\ UNCHANGED total
      BY <1>11, <1>o DEF DropPath, Goto
    <2> QED
      BY <2>1, <2>2, <1>k DEF SlotSteps
  <1>12. CASE Decrement(p)
    <2>1. op[p].pc = "dec" /\ op'[p].pc = "idle" /\ total' = total - 1 /\ Agents' = Agents
      BY <1>12 DEF Decrement, Return, NoOp, Agents
    <2>2. p \in Owners /\ Owners' = Owners \ {p}
      BY <2>1, <1>q, OwnersMove DEF SlotSteps
    <2> QED
      BY <2>1, <2>2 DEF Given
  <1>13. CASE Release(p)
    <2>1. CASE \E k \in Keys \ {Root} : tree[k] = op[p].thread /\ tree' = [tree EXCEPT ![k] = Vacant]
                                         /\ Goto(p, "dec")
      <3>1. PICK k \in Keys \ {Root} : /\ tree[k] = op[p].thread
                                        /\ tree' = [tree EXCEPT ![k] = Vacant] /\ Goto(p, "dec")
        BY <2>1
      <3>2. k \in Agents
        BY <3>1, <1>o DEF TreeInv, Agents
      <3>3. Agents' = Agents \ {k}
        BY <3>1, DistinctAssumption DEF Agents, Keys
      <3>4. op[p].pc = "release" /\ op'[p].pc = "dec" /\ total' = total
        BY <1>13, <3>1, <1>o DEF Release, Goto
      <3>5. p \notin Owners /\ Owners' = Owners \cup {p}
        BY <3>4, <1>q, OwnersMove DEF SlotSteps
      <3> QED
        BY <3>2, <3>3, <3>4, <3>5 DEF Released
    <2>2. CASE /\ tree' = [tree EXCEPT ![Root] = Vacant] \/ UNCHANGED tree
               /\ Return(p)
      <3>1. Agents' = Agents
        BY <2>2, DistinctAssumption DEF Agents, Keys
      <3>2. op[p].pc = "release" /\ op'[p].pc = "idle" /\ UNCHANGED total
        BY <1>13, <2>2 DEF Release, Return, NoOp
      <3> QED
        BY <3>1, <3>2, <1>k DEF SlotSteps
    <2> QED
      BY <1>13, <2>1, <2>2 DEF Release
  <1> QED
    BY <1>4, <1>5, <1>6, <1>7, <1>8, <1>9, <1>10, <1>11, <1>12, <1>13
    DEF ReserveSlot, Prepare, Settle

\* So every step keeps the counter above what is in use, and at or below the
\* limit when every reservation is limited.
LEMMA NextSlots ==
    ASSUME Inv, [Next]_vars PROVE total' \in Nat /\ LimitInv' /\ SlotsCovered'
  <1> USE DEF Inv
  <1>1. CASE Kept
    BY <1>1 DEF Kept, LimitInv, SlotsCovered
  <1>2. CASE Taken
    <2>1. total' \in Nat /\ SlotsCovered'
      BY <1>2, CoverTake DEF Taken
    <2> QED
      BY <1>2, <2>1, LimitsAssumption DEF Taken, LimitInv
  <1>3. CASE Given
    <2>1. total' \in Nat /\ SlotsCovered'
      BY <1>3, CoverGive DEF Given
    <2> QED
      BY <1>3, <2>1, LimitsAssumption DEF Given, LimitInv
  <1>4. CASE Registered
    <2>1. SlotsCovered'
      BY <1>4, CoverCommit DEF Registered
    <2> QED
      BY <1>4, <2>1 DEF Registered, LimitInv
  <1>5. CASE Released
    <2>1. SlotsCovered'
      BY <1>5, CoverRelease DEF Released
    <2> QED
      BY <1>5, <2>1 DEF Released, LimitInv
  <1> QED
    BY <1>1, <1>2, <1>3, <1>4, <1>5, SlotStep

\* Every step leaves a reserved path with its reservation.
LEMMA NextPath ==
    ASSUME Inv, [Next]_vars PROVE PathHeld'
  <1> USE DEF Inv, Shape
  <1> DEFINE Holds(r) == r.pc \in {"nick", "create", "commit", "drop"} /\ r.path # NoPath
  <1>t. \A q \in Procs : op[q] \in Ops /\ op[q].path \in Paths \cup {NoPath}
                         /\ \A step : /\ [op[q] EXCEPT !.pc = step].pc = step
                                      /\ [op[q] EXCEPT !.pc = step].path = op[q].path
    BY OpFields
  <1>1. CASE UNCHANGED <<tree, op>>
    BY <1>1 DEF PathHeld
  <1>2. CASE UNCHANGED vars \/ \E t \in Threads : Unload(t)
    BY <1>1, <1>2 DEF vars, Unload
  <1> SUFFICES ASSUME NEW p \in Procs,
                      ReserveSlot(p) \/ Prepare(p) \/ Settle(p) \/ CloseCall(p) \/ Release(p)
               PROVE  PathHeld'
    BY <1>2 DEF Next
  <1>q. \A q \in Procs \ {p} : op'[q] = op[q]
    BY OthersWait
  \* The mover holds nothing afterwards, or what it held before, and no
  \* reserved path was touched.
  <1>k. ASSUME Holds(op'[p]) => Holds(op[p]) /\ op'[p].path = op[p].path,
               \A k \in Paths : tree[k] = Reserved /\ (Holds(op[p]) /\ ~Holds(op'[p]) => k # op[p].path)
                               => tree'[k] = Reserved
        PROVE  PathHeld'
    BY <1>k, <1>q, <1>t DEF PathHeld
  <1>3. CASE ReserveSlot(p) \/ CloseCall(p)
    <2>1. UNCHANGED tree
      BY <1>3 DEF ReserveSlot, SpawnCall, SpawnUnlimited, ResumeCall, ReserveLoad, ReserveCas, CloseCall
    <2>2. op'[p].pc \in {"idle", "load", "cas", "root", "release"}
      <3>1. CASE ReserveLoad(p) \/ ReserveCas(p)
        <4>1. CASE Goto(p, "root")
          BY <4>1, GotoMoves
        <4>2. CASE Attempt(p)
          <5>1. op[p] \in OpTypes
            BY DEF Ops
          <5> QED
            BY <4>2, <5>1 DEF Attempt, NoOp, OpTypes
        <4> QED
          BY <3>1, <4>1, <4>2 DEF ReserveLoad, ReserveCas
      <3>2. CASE SpawnCall(p) \/ SpawnUnlimited(p) \/ ResumeCall(p) \/ CloseCall(p)
        BY <3>2, CallMoves
      <3> QED
        BY <1>3, <3>1, <3>2 DEF ReserveSlot
    <2>3. op[p].pc \in {"idle", "load", "cas"}
      BY <1>3 DEF ReserveSlot, SpawnCall, SpawnUnlimited, ResumeCall, ReserveLoad, ReserveCas, CloseCall
    <2> QED
      BY <2>1, <2>2, <2>3, <1>k
  <1>4. CASE RegisterRoot(p)
    <2>1. op[p].pc = "root" /\ op'[p].pc = "path"
      BY <1>4, <1>t DEF RegisterRoot, Goto
    <2>2. \A k \in Paths : tree'[k] = tree[k]
      BY <1>4, DistinctAssumption DEF RegisterRoot, Keys
    <2> QED
      BY <2>1, <2>2, <1>k
  <1>5. CASE ReservePath(p)
    <2>1. CASE op[p].path = NoPath \/ tree[op[p].path] # Vacant
      <3>1. UNCHANGED tree /\ op[p].pc = "path" /\ op'[p].path = op[p].path
            /\ (op'[p].pc = "dec" \/ op[p].path = NoPath)
        <4>1. CASE op[p].path = NoPath
          BY <1>5, <4>1, GotoMoves DEF ReservePath
        <4>2. CASE op[p].path # NoPath
          BY <1>5, <2>1, <4>2, GotoMoves DEF ReservePath
        <4> QED
          BY <4>1, <4>2
      <3> QED
        BY <3>1, <1>k
    <2>2. CASE op[p].path # NoPath /\ tree[op[p].path] = Vacant
      <3>1. /\ tree' = [tree EXCEPT ![op[p].path] = Reserved]
            /\ op[p].pc = "path" /\ op'[p].pc = "nick" /\ op'[p].path = op[p].path
        BY <1>5, <2>2, GotoMoves DEF ReservePath
      <3>2. op[p].path \in Keys
        BY <2>2, <1>t DEF Keys
      <3>3. \A q \in Procs \ {p} : Holds(op[q]) => op[q].path # op[p].path
        BY <2>2, DistinctAssumption DEF PathHeld
      <3>4. \A q \in Procs : Holds(op'[q]) => tree'[op'[q].path] = Reserved
        BY <3>1, <3>2, <3>3, <1>q, <1>t DEF PathHeld, Keys
      <3>5. \A q, r \in Procs : Holds(op'[q]) /\ Holds(op'[r]) /\ q # r => op'[q].path # op'[r].path
        BY <3>1, <3>3, <1>q DEF PathHeld
      <3> QED
        BY <3>4, <3>5 DEF PathHeld
    <2> QED
      BY <2>1, <2>2
  <1>6. CASE ReserveNickname(p) \/ CreateFails(p) \/ CreateSpawned(p) \/ CreateResumed(p)
    <2>1. op[p].pc \in {"nick", "create"} /\ UNCHANGED tree
      BY <1>6 DEF ReserveNickname, CreateFails, CreateSpawned, CreateResumed
    <2>2. op'[p].pc \in {"create", "drop", "commit"} /\ op'[p].path = op[p].path
      BY <1>6, PrepareMoves
    <2> QED
      BY <2>1, <2>2, <1>k
  <1>7. CASE Commit(p)
    <2>1. op[p].pc = "commit" /\ op'[p].pc = "idle" /\ op[p].thread \in Threads
      BY <1>7, <1>t DEF Commit, Return, NoOp, Ops
    <2>2. \A k \in Paths : k # op[p].path => tree'[k] = tree[k]
      BY <1>7, <2>1, DistinctAssumption DEF Commit, KeyOf, Keys
    <2>3. op[p].path = NoPath => \A k \in Paths : tree'[k] = tree[k]
      BY <2>2, DistinctAssumption
    <2> QED
      BY <2>1, <2>2, <2>3, <1>k
  <1>8. CASE DropPath(p)
    <2>1. op[p].pc = "drop" /\ op'[p].pc = "dec"
      BY <1>8, <1>t DEF DropPath, Goto
    <2>2. \A k \in Paths : k # op[p].path \/ op[p].path = NoPath => tree'[k] = tree[k]
      BY <1>8 DEF DropPath, Keys
    <2> QED
      BY <2>1, <2>2, <1>k
  <1>9. CASE Decrement(p)
    <2>1. op[p].pc = "dec" /\ op'[p].pc = "idle" /\ UNCHANGED tree
      BY <1>9 DEF Decrement, Return, NoOp
    <2> QED
      BY <2>1, <1>k
  <1>10. CASE Release(p)
    <2>1. op[p].pc = "release" /\ op'[p].pc \in {"idle", "dec"}
      <3>1. Goto(p, "dec") \/ Return(p)
        BY <1>10 DEF Release
      <3>2. Return(p) => op'[p].pc = "idle"
        BY DEF Return, NoOp
      <3> QED
        BY <1>10, <3>1, <3>2, GotoMoves DEF Release
    <2>2. op[p].thread # Reserved
      BY <1>t, DistinctAssumption DEF Ops, OpTypes
    <2>3. \A k \in Paths : tree[k] = Reserved => tree'[k] = Reserved
      BY <1>10, <2>2 DEF Release, Keys
    <2> QED
      BY <2>1, <2>3, <1>k
  <1> QED
    BY <1>3, <1>4, <1>5, <1>6, <1>7, <1>8, <1>9, <1>10 DEF Prepare, Settle

\* The invariant holds in every reachable state.
LEMMA Invariance == Spec => []Inv
  <1>1. Inv /\ [Next]_vars => Inv'
    BY NextShape, NextTree, NextSlots, NextPath DEF Inv
  <1> QED
    BY InitInv, <1>1, PTL DEF Spec

\* Type correctness; in particular the unsigned slot counter never wraps below
\* zero, whichever releases and drops race.
THEOREM TypeCorrect == Spec => []TypeOK
  <1>1. Inv => TypeOK
    BY DEF Inv, Shape, TypeOK, Ops, OpTypes
  <1> QED
    BY Invariance, <1>1, PTL

\* A slot is never given back twice: the counter covers every reservation and
\* every registered agent.
THEOREM NoDoubleRelease == Spec => []SlotsCovered
  <1>1. Inv => SlotsCovered
    BY DEF Inv
  <1> QED
    BY Invariance, <1>1, PTL

\* Registered sub-agents and those being spawned or released never exceed
\* agent_max_threads together.
THEOREM LimitHolds == Spec => []AgentsWithinLimit
  <1>1. Inv => AgentsWithinLimit
    BY CountsFinite, LimitsAssumption DEF Inv, LimitInv, SlotsCovered, AgentsWithinLimit
  <1> QED
    BY Invariance, <1>1, PTL

\* A reserved agent path belongs to one reservation until it commits or drops.
THEOREM PathsExclusive == Spec => []PathHeld
  <1>1. Inv => PathHeld
    BY DEF Inv
  <1> QED
    BY Invariance, <1>1, PTL
-----------------------------------------------------------------------------
(* Nicknames *)

\* The candidates have no ordinals of their own, as those of agent_names.txt:
\* otherwise "X the 2nd" may be a candidate and what a reset makes of X.
PlainPools == \A names \in Pools : \A n \in names : n[2] = <<>>

\* The round a nickname was drawn in.
Round(x) == IF x[2] = <<>> THEN 0 ELSE x[2][1] - 1

\* A nickname that was drawn is of a round that was reached, and of the present
\* round only if the registry knows it is used.
Known(x, round, pool) == Round(x) \in 0 .. round /\ (Round(x) = round => x \in pool)

\* The nickname of a call is, or will be, one this registry drew.
Mine(p) == ~op[p].resume \/ NamedHere(op[p].thread)
\* Whose nickname a call carries: its own until it has a thread to give it to.
Owner(p) == IF op[p].resume \/ op[p].pc = "commit" THEN <<"thread", op[p].thread>>
                                                  ELSE <<"call", p>>

\* The drawn nicknames with their owners: those stored with threads created here,
\* those in the tree, and those of calls in progress.
Held == {<<nick[t], <<"thread", t>>>> : t \in Threads \ Stored}
        \cup {<<called[k], <<"thread", tree[k]>>>> :
                 k \in {l \in Keys : tree[l] \in Threads /\ NamedHere(tree[l])}}
        \cup {<<op[p].nick, Owner(p)>> : p \in {q \in Procs : Mine(q)}}

NickInv ==
    /\ \A t \in Stored : path[t] # Unborn
    /\ \A h \in Held : h[1] # NoNick =>
          /\ Known(h[1], resets, used)
          /\ \A g \in Held : g[1] = h[1] => g[2] = h[2]

\* A drawn name tells its round.
LEMMA FormatRound ==
    ASSUME PlainPools, NEW names \in Pools, NEW n \in names, NEW r \in Nat
    PROVE  Round(Format(n, r)) = r /\ Format(n, r) \in Nicknames \ {NoNick}
  <1>1. n[2] = <<>> /\ Format(n, r) \in Nicknames
    BY FormatName DEF PlainPools
  <1> SUFFICES Round(Format(n, r)) = r
    BY <1>1, DistinctAssumption
  <1>2. CASE r = 0
    BY <1>1, <1>2 DEF Round, Format
  <1>3. CASE r # 0
    <2>1. Format(n, r)[2] = Append(<<>>, r + 1)
      BY <1>1, <1>3 DEF Format
    <2>2. Append(<<>>, r + 1) # <<>> /\ Append(<<>>, r + 1)[1] = r + 1
      <3>1. r + 1 \in Nat /\ <<>> \in Seq(Nat)
        OBVIOUS
      <3> QED
        BY <3>1
    <2> QED
      BY <2>1, <2>2 DEF Round
  <1> QED
    BY <1>2, <1>3

\* Where a holder of a name is found after a step of p.
LEMMA HeldAfter ==
    ASSUME op \in [Procs -> Ops], NEW p \in Procs, \A q \in Procs \ {p} : op'[q] = op[q],
           \A t \in Threads : NamedHere(t)' => NamedHere(t),
           NEW h \in Held'
    PROVE  \/ \E t \in Threads \ Stored : h = <<nick'[t], <<"thread", t>>>>
           \/ \E k \in Keys : /\ tree'[k] \in Threads /\ NamedHere(tree'[k])
                              /\ h = <<called'[k], <<"thread", tree'[k]>>>>
           \/ Mine(p)' /\ h = <<op'[p].nick, Owner(p)'>>
           \/ \E q \in Procs \ {p} : /\ op'[q] = op[q] /\ h = <<op[q].nick, Owner(q)>>
                                     /\ h \in Held
  <1>1. CASE \E t \in Threads \ Stored : h = <<nick'[t], <<"thread", t>>>>
    BY <1>1
  <1>2. CASE \E k \in Keys : /\ tree'[k] \in Threads /\ NamedHere(tree[k])'
                             /\ h = <<called'[k], <<"thread", tree'[k]>>>>
    <2>1. PICK k \in Keys : /\ tree'[k] \in Threads /\ NamedHere(tree[k])'
                            /\ h = <<called'[k], <<"thread", tree'[k]>>>>
      BY <1>2
    <2>2. \A t \in Threads : tree'[k] = t => NamedHere(t)
      BY <2>1 DEF NamedHere
    <2> QED
      BY <2>1, <2>2
  <1>3. CASE \E q \in Procs : Mine(q)' /\ h = <<op'[q].nick, Owner(q)'>>
    <2>1. PICK q \in Procs : Mine(q)' /\ h = <<op'[q].nick, Owner(q)'>>
      BY <1>3
    <2>2. CASE q # p
      <3>1. op'[q] = op[q] /\ h = <<op[q].nick, Owner(q)>>
        BY <2>1, <2>2 DEF Owner
      <3>2. op[q] \in OpTypes /\ (op[q].resume => op[q].thread \in Threads)
        BY DEF Ops
      <3>3. Mine(q)
        BY <2>1, <3>1, <3>2 DEF Mine, NamedHere
      <3> QED
        BY <2>2, <3>1, <3>3 DEF Held
    <2> QED
      BY <2>1, <2>2
  <1> QED
    BY <1>1, <1>2, <1>3 DEF Held

\* Nothing is drawn: every name is held after the step by an owner it had before.
LEMMA NickFrame ==
    ASSUME Inv, NickInv, NEW p \in Procs, \A q \in Procs \ {p} : op'[q] = op[q],
           nick' = nick, path' = path, resets' = resets, used \subseteq used',
           \A k \in Keys : tree'[k] \in Threads /\ NamedHere(tree'[k]) =>
                \/ tree'[k] = tree[k] /\ called'[k] = called[k]
                \/ <<called'[k], <<"thread", tree'[k]>>>> \in Held,
           \/ op'[p].nick = NoNick
           \/ Mine(p)' => <<op'[p].nick, Owner(p)'>> \in Held
    PROVE  NickInv'
  <1> USE DEF Inv, Shape
  <1>1. \A t : NamedHere(t)' <=> NamedHere(t)
    BY DEF NamedHere
  <1>2. ASSUME NEW h \in Held' PROVE h[1] = NoNick \/ h \in Held
    <2>1. CASE \E t \in Threads \ Stored : h = <<nick'[t], <<"thread", t>>>>
      BY <2>1 DEF Held
    <2>2. CASE \E k \in Keys : /\ tree'[k] \in Threads /\ NamedHere(tree'[k])
                               /\ h = <<called'[k], <<"thread", tree'[k]>>>>
      BY <2>2 DEF Held
    <2>3. CASE Mine(p)' /\ h = <<op'[p].nick, Owner(p)'>>
      BY <2>3
    <2> QED
      BY <1>1, <1>2, <2>1, <2>2, <2>3, HeldAfter
  <1>3. \A x : Known(x, resets, used) => Known(x, resets', used')
    BY DEF Known
  <1>4. \A t \in Stored : path'[t] # Unborn
    BY DEF NickInv
  <1> QED
    BY <1>2, <1>3, <1>4 DEF NickInv

\* Goto keeps the nickname, the thread and what kind of call it is.
LEMMA GotoKeeps ==
    ASSUME op \in [Procs -> Ops], NEW p \in Procs, NEW step, Goto(p, step)
    PROVE  /\ op'[p].pc = step /\ op'[p].nick = op[p].nick /\ op'[p].resume = op[p].resume
           /\ op'[p].thread = op[p].thread
  <1>1. op[p] \in OpTypes
    BY DEF Ops
  <1> QED
    BY <1>1 DEF OpTypes, Goto

\* A nickname is drawn that nobody has: from the free ones of the round, or
\* from a new round.
LEMMA DrawInv ==
    ASSUME PlainPools, Inv, NickInv, NEW p \in Procs, ReserveNickname(p), op[p].nick = NoNick
    PROVE  NickInv'
  <1> USE DEF Inv, Shape
  <1>0. /\ \A q \in Procs \ {p} : op'[q] = op[q]
        /\ nick' = nick /\ path' = path /\ tree' = tree /\ called' = called
        /\ resets \in Nat /\ op[p] \in OpTypes
    <2>1. Prepare(p)
      BY DEF Prepare
    <2>2. \A q \in Procs \ {p} : op'[q] = op[q]
      BY <2>1, OthersWait
    <2>3. resets \in Nat
      BY LimitsAssumption
    <2>4. op[p] \in OpTypes
      BY DEF Ops
    <2> QED
      BY <2>2, <2>3, <2>4 DEF ReserveNickname
  <1>1. PICK x \in Nicknames, r \in Nat :
          /\ op' = [op EXCEPT ![p] = [@ EXCEPT !.pc = "create", !.nick = x]]
          /\ x # NoNick /\ Round(x) = r /\ resets' = r /\ x \in used'
          /\ \/ r = resets /\ x \notin used /\ used \subseteq used'
             \/ r = resets + 1
    <2>1. CASE \E names \in Pools : \E n \in Available(names) :
                  /\ used' = used \cup {Format(n, resets)} /\ resets' = resets
                  /\ TakeNickname(p, Format(n, resets))
      <3>1. PICK names \in Pools : \E n \in Available(names) :
                  /\ used' = used \cup {Format(n, resets)} /\ resets' = resets
                  /\ TakeNickname(p, Format(n, resets))
        BY <2>1
      <3>2. PICK n \in Available(names) :
                  /\ used' = used \cup {Format(n, resets)} /\ resets' = resets
                  /\ TakeNickname(p, Format(n, resets))
        BY <3>1
      <3>3. n \in names /\ Format(n, resets) \notin used
        BY <3>2 DEF Available
      <3>4. Round(Format(n, resets)) = resets /\ Format(n, resets) \in Nicknames \ {NoNick}
        BY <1>0, <3>3, FormatRound
      <3> DEFINE new == Format(n, resets)
      <3>5. /\ op' = [op EXCEPT ![p] = [@ EXCEPT !.pc = "create", !.nick = new]]
            /\ new \in Nicknames \ {NoNick} /\ Round(new) = resets /\ resets' = resets
            /\ new \in used' /\ new \notin used /\ used \subseteq used'
        BY <3>2, <3>3, <3>4 DEF TakeNickname
      <3> HIDE DEF new
      <3> QED
        BY <1>0, <3>5
    <2>2. CASE \E names \in Pools : \E n \in names : DrawNickname(p, n)
      <3>1. PICK names \in Pools : \E n \in names : DrawNickname(p, n)
        BY <2>2
      <3>2. PICK n \in names : DrawNickname(p, n)
        BY <3>1
      <3>3. resets + 1 \in Nat
        BY <1>0
      <3>4. Round(Format(n, resets + 1)) = resets + 1 /\ Format(n, resets + 1) \in Nicknames \ {NoNick}
        BY <3>3, FormatRound
      <3> DEFINE new == Format(n, resets + 1)
      <3>5. /\ op' = [op EXCEPT ![p] = [@ EXCEPT !.pc = "create", !.nick = new]]
            /\ new \in Nicknames \ {NoNick} /\ Round(new) = resets + 1
            /\ resets' = resets + 1 /\ new \in used'
        BY <3>2, <3>4 DEF DrawNickname, TakeNickname
      <3> HIDE DEF new
      <3> QED
        BY <3>3, <3>5
    <2> QED
      BY <2>1, <2>2 DEF ReserveNickname
  <1>2. op'[p].nick = x
    BY <1>0, <1>1 DEF OpTypes
  <1>3. ASSUME NEW y, Known(y, resets, used) PROVE y # x /\ Known(y, resets', used')
    <2>1. CASE r = resets + 1
      <3>1. Round(y) \in 0 .. resets
        BY <1>3 DEF Known
      <3>2. Round(y) \in 0 .. r /\ Round(y) # r
        BY <1>0, <2>1, <3>1
      <3> QED
        BY <1>1, <3>2 DEF Known
    <2>2. CASE r = resets /\ x \notin used /\ used \subseteq used'
      BY <1>1, <1>3, <2>2 DEF Known
    <2> QED
      BY <1>1, <2>1, <2>2
  <1>4. Known(x, resets', used')
    BY <1>1 DEF Known
  <1>5. ASSUME NEW h \in Held' PROVE h \in Held \/ h = <<x, Owner(p)'>>
    <2>1. CASE \E t \in Threads \ Stored : h = <<nick'[t], <<"thread", t>>>>
      BY <1>0, <2>1 DEF Held
    <2>2. CASE \E k \in Keys : /\ tree'[k] \in Threads /\ NamedHere(tree'[k])
                               /\ h = <<called'[k], <<"thread", tree'[k]>>>>
      BY <1>0, <2>2 DEF Held
    <2>3. \A t : NamedHere(t)' => NamedHere(t)
      BY <1>0 DEF NamedHere
    <2> QED
      BY <1>0, <1>2, <1>5, <2>1, <2>2, <2>3, HeldAfter
  <1>6. \A t \in Stored : path'[t] # Unborn
    BY <1>0 DEF NickInv
  <1>7. ASSUME NEW h \in Held', h[1] # NoNick
        PROVE  /\ Known(h[1], resets', used')
               /\ \A g \in Held' : g[1] = h[1] => g[2] = h[2]
    <2>1. CASE h \in Held
      <3>1. Known(h[1], resets, used)
        BY <1>7, <2>1 DEF NickInv
      <3>2. h[1] # x /\ Known(h[1], resets', used')
        BY <1>3, <3>1
      <3> QED
        BY <1>5, <1>7, <2>1, <3>2 DEF NickInv
    <2>2. CASE h = <<x, Owner(p)'>>
      <3>1. ASSUME NEW g \in Held', g[1] = x PROVE g[2] = h[2]
        <4>1. CASE g \in Held
          BY <1>1, <1>3, <3>1, <4>1 DEF NickInv
        <4> QED
          BY <1>5, <2>2, <3>1, <4>1
      <3> QED
        BY <1>4, <2>2, <3>1
    <2> QED
      BY <1>5, <1>7, <2>1, <2>2
  <1> QED
    BY <1>6, <1>7 DEF NickInv

\* The name goes over from the call, which alone held it, to the new thread.
LEMMA CreateSpawnedNick ==
    ASSUME Inv, NickInv, NEW p \in Procs, CreateSpawned(p)
    PROVE  NickInv'
  <1> USE DEF Inv, Shape
  <1>0. /\ \A q \in Procs \ {p} : op'[q] = op[q]
        /\ op[p].pc = "create" /\ ~op[p].resume /\ op[p] \in OpTypes
        /\ op[p].path \in Paths \cup {NoPath}
        /\ tree' = tree /\ called' = called /\ used' = used /\ resets' = resets
    <2>1. Settle(p)
      BY DEF Settle
    <2>2. \A q \in Procs \ {p} : op'[q] = op[q]
      BY <2>1, OthersWait
    <2> QED
      BY <2>2 DEF CreateSpawned, Ops, OpTypes
  <1>1. PICK t \in Threads :
          /\ path[t] = Unborn
          /\ path' = [path EXCEPT ![t] = op[p].path]
          /\ nick' = [nick EXCEPT ![t] = op[p].nick]
          /\ op' = [op EXCEPT ![p] = [@ EXCEPT !.pc = "commit", !.thread = t]]
    BY DEF CreateSpawned
  <1>2. t \notin Stored
    BY <1>1 DEF NickInv
  <1>3. /\ op'[p].pc = "commit" /\ op'[p].nick = op[p].nick /\ op'[p].thread = t
        /\ Owner(p)' = <<"thread", t>>
    BY <1>0, <1>1 DEF OpTypes, Owner
  <1>4. \A u : NamedHere(u)' => NamedHere(u)
    BY <1>1, <1>2 DEF NamedHere
  <1> DEFINE x == op[p].nick
  <1>5. Mine(p) /\ Owner(p) = <<"call", p>> /\ <<x, <<"call", p>>>> \in Held
    <2>1. Mine(p) /\ Owner(p) = <<"call", p>>
      BY <1>0 DEF Mine, Owner
    <2> QED
      BY <2>1 DEF Held
  \* Whoever else has a name has one of before, and not as this call.
  <1>6. ASSUME NEW h \in Held'
        PROVE  h = <<x, <<"thread", t>>>> \/ (h \in Held /\ h[2] # <<"call", p>>)
    <2>1. CASE \E u \in Threads \ Stored : h = <<nick'[u], <<"thread", u>>>>
      <3>1. PICK u \in Threads \ Stored : h = <<nick'[u], <<"thread", u>>>>
        BY <2>1
      <3>2. nick'[u] = IF u = t THEN x ELSE nick[u]
        BY <1>1
      <3>3. <<"thread", u>> # <<"call", p>>
        BY "thread" # "call"
      <3> QED
        BY <3>1, <3>2, <3>3 DEF Held
    <2>2. CASE \E k \in Keys : /\ tree'[k] \in Threads /\ NamedHere(tree'[k])
                               /\ h = <<called'[k], <<"thread", tree'[k]>>>>
      <3>1. PICK k \in Keys : /\ tree[k] \in Threads /\ NamedHere(tree[k])
                              /\ h = <<called[k], <<"thread", tree[k]>>>>
        BY <1>0, <2>2
      <3>2. <<"thread", tree[k]>> # <<"call", p>>
        BY "thread" # "call"
      <3> QED
        BY <3>1, <3>2 DEF Held
    <2>3. CASE Mine(p)' /\ h = <<op'[p].nick, Owner(p)'>>
      BY <1>3, <2>3
    <2>4. CASE \E q \in Procs \ {p} : /\ h = <<op[q].nick, Owner(q)>> /\ h \in Held
      <3>1. PICK q \in Procs \ {p} : h = <<op[q].nick, Owner(q)>> /\ h \in Held
        BY <2>4
      <3>2. Owner(q) # <<"call", p>>
        BY "thread" # "call" DEF Owner
      <3> QED
        BY <3>1, <3>2
    <2> QED
      BY <1>0, <1>4, <1>6, <2>1, <2>2, <2>3, <2>4, HeldAfter
  <1>7. \A u \in Stored : path'[u] # Unborn
    BY <1>1, <1>2, NamesAssumption DEF NickInv
  <1>8. ASSUME NEW h \in Held', h[1] # NoNick
        PROVE  /\ Known(h[1], resets', used')
               /\ \A g \in Held' : g[1] = h[1] => g[2] = h[2]
    <2>1. CASE h = <<x, <<"thread", t>>>>
      <3>1. \A g \in Held : g[1] = x => g[2] = <<"call", p>>
        BY <1>5, <1>8, <2>1 DEF NickInv
      <3>2. Known(x, resets, used)
        BY <1>5, <1>8, <2>1 DEF NickInv
      <3> QED
        BY <1>0, <1>6, <2>1, <3>1, <3>2
    <2>2. CASE h \in Held /\ h[2] # <<"call", p>>
      <3>1. h[1] # x
        BY <1>5, <1>8, <2>2 DEF NickInv
      <3> QED
        BY <1>0, <1>6, <1>8, <2>2, <3>1 DEF NickInv
    <2> QED
      BY <1>6, <1>8, <2>1, <2>2
  <1> QED
    BY <1>7, <1>8 DEF NickInv

LEMMA NextNick ==
    ASSUME PlainPools, Inv, NickInv, [Next]_vars PROVE NickInv'
  <1> USE DEF Inv, Shape
  <1>1. CASE UNCHANGED vars \/ \E t \in Threads : Unload(t)
    BY <1>1 DEF vars, Unload, NickInv, Held, NamedHere, Mine, Owner
  <1> SUFFICES ASSUME NEW p \in Procs,
                      ReserveSlot(p) \/ Prepare(p) \/ Settle(p) \/ CloseCall(p) \/ Release(p)
               PROVE  NickInv'
    BY <1>1 DEF Next
  <1>q. /\ \A q \in Procs \ {p} : op'[q] = op[q]
        /\ op[p] \in OpTypes
    BY OthersWait DEF Ops
  <1> DEFINE Calm == nick' = nick /\ path' = path /\ resets' = resets /\ used \subseteq used'
             Pruned == \A k \in Keys : tree'[k] \in Threads =>
                          tree'[k] = tree[k] /\ called'[k] = called[k]
  <1>n. NoOp.nick = NoNick
    BY DEF NoOp
  \* The call has no nickname any more, or none yet.
  <1>r. ASSUME op'[p].nick = NoNick, Calm, Pruned PROVE NickInv'
    BY <1>q, <1>r, NickFrame
  \* The call goes on with the nickname it has.
  <1>g. ASSUME op'[p].nick = op[p].nick, op'[p].resume = op[p].resume,
               op'[p].thread = op[p].thread,
               op[p].resume \/ (op[p].pc # "commit" /\ op'[p].pc # "commit"),
               Calm, Pruned
        PROVE  NickInv'
    <2>1. Owner(p)' = Owner(p)
      BY <1>g DEF Owner
    <2>2. Mine(p)' => Mine(p)
      BY <1>g DEF Mine, NamedHere
    <2>3. Mine(p)' => <<op'[p].nick, Owner(p)'>> \in Held
      BY <1>g, <2>1, <2>2 DEF Held
    <2> QED
      BY <1>q, <1>g, <2>3, NickFrame
  <1>h. ASSUME NEW step \in Steps \ {"commit"}, Goto(p, step), op[p].pc # "commit", Calm, Pruned
        PROVE  NickInv'
    BY <1>g, <1>h, GotoKeeps
  <1>2. CASE SpawnCall(p) \/ SpawnUnlimited(p) \/ CloseCall(p)
    <2>1. op'[p].nick = NoNick
      BY <1>2, CallMoves
    <2>2. Calm /\ Pruned
      BY <1>2 DEF SpawnCall, SpawnUnlimited, CloseCall
    <2> QED
      BY <1>r, <2>1, <2>2
  <1>3. CASE ResumeCall(p)
    <2>1. PICK t \in Threads : /\ op'[p].resume /\ op'[p].nick = nick[t] /\ op'[p].thread = t
                               /\ Calm /\ tree' = tree /\ called' = called
      BY <1>3 DEF ResumeCall, NoOp
    <2>2. Mine(p)' => t \notin Stored \/ nick[t] = NoNick
      BY <2>1 DEF Mine, NamedHere
    <2>3. Owner(p)' = <<"thread", t>>
      BY <2>1 DEF Owner
    <2>4. op'[p].nick = NoNick \/ (Mine(p)' => <<op'[p].nick, Owner(p)'>> \in Held)
      BY <2>1, <2>2, <2>3 DEF Held
    <2> QED
      BY <1>q, <2>1, <2>4, NickFrame
  <1>4. CASE ReserveLoad(p) \/ ReserveCas(p)
    <2>1. Calm /\ Pruned /\ op[p].pc \in {"load", "cas"}
      BY <1>4 DEF ReserveLoad, ReserveCas
    <2>2. CASE Attempt(p)
      <3>1. CASE total >= MaxThreads
        <4>1. op'[p] = NoOp
          BY <2>2, <3>1 DEF Attempt
        <4> QED
          BY <1>n, <1>r, <2>1, <4>1
      <3>2. CASE ~(total >= MaxThreads)
        <4>1. /\ op'[p].pc = "cas" /\ op'[p].nick = op[p].nick /\ op'[p].resume = op[p].resume
              /\ op'[p].thread = op[p].thread
          BY <1>q, <2>2, <3>2 DEF Attempt, OpTypes
        <4> QED
          BY <1>g, <2>1, <4>1
      <3> QED
        BY <3>1, <3>2
    <2>3. CASE Goto(p, "root")
      BY <1>h, <2>1, <2>3 DEF Steps
    <2> QED
      BY <1>4, <2>2, <2>3 DEF ReserveLoad, ReserveCas
  <1>5. CASE RegisterRoot(p)
    <2>1. Pruned
      BY <1>5, DistinctAssumption DEF RegisterRoot, Keys
    <2> QED
      BY <1>5, <1>h, <2>1 DEF RegisterRoot, Steps
  <1>6. CASE ReservePath(p)
    <2>1. (Goto(p, "nick") \/ Goto(p, "dec")) /\ op[p].pc = "path" /\ Calm
      BY <1>6 DEF ReservePath
    <2>2. Pruned
      BY <1>6, <1>q, DistinctAssumption DEF ReservePath, Keys, OpTypes
    <2> QED
      BY <1>h, <2>1, <2>2 DEF Steps
  <1>7. CASE ReserveNickname(p)
    <2>1. CASE op[p].nick # NoNick
      <3>1. Goto(p, "create") /\ op[p].pc = "nick" /\ Calm /\ Pruned
        BY <1>7, <2>1 DEF ReserveNickname
      <3> QED
        BY <1>h, <3>1 DEF Steps
    <2>2. CASE op[p].nick = NoNick
      BY <1>7, <2>2, DrawInv
    <2> QED
      BY <2>1, <2>2
  <1>8. CASE CreateFails(p) \/ CreateResumed(p)
    <2>1. op[p].pc = "create" /\ Calm /\ Pruned
      BY <1>8 DEF CreateFails, CreateResumed
    <2>2. CASE Goto(p, "drop")
      BY <1>h, <2>1, <2>2 DEF Steps
    <2>3. CASE Goto(p, "commit") /\ op[p].resume
      BY <1>g, <2>1, <2>3, GotoKeeps
    <2> QED
      BY <1>8, <2>2, <2>3 DEF CreateFails, CreateResumed
  <1>9. CASE Commit(p)
    <2>1. op[p].pc = "commit" /\ Calm /\ op'[p] = NoOp
      BY <1>9 DEF Commit, Return
    <2>2. op[p].thread \in Threads /\ (op[p].resume => op[p].thread \in Threads)
      BY <2>1 DEF Ops
    <2>3. Owner(p) = <<"thread", op[p].thread>>
      BY <2>1 DEF Owner
    <2>4. ASSUME NEW k \in Keys, tree'[k] \in Threads, NamedHere(tree'[k])
          PROVE  \/ tree'[k] = tree[k] /\ called'[k] = called[k]
                 \/ <<called'[k], <<"thread", tree'[k]>>>> \in Held
      <3>1. CASE k # KeyOf(p)
        BY <1>9, <3>1 DEF Commit
      <3>2. CASE k = KeyOf(p)
        <4>1. tree'[k] = op[p].thread /\ called'[k] = op[p].nick
          BY <1>9, <3>2 DEF Commit
        <4>2. Mine(p)
          BY <2>4, <4>1 DEF Mine
        <4> QED
          BY <2>3, <4>1, <4>2 DEF Held
      <3> QED
        BY <3>1, <3>2
    <2> QED
      BY <1>n, <1>q, <2>1, <2>4, NickFrame
  <1>10. CASE DropPath(p)
    <2>1. Pruned
      BY <1>10, <1>q, DistinctAssumption DEF DropPath, Keys, OpTypes
    <2> QED
      BY <1>10, <1>h, <2>1 DEF DropPath, Steps
  <1>11. CASE Decrement(p)
    <2>1. op'[p] = NoOp /\ Calm /\ Pruned
      BY <1>11 DEF Decrement, Return
    <2> QED
      BY <1>n, <1>r, <2>1
  <1>12. CASE Release(p)
    <2>1. Calm /\ op[p].pc = "release"
      BY <1>12 DEF Release
    <2>2. Pruned
      BY <1>12, DistinctAssumption DEF Release
    <2>3. CASE Goto(p, "dec")
      BY <1>h, <2>1, <2>2, <2>3 DEF Steps
    <2>4. CASE Return(p)
      <3>1. op'[p] = NoOp
        BY <2>4 DEF Return
      <3> QED
        BY <1>n, <1>r, <2>1, <2>2, <3>1
    <2> QED
      BY <1>12, <2>3, <2>4 DEF Release
  <1> QED
    BY <1>2, <1>3, <1>4, <1>5, <1>6, <1>7, <1>8, <1>9, <1>10, <1>11, <1>12, CreateSpawnedNick
    DEF ReserveSlot, Prepare, Settle

\* Two registered agents that the registry named never share a nickname: a drawn
\* name is free in its round, or of a round nobody has reached, and stays with
\* the call that drew it until it is the thread's. Stored agents may come back
\* with any name; they are not among the two.
THEOREM DrawnNicknamesDistinct ==
    ASSUME PlainPools PROVE Spec => []NicknamesDistinct
  <1>1. Init => NickInv
    <2> SUFFICES ASSUME Init PROVE NickInv
      OBVIOUS
    <2>1. \A t \in Stored : path[t] # Unborn
      BY DistinctAssumption, NamesAssumption DEF Init
    <2>2. \A h \in Held : h[1] = NoNick
      BY NamesAssumption DEF Init, Held, NoOp
    <2> QED
      BY <2>1, <2>2 DEF NickInv
  <1>2. Inv /\ NickInv /\ [Next]_vars => NickInv'
    BY NextNick
  <1>3. NickInv => NicknamesDistinct
    <2> SUFFICES ASSUME NickInv, NEW k \in Agents, NEW l \in Agents,
                        NamedHere(tree[k]), NamedHere(tree[l]),
                        called[k] = called[l], called[k] # NoNick
                 PROVE  tree[k] = tree[l]
      BY DEF NicknamesDistinct
    <2>1. /\ <<called[k], <<"thread", tree[k]>>>> \in Held
          /\ <<called[l], <<"thread", tree[l]>>>> \in Held
      BY DEF Held, Agents
    <2>2. <<"thread", tree[k]>> = <<"thread", tree[l]>>
      BY <2>1 DEF NickInv
    <2> QED
      BY <2>2
  <1> QED
    BY Invariance, <1>1, <1>2, <1>3, PTL DEF Spec
-----------------------------------------------------------------------------
(* Slots, when every spawn asks for a path *)

\* The steps up to the one that draws a nickname.
EarlySteps == {"load", "cas", "root", "path", "nick"}

\* No call that may still commit is without a path, and no thread is.
PathInv ==
    /\ \A p \in Procs : op[p].pc \in EarlySteps \cup {"create", "commit"} => op[p].path # NoPath
    /\ \A t \in Threads : path[t] # NoPath

LEMMA NextPathInv ==
    ASSUME NoPath \notin SpawnPaths, Inv, PathInv, [Next]_vars PROVE PathInv'
  <1> USE DEF Inv, Shape
  <1>1. CASE UNCHANGED vars \/ \E t \in Threads : Unload(t)
    BY <1>1 DEF vars, Unload, PathInv
  <1> SUFFICES ASSUME NEW p \in Procs,
                      ReserveSlot(p) \/ Prepare(p) \/ Settle(p) \/ CloseCall(p) \/ Release(p)
               PROVE  PathInv'
    BY <1>1 DEF Next
  <1>q. \A q \in Procs \ {p} : op'[q] = op[q]
    BY OthersWait
  <1>k. ASSUME op'[p].pc \in EarlySteps \cup {"create", "commit"} => op'[p].path # NoPath,
               path' = path
        PROVE  PathInv'
    BY <1>k, <1>q DEF PathInv
  \* A call that moves on keeps its path.
  <1>g. ASSUME op[p].pc \in EarlySteps \cup {"create", "commit"}, op'[p].path = op[p].path,
               path' = path
        PROVE  PathInv'
    BY <1>g, <1>k DEF PathInv
  <1>i. ASSUME op'[p].pc \in {"idle", "dec", "release"}, path' = path PROVE PathInv'
    BY <1>i, <1>k DEF EarlySteps
  <1>2. CASE SpawnCall(p) \/ SpawnUnlimited(p)
    <2>1. op'[p].path \in SpawnPaths /\ path' = path
      BY <1>2 DEF SpawnCall, SpawnUnlimited, NoOp
    <2> QED
      BY <2>1, <1>k
  <1>3. CASE ResumeCall(p)
    <2>1. path' = path /\ \E t \in Threads : op'[p].path = path[t]
      BY <1>3 DEF ResumeCall, NoOp
    <2> QED
      BY <2>1, <1>k DEF PathInv
  <1>4. CASE CloseCall(p)
    BY <1>4, <1>i DEF CloseCall, NoOp
  <1>5. CASE ReserveLoad(p) \/ ReserveCas(p)
    <2>1. path' = path /\ op[p].pc \in EarlySteps
      BY <1>5 DEF ReserveLoad, ReserveCas, EarlySteps
    <2>2. CASE Goto(p, "root")
      BY <2>1, <2>2, <1>g, GotoMoves
    <2>3. CASE Attempt(p)
      <3>1. op[p] \in OpTypes
        BY DEF Ops
      <3>2. op'[p].pc = "idle" \/ op'[p].path = op[p].path
        BY <2>3, <3>1 DEF Attempt, NoOp, OpTypes
      <3> QED
        BY <2>1, <3>2, <1>g, <1>i
    <2> QED
      BY <1>5, <2>2, <2>3 DEF ReserveLoad, ReserveCas
  <1>6. CASE RegisterRoot(p) \/ ReservePath(p)
    <2>1. path' = path /\ op[p].pc \in EarlySteps
      BY <1>6 DEF RegisterRoot, ReservePath, EarlySteps
    <2>2. \E step \in {"path", "nick", "dec"} : Goto(p, step)
      BY <1>6 DEF RegisterRoot, ReservePath
    <2> QED
      BY <2>1, <2>2, <1>g, GotoMoves
  <1>7. CASE ReserveNickname(p) \/ CreateFails(p) \/ CreateSpawned(p) \/ CreateResumed(p)
    <2>1. op[p].pc \in EarlySteps \cup {"create"} /\ op'[p].path = op[p].path
      BY <1>7, PrepareMoves
         DEF ReserveNickname, CreateFails, CreateSpawned, CreateResumed, EarlySteps
    <2>2. op[p].path # NoPath
      BY <2>1 DEF PathInv
    <2>3. CASE CreateSpawned(p)
      <3>1. \A t \in Threads : path'[t] \in {path[t], op[p].path}
        BY <2>3 DEF CreateSpawned
      <3> QED
        BY <1>q, <2>1, <2>2, <3>1 DEF PathInv
    <2>4. CASE ~CreateSpawned(p)
      BY <1>7, <2>1, <2>4, <1>g DEF ReserveNickname, CreateFails, CreateResumed
    <2> QED
      BY <2>3, <2>4
  <1>8. CASE Commit(p) \/ Decrement(p)
    BY <1>8, <1>i DEF Commit, Decrement, Return, NoOp
  <1>9. CASE DropPath(p) \/ Release(p)
    <2>1. (Goto(p, "dec") \/ Return(p)) /\ path' = path
      BY <1>9 DEF DropPath, Release
    <2>2. op'[p].pc \in {"dec", "idle"}
      BY <2>1, GotoMoves DEF Return, NoOp
    <2> QED
      BY <2>1, <2>2, <1>i
  <1> QED
    BY <1>2, <1>3, <1>4, <1>5, <1>6, <1>7, <1>8, <1>9 DEF ReserveSlot, Prepare, Settle

\* A commit then finds the placeholder of its own reservation, never an agent,
\* so no two slots end up behind one entry.
LEMMA NextExact ==
    ASSUME Inv, PathInv, SlotsExact, [Next]_vars PROVE SlotsExact'
  <1>0. total \in Nat /\ Cardinality(Owners) \in Nat /\ Cardinality(Agents) \in Nat
        /\ IsFiniteSet(Owners) /\ IsFiniteSet(Agents)
    BY CountsFinite DEF Inv
  <1>a. \A p : p \notin Owners => Cardinality(Owners \cup {p}) = Cardinality(Owners) + 1
    BY <1>0, FS_AddElement
  <1>b. \A p \in Owners : Cardinality(Owners \ {p}) = Cardinality(Owners) - 1
    BY <1>0, FS_RemoveElement
  <1>c. \A k : k \notin Agents => Cardinality(Agents \cup {k}) = Cardinality(Agents) + 1
    BY <1>0, FS_AddElement
  <1>d. \A k \in Agents : Cardinality(Agents \ {k}) = Cardinality(Agents) - 1
    BY <1>0, FS_RemoveElement
  <1>1. CASE Kept
    BY <1>1 DEF Kept, SlotsExact
  <1>2. CASE Taken
    BY <1>0, <1>a, <1>2 DEF Taken, SlotsExact
  <1>3. CASE Given
    BY <1>0, <1>b, <1>3 DEF Given, SlotsExact
  <1>4. CASE Registered
    <2>1. PICK p \in Owners :
            /\ op[p].pc = "commit" /\ UNCHANGED total
            /\ Owners' = Owners \ {p} /\ Agents' = Agents \cup {KeyOf(p)}
      BY <1>4 DEF Registered
    <2>2. p \in Procs /\ op[p].path # NoPath
      BY <2>1 DEF Owners, PathInv
    <2>3. tree[KeyOf(p)] = Reserved
      BY <2>1, <2>2 DEF KeyOf, Inv, PathHeld
    <2>4. KeyOf(p) \notin Agents
      BY <2>3, DistinctAssumption DEF Agents
    <2> QED
      BY <1>0, <1>b, <1>c, <2>1, <2>4 DEF SlotsExact
  <1>5. CASE Released
    BY <1>0, <1>a, <1>d, <1>5 DEF Released, SlotsExact
  <1> QED
    BY <1>1, <1>2, <1>3, <1>4, <1>5, SlotStep

\* "Total number of sub-agents (i.e. threads) per user session": when every
\* spawn asks for an agent path no slot is lost, whatever resumes, closes and
\* failed spawns interleave.
THEOREM CounterExact ==
    ASSUME NoPath \notin SpawnPaths PROVE Spec => []SlotsExact
  <1>1. Init => PathInv /\ SlotsExact
    <2> SUFFICES ASSUME Init PROVE PathInv /\ SlotsExact
      OBVIOUS
    <2>1. PathInv
      <3>1. \A t \in Threads : path[t] \in SpawnPaths \cup {Unborn}
        BY DEF Init
      <3> QED
        BY <3>1, DistinctAssumption DEF Init, PathInv, NoOp, EarlySteps
    <2>2. Owners = {} /\ Agents = {}
      BY DistinctAssumption DEF Init, Owners, Agents, NoOp, Keys
    <2> QED
      BY <2>1, <2>2, FS_EmptySet DEF SlotsExact, Init
  <1>2. Inv /\ PathInv /\ SlotsExact /\ [Next]_vars => PathInv' /\ SlotsExact'
    BY NextPathInv, NextExact
  <1> QED
    BY Invariance, <1>1, <1>2, PTL DEF Spec
=============================================================================
