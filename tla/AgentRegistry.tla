--------------------------- MODULE AgentRegistry ---------------------------
(***************************************************************************)
(* core/src/agent/registry.rs: the registry that caps the sub-agents of a  *)
(* user session, with the callers that use it (agent/control): spawning,   *)
(* resuming and closing agents concurrently.  The slot counter is an       *)
(* atomic, the agent tree sits behind a mutex, the loaded threads behind   *)
(* the thread manager's lock: each access is a step of its own.            *)
(***************************************************************************)
EXTENDS Integers, FiniteSets, Sequences

CONSTANTS
    Procs,        \* concurrent callers of AgentControl
    Threads,      \* ids of sub-agent threads: those stored already and those to come
    Stored,       \* the threads an earlier session, or another tree, has left in the store
    RootThread,   \* id of the root thread
    Paths,        \* agent paths other than the root's
    Root,         \* AgentPath::ROOT, as a key of the tree
    NoPath,       \* the agent has no path: it is filed under its thread id
    SpawnPaths,   \* what agents are spawned with, a subset of Paths and NoPath
    Vacant,       \* no entry under a key
    Reserved,     \* the placeholder entry, its agent_id None
    Unborn,       \* path of a thread that does not exist yet
    Bases,        \* names without an ordinal
    Pools,        \* the candidate lists: the default one, or those of a role
    StoredNicks,  \* the nicknames the stored threads may have
    NoNick,       \* no nickname
    MaxThreads,   \* agent_max_threads
    Unlimited,    \* spawns reserve without a limit (multi-agent v2)
    MaxResets     \* bound: resets of the nickname pool

\* A nickname is a name with the ordinals that were put behind it, "X the 2nd"
\* being <<X, <<2>> >>, whether a reset or a role's configuration put it there.
Nicknames == Bases \X Seq(Nat)

ASSUME DistinctAssumption ==
    /\ RootThread \notin Threads /\ Root \notin Paths \cup Threads
    /\ Paths \cap Threads = {} /\ NoPath \notin Paths \cup Threads
    /\ {Vacant, Reserved} \cap (Threads \cup {RootThread}) = {} /\ Vacant # Reserved
    /\ Unborn \notin Paths \cup {NoPath}
    /\ NoNick \notin Nicknames
    /\ SpawnPaths \subseteq Paths \cup {NoPath}
ASSUME NamesAssumption ==
    /\ Stored \subseteq Threads
    /\ StoredNicks \subseteq Nicknames \cup {NoNick}
    /\ \A names \in Pools : names \subseteq Nicknames
ASSUME FiniteAssumption ==
    IsFiniteSet(Procs) /\ IsFiniteSet(Threads) /\ IsFiniteSet(Paths)
ASSUME LimitsAssumption ==
    MaxThreads \in Nat /\ MaxResets \in Nat /\ Unlimited \in BOOLEAN

VARIABLES
    tree,      \* ActiveAgents::agent_tree: the agent_id filed under each key
    total,     \* AgentRegistry::total_count
    loaded,    \* ThreadManagerState::threads
    path,      \* the agent path each thread was created with
    nick,      \* the nickname stored for each thread
    called,    \* AgentMetadata::agent_nickname of the entry under each key
    used,      \* ActiveAgents::used_agent_nicknames
    resets,    \* ActiveAgents::nickname_reset_count
    op         \* the call each caller is in, with its SpawnReservation

vars == <<tree, total, loaded, path, nick, called, used, resets, op>>

Keys == Paths \cup {Root} \cup Threads
Steps == {"idle", "load", "cas", "root", "path", "nick", "create", "commit",
          "drop", "dec", "release"}
NoOp == [pc |-> "idle", resume |-> FALSE, thread |-> RootThread, path |-> NoPath,
         nick |-> NoNick, seen |-> 0]

TypeOK ==
    /\ tree \in [Keys -> Threads \cup {RootThread, Vacant, Reserved}]
    /\ total \in Nat
    /\ loaded \subseteq Threads \cup {RootThread}
    /\ path \in [Threads -> Paths \cup {NoPath, Unborn}]
    /\ nick \in [Threads -> Nicknames \cup {NoNick}]
    /\ called \in [Keys -> Nicknames \cup {NoNick}]
    /\ used \subseteq Nicknames
    /\ resets \in 0 .. MaxResets
    /\ op \in [Procs -> [pc : Steps, resume : BOOLEAN, thread : Threads \cup {RootThread},
                         path : Paths \cup {NoPath}, nick : Nicknames \cup {NoNick},
                         seen : Nat]]

\* A new registry: it knows nothing of the agents that are in the store.
Init ==
    /\ tree = [k \in Keys |-> Vacant]
    /\ total = 0
    /\ loaded = {RootThread}
    /\ \E stored \in [Stored -> SpawnPaths] :
          path = [t \in Threads |-> IF t \in Stored THEN stored[t] ELSE Unborn]
    /\ \E stored \in [Stored -> StoredNicks] :
          nick = [t \in Threads |-> IF t \in Stored THEN stored[t] ELSE NoNick]
    /\ called = [k \in Keys |-> NoNick]
    /\ used = {}
    /\ resets = 0
    /\ op = [p \in Procs |-> NoOp]

Goto(p, step) == op' = [op EXCEPT ![p].pc = step]
Return(p) == op' = [op EXCEPT ![p] = NoOp]

\* The key register_spawned_thread files an agent under.
KeyOf(p) == IF op[p].path = NoPath THEN op[p].thread ELSE op[p].path

-----------------------------------------------------------------------------
(* The callers: spawn_agent_internal, resume_single_agent_from_rollout *)

SpawnCall(p) ==
    /\ op[p].pc = "idle" /\ ~Unlimited
    /\ \E k \in SpawnPaths : op' = [op EXCEPT ![p] = [NoOp EXCEPT !.pc = "load", !.path = k]]
    /\ UNCHANGED <<tree, total, loaded, path, nick, called, used, resets>>

\* reserve_spawn_slot(None): a plain fetch_add.
SpawnUnlimited(p) ==
    /\ op[p].pc = "idle" /\ Unlimited
    /\ total' = total + 1
    /\ \E k \in SpawnPaths : op' = [op EXCEPT ![p] = [NoOp EXCEPT !.pc = "root", !.path = k]]
    /\ UNCHANGED <<tree, loaded, path, nick, called, used, resets>>

\* resume_agent of a thread that get_status did not find, whoever created it: it
\* comes back under the path and the nickname that are stored for it.
ResumeCall(p) ==
    /\ op[p].pc = "idle"
    /\ \E t \in Threads \ loaded :
          /\ path[t] # Unborn
          /\ op' = [op EXCEPT ![p] = [NoOp EXCEPT !.pc = "load", !.resume = TRUE, !.thread = t,
                                                  !.path = path[t], !.nick = nick[t]]]
    /\ UNCHANGED <<tree, total, loaded, path, nick, called, used, resets>>

-----------------------------------------------------------------------------
(* try_increment_spawned *)

\* The value the loop just read decides: refuse, or try to swap it.
Attempt(p) ==
    op' = [op EXCEPT ![p] = IF total >= MaxThreads THEN NoOp
                            ELSE [@ EXCEPT !.pc = "cas", !.seen = total]]

ReserveLoad(p) ==
    /\ op[p].pc = "load"
    /\ Attempt(p)
    /\ UNCHANGED <<tree, total, loaded, path, nick, called, used, resets>>

\* Mutant: the incremented value is stored without comparing.
ReserveCasStores(p) ==
    /\ op[p].pc = "cas"
    /\ total' = op[p].seen + 1
    /\ Goto(p, "root")
    /\ UNCHANGED <<tree, loaded, path, nick, called, used, resets>>

\* compare_exchange_weak; a failure carries the value found.
ReserveCas(p) ==
    /\ op[p].pc = "cas"
    /\ \/ /\ total = op[p].seen
          /\ total' = total + 1
          /\ Goto(p, "root")
       \/ /\ total # op[p].seen
          /\ Attempt(p)
          /\ UNCHANGED total
    /\ UNCHANGED <<tree, loaded, path, nick, called, used, resets>>

-----------------------------------------------------------------------------
(* prepare_thread_spawn *)

\* register_root_thread, for a child of the root (depth 1).
RegisterRoot(p) ==
    /\ op[p].pc = "root"
    /\ \/ UNCHANGED tree
       \/ tree[Root] = Vacant /\ tree' = [tree EXCEPT ![Root] = RootThread]
    /\ Goto(p, "path")
    /\ UNCHANGED <<total, loaded, path, nick, called, used, resets>>

\* Mutant: an occupied path is reserved again.
ReservePathAlways(p) ==
    /\ op[p].pc = "path"
    /\ tree' = IF op[p].path = NoPath THEN tree ELSE [tree EXCEPT ![op[p].path] = Reserved]
    /\ Goto(p, "nick")
    /\ UNCHANGED <<total, loaded, path, nick, called, used, resets>>

\* reserve_agent_path: an error drops a reservation that owns no path yet.
ReservePath(p) ==
    /\ op[p].pc = "path"
    /\ IF op[p].path = NoPath
         THEN Goto(p, "nick") /\ UNCHANGED tree
       ELSE IF tree[op[p].path] = Vacant
         THEN Goto(p, "nick") /\ tree' = [tree EXCEPT ![op[p].path] = Reserved]
         ELSE Goto(p, "dec") /\ UNCHANGED tree
    /\ UNCHANGED <<total, loaded, path, nick, called, used, resets>>

\* format_agent_nickname
Format(n, round) == IF round = 0 THEN n ELSE <<n[1], Append(n[2], round + 1)>>

\* The candidates that are free in the current round.
Available(names) == {n \in names : Format(n, resets) \notin used}

\* The nickname, which becomes a used one, goes to the reservation.
TakeNickname(p, x) == op' = [op EXCEPT ![p] = [@ EXCEPT !.pc = "create", !.nick = x]]

\* Mutant: the exhausted pool is cleared but the ordinal stays the same.
DrawNicknameSameRound(p, n) ==
    /\ resets < MaxResets
    /\ resets' = resets
    /\ used' = {Format(n, resets)}
    /\ TakeNickname(p, Format(n, resets))

\* The candidates are exhausted: clear the used names, go on with the next ordinal.
DrawNickname(p, n) ==
    /\ resets < MaxResets
    /\ resets' = resets + 1
    /\ used' = {Format(n, resets + 1)}
    /\ TakeNickname(p, Format(n, resets + 1))

\* reserve_agent_nickname: the stored nickname of a resumed agent, used or not,
\* a free candidate of the agent's role, or the first of a new round.
ReserveNickname(p) ==
    /\ op[p].pc = "nick"
    /\ \/ /\ op[p].nick # NoNick
          /\ used' = used \cup {op[p].nick}
          /\ Goto(p, "create")
          /\ UNCHANGED resets
       \/ /\ op[p].nick = NoNick
          /\ \E names \in Pools : \E n \in Available(names) :
                /\ used' = used \cup {Format(n, resets)}
                /\ TakeNickname(p, Format(n, resets))
          /\ UNCHANGED resets
       \/ /\ op[p].nick = NoNick
          /\ \E names \in Pools :
                /\ Available(names) = {}
                /\ \E n \in names : DrawNickname(p, n)
    /\ UNCHANGED <<tree, total, loaded, path, nick, called>>

-----------------------------------------------------------------------------
(* Thread creation, commit, and Drop of the reservation *)

\* The thread could not be started, or the caller's future was dropped while
\* it was being started.
CreateFails(p) ==
    /\ op[p].pc = "create"
    /\ Goto(p, "drop")
    /\ UNCHANGED <<tree, total, loaded, path, nick, called, used, resets>>

\* A fresh thread id is inserted into the thread manager, and the thread stored.
CreateSpawned(p) ==
    /\ op[p].pc = "create" /\ ~op[p].resume
    /\ \E t \in Threads :
          /\ path[t] = Unborn
          /\ path' = [path EXCEPT ![t] = op[p].path]
          /\ nick' = [nick EXCEPT ![t] = op[p].nick]
          /\ loaded' = loaded \cup {t}
          /\ op' = [op EXCEPT ![p] = [@ EXCEPT !.pc = "commit", !.thread = t]]
    /\ UNCHANGED <<tree, total, called, used, resets>>

\* finalize_thread_spawn refuses a thread that is already loaded. A name drawn
\* for a thread that had none is not stored.
CreateResumed(p) ==
    /\ op[p].pc = "create" /\ op[p].resume
    /\ IF op[p].thread \in loaded
         THEN Goto(p, "drop") /\ UNCHANGED loaded
         ELSE Goto(p, "commit") /\ loaded' = loaded \cup {op[p].thread}
    /\ UNCHANGED <<tree, total, path, nick, called, used, resets>>

\* SpawnReservation::commit: the placeholder, or nothing, becomes the agent,
\* whose nickname is used even if the pool was reset meanwhile.
Commit(p) ==
    /\ op[p].pc = "commit"
    /\ tree' = [tree EXCEPT ![KeyOf(p)] = op[p].thread]
    /\ called' = [called EXCEPT ![KeyOf(p)] = op[p].nick]
    /\ used' = used \cup ({op[p].nick} \ {NoNick})
    /\ Return(p)
    /\ UNCHANGED <<total, loaded, path, nick, resets>>

\* Mutant: the reserved path goes, the slot stays taken.
DropPathOnly(p) ==
    /\ op[p].pc = "drop"
    /\ tree' = IF op[p].path # NoPath /\ tree[op[p].path] = Reserved
                 THEN [tree EXCEPT ![op[p].path] = Vacant] ELSE tree
    /\ Return(p)
    /\ UNCHANGED <<total, loaded, path, nick, called, used, resets>>

\* release_reserved_agent_path spares an entry that has an agent.
DropPath(p) ==
    /\ op[p].pc = "drop"
    /\ tree' = IF op[p].path # NoPath /\ tree[op[p].path] = Reserved
                 THEN [tree EXCEPT ![op[p].path] = Vacant] ELSE tree
    /\ Goto(p, "dec")
    /\ UNCHANGED <<total, loaded, path, nick, called, used, resets>>

\* fetch_sub
Decrement(p) ==
    /\ op[p].pc = "dec"
    /\ total' = total - 1
    /\ Return(p)
    /\ UNCHANGED <<tree, loaded, path, nick, called, used, resets>>

-----------------------------------------------------------------------------
(* Closing: shutdown_live_agent, or a request that found the agent dead *)

\* The thread leaves the thread manager first.
CloseCall(p) ==
    /\ op[p].pc = "idle"
    /\ \E t \in {u \in Threads : path[u] # Unborn} \cup {RootThread} :
          /\ loaded' = loaded \ {t}
          /\ op' = [op EXCEPT ![p] = [NoOp EXCEPT !.pc = "release", !.thread = t]]
    /\ UNCHANGED <<tree, total, path, nick, called, used, resets>>

\* release_spawned_thread: the slot is given back after the mutex, and only
\* for an agent that was still registered and is not the root.
Release(p) ==
    /\ op[p].pc = "release"
    /\ \/ \E k \in Keys :
             /\ tree[k] = op[p].thread
             /\ tree' = [tree EXCEPT ![k] = Vacant]
             /\ called' = [called EXCEPT ![k] = NoNick]
             /\ IF k = Root THEN Return(p) ELSE Goto(p, "dec")
       \/ (\A k \in Keys : tree[k] # op[p].thread) /\ Return(p) /\ UNCHANGED <<tree, called>>
    /\ UNCHANGED <<total, loaded, path, nick, used, resets>>

\* ThreadManager::remove_thread, called by the app server for an idle or
\* archived thread: the registry is not told.
Unload(t) ==
    /\ t \in loaded
    /\ loaded' = loaded \ {t}
    /\ UNCHANGED <<tree, total, path, nick, called, used, resets, op>>

-----------------------------------------------------------------------------
ReserveSlot(p) == SpawnCall(p) \/ SpawnUnlimited(p) \/ ResumeCall(p) \/ ReserveLoad(p) \/ ReserveCas(p)
Prepare(p) == RegisterRoot(p) \/ ReservePath(p) \/ ReserveNickname(p)
Settle(p) ==
    \/ CreateFails(p) \/ CreateSpawned(p) \/ CreateResumed(p)
    \/ Commit(p) \/ DropPath(p) \/ Decrement(p)

Next ==
    \/ \E p \in Procs : ReserveSlot(p) \/ Prepare(p) \/ Settle(p) \/ CloseCall(p) \/ Release(p)
    \/ \E t \in Threads : Unload(t)

Spec == Init /\ [][Next]_vars

-----------------------------------------------------------------------------
(* Properties *)

\* Callers that own a slot: a live SpawnReservation, or a decrement to come.
Owners == {p \in Procs : op[p].pc \in {"root", "path", "nick", "create", "commit", "drop", "dec"}}
\* Registered agents that count: every entry with an agent but the root's.
Agents == {k \in Keys \ {Root} : tree[k] \in Threads}

\* No slot is given back twice: the counter never falls below what is in use,
\* however reservations, commits and releases interleave.
SlotsCovered == Cardinality(Owners) + Cardinality(Agents) <= total

\* So the limit holds for the agents themselves, not only for the counter:
\* those registered, those being spawned and those whose slot is on its way
\* back never exceed agent_max_threads together.
AgentsWithinLimit == ~Unlimited => Cardinality(Owners) + Cardinality(Agents) <= MaxThreads

\* "Total number of sub-agents (i.e. threads) per user session": no slot is
\* lost either, the counter is exactly what is in use.
SlotsExact == total = Cardinality(Owners) + Cardinality(Agents)

\* A reservation that got its path keeps it, alone, until it commits or drops:
\* no release, commit or drop of another caller frees or takes it.
PathHeld ==
    \A p \in Procs :
        op[p].pc \in {"nick", "create", "commit", "drop"} /\ op[p].path # NoPath =>
            /\ tree[op[p].path] = Reserved
            /\ \A q \in Procs \ {p} :
                  op[q].pc \in {"nick", "create", "commit", "drop"} => op[q].path # op[p].path

\* The agents this registry names: those spawned under it, and stored ones that
\* had no nickname. The others bring a nickname of their own.
NamedHere(t) == t \notin Stored \/ nick[t] = NoNick

\* Two registered agents that this registry named never share a nickname, across
\* resets of the pool, failed spawns, closes, unloads and resumes, whatever
\* names stored agents bring with them.
NicknamesDistinct ==
    \A k, l \in Agents :
        /\ NamedHere(tree[k]) /\ NamedHere(tree[l])
        /\ called[k] = called[l] /\ called[k] # NoNick
        => tree[k] = tree[l]

\* "Optional random unique nickname assigned to an AgentControl-spawned
\* sub-agent": no two registered agents have the same nickname.
NicknamesUnique ==
    \A k, l \in Agents : called[k] = called[l] /\ called[k] # NoNick => tree[k] = tree[l]
=============================================================================
