-------------------------- MODULE MCAgentRegistry --------------------------
(* Instances of AgentRegistry for TLC. *)
EXTENDS AgentRegistry, TLC

CONSTANT n1

\* A pool of one name.
OneName == {{<<n1, <<>>>>}}

\* What stored agents may be called: nothing, the name a fresh pool gives out
\* first, or the one it gives out after a reset.
AnyStored == {NoNick, <<n1, <<>>>>, <<n1, <<2>>>>}
SameName == {<<n1, <<>>>>}

\* Callers, thread ids (new or stored) and paths are interchangeable: the
\* instances spawn under every path.
Symmetry == Permutations(Procs) \cup Permutations(Stored) \cup Permutations(Threads \ Stored)
            \cup Permutations(Paths)
=============================================================================
