----------------------- MODULE MCRequestSerialization -----------------------
(* Instances of RequestSerialization for TLC: two writers and two readers of
   one key, sent over two connections, and a request without a scope. *)
EXTENDS RequestSerialization, TLC

CONSTANTS w1, w2, r1, r2, free, c1, c2, k1

MCConnOf == [r \in Requests |-> IF r \in {w1, r1} THEN c1 ELSE c2]
MCKeyOf == [r \in Requests |-> IF r = free THEN NoKey ELSE k1]
MCSharedReads == {r1, r2} \cap Requests
=============================================================================
