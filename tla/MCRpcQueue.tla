----------------------------- MODULE MCRpcQueue -----------------------------
(* Model values for checking RpcQueue with TLC. *)
EXTENDS RpcQueue, TLC

CONSTANTS p1, p2, c1, c2

Symmetry == Permutations(Producers) \cup Permutations(Consumers)

=============================================================================
