---------------------------- MODULE MCEnclaveRPC ----------------------------
(* Small instances of EnclaveRPC. *)
EXTENDS EnclaveRPC, TLC

CONSTANTS c1, c2, k1, k2, k3

\* Callers and sockets are interchangeable.
RpcSymmetry == Permutations(Callers) \cup Permutations(Conns)
=============================================================================
