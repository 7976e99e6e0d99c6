----------------------------- MODULE MCKeyCache -----------------------------
(* Small instances of KeyCache. *)
EXTENDS KeyCache, TLC

CONSTANTS t1, t2, x, y, z

KeySymmetry == Permutations(Threads) \cup Permutations(DataKeys)
=============================================================================
