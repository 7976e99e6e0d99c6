-------------------------- MODULE MCInferenceRoute --------------------------
(* Small instances of InferenceRoute. *)
EXTENDS InferenceRoute, TLC

CONSTANTS r1, r2, t1, t2, a, x

OneModel == x :> a

RouteSymmetry == Permutations(Requests) \cup Permutations(Trainers)
=============================================================================
