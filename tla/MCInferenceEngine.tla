------------------------- MODULE MCInferenceEngine -------------------------
(* Small instances of InferenceEngine. *)
EXTENDS InferenceEngine, TLC

CONSTANTS w1, w2, w3, a, b, x, y, z

\* Tenant a has models x and z, tenant b has y.
UnsharedStored == {<<a, x>>, <<b, y>>}
ThreeStored == {<<a, x>>, <<b, y>>, <<a, z>>}
\* Both tenants have a model x.
SharedStored == {<<a, x>>, <<b, x>>}

WorkerSymmetry == Permutations(Workers)
=============================================================================
