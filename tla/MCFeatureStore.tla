--------------------------- MODULE MCFeatureStore ---------------------------
(* A small instance of FeatureStore. *)
EXTENDS FeatureStore, TLC

CONSTANTS c1, c2, a, b, u

\* The tenant a has a record, with the key a, and b has none.
OwnKey == [t \in {a} |-> a]

\* The tenant with its key, with another, with one that is not ASCII, a header
\* that is missing, and the tenant without a record.
SomeCredentials == {<<a, a>>, <<a, b>>, <<a, u>>, <<Missing, a>>, <<b, b>>}

\* Every batch asks for all sets.
AllSets == {Sets}

ClientSymmetry == Permutations(Clients)
=============================================================================
