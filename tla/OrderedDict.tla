---------------------------- MODULE OrderedDict ----------------------------
(***************************************************************************)
(* Python's collections.OrderedDict, as the two caches of the enclave use  *)
(* it: the sequence of its items, oldest first.  InferenceEngine._models   *)
(* and EnclaveKMSClient._cache are such values.                            *)
(***************************************************************************)
EXTENDS Naturals, Sequences, FiniteSets, SequencesExt

Items(K, V) == [key : K, value : V]

Keys(d) == {d[i].key : i \in DOMAIN d}

\* No key occurs twice.
IsDict(d) == \A i, j \in DOMAIN d : d[i].key = d[j].key => i = j

PositionOf(d, k) == CHOOSE i \in DOMAIN d : d[i].key = k

\* d[k], for a key of d.
Lookup(d, k) == d[PositionOf(d, k)].value

\* d.pop(k, None)
Drop(d, k) == IF k \in Keys(d) THEN RemoveAt(d, PositionOf(d, k)) ELSE d

\* d after a pop of every other position: the kept ones stay in their order.
Retain(d, kept) ==
    LET count == Cardinality(kept)
        order == CHOOSE f \in [1..count -> kept] :
                    \A i, j \in 1..count : i < j => f[i] < f[j]
    IN  [i \in 1..count |-> d[order[i]]]

\* d[k] = v; d.move_to_end(k)
SetLast(d, k, v) == Append(Drop(d, k), [key |-> k, value |-> v])

\* Mutant of Touch: an access does not move the entry.
TouchNothing(d, k) == d

\* d.move_to_end(k), for a key of d.
Touch(d, k) == SetLast(d, k, Lookup(d, k))

\* Mutant of EvictTo: one entry too many stays.
EvictToOneMore(d, size) ==
    IF Len(d) > size + 1 THEN SubSeq(d, Len(d) - size, Len(d)) ELSE d

\* while len(d) > size: d.popitem(last=False)
EvictTo(d, size) ==
    IF Len(d) > size THEN SubSeq(d, Len(d) - size + 1, Len(d)) ELSE d
=============================================================================
