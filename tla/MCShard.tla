------------------------------- MODULE MCShard -------------------------------
(***************************************************************************)
(* Shard for TLC: the sizes and argument lists a cfg cannot write down.    *)
(***************************************************************************)
EXTENDS ShardRefinement

CONSTANTS k1, k2, k3, k4, v1, v2, v3

\* Where only time matters: every key and value has the same size.
MCSameKeyLen == [k \in Keys |-> 1]
MCSameValLen == [v \in Values |-> 1]

\* Where the limits matter: k4 and v3 are over the limit.
MCKeyLen == [k \in Keys |-> CASE k = k4 -> 9 [] k = k2 -> 2 [] OTHER -> 1]
MCValLen == [v \in Values |-> CASE v = v3 -> 9 [] v = v2 -> 3 [] OTHER -> 1]

\* DEL of one key, of two, and of the same key twice.
MCDelPairs == {<<a, b>> : a \in Keys, b \in Keys}
MCDelOne == {<<k>> : k \in Keys}
=============================================================================
