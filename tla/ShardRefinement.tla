--------------------------- MODULE ShardRefinement ---------------------------
(***************************************************************************)
(* A shard implements the abstract store of TtlStore.                      *)
(*                                                                         *)
(* The heap, the counters and the worker's position are hidden.  A sweep   *)
(* is a series of Forget steps.  A DEL takes effect when it begins: the    *)
(* keys it still has to remove are gone already, and its answer is what it *)
(* has counted plus what it will count.                                    *)
(***************************************************************************)
EXTENDS Shard

\* The keys a DEL that is under way still has to remove.
Pending == {del_keys[i] : i \in 1 .. Len(del_keys)}

AbstractData ==
    [k \in Keys |-> IF worker = "del" /\ k \in Pending THEN None ELSE data[k]]

AbstractReply ==
    IF worker = "del"
      THEN <<"Integer", deleted + Cardinality({k \in Pending : data[k] # None})>>
      ELSE reply

Store ==
    INSTANCE TtlStore WITH
        clock <- now,
        store <- AbstractData,
        up <- worker # "panicked",
        answer <- AbstractReply,
        InfoAnswers <- InfoResponses

\* Every behaviour of the shard's worker, with its heap, its lazy and active
\* expiry and its counters, is one the abstract store allows.
ImplementsStore == Store!StoreSpec
=============================================================================
