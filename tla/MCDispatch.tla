----------------------------- MODULE MCDispatch -----------------------------
(***************************************************************************)
(* Dispatch for TLC: two shards with a key on each.                        *)
(***************************************************************************)
EXTENDS Dispatch

CONSTANTS c1, c2, s1, s2, a, b

MCRouteKey == [k \in Keys |-> IF k = b THEN s2 ELSE s1]

\* Between them every kind of answer, on both shards; the DEL has a part on
\* each of them.
MCCommands == [c \in Clients |->
    IF c = c1
    THEN {[op |-> "set", keys |-> {a}], [op |-> "del", keys |-> {a, b}]}
    ELSE {[op |-> "get", keys |-> {a}], [op |-> "set", keys |-> {b}]}]

\* The first connection goes on after a timeout; the second competes with it.
MCMaxRequests == [c \in Clients |-> IF c = c1 THEN 2 ELSE 1]
=============================================================================
