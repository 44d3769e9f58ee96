------------------------------- MODULE TtlStore -------------------------------
(***************************************************************************)
(* What a shard promises its clients, without heap, counters or sweeps: a  *)
(* map from keys to values with deadlines, each command one atomic step.   *)
(*                                                                         *)
(* An entry whose deadline has passed is in limbo.  It may vanish at any   *)
(* moment (Forget).  Until it does, GET and TTL answer as if it were gone  *)
(* and make it so, while DEL counts it and EXPIRE renews it.               *)
(*                                                                         *)
(* It is the abstract side of shard.rs: an operation maps to the lines of  *)
(* the handler it summarises.                                              *)
(***************************************************************************)
EXTENDS Integers, FiniteSets

CONSTANTS
    Keys, Values, Ttls,
    TicksPerSec,   \* clock ticks in a second
    InstantMax,    \* the last deadline that can be represented
    InfoAnswers,   \* what PING and INFO may answer
    None           \* no entry, or no deadline

Deadlines == 0 .. InstantMax
Records == [value : Values, expiry : Deadlines \cup {None}]

VARIABLES
    clock,   \* the time
    store,   \* the entry of each key, or None
    up,      \* FALSE once the shard has died
    answer   \* the last answer given to a client

storeVars == <<clock, store, up, answer>>

Refusals == {"key too large", "value too large", "shard full", "OOM"}

Lapsed(k) == store[k].expiry # None /\ store[k].expiry <= clock

\* GET and TTL see only these.
Alive(k) == store[k] # None /\ ~Lapsed(k)

StoreInit ==
    /\ clock = 0
    /\ store = [k \in Keys |-> None]
    /\ up = TRUE
    /\ answer = <<"Ok">>

Answer(a) == up /\ answer' = a /\ UNCHANGED <<clock, up>>

DeadlineIn(secs) == clock + secs * TicksPerSec

\* SET replaces value and deadline together, or is refused and changes nothing.
Set(k, v, ttl) ==
    \/ /\ Answer(<<"Ok">>)
       /\ LET expiry == IF ttl = None THEN None ELSE DeadlineIn(ttl)
          IN  /\ expiry \in Deadlines \cup {None}
              /\ store' = [store EXCEPT ![k] = [value |-> v, expiry |-> expiry]]
    \/ /\ \E r \in Refusals : Answer(<<"Error", r>>)
       /\ UNCHANGED store

\* GET answers the value of the last SET while it lives, and never after.
Get(k) ==
    \/ /\ Alive(k)
       /\ Answer(<<"Value", store[k].value>>)
       /\ UNCHANGED store
    \/ /\ ~Alive(k)
       /\ Answer(<<"Value", None>>)
       /\ store' = [store EXCEPT ![k] = None]

\* TTL answers -2 without an entry, -1 without a deadline, and otherwise
\* the whole seconds left.
Ttl(k) ==
    \/ /\ Alive(k) /\ store[k].expiry = None
       /\ Answer(<<"Integer", -1>>)
       /\ UNCHANGED store
    \/ /\ Alive(k) /\ store[k].expiry # None
       /\ Answer(<<"Integer", (store[k].expiry - clock) \div TicksPerSec>>)
       /\ UNCHANGED store
    \/ /\ ~Alive(k)
       /\ Answer(<<"Integer", -2>>)
       /\ store' = [store EXCEPT ![k] = None]

\* EXPIRE keeps the value and replaces the deadline, also of an entry in limbo.
Expire(k, secs) ==
    \/ /\ store[k] # None /\ DeadlineIn(secs) \in Deadlines
       /\ Answer(<<"Integer", 1>>)
       /\ store' = [store EXCEPT ![k].expiry = DeadlineIn(secs)]
    \/ /\ store[k] = None
       /\ Answer(<<"Integer", 0>>)
       /\ UNCHANGED store

\* DEL removes its keys at once, and counts those that had an entry once each.
Del(K) ==
    /\ Answer(<<"Integer", Cardinality({k \in K : store[k] # None})>>)
    /\ store' = [k \in Keys |-> IF k \in K THEN None ELSE store[k]]

\* PING and INFO leave the store alone.
Inform ==
    /\ up
    /\ answer' \in InfoAnswers
    /\ UNCHANGED <<clock, store, up>>

\* An entry in limbo vanishes, unasked.
Forget(k) ==
    /\ up
    /\ store[k] # None /\ Lapsed(k)
    /\ store' = [store EXCEPT ![k] = None]
    /\ UNCHANGED <<clock, up, answer>>

\* The shard dies: it answers nobody any more.
Die ==
    /\ up
    /\ up' = FALSE
    /\ UNCHANGED <<clock, store, answer>>

Pass ==
    /\ clock' = clock + 1
    /\ UNCHANGED <<store, up, answer>>

StoreNext ==
    \/ \E k \in Keys :
         \/ \E v \in Values, ttl \in Ttls \cup {None} : Set(k, v, ttl)
         \/ \E secs \in Ttls : Expire(k, secs)
         \/ Get(k) \/ Ttl(k) \/ Forget(k)
    \/ \E K \in SUBSET Keys : Del(K)
    \/ Inform
    \/ Die
    \/ Pass

StoreSpec == StoreInit /\ [][StoreNext]_storeVars
=============================================================================
