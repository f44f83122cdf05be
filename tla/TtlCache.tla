------------------------------ MODULE TtlCache ------------------------------
(***************************************************************************)
(* What cache.c promises its caller (the comments on cache_add_object,     *)
(* cache_get_object and cache_remove_object): a map from keys to the last  *)
(* object added, in which an object added more than TTL ago is not found.  *)
(* Every operation takes effect at once; answer is what a thread's current *)
(* call is, and what it returns.                                           *)
(***************************************************************************)
EXTENDS Integers

CONSTANTS Thread, Key, Value, TTL, MaxClock, NULL, NONE

VARIABLES
  clock,   \* the wall clock
  store,   \* the object of each key with the time it was added, or NULL
  answer   \* the call a thread is in with its result (NULL if void), or NONE

vars == <<clock, store, answer>>

Init ==
  /\ clock = 0
  /\ store = [k \in Key |-> NULL]
  /\ answer = [t \in Thread |-> NONE]

Answer(t, call, k, v) ==
  /\ answer[t] = NONE
  /\ answer' = [answer EXCEPT ![t] = [call |-> call, key |-> k, result |-> v]]
  /\ UNCHANGED clock

Outlived(k) == store[k] # NULL /\ store[k].added + TTL < clock

Put(t, k, v) ==
  /\ Answer(t, "add", k, NULL)
  /\ store' = [store EXCEPT ![k] = [value |-> v, added |-> clock]]

Get(t, k) ==
  \/ /\ store[k] # NULL
     /\ ~Outlived(k)
     /\ Answer(t, "get", k, store[k].value)
     /\ UNCHANGED store
  \/ /\ store[k] = NULL \/ Outlived(k)
     /\ Answer(t, "get", k, NULL)
     /\ store' = [store EXCEPT ![k] = NULL]

Remove(t, k) ==
  /\ Answer(t, "remove", k, NULL)
  /\ store' = [store EXCEPT ![k] = NULL]

Return(t) ==
  /\ answer' = [answer EXCEPT ![t] = NONE]
  /\ UNCHANGED <<clock, store>>

Clear ==
  /\ \A t \in Thread : answer[t] = NONE
  /\ store' = [k \in Key |-> NULL]
  /\ UNCHANGED <<clock, answer>>

ClockMoves ==
  /\ clock' \in 0..MaxClock
  /\ UNCHANGED <<store, answer>>

Next ==
  \/ \E t \in Thread, k \in Key : Get(t, k) \/ Remove(t, k)
  \/ \E t \in Thread, k \in Key, v \in Value : Put(t, k, v)
  \/ \E t \in Thread : Return(t)
  \/ Clear
  \/ ClockMoves

Spec == Init /\ [][Next]_vars
=============================================================================
