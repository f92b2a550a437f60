------------------------------ MODULE YarnLock ------------------------------
(***************************************************************************)
(* The lock of libdstdec/yarn.c: a mutex, a condition variable and a value *)
(* that threads wait on.  The operators below are the steps a thread takes *)
(* inside possess, release, twist and wait_for; a module that uses locks   *)
(* extends this one and combines them with its own program counters.       *)
(***************************************************************************)
EXTENDS Integers, FiniteSets

CONSTANTS Threads, Locks,
          Nobody      \* the owner of a mutex that is not locked

ASSUME LockAssumption == Nobody \notin Threads

VARIABLES value,      \* bolt->value
          owner,      \* who has locked bolt->mutex
          asleep      \* who is blocked in pthread_cond_wait on bolt->cond

lockVars == <<value, owner, asleep>>

LocksInit(initial) ==
    /\ value = initial
    /\ owner = [l \in Locks |-> Nobody]
    /\ asleep = [l \in Locks |-> {}]

(* possess, and the end of pthread_cond_wait, which locks the mutex again  *)
Possess(t, l) ==
    /\ owner[l] = Nobody
    /\ t \notin asleep[l]
    /\ owner' = [owner EXCEPT ![l] = t]
    /\ UNCHANGED <<value, asleep>>

release(t, l) ==
    /\ owner[l] = t
    /\ owner' = [owner EXCEPT ![l] = Nobody]
    /\ UNCHANGED <<value, asleep>>

(* twist: set the value, wake every thread asleep on it, unlock            *)
twist(t, l, val) ==
    /\ owner[l] = t
    /\ value' = [value EXCEPT ![l] = val]
    /\ asleep' = [asleep EXCEPT ![l] = {}]
    /\ owner' = [owner EXCEPT ![l] = Nobody]

(* the loop of wait_for when its condition is false: pthread_cond_wait     *)
(* unlocks and sleeps in one step                                          *)
CondWait(t, l) ==
    /\ owner[l] = t
    /\ owner' = [owner EXCEPT ![l] = Nobody]
    /\ asleep' = [asleep EXCEPT ![l] = @ \cup {t}]
    /\ UNCHANGED value

(* pthread_cond_wait may return without a broadcast                        *)
SpuriousWakeup(t, l) ==
    /\ t \in asleep[l]
    /\ asleep' = [asleep EXCEPT ![l] = @ \ {t}]
    /\ UNCHANGED <<value, owner>>
=============================================================================
