----------------------------- MODULE GranularLock ----------------------------
(***************************************************************************)
(* What a SIX semaphore promises to its callers, with no queue, mask or     *)
(* counter: each thread holds the semaphore in at most one class, and it    *)
(* gets a class only while every OTHER thread's class lets it in.           *)
(***************************************************************************)
EXTENDS LockModes

CONSTANT Threads

VARIABLE held      \* the class each thread holds (LOCK_NULL: none)

\* No other thread's class stands in the way of t getting class m.
Admissible(t, m) == \A u \in Threads \ {t} : held[u] \in COMPAT_MASK[m]

AInit == held = [t \in Threads |-> LOCK_NULL]

\* t gets, or converts its class to, the class the table makes of its request.
Acquire(t, m) ==
  LET new == upgrade_conversion[m][held[t]]
  IN  /\ Admissible(t, new)
      /\ held' = [held EXCEPT ![t] = new]

\* t gives up its class.
Release(t) == held' = [held EXCEPT ![t] = LOCK_NULL]

ANext == \E t \in Threads : Release(t) \/ \E m \in Modes : Acquire(t, m)

ASpec == AInit /\ [][ANext]_held
=============================================================================
