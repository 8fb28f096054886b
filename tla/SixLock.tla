------------------------------- MODULE SixLock -------------------------------
(***************************************************************************)
(* The SIX (shared / intent-exclusive) semaphore of six_lock.c, with the    *)
(* condition variable of kcondvar.c it sleeps on.                           *)
(*                                                                          *)
(* Every call runs under sem->sixsem_lock, so each stretch of code between  *)
(* taking the spin lock and releasing it (at return, or inside              *)
(* fusion_condvar_wait) is one atomic action.  A thread that is inside      *)
(* fusion_condvar_wait has an outstanding request (want # LOCK_NULL); it is *)
(* asleep while it is in the wait queue and runnable once it left it.       *)
(***************************************************************************)
EXTENDS Integers, Sequences, FiniteSets, LockModes

CONSTANTS
  Threads,        \* the threads that use the semaphore
  Interruptible,  \* those that can get a task signal (kernel threads do not)
  DownModes,      \* classes asked for with fusion_sixsem_down and _down_trylock
  UpgradeModes,   \* classes asked for with fusion_sixsem_upgrade by a holder
  HeldMax,        \* largest fusion_sixsem_held_size_t (65535)
  WaitMax,        \* largest fusion_sixsem_wait_size_t (65535)
  SerialMod,      \* the serial numbers are counted modulo this (2^64)
  SerialBound     \* conversions are requested only below this serial; SerialMod
                  \* is no bound, a smaller one keeps the serials from wrapping

ASSUME ThreadsFinite == IsFiniteSet(Threads) /\ Interruptible \subseteq Threads
ASSUME ModesAsked ==
  DownModes \subseteq Modes \ {LOCK_NULL} /\ UpgradeModes \subseteq Modes \ {LOCK_NULL}
ASSUME Widths ==
  /\ HeldMax \in Nat \ {0}
  /\ WaitMax \in Nat \ {0}
  /\ SerialMod \in Nat \ {0, 1}
  /\ SerialBound \in 0..SerialMod

VARIABLES
  cur_locks_mask,   \* the classes whose bit is set
  lock_counts,      \* holders counted per class
  wait_count,       \* calls of fusion_sixsem_upgrade that have not left it
  wake_serial,      \* conversions granted
  wait_serial,      \* conversions requested
  sixsem_cv,        \* the wait queue of the condition variable
  held,             \* the class each thread holds (what the callers know)
  want,             \* the converted class a thread in the wait loop is after
  serial,           \* the serial that thread drew
  dropped           \* history: the calls that gave up because the count of the class
                    \* they were granted was full

counters == <<cur_locks_mask, lock_counts>>
serials  == <<wake_serial, wait_serial>>
vars == <<cur_locks_mask, lock_counts, wait_count, wake_serial, wait_serial,
          sixsem_cv, held, want, serial, dropped>>

Waiting == {t \in Threads : want[t] # LOCK_NULL}

Asleep(t) == \E i \in 1..Len(sixsem_cv) : sixsem_cv[i] = t
-----------------------------------------------------------------------------
(* The condition variable: waiters are exclusive, so they queue in FIFO     *)
(* order and a signal takes exactly one of them off the queue.              *)

fusion_condvar_wait(q, t) == Append(q, t)

\* Mutant of fusion_condvar_signal: the wakeup is lost.
LostSignal(q) == q

fusion_condvar_signal(q) == IF q = <<>> THEN q ELSE Tail(q)
-----------------------------------------------------------------------------
(* Helpers of six_lock.c *)

\* What the comment above serial64_compare promises: -1, 0 or 1 as s1 is before,
\* at or after s2, over wrapping numbers.  (Also a mutant of the code's version.)
DocumentedSerialCompare(s1, s2) ==
  CASE s1 = s2 -> 0
    [] s1 # s2 /\ (s2 - s1) % SerialMod < SerialMod \div 2 -> -1
    [] s1 # s2 /\ (s2 - s1) % SerialMod >= SerialMod \div 2 -> 1

\* The code: s2 - s1 is an unsigned subtraction in both branches.
serial64_compare(s1, s2) ==
  LET near == (s2 - s1) % SerialMod < SerialMod \div 2
  IN  CASE s1 = s2 -> 0
        [] s1 < s2 -> IF near THEN -1 ELSE 1
        [] s1 > s2 -> IF near THEN 1 ELSE -1

\* Mutant of six_lock_is_compatible: other holders of old_mode are overlooked.
CompatibleIgnoringPeers(old_mode, new_mode) ==
  cur_locks_mask \ {old_mode} \subseteq COMPAT_MASK[new_mode]

\* The request is compatible with the held classes; the requester's own old
\* class is left out when it is the only holder of it.
six_lock_is_compatible(old_mode, new_mode) ==
  LET locks_mask == IF lock_counts[old_mode] = 1
                    THEN cur_locks_mask \ {old_mode} ELSE cur_locks_mask
  IN  cur_locks_mask = {} \/ locks_mask \subseteq COMPAT_MASK[new_mode]

\* Mutant of MustWait: pending conversions do not hold a request back.
MustWaitNoSerial(old_mode, new_mode, s) ==
  ~six_lock_is_compatible(old_mode, new_mode)

\* The condition of the wait loop, less its init_flag disjunct.
MustWait(old_mode, new_mode, s) ==
  \/ serial64_compare(s, wake_serial) < 0
  \/ ~six_lock_is_compatible(old_mode, new_mode)

\* --lock_counts[mode], and the bit goes with the last holder.
DropCount(mode) == [lock_counts EXCEPT ![mode] = @ - 1]

\* Mutant of DropMask: the bit is cleared whenever somebody leaves.
DropMaskAlways(mode) == cur_locks_mask \ {mode}

DropMask(mode) ==
  IF lock_counts[mode] = 1 THEN cur_locks_mask \ {mode} ELSE cur_locks_mask
-----------------------------------------------------------------------------
Init ==
  /\ cur_locks_mask = {}
  /\ lock_counts = [m \in Modes |-> 0]
  /\ wait_count = 0
  /\ wake_serial = 0
  /\ wait_serial = 0
  /\ sixsem_cv = <<>>
  /\ held = [t \in Threads |-> LOCK_NULL]
  /\ want = [t \in Threads |-> LOCK_NULL]
  /\ serial = [t \in Threads |-> 0]
  /\ dropped = 0

\* Mutant of Grant: the limit of the count is not looked at.
GrantWithoutLimit(t, old_mode, new_mode, waiters) ==
  LET counts == IF old_mode = LOCK_NULL THEN lock_counts ELSE DropCount(old_mode)
      mask   == IF old_mode = LOCK_NULL THEN cur_locks_mask ELSE DropMask(old_mode)
  IN  /\ wake_serial' = IF old_mode = LOCK_NULL THEN wake_serial
                        ELSE (wake_serial + 1) % SerialMod
      /\ lock_counts' = [counts EXCEPT ![new_mode] = @ + 1]
      /\ cur_locks_mask' = mask \cup {new_mode}
      /\ held' = [held EXCEPT ![t] = new_mode]
      /\ wait_count' = waiters - 1
      /\ UNCHANGED dropped
      /\ sixsem_cv' = IF waiters > 1 THEN fusion_condvar_signal(sixsem_cv) ELSE sixsem_cv

\* Mutant of Grant: only a grant that leaves somebody waiting counts itself out.
GrantStillCounted(t, old_mode, new_mode, waiters) ==
  LET counts == IF old_mode = LOCK_NULL THEN lock_counts ELSE DropCount(old_mode)
      mask   == IF old_mode = LOCK_NULL THEN cur_locks_mask ELSE DropMask(old_mode)
      full   == counts[new_mode] = HeldMax
  IN  /\ wake_serial' = IF old_mode = LOCK_NULL THEN wake_serial
                        ELSE (wake_serial + 1) % SerialMod
      /\ lock_counts' = IF full THEN counts ELSE [counts EXCEPT ![new_mode] = @ + 1]
      /\ cur_locks_mask' = IF full THEN mask ELSE mask \cup {new_mode}
      /\ held' = [held EXCEPT ![t] = IF full THEN LOCK_NULL ELSE new_mode]
      /\ wait_count' = IF full \/ waiters = 1 THEN waiters ELSE waiters - 1
      /\ dropped' = IF full THEN dropped + 1 ELSE dropped
      /\ sixsem_cv' = IF ~full /\ waiters > 1
                      THEN fusion_condvar_signal(sixsem_cv) ELSE sixsem_cv

\* The tail of fusion_sixsem_upgrade, reached with the wait loop's condition
\* false: t drops old_mode and takes new_mode.  If the count of new_mode is at
\* its limit the call returns -EAGAIN from here: old_mode is gone, and wait_count
\* still counts the call.
Grant(t, old_mode, new_mode, waiters) ==
  LET counts == IF old_mode = LOCK_NULL THEN lock_counts ELSE DropCount(old_mode)
      mask   == IF old_mode = LOCK_NULL THEN cur_locks_mask ELSE DropMask(old_mode)
      full   == counts[new_mode] = HeldMax
  IN  /\ wake_serial' = IF old_mode = LOCK_NULL THEN wake_serial
                        ELSE (wake_serial + 1) % SerialMod
      /\ lock_counts' = IF full THEN counts ELSE [counts EXCEPT ![new_mode] = @ + 1]
      /\ cur_locks_mask' = IF full THEN mask ELSE mask \cup {new_mode}
      /\ held' = [held EXCEPT ![t] = IF full THEN LOCK_NULL ELSE new_mode]
      /\ wait_count' = IF full THEN waiters ELSE waiters - 1
      /\ dropped' = IF full THEN dropped + 1 ELSE dropped
      /\ sixsem_cv' = IF ~full /\ waiters > 1
                      THEN fusion_condvar_signal(sixsem_cv) ELSE sixsem_cv

\* A call that enters the semaphore: it asks for new_mode while holding old_mode.
\* The disjuncts are: the waiter count is full (-EAGAIN), granted at once, and
\* going to sleep.  The first pass has init_flag set: anyone already inside the
\* call is a reason to wait.
Request(t, old_mode, new_mode) ==
  LET waiters == wait_count + 1
      drawn   == IF old_mode = LOCK_NULL THEN wait_serial
                 ELSE (wait_serial + 1) % SerialMod
      wait    == waiters > 1 \/ MustWait(old_mode, new_mode, wait_serial)
  IN  \/ /\ wait_count = WaitMax
         /\ UNCHANGED vars
      \/ /\ wait_count < WaitMax
         /\ ~wait
         /\ wait_serial' = drawn
         /\ Grant(t, old_mode, new_mode, waiters)
         /\ UNCHANGED <<want, serial>>
      \/ /\ wait_count < WaitMax
         /\ wait
         /\ wait_serial' = drawn
         /\ wait_count' = waiters
         /\ want' = [want EXCEPT ![t] = new_mode]
         /\ serial' = [serial EXCEPT ![t] = wait_serial]
         /\ sixsem_cv' = fusion_condvar_wait(sixsem_cv, t)
         /\ UNCHANGED <<counters, wake_serial, held, dropped>>

fusion_sixsem_down(t, new_mode) ==
  /\ t \notin Waiting
  /\ held[t] = LOCK_NULL
  /\ Request(t, LOCK_NULL, upgrade_conversion[new_mode][LOCK_NULL])

fusion_sixsem_upgrade(t, new_mode) ==
  /\ t \notin Waiting
  /\ held[t] # LOCK_NULL
  /\ wait_serial < SerialBound
  /\ Request(t, held[t], upgrade_conversion[new_mode][held[t]])

\* A thread that left the wait queue gets the spin lock back and tests the loop
\* condition again, now with init_flag false: back to the end of the queue, or
\* granted.
Resume(t) ==
  /\ t \in Waiting
  /\ ~Asleep(t)
  /\ \/ /\ MustWait(held[t], want[t], serial[t])
        /\ sixsem_cv' = fusion_condvar_wait(sixsem_cv, t)
        /\ UNCHANGED <<counters, serials, wait_count, held, want, serial, dropped>>
     \/ /\ ~MustWait(held[t], want[t], serial[t])
        /\ Grant(t, held[t], want[t], wait_count)
        /\ want' = [want EXCEPT ![t] = LOCK_NULL]
        /\ serial' = [serial EXCEPT ![t] = 0]
        /\ UNCHANGED wait_serial

\* The sleep is TASK_INTERRUPTIBLE: a task signal ends schedule() without any
\* fusion_condvar_signal, and finish_wait takes the waiter off the queue.
Interrupted(t) ==
  /\ \E i \in 1..Len(sixsem_cv) :
       /\ sixsem_cv[i] = t
       /\ sixsem_cv' = SubSeq(sixsem_cv, 1, i - 1) \o SubSeq(sixsem_cv, i + 1, Len(sixsem_cv))
  /\ UNCHANGED <<counters, serials, wait_count, held, want, serial, dropped>>

\* Immediately granted or refused.  It needs an empty wait count, no pending
\* conversion, a compatible class and a count below its limit.
fusion_sixsem_down_trylock(t, mode) ==
  /\ t \notin Waiting
  /\ held[t] = LOCK_NULL
  /\ \/ /\ wait_count = 0
        /\ wait_serial = wake_serial
        /\ six_lock_is_compatible(LOCK_NULL, mode)
        /\ lock_counts[mode] < HeldMax
        /\ lock_counts' = [lock_counts EXCEPT ![mode] = @ + 1]
        /\ cur_locks_mask' = cur_locks_mask \cup {mode}
        /\ held' = [held EXCEPT ![t] = mode]
        /\ UNCHANGED <<wait_count, serials, sixsem_cv, want, serial, dropped>>
     \/ /\ \/ wait_count > 0
           \/ wait_serial # wake_serial
           \/ ~six_lock_is_compatible(LOCK_NULL, mode)
           \/ lock_counts[mode] = HeldMax
        /\ UNCHANGED vars

fusion_sixsem_up(t) ==
  /\ t \notin Waiting
  /\ held[t] # LOCK_NULL
  /\ lock_counts' = DropCount(held[t])
  /\ cur_locks_mask' = DropMask(held[t])
  /\ held' = [held EXCEPT ![t] = LOCK_NULL]
  /\ sixsem_cv' = fusion_condvar_signal(sixsem_cv)
  /\ UNCHANGED <<wait_count, serials, want, serial, dropped>>

Next ==
  \E t \in Threads :
    \/ \E m \in DownModes : fusion_sixsem_down(t, m)
    \/ \E m \in DownModes : fusion_sixsem_down_trylock(t, m)
    \/ \E m \in UpgradeModes : fusion_sixsem_upgrade(t, m)
    \/ Resume(t)
    \/ t \in Interruptible /\ Interrupted(t)
    \/ fusion_sixsem_up(t)

Spec == Init /\ [][Next]_vars

\* A runnable thread is scheduled and gets the spin lock, and a holder that is
\* not itself waiting eventually releases.  Nothing obliges anyone to ask for
\* the lock, and no task signal has to come.
Fairness ==
  \A t \in Threads : WF_vars(Resume(t)) /\ WF_vars(fusion_sixsem_up(t))

FairSpec == Spec /\ Fairness
-----------------------------------------------------------------------------
(* Properties *)

TypeOK ==
  /\ cur_locks_mask \subseteq Modes
  /\ lock_counts \in [Modes -> 0..HeldMax]
  /\ wait_count \in 0..WaitMax
  /\ wake_serial \in 0..(SerialMod - 1)
  /\ wait_serial \in 0..(SerialMod - 1)
  /\ sixsem_cv \in Seq(Threads)
  /\ held \in [Threads -> Modes]
  /\ want \in [Threads -> Modes]
  /\ serial \in [Threads -> 0..(SerialMod - 1)]
  /\ dropped \in Nat

HoldersOf(m) == {t \in Threads : held[t] = m}

\* lock_counts and cur_locks_mask, kept by increments, decrements and bit
\* operations in three functions and on their error paths, say exactly who holds
\* the semaphore.
BookkeepingExact ==
  /\ \A m \in Modes \ {LOCK_NULL} : lock_counts[m] = Cardinality(HoldersOf(m))
  /\ lock_counts[LOCK_NULL] = 0
  /\ cur_locks_mask = {m \in Modes : lock_counts[m] > 0}

\* Two threads never hold classes of which neither may join the other: the code
\* only looks at the mask and at one counter, never at the holders.
HoldersCompatible ==
  \A t, u \in Threads :
    t # u => held[t] \in COMPAT_MASK[held[u]] \/ held[u] \in COMPAT_MASK[held[t]]

Converting == {t \in Waiting : held[t] # LOCK_NULL}

\* The conversions that are waiting hold exactly the serials between wake_serial
\* and wait_serial, one each: none is skipped and none is drawn twice.
ConversionSerials ==
  /\ (wait_serial - wake_serial) % SerialMod = Cardinality(Converting)
  /\ \A t \in Converting :
       (serial[t] - wake_serial) % SerialMod < Cardinality(Converting)
  /\ \A t, u \in Converting : t # u => serial[t] # serial[u]

\* Conversions are granted in the order in which they were asked for: a step
\* that ends one ends the one that drew the oldest serial.
ConversionOrder ==
  [][\A t \in Converting :
       want'[t] = LOCK_NULL =>
         \A u \in Converting :
           (serial[t] - wake_serial) % SerialMod <= (serial[u] - wake_serial) % SerialMod]_vars

\* wait_count is the number of threads inside the wait loop and of the calls that
\* were granted a class whose count was full: such a call returns -EAGAIN without
\* counting itself out (six_lock.c:255-260), one that found wait_count itself full
\* does (210-215).  So every overflow of a class leaves one waiter too many for good,
\* and nothing else does.
WaitersCounted == wait_count = Cardinality(Waiting) + dropped

\* Every waiter is counted (also when overflows have left surplus counts), and
\* what it waits for is a conversion of the class it still holds.
WaitersSound ==
  /\ Cardinality(Waiting) <= wait_count
  /\ \A t \in Waiting : \E m \in Modes : want[t] = upgrade_conversion[m][held[t]]

\* The inductive invariant of the proofs: it holds whatever the widths of the
\* counters, -EAGAIN paths included.
IInv == TypeOK /\ BookkeepingExact /\ HoldersCompatible /\ WaitersSound

\* A semaphore that is free while threads wait for it is taken again.
FreeLockTaken ==
  (Waiting # {} /\ cur_locks_mask = {}) ~> (cur_locks_mask # {})

\* The comment at the wait loop: init_flag "prevents starvation".
NoStarvation == \A t \in Threads : (t \in Waiting) ~> (t \notin Waiting)

\* What callers see of the semaphore is a multiple-granularity lock.
Lock == INSTANCE GranularLock WITH Threads <- Threads, held <- held
ImplementsGranularLock == Lock!ASpec
=============================================================================
