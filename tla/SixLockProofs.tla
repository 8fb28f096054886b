---------------------------- MODULE SixLockProofs ----------------------------
(***************************************************************************)
(* Proofs about the SIX semaphore for any number of threads and any width   *)
(* of its counters.  The argument: IInv says that mask and counters describe *)
(* the holders exactly, so the test the code makes on mask and counter is   *)
(* the test of the abstract lock on the holders.                            *)
(***************************************************************************)
EXTENDS SixLock, FiniteSetTheorems, SequenceTheorems, TLAPS

\* Facts about the two tables, by cases on the classes.
LEMMA NullJoinsAll == \A m \in Modes : LOCK_NULL \in COMPAT_MASK[m]
BY DEF Modes, COMPAT_MASK, LOCK_NULL

\* upgrade_conversion yields classes, never LOCK_NULL for a real request, and the
\* requested class itself for a caller that holds nothing.
LEMMA ConversionType ==
  ASSUME NEW m \in Modes, NEW o \in Modes
  PROVE  /\ upgrade_conversion[m][o] \in Modes
         /\ m # LOCK_NULL => upgrade_conversion[m][o] # LOCK_NULL
         /\ upgrade_conversion[m][LOCK_NULL] = m
BY DEF Modes, upgrade_conversion, ConversionRow, LOCK_NULL

\* A class that somebody holds has a positive count.
LEMMA HolderCounted ==
  ASSUME held \in [Threads -> Modes], NEW t \in Threads
  PROVE  /\ Cardinality(HoldersOf(held[t])) \in Nat
         /\ Cardinality(HoldersOf(held[t])) > 0
<1> DEFINE F == HoldersOf(held[t])
<1>1. IsFiniteSet(F) /\ t \in F
  BY ThreadsFinite, FS_Subset DEF HoldersOf
<1>2. Cardinality(F) \in Nat /\ Cardinality(F) # 0
  BY <1>1, FS_CardinalityType, FS_EmptySet
<1> HIDE DEF F
<1>3. QED
  BY <1>2 DEF F

\* How the number of holders of class m changes when t's class becomes n.
LEMMA CountMove ==
  ASSUME held \in [Threads -> Modes], NEW t \in Threads, NEW n \in Modes,
         held' = [held EXCEPT ![t] = n], NEW m \in Modes
  PROVE  /\ Cardinality(HoldersOf(m)) \in Nat
         /\ Cardinality(HoldersOf(m)') = Cardinality(HoldersOf(m))
                                           + (IF m = n THEN 1 ELSE 0)
                                           - (IF m = held[t] THEN 1 ELSE 0)
<1> DEFINE F == HoldersOf(m)
           G == HoldersOf(m)'
           E == F \ {t}
<1>1. IsFiniteSet(F) /\ IsFiniteSet(G)
  BY ThreadsFinite, FS_Subset DEF HoldersOf
<1>2. IsFiniteSet(E) /\ Cardinality(E) = IF t \in F THEN Cardinality(F) - 1 ELSE Cardinality(F)
  BY <1>1, FS_RemoveElement
<1>3. Cardinality(E) \in Nat /\ Cardinality(F) \in Nat /\ Cardinality(G) \in Nat
  BY <1>1, <1>2, FS_CardinalityType
<1>4. G = IF m = n THEN E \cup {t} ELSE E
  BY DEF HoldersOf
<1>5. Cardinality(E \cup {t}) = Cardinality(E) + 1
  BY <1>2, FS_AddElement
<1>6. t \in F <=> held[t] = m
  BY DEF HoldersOf
<1>7. Cardinality(G) = Cardinality(E) + (IF m = n THEN 1 ELSE 0)
  BY <1>3, <1>4, <1>5
<1> HIDE DEF E, F, G
<1>8. QED
  BY <1>2, <1>3, <1>6, <1>7 DEF F, G

\* Two threads with the same class make its count at least two.
LEMMA TwoHolders ==
  ASSUME NEW t \in Threads, NEW u \in Threads, t # u, held[t] = held[u]
  PROVE  Cardinality(HoldersOf(held[u])) # 1
<1> DEFINE F == HoldersOf(held[u])
<1>1. IsFiniteSet(F) /\ t \in F /\ u \in F
  BY ThreadsFinite, FS_Subset DEF HoldersOf
<1> HIDE DEF F
<1>2. QED
  BY <1>1, FS_Singleton DEF F

-----------------------------------------------------------------------------
\* The test of the code on mask and counter is the abstract lock's test on the
\* holders.
LEMMA CompatibleIsAdmissible ==
  ASSUME TypeOK, BookkeepingExact, NEW t \in Threads, NEW new \in Modes,
         six_lock_is_compatible(held[t], new)
  PROVE  \A u \in Threads \ {t} : held[u] \in COMPAT_MASK[new]
<1> SUFFICES ASSUME NEW u \in Threads \ {t}, held[u] # LOCK_NULL
             PROVE  held[u] \in COMPAT_MASK[new]
  BY NullJoinsAll
<1> DEFINE old == held[t]
<1>1. held \in [Threads -> Modes] /\ held[u] \in Modes /\ lock_counts \in [Modes -> Nat]
  BY Widths DEF TypeOK
<1>2. lock_counts[held[u]] = Cardinality(HoldersOf(held[u]))
  BY <1>1 DEF BookkeepingExact
<1>3. lock_counts[held[u]] > 0
  BY <1>1, <1>2, HolderCounted
<1>4. held[u] \in cur_locks_mask
  BY <1>1, <1>3 DEF BookkeepingExact
<1>5. held[u] = old => lock_counts[old] # 1
  BY <1>1, <1>2, TwoHolders
<1>6. QED
  BY <1>4, <1>5 DEF six_lock_is_compatible

\* What Grant does to mask, counters and holders, in both of its outcomes.
LEMMA GrantKeepsBooks ==
  ASSUME TypeOK, BookkeepingExact, HoldersCompatible,
         NEW t \in Threads, NEW new \in Modes \ {LOCK_NULL}, NEW waiters,
         six_lock_is_compatible(held[t], new),
         Grant(t, held[t], new, waiters)
  PROVE  /\ cur_locks_mask' \subseteq Modes
         /\ lock_counts' \in [Modes -> 0..HeldMax]
         /\ wake_serial' \in 0..(SerialMod - 1)
         /\ held' \in [Threads -> Modes]
         /\ BookkeepingExact'
         /\ HoldersCompatible'
         /\ \A u \in Threads \ {t} : held'[u] = held[u]
         /\ held'[t] \in {new, LOCK_NULL}
<1> DEFINE old == held[t]
           counts == IF old = LOCK_NULL THEN lock_counts ELSE DropCount(old)
           full == counts[new] = HeldMax
           n == IF full THEN LOCK_NULL ELSE new
<1>1. /\ old \in Modes /\ new \in Modes /\ n \in Modes /\ LOCK_NULL \in Modes
      /\ held \in [Threads -> Modes] /\ lock_counts \in [Modes -> 0..HeldMax]
      /\ HeldMax \in Nat
  BY Widths DEF TypeOK, Modes, LOCK_NULL
<1>2. held' = [held EXCEPT ![t] = n]
  BY DEF Grant
<1>3. \A m \in Modes :
        /\ Cardinality(HoldersOf(m)) \in Nat
        /\ Cardinality(HoldersOf(m)') = Cardinality(HoldersOf(m)) + (IF m = n THEN 1 ELSE 0)
                                                               - (IF m = old THEN 1 ELSE 0)
  <2> HIDE DEF n
  <2> QED BY <1>1, <1>2, CountMove
<1>4. \A m \in Modes : lock_counts[m] = IF m = LOCK_NULL THEN 0 ELSE Cardinality(HoldersOf(m))
  BY DEF BookkeepingExact
<1>5. old # LOCK_NULL => lock_counts[old] > 0
  BY <1>1, <1>4, HolderCounted
<1>6. /\ counts \in [Modes -> 0..HeldMax]
      /\ \A m \in Modes : counts[m] = IF m = old /\ old # LOCK_NULL
                                       THEN lock_counts[m] - 1 ELSE lock_counts[m]
  BY <1>1, <1>5 DEF DropCount
<1>7. lock_counts' = IF full THEN counts ELSE [counts EXCEPT ![new] = @ + 1]
  BY DEF Grant
<1>8. /\ lock_counts' \in [Modes -> 0..HeldMax]
      /\ \A m \in Modes : lock_counts'[m] = IF m = new /\ ~full THEN counts[m] + 1 ELSE counts[m]
  <2> HIDE DEF counts
  <2> QED BY <1>1, <1>6, <1>7
<1>9. \A m \in Modes : lock_counts'[m] = IF m = LOCK_NULL THEN 0 ELSE Cardinality(HoldersOf(m)')
  <2> SUFFICES ASSUME NEW m \in Modes
               PROVE  lock_counts'[m] = IF m = LOCK_NULL THEN 0 ELSE Cardinality(HoldersOf(m)')
    OBVIOUS
  <2> HIDE DEF counts, full
  <2> QED BY <1>1, <1>3, <1>4, <1>6, <1>8
<1>10. cur_locks_mask' = {m \in Modes : lock_counts'[m] > 0}
  <2>1. cur_locks_mask = {m \in Modes : lock_counts[m] > 0}
    BY DEF BookkeepingExact
  <2> DEFINE mask == IF old = LOCK_NULL THEN cur_locks_mask ELSE DropMask(old)
  <2>2. mask = {m \in Modes : counts[m] > 0}
    BY <2>1, <1>1, <1>5, <1>6 DEF DropMask
  <2>3. cur_locks_mask' = IF full THEN mask ELSE mask \cup {new}
    BY DEF Grant
  <2> HIDE DEF mask, counts, full
  <2>4. QED
    BY <2>2, <2>3, <1>1, <1>6, <1>8
<1>11. BookkeepingExact'
  BY <1>1, <1>9, <1>10 DEF BookkeepingExact
<1>12. HoldersCompatible'
  <2> SUFFICES ASSUME NEW a \in Threads, NEW b \in Threads, a # b
               PROVE  held'[a] \in COMPAT_MASK[held'[b]] \/ held'[b] \in COMPAT_MASK[held'[a]]
    BY DEF HoldersCompatible
  <2>1. \A u \in Threads \ {t} : held[u] \in COMPAT_MASK[new] /\ held'[u] = held[u]
    BY <1>1, <1>2, CompatibleIsAdmissible
  <2>2. CASE a # t /\ b # t
    BY <2>1, <2>2 DEF HoldersCompatible
  <2>3. CASE full
    BY <1>1, <1>2, <2>1, <2>2, <2>3, NullJoinsAll
  <2>4. CASE ~full /\ (a = t \/ b = t)
    BY <1>1, <1>2, <2>1, <2>4
  <2>5. QED
    BY <2>2, <2>3, <2>4
<1>13. wake_serial' \in 0..(SerialMod - 1)
  BY Widths DEF Grant, TypeOK
<1>14. cur_locks_mask' \subseteq Modes
  BY <1>10
<1>15. /\ held' \in [Threads -> Modes]
       /\ \A u \in Threads \ {t} : held'[u] = held[u]
       /\ held'[t] \in {new, LOCK_NULL}
  BY <1>1, <1>2
<1>16. QED
  BY <1>8, <1>11, <1>12, <1>13, <1>14, <1>15
-----------------------------------------------------------------------------
\* The queue operations keep the queue a sequence of threads.
LEMMA QueueType ==
  ASSUME TypeOK, NEW t \in Threads
  PROVE  /\ fusion_condvar_wait(sixsem_cv, t) \in Seq(Threads)
         /\ fusion_condvar_signal(sixsem_cv) \in Seq(Threads)
BY DEF TypeOK, fusion_condvar_wait, fusion_condvar_signal

\* How the number of waiters changes when one thread's request changes.
LEMMA WaitMove ==
  ASSUME want \in [Threads -> Modes], NEW t \in Threads, NEW n \in Modes,
         want' = [want EXCEPT ![t] = n]
  PROVE  /\ Cardinality(Waiting) \in Nat
         /\ Cardinality(Waiting)' <= Cardinality(Waiting) + 1
         /\ Cardinality(Waiting)' \in Nat
         /\ t \in Waiting /\ n = LOCK_NULL => Cardinality(Waiting)' = Cardinality(Waiting) - 1
         /\ t \notin Waiting /\ n # LOCK_NULL => Cardinality(Waiting)' = Cardinality(Waiting) + 1
<1>1. IsFiniteSet(Waiting)
  BY ThreadsFinite, FS_Subset DEF Waiting
<1>2. IsFiniteSet(Waiting')
  BY ThreadsFinite, FS_Subset DEF Waiting
<1>3. Cardinality(Waiting) \in Nat /\ Cardinality(Waiting') \in Nat
  BY <1>1, <1>2, FS_CardinalityType
<1>4. Waiting' = IF n = LOCK_NULL THEN Waiting \ {t} ELSE Waiting \cup {t}
  BY DEF Waiting
<1>5. /\ Cardinality(Waiting \ {t}) = IF t \in Waiting THEN Cardinality(Waiting) - 1
                                      ELSE Cardinality(Waiting)
      /\ Cardinality(Waiting \cup {t}) = IF t \in Waiting THEN Cardinality(Waiting)
                                         ELSE Cardinality(Waiting) + 1
  BY <1>1, FS_AddElement, FS_RemoveElement
<1>6. QED
  BY <1>3, <1>4, <1>5

\* A thread that waits is counted.
LEMMA WaiterCounted ==
  ASSUME TypeOK, WaitersSound, NEW t \in Waiting
  PROVE  wait_count \in 1..WaitMax
<1>1. IsFiniteSet(Waiting)
  BY ThreadsFinite, FS_Subset DEF Waiting
<1>2. Cardinality(Waiting) \in Nat /\ Cardinality(Waiting) # 0
  BY <1>1, FS_CardinalityType, FS_EmptySet
<1>3. QED
  BY <1>2, Widths DEF TypeOK, WaitersSound

\* fusion_sixsem_init establishes the invariant.
LEMMA InitIInv == Init => IInv
<1> SUFFICES ASSUME Init PROVE IInv
  OBVIOUS
<1>1. TypeOK
  BY Widths DEF Init, TypeOK, Modes, LOCK_NULL
<1>2. \A m \in Modes \ {LOCK_NULL} : HoldersOf(m) = {}
  BY DEF Init, HoldersOf
<1>3. BookkeepingExact
  <2>1. \A m \in Modes : lock_counts[m] = 0
    BY DEF Init
  <2>2. cur_locks_mask = {m \in Modes : lock_counts[m] > 0}
    BY <2>1 DEF Init
  <2>3. \A m \in Modes \ {LOCK_NULL} : Cardinality(HoldersOf(m)) = 0
    BY <1>2, FS_EmptySet
  <2>4. LOCK_NULL \in Modes
    BY DEF Modes, LOCK_NULL
  <2>5. QED
    BY <2>1, <2>2, <2>3, <2>4 DEF BookkeepingExact
<1>4. HoldersCompatible
  BY NullJoinsAll DEF Init, HoldersCompatible, Modes, LOCK_NULL
<1>5. Waiting = {}
  BY DEF Init, Waiting
<1>6. WaitersSound
  BY <1>5, FS_EmptySet DEF Init, WaitersSound
<1>7. QED
  BY <1>1, <1>3, <1>4, <1>6 DEF IInv

\* A request, whether of down or of upgrade, keeps the invariant.
LEMMA RequestStep ==
  ASSUME IInv, NEW t \in Threads, t \notin Waiting, NEW m \in Modes \ {LOCK_NULL},
         NEW new, new = upgrade_conversion[m][held[t]], Request(t, held[t], new)
  PROVE  IInv'
<1> USE DEF IInv
<1>1. /\ held \in [Threads -> Modes] /\ want \in [Threads -> Modes]
      /\ new \in Modes \ {LOCK_NULL} /\ wait_count \in Nat /\ want[t] = LOCK_NULL
      /\ sixsem_cv \in Seq(Threads) /\ wait_serial \in 0..(SerialMod - 1)
  BY ConversionType, Widths DEF TypeOK, Waiting
<1>2. CASE UNCHANGED vars
  BY <1>2 DEF vars, TypeOK, BookkeepingExact, HoldersCompatible, WaitersSound, HoldersOf, Waiting
<1> DEFINE drawn == IF held[t] = LOCK_NULL THEN wait_serial ELSE (wait_serial + 1) % SerialMod
<1>3. drawn \in 0..(SerialMod - 1)
  BY <1>1, Widths
<1>4. CASE /\ wait_count < WaitMax
           /\ ~(wait_count + 1 > 1 \/ MustWait(held[t], new, wait_serial))
           /\ wait_serial' = drawn
           /\ Grant(t, held[t], new, wait_count + 1)
           /\ UNCHANGED <<want, serial>>
  <2>1. six_lock_is_compatible(held[t], new)
    BY <1>4 DEF MustWait
  <2>2. /\ cur_locks_mask' \subseteq Modes
        /\ lock_counts' \in [Modes -> 0..HeldMax]
        /\ wake_serial' \in 0..(SerialMod - 1)
        /\ held' \in [Threads -> Modes]
        /\ BookkeepingExact'
        /\ HoldersCompatible'
        /\ \A u \in Threads \ {t} : held'[u] = held[u]
    BY <1>1, <1>4, <2>1, GrantKeepsBooks
  <2>3. wait_count' \in 0..WaitMax /\ wait_count' >= wait_count /\ dropped' \in Nat
    BY <1>1, <1>4, Widths DEF Grant, TypeOK
  <2>4. sixsem_cv' \in Seq(Threads)
    BY <1>1, <1>4, QueueType DEF Grant
  <2>5. TypeOK'
    BY <1>3, <1>4, <2>2, <2>3, <2>4 DEF TypeOK
  <2>6. Waiting' = Waiting /\ Waiting \subseteq Threads \ {t}
    BY <1>4 DEF Waiting
  <2>7. WaitersSound'
    <3>1. Cardinality(Waiting) \in Nat
      BY ThreadsFinite, FS_Subset, FS_CardinalityType DEF Waiting
    <3>2. Cardinality(Waiting') <= wait_count'
      BY <1>1, <2>3, <2>6, <3>1, Widths DEF WaitersSound
    <3>3. \A u \in Waiting' : \E k \in Modes : want'[u] = upgrade_conversion[k][held'[u]]
      BY <1>4, <2>2, <2>6 DEF WaitersSound
    <3>4. QED
      BY <3>2, <3>3 DEF WaitersSound
  <2>8. QED
    BY <2>2, <2>5, <2>7
<1>5. CASE /\ wait_count < WaitMax
           /\ wait_serial' = drawn
           /\ wait_count' = wait_count + 1
           /\ want' = [want EXCEPT ![t] = new]
           /\ serial' = [serial EXCEPT ![t] = wait_serial]
           /\ sixsem_cv' = fusion_condvar_wait(sixsem_cv, t)
           /\ UNCHANGED <<counters, wake_serial, held, dropped>>
  <2>1. TypeOK'
    BY <1>1, <1>3, <1>5, QueueType, Widths DEF TypeOK, counters
  <2>2. BookkeepingExact' /\ HoldersCompatible'
    BY <1>5 DEF BookkeepingExact, HoldersCompatible, HoldersOf, counters
  <2>3. Cardinality(Waiting)' <= wait_count'
    <3>1. new \in Modes /\ want' = [want EXCEPT ![t] = new]
      BY <1>1, <1>5
    <3>2. /\ Cardinality(Waiting) \in Nat
          /\ Cardinality(Waiting)' \in Nat
          /\ Cardinality(Waiting)' <= Cardinality(Waiting) + 1
      BY <1>1, <3>1, WaitMove
    <3>3. Cardinality(Waiting) <= wait_count
      BY DEF WaitersSound
    <3>4. QED
      BY <1>1, <1>5, <3>2, <3>3
  <2>4. ASSUME NEW u \in Waiting'
        PROVE  \E k \in Modes : want'[u] = upgrade_conversion[k][held'[u]]
    <3>1. CASE u = t
      BY <1>1, <1>5, <3>1
    <3>2. CASE u # t
      BY <1>1, <1>5, <2>4, <3>2 DEF WaitersSound, Waiting
    <3>3. QED
      BY <3>1, <3>2
  <2>5. QED
    BY <2>1, <2>2, <2>3, <2>4 DEF WaitersSound
<1>6. QED
  BY <1>2, <1>4, <1>5 DEF Request

\* A thread woken from the wait queue: back to sleep, or granted.
LEMMA ResumeStep ==
  ASSUME IInv, NEW t \in Threads, Resume(t)
  PROVE  IInv'
<1> USE DEF IInv
<1>1. /\ held \in [Threads -> Modes] /\ want \in [Threads -> Modes] /\ t \in Waiting
      /\ want[t] \in Modes \ {LOCK_NULL} /\ LOCK_NULL \in Modes
      /\ sixsem_cv \in Seq(Threads)
  BY DEF Resume, TypeOK, Waiting, Modes, LOCK_NULL
<1>2. wait_count \in 1..WaitMax
  BY <1>1, WaiterCounted
<1>3. CASE /\ sixsem_cv' = fusion_condvar_wait(sixsem_cv, t)
           /\ UNCHANGED <<counters, serials, wait_count, held, want, serial, dropped>>
  BY <1>3, QueueType
     DEF TypeOK, BookkeepingExact, HoldersCompatible, WaitersSound, HoldersOf, Waiting,
         counters, serials
<1>4. CASE /\ ~MustWait(held[t], want[t], serial[t])
           /\ Grant(t, held[t], want[t], wait_count)
           /\ want' = [want EXCEPT ![t] = LOCK_NULL]
           /\ serial' = [serial EXCEPT ![t] = 0]
           /\ UNCHANGED wait_serial
  <2>1. six_lock_is_compatible(held[t], want[t])
    BY <1>4 DEF MustWait
  <2>2. /\ cur_locks_mask' \subseteq Modes
        /\ lock_counts' \in [Modes -> 0..HeldMax]
        /\ wake_serial' \in 0..(SerialMod - 1)
        /\ held' \in [Threads -> Modes]
        /\ BookkeepingExact'
        /\ HoldersCompatible'
        /\ \A u \in Threads \ {t} : held'[u] = held[u]
    BY <1>1, <1>4, <2>1, GrantKeepsBooks
  <2>3. wait_count' \in 0..WaitMax /\ wait_count' >= wait_count - 1 /\ dropped' \in Nat
    BY <1>2, <1>4, Widths DEF Grant, TypeOK
  <2>4. sixsem_cv' \in Seq(Threads)
    BY <1>1, <1>4, QueueType DEF Grant
  <2>5. TypeOK'
    <3>1. want' \in [Threads -> Modes]
      BY <1>1, <1>4
    <3>2. serial' \in [Threads -> 0..(SerialMod - 1)]
      BY <1>4, Widths DEF TypeOK
    <3>3. QED
      BY <1>4, <2>2, <2>3, <2>4, <3>1, <3>2 DEF TypeOK
  <2>6. WaitersSound'
    <3>1. /\ Cardinality(Waiting) \in Nat
          /\ Cardinality(Waiting)' \in Nat
          /\ Cardinality(Waiting)' = Cardinality(Waiting) - 1
      BY <1>1, <1>4, WaitMove
    <3>2. Cardinality(Waiting) <= wait_count
      BY DEF WaitersSound
    <3>3. Cardinality(Waiting)' <= wait_count'
      BY <1>2, <2>3, <3>1, <3>2
    <3>4. \A u \in Waiting' : u \in Waiting \ {t} /\ want'[u] = want[u]
      BY <1>1, <1>4 DEF Waiting
    <3>5. \A u \in Waiting' : \E k \in Modes : want'[u] = upgrade_conversion[k][held'[u]]
      BY <2>2, <3>4 DEF WaitersSound, Waiting
    <3>6. QED
      BY <3>3, <3>5 DEF WaitersSound
  <2>7. QED
    BY <2>2, <2>5, <2>6
<1>5. QED
  BY <1>3, <1>4 DEF Resume

\* Only the queue changes.
LEMMA InterruptedStep ==
  ASSUME IInv, NEW t \in Threads, Interrupted(t)
  PROVE  IInv'
<1> USE DEF IInv
<1>1. PICK i \in 1..Len(sixsem_cv) :
        sixsem_cv' = SubSeq(sixsem_cv, 1, i - 1) \o SubSeq(sixsem_cv, i + 1, Len(sixsem_cv))
  BY DEF Interrupted
<1>2. sixsem_cv \in Seq(Threads) /\ Len(sixsem_cv) \in Nat
  BY DEF TypeOK
<1>3. \A j \in 1..Len(sixsem_cv) : sixsem_cv[j] \in Threads
  BY <1>2, ElementOfSeq
<1>4. /\ SubSeq(sixsem_cv, 1, i - 1) \in Seq(Threads)
      /\ SubSeq(sixsem_cv, i + 1, Len(sixsem_cv)) \in Seq(Threads)
  BY <1>2, <1>3, SubSeqProperties
<1>5. sixsem_cv' \in Seq(Threads)
  BY <1>1, <1>4, ConcatProperties
<1>6. QED
  BY <1>5
     DEF Interrupted, TypeOK, BookkeepingExact, HoldersCompatible, WaitersSound, HoldersOf,
         Waiting, counters, serials

\* A class somebody may add at once, and a class somebody gives up.
LEMMA TrylockStep ==
  ASSUME IInv, NEW t \in Threads, NEW m \in Modes \ {LOCK_NULL},
         fusion_sixsem_down_trylock(t, m)
  PROVE  IInv'
<1> USE DEF IInv
<1>1. /\ held \in [Threads -> Modes] /\ held[t] = LOCK_NULL /\ t \notin Waiting
      /\ lock_counts \in [Modes -> 0..HeldMax] /\ HeldMax \in Nat
  BY Widths DEF fusion_sixsem_down_trylock, TypeOK
<1>2. CASE UNCHANGED vars
  BY <1>2 DEF vars, TypeOK, BookkeepingExact, HoldersCompatible, WaitersSound, HoldersOf, Waiting
<1>3. CASE /\ six_lock_is_compatible(LOCK_NULL, m)
           /\ lock_counts[m] < HeldMax
           /\ lock_counts' = [lock_counts EXCEPT ![m] = @ + 1]
           /\ cur_locks_mask' = cur_locks_mask \cup {m}
           /\ held' = [held EXCEPT ![t] = m]
           /\ UNCHANGED <<wait_count, serials, sixsem_cv, want, serial, dropped>>
  <2>1. TypeOK'
    BY <1>1, <1>3 DEF TypeOK, serials
  <2>2. \A k \in Modes : /\ Cardinality(HoldersOf(k)) \in Nat
                         /\ Cardinality(HoldersOf(k)') = Cardinality(HoldersOf(k))
                                                            + (IF k = m THEN 1 ELSE 0)
                                                            - (IF k = LOCK_NULL THEN 1 ELSE 0)
    BY <1>1, <1>3, CountMove, ZenonT(60)
  <2>3. \A k \in Modes : lock_counts'[k] = IF k = m THEN lock_counts[k] + 1 ELSE lock_counts[k]
    BY <1>1, <1>3
  <2>4. /\ \A k \in Modes \ {LOCK_NULL} : lock_counts'[k] = Cardinality(HoldersOf(k)')
        /\ lock_counts'[LOCK_NULL] = 0
    BY <2>2, <2>3 DEF BookkeepingExact, Modes, LOCK_NULL
  <2>5. cur_locks_mask' = {k \in Modes : lock_counts'[k] > 0}
    BY <1>1, <1>3, <2>3 DEF BookkeepingExact
  <2>6. BookkeepingExact'
    BY <2>4, <2>5 DEF BookkeepingExact
  <2>7. \A u \in Threads \ {t} : held[u] \in COMPAT_MASK[m] /\ held'[u] = held[u]
    BY <1>1, <1>3, CompatibleIsAdmissible
  <2>8. HoldersCompatible'
    BY <1>1, <1>3, <2>7 DEF HoldersCompatible
  <2>9. Waiting' = Waiting /\ Waiting \subseteq Threads \ {t}
    BY <1>1, <1>3 DEF Waiting
  <2>10. WaitersSound'
    BY <1>3, <2>7, <2>9 DEF WaitersSound
  <2>11. QED
    BY <2>1, <2>6, <2>8, <2>10
<1>4. QED
  BY <1>2, <1>3 DEF fusion_sixsem_down_trylock

\* A release keeps the invariant.
LEMMA UpStep ==
  ASSUME IInv, NEW t \in Threads, fusion_sixsem_up(t)
  PROVE  IInv'
<1> USE DEF IInv
<1> DEFINE old == held[t]
<1>1. /\ held \in [Threads -> Modes] /\ old \in Modes \ {LOCK_NULL} /\ t \notin Waiting
      /\ lock_counts \in [Modes -> 0..HeldMax] /\ HeldMax \in Nat /\ LOCK_NULL \in Modes
      /\ held' = [held EXCEPT ![t] = LOCK_NULL]
  BY Widths DEF fusion_sixsem_up, TypeOK, Modes, LOCK_NULL
<1>2. lock_counts[old] > 0
  BY <1>1, HolderCounted DEF BookkeepingExact
<1>3. \A k \in Modes : lock_counts'[k] = IF k = old THEN lock_counts[k] - 1 ELSE lock_counts[k]
  BY <1>1 DEF fusion_sixsem_up, DropCount
<1>4. TypeOK'
  <2>1. lock_counts' \in [Modes -> 0..HeldMax]
    BY <1>1, <1>2 DEF fusion_sixsem_up, DropCount
  <2>2. cur_locks_mask' \subseteq Modes
    BY DEF TypeOK, fusion_sixsem_up, DropMask
  <2>3. QED
    BY <1>1, <2>1, <2>2, QueueType DEF TypeOK, fusion_sixsem_up, serials
<1>5. \A k \in Modes : /\ Cardinality(HoldersOf(k)) \in Nat
                       /\ Cardinality(HoldersOf(k)') = Cardinality(HoldersOf(k))
                                                          + (IF k = LOCK_NULL THEN 1 ELSE 0)
                                                          - (IF k = old THEN 1 ELSE 0)
  BY <1>1, CountMove
<1>6. /\ \A k \in Modes \ {LOCK_NULL} : lock_counts'[k] = Cardinality(HoldersOf(k)')
      /\ lock_counts'[LOCK_NULL] = 0
  BY <1>1, <1>3, <1>5 DEF BookkeepingExact
<1>7. cur_locks_mask' = {k \in Modes : lock_counts'[k] > 0}
  BY <1>1, <1>2, <1>3 DEF BookkeepingExact, fusion_sixsem_up, DropMask
<1>8. BookkeepingExact'
  BY <1>6, <1>7 DEF BookkeepingExact
<1>9. HoldersCompatible'
  BY <1>1, NullJoinsAll DEF HoldersCompatible
<1>10. WaitersSound'
  BY <1>1 DEF WaitersSound, Waiting, fusion_sixsem_up
<1>11. QED
  BY <1>4, <1>8, <1>9, <1>10
-----------------------------------------------------------------------------
\* Every step of the semaphore keeps the invariant.
LEMMA NextIInv == IInv /\ [Next]_vars => IInv'
<1> SUFFICES ASSUME IInv, [Next]_vars PROVE IInv'
  OBVIOUS
<1>1. CASE UNCHANGED vars
  BY <1>1 DEF vars, IInv, TypeOK, BookkeepingExact, HoldersCompatible, WaitersSound, HoldersOf,
              Waiting
<1>2. ASSUME NEW t \in Threads, NEW m \in DownModes, fusion_sixsem_down(t, m)
      PROVE  IInv'
  BY <1>2, RequestStep, ModesAsked DEF fusion_sixsem_down
<1>3. ASSUME NEW t \in Threads, NEW m \in DownModes, fusion_sixsem_down_trylock(t, m)
      PROVE  IInv'
  BY <1>3, TrylockStep, ModesAsked
<1>4. ASSUME NEW t \in Threads, NEW m \in UpgradeModes, fusion_sixsem_upgrade(t, m)
      PROVE  IInv'
  BY <1>4, RequestStep, ModesAsked DEF fusion_sixsem_upgrade
<1>5. QED
  BY <1>1, <1>2, <1>3, <1>4, ResumeStep, InterruptedStep, UpStep DEF Next

\* The books of the semaphore are exact, its holders compatible and its waiters
\* counted, at every width of the counters and on the -EAGAIN paths too.
THEOREM SixLockSafe == Spec => []IInv
<1>1. QED
  BY InitIInv, NextIInv, PTL DEF Spec

\* No two threads ever hold classes that exclude each other.
THEOREM HoldersAlwaysCompatible == Spec => []HoldersCompatible
<1>1. IInv => HoldersCompatible
  BY DEF IInv
<1>2. QED
  BY <1>1, SixLockSafe, PTL

\* The mask and the counters that fusion_sixsem_upgrade, down_trylock and up keep by
\* hand always say exactly who holds what.
THEOREM BooksAlwaysExact == Spec => []BookkeepingExact
<1>1. IInv => BookkeepingExact
  BY DEF IInv
<1>2. QED
  BY <1>1, SixLockSafe, PTL

\* The abstract lock decides by the same tables.
LEMMA SameTables ==
  /\ Lock!LOCK_NULL = LOCK_NULL
  /\ Lock!Modes = Modes
  /\ Lock!COMPAT_MASK = COMPAT_MASK
  /\ Lock!upgrade_conversion = upgrade_conversion
BY DEF Lock!LOCK_NULL, LOCK_NULL, Lock!Modes, Modes, Lock!COMPAT_MASK, COMPAT_MASK,
       Lock!upgrade_conversion, upgrade_conversion, Lock!ConversionRow, ConversionRow

\* Every step of the semaphore is a step of the abstract lock or leaves the
\* holders alone: the queue, the mask and the counters implement it.
THEOREM SixLockImplements == Spec => ImplementsGranularLock
<1>1. Init => Lock!AInit
  BY SameTables DEF Init, Lock!AInit
<1>2. IInv /\ [Next]_vars => [Lock!ANext]_held
  <2> SUFFICES ASSUME IInv, [Next]_vars, held' # held
               PROVE  Lock!ANext
    OBVIOUS
  <2> USE DEF IInv
  <2>1. ASSUME NEW t \in Threads, NEW m \in Modes, NEW new, NEW waiters,
               new = upgrade_conversion[m][held[t]], new \in Modes,
               six_lock_is_compatible(held[t], new),
               Grant(t, held[t], new, waiters)
        PROVE  Lock!ANext
    <3>1. \A u \in Threads \ {t} : held[u] \in COMPAT_MASK[new]
      BY <2>1, CompatibleIsAdmissible
    <3>2. held' = [held EXCEPT ![t] = new] \/ held' = [held EXCEPT ![t] = LOCK_NULL]
      BY <2>1 DEF Grant
    <3>3. QED
      BY <2>1, <3>1, <3>2, SameTables DEF Lock!ANext, Lock!Acquire, Lock!Release, Lock!Admissible
  <2>2. ASSUME NEW t \in Threads, NEW m \in Modes,
               Request(t, held[t], upgrade_conversion[m][held[t]])
        PROVE  Lock!ANext
    <3>1. held \in [Threads -> Modes]
      BY DEF TypeOK
    <3>2. upgrade_conversion[m][held[t]] \in Modes
      BY <3>1, ConversionType
    <3>3. QED
      BY <2>1, <2>2, <3>2 DEF Request, MustWait, vars
  <2>3. ASSUME NEW t \in Threads, Resume(t)
        PROVE  Lock!ANext
    <3>1. t \in Waiting /\ want[t] \in Modes
      BY <2>3 DEF Resume, TypeOK
    <3>2. PICK m \in Modes : want[t] = upgrade_conversion[m][held[t]]
      BY <3>1 DEF WaitersSound
    <3>3. QED
      BY <2>1, <2>3, <3>1, <3>2 DEF Resume, MustWait
  <2>4. ASSUME NEW t \in Threads, NEW m \in DownModes, fusion_sixsem_down_trylock(t, m)
        PROVE  Lock!ANext
    <3>1. m \in Modes /\ held[t] = LOCK_NULL /\ held' = [held EXCEPT ![t] = m]
          /\ six_lock_is_compatible(held[t], m)
      BY <2>4, ModesAsked DEF fusion_sixsem_down_trylock, vars
    <3>2. m = upgrade_conversion[m][held[t]]
      BY <3>1, ConversionType
    <3>3. \A u \in Threads \ {t} : held[u] \in COMPAT_MASK[m]
      BY <3>1, CompatibleIsAdmissible
    <3>4. QED
      BY <3>1, <3>2, <3>3, SameTables DEF Lock!ANext, Lock!Acquire, Lock!Admissible
  <2>5. ASSUME NEW t \in Threads, fusion_sixsem_up(t)
        PROVE  Lock!ANext
    BY <2>5, SameTables DEF fusion_sixsem_up, Lock!ANext, Lock!Release
  <2>6. ASSUME NEW t \in Threads, Interrupted(t)
        PROVE  FALSE
    BY <2>6 DEF Interrupted
  <2>7. ASSUME NEW t \in Threads, NEW m \in DownModes, fusion_sixsem_down(t, m)
        PROVE  Lock!ANext
    BY <2>2, <2>7, ModesAsked DEF fusion_sixsem_down
  <2>8. ASSUME NEW t \in Threads, NEW m \in UpgradeModes, fusion_sixsem_upgrade(t, m)
        PROVE  Lock!ANext
    BY <2>2, <2>8, ModesAsked DEF fusion_sixsem_upgrade
  <2>9. Next
    BY DEF vars
  <2>10. QED
    BY <2>3, <2>4, <2>5, <2>6, <2>7, <2>8, <2>9 DEF Next
<1>3. QED
  BY <1>1, <1>2, SixLockSafe, PTL DEF Spec, ImplementsGranularLock, Lock!ASpec
-----------------------------------------------------------------------------
(* Counting the waiters, the calls that overflow a class included.          *)

\* A call that reaches Grant is counted out, or stays counted and is dropped.
LEMMA GrantCounts ==
  ASSUME TypeOK, NEW t, NEW old, NEW new, NEW waiters \in Int, Grant(t, old, new, waiters)
  PROVE  /\ wait_count' \in Int /\ dropped' \in Nat
         /\ wait_count' - dropped' = waiters - 1 - dropped
<1> DEFINE full == (IF old = LOCK_NULL THEN lock_counts ELSE DropCount(old))[new] = HeldMax
<1>1. /\ wait_count' = IF full THEN waiters ELSE waiters - 1
      /\ dropped' = IF full THEN dropped + 1 ELSE dropped
      /\ dropped \in Nat
  BY DEF Grant, TypeOK
<1> HIDE DEF full
<1>2. QED
  BY <1>1

\* Every step keeps the count of the waiters.
LEMMA WaitersCountedStep ==
  ASSUME IInv, WaitersCounted, [Next]_vars
  PROVE  WaitersCounted'
<1>1. /\ held \in [Threads -> Modes] /\ want \in [Threads -> Modes]
      /\ wait_count \in Nat /\ dropped \in Nat
  BY Widths DEF IInv, TypeOK
<1>2. CASE UNCHANGED <<wait_count, want, dropped>>
  BY <1>2 DEF WaitersCounted, Waiting
<1>3. ASSUME NEW t \in Threads, NEW new \in Modes \ {LOCK_NULL}, t \notin Waiting, Request(t, held[t], new)
      PROVE  WaitersCounted'
  <2>1. CASE UNCHANGED vars
    BY <1>2, <2>1 DEF vars
  <2>2. CASE Grant(t, held[t], new, wait_count + 1) /\ UNCHANGED <<want, serial>>
    <3>1. /\ wait_count' \in Int /\ dropped' \in Nat
          /\ wait_count' - dropped' = (wait_count + 1) - 1 - dropped
      BY <1>1, <2>2, GrantCounts DEF IInv
    <3>2. Cardinality(Waiting)' = Cardinality(Waiting) /\ Cardinality(Waiting) \in Nat
      BY <2>2, ThreadsFinite, FS_Subset, FS_CardinalityType DEF Waiting
    <3>3. QED
      BY <1>1, <3>1, <3>2 DEF WaitersCounted
  <2>3. CASE /\ wait_count' = wait_count + 1 /\ dropped' = dropped
             /\ want' = [want EXCEPT ![t] = new]
    <3>1. /\ Cardinality(Waiting)' = Cardinality(Waiting) + 1
          /\ Cardinality(Waiting) \in Nat
      BY <1>1, <1>3, <2>3, WaitMove
    <3>2. QED
      BY <1>1, <2>3, <3>1 DEF WaitersCounted
  <2>4. QED
    BY <1>3, <2>1, <2>2, <2>3 DEF Request
<1>4. ASSUME NEW t \in Threads, Resume(t) PROVE WaitersCounted'
  <2>1. CASE UNCHANGED <<counters, serials, wait_count, held, want, serial, dropped>>
    BY <1>2, <2>1
  <2>2. CASE Grant(t, held[t], want[t], wait_count) /\ want' = [want EXCEPT ![t] = LOCK_NULL]
    <3>1. t \in Waiting /\ want[t] \in Modes \ {LOCK_NULL} /\ LOCK_NULL \in Modes
      BY <1>1, <1>4 DEF Resume, Waiting, Modes, LOCK_NULL
    <3>2. /\ wait_count' \in Int /\ dropped' \in Nat
          /\ wait_count' - dropped' = wait_count - 1 - dropped
      BY <1>1, <2>2, GrantCounts DEF IInv
    <3>3. /\ Cardinality(Waiting)' = Cardinality(Waiting) - 1
          /\ Cardinality(Waiting) \in Nat
      BY <1>1, <2>2, <3>1, WaitMove
    <3>4. QED
      BY <1>1, <3>2, <3>3 DEF WaitersCounted
  <2>3. QED
    BY <1>4, <2>1, <2>2 DEF Resume
<1>5. ASSUME NEW t \in Threads, NEW m \in DownModes \cup UpgradeModes
      PROVE  upgrade_conversion[m][held[t]] \in Modes \ {LOCK_NULL}
  BY <1>1, ModesAsked, ConversionType
<1>6. ASSUME NEW t \in Threads, NEW m \in DownModes, fusion_sixsem_down(t, m) PROVE WaitersCounted'
  BY <1>3, <1>5, <1>6 DEF fusion_sixsem_down
<1>7. ASSUME NEW t \in Threads, NEW m \in UpgradeModes, fusion_sixsem_upgrade(t, m) PROVE WaitersCounted'
  BY <1>3, <1>5, <1>7 DEF fusion_sixsem_upgrade
<1>8. ASSUME NEW t \in Threads, NEW m \in DownModes, fusion_sixsem_down_trylock(t, m)
      PROVE  WaitersCounted'
  BY <1>2, <1>8 DEF fusion_sixsem_down_trylock, vars
<1>9. ASSUME NEW t \in Threads, Interrupted(t) \/ fusion_sixsem_up(t) PROVE WaitersCounted'
  BY <1>2, <1>9 DEF Interrupted, fusion_sixsem_up
<1>10. QED
  BY <1>2, <1>4, <1>6, <1>7, <1>8, <1>9 DEF Next, vars

\* Whatever the widths of the counters, wait_count is the number of threads in the
\* wait loop of fusion_sixsem_upgrade plus one for every call that overflowed the
\* count of its class: none leaves the loop otherwise without counting itself out.
THEOREM WaitersAlwaysCounted == Spec => []WaitersCounted
<1>1. Init => WaitersCounted
  <2>1. Init => Waiting = {}
    BY DEF Init, Waiting
  <2>2. Init => wait_count = 0 /\ dropped = 0
    BY DEF Init
  <2>3. Init => Cardinality(Waiting) = 0
    BY <2>1, FS_EmptySet
  <2>4. QED
    BY ONLY <2>2, <2>3 DEF WaitersCounted
<1>2. IInv /\ WaitersCounted /\ [Next]_vars => WaitersCounted'
  BY WaitersCountedStep
<1>3. QED
  BY <1>1, <1>2, SixLockSafe, PTL DEF Spec
-----------------------------------------------------------------------------
(* The order of the conversions, as long as no serial wraps.                *)

\* No serial wraps, and the threads' serials are never half the range apart:
\* beyond that serial64_compare takes a late serial for an early one.
SerialsSuffice == SerialBound < SerialMod /\ Cardinality(Threads) <= SerialMod \div 2

\* ConversionSerials without its wrapping arithmetic.
SerialRange ==
  /\ wake_serial <= wait_serial /\ wait_serial <= SerialBound
  /\ wait_serial - wake_serial = Cardinality(Converting)
  /\ \A t \in Converting : wake_serial <= serial[t] /\ serial[t] < wait_serial
  /\ \A t, u \in Converting : t # u => serial[t] # serial[u]

\* Differences of serials are small.
LEMMA SmallMod == ASSUME NEW d \in 0..(SerialMod - 1) PROVE d % SerialMod = d
BY Widths

\* Converting threads are threads.
LEMMA ConvertingFinite ==
  /\ IsFiniteSet(Converting) /\ Converting \subseteq Threads
  /\ Cardinality(Converting) \in Nat /\ Cardinality(Converting) <= Cardinality(Threads)
  /\ Cardinality(Threads) \in Nat
<1>1. Converting \subseteq Threads
  BY DEF Converting, Waiting
<1>2. QED
  BY <1>1, ThreadsFinite, FS_Subset, FS_CardinalityType

\* SerialRange says what ConversionSerials says.
LEMMA RangeSuffices == SerialsSuffice /\ TypeOK /\ SerialRange => ConversionSerials
<1> SUFFICES ASSUME SerialsSuffice, TypeOK, SerialRange PROVE ConversionSerials
  OBVIOUS
<1>1. /\ wake_serial \in 0..(SerialMod - 1) /\ wait_serial \in 0..(SerialMod - 1) /\ SerialMod \in Nat
      /\ serial \in [Threads -> 0..(SerialMod - 1)]
  BY Widths DEF TypeOK
<1>2. (wait_serial - wake_serial) % SerialMod = Cardinality(Converting)
  <2>1. wait_serial - wake_serial \in 0..(SerialMod - 1)
    BY <1>1 DEF SerialRange
  <2>2. QED
    BY <2>1, SmallMod DEF SerialRange
<1>3. ASSUME NEW t \in Converting
      PROVE  (serial[t] - wake_serial) % SerialMod < Cardinality(Converting)
  <2>1. serial[t] \in 0..(SerialMod - 1)
    BY <1>1, ConvertingFinite
  <2>2. /\ serial[t] - wake_serial \in 0..(SerialMod - 1)
        /\ serial[t] - wake_serial < Cardinality(Converting)
    BY <1>1, <2>1 DEF SerialRange
  <2>3. (serial[t] - wake_serial) % SerialMod = serial[t] - wake_serial
    BY <2>2, SmallMod
  <2>4. QED
    BY <2>2, <2>3
<1>4. QED
  BY <1>2, <1>3 DEF ConversionSerials, SerialRange

\* A conversion leaves the wait loop only with the serial that is next: any later one
\* compares as earlier, by the unsigned subtraction of serial64_compare.
LEMMA OnlyNextSerial ==
  ASSUME SerialsSuffice, TypeOK, SerialRange, NEW t \in Converting,
         ~MustWait(held[t], want[t], serial[t])
  PROVE  serial[t] = wake_serial
<1> DEFINE s == serial[t]
           w == wake_serial
<1>1. /\ w \in 0..(SerialMod - 1) /\ s \in 0..(SerialMod - 1) /\ SerialMod \in Nat
      /\ wait_serial \in 0..(SerialMod - 1)
  BY Widths, ConvertingFinite DEF TypeOK
<1>2. w <= s /\ s - w < Cardinality(Converting)
  BY <1>1 DEF SerialRange
<1>3. ~(serial64_compare(s, w) < 0)
  BY DEF MustWait
<1>4. SerialMod \div 2 \in Nat /\ 2 * (SerialMod \div 2) <= SerialMod
  BY Widths
<1>5. s - w < SerialMod \div 2
  BY <1>1, <1>2, <1>4, ConvertingFinite DEF SerialsSuffice
<1> HIDE DEF s, w
<1>6. CASE s > w
  <2>1. (w - s) % SerialMod = SerialMod - (s - w)
    BY <1>1, <1>6, Widths
  <2>2. ~((w - s) % SerialMod < SerialMod \div 2)
    BY <1>1, <1>4, <1>5, <2>1
  <2>3. serial64_compare(s, w) = -1
    BY <1>1, <1>6, <2>2 DEF serial64_compare
  <2>4. QED
    BY <1>3, <2>3
<1>7. CASE ~(s > w)
  BY <1>1, <1>2, <1>7 DEF s, w
<1>8. QED
  BY <1>6, <1>7

\* Nothing changes for the conversions.
LEMMA SerialFrame ==
  ASSUME SerialRange, UNCHANGED <<wake_serial, wait_serial>>, Converting' = Converting,
         \A u \in Converting : serial'[u] = serial[u]
  PROVE  SerialRange'
<1>1. Cardinality(Converting)' = Cardinality(Converting)
  OBVIOUS
<1>2. QED
  BY <1>1 DEF SerialRange

\* A conversion is asked for: it is granted at once when nobody waits, and draws the
\* next serial otherwise.
LEMMA UpgradeSerials ==
  ASSUME SerialsSuffice, IInv, SerialRange, NEW t \in Threads, NEW new \in Modes \ {LOCK_NULL},
         t \notin Waiting, held[t] # LOCK_NULL, wait_serial < SerialBound, Request(t, held[t], new)
  PROVE  SerialRange'
<1>1. /\ wake_serial \in 0..(SerialMod - 1) /\ wait_serial \in 0..(SerialMod - 1) /\ SerialMod \in Nat
      /\ SerialBound \in Nat /\ held \in [Threads -> Modes] /\ want \in [Threads -> Modes]
      /\ serial \in [Threads -> 0..(SerialMod - 1)] /\ wait_count \in 0..WaitMax /\ WaitMax \in Nat
  BY Widths DEF IInv, TypeOK
<1>2. (wait_serial + 1) % SerialMod = wait_serial + 1
  <2>1. wait_serial + 1 \in 0..(SerialMod - 1)
    BY <1>1 DEF SerialsSuffice
  <2>2. QED
    BY <2>1, SmallMod
<1>3. CASE UNCHANGED vars
  BY <1>3, SerialFrame DEF vars, Converting, Waiting
<1>4. CASE /\ wait_count + 1 <= 1 /\ wait_serial' = (wait_serial + 1) % SerialMod
           /\ Grant(t, held[t], new, wait_count + 1) /\ UNCHANGED <<want, serial>>
  <2>1. Waiting = {}
    <3>1. Cardinality(Waiting) <= wait_count
      BY DEF IInv, WaitersSound
    <3>2. IsFiniteSet(Waiting)
      BY ThreadsFinite, FS_Subset DEF Waiting
    <3>3. QED
      BY <1>1, <1>4, <3>1, <3>2, FS_CardinalityType, FS_EmptySet
  <2>2. Converting = {} /\ Converting' = {}
    BY <1>4, <2>1 DEF Converting, Waiting
  <2>3. Cardinality(Converting) = 0 /\ Cardinality(Converting') = 0
    BY <2>2, FS_EmptySet
  <2>4. wake_serial = wait_serial
    BY <1>1, <2>3 DEF SerialRange
  <2>5. wake_serial' = wait_serial + 1 /\ wait_serial' = wait_serial + 1
    BY <1>2, <1>4, <2>4 DEF Grant
  <2>6. QED
    BY <1>1, <2>2, <2>3, <2>5 DEF SerialRange
<1>5. CASE /\ wait_serial' = (wait_serial + 1) % SerialMod /\ want' = [want EXCEPT ![t] = new]
           /\ serial' = [serial EXCEPT ![t] = wait_serial] /\ UNCHANGED <<wake_serial, held>>
  <2>1. t \notin Converting /\ Converting' = Converting \cup {t}
    BY <1>1, <1>5 DEF Converting, Waiting
  <2>2. Cardinality(Converting') = Cardinality(Converting) + 1
    BY <2>1, ConvertingFinite, FS_AddElement
  <2>3. serial'[t] = wait_serial /\ \A u \in Converting : serial'[u] = serial[u] /\ serial[u] \in Nat
    BY <1>1, <1>5, <2>1, ConvertingFinite
  <2>4. wait_serial' = wait_serial + 1 /\ wake_serial' = wake_serial
    BY <1>2, <1>5
  <2>5. wait_serial' - wake_serial' = Cardinality(Converting')
    BY <1>1, <2>2, <2>4, ConvertingFinite DEF SerialRange
  <2>6. \A u \in Converting' : wake_serial' <= serial'[u] /\ serial'[u] < wait_serial'
    BY <1>1, <2>1, <2>3, <2>4 DEF SerialRange
  <2>7. \A u, v \in Converting' : u # v => serial'[u] # serial'[v]
    BY <1>1, <2>1, <2>3 DEF SerialRange
  <2>8. QED
    BY <1>1, <2>4, <2>5, <2>6, <2>7 DEF SerialRange
<1>6. QED
  BY <1>1, <1>3, <1>4, <1>5 DEF Request

\* The conversion with the oldest serial is granted; a thread that held nothing may be
\* granted its class between two conversions.
LEMMA ResumeSerials ==
  ASSUME SerialsSuffice, IInv, SerialRange, NEW t \in Threads, Resume(t)
  PROVE  SerialRange'
<1>1. /\ wake_serial \in 0..(SerialMod - 1) /\ wait_serial \in 0..(SerialMod - 1) /\ SerialMod \in Nat
      /\ SerialBound \in Nat /\ held \in [Threads -> Modes] /\ want \in [Threads -> Modes]
      /\ serial \in [Threads -> 0..(SerialMod - 1)] /\ t \in Waiting
  BY Widths DEF IInv, TypeOK, Resume
<1>2. CASE UNCHANGED <<counters, serials, wait_count, held, want, serial, dropped>>
  BY <1>2, SerialFrame DEF serials, Converting, Waiting
<1>3. CASE /\ ~MustWait(held[t], want[t], serial[t]) /\ Grant(t, held[t], want[t], wait_count)
           /\ want' = [want EXCEPT ![t] = LOCK_NULL] /\ serial' = [serial EXCEPT ![t] = 0]
           /\ UNCHANGED wait_serial
  <2>1. /\ Converting' = Converting \ {t}
        /\ \A u \in Threads \ {t} : serial'[u] = serial[u]
    <3>1. \A u \in Threads \ {t} : held'[u] = held[u]
      BY <1>1, <1>3 DEF Grant
    <3>2. QED
      BY <1>1, <1>3, <3>1 DEF Converting, Waiting
  <2>2. CASE held[t] = LOCK_NULL
    <3>1. t \notin Converting /\ wake_serial' = wake_serial
      BY <1>3, <2>2 DEF Converting, Grant
    <3>2. QED
      BY <1>3, <2>1, <3>1, ConvertingFinite, SerialFrame
  <2>3. CASE held[t] # LOCK_NULL
    <3>1. t \in Converting
      BY <1>1, <2>3 DEF Converting
    <3>2. serial[t] = wake_serial
      BY <1>3, <3>1, OnlyNextSerial DEF IInv
    <3>3. wake_serial < wait_serial
      BY <3>1, <3>2 DEF SerialRange
    <3>4. wake_serial' = wake_serial + 1
      <4>1. wake_serial + 1 \in 0..(SerialMod - 1)
        BY <1>1, <3>3
      <4>2. wake_serial' = (wake_serial + 1) % SerialMod
        BY <1>3, <2>3 DEF Grant
      <4>3. QED
        BY <4>1, <4>2, SmallMod
    <3>5. Cardinality(Converting') = Cardinality(Converting) - 1
      BY <2>1, <3>1, ConvertingFinite, FS_RemoveElement
    <3>6. \A u \in Converting' : u \in Converting /\ u # t /\ serial'[u] = serial[u] /\ serial[u] \in Nat
      BY <1>1, <2>1, ConvertingFinite
    <3>7. \A u \in Converting' : wake_serial' <= serial'[u] /\ serial'[u] < wait_serial'
      BY <1>1, <1>3, <3>1, <3>2, <3>4, <3>6 DEF SerialRange
    <3>8. \A u, v \in Converting' : u # v => serial'[u] # serial'[v]
      BY <3>6 DEF SerialRange
    <3>9. wait_serial' - wake_serial' = Cardinality(Converting')
      BY <1>1, <1>3, <3>4, <3>5, ConvertingFinite DEF SerialRange
    <3>10. QED
      BY <1>1, <1>3, <3>3, <3>4, <3>7, <3>8, <3>9 DEF SerialRange
  <2>4. QED
    BY <2>2, <2>3
<1>4. QED
  BY <1>2, <1>3 DEF Resume

\* Every step keeps the serials in range.
LEMMA SerialStep ==
  ASSUME SerialsSuffice, IInv, SerialRange, [Next]_vars
  PROVE  SerialRange'
<1>1. held \in [Threads -> Modes] /\ want \in [Threads -> Modes] /\ serial \in [Threads -> 0..(SerialMod - 1)]
  BY DEF IInv, TypeOK
<1>2. CASE UNCHANGED vars
  BY <1>2, SerialFrame DEF vars, Converting, Waiting
<1>3. ASSUME NEW t \in Threads, t \notin Waiting, UNCHANGED <<wake_serial, wait_serial, want, serial>>,
             \A u \in Threads \ {t} : held'[u] = held[u]
      PROVE  SerialRange'
  <2>1. Converting' = Converting
    BY <1>3 DEF Converting, Waiting
  <2>2. QED
    BY <1>3, <2>1, SerialFrame
<1>4. ASSUME NEW t \in Threads, NEW m \in DownModes, fusion_sixsem_down(t, m) PROVE SerialRange'
  <2> DEFINE new == upgrade_conversion[m][LOCK_NULL]
  <2>1. t \notin Waiting /\ held[t] = LOCK_NULL /\ Request(t, LOCK_NULL, new)
    BY <1>4 DEF fusion_sixsem_down
  <2> HIDE DEF new
  <2>2. CASE Grant(t, LOCK_NULL, new, wait_count + 1) /\ wait_serial' = wait_serial /\ UNCHANGED <<want, serial>>
    <3>1. wake_serial' = wake_serial /\ \A u \in Threads \ {t} : held'[u] = held[u]
      BY <1>1, <2>2 DEF Grant
    <3>2. QED
      BY <1>3, <2>1, <2>2, <3>1
  <2>3. CASE /\ want' = [want EXCEPT ![t] = new] /\ serial' = [serial EXCEPT ![t] = wait_serial]
             /\ UNCHANGED <<wait_serial, wake_serial, held>>
    <3>1. Converting' = Converting /\ \A u \in Converting : u # t
      BY <1>1, <2>1, <2>3 DEF Converting, Waiting
    <3>2. \A u \in Converting : serial'[u] = serial[u]
      BY <1>1, <2>3, <3>1, ConvertingFinite
    <3>3. QED
      BY <2>3, <3>1, <3>2, SerialFrame
  <2>4. QED
    BY <1>2, <2>1, <2>2, <2>3 DEF Request
<1>5. ASSUME NEW t \in Threads, NEW m \in UpgradeModes, fusion_sixsem_upgrade(t, m) PROVE SerialRange'
  <2>1. upgrade_conversion[m][held[t]] \in Modes \ {LOCK_NULL}
    BY <1>1, ModesAsked, ConversionType
  <2>2. QED
    BY <1>5, <2>1, UpgradeSerials DEF fusion_sixsem_upgrade
<1>6. ASSUME NEW t \in Threads, NEW m \in DownModes, fusion_sixsem_down_trylock(t, m) PROVE SerialRange'
  BY <1>1, <1>2, <1>3, <1>6 DEF fusion_sixsem_down_trylock, serials
<1>7. ASSUME NEW t \in Threads, fusion_sixsem_up(t) PROVE SerialRange'
  BY <1>1, <1>3, <1>7 DEF fusion_sixsem_up, serials
<1>8. ASSUME NEW t \in Threads, Interrupted(t) PROVE SerialRange'
  BY <1>8, SerialFrame DEF Interrupted, serials, Converting, Waiting
<1>9. QED
  BY <1>2, <1>4, <1>5, <1>6, <1>7, <1>8, ResumeSerials DEF Next

\* The serials are in range from the start on.
THEOREM SerialsInRange == ASSUME SerialsSuffice PROVE Spec => []SerialRange
<1>1. Init => SerialRange
  <2>1. Init => Converting = {} /\ wake_serial = 0 /\ wait_serial = 0
    BY DEF Init, Converting, Waiting
  <2>2. QED
    BY <2>1, FS_EmptySet, Widths DEF SerialRange
<1>2. IInv /\ SerialRange /\ [Next]_vars => SerialRange'
  BY SerialStep
<1>3. QED
  BY <1>1, <1>2, SixLockSafe, PTL DEF Spec

\* Until the serials wrap, the conversions that wait in fusion_sixsem_upgrade hold
\* exactly the serials from wake_serial up to wait_serial, one each.
THEOREM SerialsAlwaysExact == ASSUME SerialsSuffice PROVE Spec => []ConversionSerials
<1>1. IInv /\ SerialRange => ConversionSerials
  BY RangeSuffices DEF IInv
<1>2. QED
  BY <1>1, SerialsInRange, SixLockSafe, PTL

\* Until the serials wrap, conversions are granted in the order in which they were
\* asked for: however serial64_compare orders the later serials, it lets only the next
\* one through.
THEOREM ConversionsInOrder == ASSUME SerialsSuffice PROVE Spec => ConversionOrder
<1> DEFINE Ordered == \A t \in Converting :
             want'[t] = LOCK_NULL =>
               \A u \in Converting :
                 (serial[t] - wake_serial) % SerialMod <= (serial[u] - wake_serial) % SerialMod
<1>1. IInv /\ SerialRange /\ [Next]_vars => [Ordered]_vars
  <2> SUFFICES ASSUME IInv, SerialRange, [Next]_vars, NEW t \in Converting, want'[t] = LOCK_NULL,
                      NEW u \in Converting
               PROVE  (serial[t] - wake_serial) % SerialMod <= (serial[u] - wake_serial) % SerialMod
    OBVIOUS
  <2>1. /\ want \in [Threads -> Modes] /\ held \in [Threads -> Modes] /\ t \in Waiting /\ t \in Threads
        /\ want[t] # LOCK_NULL /\ want' # want
    BY DEF IInv, TypeOK, Converting, Waiting
  <2>2. ASSUME NEW v \in Threads, NEW new \in Modes \ {LOCK_NULL}, v \notin Waiting, NEW old, Request(v, old, new)
        PROVE  FALSE
    BY <2>1, <2>2 DEF Request, vars
  <2>3. ASSUME NEW v \in Threads, NEW m \in DownModes \cup UpgradeModes, NEW o \in Modes
        PROVE  upgrade_conversion[m][o] \in Modes \ {LOCK_NULL}
    BY ModesAsked, ConversionType
  <2>4. ASSUME NEW v \in Threads, NEW m \in DownModes, fusion_sixsem_down(v, m) PROVE FALSE
    BY <2>2, <2>3, <2>4 DEF fusion_sixsem_down, Modes, LOCK_NULL
  <2>5. ASSUME NEW v \in Threads, NEW m \in UpgradeModes, fusion_sixsem_upgrade(v, m) PROVE FALSE
    BY <2>1, <2>2, <2>3, <2>5 DEF fusion_sixsem_upgrade
  <2>6. ASSUME NEW v \in Threads, NEW m \in DownModes, fusion_sixsem_down_trylock(v, m) PROVE FALSE
    BY <2>1, <2>6 DEF fusion_sixsem_down_trylock, vars
  <2>7. ASSUME NEW v \in Threads, Interrupted(v) \/ fusion_sixsem_up(v) PROVE FALSE
    BY <2>1, <2>7 DEF Interrupted, fusion_sixsem_up
  <2>8. PICK v \in Threads : Resume(v)
    BY <2>1, <2>4, <2>5, <2>6, <2>7 DEF Next, vars
  <2>9. v = t /\ ~MustWait(held[t], want[t], serial[t])
    BY <2>1, <2>8 DEF Resume
  <2>10. serial[t] = wake_serial
    BY <2>9, OnlyNextSerial DEF IInv
  <2>11. /\ wake_serial \in 0..(SerialMod - 1) /\ SerialMod \in Nat \ {0}
         /\ serial[u] \in 0..(SerialMod - 1) /\ wake_serial <= serial[u]
    BY Widths, ConvertingFinite DEF IInv, TypeOK, SerialRange
  <2>12. /\ (serial[t] - wake_serial) % SerialMod = 0
         /\ (serial[u] - wake_serial) % SerialMod = serial[u] - wake_serial
    <3>1. /\ serial[t] - wake_serial = 0 /\ 0 \in 0..(SerialMod - 1)
          /\ serial[u] - wake_serial \in 0..(SerialMod - 1)
      BY <2>10, <2>11
    <3>2. QED
      BY <3>1, SmallMod
  <2>13. QED
    BY <2>11, <2>12
<1>2. QED
  BY <1>1, SerialsInRange, SixLockSafe, PTL DEF Spec, ConversionOrder
=============================================================================
