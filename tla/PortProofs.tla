----------------------------- MODULE PortProofs -----------------------------
(***************************************************************************)
(* Proofs about the porting layer: the condition variable with its spin    *)
(* lock, for any number of tasks, the doubly linked lists, for any heads   *)
(* and entries, and the lock-free list, for any entries and threads.       *)
(***************************************************************************)
EXTENDS CondVar, PortList, AtomicList, SequenceLemmas, FiniteSetTheorems, TLAPS

-----------------------------------------------------------------------------
(* The wait queue after a walk over it *)

(* g[i] is what a walk that takes out the tasks of W leaves of the first i *)
(* places of the queue q.                                                  *)
WalkStep(q, W, g, i) ==
    IF i = 0 THEN << >> ELSE IF q[i] \in W THEN g[i - 1] ELSE Append(g[i - 1], q[i])

IsWalk(q, W, g, n) == g = [i \in 0..n |-> WalkStep(q, W, g, i)]

(* A walk of any length exists: the recursion of StillQueued has a         *)
(* solution.                                                               *)
LEMMA WalkExists ==
    ASSUME NEW q, NEW W, NEW n \in Nat
    PROVE  \E g : IsWalk(q, W, g, n)
  <1> DEFINE S == {m \in Nat : \E g : IsWalk(q, W, g, m)}
  <1>1. 0 \in S
    <2> DEFINE g == [i \in 0..0 |-> << >>]
    <2>1. IsWalk(q, W, g, 0)
      BY DEF IsWalk, WalkStep
    <2> QED
      BY <2>1
  <1>2. ASSUME NEW m \in Nat, m \in S PROVE m + 1 \in S
    <2>1. PICK g : IsWalk(q, W, g, m)
      BY <1>2
    <2> DEFINE h == [i \in 0..(m + 1) |-> IF i = m + 1 THEN WalkStep(q, W, g, i) ELSE g[i]]
    <2>2. \A i \in 0..m : h[i] = g[i] /\ g[i] = WalkStep(q, W, g, i)
      BY <2>1 DEF IsWalk
    <2>3. ASSUME NEW i \in 0..(m + 1) PROVE h[i] = WalkStep(q, W, h, i)
      <3>1. WalkStep(q, W, h, i) = WalkStep(q, W, g, i)
        <4>1. CASE i = 0
          BY <4>1 DEF WalkStep
        <4>2. CASE i # 0
          <5>1. i - 1 \in 0..m
            BY <4>2
          <5>2. h[i - 1] = g[i - 1]
            BY <5>1, <2>2
          <5> HIDE DEF h
          <5> QED
            BY <5>2, <4>2 DEF WalkStep
        <4> QED
          BY <4>1, <4>2
      <3>2. CASE i = m + 1
        BY <3>1, <3>2
      <3>3. CASE i # m + 1
        <4>1. i \in 0..m
          BY <3>3
        <4> HIDE DEF h
        <4> QED
          BY <3>1, <4>1, <2>2
      <3> QED
        BY <3>2, <3>3
    <2>4. IsWalk(q, W, h, m + 1)
      <3>1. h = [i \in 0..(m + 1) |-> h[i]]
        OBVIOUS
      <3> HIDE DEF h
      <3> QED
        BY <2>3, <3>1 DEF IsWalk
    <2> QED
      BY <2>4
  <1> HIDE DEF S
  <1>3. Nat \subseteq S
    BY <1>1, <1>2, SetInduction
  <1> QED
    BY <1>3 DEF S

(* The walk leaves exactly the tasks it does not take out, each once. *)
LEMMA WalkLeaves ==
    ASSUME NEW q \in Seq(CvTasks), NEW W, NoneTwice(q), NEW g, IsWalk(q, W, g, Len(q))
    PROVE  /\ g[Len(q)] \in Seq(CvTasks) /\ NoneTwice(g[Len(q)])
           /\ \A x : Listed(x, g[Len(q)]) <=> x \notin W /\ Listed(x, q)
  <1> DEFINE Left(i) == /\ g[i] \in Seq(CvTasks) /\ NoneTwice(g[i])
                        /\ \A x : Listed(x, g[i]) <=> x \notin W /\ \E j \in 1..i : q[j] = x
             S == {m \in Nat : m <= Len(q) => Left(m)}
  <1>1. Len(q) \in Nat /\ \A i \in 0..Len(q) : g[i] = WalkStep(q, W, g, i)
    BY DEF IsWalk
  <1>2. 0 \in S
    <2>1. g[0] = << >>
      BY <1>1 DEF WalkStep
    <2>2. << >> \in Seq(CvTasks) /\ NoneTwice(<< >>) /\ \A x : ~Listed(x, << >>)
      BY DEF NoneTwice, Listed
    <2>3. \A x : ~\E j \in 1..0 : q[j] = x
      OBVIOUS
    <2>4. Left(0)
      <3> QED
        BY <2>1, <2>2, <2>3, Zenon
    <2> HIDE DEF Left
    <2> QED
      BY <2>4
  <1>3. ASSUME NEW m \in Nat, m \in S PROVE m + 1 \in S
    <2> SUFFICES ASSUME m + 1 <= Len(q) PROVE Left(m + 1)
      OBVIOUS
    <2> DEFINE e == q[m + 1]
    <2>1. e \in CvTasks /\ \A j \in 1..m : q[j] # e
      BY <1>1 DEF NoneTwice
    <2>2. Left(m)
      BY <1>1, <1>3
    <2>3. \A x : (\E j \in 1..(m + 1) : q[j] = x) <=> x = e \/ (\E j \in 1..m : q[j] = x)
      BY <1>1
    <2>4. g[m + 1] = IF e \in W THEN g[m] ELSE Append(g[m], e)
      BY <1>1 DEF WalkStep
    <2>5. CASE e \in W
      BY <2>2, <2>3, <2>4, <2>5
    <2>6. CASE e \notin W
      <3>1. ~Listed(e, g[m])
        BY <2>1, <2>2
      <3>2. /\ Append(g[m], e) \in Seq(CvTasks) /\ NoneTwice(Append(g[m], e))
            /\ \A x : Listed(x, Append(g[m], e)) <=> x = e \/ Listed(x, g[m])
        BY <2>1, <2>2, <3>1, AppendListed
      <3> QED
        BY <2>2, <2>3, <2>4, <2>6, <3>2
    <2> QED
      BY <2>5, <2>6
  <1> HIDE DEF S
  <1>4. Nat \subseteq S
    BY <1>2, <1>3, SetInduction
  <1>5. Left(Len(q))
    <2> HIDE DEF Left
    <2> QED
      BY <1>1, <1>4 DEF S
  <1>6. \A x : (\E j \in 1..Len(q) : q[j] = x) <=> Listed(x, q)
    BY DEF Listed
  <1> QED
    BY <1>5, <1>6, Zenon

(* What a wake-up leaves of the wait queue. *)
LEMMA StillQueuedLeaves ==
    ASSUME cv_queue \in Seq(CvTasks), NoneTwice(cv_queue), NEW W
    PROVE  /\ StillQueued(W) \in Seq(CvTasks) /\ NoneTwice(StillQueued(W))
           /\ \A x : Listed(x, StillQueued(W)) <=> x \notin W /\ Listed(x, cv_queue)
  <1> DEFINE k == CHOOSE g : IsWalk(cv_queue, W, g, Len(cv_queue))
  <1>1. Len(cv_queue) \in Nat
    OBVIOUS
  <1>2. IsWalk(cv_queue, W, k, Len(cv_queue))
    BY <1>1, WalkExists
  <1>3. StillQueued(W) = k[Len(cv_queue)]
    BY DEF StillQueued, IsWalk, WalkStep
  <1> HIDE DEF k
  <1> QED
    BY <1>2, <1>3, WalkLeaves

-----------------------------------------------------------------------------
(* The inductive invariant of the condition variable *)

(* The lock's holder is the one task, or the one handler, that is between  *)
(* taking the lock and giving it up.                                       *)
LockOwner ==
    \A t \in CvTasks :
      /\ cv_holder = <<t, "task">> <=> cv_pc[t] \in {"hold", "prepared", "relocked"}
      /\ cv_holder = <<t, "handler">> <=> cv_handler[t] \in {"saved", "disabled"}

(* What the task, the lock's flags word and the local word remember of the *)
(* interrupt state, at every place the task can be.                        *)
TaskIrq(t) ==
    /\ cv_kind = "none" => cv_pc[t] = "idle"
    /\ cv_handler[t] # "none" => /\ cv_kind = "irq" /\ ~cv_irq[t] /\ cv_outer[t]
                                 /\ cv_pc[t] \in {"idle", "asleep"}
    /\ cv_handler[t] = "none" /\ cv_pc[t] \in {"idle", "asleep"} => (cv_irq[t] <=> cv_outer[t])
    /\ cv_pc[t] \in {"prepared", "asleep", "respin", "relocked"} =>
         cv_outer[t] /\ (cv_saved[t] <=> cv_kind = "irq")
    /\ cv_pc[t] \in {"spin", "respin"} =>
         cv_kind = "irq" /\ ~cv_irq[t] /\ cv_local[t] = Irq(cv_outer[t])
    /\ cv_pc[t] \in {"hold", "prepared", "relocked"} =>
         IF cv_kind = "irq" THEN ~cv_irq[t] /\ cv_flags = Irq(cv_outer[t])
                            ELSE cv_flags = "plain" /\ cv_irq[t] /\ cv_outer[t]
    /\ cv_handler[t] = "saved" => cv_flags = "off"

(* A task that sleeps is in the queue, once, and an announcement to        *)
(* everybody leaves nobody asleep.                                         *)
Waiters ==
    /\ NoneTwice(cv_queue)
    /\ \A t \in CvTasks :
         /\ Listed(t, cv_queue) => cv_pc[t] \in {"prepared", "asleep", "respin", "relocked"}
         /\ cv_state[t] = "sleep" => Listed(t, cv_queue) /\ cv_pc[t] \in {"prepared", "asleep"}
         /\ cv_cond = "broadcast" => cv_state[t] = "run"

CvIInv == CvTypeOK /\ LockOwner /\ (\A t \in CvTasks : TaskIrq(t)) /\ Waiters

(* The strengthening gives the soundness of the condition variable. *)
LEMMA CvIInvSuffices == CvIInv => CondVarSound
  <1> SUFFICES ASSUME CvIInv PROVE CondVarSound
    OBVIOUS
  <1> USE DEF CvIInv
  <1>1. IrqStateKept
    BY DEF CvTypeOK, LockOwner, TaskIrq, IrqStateKept
  <1>2. NoSelfDeadlock
    BY DEF CvTypeOK, LockOwner, TaskIrq, NoSelfDeadlock
  <1>3. WakeNotLost
    BY DEF CvTypeOK, Waiters, WakeNotLost
  <1> QED
    BY <1>1, <1>2, <1>3 DEF CondVarSound

(* Initially the lock is free, every task runs with interrupts enabled and *)
(* nobody waits.                                                           *)
LEMMA CvInitInv == CvInit => CvIInv
  <1> SUFFICES ASSUME CvInit PROVE CvIInv
    OBVIOUS
  <1> USE DEF CvInit
  <1>1. CvTypeOK
    BY DEF CvTypeOK
  <1>2. LockOwner
    BY NoHolderAssumption DEF LockOwner
  <1>3. \A t \in CvTasks : TaskIrq(t)
    BY DEF TaskIrq
  <1>4. Waiters
    BY DEF Waiters, NoneTwice, Listed
  <1> QED
    BY <1>1, <1>2, <1>3, <1>4 DEF CvIInv

-----------------------------------------------------------------------------
(* Taking the lock and giving it up *)

(* Initialising the lock, taking it in either way and failing to, keep the *)
(* invariant: the word the interrupt state is saved in belongs to the task *)
(* until the lock is its own.                                              *)
LEMMA CvLockSteps ==
    ASSUME CvIInv, NEW t \in CvTasks,
           \/ \E kind \in {"plain", "irq"} : fusion_init_spin(kind)
           \/ OuterIrq(t) \/ LockByUse(t) \/ Relock(t) \/ RelockIrq(t)
    PROVE  CvIInv'
  <1> USE DEF CvIInv, At, Goto, lockVars, waitVars, Irq
  <1>1. ASSUME NEW kind \in {"plain", "irq"}, fusion_init_spin(kind) PROVE CvIInv'
    <2> USE <1>1 DEF fusion_init_spin
    <2>1. CvTypeOK'
      BY DEF CvTypeOK
    <2>2. LockOwner'
      BY DEF LockOwner
    <2>3. \A u \in CvTasks : TaskIrq(u)'
      BY DEF TaskIrq, CvTypeOK
    <2>4. Waiters'
      BY DEF Waiters
    <2> QED
      BY <2>1, <2>2, <2>3, <2>4
  <1>2. CASE OuterIrq(t)
    <2> USE <1>2 DEF OuterIrq
    <2>1. CvTypeOK'
      BY DEF CvTypeOK
    <2>2. LockOwner'
      BY DEF LockOwner
    <2>3. \A u \in CvTasks : TaskIrq(u)'
      BY DEF TaskIrq, CvTypeOK
    <2>4. Waiters'
      BY DEF Waiters
    <2> QED
      BY <2>1, <2>2, <2>3, <2>4
  <1>3. ASSUME NEW from, NEW to, fusion_spin_lock(t, from, to), cv_kind = "plain",
               \/ from = "idle" /\ to = "hold" /\ cv_outer[t]
               \/ from = "asleep" /\ to = "relocked" /\ cv_state[t] = "run"
        PROVE  CvIInv'
    <2> USE <1>3 DEF fusion_spin_lock
    <2>1. CvTypeOK'
      BY DEF CvTypeOK
    <2>2. LockOwner'
      BY NoHolderAssumption DEF LockOwner, CvTypeOK
    <2>3. \A u \in CvTasks : TaskIrq(u)'
      BY NoHolderAssumption DEF TaskIrq, CvTypeOK, LockOwner
    <2>4. Waiters'
      BY DEF Waiters, CvTypeOK
    <2> QED
      BY <2>1, <2>2, <2>3, <2>4
  <1>4. ASSUME NEW from, NEW to, IrqSave(t, from, to), cv_kind = "irq",
               \/ from = "idle" /\ to = "spin"
               \/ from = "asleep" /\ to = "respin" /\ cv_state[t] = "run"
        PROVE  CvIInv'
    <2> USE <1>4 DEF IrqSave
    <2>1. CvTypeOK'
      BY DEF CvTypeOK
    <2>2. LockOwner'
      BY DEF LockOwner, CvTypeOK
    <2>3. \A u \in CvTasks : TaskIrq(u)'
      BY DEF TaskIrq, CvTypeOK
    <2>4. Waiters'
      BY DEF Waiters, CvTypeOK
    <2> QED
      BY <2>1, <2>2, <2>3, <2>4
  <1>5. ASSUME NEW from, NEW to, IrqSaveLocked(t, from, to),
               \/ from = "spin" /\ to = "hold"
               \/ from = "respin" /\ to = "relocked"
        PROVE  CvIInv'
    <2> USE <1>5 DEF IrqSaveLocked
    <2>1. CvTypeOK'
      BY DEF CvTypeOK
    <2>2. LockOwner'
      BY NoHolderAssumption DEF LockOwner, CvTypeOK
    <2>3. \A u \in CvTasks : TaskIrq(u)'
      BY NoHolderAssumption DEF TaskIrq, CvTypeOK, LockOwner
    <2>4. Waiters'
      BY DEF Waiters, CvTypeOK
    <2> QED
      BY <2>1, <2>2, <2>3, <2>4
  <1>6. CASE TrylockFails(t)
    <2> USE <1>6 DEF TrylockFails
    <2>1. CvTypeOK'
      BY DEF CvTypeOK
    <2>2. LockOwner'
      BY DEF LockOwner, CvTypeOK
    <2>3. \A u \in CvTasks : TaskIrq(u)'
      BY DEF TaskIrq, CvTypeOK
    <2>4. Waiters'
      BY DEF Waiters, CvTypeOK
    <2> QED
      BY <2>1, <2>2, <2>3, <2>4
  <1>7. CASE LockByUse(t)
    BY <1>3, <1>4, <1>5, <1>6, <1>7 DEF LockByUse
  <1>8. CASE Relock(t)
    <2>1. CASE cv_saved[t]
      BY <1>4, <1>8, <2>1 DEF Relock, IrqSave, TaskIrq
    <2>2. CASE ~cv_saved[t]
      BY <1>3, <1>8, <2>2 DEF Relock, fusion_spin_lock, TaskIrq, CvTypeOK
    <2> QED
      BY <2>1, <2>2
  <1>9. CASE RelockIrq(t)
    BY <1>5, <1>9 DEF RelockIrq
  <1> QED
    BY <1>1, <1>2, <1>7, <1>8, <1>9

(* Giving the lock up, at the end of its use or inside a wait, finds in    *)
(* the flags word what this holder saved there.                            *)
LEMMA CvUnlockSteps ==
    ASSUME CvIInv, NEW t \in CvTasks, UnlockByUse(t) \/ WaitUnlock(t)
    PROVE  CvIInv'
  <1> USE DEF CvIInv, At, Goto, lockVars, waitVars, Irq
  <1>1. ASSUME NEW restore \in BOOLEAN, NEW from, NEW to, Unlock(t, restore, from, to),
               restore <=> cv_kind = "irq",
               \/ from = "hold" /\ to = "idle"
               \/ from = "prepared" /\ to = "asleep"
        PROVE  CvIInv'
    <2> USE <1>1 DEF Unlock
    <2>1. CvTypeOK'
      <3>1. CASE restore
        BY <3>1 DEF CvTypeOK
      <3>2. CASE ~restore
        BY <3>2 DEF CvTypeOK
      <3> QED
        BY <3>1, <3>2
    <2>2. LockOwner'
      BY NoHolderAssumption DEF LockOwner, CvTypeOK
    <2>3. \A u \in CvTasks : TaskIrq(u)'
      <3>1. CASE restore
        BY <3>1 DEF TaskIrq, CvTypeOK, LockOwner
      <3>2. CASE ~restore
        BY <3>2 DEF TaskIrq, CvTypeOK, LockOwner
      <3> QED
        BY <3>1, <3>2
    <2>4. Waiters'
      BY DEF Waiters, CvTypeOK
    <2> QED
      BY <2>1, <2>2, <2>3, <2>4
  <1>2. CASE UnlockByUse(t)
    BY <1>1, <1>2 DEF UnlockByUse
  <1>3. CASE WaitUnlock(t)
    <2>1. cv_saved[t] \in BOOLEAN /\ (cv_saved[t] <=> cv_kind = "irq")
      BY <1>3 DEF WaitUnlock, Unlock, TaskIrq, CvTypeOK
    <2> QED
      BY <1>1, <1>3, <2>1 DEF WaitUnlock
  <1> QED
    BY <1>2, <1>3

-----------------------------------------------------------------------------
(* Waiting and waking *)

(* Joining and leaving the wait queue, and a wake-up nobody asked for. *)
LEMMA CvWaitSteps ==
    ASSUME CvIInv, NEW t \in CvTasks,
           PrepareToWait(t) \/ WakeUnasked(t) \/ FinishWait(t) \/ TaskClears(t)
    PROVE  CvIInv'
  <1> USE DEF CvIInv, At, Goto, lockVars, waitVars, Irq
  <1>1. CASE PrepareToWait(t)
    <2> USE <1>1 DEF PrepareToWait
    <2>0. /\ ~Listed(t, cv_queue) /\ NoneTwice(cv_queue) /\ cv_queue \in Seq(CvTasks)
      BY DEF Waiters, CvTypeOK
    <2>1. /\ Append(cv_queue, t) \in Seq(CvTasks) /\ NoneTwice(Append(cv_queue, t))
          /\ \A x : Listed(x, Append(cv_queue, t)) <=> x = t \/ Listed(x, cv_queue)
      BY <2>0, AppendListed
    <2>2. CvTypeOK'
      BY <2>1 DEF CvTypeOK
    <2>3. LockOwner'
      BY DEF LockOwner, CvTypeOK
    <2>4. \A u \in CvTasks : TaskIrq(u)'
      BY ZenonT(60) DEF TaskIrq, CvTypeOK
    <2>5. Waiters'
      <3> HIDE DEF PrepareToWait
      <3>1. /\ cv_queue' = Append(cv_queue, t) /\ cv_cond' = "false"
            /\ cv_state' = [cv_state EXCEPT ![t] = "sleep"]
            /\ cv_pc' = [cv_pc EXCEPT ![t] = "prepared"]
        BY <1>1 DEF PrepareToWait
      <3>2. NoneTwice(cv_queue')
        BY <2>1, <3>1
      <3>3. \A x : Listed(x, cv_queue') <=> x = t \/ Listed(x, cv_queue)
        BY <2>1, <3>1
      <3> QED
        BY <3>1, <3>2, <3>3 DEF Waiters, CvTypeOK
    <2> QED
      BY <2>2, <2>3, <2>4, <2>5
  <1>2. CASE WakeUnasked(t)
    <2> USE <1>2 DEF WakeUnasked
    <2>1. CvTypeOK'
      BY DEF CvTypeOK
    <2>2. LockOwner'
      BY DEF LockOwner
    <2>3. \A u \in CvTasks : TaskIrq(u)'
      BY DEF TaskIrq
    <2>4. Waiters'
      BY DEF Waiters, CvTypeOK
    <2> QED
      BY <2>1, <2>2, <2>3, <2>4
  <1>3. CASE FinishWait(t)
    <2> USE <1>3 DEF FinishWait
    <2>0. NoneTwice(cv_queue) /\ cv_queue \in Seq(CvTasks)
      BY DEF Waiters, CvTypeOK
    <2>1. /\ RemoveFirst(cv_queue, t) \in Seq(CvTasks) /\ NoneTwice(RemoveFirst(cv_queue, t))
          /\ \A x : Listed(x, RemoveFirst(cv_queue, t)) <=> x # t /\ Listed(x, cv_queue)
      BY <2>0, RemoveFirstListed
    <2>2. CvTypeOK'
      BY <2>1 DEF CvTypeOK
    <2>3. LockOwner'
      BY DEF LockOwner, CvTypeOK
    <2>4. \A u \in CvTasks : TaskIrq(u)'
      BY DEF TaskIrq, CvTypeOK
    <2>5. Waiters'
      <3> HIDE DEF FinishWait
      <3>1. /\ cv_queue' = RemoveFirst(cv_queue, t) /\ UNCHANGED <<cv_state, cv_cond>>
            /\ cv_pc' = [cv_pc EXCEPT ![t] = "hold"] /\ cv_pc[t] = "relocked"
        BY <1>3 DEF FinishWait
      <3>2. NoneTwice(cv_queue')
        BY <2>1, <3>1
      <3>3. \A x : Listed(x, cv_queue') <=> x # t /\ Listed(x, cv_queue)
        BY <2>1, <3>1
      <3> QED
        BY <3>1, <3>2, <3>3 DEF Waiters, CvTypeOK
    <2> QED
      BY <2>2, <2>3, <2>4, <2>5
  <1>4. CASE TaskClears(t)
    <2> USE <1>4 DEF TaskClears
    <2>1. CvTypeOK'
      BY DEF CvTypeOK
    <2>2. LockOwner'
      BY DEF LockOwner
    <2>3. \A u \in CvTasks : TaskIrq(u)'
      BY DEF TaskIrq
    <2>4. Waiters'
      BY DEF Waiters
    <2> QED
      BY <2>1, <2>2, <2>3, <2>4
  <1> QED
    BY <1>1, <1>2, <1>3, <1>4

(* Telling the waiters wakes sleepers only, takes the ones it wakes out of *)
(* the queue, and leaves no sleeper when it is a broadcast.                *)
LEMMA CvTellSteps ==
    ASSUME CvIInv, NEW t \in CvTasks, NEW all \in BOOLEAN,
           TaskTells(t, all) \/ HandlerTells(t, all)
    PROVE  CvIInv'
  <1> USE DEF CvIInv, lockVars
  <1> DEFINE W == Woken(all)
             Q == StillQueued(W)
  <1>1. /\ Tell(all)
        /\ UNCHANGED <<cv_kind, lockVars, cv_irq, cv_outer, cv_pc, cv_local, cv_saved, cv_handler>>
    BY DEF TaskTells, HandlerTells
  <1>2. \A u \in W : cv_state[u] = "sleep" /\ u \in CvTasks
    <2>1. cv_queue \in Seq(CvTasks)
      BY DEF CvTypeOK
    <2> QED
      BY <2>1 DEF Woken
  <1>3. all => \A u \in CvTasks : cv_state[u] = "sleep" => u \in W
    BY DEF Woken, Waiters, Listed, CvTypeOK
  <1>4. Q \in Seq(CvTasks) /\ NoneTwice(Q) /\ \A x : Listed(x, Q) <=> x \notin W /\ Listed(x, cv_queue)
    BY StillQueuedLeaves DEF Waiters, CvTypeOK
  <1> HIDE DEF W, Q
  <1>5. /\ cv_state' = [u \in CvTasks |-> IF u \in W THEN "run" ELSE cv_state[u]]
        /\ cv_queue' = Q
        /\ cv_cond' = IF all THEN "broadcast" ELSE "signalled"
    BY <1>1 DEF Tell, Wake, W, Q
  <1>6. CvTypeOK'
    BY <1>1, <1>4, <1>5 DEF CvTypeOK
  <1>7. LockOwner'
    BY <1>1 DEF LockOwner
  <1>8. \A u \in CvTasks : TaskIrq(u)'
    BY <1>1 DEF TaskIrq
  <1>9. Waiters'
    BY <1>1, <1>2, <1>3, <1>4, <1>5 DEF Waiters, CvTypeOK
  <1> QED
    BY <1>6, <1>7, <1>8, <1>9

-----------------------------------------------------------------------------
(* Interrupts *)

(* A handler comes and goes without disturbing what the interrupted task   *)
(* and the lock's holder remember.                                         *)
LEMMA CvHandlerSteps ==
    ASSUME CvIInv, NEW t \in CvTasks,
           Interrupt(t) \/ HandlerLock(t) \/ HandlerUnlock(t) \/ InterruptReturn(t)
    PROVE  CvIInv'
  <1> USE DEF CvIInv, lockVars, waitVars, Irq
  <1>1. CASE Interrupt(t)
    <2> USE <1>1 DEF Interrupt
    <2>1. CvTypeOK'
      BY DEF CvTypeOK
    <2>2. LockOwner'
      BY DEF LockOwner, CvTypeOK
    <2>3. \A u \in CvTasks : TaskIrq(u)'
      BY DEF TaskIrq, CvTypeOK
    <2>4. Waiters'
      BY DEF Waiters
    <2> QED
      BY <2>1, <2>2, <2>3, <2>4
  <1>2. CASE HandlerLock(t)
    <2> USE <1>2 DEF HandlerLock
    <2>1. CvTypeOK'
      BY DEF CvTypeOK
    <2>2. LockOwner'
      BY NoHolderAssumption DEF LockOwner, CvTypeOK
    <2>3. \A u \in CvTasks : TaskIrq(u)'
      BY NoHolderAssumption DEF TaskIrq, CvTypeOK, LockOwner
    <2>4. Waiters'
      BY DEF Waiters
    <2> QED
      BY <2>1, <2>2, <2>3, <2>4
  <1>3. CASE HandlerUnlock(t)
    <2> USE <1>3 DEF HandlerUnlock
    <2>0. cv_irq' = cv_irq
      BY DEF TaskIrq, CvTypeOK
    <2>1. CvTypeOK'
      BY <2>0 DEF CvTypeOK
    <2>2. LockOwner'
      BY NoHolderAssumption DEF LockOwner, CvTypeOK
    <2>3. \A u \in CvTasks : TaskIrq(u)'
      BY <2>0 DEF TaskIrq, CvTypeOK
    <2>4. Waiters'
      BY DEF Waiters
    <2> QED
      BY <2>1, <2>2, <2>3, <2>4
  <1>4. CASE InterruptReturn(t)
    <2> USE <1>4 DEF InterruptReturn
    <2>1. CvTypeOK'
      BY DEF CvTypeOK
    <2>2. LockOwner'
      BY DEF LockOwner, CvTypeOK
    <2>3. \A u \in CvTasks : TaskIrq(u)'
      BY DEF TaskIrq, CvTypeOK
    <2>4. Waiters'
      BY DEF Waiters
    <2> QED
      BY <2>1, <2>2, <2>3, <2>4
  <1> QED
    BY <1>1, <1>2, <1>3, <1>4

-----------------------------------------------------------------------------
(* Every step keeps the invariant. *)
LEMMA CvNextInv == CvIInv /\ [CvNext]_cvVars => CvIInv'
  <1> SUFFICES ASSUME CvIInv, [CvNext]_cvVars PROVE CvIInv'
    OBVIOUS
  <1>1. ASSUME NEW kind \in {"plain", "irq"}, fusion_init_spin(kind) PROVE CvIInv'
    <2>1. CASE CvTasks = {}
      BY <1>1, <2>1 DEF CvIInv, CvTypeOK, LockOwner, Waiters, fusion_init_spin, lockVars, waitVars
    <2>2. ASSUME NEW t \in CvTasks PROVE CvIInv'
      BY <1>1, CvLockSteps
    <2> QED
      BY <2>1, <2>2
  <1>2. ASSUME NEW t \in CvTasks,
               OuterIrq(t) \/ LockByUse(t) \/ Relock(t) \/ RelockIrq(t)
        PROVE  CvIInv'
    BY <1>2, CvLockSteps
  <1>3. ASSUME NEW t \in CvTasks, UnlockByUse(t) \/ WaitUnlock(t) PROVE CvIInv'
    BY <1>3, CvUnlockSteps
  <1>4. ASSUME NEW t \in CvTasks,
               PrepareToWait(t) \/ WakeUnasked(t) \/ FinishWait(t) \/ TaskClears(t)
        PROVE  CvIInv'
    BY <1>4, CvWaitSteps
  <1>5. ASSUME NEW t \in CvTasks, NEW all \in BOOLEAN, TaskTells(t, all) \/ HandlerTells(t, all)
        PROVE  CvIInv'
    BY <1>5, CvTellSteps
  <1>6. ASSUME NEW t \in CvTasks,
               Interrupt(t) \/ HandlerLock(t) \/ HandlerUnlock(t) \/ InterruptReturn(t)
        PROVE  CvIInv'
    BY <1>6, CvHandlerSteps
  <1>7. CASE UNCHANGED cvVars
    BY <1>7 DEF CvIInv, CvTypeOK, LockOwner, TaskIrq, Waiters, cvVars
  <1> QED
    BY <1>1, <1>2, <1>3, <1>4, <1>5, <1>6, <1>7 DEF CvNext

(* However many tasks take, wait for and tell under the lock, with the     *)
(* plain operations or against interrupt handlers: every task gets back    *)
(* the interrupt state it had (fusion_spin_unlock_irqrestore), no handler  *)
(* spins against its own CPU, and no broadcast leaves a waiter asleep      *)
(* (fusion_condvar_wait, fusion_condvar_broadcast).                        *)
THEOREM CondVarAlwaysSound == CvSpec => [](CvTypeOK /\ CondVarSound)
  <1>1. CvIInv => CvTypeOK /\ CondVarSound
    BY CvIInvSuffices DEF CvIInv
  <1> QED
    BY <1>1, CvInitInv, CvNextInv, PTL DEF CvSpec

-----------------------------------------------------------------------------
(* Rings of links *)

Links == [next : [LinkEnds -> LinkEnds], prev : [LinkEnds -> LinkEnds]]

(* Going round from the head: the head itself is at both ends. *)
RingAt(h, s, i) == IF i \in 1..Len(s) THEN s[i] ELSE h

(* The links of the list h lead through s, in both directions. *)
Linked(l, h, s) ==
    \A i \in 0..Len(s) : /\ l.next[RingAt(h, s, i)] = RingAt(h, s, i + 1)
                         /\ l.prev[RingAt(h, s, i + 1)] = RingAt(h, s, i)

(* The links lead through t, from its first entry to its last. *)
Chained(l, t) ==
    \A j \in 1..(Len(t) - 1) : l.next[t[j]] = t[j + 1] /\ l.prev[t[j + 1]] = t[j]

(* The places of a ring are different ends. *)
LEMMA RingPlaces ==
    ASSUME NEW h \in PortHeads, NEW s \in Seq(PortEntries), NoneTwice(s)
    PROVE  /\ \A i \in 0..(Len(s) + 1) : RingAt(h, s, i) \in {h} \cup PortEntries
           /\ \A i \in 0..(Len(s) + 1) : RingAt(h, s, i) = h \/ Listed(RingAt(h, s, i), s)
           /\ \A i, j \in 0..Len(s) : RingAt(h, s, i) = RingAt(h, s, j) => i = j
           /\ \A i, j \in 1..(Len(s) + 1) : RingAt(h, s, i) = RingAt(h, s, j) => i = j
  <1>1. Len(s) \in Nat /\ \A i \in 1..Len(s) : s[i] \in PortEntries /\ s[i] # h
    BY PortListAssumption
  <1>2. \A i \in 0..(Len(s) + 1) : RingAt(h, s, i) \in {h} \cup PortEntries
    BY <1>1 DEF RingAt
  <1>3. \A i \in 0..(Len(s) + 1) : RingAt(h, s, i) = h \/ Listed(RingAt(h, s, i), s)
    BY <1>1 DEF RingAt, Listed
  <1>4. \A i, j \in 0..Len(s) : RingAt(h, s, i) = RingAt(h, s, j) => i = j
    BY <1>1 DEF RingAt, NoneTwice
  <1>5. \A i, j \in 1..(Len(s) + 1) : RingAt(h, s, i) = RingAt(h, s, j) => i = j
    BY <1>1 DEF RingAt, NoneTwice
  <1> QED
    BY <1>2, <1>3, <1>4, <1>5

(* A ring none of whose links changed is a ring still. *)
LEMMA LinkedFrame ==
    ASSUME NEW h \in PortHeads, NEW s \in Seq(PortEntries), NoneTwice(s),
           NEW l, NEW m, Linked(l, h, s),
           \A x : x = h \/ Listed(x, s) => m.next[x] = l.next[x] /\ m.prev[x] = l.prev[x]
    PROVE  Linked(m, h, s)
  <1>1. Len(s) \in Nat
    OBVIOUS
  <1>2. \A i \in 0..(Len(s) + 1) : m.next[RingAt(h, s, i)] = l.next[RingAt(h, s, i)]
                                  /\ m.prev[RingAt(h, s, i)] = l.prev[RingAt(h, s, i)]
    BY RingPlaces
  <1>3. \A i \in 0..Len(s) : i \in 0..(Len(s) + 1) /\ i + 1 \in 0..(Len(s) + 1)
    BY <1>1
  <1> QED
    BY <1>2, <1>3 DEF Linked

(* A chain t put in after place k of a ring: the two neighbours and the    *)
(* two ends of the chain are linked, everything else stays.                *)
LEMMA ChainIn ==
    ASSUME NEW h \in PortHeads, NEW s \in Seq(PortEntries), NEW t \in Seq(PortEntries),
           NEW u \in Seq(PortEntries), NEW k \in 0..Len(s), NEW l, NEW m,
           t # << >>, NoneTwice(s), NoneTwice(t), \A x : ~(Listed(x, s) /\ Listed(x, t)),
           Woven(u, s, k, t), Linked(l, h, s), Chained(l, t),
           \A x \in {h} \cup PortEntries :
             /\ m.next[x] = IF x = RingAt(h, s, k) THEN t[1]
                            ELSE IF x = t[Len(t)] THEN RingAt(h, s, k + 1) ELSE l.next[x]
             /\ m.prev[x] = IF x = RingAt(h, s, k + 1) THEN t[Len(t)]
                            ELSE IF x = t[1] THEN RingAt(h, s, k) ELSE l.prev[x]
    PROVE  Linked(m, h, u)
  <1>1. Len(s) \in Nat /\ Len(t) \in Nat /\ Len(t) >= 1 /\ Len(u) = Len(s) + Len(t) /\ k \in Nat /\ k <= Len(s)
    BY DEF Woven
  <1> DEFINE R(i) == RingAt(h, s, i)
             U(i) == RingAt(h, u, i)
  <1>2. ASSUME NEW i \in 0..(Len(u) + 1)
        PROVE  U(i) = IF i <= k THEN R(i) ELSE IF i <= k + Len(t) THEN t[i - k] ELSE R(i - Len(t))
    <2>1. CASE i <= k
      <3>1. i \in Nat /\ i <= Len(s) /\ i <= Len(u)
        BY <1>1, <2>1
      <3>2. i # 0 => u[i] = s[i]
        BY <1>1, <2>1, <3>1 DEF Woven
      <3>3. U(i) = R(i)
        BY <1>1, <3>1, <3>2 DEF RingAt
      <3> QED
        BY <2>1, <3>3
    <2>2. CASE k < i /\ i <= k + Len(t)
      BY <1>1, <2>2 DEF RingAt, Woven
    <2>3. CASE k + Len(t) < i
      BY <1>1, <2>3 DEF RingAt, Woven
    <2> QED
      BY <1>1, <2>1, <2>2, <2>3
  <1>3. /\ \A i \in 0..(Len(s) + 1) : R(i) \in {h} \cup PortEntries /\ (R(i) = h \/ Listed(R(i), s))
        /\ \A i, j \in 0..Len(s) : R(i) = R(j) => i = j
        /\ \A i, j \in 1..(Len(s) + 1) : R(i) = R(j) => i = j
    BY RingPlaces
  <1>4. \A j \in 1..Len(t) : t[j] \in PortEntries /\ t[j] # h /\ Listed(t[j], t)
    BY PortListAssumption DEF Listed
  <1>5. \A i \in 0..(Len(s) + 1), j \in 1..Len(t) : R(i) # t[j]
    BY <1>3, <1>4
  <1>6. \A i, j \in 1..Len(t) : t[i] = t[j] => i = j
    BY DEF NoneTwice
  <1>7. \A i \in 0..Len(s) : l.next[R(i)] = R(i + 1) /\ l.prev[R(i + 1)] = R(i)
    BY DEF Linked
  <1> HIDE DEF R, U
  <1>8. 1 \in 1..Len(t) /\ Len(t) \in 1..Len(t) /\ k \in 0..(Len(s) + 1) /\ k + 1 \in 0..(Len(s) + 1)
    BY <1>1
  <1>9. \A x \in {h} \cup PortEntries :
             /\ m.next[x] = IF x = R(k) THEN t[1] ELSE IF x = t[Len(t)] THEN R(k + 1) ELSE l.next[x]
             /\ m.prev[x] = IF x = R(k + 1) THEN t[Len(t)] ELSE IF x = t[1] THEN R(k) ELSE l.prev[x]
    BY DEF R
  <1>10. ASSUME NEW i \in 0..Len(s), i # k
         PROVE  m.next[R(i)] = R(i + 1) /\ m.prev[R(i + 1)] = R(i)
    <2>1. i \in 0..(Len(s) + 1) /\ i + 1 \in 0..(Len(s) + 1) /\ i + 1 \in 1..(Len(s) + 1) /\ k + 1 \in 1..(Len(s) + 1)
      BY <1>1
    <2>2. R(i) # R(k) /\ R(i) # t[Len(t)]
      BY <1>3, <1>5, <1>8, <1>10, <2>1
    <2>3. R(i + 1) # R(k + 1)
      <3>1. i + 1 # k + 1
        BY <1>1, <1>10
      <3> QED
        BY <1>3, <2>1, <3>1
    <2>4. R(i + 1) # t[1]
      BY <1>5, <1>8, <2>1
    <2> QED
      BY <1>3, <1>7, <1>9, <2>1, <2>2, <2>3, <2>4
  <1>11. \A j \in 1..(Len(t) - 1) : l.next[t[j]] = t[j + 1] /\ l.prev[t[j + 1]] = t[j]
    BY DEF Chained
  <1>12. ASSUME NEW j \in 1..(Len(t) - 1)
         PROVE  m.next[t[j]] = t[j + 1] /\ m.prev[t[j + 1]] = t[j]
    <2>1. j \in 1..Len(t) /\ j + 1 \in 1..Len(t) /\ j # Len(t) /\ j + 1 # 1
      BY <1>1
    <2>2. t[j] # R(k) /\ t[j] # t[Len(t)] /\ t[j + 1] # R(k + 1) /\ t[j + 1] # t[1]
      BY <1>5, <1>6, <1>8, <2>1
    <2> QED
      BY <1>4, <1>9, <1>11, <2>1, <2>2
  <1>13. m.next[R(k)] = t[1] /\ m.prev[t[1]] = R(k)
    BY <1>3, <1>4, <1>5, <1>8, <1>9
  <1>14. m.next[t[Len(t)]] = R(k + 1) /\ m.prev[R(k + 1)] = t[Len(t)]
    BY <1>3, <1>4, <1>5, <1>8, <1>9
  <1>15. ASSUME NEW i \in 0..Len(u) PROVE m.next[U(i)] = U(i + 1) /\ m.prev[U(i + 1)] = U(i)
    <2>0. i \in 0..(Len(u) + 1) /\ i + 1 \in 0..(Len(u) + 1)
      BY <1>1
    <2>1. CASE i < k
      <3>1. U(i) = R(i) /\ U(i + 1) = R(i + 1) /\ i \in 0..Len(s) /\ i # k
        BY <1>1, <1>2, <2>0, <2>1
      <3> QED
        BY <1>10, <3>1
    <2>2. CASE i = k
      <3>1. U(i) = R(k) /\ U(i + 1) = t[(k + 1) - k] /\ (k + 1) - k = 1
        BY <1>1, <1>2, <2>0, <2>2
      <3> QED
        BY <1>13, <3>1
    <2>3. CASE k < i /\ i < k + Len(t)
      <3>1. U(i) = t[i - k] /\ U(i + 1) = t[(i + 1) - k] /\ (i + 1) - k = (i - k) + 1
            /\ i - k \in 1..(Len(t) - 1)
        BY <1>1, <1>2, <2>0, <2>3
      <3> QED
        BY <1>12, <3>1
    <2>4. CASE i = k + Len(t)
      <3>1. U(i) = t[i - k] /\ i - k = Len(t) /\ U(i + 1) = R((i + 1) - Len(t)) /\ (i + 1) - Len(t) = k + 1
        BY <1>1, <1>2, <2>0, <2>4
      <3> QED
        BY <1>14, <3>1
    <2>5. CASE k + Len(t) < i
      <3> DEFINE n == i - Len(t)
      <3>1. n \in 0..Len(s) /\ n # k /\ (i + 1) - Len(t) = n + 1
        BY <1>1, <2>0, <2>5
      <3>2. U(i) = R(n) /\ U(i + 1) = R((i + 1) - Len(t))
        BY <1>1, <1>2, <2>0, <2>5, SMTT(30)
      <3> HIDE DEF n
      <3> QED
        BY <1>10, <3>1, <3>2
    <2>6. i < k \/ i = k \/ (k < i /\ i < k + Len(t)) \/ i = k + Len(t) \/ k + Len(t) < i
      <3>1. \A a, b, c \in Nat : a < b \/ a = b \/ (b < a /\ a < b + c) \/ a = b + c \/ b + c < a
        OBVIOUS
      <3>2. i \in Nat /\ k \in Nat /\ Len(t) \in Nat
        BY <1>1
      <3> QED
        BY <3>1, <3>2
    <2> QED
      BY <2>1, <2>2, <2>3, <2>4, <2>5, <2>6
  <1> QED
    BY <1>15 DEF Linked, U

(* The entry at place k taken out: its neighbours are linked. *)
LEMMA TakenOut ==
    ASSUME NEW h \in PortHeads, NEW s \in Seq(PortEntries), NEW k \in 1..Len(s), NEW l, NEW m,
           NoneTwice(s), Linked(l, h, s),
           \A x \in {h} \cup PortEntries :
             /\ m.next[x] = IF x = RingAt(h, s, k - 1) THEN RingAt(h, s, k + 1) ELSE l.next[x]
             /\ m.prev[x] = IF x = RingAt(h, s, k + 1) THEN RingAt(h, s, k - 1) ELSE l.prev[x]
    PROVE  Linked(m, h, RemoveAt(s, k))
  <1> DEFINE u == RemoveAt(s, k)
             R(i) == RingAt(h, s, i)
             U(i) == RingAt(h, u, i)
  <1>1. /\ Len(s) \in Nat /\ Len(u) = Len(s) - 1 /\ Len(s) >= 1 /\ k \in Nat /\ k >= 1 /\ k <= Len(s)
        /\ \A i \in 1..(Len(s) - 1) : u[i] = IF i < k THEN s[i] ELSE s[i + 1]
    BY RemoveAtPlaces
  <1> HIDE DEF u
  <1>2. \A i \in 0..Len(s) : U(i) = IF i < k THEN R(i) ELSE R(i + 1)
    BY <1>1 DEF RingAt
  <1>3. /\ \A i \in 0..(Len(s) + 1) : R(i) \in {h} \cup PortEntries
        /\ \A i, j \in 0..Len(s) : R(i) = R(j) => i = j
        /\ \A i, j \in 1..(Len(s) + 1) : R(i) = R(j) => i = j
    BY RingPlaces
  <1>4. \A i \in 0..Len(s) : l.next[R(i)] = R(i + 1) /\ l.prev[R(i + 1)] = R(i)
    BY DEF Linked
  <1>5. \A x \in {h} \cup PortEntries :
             /\ m.next[x] = IF x = R(k - 1) THEN R(k + 1) ELSE l.next[x]
             /\ m.prev[x] = IF x = R(k + 1) THEN R(k - 1) ELSE l.prev[x]
    OBVIOUS
  <1> HIDE DEF R, U
  <1>6. ASSUME NEW i \in 0..Len(s), i # k - 1, i # k
        PROVE  m.next[R(i)] = R(i + 1) /\ m.prev[R(i + 1)] = R(i)
    <2>1. /\ i \in 0..(Len(s) + 1) /\ i + 1 \in 0..(Len(s) + 1) /\ i + 1 \in 1..(Len(s) + 1)
          /\ k + 1 \in 1..(Len(s) + 1) /\ k - 1 \in 0..Len(s) /\ i + 1 # k + 1
      BY <1>1, <1>6
    <2>2. R(i) # R(k - 1)
      BY <1>3, <1>6, <2>1
    <2>3. R(i + 1) # R(k + 1)
      BY <1>3, <2>1
    <2> QED
      BY <1>3, <1>4, <1>5, <2>1, <2>2, <2>3
  <1>7. m.next[R(k - 1)] = R(k + 1) /\ m.prev[R(k + 1)] = R(k - 1)
    <2>1. k - 1 \in 0..(Len(s) + 1) /\ k + 1 \in 0..(Len(s) + 1)
      BY <1>1
    <2> QED
      BY <1>3, <1>5, <2>1
  <1>8. ASSUME NEW i \in 0..Len(u) PROVE m.next[U(i)] = U(i + 1) /\ m.prev[U(i + 1)] = U(i)
    <2>0. i \in 0..Len(s) /\ i + 1 \in 0..Len(s)
      BY <1>1
    <2>1. CASE i < k - 1
      <3>1. U(i) = R(i) /\ U(i + 1) = R(i + 1) /\ i # k - 1 /\ i # k
        BY <1>1, <1>2, <2>0, <2>1
      <3> QED
        BY <1>6, <2>0, <3>1
    <2>2. CASE i = k - 1
      <3>1. U(i) = R(k - 1) /\ U(i + 1) = R((i + 1) + 1) /\ (i + 1) + 1 = k + 1
        BY <1>1, <1>2, <2>0, <2>2
      <3> QED
        BY <1>7, <3>1
    <2>3. CASE k - 1 < i
      <3>1. U(i) = R(i + 1) /\ U(i + 1) = R((i + 1) + 1) /\ i + 1 # k - 1 /\ i + 1 # k
        BY <1>1, <1>2, <2>0, <2>3
      <3> QED
        BY <1>6, <2>0, <3>1
    <2> QED
      BY <1>1, <2>1, <2>2, <2>3
  <1> QED
    BY <1>8 DEF Linked, U, u

-----------------------------------------------------------------------------
(* All the lists *)

(* No element is on two lists, or twice on one. *)
Apart(q) ==
    /\ \A h \in PortHeads : NoneTwice(q[h])
    /\ \A g, h \in PortHeads, x \in PortEntries : Listed(x, q[g]) /\ Listed(x, q[h]) => g = h

AllLinked(l, q) ==
    /\ l \in Links /\ q \in [PortHeads -> Seq(PortEntries)]
    /\ Apart(q)
    /\ \A h \in PortHeads : Linked(l, h, q[h])

OnNoList(e, q) == \A h \in PortHeads : ~Listed(e, q[h])

(* An element on no list is linked to itself, those of X excepted. *)
Loose(l, q, X) ==
    \A e \in PortEntries \ X : OnNoList(e, q) => l.next[e] = e /\ l.prev[e] = e

PlIInv == AllLinked(pl_link, pl_seq) /\ Loose(pl_link, pl_seq, {})

(* What the two link assignments do. *)
LEMMA LinkAssignments ==
    ASSUME NEW l \in Links, NEW a \in LinkEnds, NEW b \in LinkEnds
    PROVE  /\ LinkNext(l, a, b) \in Links /\ LinkPrev(l, a, b) \in Links
           /\ \A x \in LinkEnds :
                /\ LinkNext(l, a, b).next[x] = IF x = a THEN b ELSE l.next[x]
                /\ LinkNext(l, a, b).prev[x] = l.prev[x]
                /\ LinkPrev(l, a, b).next[x] = l.next[x]
                /\ LinkPrev(l, a, b).prev[x] = IF x = a THEN b ELSE l.prev[x]
  BY DEF Links, LinkNext, LinkPrev

(* What fusion_list_add leaves in the links: the new entry's own links are *)
(* set between the neighbours'.                                            *)
LEMMA AddLinks ==
    ASSUME NEW l \in Links, NEW e \in LinkEnds, NEW p \in LinkEnds, NEW n \in LinkEnds
    PROVE  /\ fusion_list_add(l, e, p, n) \in Links
           /\ \A x \in LinkEnds :
                /\ fusion_list_add(l, e, p, n).next[x] =
                     IF x = p THEN e ELSE IF x = e THEN n ELSE l.next[x]
                /\ fusion_list_add(l, e, p, n).prev[x] =
                     IF x = e THEN p ELSE IF x = n THEN e ELSE l.prev[x]
  <1> DEFINE l1 == LinkPrev(l, n, e)
             l2 == LinkNext(l1, e, n)
             l3 == LinkPrev(l2, e, p)
             l4 == LinkNext(l3, p, e)
  <1>1. l1 \in Links /\ \A x \in LinkEnds : /\ l1.next[x] = l.next[x]
                                            /\ l1.prev[x] = IF x = n THEN e ELSE l.prev[x]
    BY LinkAssignments
  <1> HIDE DEF l1
  <1>2. l2 \in Links /\ \A x \in LinkEnds : /\ l2.next[x] = IF x = e THEN n ELSE l1.next[x]
                                            /\ l2.prev[x] = l1.prev[x]
    BY <1>1, LinkAssignments
  <1> HIDE DEF l2
  <1>3. l3 \in Links /\ \A x \in LinkEnds : /\ l3.next[x] = l2.next[x]
                                            /\ l3.prev[x] = IF x = e THEN p ELSE l2.prev[x]
    BY <1>2, LinkAssignments
  <1> HIDE DEF l3
  <1>4. l4 \in Links /\ \A x \in LinkEnds : /\ l4.next[x] = IF x = p THEN e ELSE l3.next[x]
                                            /\ l4.prev[x] = l3.prev[x]
    BY <1>3, LinkAssignments
  <1>5. fusion_list_add(l, e, p, n) = l4
    BY DEF fusion_list_add, l1, l2, l3
  <1> HIDE DEF l4
  <1> QED
    BY <1>1, <1>2, <1>3, <1>4, <1>5

(* What fusion_init_list leaves in the links. *)
LEMMA InitLinks ==
    ASSUME NEW l \in Links, NEW e \in LinkEnds
    PROVE  /\ fusion_init_list(l, e) \in Links
           /\ \A x \in LinkEnds :
                /\ fusion_init_list(l, e).next[x] = IF x = e THEN e ELSE l.next[x]
                /\ fusion_init_list(l, e).prev[x] = IF x = e THEN e ELSE l.prev[x]
  <1> DEFINE l1 == LinkNext(l, e, e)
  <1>1. l1 \in Links /\ \A x \in LinkEnds : /\ l1.next[x] = IF x = e THEN e ELSE l.next[x]
                                            /\ l1.prev[x] = l.prev[x]
    BY LinkAssignments
  <1>2. fusion_init_list(l, e) = LinkPrev(l1, e, e)
    BY DEF fusion_init_list
  <1> HIDE DEF l1
  <1> QED
    BY <1>1, <1>2, LinkAssignments, SMTT(30)

(* A list whose links lead back at once is empty, and only such a list. *)
LEMMA EmptyRing ==
    ASSUME NEW h \in PortHeads, NEW s \in Seq(PortEntries), NEW l, Linked(l, h, s)
    PROVE  /\ fusion_list_empty(l, h) <=> s = << >>
           /\ s # << >> => l.next[h] = s[1] /\ l.prev[h] = s[Len(s)]
           /\ s = << >> => l.next[h] = h /\ l.prev[h] = h
           /\ l.next[h] = RingAt(h, s, 1) /\ l.prev[h] = RingAt(h, s, Len(s))
  <1>1. Len(s) \in Nat /\ 0 \in 0..Len(s) /\ Len(s) \in 0..Len(s) /\ 0 + 1 = 1
    OBVIOUS
  <1>2. l.next[RingAt(h, s, 0)] = RingAt(h, s, 1) /\ l.prev[RingAt(h, s, Len(s) + 1)] = RingAt(h, s, Len(s))
    BY <1>1 DEF Linked
  <1>3. RingAt(h, s, 0) = h /\ RingAt(h, s, Len(s) + 1) = h
    BY <1>1 DEF RingAt
  <1>4. s # << >> => RingAt(h, s, 1) = s[1] /\ RingAt(h, s, Len(s)) = s[Len(s)] /\ s[1] \in PortEntries
    BY DEF RingAt
  <1>5. s = << >> => RingAt(h, s, 1) = h /\ RingAt(h, s, Len(s)) = h
    BY DEF RingAt
  <1> QED
    BY <1>2, <1>3, <1>4, <1>5, PortListAssumption DEF fusion_list_empty

(* Putting an element that is on no list at place k + 1 of a list. *)
LEMMA AddedAt ==
    ASSUME NEW l, NEW q, AllLinked(l, q), NEW e \in PortEntries, OnNoList(e, q),
           NEW h \in PortHeads, NEW k \in 0..Len(q[h]), NEW u \in Seq(PortEntries),
           Woven(u, q[h], k, <<e>>)
    PROVE  LET m == fusion_list_add(l, e, RingAt(h, q[h], k), RingAt(h, q[h], k + 1))
               r == [q EXCEPT ![h] = u]
           IN  AllLinked(m, r) /\ (Loose(l, q, {e}) => Loose(m, r, {}))
  <1> DEFINE s == q[h]
             p == RingAt(h, s, k)
             n == RingAt(h, s, k + 1)
             m == fusion_list_add(l, e, p, n)
             r == [q EXCEPT ![h] = u]
             t == <<e>>
  <1>1. l \in Links /\ q \in [PortHeads -> Seq(PortEntries)] /\ s \in Seq(PortEntries)
        /\ NoneTwice(s) /\ Linked(l, h, s)
    BY DEF AllLinked, Apart
  <1>2. k \in 0..(Len(s) + 1) /\ k + 1 \in 0..(Len(s) + 1)
    BY <1>1
  <1>3. /\ p \in {h} \cup PortEntries /\ n \in {h} \cup PortEntries
        /\ (p = h \/ Listed(p, s)) /\ (n = h \/ Listed(n, s))
    BY <1>1, <1>2, RingPlaces
  <1>4. ~Listed(e, s) /\ e # h /\ e # p /\ e # n
    BY <1>3, PortListAssumption DEF OnNoList
  <1>5. /\ t \in Seq(PortEntries) /\ t # << >> /\ Len(t) = 1 /\ t[1] = e
        /\ NoneTwice(t) /\ \A x : Listed(x, t) <=> x = e
    BY DEF NoneTwice, Listed
  <1> HIDE DEF p, n, s, t
  <1>6. /\ m \in Links
        /\ \A x \in LinkEnds : /\ m.next[x] = IF x = p THEN e ELSE IF x = e THEN n ELSE l.next[x]
                               /\ m.prev[x] = IF x = n THEN e ELSE IF x = e THEN p ELSE l.prev[x]
    <2>1. p \in LinkEnds /\ n \in LinkEnds /\ e \in LinkEnds
      BY <1>3 DEF LinkEnds
    <2>2. /\ m \in Links
          /\ \A x \in LinkEnds : /\ m.next[x] = IF x = p THEN e ELSE IF x = e THEN n ELSE l.next[x]
                                 /\ m.prev[x] = IF x = e THEN p ELSE IF x = n THEN e ELSE l.prev[x]
      BY <1>1, <2>1, AddLinks
    <2> HIDE DEF m
    <2> QED
      BY <1>4, <2>2
  <1> HIDE DEF m
  <1>7. Linked(m, h, u)
    <2>1. Chained(l, t)
      BY <1>5 DEF Chained
    <2>2. \A x \in {h} \cup PortEntries :
             /\ m.next[x] = IF x = RingAt(h, s, k) THEN t[1]
                            ELSE IF x = t[Len(t)] THEN RingAt(h, s, k + 1) ELSE l.next[x]
             /\ m.prev[x] = IF x = RingAt(h, s, k + 1) THEN t[Len(t)]
                            ELSE IF x = t[1] THEN RingAt(h, s, k) ELSE l.prev[x]
      BY <1>5, <1>6 DEF LinkEnds, p, n
    <2>3. Woven(u, s, k, t) /\ k \in 0..Len(s) /\ \A x : ~(Listed(x, s) /\ Listed(x, t))
      BY <1>4, <1>5 DEF s, t
    <2> QED
      BY <1>1, <1>5, <2>1, <2>2, <2>3, ChainIn
  <1>8. NoneTwice(u) /\ \A x : Listed(x, u) <=> Listed(x, s) \/ x = e
    <2>1. Woven(u, s, k, t) /\ k \in 0..Len(s) /\ \A x : ~(Listed(x, s) /\ Listed(x, t))
      BY <1>4, <1>5 DEF s, t
    <2> QED
      BY <1>1, <1>5, <2>1, WovenListed, WovenNoneTwice
  <1>9. r \in [PortHeads -> Seq(PortEntries)] /\ r[h] = u /\ \A g \in PortHeads : g # h => r[g] = q[g]
    BY <1>1
  <1> HIDE DEF r
  <1>10. Apart(r)
    BY <1>8, <1>9 DEF Apart, AllLinked, OnNoList, s
  <1>11. ASSUME NEW g \in PortHeads, g # h PROVE Linked(m, g, r[g])
    <2>1. q[g] \in Seq(PortEntries) /\ NoneTwice(q[g]) /\ Linked(l, g, q[g]) /\ r[g] = q[g]
      BY <1>9, <1>11 DEF AllLinked, Apart
    <2>2. \A x : Listed(x, q[g]) => x \in PortEntries
      BY <2>1 DEF Listed
    <2>3. \A x : x = g \/ Listed(x, q[g]) => x \in LinkEnds /\ x # p /\ x # n /\ x # e
      <3>1. g # p /\ g # n /\ g # e /\ g \in LinkEnds
        BY <1>3, <1>11, PortListAssumption DEF LinkEnds
      <3>2. ASSUME NEW x, Listed(x, q[g]) PROVE x \in LinkEnds /\ x # p /\ x # n /\ x # e
        <4>1. x \in PortEntries /\ x # h /\ ~Listed(x, s) /\ x # e
          BY <2>2, <3>2, <1>11, PortListAssumption DEF AllLinked, Apart, OnNoList, s
        <4> QED
          BY <4>1, <1>3 DEF LinkEnds
      <3> QED
        BY <3>1, <3>2
    <2>4. \A x : x = g \/ Listed(x, q[g]) => m.next[x] = l.next[x] /\ m.prev[x] = l.prev[x]
      BY <1>6, <2>3
    <2> QED
      BY <2>1, <2>4, LinkedFrame
  <1>12. AllLinked(m, r)
    BY <1>6, <1>7, <1>9, <1>10, <1>11 DEF AllLinked
  <1>13. ASSUME Loose(l, q, {e}), NEW x \in PortEntries, OnNoList(x, r)
         PROVE  m.next[x] = x /\ m.prev[x] = x
    <2>1. x # e /\ ~Listed(x, s)
      BY <1>8, <1>9, <1>13 DEF OnNoList
    <2>2. OnNoList(x, q)
      BY <1>9, <1>13, <2>1 DEF OnNoList, s
    <2>3. x # p /\ x # n /\ x \in LinkEnds
      BY <1>3, <2>1, PortListAssumption DEF LinkEnds
    <2> QED
      BY <1>6, <1>13, <2>1, <2>2, <2>3 DEF Loose
  <1> QED
    BY <1>12, <1>13 DEF Loose, m, r, p, n, s

(* What __fusion_list_del leaves in the links, an element linked to itself *)
(* included.                                                               *)
LEMMA UnlinkLinks ==
    ASSUME NEW l \in Links, NEW e \in LinkEnds
    PROVE  /\ fusion_list_unlink(l, e) \in Links
           /\ \A x \in LinkEnds :
                /\ fusion_list_unlink(l, e).next[x] = IF x = l.prev[e] THEN l.next[e] ELSE l.next[x]
                /\ fusion_list_unlink(l, e).prev[x] = IF x = l.next[e] THEN l.prev[e] ELSE l.prev[x]
  <1> DEFINE p == l.prev[e]
             n == l.next[e]
             l1 == LinkPrev(l, n, p)
  <1>1. p \in LinkEnds /\ n \in LinkEnds
    BY DEF Links
  <1> HIDE DEF p, n
  <1>2. l1 \in Links /\ \A x \in LinkEnds : /\ l1.next[x] = l.next[x]
                                            /\ l1.prev[x] = IF x = n THEN p ELSE l.prev[x]
    BY <1>1, LinkAssignments
  <1>3. fusion_list_unlink(l, e) = LinkNext(l1, l1.prev[e], l1.next[e])
    BY DEF fusion_list_unlink, p, n
  <1> HIDE DEF l1
  <1>4. l1.prev[e] = p /\ l1.next[e] = n
    BY <1>2 DEF p, n
  <1>5. /\ LinkNext(l1, p, n) \in Links
        /\ \A x \in LinkEnds : /\ LinkNext(l1, p, n).next[x] = IF x = p THEN n ELSE l1.next[x]
                               /\ LinkNext(l1, p, n).prev[x] = l1.prev[x]
    BY <1>1, <1>2, LinkAssignments
  <1>6. /\ fusion_list_unlink(l, e) \in Links
        /\ \A x \in LinkEnds :
             /\ fusion_list_unlink(l, e).next[x] = IF x = p THEN n ELSE l.next[x]
             /\ fusion_list_unlink(l, e).prev[x] = IF x = n THEN p ELSE l.prev[x]
    BY <1>2, <1>3, <1>4, <1>5
  <1> QED
    BY <1>6 DEF p, n

(* Closing the gap around an element, wherever it is: the lists without it *)
(* are linked, and only it keeps old links.                                *)
LEMMA Unlinked ==
    ASSUME NEW l, NEW q, AllLinked(l, q), Loose(l, q, {}), NEW e \in PortEntries
    PROVE  LET m == fusion_list_unlink(l, e)
               r == [h \in PortHeads |-> RemoveFirst(q[h], e)]
           IN  AllLinked(m, r) /\ OnNoList(e, r) /\ Loose(m, r, {e})
  <1> DEFINE m == fusion_list_unlink(l, e)
             r == [h \in PortHeads |-> RemoveFirst(q[h], e)]
             p == l.prev[e]
             n == l.next[e]
  <1>1. l \in Links /\ e \in LinkEnds /\ p \in LinkEnds /\ n \in LinkEnds
    BY DEF AllLinked, Links, LinkEnds
  <1>2. /\ m \in Links
        /\ \A x \in LinkEnds : /\ m.next[x] = IF x = p THEN n ELSE l.next[x]
                               /\ m.prev[x] = IF x = n THEN p ELSE l.prev[x]
    BY <1>1, UnlinkLinks
  <1> HIDE DEF m
  <1>3. \A h \in PortHeads : q[h] \in Seq(PortEntries) /\ NoneTwice(q[h]) /\ Linked(l, h, q[h])
    BY DEF AllLinked, Apart
  <1>4. \A h \in PortHeads : /\ r[h] \in Seq(PortEntries) /\ NoneTwice(r[h])
                             /\ \A x : Listed(x, r[h]) <=> x # e /\ Listed(x, q[h])
    BY <1>3, RemoveFirstListed
  <1>5. r \in [PortHeads -> Seq(PortEntries)]
    BY <1>4
  <1>6. \A h \in PortHeads : ~Listed(e, q[h]) => r[h] = q[h]
    BY DEF RemoveFirst, Listed
  <1>7. Apart(r) /\ OnNoList(e, r)
    BY <1>4 DEF Apart, OnNoList, AllLinked
  <1>8. CASE OnNoList(e, q)
    <2>1. p = e /\ n = e
      BY <1>8 DEF Loose
    <2>2. \A x \in LinkEnds : m.next[x] = l.next[x] /\ m.prev[x] = l.prev[x]
      BY <1>2, <2>1
    <2>3. \A h \in PortHeads : r[h] = q[h]
      BY <1>6, <1>8 DEF OnNoList
    <2>4. ASSUME NEW h \in PortHeads PROVE Linked(m, h, r[h])
      <3>1. \A x : x = h \/ Listed(x, q[h]) => x \in LinkEnds
        BY <1>3 DEF Listed, LinkEnds
      <3>2. \A x : x = h \/ Listed(x, q[h]) => m.next[x] = l.next[x] /\ m.prev[x] = l.prev[x]
        BY <2>2, <3>1
      <3> HIDE DEF r
      <3> QED
        BY <1>3, <2>3, <3>2, LinkedFrame
    <2>5. Loose(m, r, {e})
      <3> HIDE DEF r
      <3> QED
        BY <2>2, <2>3 DEF Loose, OnNoList, LinkEnds
    <2> QED
      BY <1>2, <1>5, <1>7, <2>4, <2>5 DEF AllLinked, m
  <1>9. CASE ~OnNoList(e, q)
    <2>1. PICK h \in PortHeads : Listed(e, q[h])
      BY <1>9 DEF OnNoList
    <2> DEFINE s == q[h]
    <2>2. PICK k \in 1..Len(s) : s[k] = e /\ RemoveFirst(s, e) = RemoveAt(s, k)
      BY <1>3, <2>1, RemoveFirstAt
    <2>3. p = RingAt(h, s, k - 1) /\ n = RingAt(h, s, k + 1)
      <3>1. RingAt(h, s, k) = e /\ k - 1 \in 0..Len(s) /\ k \in 0..Len(s) /\ (k - 1) + 1 = k
        BY <1>3, <2>2 DEF RingAt
      <3>2. l.prev[RingAt(h, s, (k - 1) + 1)] = RingAt(h, s, k - 1)
        BY <1>3, <3>1 DEF Linked
      <3>3. l.next[RingAt(h, s, k)] = RingAt(h, s, k + 1)
        BY <1>3, <3>1 DEF Linked
      <3> QED
        BY <3>1, <3>2, <3>3
    <2>4. p = h \/ Listed(p, s)
      <3>1. k - 1 \in 0..(Len(s) + 1)
        BY <1>3
      <3> QED
        BY <1>3, <2>3, <3>1, RingPlaces
    <2>5. n = h \/ Listed(n, s)
      <3>1. k + 1 \in 0..(Len(s) + 1)
        BY <1>3
      <3> QED
        BY <1>3, <2>3, <3>1, RingPlaces
    <2> HIDE DEF p, n
    <2>6. Linked(m, h, r[h])
      <3>1. \A x \in {h} \cup PortEntries :
             /\ m.next[x] = IF x = RingAt(h, s, k - 1) THEN RingAt(h, s, k + 1) ELSE l.next[x]
             /\ m.prev[x] = IF x = RingAt(h, s, k + 1) THEN RingAt(h, s, k - 1) ELSE l.prev[x]
        BY <1>2, <2>3 DEF LinkEnds
      <3>2. s \in Seq(PortEntries) /\ NoneTwice(s) /\ Linked(l, h, s) /\ r[h] = RemoveAt(s, k)
        BY <1>3, <2>2
      <3> HIDE DEF s, r
      <3> QED
        BY <3>1, <3>2, TakenOut
    <2>7. ASSUME NEW g \in PortHeads, g # h PROVE Linked(m, g, r[g])
      <3>1. ~Listed(e, q[g])
        BY <2>1, <2>7 DEF AllLinked, Apart
      <3>2. \A x : Listed(x, q[g]) => x \in PortEntries
        BY <1>3 DEF Listed
      <3>3. \A x : x = g \/ Listed(x, q[g]) => x \in LinkEnds /\ x # p /\ x # n
        <4>1. ASSUME NEW x, Listed(x, q[g]) PROVE x \in LinkEnds /\ x # p /\ x # n
          <5>1. x \in PortEntries /\ x # h /\ ~Listed(x, s)
            BY <3>2, <4>1, <2>7, PortListAssumption DEF AllLinked, Apart
          <5> QED
            BY <5>1, <2>4, <2>5 DEF LinkEnds
        <4>2. g \in LinkEnds /\ g # p /\ g # n
          <5>1. ~Listed(g, s)
            BY <1>3, PortListAssumption DEF Listed
          <5> QED
            BY <5>1, <2>4, <2>5, <2>7 DEF LinkEnds
        <4> QED
          BY <4>1, <4>2
      <3>4. \A x : x = g \/ Listed(x, q[g]) => m.next[x] = l.next[x] /\ m.prev[x] = l.prev[x]
        BY <1>2, <3>3
      <3>5. r[g] = q[g]
        BY <1>6, <3>1
      <3> HIDE DEF r
      <3> QED
        BY <1>3, <3>4, <3>5, LinkedFrame
    <2>8. ASSUME NEW x \in PortEntries \ {e}, OnNoList(x, r)
          PROVE  m.next[x] = x /\ m.prev[x] = x
      <3>1. OnNoList(x, q)
        BY <1>4, <2>8 DEF OnNoList
      <3>2. x # p /\ x # n /\ x \in LinkEnds
        BY <2>4, <2>5, <3>1, PortListAssumption DEF OnNoList, LinkEnds
      <3> QED
        BY <1>2, <3>1, <3>2 DEF Loose
    <2>9. AllLinked(m, r)
      BY <1>2, <1>5, <1>7, <2>6, <2>7 DEF AllLinked
    <2>10. Loose(m, r, {e})
      BY <2>8 DEF Loose
    <2> QED
      BY <1>7, <2>9, <2>10 DEF m
  <1> QED
    BY <1>8, <1>9

(* Linking an element that is on no list to itself disturbs no list. *)
LEMMA InitLoose ==
    ASSUME NEW l, NEW q, AllLinked(l, q), NEW e \in PortEntries, OnNoList(e, q), Loose(l, q, {e})
    PROVE  AllLinked(fusion_init_list(l, e), q) /\ Loose(fusion_init_list(l, e), q, {})
  <1> DEFINE m == fusion_init_list(l, e)
  <1>1. l \in Links /\ e \in LinkEnds
    BY DEF AllLinked, LinkEnds
  <1>2. m \in Links /\ \A x \in LinkEnds : /\ m.next[x] = IF x = e THEN e ELSE l.next[x]
                                           /\ m.prev[x] = IF x = e THEN e ELSE l.prev[x]
    BY <1>1, InitLinks
  <1> HIDE DEF m
  <1>3. ASSUME NEW h \in PortHeads PROVE Linked(m, h, q[h])
    <2>1. q[h] \in Seq(PortEntries) /\ NoneTwice(q[h]) /\ Linked(l, h, q[h])
      BY DEF AllLinked, Apart
    <2>2. \A x : x = h \/ Listed(x, q[h]) => x \in LinkEnds /\ x # e
      <3>1. \A x : Listed(x, q[h]) => x \in PortEntries
        BY <2>1 DEF Listed
      <3> QED
        BY <3>1, PortListAssumption DEF OnNoList, LinkEnds
    <2>3. \A x : x = h \/ Listed(x, q[h]) => m.next[x] = l.next[x] /\ m.prev[x] = l.prev[x]
      BY <1>2, <2>2
    <2> QED
      BY <2>1, <2>3, LinkedFrame
  <1>4. AllLinked(m, q)
    BY <1>2, <1>3 DEF AllLinked
  <1>5. Loose(m, q, {})
    BY <1>2 DEF Loose, LinkEnds
  <1> QED
    BY <1>4, <1>5 DEF m

-----------------------------------------------------------------------------
(* Joining two lists *)

(* The links a join of src into h at place k has to leave. *)
JoinLinks(l, q, src, h, k, m) ==
    LET s == q[h]
        t == q[src]
    IN  /\ m \in Links
        /\ m.next[src] = src /\ m.prev[src] = src
        /\ \A x \in LinkEnds \ {src} :
             /\ m.next[x] = IF x = RingAt(h, s, k) THEN t[1]
                            ELSE IF x = t[Len(t)] THEN RingAt(h, s, k + 1) ELSE l.next[x]
             /\ m.prev[x] = IF x = RingAt(h, s, k + 1) THEN t[Len(t)]
                            ELSE IF x = t[1] THEN RingAt(h, s, k) ELSE l.prev[x]

(* With those links the elements of src are in h, and src is empty. *)
LEMMA Joined ==
    ASSUME NEW l, NEW q, AllLinked(l, q), Loose(l, q, {}),
           NEW src \in PortHeads, NEW h \in PortHeads, src # h, q[src] # << >>,
           NEW k \in 0..Len(q[h]), NEW u \in Seq(PortEntries), Woven(u, q[h], k, q[src]),
           NEW m, JoinLinks(l, q, src, h, k, m)
    PROVE  LET r == [q EXCEPT ![h] = u, ![src] = << >>]
           IN  AllLinked(m, r) /\ Loose(m, r, {})
  <1> DEFINE s == q[h]
             t == q[src]
             r == [q EXCEPT ![h] = u, ![src] = << >>]
             P == RingAt(h, s, k)
             N == RingAt(h, s, k + 1)
  <1>1. /\ q \in [PortHeads -> Seq(PortEntries)] /\ s \in Seq(PortEntries) /\ t \in Seq(PortEntries)
        /\ NoneTwice(s) /\ NoneTwice(t) /\ Linked(l, h, s) /\ Linked(l, src, t)
        /\ Len(t) \in Nat /\ Len(t) >= 1
    BY DEF AllLinked, Apart
  <1>2. \A x : ~(Listed(x, s) /\ Listed(x, t))
    <2>1. \A x : Listed(x, s) => x \in PortEntries
      BY <1>1 DEF Listed
    <2> QED
      BY <2>1 DEF AllLinked, Apart
  <1>3. /\ r \in [PortHeads -> Seq(PortEntries)] /\ r[h] = u /\ r[src] = << >>
        /\ \A g \in PortHeads : g # h /\ g # src => r[g] = q[g]
    BY <1>1
  <1> HIDE DEF r
  <1>4. (P = h \/ Listed(P, s)) /\ (N = h \/ Listed(N, s))
    <2>1. k \in 0..(Len(s) + 1) /\ k + 1 \in 0..(Len(s) + 1)
      BY <1>1
    <2> QED
      BY <1>1, <2>1, RingPlaces
  <1>5. Listed(t[1], t) /\ Listed(t[Len(t)], t)
    BY <1>1 DEF Listed
  <1>6. /\ m \in Links /\ m.next[src] = src /\ m.prev[src] = src
        /\ \A x \in LinkEnds \ {src} :
             /\ m.next[x] = IF x = P THEN t[1] ELSE IF x = t[Len(t)] THEN N ELSE l.next[x]
             /\ m.prev[x] = IF x = N THEN t[Len(t)] ELSE IF x = t[1] THEN P ELSE l.prev[x]
    BY DEF JoinLinks
  <1>7. Linked(m, h, u)
    <2>1. Chained(l, t)
      <3>1. ASSUME NEW j \in 1..(Len(t) - 1)
            PROVE  l.next[t[j]] = t[j + 1] /\ l.prev[t[j + 1]] = t[j]
        <4>1. j \in 0..Len(t) /\ RingAt(src, t, j) = t[j] /\ RingAt(src, t, j + 1) = t[j + 1]
          BY <1>1 DEF RingAt
        <4>2. l.next[RingAt(src, t, j)] = RingAt(src, t, j + 1) /\ l.prev[RingAt(src, t, j + 1)] = RingAt(src, t, j)
          BY <1>1, <4>1 DEF Linked
        <4> QED
          BY <4>1, <4>2
      <3> QED
        BY <3>1 DEF Chained
    <2>2. \A x \in {h} \cup PortEntries :
             /\ m.next[x] = IF x = P THEN t[1] ELSE IF x = t[Len(t)] THEN N ELSE l.next[x]
             /\ m.prev[x] = IF x = N THEN t[Len(t)] ELSE IF x = t[1] THEN P ELSE l.prev[x]
      <3>1. \A x \in {h} \cup PortEntries : x \in LinkEnds \ {src}
        BY PortListAssumption DEF LinkEnds
      <3> QED
        BY <1>6, <3>1
    <2>3. t # << >> /\ Woven(u, s, k, t) /\ k \in 0..Len(s)
      OBVIOUS
    <2> HIDE DEF s, t
    <2> QED
      BY <1>1, <1>2, <2>1, <2>2, <2>3, ChainIn
  <1>8. NoneTwice(u) /\ \A x : Listed(x, u) <=> Listed(x, s) \/ Listed(x, t)
    <2>1. Woven(u, s, k, t) /\ k \in 0..Len(s)
      OBVIOUS
    <2> HIDE DEF s, t
    <2> QED
      BY <1>1, <1>2, <2>1, WovenListed, WovenNoneTwice
  <1>9. \A x : ~Listed(x, r[src])
    BY <1>3 DEF Listed
  <1>10. Linked(m, src, r[src])
    <2>1. Len(<< >>) = 0 /\ RingAt(src, << >>, 0) = src /\ RingAt(src, << >>, 1) = src
      BY DEF RingAt
    <2> QED
      BY <1>3, <1>6, <2>1 DEF Linked
  <1>11. Apart(r)
    <2>1. \A g \in PortHeads : NoneTwice(r[g])
      <3>1. NoneTwice(<< >>)
        BY DEF NoneTwice
      <3> QED
        BY <1>3, <1>8, <3>1 DEF Apart, AllLinked
    <2>2. \A g \in PortHeads : \A x : Listed(x, r[g]) /\ g # h => Listed(x, q[g]) /\ g # src
      BY <1>3, <1>9
    <2>3. \A x : Listed(x, r[h]) => Listed(x, q[h]) \/ Listed(x, q[src])
      BY <1>3, <1>8
    <2>4. ASSUME NEW f \in PortHeads, NEW g \in PortHeads, NEW x \in PortEntries,
                 Listed(x, r[f]), Listed(x, r[g])
          PROVE  f = g
      BY <2>2, <2>3, <2>4 DEF AllLinked, Apart
    <2> QED
      BY <2>1, <2>4 DEF Apart
  <1>12. ASSUME NEW g \in PortHeads, g # h, g # src PROVE Linked(m, g, r[g])
    <2>1. q[g] \in Seq(PortEntries) /\ NoneTwice(q[g]) /\ Linked(l, g, q[g]) /\ r[g] = q[g]
      BY <1>3, <1>12 DEF AllLinked, Apart
    <2>2. \A x : x = g \/ Listed(x, q[g]) =>
            x \in LinkEnds \ {src} /\ x # P /\ x # N /\ x # t[1] /\ x # t[Len(t)]
      <3>1. ASSUME NEW x, Listed(x, q[g])
            PROVE  x \in LinkEnds \ {src} /\ x # P /\ x # N /\ x # t[1] /\ x # t[Len(t)]
        <4>1. x \in PortEntries
          BY <2>1, <3>1 DEF Listed
        <4>2. ~Listed(x, s) /\ ~Listed(x, t)
          BY <1>12, <3>1, <4>1 DEF AllLinked, Apart
        <4>3. x # h /\ x # src /\ x \in LinkEnds
          BY <4>1, PortListAssumption DEF LinkEnds
        <4> HIDE DEF s, t, P, N
        <4> QED
          BY <1>4, <1>5, <4>2, <4>3
      <3>2. g \in LinkEnds \ {src} /\ g # P /\ g # N /\ g # t[1] /\ g # t[Len(t)]
        <4>1. ~Listed(g, s) /\ ~Listed(g, t)
          BY <1>1, PortListAssumption DEF Listed
        <4> HIDE DEF s, t, P, N
        <4> QED
          BY <1>4, <1>5, <1>12, <4>1 DEF LinkEnds
      <3> QED
        BY <3>1, <3>2
    <2>3. \A x : x = g \/ Listed(x, q[g]) => m.next[x] = l.next[x] /\ m.prev[x] = l.prev[x]
      BY <1>6, <2>2
    <2> QED
      BY <2>1, <2>3, LinkedFrame
  <1>13. AllLinked(m, r)
    BY <1>3, <1>6, <1>7, <1>10, <1>11, <1>12 DEF AllLinked
  <1>14. ASSUME NEW x \in PortEntries, OnNoList(x, r) PROVE m.next[x] = x /\ m.prev[x] = x
    <2>1. ~Listed(x, s) /\ ~Listed(x, t)
      BY <1>3, <1>8, <1>14 DEF OnNoList
    <2>2. OnNoList(x, q)
      BY <1>3, <1>14, <2>1 DEF OnNoList
    <2>3. l.next[x] = x /\ l.prev[x] = x
      BY <2>2 DEF Loose
    <2>4. x \in LinkEnds \ {src} /\ x # h
      BY PortListAssumption DEF LinkEnds
    <2> HIDE DEF s, t, P, N
    <2> QED
      BY <1>4, <1>5, <1>6, <2>1, <2>3, <2>4
  <1> QED
    BY <1>13, <1>14 DEF Loose, r

(* __fusion_list_splice leaves those links. *)
LEMMA SpliceLinks ==
    ASSUME NEW l, NEW q, AllLinked(l, q),
           NEW src \in PortHeads, NEW h \in PortHeads, src # h, q[src] # << >>,
           NEW k \in 0..Len(q[h])
    PROVE  JoinLinks(l, q, src, h, k,
             fusion_list_splice_between(l, src, RingAt(h, q[h], k), RingAt(h, q[h], k + 1)))
  <1> DEFINE s == q[h]
             t == q[src]
             P == RingAt(h, s, k)
             N == RingAt(h, s, k + 1)
             F == l.next[src]
             B == l.prev[src]
             l1 == LinkPrev(l, F, P)
             l2 == LinkNext(l1, P, F)
             l3 == LinkNext(l2, B, N)
             l4 == LinkPrev(l3, N, B)
             m == fusion_init_list(l4, src)
  <1>1. /\ l \in Links /\ s \in Seq(PortEntries) /\ t \in Seq(PortEntries)
        /\ NoneTwice(s) /\ NoneTwice(t) /\ Linked(l, h, s) /\ Linked(l, src, t)
        /\ Len(t) \in Nat /\ Len(t) >= 1
    BY DEF AllLinked, Apart
  <1>2. F = t[1] /\ B = t[Len(t)] /\ F \in PortEntries /\ B \in PortEntries /\ Listed(F, t) /\ Listed(B, t)
    <2>1. F = t[1] /\ B = t[Len(t)]
      BY <1>1, EmptyRing
    <2> QED
      BY <1>1, <2>1 DEF Listed
  <1>3. /\ P \in {h} \cup PortEntries /\ N \in {h} \cup PortEntries
        /\ (P = h \/ Listed(P, s)) /\ (N = h \/ Listed(N, s))
    <2>1. k \in 0..(Len(s) + 1) /\ k + 1 \in 0..(Len(s) + 1)
      BY <1>1
    <2> QED
      BY <1>1, <2>1, RingPlaces
  <1>4. F # P /\ F # N /\ B # P /\ B # N
    <2>1. ~Listed(F, s) /\ ~Listed(B, s)
      BY <1>2 DEF AllLinked, Apart
    <2> HIDE DEF F, B, P, N, s, t
    <2> QED
      BY <1>2, <1>3, <2>1, PortListAssumption
  <1>5. fusion_list_splice_between(l, src, P, N) = m
    BY DEF fusion_list_splice_between
  <1>6. F \in LinkEnds /\ B \in LinkEnds /\ P \in LinkEnds /\ N \in LinkEnds /\ src \in LinkEnds
    <2> HIDE DEF F, B, P, N
    <2> QED
      BY <1>2, <1>3 DEF LinkEnds
  <1> HIDE DEF F, B, P, N
  <1>7. l1 \in Links /\ \A x \in LinkEnds : /\ l1.next[x] = l.next[x]
                                            /\ l1.prev[x] = IF x = F THEN P ELSE l.prev[x]
    BY <1>1, <1>6, LinkAssignments
  <1> HIDE DEF l1
  <1>8. l2 \in Links /\ \A x \in LinkEnds : /\ l2.next[x] = IF x = P THEN F ELSE l1.next[x]
                                            /\ l2.prev[x] = l1.prev[x]
    BY <1>7, <1>6, LinkAssignments
  <1> HIDE DEF l2
  <1>9. l3 \in Links /\ \A x \in LinkEnds : /\ l3.next[x] = IF x = B THEN N ELSE l2.next[x]
                                            /\ l3.prev[x] = l2.prev[x]
    BY <1>8, <1>6, LinkAssignments
  <1> HIDE DEF l3
  <1>10. l4 \in Links /\ \A x \in LinkEnds : /\ l4.next[x] = l3.next[x]
                                             /\ l4.prev[x] = IF x = N THEN B ELSE l3.prev[x]
    BY <1>9, <1>6, LinkAssignments
  <1> HIDE DEF l4
  <1>11. m \in Links /\ \A x \in LinkEnds : /\ m.next[x] = IF x = src THEN src ELSE l4.next[x]
                                            /\ m.prev[x] = IF x = src THEN src ELSE l4.prev[x]
    BY <1>10, <1>6, InitLinks
  <1> HIDE DEF m, s, t
  <1>12. /\ m.next[src] = src /\ m.prev[src] = src
         /\ \A x \in LinkEnds \ {src} :
             /\ m.next[x] = IF x = P THEN F ELSE IF x = B THEN N ELSE l.next[x]
             /\ m.prev[x] = IF x = N THEN B ELSE IF x = F THEN P ELSE l.prev[x]
    BY <1>4, <1>6, <1>7, <1>8, <1>9, <1>10, <1>11
  <1> QED
    BY <1>2, <1>5, <1>11, <1>12 DEF JoinLinks, P, N, s, t

(* fusion_list_add_list leaves the same links as a splice at the front,    *)
(* although it assigns them in another order.                              *)
LEMMA AddListLinks ==
    ASSUME NEW l, NEW q, AllLinked(l, q),
           NEW src \in PortHeads, NEW h \in PortHeads, src # h, q[src] # << >>
    PROVE  JoinLinks(l, q, src, h, 0, fusion_list_add_list(l, src, h))
  <1> DEFINE s == q[h]
             t == q[src]
             N == l.next[h]
             F == l.next[src]
             B == l.prev[src]
             l1 == LinkPrev(l, N, B)
             l2 == LinkNext(l1, B, N)
             l3 == LinkPrev(l2, F, h)
             l4 == LinkNext(l3, h, F)
             m == fusion_init_list(l4, src)
  <1>1. /\ l \in Links /\ s \in Seq(PortEntries) /\ t \in Seq(PortEntries)
        /\ NoneTwice(s) /\ NoneTwice(t) /\ Linked(l, h, s) /\ Linked(l, src, t)
        /\ Len(t) \in Nat /\ Len(t) >= 1 /\ Len(s) \in Nat
    BY DEF AllLinked, Apart
  <1>2. F = t[1] /\ B = t[Len(t)] /\ F \in PortEntries /\ B \in PortEntries /\ Listed(F, t) /\ Listed(B, t)
    <2>1. F = t[1] /\ B = t[Len(t)]
      BY <1>1, EmptyRing
    <2> QED
      BY <1>1, <2>1 DEF Listed
  <1>3. N = RingAt(h, s, 0 + 1) /\ h = RingAt(h, s, 0)
    <2>1. N = RingAt(h, s, 1)
      BY <1>1, EmptyRing
    <2> QED
      BY <2>1 DEF RingAt
  <1>4. N \in {h} \cup PortEntries /\ (N = h \/ Listed(N, s))
    <2>1. 0 + 1 \in 0..(Len(s) + 1)
      BY <1>1
    <2> QED
      BY <1>1, <1>3, <2>1, RingPlaces
  <1>5. F # h /\ F # N /\ B # h /\ B # N /\ N # src /\ F # src
    <2>1. ~Listed(F, s) /\ ~Listed(B, s)
      BY <1>2 DEF AllLinked, Apart
    <2> HIDE DEF F, B, N, s, t
    <2> QED
      BY <1>2, <1>4, <2>1, PortListAssumption
  <1>6. F \in LinkEnds /\ B \in LinkEnds /\ h \in LinkEnds /\ N \in LinkEnds /\ src \in LinkEnds
    <2> HIDE DEF F, B, N
    <2> QED
      BY <1>2, <1>4 DEF LinkEnds
  <1>7. l1.prev[src] = B => fusion_list_add_list(l, src, h) = m
    BY <1>5 DEF fusion_list_add_list
  <1>8. B = l.prev[src]
    OBVIOUS
  <1> HIDE DEF F, B, N
  <1>9. l1 \in Links /\ \A x \in LinkEnds : /\ l1.next[x] = l.next[x]
                                            /\ l1.prev[x] = IF x = N THEN B ELSE l.prev[x]
    BY <1>1, <1>6, LinkAssignments
  <1> HIDE DEF l1
  <1>10. l2 \in Links /\ \A x \in LinkEnds : /\ l2.next[x] = IF x = B THEN N ELSE l1.next[x]
                                             /\ l2.prev[x] = l1.prev[x]
    BY <1>9, <1>6, LinkAssignments
  <1> HIDE DEF l2
  <1>11. l3 \in Links /\ \A x \in LinkEnds : /\ l3.next[x] = l2.next[x]
                                             /\ l3.prev[x] = IF x = F THEN h ELSE l2.prev[x]
    BY <1>10, <1>6, LinkAssignments
  <1> HIDE DEF l3
  <1>12. l4 \in Links /\ \A x \in LinkEnds : /\ l4.next[x] = IF x = h THEN F ELSE l3.next[x]
                                             /\ l4.prev[x] = l3.prev[x]
    BY <1>11, <1>6, LinkAssignments
  <1> HIDE DEF l4
  <1>13. m \in Links /\ \A x \in LinkEnds : /\ m.next[x] = IF x = src THEN src ELSE l4.next[x]
                                            /\ m.prev[x] = IF x = src THEN src ELSE l4.prev[x]
    BY <1>12, <1>6, InitLinks
  <1> HIDE DEF m, s, t
  <1>14. /\ m.next[src] = src /\ m.prev[src] = src
         /\ \A x \in LinkEnds \ {src} :
             /\ m.next[x] = IF x = h THEN F ELSE IF x = B THEN N ELSE l.next[x]
             /\ m.prev[x] = IF x = N THEN B ELSE IF x = F THEN h ELSE l.prev[x]
    BY <1>5, <1>6, <1>9, <1>10, <1>11, <1>12, <1>13
  <1>15. fusion_list_add_list(l, src, h) = m
    BY <1>5, <1>6, <1>7, <1>8, <1>9
  <1>16. /\ m \in Links /\ m.next[src] = src /\ m.prev[src] = src
         /\ \A x \in LinkEnds \ {src} :
             /\ m.next[x] = IF x = RingAt(h, s, 0) THEN t[1]
                            ELSE IF x = t[Len(t)] THEN RingAt(h, s, 0 + 1) ELSE l.next[x]
             /\ m.prev[x] = IF x = RingAt(h, s, 0 + 1) THEN t[Len(t)]
                            ELSE IF x = t[1] THEN RingAt(h, s, 0) ELSE l.prev[x]
    BY <1>2, <1>3, <1>13, <1>14
  <1> QED
    BY <1>15, <1>16 DEF JoinLinks, s, t

-----------------------------------------------------------------------------
(* The operations keep the lists *)

(* fusion_list_add_head and fusion_list_add_tail. *)
LEMMA AddedAtTheEnds ==
    ASSUME NEW l, NEW q, AllLinked(l, q), NEW e \in PortEntries, OnNoList(e, q),
           Loose(l, q, {e}), NEW h \in PortHeads
    PROVE  /\ AllLinked(fusion_list_add_head(l, e, h), [q EXCEPT ![h] = <<e>> \o @])
           /\ Loose(fusion_list_add_head(l, e, h), [q EXCEPT ![h] = <<e>> \o @], {})
           /\ AllLinked(fusion_list_add_tail(l, e, h), [q EXCEPT ![h] = Append(@, e)])
           /\ Loose(fusion_list_add_tail(l, e, h), [q EXCEPT ![h] = Append(@, e)], {})
  <1> DEFINE s == q[h]
  <1>1. q \in [PortHeads -> Seq(PortEntries)] /\ s \in Seq(PortEntries) /\ Linked(l, h, s) /\ Len(s) \in Nat
    BY DEF AllLinked
  <1>2. /\ h = RingAt(h, s, 0) /\ h = RingAt(h, s, Len(s) + 1)
        /\ l.next[h] = RingAt(h, s, 0 + 1) /\ l.prev[h] = RingAt(h, s, Len(s))
    <2>1. l.next[h] = RingAt(h, s, 1) /\ l.prev[h] = RingAt(h, s, Len(s))
      BY <1>1, EmptyRing
    <2> QED
      BY <1>1, <2>1 DEF RingAt
  <1>3. <<e>> \o s \in Seq(PortEntries) /\ Woven(<<e>> \o s, s, 0, <<e>>) /\ 0 \in 0..Len(s)
    <2> DEFINE t == <<e>>
    <2>1. t \in Seq(PortEntries)
      OBVIOUS
    <2> HIDE DEF s, t
    <2>2. t \o s \in Seq(PortEntries) /\ Woven(t \o s, s, 0, t)
      BY <1>1, <2>1, ConcatWoven
    <2> QED
      BY <1>1, <2>2 DEF s, t
  <1>4. Append(s, e) \in Seq(PortEntries) /\ Woven(Append(s, e), s, Len(s), <<e>>) /\ Len(s) \in 0..Len(s)
    BY <1>1, AppendWoven
  <1>5. /\ AllLinked(fusion_list_add(l, e, RingAt(h, s, 0), RingAt(h, s, 0 + 1)), [q EXCEPT ![h] = <<e>> \o s])
        /\ Loose(fusion_list_add(l, e, RingAt(h, s, 0), RingAt(h, s, 0 + 1)), [q EXCEPT ![h] = <<e>> \o s], {})
    BY <1>3, AddedAt
  <1>6. /\ AllLinked(fusion_list_add(l, e, RingAt(h, s, Len(s)), RingAt(h, s, Len(s) + 1)),
                     [q EXCEPT ![h] = Append(s, e)])
        /\ Loose(fusion_list_add(l, e, RingAt(h, s, Len(s)), RingAt(h, s, Len(s) + 1)),
                 [q EXCEPT ![h] = Append(s, e)], {})
    BY <1>4, AddedAt
  <1>7. fusion_list_add_head(l, e, h) = fusion_list_add(l, e, RingAt(h, s, 0), RingAt(h, s, 0 + 1))
    BY <1>2 DEF fusion_list_add_head
  <1>8. fusion_list_add_tail(l, e, h) = fusion_list_add(l, e, RingAt(h, s, Len(s)), RingAt(h, s, Len(s) + 1))
    BY <1>2 DEF fusion_list_add_tail
  <1> QED
    BY <1>5, <1>6, <1>7, <1>8

(* fusion_list_del, of an element on a list or on none. *)
LEMMA Deleted ==
    ASSUME NEW l, NEW q, AllLinked(l, q), Loose(l, q, {}), NEW e \in PortEntries
    PROVE  LET r == [h \in PortHeads |-> RemoveFirst(q[h], e)]
           IN  AllLinked(fusion_list_del(l, e), r) /\ Loose(fusion_list_del(l, e), r, {})
  <1> DEFINE m == fusion_list_unlink(l, e)
             r == [h \in PortHeads |-> RemoveFirst(q[h], e)]
  <1>1. AllLinked(m, r) /\ OnNoList(e, r) /\ Loose(m, r, {e})
    BY Unlinked
  <1>2. fusion_list_del(l, e) = fusion_init_list(m, e)
    BY DEF fusion_list_del
  <1> HIDE DEF m, r
  <1>3. AllLinked(fusion_list_del(l, e), r) /\ Loose(fusion_list_del(l, e), r, {})
    BY <1>1, <1>2, InitLoose
  <1> QED
    BY <1>3 DEF r

(* Joining an empty list changes nothing. *)
LEMMA JoinedEmpty ==
    ASSUME NEW l, NEW q, AllLinked(l, q), NEW src \in PortHeads, NEW h \in PortHeads, src # h,
           q[src] = << >>
    PROVE  /\ fusion_list_add_list(l, src, h) = l
           /\ fusion_list_splice(l, src, h) = l
           /\ fusion_list_splice_tail(l, src, h) = l
           /\ [q EXCEPT ![h] = q[src] \o @, ![src] = << >>] = q
           /\ [q EXCEPT ![h] = @ \o q[src], ![src] = << >>] = q
  <1>1. q \in [PortHeads -> Seq(PortEntries)] /\ q[h] \in Seq(PortEntries) /\ Linked(l, src, q[src])
        /\ q[src] \in Seq(PortEntries)
    BY DEF AllLinked
  <1>2. fusion_list_empty(l, src) /\ l.next[src] = src
    BY <1>1, EmptyRing
  <1>3. q[src] \o q[h] = q[h] /\ q[h] \o q[src] = q[h]
    BY <1>1, ConcatEmptySeq
  <1> QED
    BY <1>1, <1>2, <1>3 DEF fusion_list_add_list, fusion_list_splice, fusion_list_splice_tail

-----------------------------------------------------------------------------
(* The inductive invariant *)

(* Initially every head and every element is linked to itself. *)
LEMMA PlInitInv == PortListInit => PlIInv
  <1> SUFFICES ASSUME PortListInit PROVE PlIInv
    OBVIOUS
  <1> USE DEF PortListInit
  <1>1. pl_link \in Links /\ pl_seq \in [PortHeads -> Seq(PortEntries)]
    BY DEF Links
  <1>2. \A x \in LinkEnds : pl_link.next[x] = x /\ pl_link.prev[x] = x
    OBVIOUS
  <1>3. \A h \in PortHeads : NoneTwice(pl_seq[h]) /\ \A x : ~Listed(x, pl_seq[h])
    BY DEF NoneTwice, Listed
  <1>4. ASSUME NEW h \in PortHeads PROVE Linked(pl_link, h, pl_seq[h])
    <2>1. pl_seq[h] = << >> /\ Len(<< >>) = 0 /\ h \in LinkEnds
      BY DEF LinkEnds
    <2>2. RingAt(h, << >>, 0) = h /\ RingAt(h, << >>, 1) = h
      BY <2>1 DEF RingAt
    <2> HIDE DEF PortListInit
    <2> QED
      BY <1>2, <2>1, <2>2 DEF Linked
  <1> QED
    BY <1>1, <1>2, <1>3, <1>4 DEF PlIInv, AllLinked, Apart, Loose, LinkEnds

(* Adding, deleting, popping and moving. *)
LEMMA PlElementSteps ==
    ASSUME PlIInv, NEW e \in PortEntries, NEW h \in PortHeads,
           PortListAdd(e, h) \/ PortListMove(e, h) \/ PortListDel(e) \/ PortListPop(h)
    PROVE  PlIInv'
  <1> DEFINE l == pl_link
             q == pl_seq
             r == [g \in PortHeads |-> RemoveFirst(q[g], e)]
             u == fusion_list_unlink(l, e)
  <1>1. AllLinked(l, q) /\ Loose(l, q, {})
    BY DEF PlIInv
  <1>2. q \in [PortHeads -> Seq(PortEntries)] /\ \A g \in PortHeads : q[g] \in Seq(PortEntries)
        /\ NoneTwice(q[g]) /\ Linked(l, g, q[g])
    BY <1>1 DEF AllLinked, Apart
  <1>3. AllLinked(u, r) /\ OnNoList(e, r) /\ Loose(u, r, {e})
    BY <1>1, Unlinked
  <1>4. CASE PortListAdd(e, h)
    <2>1. OnNoList(e, q)
      BY <1>2, <1>4 DEF PortListAdd, Holds, OnNoList, Listed
    <2>2. Loose(l, q, {e})
      BY <1>1 DEF Loose
    <2>3. /\ AllLinked(fusion_list_add_head(l, e, h), [q EXCEPT ![h] = <<e>> \o @])
          /\ Loose(fusion_list_add_head(l, e, h), [q EXCEPT ![h] = <<e>> \o @], {})
          /\ AllLinked(fusion_list_add_tail(l, e, h), [q EXCEPT ![h] = Append(@, e)])
          /\ Loose(fusion_list_add_tail(l, e, h), [q EXCEPT ![h] = Append(@, e)], {})
      BY <1>1, <2>1, <2>2, AddedAtTheEnds
    <2> QED
      BY <1>4, <2>3 DEF PortListAdd, PlIInv
  <1>5. CASE PortListMove(e, h)
    <2> HIDE DEF u, r
    <2>1. /\ AllLinked(fusion_list_add_head(u, e, h), [r EXCEPT ![h] = <<e>> \o @])
          /\ Loose(fusion_list_add_head(u, e, h), [r EXCEPT ![h] = <<e>> \o @], {})
          /\ AllLinked(fusion_list_add_tail(u, e, h), [r EXCEPT ![h] = Append(@, e)])
          /\ Loose(fusion_list_add_tail(u, e, h), [r EXCEPT ![h] = Append(@, e)], {})
      BY <1>3, AddedAtTheEnds
    <2>2. Without(e) = r
      BY DEF Without, r
    <2>3. \/ /\ pl_link' = fusion_list_add_head(u, e, h) /\ pl_seq' = [r EXCEPT ![h] = <<e>> \o @]
          \/ /\ pl_link' = fusion_list_add_tail(u, e, h) /\ pl_seq' = [r EXCEPT ![h] = Append(@, e)]
      BY <1>5, <2>2 DEF PortListMove, fusion_list_move_head, fusion_list_move_tail, u
    <2> QED
      BY <2>1, <2>3 DEF PlIInv
  <1>6. CASE PortListDel(e)
    <2>1. AllLinked(fusion_list_del(l, e), r) /\ Loose(fusion_list_del(l, e), r, {})
      BY <1>1, Deleted
    <2> QED
      BY <1>6, <2>1 DEF PortListDel, PlIInv, Without
  <1>7. CASE PortListPop(h)
    <2> DEFINE f == l.next[h]
               w == [g \in PortHeads |-> RemoveFirst(q[g], f)]
    <2>1. q[h] # << >> /\ f = q[h][1]
      BY <1>2, <1>7, EmptyRing DEF PortListPop
    <2>2. f \in PortEntries /\ Listed(f, q[h])
      BY <1>2, <2>1 DEF Listed
    <2>3. AllLinked(fusion_list_del(l, f), w) /\ Loose(fusion_list_del(l, f), w, {})
      BY <1>1, <2>2, Deleted
    <2>4. RemoveFirst(q[h], f) = Tail(q[h])
      <3>1. PICK j \in 1..Len(q[h]) : q[h][j] = f /\ RemoveFirst(q[h], f) = RemoveAt(q[h], j)
        BY <1>2, <2>2, RemoveFirstAt
      <3>2. j = 1
        BY <1>2, <2>1, <3>1 DEF NoneTwice
      <3>3. /\ RemoveAt(q[h], 1) \in Seq(PortEntries)
            /\ Len(RemoveAt(q[h], 1)) = Len(q[h]) - 1
            /\ \A i \in 1..(Len(q[h]) - 1) : RemoveAt(q[h], 1)[i] = q[h][i + 1]
        BY <1>2, <3>1, <3>2, RemoveAtPlaces
      <3>4. /\ Tail(q[h]) \in Seq(PortEntries)
            /\ Len(Tail(q[h])) = Len(q[h]) - 1
            /\ \A i \in 1..(Len(q[h]) - 1) : Tail(q[h])[i] = q[h][i + 1]
        BY <1>2, <2>1
      <3>5. RemoveAt(q[h], 1) = Tail(q[h])
        <4> DEFINE a == RemoveAt(q[h], 1)
                   b == Tail(q[h])
        <4>1. /\ a \in Seq(PortEntries) /\ b \in Seq(PortEntries) /\ Len(a) = Len(b)
              /\ \A i \in 1..Len(a) : a[i] = b[i]
          BY <3>3, <3>4
        <4> HIDE DEF a, b
        <4>2. a = b
          BY <4>1, SeqEqual
        <4> QED
          BY <4>2 DEF a, b
      <3> QED
        BY <3>1, <3>2, <3>5
    <2>5. ASSUME NEW g \in PortHeads, g # h PROVE RemoveFirst(q[g], f) = q[g]
      <3>1. ~Listed(f, q[g])
        BY <1>1, <2>2, <2>5 DEF AllLinked, Apart
      <3> QED
        BY <3>1 DEF RemoveFirst, Listed
    <2>6. w = [q EXCEPT ![h] = Tail(@)]
      BY <1>2, <2>4, <2>5
    <2> HIDE DEF w
    <2> QED
      BY <1>7, <2>3, <2>6 DEF PortListPop, PlIInv
  <1> QED
    BY <1>4, <1>5, <1>6, <1>7

(* Joining, in the three ways. *)
LEMMA PlJoinSteps ==
    ASSUME PlIInv, NEW src \in PortHeads, NEW h \in PortHeads, PortListJoin(src, h)
    PROVE  PlIInv'
  <1> DEFINE l == pl_link
             q == pl_seq
             s == q[h]
             t == q[src]
  <1>1. AllLinked(l, q) /\ Loose(l, q, {}) /\ src # h
    BY DEF PlIInv, PortListJoin
  <1>2. /\ s \in Seq(PortEntries) /\ t \in Seq(PortEntries) /\ Linked(l, h, s) /\ Linked(l, src, t)
        /\ Len(s) \in Nat
    BY <1>1 DEF AllLinked
  <1>3. CASE t = << >>
    <2>1. pl_link' = pl_link /\ pl_seq' = pl_seq
      <3>1. /\ fusion_list_add_list(l, src, h) = l
            /\ fusion_list_splice(l, src, h) = l
            /\ fusion_list_splice_tail(l, src, h) = l
            /\ [q EXCEPT ![h] = q[src] \o @, ![src] = << >>] = q
            /\ [q EXCEPT ![h] = @ \o q[src], ![src] = << >>] = q
        BY <1>1, <1>3, JoinedEmpty
      <3> QED
        BY <3>1, Zenon DEF PortListJoin
    <2> QED
      BY <2>1 DEF PlIInv
  <1>4. CASE t # << >>
    <2>1. t \o s \in Seq(PortEntries) /\ Woven(t \o s, s, 0, t) /\ 0 \in 0..Len(s)
      BY <1>2, ConcatWoven
    <2>2. s \o t \in Seq(PortEntries) /\ Woven(s \o t, s, Len(s), t) /\ Len(s) \in 0..Len(s)
      BY <1>2, ConcatWoven
    <2>3. /\ h = RingAt(h, s, 0) /\ h = RingAt(h, s, Len(s) + 1)
          /\ l.next[h] = RingAt(h, s, 0 + 1) /\ l.prev[h] = RingAt(h, s, Len(s))
      <3>1. l.next[h] = RingAt(h, s, 1) /\ l.prev[h] = RingAt(h, s, Len(s))
        BY <1>2, EmptyRing
      <3> QED
        BY <1>2, <3>1 DEF RingAt
    <2>4. ~fusion_list_empty(l, src)
      BY <1>2, <1>4, EmptyRing
    <2>5. /\ JoinLinks(l, q, src, h, 0, fusion_list_add_list(l, src, h))
          /\ JoinLinks(l, q, src, h, 0, fusion_list_splice(l, src, h))
          /\ JoinLinks(l, q, src, h, Len(s), fusion_list_splice_tail(l, src, h))
      <3>1. JoinLinks(l, q, src, h, 0, fusion_list_add_list(l, src, h))
        BY <1>1, <1>4, AddListLinks
      <3>2. JoinLinks(l, q, src, h, 0,
              fusion_list_splice_between(l, src, RingAt(h, s, 0), RingAt(h, s, 0 + 1)))
        BY <1>1, <1>4, <2>1, SpliceLinks
      <3>3. JoinLinks(l, q, src, h, Len(s),
              fusion_list_splice_between(l, src, RingAt(h, s, Len(s)), RingAt(h, s, Len(s) + 1)))
        BY <1>1, <1>4, <2>2, SpliceLinks
      <3> QED
        BY <2>3, <2>4, <3>1, <3>2, <3>3 DEF fusion_list_splice, fusion_list_splice_tail
    <2>6. ASSUME NEW m, JoinLinks(l, q, src, h, 0, m)
          PROVE  /\ AllLinked(m, [q EXCEPT ![h] = t \o s, ![src] = << >>])
                 /\ Loose(m, [q EXCEPT ![h] = t \o s, ![src] = << >>], {})
      BY <1>1, <1>4, <2>1, <2>6, Joined
    <2>7. ASSUME NEW m, JoinLinks(l, q, src, h, Len(s), m)
          PROVE  /\ AllLinked(m, [q EXCEPT ![h] = s \o t, ![src] = << >>])
                 /\ Loose(m, [q EXCEPT ![h] = s \o t, ![src] = << >>], {})
      BY <1>1, <1>4, <2>2, <2>7, Joined
    <2>8. \/ /\ JoinLinks(l, q, src, h, 0, pl_link')
             /\ pl_seq' = [q EXCEPT ![h] = t \o s, ![src] = << >>]
          \/ /\ JoinLinks(l, q, src, h, Len(s), pl_link')
             /\ pl_seq' = [q EXCEPT ![h] = s \o t, ![src] = << >>]
      BY <2>5 DEF PortListJoin
    <2> QED
      BY <2>6, <2>7, <2>8 DEF PlIInv
  <1> QED
    BY <1>3, <1>4

(* Every step keeps the invariant. *)
LEMMA PlNextInv == PlIInv /\ [PortListNext]_plVars => PlIInv'
  <1> SUFFICES ASSUME PlIInv, [PortListNext]_plVars PROVE PlIInv'
    OBVIOUS
  <1>1. ASSUME NEW e \in PortEntries, NEW h \in PortHeads, PortListAdd(e, h) \/ PortListMove(e, h)
        PROVE  PlIInv'
    BY <1>1, PlElementSteps
  <1>2. ASSUME NEW e \in PortEntries, PortListDel(e) PROVE PlIInv'
    <2>1. AllLinked(fusion_list_del(pl_link, e), Without(e)) /\ Loose(fusion_list_del(pl_link, e), Without(e), {})
      BY Deleted DEF PlIInv, Without
    <2> QED
      BY <1>2, <2>1 DEF PortListDel, PlIInv
  <1>3. ASSUME NEW h \in PortHeads, PortListPop(h) PROVE PlIInv'
    <2>1. PICK e : e \in PortEntries
      <3>1. pl_seq[h] \in Seq(PortEntries) /\ Linked(pl_link, h, pl_seq[h])
        BY DEF PlIInv, AllLinked
      <3>2. pl_seq[h] # << >>
        BY <1>3, <3>1, EmptyRing DEF PortListPop
      <3> QED
        BY <3>1, <3>2
    <2> QED
      BY <1>3, <2>1, PlElementSteps
  <1>4. ASSUME NEW src \in PortHeads, NEW h \in PortHeads, PortListJoin(src, h) PROVE PlIInv'
    BY <1>4, PlJoinSteps
  <1>5. CASE UNCHANGED plVars
    BY <1>5 DEF PlIInv, plVars
  <1> QED
    BY <1>1, <1>2, <1>3, <1>4, <1>5 DEF PortListNext

(* The strengthening gives what the lists promise. *)
LEMMA PlIInvSuffices == PlIInv => PortListTypeOK /\ PortListExact
  <1> SUFFICES ASSUME PlIInv PROVE PortListTypeOK /\ PortListExact
    OBVIOUS
  <1>1. PortListTypeOK
    BY DEF PlIInv, AllLinked, Links, PortListTypeOK
  <1>2. ASSUME NEW h \in PortHeads,
               NEW i \in 1..(Len(<<h>> \o pl_seq[h] \o <<h>>) - 1)
        PROVE  /\ pl_link.next[(<<h>> \o pl_seq[h] \o <<h>>)[i]] = (<<h>> \o pl_seq[h] \o <<h>>)[i + 1]
               /\ pl_link.prev[(<<h>> \o pl_seq[h] \o <<h>>)[i + 1]] = (<<h>> \o pl_seq[h] \o <<h>>)[i]
    <2> DEFINE s == pl_seq[h]
               ring == <<h>> \o s \o <<h>>
    <2>1. s \in Seq(LinkEnds) /\ Len(s) \in Nat /\ Linked(pl_link, h, s) /\ h \in LinkEnds
      BY DEF PlIInv, AllLinked, LinkEnds
    <2> HIDE DEF s
    <2>2. Len(ring) = Len(s) + 2 /\ \A j \in 1..(Len(s) + 2) : ring[j] = RingAt(h, s, j - 1)
      BY <2>1 DEF RingAt
    <2> HIDE DEF ring
    <2>3. i \in 1..(Len(ring) - 1)
      BY DEF ring, s
    <2>4. /\ i - 1 \in 0..Len(s) /\ (i - 1) + 1 = (i + 1) - 1
          /\ i \in 1..(Len(s) + 2) /\ i + 1 \in 1..(Len(s) + 2)
      BY <2>1, <2>2, <2>3
    <2>5. ring[i] = RingAt(h, s, i - 1) /\ ring[i + 1] = RingAt(h, s, (i - 1) + 1)
      BY <2>2, <2>4
    <2>6. pl_link.next[ring[i]] = ring[i + 1] /\ pl_link.prev[ring[i + 1]] = ring[i]
      BY <2>1, <2>4, <2>5 DEF Linked
    <2> QED
      BY <2>6 DEF ring, s
  <1>3. ASSUME NEW e \in PortEntries, \A h \in PortHeads : ~Holds(h, e)
        PROVE  pl_link.next[e] = e /\ pl_link.prev[e] = e
    <2>1. OnNoList(e, pl_seq)
      BY <1>3 DEF OnNoList, Holds, Listed, PlIInv, AllLinked
    <2> QED
      BY <2>1 DEF PlIInv, Loose
  <1> QED
    BY <1>1, <1>2, <1>3 DEF PortListExact

(* After any sequence of fusion_list operations on any heads and elements, *)
(* the assignments of fio/port/list.h leave every list linked through      *)
(* exactly its elements in both directions, and an element on no list      *)
(* linked to itself.                                                       *)
THEOREM ListsStayLinked == PortListSpec => [](PortListTypeOK /\ PortListExact)
  BY PlInitInv, PlNextInv, PlIInvSuffices, PTL DEF PortListSpec
-----------------------------------------------------------------------------
(* The lock-free list *)

(* LinkedAs for any links: it lets a lemma speak of the links of two states. *)
Chain(nxt, ref, s) ==
    /\ ref = IF s = << >> THEN Null ELSE s[1]
    /\ \A i \in 1..Len(s) : nxt[s[i]] = IF i = Len(s) THEN Null ELSE s[i + 1]

AtomicLinks == [ListNodes -> ListRef]

-----------------------------------------------------------------------------
(* Sequences without repetition *)

(* An entry put in front of a sequence is in it, with those that were.     *)
LEMMA InFront ==
    ASSUME NEW e \in ListNodes, NEW s \in Seq(ListNodes)
    PROVE  /\ <<e>> \o s \in Seq(ListNodes)
           /\ \A x : In(x, <<e>> \o s) <=> x = e \/ In(x, s)
           /\ ~In(e, s) /\ NoRepeat(s) => NoRepeat(<<e>> \o s)
  <1> DEFINE t == <<e>> \o s
  <1>1. t \in Seq(ListNodes) /\ Len(t) = Len(s) + 1
    OBVIOUS
  <1>2. t[1] = e /\ \A i \in 1..Len(s) : t[i + 1] = s[i]
    OBVIOUS
  <1>3. \A i \in 1..Len(t) : i = 1 \/ (i - 1 \in 1..Len(s) /\ t[i] = s[i - 1])
    <2> SUFFICES ASSUME NEW i \in 1..Len(t), i # 1
                 PROVE  i - 1 \in 1..Len(s) /\ t[i] = s[i - 1]
      OBVIOUS
    <2>1. i - 1 \in 1..Len(s)
      BY <1>1
    <2>2. t[(i - 1) + 1] = s[i - 1]
      BY <2>1, <1>2
    <2> QED
      BY <2>1, <2>2, <1>1
  <1> HIDE DEF t
  <1>4. DOMAIN t = 1..Len(t) /\ DOMAIN s = 1..Len(s) /\ Len(s) \in Nat
    BY <1>1
  <1>5. \A x : In(x, t) <=> x = e \/ In(x, s)
    <2>1. ASSUME NEW x, In(x, t) PROVE x = e \/ In(x, s)
      BY <2>1, <1>1, <1>2, <1>3, <1>4 DEF In
    <2>2. In(e, t)
      BY <1>1, <1>2, <1>4 DEF In
    <2>3. ASSUME NEW x, In(x, s) PROVE In(x, t)
      <3>1. PICK i \in 1..Len(s) : s[i] = x
        BY <2>3, <1>4 DEF In
      <3>2. i + 1 \in 1..Len(t) /\ t[i + 1] = x
        BY <3>1, <1>1, <1>2, <1>4
      <3> QED
        BY <3>2, <1>4 DEF In
    <2> QED
      BY <2>1, <2>2, <2>3
  <1>6. ASSUME ~In(e, s), NoRepeat(s), NEW i \in 1..Len(t), NEW j \in 1..Len(t), t[i] = t[j]
        PROVE  i = j
    <2>1. CASE i = 1
      BY <2>1, <1>6, <1>2, <1>3, <1>4 DEF In
    <2>2. CASE j = 1
      BY <2>2, <1>6, <1>2, <1>3, <1>4 DEF In
    <2>3. CASE i # 1 /\ j # 1
      <3>1. i - 1 \in 1..Len(s) /\ j - 1 \in 1..Len(s) /\ s[i - 1] = s[j - 1]
        BY <2>3, <1>6, <1>3
      <3>2. i - 1 = j - 1
        BY <3>1, <1>6 DEF NoRepeat
      <3> QED
        BY <3>2, <1>1
    <2> QED
      BY <2>1, <2>2, <2>3
  <1> QED
    BY <1>1, <1>5, <1>6 DEF t, NoRepeat

(* What is left behind the first entry. *)
LEMMA InTail ==
    ASSUME NEW s \in Seq(ListNodes), s # << >>
    PROVE  /\ Tail(s) \in Seq(ListNodes)
           /\ s[1] \in ListNodes
           /\ \A x : In(x, Tail(s)) => In(x, s)
           /\ NoRepeat(s) => NoRepeat(Tail(s))
  <1>1. Tail(s) \in Seq(ListNodes) /\ Len(Tail(s)) = Len(s) - 1 /\ Len(s) \in Nat \ {0}
    OBVIOUS
  <1>2. \A i \in 1..Len(Tail(s)) : i + 1 \in 1..Len(s) /\ Tail(s)[i] = s[i + 1]
    OBVIOUS
  <1>3. DOMAIN s = 1..Len(s) /\ DOMAIN Tail(s) = 1..Len(Tail(s))
    BY <1>1
  <1>4. s[1] \in ListNodes
    BY <1>1
  <1>5. \A x : In(x, Tail(s)) => In(x, s)
    BY <1>2, <1>3 DEF In
  <1>6. NoRepeat(s) => NoRepeat(Tail(s))
    BY <1>1, <1>2 DEF NoRepeat
  <1> QED
    BY <1>1, <1>4, <1>5, <1>6

-----------------------------------------------------------------------------
(* Chains *)

(* A chain does not notice a write to the link of an entry it does not hold. *)
LEMMA ChainFrame ==
    ASSUME NEW nxt \in AtomicLinks, NEW s \in Seq(ListNodes), NEW ref, NEW e \in ListNodes, NEW v,
           ~In(e, s), Chain(nxt, ref, s)
    PROVE  Chain([nxt EXCEPT ![e] = v], ref, s)
  <1>1. \A i \in 1..Len(s) : s[i] \in ListNodes /\ s[i] # e
    BY DEF In
  <1> QED
    BY <1>1 DEF Chain, AtomicLinks

(* An entry linked to the head of a chain makes a chain with it. *)
LEMMA ChainFront ==
    ASSUME NEW nxt \in AtomicLinks, NEW s \in Seq(ListNodes), NEW ref, NEW e \in ListNodes,
           Chain(nxt, ref, s), nxt[e] = ref
    PROVE  Chain(nxt, e, <<e>> \o s)
  <1> DEFINE t == <<e>> \o s
  <1>1. t # << >> /\ t[1] = e /\ Len(t) = Len(s) + 1 /\ Len(s) \in Nat
    OBVIOUS
  <1>2. \A i \in 1..Len(s) : t[i + 1] = s[i]
    OBVIOUS
  <1>3. s = << >> <=> Len(s) = 0
    OBVIOUS
  <1> HIDE DEF t
  <1>4. ASSUME NEW i \in 1..Len(t)
        PROVE  nxt[t[i]] = IF i = Len(t) THEN Null ELSE t[i + 1]
    <2>1. CASE i = 1
      <3>1. CASE s = << >>
        BY <2>1, <3>1, <1>1, <1>3 DEF Chain
      <3>2. CASE s # << >>
        <4>1. 1 \in 1..Len(s) /\ ref = s[1] /\ t[1 + 1] = s[1]
          BY <3>2, <1>1, <1>2, <1>3 DEF Chain
        <4> QED
          BY <2>1, <4>1, <1>1
      <3> QED
        BY <3>1, <3>2
    <2>2. CASE i # 1
      <3>1. i - 1 \in 1..Len(s) /\ t[(i - 1) + 1] = s[i - 1] /\ (i - 1) + 1 = i
        BY <2>2, <1>1, <1>2
      <3>2. nxt[s[i - 1]] = IF i - 1 = Len(s) THEN Null ELSE s[(i - 1) + 1]
        BY <3>1 DEF Chain
      <3>3. i # Len(t) => i \in 1..Len(s) /\ t[i + 1] = s[i]
        BY <1>1, <1>2
      <3> QED
        BY <3>1, <3>2, <3>3, <1>1
    <2> QED
      BY <2>1, <2>2
  <1> QED
    BY <1>1, <1>4 DEF Chain, t

(* The link of the first entry is the head of the rest. *)
LEMMA ChainRest ==
    ASSUME NEW nxt \in AtomicLinks, NEW s \in Seq(ListNodes), NEW ref,
           s # << >>, Chain(nxt, ref, s)
    PROVE  ref = s[1] /\ Chain(nxt, nxt[ref], Tail(s))
  <1> DEFINE t == Tail(s)
  <1>1. Len(s) \in Nat \ {0} /\ Len(t) = Len(s) - 1
    OBVIOUS
  <1>2. \A i \in 1..Len(t) : t[i] = s[i + 1]
    OBVIOUS
  <1>3. t = << >> <=> Len(t) = 0
    <2>1. t \in Seq(ListNodes)
      OBVIOUS
    <2> HIDE DEF t
    <2> QED
      BY <2>1
  <1> HIDE DEF t
  <1>4. ref = s[1]
    BY DEF Chain
  <1>5. nxt[ref] = IF t = << >> THEN Null ELSE t[1]
    <2>1. 1 \in 1..Len(s) /\ nxt[s[1]] = IF 1 = Len(s) THEN Null ELSE s[1 + 1]
      BY <1>1 DEF Chain
    <2>2. t # << >> => t[1] = s[1 + 1]
      BY <1>1, <1>2, <1>3
    <2> QED
      BY <2>1, <2>2, <1>1, <1>3, <1>4
  <1>6. ASSUME NEW i \in 1..Len(t)
        PROVE  nxt[t[i]] = IF i = Len(t) THEN Null ELSE t[i + 1]
    <2>1. i + 1 \in 1..Len(s) /\ t[i] = s[i + 1]
      BY <1>1, <1>2
    <2>2. nxt[s[i + 1]] = IF i + 1 = Len(s) THEN Null ELSE s[(i + 1) + 1]
      BY <2>1 DEF Chain
    <2>3. i # Len(t) => t[i + 1] = s[(i + 1) + 1]
      BY <1>1, <1>2
    <2> QED
      BY <2>1, <2>2, <2>3, <1>1
  <1> QED
    BY <1>4, <1>5, <1>6 DEF Chain, t

(* Only the empty chain starts at Null, and it does. *)
LEMMA ChainEnd ==
    ASSUME NEW nxt, NEW s \in Seq(ListNodes), NEW ref
    PROVE  /\ Chain(nxt, Null, << >>)
           /\ Chain(nxt, ref, s) => (ref = Null <=> s = << >>)
  <1>1. s # << >> => s[1] \in ListNodes
    OBVIOUS
  <1> QED
    BY <1>1, NullAssumption DEF Chain

-----------------------------------------------------------------------------
(* One lemma per part of the invariant, with one step per action. *)

(* LinkedAs is Chain over the links of the state. *)
LEMMA LinkedIsChain ==
    /\ \A ref, s : LinkedAs(ref, s) <=> Chain(al_next, ref, s)
    /\ ListTypeOK => al_next \in AtomicLinks
  BY DEF LinkedAs, Chain, AtomicLinks, ListTypeOK

(* Steps keep the types: what a walk follows is an entry, and no list ever *)
(* holds anything else (fusion_atomic_list_add, fusion_atomic_list_splice). *)
LEMMA ListTypeStep ==
    ASSUME ListTypeOK, [ListNext]_alVars
    PROVE  ListTypeOK'
  <1> USE DEF ListTypeOK, ListRef
  <1>1. ASSUME NEW p \in Pushers, NEW e \in ListNodes, StartAdd(p, e) PROVE ListTypeOK'
    BY <1>1 DEF StartAdd
  <1>2. ASSUME NEW p \in Pushers, ReadHead(p) PROVE ListTypeOK'
    BY <1>2 DEF ReadHead
  <1>3. ASSUME NEW p \in Pushers, CompareAndSwap(p) PROVE ListTypeOK'
    <2>1. al_entry[p] \in ListNodes
      BY <1>3 DEF CompareAndSwap
    <2>2. <<al_entry[p]>> \o al_listed \in Seq(ListNodes)
      BY <2>1, InFront
    <2> QED
      BY <1>3, <2>1, <2>2 DEF CompareAndSwap
  <1>4. ASSUME NEW k \in Takers, Splice(k) PROVE ListTypeOK'
    BY <1>4 DEF Splice
  <1>5. ASSUME NEW k \in Takers, WalkRead(k) PROVE ListTypeOK'
    <2>1. CASE al_pos[k] = Null
      BY <1>5, <2>1 DEF WalkRead
    <2>2. CASE al_pos[k] # Null
      <3>1. al_next[al_pos[k]] \in ListRef
        BY <2>2
      <3> QED
        BY <1>5, <2>2, <3>1 DEF WalkRead
    <2> QED
      BY <2>1, <2>2
  <1>6. ASSUME NEW k \in Takers, WalkHandle(k) PROVE ListTypeOK'
    <2>1. Tail(al_taken[k]) \in Seq(ListNodes)
      BY <1>6, InTail DEF WalkHandle
    <2> QED
      BY <1>6, <2>1 DEF WalkHandle
  <1>7. ASSUME NEW k \in Takers, WalkAdvance(k) PROVE ListTypeOK'
    BY <1>7 DEF WalkAdvance
  <1>8. ASSUME UNCHANGED alVars PROVE ListTypeOK'
    BY <1>8 DEF alVars
  <1> QED
    BY <1>1, <1>2, <1>3, <1>4, <1>5, <1>6, <1>7, <1>8
       DEF ListNext, PusherStep, TakerStep

(* An entry stays in one place: StartAdd takes an unused one, and every    *)
(* other step moves entries from one place to the next.                    *)
LEMMA OnePlaceStep ==
    ASSUME ListTypeOK, AtomicListExact, OnePlacePerEntry, [ListNext]_alVars
    PROVE  OnePlacePerEntry'
  <1> USE DEF ListTypeOK, OnePlacePerEntry, ListsApart, AddersApart
  <1>1. ASSUME NEW p \in Pushers, NEW e \in ListNodes, StartAdd(p, e) PROVE OnePlacePerEntry'
    <2>1. UNCHANGED <<al_listed, al_taken>>
      BY <1>1 DEF StartAdd
    <2>2. ASSUME NEW q \in Pushers, al_pc'[q] # "idle"
          PROVE  /\ ~In(al_entry'[q], al_listed)
                 /\ \A k \in Takers : ~In(al_entry'[q], al_taken[k])
                 /\ \A r \in Pushers \ {q} : ~(al_pc'[r] # "idle" /\ al_entry'[r] = al_entry'[q])
      <3>1. CASE q = p
        BY <3>1, <1>1, <2>2 DEF StartAdd, Unused, Adding
      <3>2. CASE q # p
        <4>1. al_pc[q] # "idle" /\ al_entry'[q] = al_entry[q]
          BY <3>2, <1>1, <2>2 DEF StartAdd
        <4>2. al_entry[q] # e
          BY <4>1, <1>1 DEF StartAdd, Unused, Adding
        <4> QED
          BY <4>1, <4>2, <1>1 DEF StartAdd, Adding
      <3> QED
        BY <3>1, <3>2
    <2> QED
      BY <2>1, <2>2 DEF ListsApart, AddersApart, Adding
  <1>2. ASSUME NEW p \in Pushers, ReadHead(p) PROVE OnePlacePerEntry'
    <2>1. UNCHANGED <<al_listed, al_taken, al_entry>>
          /\ \A q \in Pushers : al_pc'[q] # "idle" => al_pc[q] # "idle"
      BY <1>2 DEF ReadHead
    <2> QED
      BY <2>1 DEF Adding
  <1>3. ASSUME NEW p \in Pushers, CompareAndSwap(p) PROVE OnePlacePerEntry'
    <2>1. CASE al_head # al_cur[p]
      <3>1. UNCHANGED <<al_listed, al_taken, al_entry>>
            /\ \A q \in Pushers : al_pc'[q] # "idle" => al_pc[q] # "idle"
        BY <1>3, <2>1 DEF CompareAndSwap
      <3> QED
        BY <3>1 DEF Adding
    <2>2. CASE al_head = al_cur[p]
      <3> DEFINE e == al_entry[p]
                 t == <<e>> \o al_listed
      <3>1. /\ e \in ListNodes /\ al_pc[p] # "idle"
            /\ al_listed' = t /\ UNCHANGED <<al_taken, al_entry>>
            /\ \A q \in Pushers : al_pc'[q] # "idle" => q # p /\ al_pc[q] # "idle"
        BY <1>3, <2>2 DEF CompareAndSwap
      <3>2. /\ ~In(e, al_listed) /\ NoRepeat(al_listed)
            /\ \A k \in Takers : ~In(e, al_taken[k])
            /\ \A q \in Pushers : al_pc'[q] # "idle" => al_entry[q] # e
        BY <3>1 DEF Adding
      <3>3. NoRepeat(t) /\ \A x : In(x, t) <=> x = e \/ In(x, al_listed)
        BY <3>1, <3>2, InFront
      <3> HIDE DEF e, t
      <3>4. NoRepeat(al_listed')
        BY <3>1, <3>3
      <3>5. \A k \in Takers : /\ NoRepeat(al_taken'[k])
                              /\ \A x \in ListNodes : In(x, al_taken'[k]) => ~In(x, al_listed')
                              /\ \A m \in Takers \ {k} : \A x \in ListNodes :
                                   In(x, al_taken'[k]) => ~In(x, al_taken'[m])
        BY <3>1, <3>2, <3>3
      <3>6. \A q \in Pushers : al_pc'[q] # "idle" =>
              /\ ~In(al_entry'[q], al_listed')
              /\ \A k \in Takers : ~In(al_entry'[q], al_taken'[k])
              /\ \A r \in Pushers \ {q} : ~(al_pc'[r] # "idle" /\ al_entry'[r] = al_entry'[q])
        BY <3>1, <3>2, <3>3 DEF Adding
      <3> QED
        BY <3>4, <3>5, <3>6 DEF Adding
    <2> QED
      BY <2>1, <2>2
  <1>4. ASSUME NEW k \in Takers, Splice(k) PROVE OnePlacePerEntry'
    <2>1. /\ al_taken[k] = << >> /\ al_listed' = << >> /\ UNCHANGED <<al_pc, al_entry>>
          /\ al_taken'[k] = al_listed
          /\ \A m \in Takers \ {k} : al_taken'[m] = al_taken[m]
      BY <1>4 DEF Splice, AtomicListExact
    <2>2. NoRepeat(al_listed') /\ \A x : ~In(x, al_listed')
      BY <2>1 DEF NoRepeat, In
    <2>3. ASSUME NEW m \in Takers
          PROVE  /\ NoRepeat(al_taken'[m])
                 /\ \A x \in ListNodes : In(x, al_taken'[m]) => ~In(x, al_listed')
                 /\ \A j \in Takers \ {m} : \A x \in ListNodes :
                      In(x, al_taken'[m]) => ~In(x, al_taken'[j])
      BY <2>1, <2>2
    <2>4. \A q \in Pushers : al_pc'[q] # "idle" =>
            /\ ~In(al_entry'[q], al_listed')
            /\ \A m \in Takers : ~In(al_entry'[q], al_taken'[m])
            /\ \A r \in Pushers \ {q} : ~(al_pc'[r] # "idle" /\ al_entry'[r] = al_entry'[q])
      BY <2>1, <2>2 DEF Adding
    <2> QED
      BY <2>2, <2>3, <2>4 DEF Adding
  <1>5. ASSUME NEW k \in Takers, WalkRead(k) PROVE OnePlacePerEntry'
    <2>1. UNCHANGED <<al_listed, al_taken, al_pc, al_entry>>
      BY <1>5 DEF WalkRead
    <2> QED
      BY <2>1 DEF Adding
  <1>6. ASSUME NEW k \in Takers, WalkHandle(k) PROVE OnePlacePerEntry'
    <2>1. /\ al_taken[k] # << >> /\ UNCHANGED <<al_listed, al_pc, al_entry>>
          /\ al_taken'[k] = Tail(al_taken[k])
          /\ \A m \in Takers \ {k} : al_taken'[m] = al_taken[m]
      BY <1>6 DEF WalkHandle
    <2>2. \A m \in Takers : /\ \A x : In(x, al_taken'[m]) => In(x, al_taken[m])
                            /\ NoRepeat(al_taken[m]) => NoRepeat(al_taken'[m])
      <3>1. ASSUME NEW m \in Takers
            PROVE  /\ \A x : In(x, al_taken'[m]) => In(x, al_taken[m])
                   /\ NoRepeat(al_taken[m]) => NoRepeat(al_taken'[m])
        <4>1. CASE m = k
          <5>1. al_taken[k] \in Seq(ListNodes)
            OBVIOUS
          <5> QED
            BY <4>1, <5>1, <2>1, InTail
        <4>2. CASE m # k
          BY <4>2, <2>1
        <4> QED
          BY <4>1, <4>2
      <3> QED
        BY <3>1
    <2>3. ASSUME NEW m \in Takers
          PROVE  /\ NoRepeat(al_taken'[m])
                 /\ \A x \in ListNodes : In(x, al_taken'[m]) => ~In(x, al_listed')
                 /\ \A j \in Takers \ {m} : \A x \in ListNodes :
                      In(x, al_taken'[m]) => ~In(x, al_taken'[j])
      BY <2>1, <2>2
    <2>4. NoRepeat(al_listed')
      BY <2>1
    <2>5. \A q \in Pushers : al_pc'[q] # "idle" =>
            /\ ~In(al_entry'[q], al_listed')
            /\ \A m \in Takers : ~In(al_entry'[q], al_taken'[m])
            /\ \A r \in Pushers \ {q} : ~(al_pc'[r] # "idle" /\ al_entry'[r] = al_entry'[q])
      BY <2>1, <2>2 DEF Adding
    <2> QED
      BY <2>3, <2>4, <2>5 DEF Adding
  <1>7. ASSUME NEW k \in Takers, WalkAdvance(k) PROVE OnePlacePerEntry'
    <2>1. UNCHANGED <<al_listed, al_taken, al_pc, al_entry>>
      BY <1>7 DEF WalkAdvance
    <2> QED
      BY <2>1 DEF Adding
  <1>8. ASSUME UNCHANGED alVars PROVE OnePlacePerEntry'
    BY <1>8 DEF alVars, Adding
  <1> QED
    BY <1>1, <1>2, <1>3, <1>4, <1>5, <1>6, <1>7, <1>8
       DEF ListNext, PusherStep, TakerStep

(* What the links of the walk of a taker say, by where the walk is. *)
WalkExact(k) ==
    /\ al_walk[k] = "idle" => al_taken[k] = << >>
    /\ al_walk[k] \in {"next", "body"} => Chain(al_next, al_pos[k], al_taken[k])
    /\ al_walk[k] = "body" => al_taken[k] # << >> /\ Chain(al_next, al_n[k], Tail(al_taken[k]))
    /\ al_walk[k] = "advance" => Chain(al_next, al_n[k], al_taken[k])

(* AtomicListExact in terms of Chain. *)
LEMMA ExactIsChains ==
    /\ AtomicListExact <=> Chain(al_next, al_head, al_listed) /\ \A k \in Takers : WalkExact(k)
    /\ AtomicListExact' <=>
         Chain(al_next', al_head', al_listed') /\ \A k \in Takers : WalkExact(k)'
  BY DEF AtomicListExact, WalkExact, LinkedAs, Chain

(* The links stay exact: only ReadHead writes a link, of an entry that is  *)
(* in no list; a swap that succeeds finds its entry linked to the head.    *)
LEMMA ExactStep ==
    ASSUME ListTypeOK, AtomicListExact, OnePlacePerEntry, SwapPrepared, [ListNext]_alVars
    PROVE  AtomicListExact'
  <1> USE DEF ListTypeOK
  <1>a. al_next \in AtomicLinks /\ Chain(al_next, al_head, al_listed) /\ \A k \in Takers : WalkExact(k)
    BY ExactIsChains DEF AtomicLinks
  <1>b. \A k \in Takers : al_taken[k] \in Seq(ListNodes)
    OBVIOUS
  <1>1. ASSUME NEW p \in Pushers, NEW e \in ListNodes, StartAdd(p, e) PROVE AtomicListExact'
    <2>1. UNCHANGED <<al_head, al_next, al_walk, al_pos, al_n, al_listed, al_taken>>
      BY <1>1 DEF StartAdd
    <2> QED
      BY <2>1, <1>a, ExactIsChains DEF WalkExact
  <1>2. ASSUME NEW p \in Pushers, ReadHead(p) PROVE AtomicListExact'
    <2> DEFINE e == al_entry[p]
    <2>1. /\ e \in ListNodes /\ al_pc[p] # "idle"
          /\ al_next' = [al_next EXCEPT ![e] = al_head]
          /\ UNCHANGED <<al_head, al_walk, al_pos, al_n, al_listed, al_taken>>
      BY <1>2 DEF ReadHead
    <2>2. ~In(e, al_listed) /\ \A k \in Takers : ~In(e, al_taken[k])
      BY <2>1 DEF OnePlacePerEntry, AddersApart
    <2> HIDE DEF e
    <2>3. Chain(al_next', al_head', al_listed')
      BY <2>1, <2>2, <1>a, ChainFrame
    <2>4. ASSUME NEW k \in Takers PROVE WalkExact(k)'
      <3>1. \A ref : Chain(al_next, ref, al_taken[k]) => Chain(al_next', ref, al_taken[k])
        BY <2>1, <2>2, <1>a, <1>b, ChainFrame
      <3>2. ASSUME al_taken[k] # << >>, NEW ref, Chain(al_next, ref, Tail(al_taken[k]))
            PROVE  Chain(al_next', ref, Tail(al_taken[k]))
        <4>1. Tail(al_taken[k]) \in Seq(ListNodes) /\ ~In(e, Tail(al_taken[k]))
          BY <3>2, <2>2, <1>b, InTail
        <4> QED
          BY <3>2, <4>1, <2>1, <1>a, ChainFrame
      <3> QED
        BY <3>1, <3>2, <2>1, <1>a DEF WalkExact
    <2> QED
      BY <2>3, <2>4, ExactIsChains
  <1>3. ASSUME NEW p \in Pushers, CompareAndSwap(p) PROVE AtomicListExact'
    <2>1. UNCHANGED <<al_next, al_walk, al_pos, al_n, al_taken>>
      BY <1>3 DEF CompareAndSwap
    <2>2. \A k \in Takers : WalkExact(k)'
      BY <2>1, <1>a DEF WalkExact
    <2>3. Chain(al_next', al_head', al_listed')
      <3>1. CASE al_head = al_cur[p]
        <4>1. /\ al_entry[p] \in ListNodes /\ al_next[al_entry[p]] = al_head
              /\ al_head' = al_entry[p] /\ al_listed' = <<al_entry[p]>> \o al_listed
          BY <1>3, <3>1 DEF CompareAndSwap, SwapPrepared
        <4> QED
          BY <4>1, <2>1, <1>a, ChainFront
      <3>2. CASE al_head # al_cur[p]
        BY <1>3, <3>2, <2>1, <1>a DEF CompareAndSwap
      <3> QED
        BY <3>1, <3>2
    <2> QED
      BY <2>2, <2>3, ExactIsChains
  <1>4. ASSUME NEW k \in Takers, Splice(k) PROVE AtomicListExact'
    <2>1. /\ UNCHANGED <<al_next, al_n>> /\ al_head' = Null /\ al_listed' = << >>
          /\ al_pos'[k] = al_head /\ al_taken'[k] = al_listed /\ al_walk'[k] = "next"
          /\ \A m \in Takers \ {k} :
               al_pos'[m] = al_pos[m] /\ al_taken'[m] = al_taken[m] /\ al_walk'[m] = al_walk[m]
      BY <1>4 DEF Splice
    <2>2. Chain(al_next', al_head', al_listed')
      BY <2>1, ChainEnd
    <2>3. \A m \in Takers : WalkExact(m)'
      BY <2>1, <1>a DEF WalkExact
    <2> QED
      BY <2>2, <2>3, ExactIsChains
  <1>5. ASSUME NEW k \in Takers, WalkRead(k) PROVE AtomicListExact'
    <2>1. /\ UNCHANGED <<al_head, al_next, al_pos, al_listed, al_taken>>
          /\ al_walk[k] = "next"
          /\ \A m \in Takers \ {k} : al_walk'[m] = al_walk[m] /\ al_n'[m] = al_n[m]
      BY <1>5 DEF WalkRead
    <2>2. Chain(al_next, al_pos[k], al_taken[k])
      BY <2>1, <1>a DEF WalkExact
    <2>3. WalkExact(k)'
      <3>1. CASE al_pos[k] = Null
        <4>1. al_taken[k] = << >> /\ al_walk'[k] = "idle"
          BY <3>1, <2>2, <1>b, <1>5, ChainEnd DEF WalkRead
        <4> QED
          BY <4>1, <2>1 DEF WalkExact
      <3>2. CASE al_pos[k] # Null
        <4>1. /\ al_taken[k] # << >> /\ al_walk'[k] = "body" /\ al_n'[k] = al_next[al_pos[k]]
          BY <3>2, <2>2, <1>b, <1>5, ChainEnd DEF WalkRead
        <4>2. Chain(al_next, al_next[al_pos[k]], Tail(al_taken[k]))
          BY <4>1, <2>2, <1>a, <1>b, ChainRest
        <4> QED
          BY <4>1, <4>2, <2>1, <2>2 DEF WalkExact
      <3> QED
        BY <3>1, <3>2
    <2>4. \A m \in Takers \ {k} : WalkExact(m)'
      BY <2>1, <1>a DEF WalkExact
    <2> QED
      BY <2>1, <2>3, <2>4, <1>a, ExactIsChains
  <1>6. ASSUME NEW k \in Takers, WalkHandle(k) PROVE AtomicListExact'
    <2>1. /\ UNCHANGED <<al_head, al_next, al_pos, al_n, al_listed>>
          /\ al_walk[k] = "body" /\ al_walk'[k] = "advance" /\ al_taken'[k] = Tail(al_taken[k])
          /\ \A m \in Takers \ {k} : al_walk'[m] = al_walk[m] /\ al_taken'[m] = al_taken[m]
      BY <1>6 DEF WalkHandle
    <2>2. \A m \in Takers : WalkExact(m)'
      BY <2>1, <1>a DEF WalkExact
    <2> QED
      BY <2>1, <2>2, <1>a, ExactIsChains
  <1>7. ASSUME NEW k \in Takers, WalkAdvance(k) PROVE AtomicListExact'
    <2>1. /\ UNCHANGED <<al_head, al_next, al_n, al_listed, al_taken>>
          /\ al_walk[k] = "advance" /\ al_walk'[k] = "next" /\ al_pos'[k] = al_n[k]
          /\ \A m \in Takers \ {k} : al_walk'[m] = al_walk[m] /\ al_pos'[m] = al_pos[m]
      BY <1>7 DEF WalkAdvance
    <2>2. \A m \in Takers : WalkExact(m)'
      BY <2>1, <1>a DEF WalkExact
    <2> QED
      BY <2>1, <2>2, <1>a, ExactIsChains
  <1>8. ASSUME UNCHANGED alVars PROVE AtomicListExact'
    BY <1>8, <1>a, ExactIsChains DEF alVars, WalkExact
  <1> QED
    BY <1>1, <1>2, <1>3, <1>4, <1>5, <1>6, <1>7, <1>8
       DEF ListNext, PusherStep, TakerStep

(* Nobody writes the link of an entry that another adder is about to swap. *)
LEMMA SwapStep ==
    ASSUME ListTypeOK, OnePlacePerEntry, SwapPrepared, [ListNext]_alVars
    PROVE  SwapPrepared'
  <1> USE DEF ListTypeOK
  <1>1. ASSUME NEW p \in Pushers, NEW e \in ListNodes, StartAdd(p, e) PROVE SwapPrepared'
    BY <1>1 DEF StartAdd, SwapPrepared
  <1>2. ASSUME NEW p \in Pushers, ReadHead(p) PROVE SwapPrepared'
    <2>1. ASSUME NEW q \in Pushers, al_pc'[q] = "swap"
          PROVE  al_next'[al_entry'[q]] = al_cur'[q]
      <3>1. CASE q = p
        BY <3>1, <1>2 DEF ReadHead
      <3>2. CASE q # p
        <4>1. al_pc[q] = "swap" /\ al_pc[p] # "idle" /\ al_cur'[q] = al_cur[q]
              /\ UNCHANGED al_entry /\ al_next' = [al_next EXCEPT ![al_entry[p]] = al_head]
          BY <3>2, <2>1, <1>2 DEF ReadHead
        <4>2. al_entry[q] # al_entry[p]
          BY <4>1, <3>2 DEF OnePlacePerEntry, AddersApart, Adding
        <4>3. al_next'[al_entry[q]] = al_next[al_entry[q]]
          BY <4>1, <4>2
        <4> QED
          BY <4>1, <4>3 DEF SwapPrepared
      <3> QED
        BY <3>1, <3>2
    <2> QED
      BY <2>1 DEF SwapPrepared
  <1>3. ASSUME NEW p \in Pushers, CompareAndSwap(p) PROVE SwapPrepared'
    BY <1>3 DEF CompareAndSwap, SwapPrepared
  <1>4. ASSUME UNCHANGED <<al_next, al_pc, al_entry, al_cur>> PROVE SwapPrepared'
    BY <1>4 DEF SwapPrepared
  <1> QED
    BY <1>1, <1>2, <1>3, <1>4
       DEF ListNext, PusherStep, TakerStep, Splice, WalkRead, WalkHandle, WalkAdvance, alVars

-----------------------------------------------------------------------------
(* The theorems *)

(* Whatever adders and takers do, the links lead through exactly the       *)
(* entries that were added and not handled, each once and in order         *)
(* (fusion_atomic_list_add, fusion_atomic_list_splice and the walk).       *)
THEOREM AtomicListSafe == ListSpec => [](ListInv /\ AtomicListExact)
  <1>1. ListInit => ListInv
    <2> SUFFICES ASSUME ListInit PROVE ListInv
      OBVIOUS
    <2>1. ListTypeOK
      BY DEF ListInit, ListTypeOK, ListRef
    <2>2. AtomicListExact
      BY DEF ListInit, AtomicListExact, LinkedAs
    <2>3. OnePlacePerEntry
      BY DEF ListInit, OnePlacePerEntry, ListsApart, AddersApart, NoRepeat, In
    <2>4. SwapPrepared
      BY DEF ListInit, SwapPrepared
    <2> QED
      BY <2>1, <2>2, <2>3, <2>4 DEF ListInv
  <1>2. ListInv /\ [ListNext]_alVars => ListInv'
    BY ListTypeStep, ExactStep, OnePlaceStep, SwapStep DEF ListInv
  <1>3. ListInv => AtomicListExact
    BY DEF ListInv
  <1> QED
    BY <1>1, <1>2, <1>3, PTL DEF ListSpec

(* The list implements AtomicBag: a swap that succeeds is an addition, the *)
(* exchange takes everything at once, the loop body hands out one entry,   *)
(* and every other step is invisible.                                      *)
THEOREM AtomicListImplements == ListSpec => AtomicBagRefined
  <1>1. ListInit => Bag!BagInit
    BY DEF ListInit, Bag!BagInit
  <1>2. ASSUME ListInv, [ListNext]_alVars
        PROVE  [Bag!BagNext]_<<al_listed, al_taken>>
    <2> USE <1>2 DEF ListInv
    <2>1. ASSUME NEW p \in Pushers, NEW e \in ListNodes, StartAdd(p, e)
          PROVE  UNCHANGED <<al_listed, al_taken>>
      BY <2>1 DEF StartAdd
    <2>2. ASSUME NEW p \in Pushers, ReadHead(p) PROVE UNCHANGED <<al_listed, al_taken>>
      BY <2>2 DEF ReadHead
    <2>3. ASSUME NEW p \in Pushers, CompareAndSwap(p)
          PROVE  UNCHANGED <<al_listed, al_taken>> \/ Bag!BagNext
      <3>1. CASE al_head # al_cur[p]
        BY <2>3, <3>1 DEF CompareAndSwap
      <3>2. CASE al_head = al_cur[p]
        <4>1. al_entry[p] \in ListNodes /\ al_pc[p] # "idle"
          BY <2>3 DEF CompareAndSwap, ListTypeOK
        <4>2. ~In(al_entry[p], al_listed) /\ \A k \in Takers : ~In(al_entry[p], al_taken[k])
          BY <4>1 DEF OnePlacePerEntry, AddersApart
        <4>3. al_listed' = <<al_entry[p]>> \o al_listed /\ UNCHANGED al_taken
          BY <2>3, <3>2 DEF CompareAndSwap
        <4>4. Bag!BagAdd(al_entry[p])
          BY <4>2, <4>3 DEF Bag!BagAdd, In
        <4> QED
          BY <4>1, <4>4 DEF Bag!BagNext
      <3> QED
        BY <3>1, <3>2
    <2>4. ASSUME NEW k \in Takers, Splice(k) PROVE Bag!BagNext
      <3>1. Bag!BagTake(k)
        BY <2>4 DEF Splice, Bag!BagTake, AtomicListExact
      <3> QED
        BY <3>1 DEF Bag!BagNext
    <2>5. ASSUME NEW k \in Takers, WalkRead(k) PROVE UNCHANGED <<al_listed, al_taken>>
      BY <2>5 DEF WalkRead
    <2>6. ASSUME NEW k \in Takers, WalkHandle(k) PROVE Bag!BagNext
      <3>1. Bag!BagHandle(k)
        BY <2>6 DEF WalkHandle, Bag!BagHandle
      <3> QED
        BY <3>1 DEF Bag!BagNext
    <2>7. ASSUME NEW k \in Takers, WalkAdvance(k) PROVE UNCHANGED <<al_listed, al_taken>>
      BY <2>7 DEF WalkAdvance
    <2>8. ASSUME UNCHANGED alVars PROVE UNCHANGED <<al_listed, al_taken>>
      BY <2>8 DEF alVars
    <2> QED
      BY <2>1, <2>2, <2>3, <2>4, <2>5, <2>6, <2>7, <2>8
         DEF ListNext, PusherStep, TakerStep
  <1> QED
    BY <1>1, <1>2, AtomicListSafe, PTL DEF ListSpec, AtomicBagRefined, Bag!BagSpec
=============================================================================
