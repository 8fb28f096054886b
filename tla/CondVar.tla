------------------------------ MODULE CondVar ------------------------------
(***************************************************************************)
(* The spin lock and condition variable wrappers of kfio.c and kcondvar.c. *)
(* The wrapped lock keeps the interrupt state of its holder in the lock    *)
(* itself (flags), and a waiter asks the lock how it was taken in order to *)
(* give it up and take it again the same way.  Every task runs on a CPU of *)
(* its own, which an interrupt may take away from it while interrupts are  *)
(* enabled there.  A lock is used either by tasks only, with the plain     *)
(* operations, or by tasks and interrupt handlers, with the irq ones       *)
(* (the rule of kfio.c:72-78).                                             *)
(***************************************************************************)
EXTENDS Naturals, Sequences, SequencesExt

CONSTANTS CvTasks,      \* the tasks, each on its own CPU
          NoHolder      \* the lock is free

ASSUME NoHolderAssumption == NoHolder \notin CvTasks \X {"task", "handler"}

VARIABLES cv_kind,      \* how the lock is used: "none" yet, "plain" or "irq"
          cv_holder,    \* who holds the lock: <<task, "task" or "handler">>
          cv_flags,     \* ps->flags: NOT_IRQSAVED ("plain"), "on" or "off"
          cv_irq,       \* whether interrupts are enabled on each task's CPU
          cv_outer,     \* whether they were before the task took the lock
          cv_pc,        \* where each task is
          cv_local,     \* the local flags of spin_lock_irqsave
          cv_saved,     \* is_irqsaved, sampled by the wait
          cv_state,     \* the scheduler's state of each task: "run" or "sleep"
          cv_queue,     \* the wait queue, exclusive waiters in order
          cv_handler,   \* the handler running on each task's CPU, if any
          cv_cond       \* the condition: "false", or true and how it was told

cvVars == <<cv_kind, cv_holder, cv_flags, cv_irq, cv_outer, cv_pc, cv_local,
            cv_saved, cv_state, cv_queue, cv_handler, cv_cond>>

lockVars == <<cv_holder, cv_flags>>
waitVars == <<cv_saved, cv_state, cv_queue>>

Irq(on) == IF on THEN "on" ELSE "off"

CvInit ==
    /\ cv_kind = "none"
    /\ cv_holder = NoHolder
    /\ cv_flags = "off"
    /\ cv_irq = [t \in CvTasks |-> TRUE]
    /\ cv_outer = [t \in CvTasks |-> TRUE]
    /\ cv_pc = [t \in CvTasks |-> "idle"]
    /\ cv_local = [t \in CvTasks |-> "off"]
    /\ cv_saved = [t \in CvTasks |-> FALSE]
    /\ cv_state = [t \in CvTasks |-> "run"]
    /\ cv_queue = << >>
    /\ cv_handler = [t \in CvTasks |-> "none"]
    /\ cv_cond = "false"

(* fusion_init_spin leaves flags as the zeroed memory had it. *)
fusion_init_spin(kind) ==
    /\ cv_kind = "none"
    /\ cv_kind' = kind
    /\ UNCHANGED <<lockVars, cv_irq, cv_outer, cv_pc, cv_local, waitVars, cv_handler, cv_cond>>

(* A task does not run while a handler has its CPU. *)
At(t, pc) == cv_kind # "none" /\ cv_pc[t] = pc /\ cv_handler[t] = "none"

Goto(t, pc) == cv_pc' = [cv_pc EXCEPT ![t] = pc]

(* The code around the lock may have interrupts disabled already. *)
OuterIrq(t) ==
    /\ At(t, "idle")
    /\ cv_irq' = [cv_irq EXCEPT ![t] = ~cv_irq[t]]
    /\ cv_outer' = [cv_outer EXCEPT ![t] = ~cv_irq[t]]
    /\ UNCHANGED <<cv_kind, lockVars, cv_pc, cv_local, waitVars, cv_handler, cv_cond>>

(* fusion_spin_lock; fusion_spin_trylock when it succeeds.  The same code  *)
(* takes the lock again at the end of a wait.                              *)
fusion_spin_lock(t, from, to) ==
    /\ At(t, from)
    /\ cv_holder = NoHolder
    /\ cv_holder' = <<t, "task">>
    /\ cv_flags' = "plain"
    /\ Goto(t, to)
    /\ UNCHANGED <<cv_kind, cv_irq, cv_outer, cv_local, waitVars, cv_handler, cv_cond>>

(* spin_lock_irqsave(&ps->lock, ps->flags): the lock's own word is written *)
(* before the lock is held.                                                *)
SaveIntoTheLock(t, from, to) ==
    /\ At(t, from)
    /\ cv_local' = [cv_local EXCEPT ![t] = Irq(cv_irq[t])]
    /\ cv_flags' = Irq(cv_irq[t])
    /\ cv_irq' = [cv_irq EXCEPT ![t] = FALSE]
    /\ Goto(t, to)
    /\ UNCHANGED <<cv_kind, cv_holder, cv_outer, waitVars, cv_handler, cv_cond>>

(* spin_lock_irqsave first saves and disables interrupts, in a local word. *)
IrqSave(t, from, to) ==
    /\ At(t, from)
    /\ cv_local' = [cv_local EXCEPT ![t] = Irq(cv_irq[t])]
    /\ cv_irq' = [cv_irq EXCEPT ![t] = FALSE]
    /\ Goto(t, to)
    /\ UNCHANGED <<cv_kind, lockVars, cv_outer, waitVars, cv_handler, cv_cond>>

(* ps->flags is written only when the lock is held. *)
IrqSaveLocked(t, from, to) ==
    /\ At(t, from)
    /\ cv_holder = NoHolder
    /\ cv_holder' = <<t, "task">>
    /\ cv_flags' = cv_local[t]
    /\ Goto(t, to)
    /\ UNCHANGED <<cv_kind, cv_irq, cv_outer, cv_local, waitVars, cv_handler, cv_cond>>

(* fusion_spin_trylock_irqsave finds the lock taken and restores at once. *)
TrylockFails(t) ==
    /\ At(t, "spin")
    /\ cv_holder # NoHolder
    /\ cv_irq' = [cv_irq EXCEPT ![t] = (cv_local[t] = "on")]
    /\ Goto(t, "idle")
    /\ UNCHANGED <<cv_kind, lockVars, cv_outer, cv_local, waitVars, cv_handler, cv_cond>>

(* fusion_spin_unlock, or fusion_spin_unlock_irqrestore with ps->flags. *)
Unlock(t, restore, from, to) ==
    /\ At(t, from)
    /\ cv_holder' = NoHolder
    /\ cv_irq' = IF restore THEN [cv_irq EXCEPT ![t] = (cv_flags = "on")] ELSE cv_irq
    /\ Goto(t, to)
    /\ UNCHANGED <<cv_kind, cv_flags, cv_outer, cv_local, waitVars, cv_handler, cv_cond>>

LockByUse(t) ==
    \/ cv_kind = "plain" /\ cv_outer[t] /\ fusion_spin_lock(t, "idle", "hold")
    \/ cv_kind = "irq" /\ IrqSave(t, "idle", "spin")
    \/ IrqSaveLocked(t, "spin", "hold")
    \/ TrylockFails(t)

UnlockByUse(t) == Unlock(t, cv_kind = "irq", "hold", "idle")

(* A waiter that gives the lock up before it is in the queue. *)
UnlocksFirst(t) ==
    /\ At(t, "hold")
    /\ cv_outer[t]
    /\ cv_cond = "false"
    /\ cv_saved' = [cv_saved EXCEPT ![t] = cv_flags # "plain"]
    /\ cv_holder' = NoHolder
    /\ cv_irq' = [cv_irq EXCEPT ![t] = cv_flags # "off"]
    /\ cv_state' = [cv_state EXCEPT ![t] = "sleep"]
    /\ Goto(t, "asleep")
    /\ UNCHANGED <<cv_kind, cv_flags, cv_outer, cv_local, cv_queue, cv_handler, cv_cond>>

(* fusion_condvar_wait and the timed waits: ask the lock how it was taken, *)
(* join the queue, and only then give the lock up.  The caller loops while *)
(* the condition is false, and does not sleep with interrupts disabled.    *)
PrepareToWait(t) ==
    /\ At(t, "hold")
    /\ cv_outer[t]
    /\ cv_cond = "false"
    /\ cv_saved' = [cv_saved EXCEPT ![t] = cv_flags # "plain"]
    /\ cv_queue' = Append(cv_queue, t)
    /\ cv_state' = [cv_state EXCEPT ![t] = "sleep"]
    /\ Goto(t, "prepared")
    /\ UNCHANGED <<cv_kind, lockVars, cv_irq, cv_outer, cv_local, cv_handler, cv_cond>>

WaitUnlock(t) == Unlock(t, cv_saved[t], "prepared", "asleep")

(* The timeout, or a signal sent to the task: it runs again, and is still  *)
(* in the queue.                                                           *)
WakeUnasked(t) ==
    /\ At(t, "asleep")
    /\ cv_state[t] = "sleep"
    /\ cv_state' = [cv_state EXCEPT ![t] = "run"]
    /\ UNCHANGED <<cv_kind, lockVars, cv_irq, cv_outer, cv_pc, cv_local, cv_saved, cv_queue,
                   cv_handler, cv_cond>>

Relock(t) ==
    /\ cv_state[t] = "run"
    /\ IF cv_saved[t] THEN IrqSave(t, "asleep", "respin")
                      ELSE fusion_spin_lock(t, "asleep", "relocked")

RelockIrq(t) == IrqSaveLocked(t, "respin", "relocked")

(* finish_wait: out of the queue, when no wake-up took the task out. *)
FinishWait(t) ==
    /\ At(t, "relocked")
    /\ cv_queue' = RemoveFirst(cv_queue, t)
    /\ Goto(t, "hold")
    /\ UNCHANGED <<cv_kind, lockVars, cv_irq, cv_outer, cv_local, cv_saved, cv_state,
                   cv_handler, cv_cond>>

(* wake_up passes over the tasks that run already, and takes out of the    *)
(* queue the ones it wakes: the first one, or all.                         *)
Woken(all) ==
    LET asleep == {i \in DOMAIN cv_queue : cv_state[cv_queue[i]] = "sleep"}
    IN  IF all THEN {cv_queue[i] : i \in asleep}
               ELSE {cv_queue[i] : i \in {j \in asleep : \A k \in asleep : j <= k}}

(* The walk over the queue leaves the others where they are. *)
StillQueued(woken) ==
    LET kept[i \in 0..Len(cv_queue)] ==
          IF i = 0 THEN << >>
          ELSE IF cv_queue[i] \in woken THEN kept[i - 1]
          ELSE Append(kept[i - 1], cv_queue[i])
    IN  kept[Len(cv_queue)]

Wake(all) ==
    /\ cv_state' = [t \in CvTasks |-> IF t \in Woken(all) THEN "run" ELSE cv_state[t]]
    /\ cv_queue' = StillQueued(Woken(all))

(* The holder changes the condition and tells the waiters, lock in hand:   *)
(* fusion_condvar_signal or fusion_condvar_broadcast.                      *)
Tell(all) ==
    /\ cv_cond' = IF all THEN "broadcast" ELSE "signalled"
    /\ Wake(all)

TaskTells(t, all) ==
    /\ At(t, "hold")
    /\ Tell(all)
    /\ UNCHANGED <<cv_kind, lockVars, cv_irq, cv_outer, cv_pc, cv_local, cv_saved, cv_handler>>

TaskClears(t) ==
    /\ At(t, "hold")
    /\ cv_cond # "false"
    /\ cv_cond' = "false"
    /\ UNCHANGED <<cv_kind, lockVars, cv_irq, cv_outer, cv_pc, cv_local, waitVars, cv_handler>>

(* An interrupt disables interrupts on the CPU it takes. *)
Interrupt(t) ==
    /\ cv_kind = "irq"
    /\ cv_irq[t] /\ cv_handler[t] = "none"
    /\ cv_handler' = [cv_handler EXCEPT ![t] = "spin"]
    /\ cv_irq' = [cv_irq EXCEPT ![t] = FALSE]
    /\ UNCHANGED <<cv_kind, lockVars, cv_outer, cv_pc, cv_local, waitVars, cv_cond>>

(* fusion_spin_lock_irqsave in a handler, and fusion_spin_lock_irqdisabled *)
(* which leaves flags to the previous holder.                              *)
HandlerLock(t) ==
    /\ cv_handler[t] = "spin"
    /\ cv_holder = NoHolder
    /\ cv_holder' = <<t, "handler">>
    /\ \/ /\ cv_flags' = Irq(cv_irq[t])
          /\ cv_handler' = [cv_handler EXCEPT ![t] = "saved"]
       \/ /\ cv_handler' = [cv_handler EXCEPT ![t] = "disabled"]
          /\ UNCHANGED cv_flags
    /\ UNCHANGED <<cv_kind, cv_irq, cv_outer, cv_pc, cv_local, waitVars, cv_cond>>

HandlerTells(t, all) ==
    /\ cv_handler[t] \in {"saved", "disabled"}
    /\ Tell(all)
    /\ UNCHANGED <<cv_kind, lockVars, cv_irq, cv_outer, cv_pc, cv_local, cv_saved, cv_handler>>

HandlerUnlock(t) ==
    /\ cv_handler[t] \in {"saved", "disabled"}
    /\ cv_holder' = NoHolder
    /\ cv_irq' = IF cv_handler[t] = "saved" THEN [cv_irq EXCEPT ![t] = (cv_flags = "on")] ELSE cv_irq
    /\ cv_handler' = [cv_handler EXCEPT ![t] = "return"]
    /\ UNCHANGED <<cv_kind, cv_flags, cv_outer, cv_pc, cv_local, waitVars, cv_cond>>

(* The return from the interrupt enables interrupts again. *)
InterruptReturn(t) ==
    /\ cv_handler[t] = "return"
    /\ cv_handler' = [cv_handler EXCEPT ![t] = "none"]
    /\ cv_irq' = [cv_irq EXCEPT ![t] = TRUE]
    /\ UNCHANGED <<cv_kind, lockVars, cv_outer, cv_pc, cv_local, waitVars, cv_cond>>

CvNext ==
    \/ \E kind \in {"plain", "irq"} : fusion_init_spin(kind)
    \/ \E t \in CvTasks :
         \/ OuterIrq(t) \/ LockByUse(t) \/ UnlockByUse(t)
         \/ PrepareToWait(t) \/ WaitUnlock(t) \/ WakeUnasked(t)
         \/ Relock(t) \/ RelockIrq(t) \/ FinishWait(t) \/ TaskClears(t)
         \/ Interrupt(t) \/ HandlerLock(t) \/ HandlerUnlock(t) \/ InterruptReturn(t)
         \/ \E all \in BOOLEAN : TaskTells(t, all) \/ HandlerTells(t, all)

CvSpec == CvInit /\ [][CvNext]_cvVars

CvTypeOK ==
    /\ cv_kind \in {"none", "plain", "irq"}
    /\ cv_holder \in (CvTasks \X {"task", "handler"}) \cup {NoHolder}
    /\ cv_flags \in {"plain", "on", "off"}
    /\ cv_irq \in [CvTasks -> BOOLEAN]
    /\ cv_outer \in [CvTasks -> BOOLEAN]
    /\ cv_pc \in [CvTasks -> {"idle", "spin", "hold", "prepared", "asleep", "respin", "relocked"}]
    /\ cv_local \in [CvTasks -> {"on", "off"}]
    /\ cv_saved \in [CvTasks -> BOOLEAN]
    /\ cv_state \in [CvTasks -> {"run", "sleep"}]
    /\ cv_queue \in Seq(CvTasks)
    /\ cv_handler \in [CvTasks -> {"none", "spin", "saved", "disabled", "return"}]
    /\ cv_cond \in {"false", "signalled", "broadcast"}

(* Whatever other CPU takes, tries or gives up the lock meanwhile, a task  *)
(* that has given the lock up finds the interrupt state it had before, and *)
(* a task that sleeps does so with interrupts enabled and the lock free of *)
(* it (kfio.c:129-166, kcondvar.c:127-208).                                *)
IrqStateKept ==
    \A t \in CvTasks : cv_handler[t] = "none" =>
      /\ cv_pc[t] = "idle" => cv_irq[t] = cv_outer[t]
      /\ cv_pc[t] = "asleep" => cv_irq[t] /\ cv_holder # <<t, "task">>

(* A handler never spins for a lock that the task it interrupted holds. *)
NoSelfDeadlock ==
    \A t \in CvTasks : cv_handler[t] = "spin" => cv_holder # <<t, "task">>

(* Once the condition was announced to everybody, no waiter sleeps on:     *)
(* joining the queue under the lock closes the gap between the test of the *)
(* condition and the sleep (kcondvar.c:133-147).                           *)
WakeNotLost ==
    cv_cond = "broadcast" =>
        \A t \in CvTasks : ~(cv_pc[t] = "asleep" /\ cv_state[t] = "sleep")

(* The condition variable is sound: interrupt state kept, no handler       *)
(* spinning against its own CPU, no wake-up lost.                          *)
CondVarSound == IrqStateKept /\ NoSelfDeadlock /\ WakeNotLost
=============================================================================
