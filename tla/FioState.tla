------------------------------ MODULE FioState -------------------------------
(***************************************************************************)
(* The waitable state variable fio_state_t of state.c and state.h: a number, *)
(* a lock and a condition variable.  fio_wait_on_state(s) returns with the   *)
(* lock still held; the caller gives it back with fio_unlock_state.  Setters *)
(* hold the lock only inside one call, so each is one atomic action that     *)
(* needs the lock free.                                                     *)
(***************************************************************************)
EXTENDS Integers, Sequences, FiniteSets

CONSTANTS
  Waiters,      \* threads that wait for states
  WaitSets,     \* the sets of states they wait for
  MaxState,     \* states are 0 (FIO_STATE_INVALID) .. MaxState
  FromSets,     \* the "allowed from" lists of fio_transition_state
  ArcTables,    \* arc tables: sequences of [from, to], first match counts
  NoOne         \* the lock is free

States == 0..MaxState

FIO_STATE_SAME == -1

ASSUME WaitSetsAreStates == WaitSets \subseteq SUBSET States
ASSUME StatesNumbered == MaxState \in Nat
ASSUME NoOneIsNoWaiter == NoOne \notin Waiters
ASSUME ArcsType ==
  \A arcs \in ArcTables :
    arcs \in Seq([from : SUBSET States, to : States \cup {FIO_STATE_SAME}])

VARIABLES
  state,      \* s->state
  lk,         \* the waiter that returned from fio_wait_on_state(s) and not unlocked yet
  cv,         \* threads asleep on s->cv
  goal        \* the set a thread inside fio_wait_on_state(s), or past it, asked for

vars == <<state, lk, cv, goal>>

Idle(t) == goal[t] = {}

Init ==
  /\ state \in States \ {0}
  /\ lk = NoOne
  /\ cv = {}
  /\ goal = [t \in Waiters |-> {}]

\* Mutant of __fio_set_state_locked: one waiter is woken, not all.
SetStateSignalsOne(new_state) ==
  /\ state' = new_state
  /\ IF new_state = state \/ cv = {} THEN cv' = cv
     ELSE \E t \in cv : cv' = cv \ {t}

\* Assign, and wake everybody if that changed the state.
__fio_set_state_locked(new_state) ==
  /\ state' = new_state
  /\ cv' = IF new_state = state THEN cv ELSE {}

fio_set_state(new_state) ==
  /\ lk = NoOne
  /\ __fio_set_state_locked(new_state)
  /\ UNCHANGED <<lk, goal>>

\* nold = 0 stands for "from any state but new_state".
fio_transition_state_va(new_state, from) ==
  /\ lk = NoOne
  /\ \/ /\ IF from = {} THEN state # new_state ELSE state \in from
        /\ __fio_set_state_locked(new_state)
     \/ /\ IF from = {} THEN state = new_state ELSE state \notin from
        /\ UNCHANGED <<state, cv>>
  /\ UNCHANGED <<lk, goal>>

fio_state_up ==
  /\ lk = NoOne
  /\ state < MaxState
  /\ __fio_set_state_locked(state + 1)
  /\ UNCHANGED <<lk, goal>>

fio_state_down ==
  /\ lk = NoOne
  /\ state > 0
  /\ __fio_set_state_locked(state - 1)
  /\ UNCHANGED <<lk, goal>>

\* The first arc of the table whose mask holds the state decides.
fio_state_transition(arcs) ==
  LET match(i) == state \in arcs[i].from /\ \A j \in 1..(i - 1) : state \notin arcs[j].from
  IN  /\ lk = NoOne
      /\ \/ \E i \in 1..Len(arcs) :
              /\ match(i)
              /\ arcs[i].to # FIO_STATE_SAME
              /\ __fio_set_state_locked(arcs[i].to)
         \/ /\ \A i \in 1..Len(arcs) : match(i) => arcs[i].to = FIO_STATE_SAME
            /\ UNCHANGED <<state, cv>>
      /\ UNCHANGED <<lk, goal>>

\* Mutant of TestState: one test is enough, a woken thread returns.
TestStateOnce(t, states) ==
  \/ /\ \/ state \in states
        \/ goal[t] # {}
     /\ lk' = t
     /\ UNCHANGED cv
  \/ /\ state \notin states
     /\ goal[t] = {}
     /\ cv' = cv \cup {t}
     /\ UNCHANGED lk

\* The head of the wait loop, with the lock just taken: return holding it, or
\* release it and sleep.
TestState(t, states) ==
  \/ /\ state \in states
     /\ lk' = t
     /\ UNCHANGED cv
  \/ /\ state \notin states
     /\ cv' = cv \cup {t}
     /\ UNCHANGED lk

fio_wait_on_states(t, states) ==
  /\ Idle(t)
  /\ lk = NoOne
  /\ goal' = [goal EXCEPT ![t] = states]
  /\ TestState(t, states)
  /\ UNCHANGED state

Wakeup(t) ==
  /\ ~Idle(t)
  /\ t \notin cv
  /\ lk = NoOne
  /\ TestState(t, goal[t])
  /\ UNCHANGED <<state, goal>>

\* fusion_condvar_wait sleeps TASK_INTERRUPTIBLE: a task signal ends the sleep.
Interrupted(t) ==
  /\ t \in cv
  /\ cv' = cv \ {t}
  /\ UNCHANGED <<state, lk, goal>>

fio_unlock_state(t) ==
  /\ lk = t
  /\ lk' = NoOne
  /\ goal' = [goal EXCEPT ![t] = {}]
  /\ UNCHANGED <<state, cv>>

Setter ==
  \/ \E n \in States : fio_set_state(n)
  \/ \E n \in States, from \in FromSets : fio_transition_state_va(n, from)
  \/ fio_state_up
  \/ fio_state_down
  \/ \E arcs \in ArcTables : fio_state_transition(arcs)

Waiter(t) ==
  \/ \E states \in WaitSets \ {{}} : fio_wait_on_states(t, states)
  \/ Wakeup(t)
  \/ Interrupted(t)
  \/ fio_unlock_state(t)

Next == Setter \/ \E t \in Waiters : Waiter(t)

Spec == Init /\ [][Next]_vars

\* The spin lock is a queued one: a woken thread that keeps finding it free for
\* a moment gets it (strong fairness); a caller that got it gives it back.
Fairness ==
  \A t \in Waiters : SF_vars(Wakeup(t)) /\ WF_vars(fio_unlock_state(t))

FairSpec == Spec /\ Fairness
-----------------------------------------------------------------------------
(* Properties *)

TypeOK ==
  /\ state \in States
  /\ lk \in Waiters \cup {NoOne}
  /\ cv \subseteq Waiters
  /\ goal \in [Waiters -> SUBSET States]

\* Nobody sleeps through the state it waits for, although a setter wakes only on
\* a change and every setter has its own path to the assignment.
NoMissedState == \A t \in cv : state \notin goal[t]

\* The caller that fio_wait_on_state(s) returned to still sees the state it asked
\* for, up to its fio_unlock_state, whatever setters run meanwhile.
StateHeldForWaiter == \A t \in Waiters : lk = t => state \in goal[t]

\* A sleeper is inside the wait loop and does not hold the lock.
SleepersWait == \A t \in cv : ~Idle(t) /\ lk # t

\* The inductive invariant of the proofs.
IInv == TypeOK /\ NoMissedState /\ StateHeldForWaiter /\ SleepersWait

\* A waiter does not stay in the loop while the state stays what it asked for.
WaiterReturns ==
  \A t \in Waiters : ~<>[](~Idle(t) /\ lk # t /\ state \in goal[t])
=============================================================================
