--------------------------- MODULE FioStateProofs ----------------------------
(***************************************************************************)
(* Proofs about FioState, for any number of waiters and states, any arc     *)
(* tables and any task signals.                                             *)
(***************************************************************************)
EXTENDS FioState, TLAPS

USE WaitSetsAreStates, StatesNumbered, NoOneIsNoWaiter

\* A setter that found the lock free and ends in __fio_set_state_locked with a
\* state of the machine keeps the invariant: a change wakes everybody.
LEMMA SetterKeepsIInv ==
  ASSUME IInv, lk = NoOne, NEW n \in States, __fio_set_state_locked(n),
         UNCHANGED <<lk, goal>>
  PROVE  IInv'
<1>1. TypeOK'
  BY DEF IInv, TypeOK, __fio_set_state_locked
<1>2. NoMissedState'
  BY DEF IInv, NoMissedState, __fio_set_state_locked
<1>3. StateHeldForWaiter'
  BY DEF StateHeldForWaiter
<1>4. SleepersWait'
  BY DEF IInv, SleepersWait, Idle, __fio_set_state_locked
<1> QED BY <1>1, <1>2, <1>3, <1>4 DEF IInv

\* The head of the wait loop keeps the invariant: the thread either returns in a
\* state it asked for, holding the lock, or sleeps in a state it did not ask for.
LEMMA TestKeepsIInv ==
  ASSUME IInv, lk = NoOne, NEW t \in Waiters, t \notin cv, NEW S \in SUBSET States, S # {},
         TestState(t, S), goal' = [goal EXCEPT ![t] = S], UNCHANGED state
  PROVE  IInv'
<1>1. TypeOK'
  BY DEF IInv, TypeOK, TestState
<1>2. NoMissedState'
  BY DEF IInv, TypeOK, NoMissedState, TestState
<1>3. StateHeldForWaiter'
  BY DEF IInv, TypeOK, StateHeldForWaiter, TestState
<1>4. SleepersWait'
  BY DEF IInv, TypeOK, SleepersWait, Idle, TestState
<1> QED BY <1>1, <1>2, <1>3, <1>4 DEF IInv

\* fio_init_state establishes the invariant.
LEMMA InitIInv == Init => IInv
  BY DEF Init, IInv, TypeOK, NoMissedState, StateHeldForWaiter, SleepersWait, States

\* Each of the five setters keeps the invariant.
LEMMA SettersKeepIInv == IInv /\ Setter => IInv'
<1> SUFFICES ASSUME IInv, Setter PROVE IInv'
  OBVIOUS
<1>q. ASSUME UNCHANGED vars PROVE IInv'
  BY <1>q DEF IInv, TypeOK, NoMissedState, StateHeldForWaiter, SleepersWait, Idle, vars
<1>s. state \in States
  BY DEF IInv, TypeOK
<1>1. CASE \E n \in States : fio_set_state(n)
  BY <1>1, SetterKeepsIInv DEF fio_set_state
<1>2. CASE \E n \in States, from \in FromSets : fio_transition_state_va(n, from)
  BY <1>2, <1>q, SetterKeepsIInv DEF fio_transition_state_va, vars
<1>3. CASE fio_state_up
  <2>1. state + 1 \in States
    BY <1>3, <1>s DEF fio_state_up, States
  <2> QED BY <1>3, <2>1, SetterKeepsIInv DEF fio_state_up
<1>4. CASE fio_state_down
  <2>1. state - 1 \in States
    BY <1>4, <1>s DEF fio_state_down, States
  <2> QED BY <1>4, <2>1, SetterKeepsIInv DEF fio_state_down
<1>5. ASSUME NEW arcs \in ArcTables, fio_state_transition(arcs) PROVE IInv'
  <2>1. CASE UNCHANGED <<state, cv>>
    BY <1>5, <2>1, <1>q DEF fio_state_transition, vars
  <2>2. ASSUME NEW i \in 1..Len(arcs), arcs[i].to # FIO_STATE_SAME,
               __fio_set_state_locked(arcs[i].to)
        PROVE  IInv'
    <3>0. arcs \in Seq([from : SUBSET States, to : States \cup {FIO_STATE_SAME}])
      BY ArcsType
    <3>a. arcs[i] \in [from : SUBSET States, to : States \cup {FIO_STATE_SAME}]
      <4> DEFINE Arc == [from : SUBSET States, to : States \cup {FIO_STATE_SAME}]
      <4>1. arcs \in Seq(Arc)
        BY <3>0
      <4> HIDE DEF Arc
      <4>2. arcs[i] \in Arc
        BY <4>1
      <4> QED BY <4>2 DEF Arc
    <3>1. arcs[i].to \in States
      BY <2>2, <3>a
    <3> QED BY <1>5, <2>2, <3>1, SetterKeepsIInv DEF fio_state_transition
  <2> QED BY <1>5, <2>1, <2>2 DEF fio_state_transition
<1> QED BY <1>1, <1>2, <1>3, <1>4, <1>5 DEF Setter

\* Waiting, waking up, being interrupted and unlocking keep the invariant.
LEMMA WaiterKeepsIInv == \A t \in Waiters : IInv /\ Waiter(t) => IInv'
<1> SUFFICES ASSUME NEW t \in Waiters, IInv, Waiter(t) PROVE IInv'
  OBVIOUS
<1>1. CASE \E S \in WaitSets \ {{}} : fio_wait_on_states(t, S)
  <2>1. PICK S \in WaitSets \ {{}} : fio_wait_on_states(t, S)
    BY <1>1
  <2>2. t \notin cv
    BY <2>1 DEF fio_wait_on_states, IInv, SleepersWait
  <2> QED BY <2>1, <2>2, TestKeepsIInv DEF fio_wait_on_states
<1>2. CASE Wakeup(t)
  <2>1. goal[t] \in SUBSET States /\ goal' = [goal EXCEPT ![t] = goal[t]]
    BY <1>2 DEF Wakeup, IInv, TypeOK
  <2> QED BY <1>2, <2>1, TestKeepsIInv DEF Wakeup, Idle
<1>3. CASE Interrupted(t)
  BY <1>3 DEF Interrupted, IInv, TypeOK, NoMissedState, StateHeldForWaiter, SleepersWait, Idle
<1>4. CASE fio_unlock_state(t)
  <2>1. TypeOK'
    BY <1>4 DEF fio_unlock_state, IInv, TypeOK
  <2>2. t \notin cv
    BY <1>4 DEF fio_unlock_state, IInv, SleepersWait
  <2>3. NoMissedState' /\ StateHeldForWaiter' /\ SleepersWait'
    BY <1>4, <2>2 DEF fio_unlock_state, IInv, TypeOK, NoMissedState, StateHeldForWaiter,
                      SleepersWait, Idle
  <2> QED BY <2>1, <2>3 DEF IInv
<1> QED BY <1>1, <1>2, <1>3, <1>4 DEF Waiter

\* The invariant that waiting and setting rest on holds for any waiters, states
\* and arc tables: types, sleepers and the states they asked for.
THEOREM FioStateInvariant == Spec => []IInv
<1>1. IInv /\ [Next]_vars => IInv'
  <2> SUFFICES ASSUME IInv, [Next]_vars PROVE IInv'
    OBVIOUS
  <2>1. CASE UNCHANGED vars
    BY <2>1 DEF IInv, TypeOK, NoMissedState, StateHeldForWaiter, SleepersWait, Idle, vars
  <2> QED BY <2>1, SettersKeepIInv, WaiterKeepsIInv DEF Next
<1> QED BY InitIInv, <1>1, PTL DEF Spec

\* A waiter never sleeps through its state (the broadcast of
\* __fio_set_state_locked), for any number of waiters and setters.
THEOREM StateMachineSafe == Spec => []NoMissedState
<1>1. IInv => NoMissedState
  BY DEF IInv
<1> QED BY FioStateInvariant, <1>1, PTL

\* A waiter that came back from __fio_wait_on_states keeps the state it was given
\* until it unlocks, whatever the setters do.
THEOREM StateKeptForWaiter == Spec => []StateHeldForWaiter
<1>1. IInv => StateHeldForWaiter
  BY DEF IInv
<1> QED BY FioStateInvariant, <1>1, PTL
=============================================================================
