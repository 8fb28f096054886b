------------------------------- MODULE Hotplug -------------------------------
(***************************************************************************)
(* The processor hotplug notifiers (khotplug.c): a list of functions under  *)
(* hotplug_lock, and two states of the kernel's hotplug machinery that are  *)
(* set up and removed after the lock was released.                          *)
(*                                                                          *)
(* Each caller registers its function, and later unregisters it.  The       *)
(* kernel is external: it gives each state a new number, and calls the      *)
(* functions of the states that are set up.                                 *)
(***************************************************************************)
EXTENDS Integers, Sequences, SequencesExt, FiniteSets

CONSTANTS
  Notifiers,      \* the functions, each registered by a caller of its own
  MaxStates       \* how many times a state is set up: bounds the run

ASSUME MaxStatesAssumption == MaxStates \in Nat

VARIABLES
  hp_list,        \* notify_list
  hp_init,        \* hotplug_initialized
  hp_pc,          \* per caller: "out", "setup", "setup2", "in", "remove", "remove2"
  hp_on,          \* cpuhp_online_dyn_state; 0 is its initial value
  hp_off,         \* cpuhp_offline_dyn_state
  hp_kernel,      \* the states that are set up
  hp_last,        \* the last number the kernel gave
  hp_overlap      \* history: two callers were past the lock at once, or a setup failed

hpVars == <<hp_list, hp_init, hp_pc, hp_on, hp_off, hp_kernel, hp_last, hp_overlap>>

HotplugInit ==
  /\ hp_list = <<>> /\ hp_init = FALSE
  /\ hp_pc = [f \in Notifiers |-> "out"]
  /\ hp_on = 0 /\ hp_off = 0 /\ hp_kernel = {} /\ hp_last = 0
  /\ hp_overlap = FALSE

PastLock == {f \in Notifiers : hp_pc[f] \notin {"out", "in"}}

GoesPast(f, pc) ==
  /\ hp_pc' = [hp_pc EXCEPT ![f] = pc]
  /\ hp_overlap' = (hp_overlap \/ (pc # "in" /\ pc # "out" /\ PastLock \ {f} # {}))

kfio_register_cpu_notifier(f) ==
  /\ hp_pc[f] = "out"
  /\ hp_list' = Append(hp_list, f)
  /\ hp_init' = TRUE
  /\ GoesPast(f, IF hp_init THEN "in" ELSE "setup")
  /\ UNCHANGED <<hp_on, hp_off, hp_kernel, hp_last>>

\* cpuhp_setup_state_nocalls: its error goes unnoticed into the variable.
SetupState(f) ==
  /\ hp_pc[f] \in {"setup", "setup2"}
  /\ hp_pc' = [hp_pc EXCEPT ![f] = IF @ = "setup" THEN "setup2" ELSE "in"]
  /\ \E s \in {hp_last + 1, -1} :
       /\ IF hp_pc[f] = "setup" THEN hp_off' = s /\ UNCHANGED hp_on ELSE hp_on' = s /\ UNCHANGED hp_off
       /\ hp_kernel' = hp_kernel \cup ({s} \ {-1})
       /\ hp_last' = IF s = -1 THEN hp_last ELSE s
       /\ hp_overlap' = (hp_overlap \/ s = -1)
  /\ hp_last < MaxStates                        \* bound
  /\ UNCHANGED <<hp_list, hp_init>>

\* Mutant of kfio_unregister_cpu_notifier: the flag stays set.
ForgetsToReset(f) ==
  /\ hp_pc[f] = "in"
  /\ hp_list' = RemoveFirst(hp_list, f)
  /\ GoesPast(f, IF hp_list' = <<>> THEN "remove" ELSE "out")
  /\ UNCHANGED <<hp_init, hp_on, hp_off, hp_kernel, hp_last>>

kfio_unregister_cpu_notifier(f) ==
  /\ hp_pc[f] = "in"
  /\ hp_list' = RemoveFirst(hp_list, f)
  /\ IF hp_list' = <<>>
     THEN hp_init' = FALSE /\ GoesPast(f, "remove")
     ELSE UNCHANGED hp_init /\ GoesPast(f, "out")
  /\ UNCHANGED <<hp_on, hp_off, hp_kernel, hp_last>>

RemoveState(f) ==
  /\ hp_pc[f] \in {"remove", "remove2"}
  /\ hp_kernel' = hp_kernel \ {IF hp_pc[f] = "remove" THEN hp_on ELSE hp_off}
  /\ hp_pc' = [hp_pc EXCEPT ![f] = IF @ = "remove" THEN "remove2" ELSE "out"]
  /\ UNCHANGED <<hp_list, hp_init, hp_on, hp_off, hp_last, hp_overlap>>

HotplugNext ==
  \E f \in Notifiers : \/ kfio_register_cpu_notifier(f) \/ SetupState(f)
                       \/ kfio_unregister_cpu_notifier(f) \/ RemoveState(f)

HotplugSpec == HotplugInit /\ [][HotplugNext]_hpVars

HotplugTypeOK ==
  /\ hp_list \in Seq(Notifiers) /\ hp_init \in BOOLEAN
  /\ hp_pc \in [Notifiers -> {"out", "setup", "setup2", "in", "remove", "remove2"}]
  /\ {hp_on, hp_off} \subseteq -1 .. MaxStates /\ hp_kernel \subseteq 1 .. MaxStates
  /\ hp_last \in 0 .. MaxStates /\ hp_overlap \in BOOLEAN

\* As long as no caller is between the lock and the kernel's states while another
\* goes there, and no state could not be set up, the states are set up exactly
\* while somebody is registered, so that a processor's event reaches every
\* registered function (send_event_all) and none after the last has gone
\* (kfio_register_cpu_notifier, kfio_unregister_cpu_notifier).
HotplugArmed ==
  ~hp_overlap =>
     /\ PastLock = {} => hp_kernel = (IF hp_list = <<>> THEN {} ELSE {hp_on, hp_off})
     /\ hp_init = (hp_list # <<>>)
     /\ \A f \in Notifiers : hp_pc[f] = "in" => \E i \in DOMAIN hp_list : hp_list[i] = f
=============================================================================
