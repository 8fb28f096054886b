----------------------------- MODULE ControlDev -----------------------------
(***************************************************************************)
(* The control character device (cdev.c): created as a misc device, opened *)
(* by minor number, polled by user programs for events that the core       *)
(* library raises, and read with an ioctl.  The core library's own part    *)
(* (its list of devices, the alert flag, the ioctls) is external and       *)
(* modelled from how cdev.c calls it.                                      *)
(***************************************************************************)
EXTENDS Naturals, FiniteSets

CONSTANTS CdevFiles,     \* the open files of user programs
          DevWaitLimit   \* fio_dev_wait_timeout_secs * 10

ASSUME DevWaitAssumption == DevWaitLimit \in Nat

VARIABLES cd_create,     \* where creation is: "none", "made", "waiting", "ready"
          cd_misc,       \* the misc device is registered: its minor can be opened
          cd_handle,     \* *handlep is set: the core library finds the device
          cd_node,       \* udev has created the device file
          cd_i,          \* the count of coms_wait_for_dev
          cd_alert,      \* coms_cdev_is_alerted
          cd_raised,     \* events raised whose wake-up is still to come
          cd_open,       \* whether each file is open
          cd_poll,       \* where each file's poll call is
          cd_waiting     \* the files on the poll queue, sleeping or not

cdVars == <<cd_create, cd_misc, cd_handle, cd_node, cd_i, cd_alert, cd_raised,
            cd_open, cd_poll, cd_waiting>>

createVars == <<cd_create, cd_misc, cd_handle, cd_node, cd_i>>
pollVars   == <<cd_open, cd_poll, cd_waiting>>

CdevInit ==
    /\ cd_create = "none"
    /\ cd_misc = FALSE /\ cd_handle = FALSE /\ cd_node = FALSE
    /\ cd_i = 0
    /\ cd_alert = FALSE
    /\ cd_raised = FALSE
    /\ cd_open = [f \in CdevFiles |-> FALSE]
    /\ cd_poll = [f \in CdevFiles |-> "idle"]
    /\ cd_waiting = {}

(* coms_port_cdev_create: misc_register publishes the minor, or fails and  *)
(* the device is freed again.                                              *)
coms_port_cdev_create ==
    /\ cd_create = "none"
    /\ \/ /\ cd_misc' = TRUE
          /\ cd_create' = "made"
       \/ UNCHANGED <<cd_misc, cd_create>>
    /\ UNCHANGED <<cd_handle, cd_node, cd_i, cd_alert, cd_raised, pollVars>>

(* Creation that waits for the device file before it hands the device out. *)
WaitsBeforeHandle ==
    /\ cd_create = "made"
    /\ cd_create' = "waiting"
    /\ cd_i' = 0
    /\ UNCHANGED <<cd_misc, cd_handle, cd_node, cd_alert, cd_raised, pollVars>>

(* *handlep = md, and only then the wait for udev. *)
SetHandle ==
    /\ cd_create = "made"
    /\ cd_handle' = TRUE
    /\ cd_create' = "waiting"
    /\ cd_i' = 0
    /\ UNCHANGED <<cd_misc, cd_node, cd_alert, cd_raised, pollVars>>

(* udev creates the device file of a registered device, at its own pace. *)
UdevCreatesNode ==
    /\ cd_misc /\ ~cd_node
    /\ cd_node' = TRUE
    /\ UNCHANGED <<cd_create, cd_misc, cd_handle, cd_i, cd_alert, cd_raised, pollVars>>

(* coms_wait_for_dev: 100 ms at a time until the file is there or the      *)
(* limit is reached; a timeout is only reported.  The lookup is asked for  *)
(* the parent (LOOKUP_PARENT): it depends on the kernel whether it looks   *)
(* for the file or only for its directory, which is there.                 *)
coms_wait_for_dev ==
    /\ cd_create = "waiting"
    /\ \E found \in {cd_node, TRUE} :
         IF ~found /\ cd_i < DevWaitLimit
         THEN cd_i' = cd_i + 1 /\ UNCHANGED cd_create
         ELSE cd_create' = "ready" /\ UNCHANGED cd_i
    /\ UNCHANGED <<cd_misc, cd_handle, cd_node, cd_alert, cd_raised, pollVars>>

(* coms_port_cdev_destroy, when no file is open on the device. *)
coms_port_cdev_destroy ==
    /\ cd_create = "ready"
    /\ \A f \in CdevFiles : ~cd_open[f]
    /\ cd_create' = "none"
    /\ cd_misc' = FALSE /\ cd_handle' = FALSE /\ cd_node' = FALSE
    /\ cd_i' = 0
    /\ cd_alert' = FALSE
    /\ cd_raised' = FALSE
    /\ UNCHANGED pollVars

(* coms_control_open enumerates the devices the core library has a handle  *)
(* for: an open that comes before the handle is set finds none (-ENODEV).  *)
coms_control_open(f) ==
    /\ cd_misc /\ ~cd_open[f]
    /\ cd_open' = [cd_open EXCEPT ![f] = cd_handle]
    /\ UNCHANGED <<createVars, cd_alert, cd_raised, cd_poll, cd_waiting>>

coms_control_release(f) ==
    /\ cd_open[f] /\ cd_poll[f] = "idle"
    /\ cd_open' = [cd_open EXCEPT ![f] = FALSE]
    /\ UNCHANGED <<createVars, cd_alert, cd_raised, cd_poll, cd_waiting>>

(* A poll that tests the flag before the file is on the queue. *)
PollQueuesLate(f) ==
    /\ \/ /\ cd_open[f] /\ cd_poll[f] = "idle"
          /\ ~cd_alert
          /\ cd_poll' = [cd_poll EXCEPT ![f] = "late"]
          /\ UNCHANGED cd_waiting
       \/ /\ cd_poll[f] = "late"
          /\ cd_waiting' = cd_waiting \cup {f}
          /\ cd_poll' = [cd_poll EXCEPT ![f] = "asleep"]
    /\ UNCHANGED <<createVars, cd_alert, cd_raised, cd_open>>

(* coms_control_ioctl_poll puts the file on the queue ... *)
PollWait(f) ==
    /\ cd_open[f] /\ cd_poll[f] = "idle"
    /\ cd_waiting' = cd_waiting \cup {f}
    /\ cd_poll' = [cd_poll EXCEPT ![f] = "check"]
    /\ UNCHANGED <<createVars, cd_alert, cd_raised, cd_open>>

(* ... and then looks at the flag; without an event the program sleeps. *)
PollCheck(f) ==
    /\ cd_poll[f] = "check"
    /\ IF cd_alert
         THEN /\ cd_poll' = [cd_poll EXCEPT ![f] = "idle"]
              /\ cd_waiting' = cd_waiting \ {f}
         ELSE /\ cd_poll' = [cd_poll EXCEPT ![f] = "asleep"]
              /\ UNCHANGED cd_waiting
    /\ UNCHANGED <<createVars, cd_alert, cd_raised, cd_open>>

(* The poll call of the program times out. *)
PollTimeout(f) ==
    /\ cd_poll[f] = "asleep"
    /\ cd_poll' = [cd_poll EXCEPT ![f] = "idle"]
    /\ cd_waiting' = cd_waiting \ {f}
    /\ UNCHANGED <<createVars, cd_alert, cd_raised, cd_open>>

(* The core library raises an event and then calls coms_port_cdev_wake. *)
RaiseAlert ==
    /\ cd_handle /\ ~cd_alert
    /\ cd_alert' = TRUE
    /\ cd_raised' = TRUE
    /\ UNCHANGED <<createVars, pollVars>>

(* wake_up_all: everybody on the queue polls again, and stays on it. *)
coms_port_cdev_wake ==
    /\ cd_raised
    /\ cd_raised' = FALSE
    /\ cd_poll' = [f \in CdevFiles |->
                     IF f \in cd_waiting /\ cd_poll[f] = "asleep" THEN "check" ELSE cd_poll[f]]
    /\ UNCHANGED <<createVars, cd_alert, cd_open, cd_waiting>>

(* coms_control_ioctl_internal: the ioctl fetches the event. *)
coms_control_ioctl(f) ==
    /\ cd_open[f] /\ cd_poll[f] = "idle"
    /\ cd_alert' = FALSE
    /\ UNCHANGED <<createVars, cd_raised, pollVars>>

CdevNext ==
    \/ coms_port_cdev_create \/ SetHandle \/ UdevCreatesNode
    \/ coms_wait_for_dev \/ coms_port_cdev_destroy
    \/ RaiseAlert \/ coms_port_cdev_wake
    \/ \E f \in CdevFiles :
         \/ coms_control_open(f) \/ coms_control_release(f) \/ coms_control_ioctl(f)
         \/ PollWait(f) \/ PollCheck(f) \/ PollTimeout(f)

CdevSpec == CdevInit /\ [][CdevNext]_cdVars

CdevTypeOK ==
    /\ cd_create \in {"none", "made", "waiting", "ready"}
    /\ {cd_misc, cd_handle, cd_node, cd_alert, cd_raised} \subseteq BOOLEAN
    /\ cd_i \in 0..DevWaitLimit
    /\ cd_open \in [CdevFiles -> BOOLEAN]
    /\ cd_poll \in [CdevFiles -> {"idle", "check", "asleep", "late"}]
    /\ cd_waiting \in SUBSET CdevFiles

(* No event is slept through: a program that sleeps in poll while an event *)
(* is there is on the queue that a wake-up still to come will wake, even   *)
(* when the event came between the two steps of its poll, or another       *)
(* program fetched an earlier one (cdev.c:54-70, 137-140).  And when       *)
(* creation returns, the device can be opened (cdev.c:180-183).            *)
PollNotLost ==
    /\ \A f \in CdevFiles : cd_poll[f] = "asleep" /\ cd_alert => cd_raised /\ f \in cd_waiting
    /\ cd_create \in {"waiting", "ready"} => cd_misc /\ cd_handle
=============================================================================
