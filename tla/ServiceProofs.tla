---------------------------- MODULE ServiceProofs ----------------------------
(***************************************************************************)
(* Proofs about the services around the block device: the control device,  *)
(* loading and unloading the driver, the hotplug notifiers, the SCSI host, *)
(* and the tree of information nodes with its files, for any number of     *)
(* files, devices, notifiers, hosts, logical units, commands, nodes and    *)
(* readers.                                                                *)
(***************************************************************************)
EXTENDS ControlDev, DriverLoad, Hotplug, ScsiHost, KinfoTree, KinfoFile, SequenceLemmas, FiniteSetTheorems, TLAPS

-----------------------------------------------------------------------------
(* The control device *)

(* A file whose poll call is under way is on the poll queue, and a device  *)
(* that was made is registered.                                            *)
PollQueued ==
    /\ \A f \in CdevFiles : cd_poll[f] \in {"check", "asleep"} => f \in cd_waiting
    /\ cd_create = "made" => cd_misc

CdevIInv == CdevTypeOK /\ PollNotLost /\ PollQueued

(* At load no device file exists and nobody polls one. *)
LEMMA CdevInitInv == CdevInit => CdevIInv
  <1> SUFFICES ASSUME CdevInit PROVE CdevIInv
    OBVIOUS
  <1>1. cd_i \in 0..DevWaitLimit
    BY DevWaitAssumption DEF CdevInit
  <1>2. {cd_misc, cd_handle, cd_node, cd_alert, cd_raised} \subseteq BOOLEAN
    BY Zenon DEF CdevInit
  <1> QED
    BY <1>1, <1>2 DEF CdevInit, CdevIInv, CdevTypeOK, PollNotLost, PollQueued

(* The creation of the control device, the wait for its file and its       *)
(* destruction keep the invariant (coms_port_cdev_create,                  *)
(* coms_wait_for_dev, coms_port_cdev_destroy).                             *)
LEMMA CdevCreateSteps ==
    ASSUME CdevIInv,
           coms_port_cdev_create \/ SetHandle \/ UdevCreatesNode
             \/ coms_wait_for_dev \/ coms_port_cdev_destroy
    PROVE  CdevIInv'
  <1> USE DevWaitAssumption DEF CdevIInv, CdevTypeOK, PollNotLost, PollQueued, pollVars
  <1>1. CASE coms_port_cdev_create
    BY <1>1 DEF coms_port_cdev_create
  <1>2. CASE SetHandle
    BY <1>2 DEF SetHandle
  <1>3. CASE UdevCreatesNode
    BY <1>3 DEF UdevCreatesNode
  <1>4. CASE coms_wait_for_dev
    BY <1>4 DEF coms_wait_for_dev
  <1>5. CASE coms_port_cdev_destroy
    <2>1. cd_i' \in 0..DevWaitLimit
      BY <1>5 DEF coms_port_cdev_destroy
    <2>2. {cd_misc, cd_handle, cd_node, cd_alert, cd_raised}' \subseteq BOOLEAN
      BY <1>5, Zenon DEF coms_port_cdev_destroy
    <2> QED
      BY <1>5, <2>1, <2>2 DEF coms_port_cdev_destroy
  <1> QED
    BY <1>1, <1>2, <1>3, <1>4, <1>5

(* So do the calls of the programs, in any order (coms_control_open,       *)
(* coms_control_ioctl_poll, coms_control_release).                         *)
LEMMA CdevFileSteps ==
    ASSUME CdevIInv, NEW f \in CdevFiles,
           coms_control_open(f) \/ coms_control_release(f) \/ coms_control_ioctl(f)
             \/ PollWait(f) \/ PollCheck(f) \/ PollTimeout(f)
    PROVE  CdevIInv'
  <1> USE DevWaitAssumption DEF CdevIInv, CdevTypeOK, PollNotLost, PollQueued, pollVars, createVars
  <1>1. CASE coms_control_open(f)
    BY <1>1 DEF coms_control_open
  <1>2. CASE coms_control_release(f)
    BY <1>2 DEF coms_control_release
  <1>3. CASE coms_control_ioctl(f)
    BY <1>3 DEF coms_control_ioctl
  <1>4. CASE PollWait(f)
    BY <1>4 DEF PollWait
  <1>5. CASE PollCheck(f)
    BY <1>5 DEF PollCheck
  <1>6. CASE PollTimeout(f)
    BY <1>6 DEF PollTimeout
  <1> QED
    BY <1>1, <1>2, <1>3, <1>4, <1>5, <1>6

(* Every step of the control device keeps the invariant. *)
LEMMA CdevNextInv == CdevIInv /\ [CdevNext]_cdVars => CdevIInv'
  <1> SUFFICES ASSUME CdevIInv, [CdevNext]_cdVars PROVE CdevIInv'
    OBVIOUS
  <1>1. CASE RaiseAlert
    BY <1>1 DEF RaiseAlert, CdevIInv, CdevTypeOK, PollNotLost, PollQueued, pollVars, createVars
  <1>2. CASE coms_port_cdev_wake
    BY <1>2 DEF coms_port_cdev_wake, CdevIInv, CdevTypeOK, PollNotLost, PollQueued, createVars
  <1>3. CASE UNCHANGED cdVars
    BY <1>3 DEF cdVars, CdevIInv, CdevTypeOK, PollNotLost, PollQueued
  <1> QED
    BY <1>1, <1>2, <1>3, CdevCreateSteps, CdevFileSteps DEF CdevNext

(* A poller of the control device never sleeps while an event is pending   *)
(* and its wake-up already went by: poll registers with the wait queue     *)
(* before it looks at the events.                                          *)
THEOREM EventsNotSleptThrough == CdevSpec => [](CdevTypeOK /\ PollNotLost)
  <1>1. CdevSpec => []CdevIInv
    BY CdevInitInv, CdevNextInv, PTL DEF CdevSpec
  <1>2. CdevIInv => CdevTypeOK /\ PollNotLost
    BY DEF CdevIInv
  <1> QED
    BY <1>1, <1>2, PTL
-----------------------------------------------------------------------------
(* Loading and unloading *)

(* At every step of the load and the unload the flags of fio_init_state    *)
(* are the layers that are up, but for those that an unload has already    *)
(* taken down.                                                             *)
FlagsAreLayers ==
    /\ dl_keys <=> "SYSRQ" \in dl_state /\ dl_pc \notin {"left", "cleanup"}
    /\ dl_pci <=> "PCIDEV" \in dl_state /\ dl_pc # "cleanup"
    /\ dl_iodrive <=> "IODRIVE" \in dl_state
    /\ dl_scsi <=> HasScsi /\ dl_iodrive
    /\ dl_iodrive => dl_block
    /\ ~dl_iodrive => dl_leftover \/ ~dl_block

(* The flags are set in order. *)
FlagsInOrder ==
    /\ "SYSRQ" \in dl_state => "PCIDEV" \in dl_state
    /\ "PCIDEV" \in dl_state => "IODRIVE" \in dl_state
    /\ dl_pc \in {"out", "iodrive"} => dl_state = {}
    /\ dl_pc = "pci" => dl_state = {"IODRIVE"}
    /\ dl_pc = "sysrq" => dl_state = {"IODRIVE", "PCIDEV"}

(* A device is bound to a registered driver only; what is attached is      *)
(* bound and enabled; regions are claimed for it or lost.                  *)
DevicesAttached ==
    /\ pd_bound # {} => dl_pci
    /\ pd_attached \subseteq pd_bound /\ pd_attached = pd_enabled
    /\ pd_regions \subseteq pd_attached \cup pd_lost

LoadIInv == LoadTypeOK /\ FlagsAreLayers /\ FlagsInOrder /\ DevicesAttached

(* Flags that name the layers, in order, are layers that stack. *)
LEMMA LoadIInvSuffices == LoadIInv => DriverLayers
  BY DEF LoadIInv, LoadTypeOK, FlagsAreLayers, FlagsInOrder, DevicesAttached, DriverLayers

(* Before the module is loaded no layer is up. *)
LEMMA LoadInitInv == LoadInit => LoadIInv
  <1> SUFFICES ASSUME LoadInit PROVE LoadIInv
    OBVIOUS
  <1>1. LoadTypeOK
    BY DEF LoadInit, LoadTypeOK
  <1>2. FlagsAreLayers /\ FlagsInOrder /\ DevicesAttached
    BY DEF LoadInit, FlagsAreLayers, FlagsInOrder, DevicesAttached
  <1> QED
    BY <1>1, <1>2 DEF LoadIInv

(* The loading thread keeps the invariant at every step of init and exit,  *)
(* whichever step of them fails (fio_do_init, fio_do_exit).                *)
LEMMA LoaderKeepsInv ==
    ASSUME LoadIInv, Loader
    PROVE  LoadIInv'
  <1> USE DEF LoadIInv
  <1> USE HasScsiType DEF FlagsAreLayers, FlagsInOrder, DevicesAttached, LoadTypeOK, pdVars
  <1>1. CASE init_fio_driver
    BY <1>1 DEF init_fio_driver
  <1>2. CASE InitIodrive
    BY <1>2 DEF InitIodrive, InitStorage, kfio_platform_init_block_interface,
                kfio_platform_init_scsi_interface
  <1>3. CASE RegisterPci
    <2>1. CASE dl_pci' = TRUE /\ dl_state' = dl_state \cup {"PCIDEV"} /\ dl_pc' = "sysrq"
      BY <1>3, <2>1 DEF RegisterPci
    <2>2. CASE UNCHANGED <<dl_pci, dl_state>> /\ dl_pc' = "leaving"
      BY <1>3, <2>2 DEF RegisterPci
    <2> QED
      BY <1>3, <2>1, <2>2 DEF RegisterPci
  <1>4. CASE kfio_iodrive_sysrq_keys
    BY <1>4 DEF kfio_iodrive_sysrq_keys
  <1>5. CASE AutoAttachWait
    BY <1>5 DEF AutoAttachWait
  <1>6. CASE exit_fio_driver
    BY <1>6 DEF exit_fio_driver
  <1>7. CASE UnregisterKeys
    BY <1>7 DEF UnregisterKeys
  <1>8. CASE UnregisterPci
    BY <1>8 DEF UnregisterPci
  <1>9. CASE Cleanup
    BY <1>9 DEF Cleanup, TeardownStorage
  <1> QED
    BY <1>1, <1>2, <1>3, <1>4, <1>5, <1>6, <1>7, <1>8, <1>9 DEF Loader

(* So do the devices: a probe that fails at any step, a removal and a      *)
(* shutdown (iodrive_pci_probe, iodrive_pci_on_remove).                    *)
LEMMA DevicesKeepInv ==
    ASSUME LoadIInv, NEW d \in PciDevs,
           iodrive_pci_probe(d) \/ iodrive_pci_on_remove(d) \/ iodrive_pci_on_shutdown(d)
    PROVE  LoadIInv'
  <1> USE DEF LoadIInv, FlagsAreLayers, FlagsInOrder, DevicesAttached, LoadTypeOK, dlVars
  <1>1. CASE iodrive_pci_probe(d)
    BY <1>1 DEF iodrive_pci_probe, ProbeLeaves
  <1>2. CASE iodrive_pci_on_remove(d)
    BY <1>2 DEF iodrive_pci_on_remove
  <1>3. CASE iodrive_pci_on_shutdown(d)
    BY <1>3 DEF iodrive_pci_on_shutdown
  <1> QED
    BY <1>1, <1>2, <1>3

(* Every step of loading, unloading, probing and removing keeps the        *)
(* invariant.                                                              *)
LEMMA LoadNextInv == LoadIInv /\ [LoadNext]_loadVars => LoadIInv'
  <1> SUFFICES ASSUME LoadIInv, [LoadNext]_loadVars PROVE LoadIInv'
    OBVIOUS
  <1>1. CASE UNCHANGED loadVars
    BY <1>1 DEF loadVars, dlVars, pdVars, LoadIInv, LoadTypeOK, FlagsAreLayers,
                FlagsInOrder, DevicesAttached
  <1> QED
    BY <1>1, LoaderKeepsInv, DevicesKeepInv DEF LoadNext

(* For any devices, with SCSI or without, every layer of the driver is up  *)
(* only while the ones below it are, through loads and unloads that fail   *)
(* at any step, and only the two known error paths leave anything behind   *)
(* (fio_do_init, fio_do_exit, iodrive_pci_probe).                          *)
THEOREM LayersAlwaysStacked == LoadSpec => [](LoadTypeOK /\ DriverLayers)
  <1>1. LoadSpec => []LoadIInv
    BY LoadInitInv, LoadNextInv, PTL DEF LoadSpec
  <1>2. LoadIInv => LoadTypeOK
    BY DEF LoadIInv
  <1> QED
    BY <1>1, <1>2, LoadIInvSuffices, PTL
-----------------------------------------------------------------------------
(* The hotplug notifiers *)

(* The list holds every registered function once; the flag says whether it *)
(* is empty.                                                               *)
ListIsRegistered ==
    /\ NoneTwice(hp_list)
    /\ \A f \in Notifiers : Listed(f, hp_list) <=> hp_pc[f] \in {"setup", "setup2", "in"}
    /\ hp_init <=> hp_list # << >>

(* Which of the kernel's two states are set up while a caller is on its    *)
(* way from the lock to the kernel, and while nobody is.                   *)
StatesFollow ==
    /\ \A f, g \in PastLock : f = g
    /\ \A f \in Notifiers :
         /\ hp_pc[f] = "setup" => hp_kernel = {}
         /\ hp_pc[f] = "setup2" => hp_kernel = {hp_off} /\ hp_off \in 1..hp_last
         /\ hp_pc[f] = "remove" => hp_kernel = {hp_on, hp_off} /\ hp_on # hp_off /\ hp_list = << >>
         /\ hp_pc[f] = "remove2" => hp_kernel = {hp_off} /\ hp_list = << >>
    /\ PastLock = {} => IF hp_list = << >> THEN hp_kernel = {}
                                           ELSE hp_kernel = {hp_on, hp_off} /\ hp_on # hp_off

HotplugIInv ==
    /\ HotplugTypeOK
    /\ hp_kernel \subseteq 1..hp_last
    /\ ListIsRegistered
    /\ ~hp_overlap => StatesFollow

(* While the setups do not overlap, states that follow the list are armed. *)
LEMMA HotplugIInvSuffices == HotplugIInv => HotplugArmed
  <1> SUFFICES ASSUME HotplugIInv PROVE HotplugArmed
    OBVIOUS
  <1>1. \A f \in Notifiers : hp_pc[f] = "in" => \E i \in DOMAIN hp_list : hp_list[i] = f
    BY DEF HotplugIInv, HotplugTypeOK, ListIsRegistered, Listed
  <1>2. hp_init = (hp_list # << >>)
    BY DEF HotplugIInv, HotplugTypeOK, ListIsRegistered
  <1> QED
    BY <1>1, <1>2 DEF HotplugIInv, StatesFollow, HotplugArmed

(* At load nobody is registered and no state is set up. *)
LEMMA HotplugInitInv == HotplugInit => HotplugIInv
  <1> SUFFICES ASSUME HotplugInit PROVE HotplugIInv
    OBVIOUS
  <1>1. HotplugTypeOK
    <2>1. {hp_on, hp_off} \subseteq -1..MaxStates /\ hp_last \in 0..MaxStates
      BY MaxStatesAssumption DEF HotplugInit
    <2>2. hp_list \in Seq(Notifiers) /\ hp_kernel \subseteq 1..MaxStates
      BY DEF HotplugInit
    <2>3. hp_init \in BOOLEAN /\ hp_overlap \in BOOLEAN
      BY DEF HotplugInit
    <2> QED
      BY <2>1, <2>2, <2>3 DEF HotplugInit, HotplugTypeOK
  <1>2. ListIsRegistered
    BY DEF HotplugInit, ListIsRegistered, NoneTwice, Listed
  <1>3. StatesFollow /\ hp_kernel \subseteq 1..hp_last
    BY DEF HotplugInit, StatesFollow, PastLock
  <1> QED
    BY <1>1, <1>2, <1>3 DEF HotplugIInv

(* Registration: under the lock the function joins the list; the first one *)
(* goes on to set the states up (kfio_register_cpu_notifier).              *)
LEMMA RegisterKeepsInv ==
    ASSUME HotplugIInv, NEW f \in Notifiers, kfio_register_cpu_notifier(f)
    PROVE  HotplugIInv'
  <1> USE DEF HotplugIInv, kfio_register_cpu_notifier, GoesPast
  <1>1. hp_list \in Seq(Notifiers) /\ ~Listed(f, hp_list)
    BY DEF HotplugTypeOK, ListIsRegistered
  <1>2. /\ hp_list' \in Seq(Notifiers) /\ hp_list' # << >> /\ NoneTwice(hp_list')
        /\ \A x : Listed(x, hp_list') <=> x = f \/ Listed(x, hp_list)
    BY <1>1, AppendListed DEF ListIsRegistered
  <1>3. HotplugTypeOK'
    BY <1>2 DEF HotplugTypeOK
  <1>4. ListIsRegistered'
    BY <1>2 DEF HotplugTypeOK, ListIsRegistered
  <1>5. ASSUME ~hp_overlap' PROVE StatesFollow'
    <2>1. CASE hp_init
      <3>1. PastLock' = PastLock
        BY <2>1 DEF PastLock, HotplugTypeOK
      <3>2. hp_list # << >>
        BY <2>1 DEF ListIsRegistered
      <3> QED
        BY <1>2, <1>5, <2>1, <3>1, <3>2 DEF StatesFollow, HotplugTypeOK
    <2>2. CASE ~hp_init
      <3>1. PastLock = {}
        BY <1>5, <2>2 DEF PastLock, HotplugTypeOK
      <3>2. PastLock' = {f}
        BY <2>2, <3>1 DEF PastLock, HotplugTypeOK
      <3>3. hp_kernel = {}
        BY <1>5, <2>2, <3>1 DEF StatesFollow, ListIsRegistered, HotplugTypeOK
      <3>4. hp_pc' = [hp_pc EXCEPT ![f] = "setup"] /\ \A g \in Notifiers : hp_pc[g] \in {"out", "in"}
        BY <2>2, <3>1 DEF PastLock
      <3> QED
        BY <3>2, <3>3, <3>4 DEF StatesFollow, HotplugTypeOK
    <2> QED
      BY <2>1, <2>2
  <1> QED
    BY <1>3, <1>4, <1>5

(* The kernel gives the states new numbers, or an error that goes unseen   *)
(* (cpuhp_setup_state_nocalls).                                            *)
LEMMA SetupKeepsInv ==
    ASSUME HotplugIInv, NEW f \in Notifiers, SetupState(f)
    PROVE  HotplugIInv'
  <1> USE DEF HotplugIInv
  <1>1. PICK s \in {hp_last + 1, -1} :
          /\ IF hp_pc[f] = "setup" THEN hp_off' = s /\ UNCHANGED hp_on
                                   ELSE hp_on' = s /\ UNCHANGED hp_off
          /\ hp_kernel' = hp_kernel \cup ({s} \ {-1})
          /\ hp_last' = IF s = -1 THEN hp_last ELSE s
          /\ hp_overlap' = (hp_overlap \/ s = -1)
    BY DEF SetupState
  <1>2. /\ hp_pc[f] \in {"setup", "setup2"} /\ hp_last < MaxStates
        /\ hp_pc' = [hp_pc EXCEPT ![f] = IF @ = "setup" THEN "setup2" ELSE "in"]
        /\ UNCHANGED <<hp_list, hp_init>>
    BY DEF SetupState
  <1>3. hp_last \in 0..MaxStates /\ hp_last + 1 \in 1..MaxStates
    BY <1>2, MaxStatesAssumption DEF HotplugTypeOK
  <1>4. HotplugTypeOK'
    BY <1>1, <1>2, <1>3, MaxStatesAssumption DEF HotplugTypeOK
  <1>5. (hp_kernel \subseteq 1..hp_last)'
    BY <1>1, <1>3
  <1>6. ListIsRegistered'
    BY <1>2 DEF HotplugTypeOK, ListIsRegistered
  <1>7. ASSUME ~hp_overlap' PROVE StatesFollow'
    <2>1. StatesFollow /\ s = hp_last + 1 /\ s # -1
      BY <1>1, <1>3, <1>7
    <2>2. PastLock = {f}
      BY <1>2, <2>1 DEF StatesFollow, PastLock
    <2>3. \A g \in Notifiers : g # f => hp_pc[g] \in {"out", "in"} /\ hp_pc'[g] = hp_pc[g]
      BY <1>2, <2>2 DEF PastLock, HotplugTypeOK
    <2>4. CASE hp_pc[f] = "setup"
      <3>1. hp_kernel' = {hp_off'} /\ hp_off' \in 1..hp_last' /\ hp_pc'[f] = "setup2"
        <4>1. hp_kernel = {} /\ hp_off' = s /\ hp_last' = s
          BY <1>1, <2>1, <2>4 DEF StatesFollow
        <4>2. s \in 1..s
          BY <1>3, <2>1
        <4> QED
          BY <1>1, <1>2, <2>1, <2>4, <4>1, <4>2 DEF HotplugTypeOK
      <3>2. PastLock' = {f}
        BY <2>3, <3>1 DEF PastLock
      <3> QED
        BY <2>3, <3>1, <3>2 DEF StatesFollow
    <2>5. CASE hp_pc[f] = "setup2"
      <3>1. hp_kernel' = {hp_on', hp_off'} /\ hp_on' # hp_off' /\ hp_pc'[f] = "in"
        BY <1>1, <1>2, <1>3, <2>1, <2>5 DEF StatesFollow, HotplugTypeOK
      <3>2. PastLock' = {}
        BY <2>3, <3>1 DEF PastLock
      <3>3. hp_list # << >>
        BY <2>5 DEF ListIsRegistered, Listed
      <3> QED
        BY <1>2, <2>3, <3>1, <3>2, <3>3 DEF StatesFollow
    <2> QED
      BY <1>2, <2>4, <2>5
  <1> QED
    BY <1>4, <1>5, <1>6, <1>7

(* Unregistration: the last one leaves the list empty under the lock, and  *)
(* goes on to remove the states (kfio_unregister_cpu_notifier).            *)
LEMMA UnregisterKeepsInv ==
    ASSUME HotplugIInv, NEW f \in Notifiers, kfio_unregister_cpu_notifier(f)
    PROVE  HotplugIInv'
  <1> USE DEF HotplugIInv, kfio_unregister_cpu_notifier, GoesPast
  <1>1. hp_list \in Seq(Notifiers) /\ Listed(f, hp_list)
    BY DEF HotplugTypeOK, ListIsRegistered
  <1>2. /\ hp_list' \in Seq(Notifiers) /\ NoneTwice(hp_list')
        /\ \A x : Listed(x, hp_list') <=> x # f /\ Listed(x, hp_list)
    BY <1>1, RemoveFirstListed DEF ListIsRegistered
  <1>3. HotplugTypeOK'
    BY <1>2 DEF HotplugTypeOK
  <1>4. ListIsRegistered'
    <2>1. hp_list # << >>
      BY <1>1 DEF Listed
    <2> QED
      BY <1>2, <2>1 DEF HotplugTypeOK, ListIsRegistered
  <1>5. ASSUME ~hp_overlap' PROVE StatesFollow'
    <2>0. StatesFollow /\ hp_list # << >>
      <3>1. ~hp_overlap
        BY <1>5 DEF HotplugTypeOK
      <3>2. hp_list # << >>
        BY <1>1 DEF Listed
      <3> QED
        BY <3>1, <3>2
    <2>1. CASE hp_list' # << >>
      <3>1. PastLock' = PastLock
        BY <2>1 DEF PastLock, HotplugTypeOK
      <3> QED
        BY <2>0, <2>1, <3>1 DEF StatesFollow, HotplugTypeOK
    <2>2. CASE hp_list' = << >>
      <3>1. PastLock = {}
        BY <1>5, <2>2 DEF PastLock, HotplugTypeOK
      <3>2. PastLock' = {f}
        BY <2>2, <3>1 DEF PastLock, HotplugTypeOK
      <3>3. hp_kernel = {hp_on, hp_off} /\ hp_on # hp_off
        BY <2>0, <3>1 DEF StatesFollow
      <3>4. hp_pc' = [hp_pc EXCEPT ![f] = "remove"] /\ \A g \in Notifiers : hp_pc[g] \in {"out", "in"}
        BY <2>2, <3>1 DEF PastLock
      <3> QED
        BY <2>2, <3>2, <3>3, <3>4 DEF StatesFollow, HotplugTypeOK
    <2> QED
      BY <2>1, <2>2
  <1> QED
    BY <1>3, <1>4, <1>5

(* The states are removed by the numbers in the two variables              *)
(* (cpuhp_remove_state_nocalls).                                           *)
LEMMA RemoveKeepsInv ==
    ASSUME HotplugIInv, NEW f \in Notifiers, RemoveState(f)
    PROVE  HotplugIInv'
  <1> USE DEF HotplugIInv, RemoveState
  <1>1. HotplugTypeOK' /\ (hp_kernel \subseteq 1..hp_last)'
    BY DEF HotplugTypeOK
  <1>2. ListIsRegistered'
    BY DEF HotplugTypeOK, ListIsRegistered
  <1>3. ASSUME ~hp_overlap' PROVE StatesFollow'
    <2>1. StatesFollow
      BY <1>3
    <2>2. PastLock = {f}
      BY <2>1 DEF StatesFollow, PastLock
    <2>3. \A g \in Notifiers : g # f => hp_pc[g] \in {"out", "in"} /\ hp_pc'[g] = hp_pc[g]
      BY <2>2 DEF PastLock, HotplugTypeOK
    <2>4. CASE hp_pc[f] = "remove"
      <3>1. hp_kernel' = {hp_off'} /\ hp_pc'[f] = "remove2" /\ hp_list' = << >>
        BY <2>1, <2>4 DEF StatesFollow, HotplugTypeOK
      <3>2. PastLock' = {f}
        BY <2>3, <3>1 DEF PastLock
      <3> QED
        BY <2>3, <3>1, <3>2 DEF StatesFollow
    <2>5. CASE hp_pc[f] = "remove2"
      <3>1. hp_kernel' = {} /\ hp_pc'[f] = "out" /\ hp_list' = << >>
        BY <2>1, <2>5 DEF StatesFollow, HotplugTypeOK
      <3>2. PastLock' = {}
        BY <2>3, <3>1 DEF PastLock
      <3> QED
        BY <2>3, <3>1, <3>2 DEF StatesFollow
    <2> QED
      BY <2>4, <2>5
  <1> QED
    BY <1>1, <1>2, <1>3

(* Every step of a registration or an unregistration keeps the invariant. *)
LEMMA HotplugNextInv == HotplugIInv /\ [HotplugNext]_hpVars => HotplugIInv'
  <1> SUFFICES ASSUME HotplugIInv, [HotplugNext]_hpVars PROVE HotplugIInv'
    OBVIOUS
  <1>1. CASE UNCHANGED hpVars
    BY <1>1 DEF hpVars, HotplugIInv, HotplugTypeOK, ListIsRegistered, StatesFollow, PastLock
  <1> QED
    BY <1>1, RegisterKeepsInv, SetupKeepsInv, UnregisterKeepsInv, RemoveKeepsInv DEF HotplugNext

(* For any number of notifiers: as long as callers do not overlap between  *)
(* the lock and the kernel and no setup fails, the kernel's states are set *)
(* up exactly while somebody is registered (khotplug.c).                   *)
THEOREM NotifiersStayArmed == HotplugSpec => [](HotplugTypeOK /\ HotplugArmed)
  <1>1. HotplugSpec => []HotplugIInv
    BY HotplugInitInv, HotplugNextInv, PTL DEF HotplugSpec
  <1>2. HotplugIInv => HotplugTypeOK
    BY DEF HotplugIInv
  <1> QED
    BY <1>1, <1>2, HotplugIInvSuffices, PTL
-----------------------------------------------------------------------------
(* The SCSI host *)

(* What a thread of the fio-scsi layer does with a host it has counted. *)
Using == {"counted", "adding", "exposed", "hidden", "removing", "removed"}

HostTypes ==
    /\ sh_list \in Seq(HostIds)
    /\ sh_life \in [HostIds -> {"free", "live", "destroyed", "leaked"}]
    /\ sh_ref \in [HostIds -> Nat]
    /\ sh_lu \in [LogicalUnits -> {"absent", "creating", "created", "counted", "adding", "exposed",
                                   "hidden", "removing", "removed", "last", "not last", "unlisted"}]
    /\ sh_at \in [LogicalUnits -> HostIds \cup {Nil}]
    /\ sh_revived \in BOOLEAN

(* At most one host is listed; a thread has a host from its creation or    *)
(* its lookup on; a host that was just created is its creator's alone.     *)
HostsPlaced ==
    /\ sh_list = << >> \/ \E h \in HostIds : sh_list = <<h>>
    /\ \A h \in HostIds : sh_list = <<h>> => sh_life[h] # "free"
    /\ \A l \in LogicalUnits :
         /\ sh_lu[l] \notin {"absent", "creating"} => sh_at[l] \in HostIds /\ sh_life[sh_at[l]] # "free"
         /\ sh_lu[l] \in {"absent", "creating"} => sh_at[l] = Nil
         /\ sh_lu[l] = "created" => /\ sh_life[sh_at[l]] = "live" /\ sh_list # <<sh_at[l]>>
                                    /\ \A m \in LogicalUnits : m # l => sh_at[m] # sh_at[l]

RefsExact == \A h \in HostIds : sh_ref[h] = Cardinality(Counted(h))

(* While no host was counted again after its count had reached 0: the      *)
(* listed host is live, whoever uses a host uses the listed one, the host  *)
(* that a last user is about to unlist is used by nobody, and a host that  *)
(* was unlisted stays so.                                                  *)
HostsKept ==
    /\ \A h \in HostIds : sh_list = <<h>> => sh_life[h] = "live"
    /\ \A l \in LogicalUnits :
         /\ sh_lu[l] \in Using => sh_list = <<sh_at[l]>>
         /\ sh_lu[l] = "last" => sh_ref[sh_at[l]] = 0 /\ sh_list = <<sh_at[l]>>
         /\ sh_lu[l] = "unlisted" => sh_list # <<sh_at[l]>>
    /\ \A l, m \in LogicalUnits : sh_lu[l] = "last" /\ sh_lu[m] = "last" => l = m

HostInv == HostTypes /\ HostsPlaced /\ RefsExact /\ (~sh_revived => HostsKept)

(* A device that points to a unit is pointed back to, only a logical unit  *)
(* that uses a host has a device, and a command under way is for such a    *)
(* device.                                                                 *)
Hooked(there, host, port, stale) ==
    /\ there \subseteq LogicalUnits /\ host \subseteq port /\ port \subseteq there
    /\ stale \subseteq LogicalUnits

HookInv ==
    /\ Hooked(sd_there, sd_hostdata, lu_port, lu_stale)
    /\ \A l \in sd_there : sh_lu[l] \in {"exposed", "hidden", "removing"}
    /\ sc_at \in [ScsiCmnds -> {"idle", "unhooked", "hooking", "alloc", "received", "done"}]
    /\ sc_lu \in [ScsiCmnds -> LogicalUnits \cup {Nil}]
    /\ sc_in \in [ScsiCmnds -> BOOLEAN]
    /\ sc_late \in [ScsiCmnds -> 0 .. LateCalls]
    /\ \A c \in ScsiCmnds : sc_at[c] # "idle" \/ sc_in[c] => sc_lu[c] \in sd_there

ScsiIInv == HostInv /\ HookInv

(* The users of a host are finitely many. *)
LEMMA CountedFinite ==
    ASSUME NEW h
    PROVE  /\ IsFiniteSet(Counted(h)) /\ Cardinality(Counted(h)) \in Nat
           /\ Cardinality(Counted(h)) <= Cardinality(LogicalUnits) /\ Cardinality(LogicalUnits) \in Nat
           /\ Cardinality(Counted(h)) = 0 <=> Counted(h) = {}
  <1>1. Counted(h) \subseteq LogicalUnits
    BY DEF Counted
  <1>2. IsFiniteSet(Counted(h)) /\ Cardinality(Counted(h)) <= Cardinality(LogicalUnits)
    BY <1>1, ScsiAssumption, FS_Subset
  <1> QED
    BY <1>2, ScsiAssumption, FS_CardinalityType, FS_EmptySet

(* The invariant says what HostCountExact says, and more. *)
LEMMA ScsiIInvSuffices == ScsiIInv => ScsiTypeOK /\ HostCountExact
  <1> SUFFICES ASSUME ScsiIInv PROVE ScsiTypeOK /\ HostCountExact
    OBVIOUS
  <1> USE DEF ScsiIInv, HostInv
  <1>1. ASSUME NEW h \in HostIds PROVE sh_ref[h] \in 0..Cardinality(LogicalUnits)
    BY CountedFinite DEF RefsExact
  <1>2. sh_ref \in [HostIds -> 0..Cardinality(LogicalUnits)]
    BY <1>1 DEF HostTypes
  <1>3. ScsiTypeOK
    BY <1>2 DEF ScsiTypeOK, HostTypes, HookInv, Hooked
  <1>4. ASSUME ~sh_revived, NEW h \in HostIds, Counted(h) # {}
        PROVE  sh_life[h] = "live" /\ sh_list = <<h>>
    BY <1>4 DEF HostsKept, Counted, Using
  <1>5. ASSUME NEW c \in ScsiCmnds, sc_at[c] = "unhooked" PROVE sh_ref[sh_at[sc_lu[c]]] > 0
    <2> DEFINE l == sc_lu[c]
               h == sh_at[l]
    <2>1. l \in LogicalUnits /\ sh_lu[l] \in {"exposed", "hidden", "removing"}
      BY <1>5 DEF HookInv, Hooked
    <2>2. h \in HostIds /\ l \in Counted(h)
      BY <2>1 DEF HostsPlaced, Counted
    <2> HIDE DEF h
    <2>3. Cardinality(Counted(h)) \in Nat /\ Cardinality(Counted(h)) # 0
      BY <2>2, CountedFinite
    <2>4. sh_ref[h] > 0
      BY <2>2, <2>3 DEF RefsExact
    <2> QED
      BY <2>4 DEF h
  <1> QED
    BY <1>3, <1>4, <1>5 DEF HostCountExact, RefsExact, HookInv, Hooked

(* Nothing is there at the start. *)
LEMMA ScsiInitInv == ScsiInit => ScsiIInv
  <1> SUFFICES ASSUME ScsiInit PROVE ScsiIInv
    OBVIOUS
  <1>1. \A h : Counted(h) = {}
    BY DEF ScsiInit, Counted
  <1>2. RefsExact
    BY <1>1, FS_EmptySet DEF RefsExact, ScsiInit
  <1>3. HostTypes
    <2>1. sh_revived \in BOOLEAN
      BY Zenon DEF ScsiInit
    <2>2. << >> \in Seq(HostIds)
      OBVIOUS
    <2> QED
      BY <2>1, <2>2 DEF ScsiInit, HostTypes
  <1>4. HostsPlaced /\ HostsKept
    BY DEF ScsiInit, HostsPlaced, HostsKept, Using
  <1>5. HookInv
    BY ScsiAssumption DEF ScsiInit, HookInv, Hooked
  <1> QED
    BY <1>2, <1>3, <1>4, <1>5 DEF ScsiIInv, HostInv

(* How the users of a host change when the thread of l goes on. *)
LEMMA CountedMove ==
    ASSUME HostTypes, NEW l \in LogicalUnits, NEW pc, NEW g, Goes(l, pc, g), NEW h \in HostIds
    PROVE  /\ Counted(h)' = IF pc \in Using /\ g = h THEN Counted(h) \cup {l} ELSE Counted(h) \ {l}
           /\ Cardinality(Counted(h)') = Cardinality(Counted(h))
                                           + (IF pc \in Using /\ g = h THEN 1 ELSE 0)
                                           - (IF sh_lu[l] \in Using /\ sh_at[l] = h THEN 1 ELSE 0)
  <1>1. /\ sh_lu' = [sh_lu EXCEPT ![l] = pc] /\ sh_at' = [sh_at EXCEPT ![l] = g]
    BY DEF Goes
  <1>2. Counted(h)' = IF pc \in Using /\ g = h THEN Counted(h) \cup {l} ELSE Counted(h) \ {l}
    BY <1>1 DEF HostTypes, Counted, Using
  <1>3. l \in Counted(h) <=> sh_lu[l] \in Using /\ sh_at[l] = h
    BY DEF Counted, Using
  <1> DEFINE F == Counted(h)
             G == Counted(h)'
             in == pc \in Using /\ g = h
             was == sh_lu[l] \in Using /\ sh_at[l] = h
  <1>4. IsFiniteSet(F) /\ Cardinality(F) \in Nat
    BY CountedFinite
  <1>5. G = (IF in THEN F \cup {l} ELSE F \ {l}) /\ (l \in F <=> was)
    BY <1>2, <1>3
  <1> HIDE DEF F, G, in, was
  <1>6. /\ Cardinality(F \cup {l}) = IF l \in F THEN Cardinality(F) ELSE Cardinality(F) + 1
        /\ Cardinality(F \ {l}) = IF l \in F THEN Cardinality(F) - 1 ELSE Cardinality(F)
    BY <1>4, FS_AddElement, FS_RemoveElement
  <1>7. Cardinality(G) = Cardinality(F) + (IF in THEN 1 ELSE 0) - (IF was THEN 1 ELSE 0)
    BY <1>4, <1>5, <1>6
  <1> QED
    BY <1>2, <1>7 DEF F, G, in, was

(* A thread that goes on with the host it uses. *)
LEMMA UserGoesOn ==
    ASSUME HostInv, NEW l \in LogicalUnits, sh_lu[l] \in Using, NEW pc \in Using, Goes(l, pc, sh_at[l]),
           UNCHANGED <<sh_list, sh_life, sh_ref, sh_revived>>
    PROVE  HostInv'
  <1> USE DEF HostInv
  <1>1. /\ sh_lu' = [sh_lu EXCEPT ![l] = pc] /\ sh_at' = [sh_at EXCEPT ![l] = sh_at[l]]
    BY DEF Goes
  <1>2. sh_at' = sh_at
    BY <1>1 DEF HostTypes
  <1>3. HostTypes'
    BY <1>1, <1>2 DEF HostTypes, Using
  <1>4. /\ \A m \in LogicalUnits : m # l => sh_lu'[m] = sh_lu[m]
        /\ sh_lu'[l] = pc
    BY <1>1 DEF HostTypes
  <1>5. HostsPlaced'
    BY <1>2, <1>4 DEF HostsPlaced, Using
  <1>6. RefsExact'
    <2>1. ASSUME NEW h \in HostIds PROVE Cardinality(Counted(h)') = Cardinality(Counted(h))
      BY CountedMove, CountedFinite
    <2> QED
      BY <2>1 DEF RefsExact
  <1>7. ~sh_revived' => HostsKept'
    BY <1>2, <1>4 DEF HostsKept, Using
  <1> QED
    BY <1>3, <1>5, <1>6, <1>7

(* A thread that has no host yet, or is done with its host. *)
LEMMA NobodyMoves ==
    ASSUME HostInv, NEW l \in LogicalUnits,
           \/ sh_lu[l] = "absent" /\ Goes(l, "creating", Nil)
           \/ sh_lu[l] \in {"creating", "not last"} /\ Goes(l, "absent", Nil),
           UNCHANGED <<sh_list, sh_life, sh_ref, sh_revived>>
    PROVE  HostInv'
  <1> USE DEF HostInv
  <1>1. PICK pc \in {"absent", "creating"} : /\ Goes(l, pc, Nil)
                                             /\ sh_lu' = [sh_lu EXCEPT ![l] = pc]
                                             /\ sh_at' = [sh_at EXCEPT ![l] = Nil]
    BY DEF Goes
  <1>2. sh_lu[l] \in {"absent", "creating", "not last"}
    OBVIOUS
  <1>3. HostTypes'
    BY <1>1 DEF HostTypes
  <1>4. /\ \A m \in LogicalUnits : m # l => sh_lu'[m] = sh_lu[m] /\ sh_at'[m] = sh_at[m]
        /\ sh_lu'[l] = pc /\ sh_at'[l] = Nil
    BY <1>1 DEF HostTypes
  <1>5. HostsPlaced'
    BY <1>4, ScsiAssumption, ZenonT(60) DEF HostsPlaced
  <1>6. RefsExact'
    <2>1. ASSUME NEW h \in HostIds PROVE Cardinality(Counted(h)') = Cardinality(Counted(h))
      <3>1. ~(pc \in Using) /\ ~(sh_lu[l] \in Using)
        BY <1>2 DEF Using
      <3>2. Counted(h)' = Counted(h) \ {l}
        BY <1>1, <3>1, CountedMove
      <3>3. l \notin Counted(h)
        BY <1>2 DEF Counted
      <3> QED
        BY <3>2, <3>3
    <2> QED
      BY <2>1 DEF RefsExact
  <1>7. ASSUME ~sh_revived' PROVE HostsKept'
    <2>1. HostsKept /\ UNCHANGED <<sh_list, sh_life, sh_ref>>
      BY <1>7
    <2>2. \A m \in LogicalUnits : sh_lu'[m] \in Using \cup {"last", "unlisted"} =>
                                    m # l /\ sh_lu'[m] = sh_lu[m] /\ sh_at'[m] = sh_at[m]
      BY <1>4 DEF Using
    <2> QED
      BY <2>1, <2>2 DEF HostsKept
  <1> QED
    BY <1>3, <1>5, <1>6, <1>7

(* A count goes up by one. *)
LEMMA RefUp ==
    ASSUME HostTypes, NEW h \in HostIds, sh_ref' = [sh_ref EXCEPT ![h] = @ + 1]
    PROVE  /\ sh_ref' \in [HostIds -> Nat]
           /\ \A g \in HostIds : sh_ref'[g] = sh_ref[g] + (IF h = g THEN 1 ELSE 0)
  <1>1. sh_ref \in [HostIds -> Nat]
    BY DEF HostTypes
  <1>2. sh_ref' = [g \in HostIds |-> IF g = h THEN sh_ref[h] + 1 ELSE sh_ref[g]]
    BY <1>1
  <1> QED
    BY <1>1, <1>2

(* A thread counts itself on the listed host, and perhaps destroys the one *)
(* it had created (kfio_port_scsi_new_lu).                                 *)
LEMMA TakesListed ==
    ASSUME HostInv, NEW l \in LogicalUnits, NEW h \in HostIds, sh_list = <<h>>, CountOn(l, h), sh_list' = sh_list,
           \/ sh_lu[l] = "absent" /\ sh_life' = sh_life
           \/ sh_lu[l] = "created" /\ sh_life' = [sh_life EXCEPT ![sh_at[l]] = "destroyed"]
    PROVE  HostInv'
  <1> USE DEF HostInv
  <1>1. /\ sh_ref' = [sh_ref EXCEPT ![h] = @ + 1] /\ Goes(l, "counted", h)
        /\ sh_lu' = [sh_lu EXCEPT ![l] = "counted"] /\ sh_at' = [sh_at EXCEPT ![l] = h]
    BY DEF CountOn, Goes
  <1>2. sh_revived' \in BOOLEAN /\ (~sh_revived' => ~sh_revived /\ sh_ref[h] # 0)
    <2>1. sh_revived' = (sh_revived \/ (sh_ref[h] = 0 /\ h \in {sh_list[i] : i \in DOMAIN sh_list}))
      BY DEF CountOn
    <2>2. h \in {sh_list[i] : i \in DOMAIN sh_list}
      <3>1. 1 \in DOMAIN sh_list /\ sh_list[1] = h
        OBVIOUS
      <3> QED
        BY <3>1
    <2> QED
      BY <2>1, <2>2, Zenon DEF HostTypes
  <1>3. /\ \A m \in LogicalUnits : m # l => sh_lu'[m] = sh_lu[m] /\ sh_at'[m] = sh_at[m]
        /\ sh_lu'[l] = "counted" /\ sh_at'[l] = h
    BY <1>1 DEF HostTypes
  <1>4. /\ sh_life' \in [HostIds -> {"free", "live", "destroyed", "leaked"}]
        /\ \A g \in HostIds : g # sh_at[l] => sh_life'[g] = sh_life[g]
        /\ sh_life'[h] = sh_life[h]
        /\ \A m \in LogicalUnits : m # l /\ sh_at[m] \in HostIds => sh_life'[sh_at[m]] = sh_life[sh_at[m]]
    <2>1. CASE sh_life' = sh_life
      BY <2>1 DEF HostTypes
    <2>2. CASE sh_lu[l] = "created" /\ sh_life' = [sh_life EXCEPT ![sh_at[l]] = "destroyed"]
      <3>1. sh_at[l] # h /\ \A m \in LogicalUnits : m # l => sh_at[m] # sh_at[l]
        BY <2>2 DEF HostsPlaced
      <3>2. /\ sh_life' \in [HostIds -> {"free", "live", "destroyed", "leaked"}]
            /\ \A g \in HostIds : g # sh_at[l] => sh_life'[g] = sh_life[g]
        BY <2>2 DEF HostTypes
      <3> QED
        BY <3>1, <3>2
    <2> QED
      BY <2>1, <2>2
  <1>5. HostTypes'
    <2>1. sh_ref' \in [HostIds -> Nat]
      BY <1>1, RefUp
    <2>2. /\ sh_lu' \in [LogicalUnits -> {"absent", "creating", "created", "counted", "adding", "exposed",
                                          "hidden", "removing", "removed", "last", "not last", "unlisted"}]
          /\ sh_at' \in [LogicalUnits -> HostIds \cup {Nil}]
      BY <1>1 DEF HostTypes
    <2> QED
      BY <1>2, <1>4, <2>1, <2>2 DEF HostTypes
  <1>6. HostsPlaced'
    <2>1. \A m \in LogicalUnits : m # l /\ sh_lu[m] = "created" => sh_at[m] # h
      BY DEF HostsPlaced
    <2>2. \A m \in LogicalUnits : sh_lu'[m] = "created" =>
            /\ sh_life'[sh_at'[m]] = "live" /\ sh_list' # <<sh_at'[m]>>
            /\ \A k \in LogicalUnits : k # m => sh_at'[k] # sh_at'[m]
      BY <1>3, <1>4, <2>1 DEF HostsPlaced
    <2>3. \A g \in HostIds : sh_list' = <<g>> => sh_life'[g] # "free"
      <3>1. \A g \in HostIds : sh_list' = <<g>> => g = h
        OBVIOUS
      <3> QED
        BY <1>4, <3>1 DEF HostsPlaced
    <2>4. \A m \in LogicalUnits :
            /\ sh_lu'[m] \notin {"absent", "creating"} => sh_at'[m] \in HostIds /\ sh_life'[sh_at'[m]] # "free"
            /\ sh_lu'[m] \in {"absent", "creating"} => sh_at'[m] = Nil
      BY <1>3, <1>4 DEF HostsPlaced
    <2> QED
      BY <2>2, <2>3, <2>4 DEF HostsPlaced
  <1>7. RefsExact'
    <2>1. ASSUME NEW g \in HostIds PROVE sh_ref'[g] = Cardinality(Counted(g)')
      <3>1. Cardinality(Counted(g)') = Cardinality(Counted(g)) + (IF h = g THEN 1 ELSE 0)
        <4>1. ~(sh_lu[l] \in Using) /\ "counted" \in Using
          BY DEF Using
        <4>2. Cardinality(Counted(g)') = Cardinality(Counted(g))
                                           + (IF "counted" \in Using /\ h = g THEN 1 ELSE 0)
                                           - (IF sh_lu[l] \in Using /\ sh_at[l] = g THEN 1 ELSE 0)
          BY <1>1, CountedMove
        <4> QED
          BY <4>1, <4>2, CountedFinite
      <3>2. sh_ref'[g] = sh_ref[g] + (IF h = g THEN 1 ELSE 0) /\ sh_ref[g] = Cardinality(Counted(g))
        BY <1>1, RefUp DEF RefsExact
      <3> QED
        BY <3>1, <3>2
    <2> QED
      BY <2>1 DEF RefsExact
  <1>8. ASSUME ~sh_revived' PROVE HostsKept'
    <2>1. HostsKept /\ sh_ref[h] # 0
      BY <1>2, <1>8
    <2>2. \A m \in LogicalUnits : sh_lu[m] # "last"
      BY <2>1 DEF HostsKept
    <2>3. \A m \in LogicalUnits : m # l => sh_lu'[m] = sh_lu[m] /\ sh_at'[m] = sh_at[m]
      BY <1>3
    <2>4. \A g \in HostIds : sh_list' = <<g>> => sh_life'[g] = "live"
      <3>1. \A g \in HostIds : sh_list' = <<g>> => g = h
        OBVIOUS
      <3> QED
        BY <1>4, <2>1, <3>1 DEF HostsKept
    <2>5. \A m \in LogicalUnits : sh_lu'[m] \in Using => sh_list' = <<sh_at'[m]>>
      BY <1>3, <2>1 DEF HostsKept
    <2>6. \A m \in LogicalUnits : sh_lu'[m] # "last" /\ (sh_lu'[m] = "unlisted" => sh_list' # <<sh_at'[m]>>)
      BY <1>3, <2>1, <2>2 DEF HostsKept
    <2> QED
      BY <2>4, <2>5, <2>6 DEF HostsKept
  <1> QED
    BY <1>5, <1>6, <1>7, <1>8

(* A thread that finds no host lists the one it created. *)
LEMMA ListsOwn ==
    ASSUME HostInv, NEW l \in LogicalUnits, sh_lu[l] = "created", sh_list = << >>,
           sh_list' = <<sh_at[l]>>, CountOn(l, sh_at[l]), sh_life' = sh_life
    PROVE  HostInv'
  <1> USE DEF HostInv
  <1> DEFINE h == sh_at[l]
  <1>1. /\ h \in HostIds /\ sh_life[h] = "live" /\ \A m \in LogicalUnits : m # l => sh_at[m] # h
    BY DEF HostsPlaced
  <1>2. /\ sh_ref' = [sh_ref EXCEPT ![h] = @ + 1] /\ Goes(l, "counted", h)
        /\ sh_lu' = [sh_lu EXCEPT ![l] = "counted"] /\ sh_at' = [sh_at EXCEPT ![l] = h]
    BY DEF CountOn, Goes
  <1>3. sh_revived' = sh_revived
    <2>1. sh_revived' = (sh_revived \/ (sh_ref[h] = 0 /\ h \in {sh_list[i] : i \in DOMAIN sh_list}))
      BY DEF CountOn
    <2>2. h \notin {sh_list[i] : i \in DOMAIN sh_list}
      OBVIOUS
    <2>3. sh_revived \in BOOLEAN
      BY DEF HostTypes
    <2> QED
      BY <2>1, <2>2, <2>3, Zenon
  <1> HIDE DEF h
  <1>4. sh_list' = <<h>>
    BY DEF h
  <1>5. /\ \A m \in LogicalUnits : m # l => sh_lu'[m] = sh_lu[m] /\ sh_at'[m] = sh_at[m]
        /\ sh_lu'[l] = "counted" /\ sh_at'[l] = h
    BY <1>2 DEF HostTypes
  <1>6. HostTypes'
    <2>1. sh_ref' \in [HostIds -> Nat] /\ sh_list' \in Seq(HostIds)
      <3>1. <<h>> \in Seq(HostIds)
        BY <1>1
      <3> QED
        BY <1>1, <1>2, <1>4, <3>1, RefUp
    <2>2. /\ sh_lu' \in [LogicalUnits -> {"absent", "creating", "created", "counted", "adding", "exposed",
                                          "hidden", "removing", "removed", "last", "not last", "unlisted"}]
          /\ sh_at' \in [LogicalUnits -> HostIds \cup {Nil}]
      BY <1>1, <1>2 DEF HostTypes
    <2> QED
      BY <1>3, <2>1, <2>2 DEF HostTypes
  <1>7. HostsPlaced'
    <2>1. \A m \in LogicalUnits : sh_lu'[m] = "created" =>
            /\ sh_life'[sh_at'[m]] = "live" /\ sh_list' # <<sh_at'[m]>>
            /\ \A k \in LogicalUnits : k # m => sh_at'[k] # sh_at'[m]
      BY <1>1, <1>4, <1>5 DEF HostsPlaced, h
    <2>2. \A g \in HostIds : sh_list' = <<g>> => sh_life'[g] # "free"
      BY <1>1, <1>4
    <2>3. \A m \in LogicalUnits :
            /\ sh_lu'[m] \notin {"absent", "creating"} => sh_at'[m] \in HostIds /\ sh_life'[sh_at'[m]] # "free"
            /\ sh_lu'[m] \in {"absent", "creating"} => sh_at'[m] = Nil
      BY <1>1, <1>5 DEF HostsPlaced
    <2> QED
      BY <1>1, <1>4, <2>1, <2>2, <2>3 DEF HostsPlaced
  <1>8. RefsExact'
    <2>1. ASSUME NEW g \in HostIds PROVE sh_ref'[g] = Cardinality(Counted(g)')
      <3>1. Cardinality(Counted(g)') = Cardinality(Counted(g)) + (IF h = g THEN 1 ELSE 0)
        <4>1. ~(sh_lu[l] \in Using) /\ "counted" \in Using
          BY DEF Using
        <4>2. Cardinality(Counted(g)') = Cardinality(Counted(g))
                                           + (IF "counted" \in Using /\ h = g THEN 1 ELSE 0)
                                           - (IF sh_lu[l] \in Using /\ sh_at[l] = g THEN 1 ELSE 0)
          BY <1>2, CountedMove
        <4> QED
          BY <4>1, <4>2, CountedFinite
      <3>2. sh_ref'[g] = sh_ref[g] + (IF h = g THEN 1 ELSE 0) /\ sh_ref[g] = Cardinality(Counted(g))
        BY <1>1, <1>2, RefUp DEF RefsExact
      <3> QED
        BY <3>1, <3>2
    <2> QED
      BY <2>1 DEF RefsExact
  <1>9. ASSUME ~sh_revived' PROVE HostsKept'
    <2>1. HostsKept
      BY <1>3, <1>9
    <2>2. \A m \in LogicalUnits : sh_lu[m] # "last" /\ sh_lu[m] \notin Using
      BY <2>1 DEF HostsKept
    <2>3. \A g \in HostIds : sh_list' = <<g>> => sh_life'[g] = "live"
      BY <1>1, <1>4
    <2>4. \A m \in LogicalUnits : sh_lu'[m] \in Using => m = l
      BY <1>5, <2>2
    <2>5. \A m \in LogicalUnits : sh_lu'[m] # "last" /\ (sh_lu'[m] = "unlisted" => sh_at'[m] # h)
      BY <1>1, <1>5, <2>2
    <2> QED
      BY <1>4, <1>5, <2>3, <2>4, <2>5 DEF HostsKept
  <1> QED
    BY <1>6, <1>7, <1>8, <1>9

(* A host is created, or lost (fio_port_scsi_host_create). *)
LEMMA HostMade ==
    ASSUME HostInv, NEW l \in LogicalUnits, sh_lu[l] = "creating", NEW h \in HostIds, sh_life[h] = "free",
           \/ Goes(l, "created", h) /\ sh_life' = [sh_life EXCEPT ![h] = "live"]
           \/ Goes(l, "absent", Nil) /\ sh_life' = [sh_life EXCEPT ![h] = "leaked"],
           UNCHANGED <<sh_list, sh_ref, sh_revived>>
    PROVE  HostInv'
  <1>1. HostTypes /\ HostsPlaced /\ RefsExact
    BY DEF HostInv
  <1>2. PICK pc, g : /\ Goes(l, pc, g) /\ sh_lu' = [sh_lu EXCEPT ![l] = pc] /\ sh_at' = [sh_at EXCEPT ![l] = g]
                     /\ \/ pc = "created" /\ g = h /\ sh_life' = [sh_life EXCEPT ![h] = "live"]
                        \/ pc = "absent" /\ g = Nil /\ sh_life' = [sh_life EXCEPT ![h] = "leaked"]
    BY DEF Goes
  <1>3. /\ \A m \in LogicalUnits : m # l => sh_lu'[m] = sh_lu[m] /\ sh_at'[m] = sh_at[m]
        /\ sh_lu'[l] = pc /\ sh_at'[l] = g
    BY <1>1, <1>2 DEF HostTypes
  <1>4. /\ \A k \in HostIds : k # h => sh_life'[k] = sh_life[k]
        /\ sh_life'[h] # "free" /\ (pc = "created" => sh_life'[h] = "live")
    BY <1>1, <1>2 DEF HostTypes
  <1>5. HostTypes'
    <2>1. /\ sh_lu' \in [LogicalUnits -> {"absent", "creating", "created", "counted", "adding", "exposed",
                                          "hidden", "removing", "removed", "last", "not last", "unlisted"}]
          /\ sh_at' \in [LogicalUnits -> HostIds \cup {Nil}]
          /\ sh_life' \in [HostIds -> {"free", "live", "destroyed", "leaked"}]
      BY <1>1, <1>2 DEF HostTypes
    <2> QED
      BY <1>1, <2>1 DEF HostTypes
  <1>6. sh_list # <<h>> /\ \A m \in LogicalUnits : sh_at[m] # h
    BY <1>1, ScsiAssumption, ZenonT(60) DEF HostsPlaced, HostTypes
  <1>7. HostsPlaced'
    <2>1. \A m \in LogicalUnits : sh_lu'[m] = "created" =>
            /\ sh_life'[sh_at'[m]] = "live" /\ sh_list' # <<sh_at'[m]>>
            /\ \A k \in LogicalUnits : k # m => sh_at'[k] # sh_at'[m]
      <3> SUFFICES ASSUME NEW m \in LogicalUnits, sh_lu'[m] = "created"
                   PROVE  /\ sh_life'[sh_at'[m]] = "live" /\ sh_list' # <<sh_at'[m]>>
                          /\ \A k \in LogicalUnits : k # m => sh_at'[k] # sh_at'[m]
        OBVIOUS
      <3>1. CASE m = l
        BY <1>2, <1>3, <1>4, <1>6, <3>1
      <3>2. CASE m # l
        <4>1. sh_lu[m] = "created" /\ sh_at'[m] = sh_at[m] /\ sh_at[m] \in HostIds
          BY <1>1, <1>3, <3>2 DEF HostsPlaced
        <4>2. sh_at[m] # h /\ sh_at[m] # Nil
          BY <1>6, <4>1, ScsiAssumption
        <4>3. g \in {h, Nil}
          BY <1>2
        <4> QED
          BY <1>1, <1>3, <1>4, <4>1, <4>2, <4>3 DEF HostsPlaced
      <3> QED
        BY <3>1, <3>2
    <2>2. \A k \in HostIds : sh_list' = <<k>> => sh_life'[k] # "free"
      BY <1>1, <1>4 DEF HostsPlaced
    <2>3. \A m \in LogicalUnits :
            /\ sh_lu'[m] \notin {"absent", "creating"} => sh_at'[m] \in HostIds /\ sh_life'[sh_at'[m]] # "free"
            /\ sh_lu'[m] \in {"absent", "creating"} => sh_at'[m] = Nil
      BY <1>1, <1>2, <1>3, <1>4, <1>6 DEF HostsPlaced
    <2> QED
      BY <1>1, <2>1, <2>2, <2>3 DEF HostsPlaced
  <1>8. RefsExact'
    <2>1. ASSUME NEW k \in HostIds PROVE Counted(k)' = Counted(k)
      <3>1. ~(pc \in Using)
        BY <1>2 DEF Using
      <3>2. Counted(k)' = Counted(k) \ {l}
        BY <1>1, <1>2, <3>1, CountedMove
      <3>3. l \notin Counted(k)
        BY DEF Counted
      <3> QED
        BY <3>2, <3>3
    <2> QED
      BY <1>1, <2>1 DEF RefsExact
  <1>9. ASSUME ~sh_revived' PROVE HostsKept'
    <2>1. HostsKept
      BY <1>9 DEF HostInv
    <2>2. \A m \in LogicalUnits : sh_lu'[m] \in Using \cup {"last", "unlisted"} =>
                                    m # l /\ sh_lu'[m] = sh_lu[m] /\ sh_at'[m] = sh_at[m]
      BY <1>2, <1>3 DEF Using
    <2> QED
      BY <1>4, <1>6, <2>1, <2>2 DEF HostsKept
  <1> QED
    BY <1>5, <1>7, <1>8, <1>9 DEF HostInv

(* A user takes itself off the count, perhaps as the last one              *)
(* (kfio_port_scsi_lu_gone).                                               *)
LEMMA UserLeaves ==
    ASSUME HostInv, NEW l \in LogicalUnits, sh_list = <<sh_at[l]>>, LuGoneDecr(l)
    PROVE  HostInv'
  <1> DEFINE h == sh_at[l]
             pc == IF sh_ref[h] = 1 THEN "last" ELSE "not last"
  <1>1. HostTypes /\ HostsPlaced /\ RefsExact
    BY DEF HostInv
  <1>2. /\ sh_lu[l] = "removed" /\ sh_ref' = [sh_ref EXCEPT ![h] = @ - 1] /\ Goes(l, pc, h)
        /\ UNCHANGED <<sh_list, sh_life, sh_revived>>
    BY DEF LuGoneDecr
  <1>3. h \in HostIds /\ l \in Counted(h)
    BY <1>1, <1>2 DEF HostsPlaced, Counted
  <1> HIDE DEF h
  <1>4. /\ sh_lu' = [sh_lu EXCEPT ![l] = pc] /\ sh_at' = [sh_at EXCEPT ![l] = h]
    BY <1>2 DEF Goes
  <1>5. sh_at' = sh_at /\ pc \in {"last", "not last"} /\ (pc = "last" <=> sh_ref[h] = 1)
    BY <1>1, <1>4 DEF HostTypes, h
  <1> HIDE DEF pc
  <1>6. /\ \A m \in LogicalUnits : m # l => sh_lu'[m] = sh_lu[m]
        /\ sh_lu'[l] = pc
    BY <1>1, <1>4 DEF HostTypes
  <1>7. sh_ref[h] >= 1
    <2>1. Cardinality(Counted(h)) \in Nat /\ Cardinality(Counted(h)) # 0
      BY <1>3, CountedFinite
    <2> QED
      BY <1>1, <1>3, <2>1 DEF RefsExact
  <1>8. /\ sh_ref' \in [HostIds -> Nat]
        /\ \A g \in HostIds : sh_ref'[g] = sh_ref[g] - (IF g = h THEN 1 ELSE 0)
    <2>1. sh_ref \in [HostIds -> Nat]
      BY <1>1 DEF HostTypes
    <2>2. sh_ref' = [g \in HostIds |-> IF g = h THEN sh_ref[h] - 1 ELSE sh_ref[g]]
      BY <1>2, <2>1
    <2> QED
      BY <1>3, <1>7, <2>1, <2>2
  <1>9. HostTypes'
    <2>1. sh_lu' \in [LogicalUnits -> {"absent", "creating", "created", "counted", "adding", "exposed",
                                       "hidden", "removing", "removed", "last", "not last", "unlisted"}]
      BY <1>1, <1>4, <1>5 DEF HostTypes
    <2> QED
      BY <1>1, <1>2, <1>5, <1>8, <2>1 DEF HostTypes
  <1>10. HostsPlaced'
    BY <1>1, <1>2, <1>5, <1>6 DEF HostsPlaced
  <1>11. RefsExact'
    <2>1. ASSUME NEW g \in HostIds PROVE sh_ref'[g] = Cardinality(Counted(g)')
      <3>1. ~(pc \in Using) /\ sh_lu[l] \in Using
        BY <1>2, <1>5 DEF Using
      <3>2. Cardinality(Counted(g)') = Cardinality(Counted(g))
                                         + (IF pc \in Using /\ h = g THEN 1 ELSE 0)
                                         - (IF sh_lu[l] \in Using /\ sh_at[l] = g THEN 1 ELSE 0)
        BY <1>1, <1>2, CountedMove
      <3>3. Cardinality(Counted(g)') = Cardinality(Counted(g)) - (IF g = h THEN 1 ELSE 0)
        BY <3>1, <3>2, CountedFinite DEF h
      <3> QED
        BY <1>1, <1>8, <3>3 DEF RefsExact
    <2> QED
      BY <2>1 DEF RefsExact
  <1>12. ASSUME ~sh_revived' PROVE HostsKept'
    <2>1. HostsKept /\ sh_list = <<h>>
      BY <1>2, <1>12 DEF HostInv, h
    <2>2. \A m \in LogicalUnits : sh_lu[m] # "last"
      <3> SUFFICES ASSUME NEW m \in LogicalUnits, sh_lu[m] = "last" PROVE FALSE
        OBVIOUS
      <3>1. sh_ref[sh_at[m]] = 0 /\ sh_at[m] = h
        BY <2>1 DEF HostsKept
      <3> QED
        BY <1>7, <3>1
    <2>3. \A m \in LogicalUnits : sh_lu'[m] = "last" => m = l
      BY <1>6, <2>2
    <2>4. sh_lu'[l] = "last" => sh_ref'[sh_at'[l]] = 0 /\ sh_list' = <<sh_at'[l]>>
      BY <1>2, <1>3, <1>5, <1>6, <1>8, <2>1 DEF h
    <2>5. \A m \in LogicalUnits : sh_lu'[m] \in Using \cup {"unlisted"} => sh_lu'[m] = sh_lu[m]
      BY <1>5, <1>6 DEF Using
    <2> QED
      BY <1>2, <1>5, <2>1, <2>3, <2>4, <2>5 DEF HostsKept
  <1> QED
    BY <1>9, <1>10, <1>11, <1>12 DEF HostInv

(* Taking a host off a list of at most one host. *)
LEMMA UnlistOne ==
    ASSUME NEW g, NEW h
    PROVE  /\ RemoveFirst(<< >>, h) = << >>
           /\ g # h => RemoveFirst(<<g>>, h) = <<g>>
           /\ RemoveFirst(<<h>>, h) = << >>
  <1>1. RemoveFirst(<< >>, h) = << >>
    BY DEF RemoveFirst
  <1>2. ASSUME g # h PROVE RemoveFirst(<<g>>, h) = <<g>>
    <2>1. ~\E i \in 1..Len(<<g>>) : <<g>>[i] = h
      BY <1>2
    <2> QED
      BY <2>1 DEF RemoveFirst
  <1>3. RemoveFirst(<<h>>, h) = << >>
    <2>1. <<h>> \in Seq({h}) /\ Len(<<h>>) = 1 /\ <<h>>[1] = h
      OBVIOUS
    <2>2. Listed(h, <<h>>)
      BY <2>1 DEF Listed
    <2>3. PICK j \in 1..Len(<<h>>) : RemoveFirst(<<h>>, h) = RemoveAt(<<h>>, j)
      BY <2>1, <2>2, RemoveFirstAt
    <2>4. /\ RemoveAt(<<h>>, j) \in Seq({h}) /\ Len(RemoveAt(<<h>>, j)) = Len(<<h>>) - 1
      BY <2>1, RemoveAtPlaces
    <2>5. RemoveAt(<<h>>, j) = << >>
      BY <2>1, <2>4, EmptySeq
    <2> QED
      BY <2>3, <2>5
  <1> QED
    BY <1>1, <1>2, <1>3

(* The last user takes the host off the list, and destroys it              *)
(* (kfio_port_scsi_lu_gone).                                               *)
LEMMA HostEnds ==
    ASSUME HostInv, NEW l \in LogicalUnits, LuGoneUnlist(l) \/ LuGoneDestroy(l)
    PROVE  HostInv'
  <1> DEFINE h == sh_at[l]
  <1>1. HostTypes /\ HostsPlaced /\ RefsExact
    BY DEF HostInv
  <1>2. /\ sh_lu[l] \in {"last", "unlisted"} /\ UNCHANGED <<sh_ref, sh_revived>>
    BY DEF LuGoneUnlist, LuGoneDestroy
  <1>3. h \in HostIds /\ sh_life[h] # "free"
    BY <1>1, <1>2 DEF HostsPlaced
  <1>4. PICK pc, g : /\ Goes(l, pc, g) /\ sh_lu' = [sh_lu EXCEPT ![l] = pc] /\ sh_at' = [sh_at EXCEPT ![l] = g]
                     /\ \/ /\ pc = "unlisted" /\ g = h /\ sh_list' = RemoveFirst(sh_list, h) /\ sh_life' = sh_life
                           /\ sh_lu[l] = "last"
                        \/ /\ pc = "absent" /\ g = Nil /\ sh_life' = [sh_life EXCEPT ![h] = "destroyed"]
                           /\ sh_list' = sh_list /\ sh_lu[l] = "unlisted"
    BY DEF LuGoneUnlist, LuGoneDestroy, fio_port_scsi_host_destroy, Goes
  <1>5. /\ \A m \in LogicalUnits : m # l => sh_lu'[m] = sh_lu[m] /\ sh_at'[m] = sh_at[m]
        /\ sh_lu'[l] = pc /\ sh_at'[l] = g
    BY <1>1, <1>4 DEF HostTypes
  <1>6. sh_list' = sh_list \/ sh_list' = << >>
    BY <1>1, <1>4, UnlistOne, ZenonT(60) DEF HostsPlaced
  <1>7. HostTypes'
    <2>1. sh_list' \in Seq(HostIds)
      <3>1. << >> \in Seq(HostIds)
        OBVIOUS
      <3> QED
        BY <1>1, <1>6, <3>1 DEF HostTypes
    <2>2. /\ sh_lu' \in [LogicalUnits -> {"absent", "creating", "created", "counted", "adding", "exposed",
                                          "hidden", "removing", "removed", "last", "not last", "unlisted"}]
          /\ sh_at' \in [LogicalUnits -> HostIds \cup {Nil}]
          /\ sh_life' \in [HostIds -> {"free", "live", "destroyed", "leaked"}]
      BY <1>1, <1>3, <1>4 DEF HostTypes
    <2> QED
      BY <1>1, <1>2, <2>1, <2>2 DEF HostTypes
  <1>8. /\ \A k \in HostIds : k # h => sh_life'[k] = sh_life[k]
        /\ sh_life'[h] # "free"
    BY <1>1, <1>3, <1>4 DEF HostTypes
  <1>9. HostsPlaced'
    <2>1. \A m \in LogicalUnits : sh_lu'[m] = "created" =>
            /\ sh_life'[sh_at'[m]] = "live" /\ sh_list' # <<sh_at'[m]>>
            /\ \A k \in LogicalUnits : k # m => sh_at'[k] # sh_at'[m]
      <3> SUFFICES ASSUME NEW m \in LogicalUnits, sh_lu'[m] = "created"
                   PROVE  /\ sh_life'[sh_at'[m]] = "live" /\ sh_list' # <<sh_at'[m]>>
                          /\ \A k \in LogicalUnits : k # m => sh_at'[k] # sh_at'[m]
        OBVIOUS
      <3>1. m # l /\ sh_lu[m] = "created" /\ sh_at'[m] = sh_at[m]
        BY <1>4, <1>5
      <3>2. /\ sh_at[m] \in HostIds /\ sh_life[sh_at[m]] = "live" /\ sh_list # <<sh_at[m]>>
            /\ \A k \in LogicalUnits : k # m => sh_at[k] # sh_at[m]
        BY <1>1, <3>1 DEF HostsPlaced
      <3>3. sh_at[m] # h /\ sh_at[m] # Nil
        BY <3>1, <3>2, ScsiAssumption
      <3>4. sh_list' # <<sh_at[m]>>
        BY <1>6, <3>2
      <3>5. g \in {h, Nil}
        BY <1>4
      <3>6. \A k \in LogicalUnits : k # m => sh_at'[k] # sh_at[m]
        BY <1>5, <3>2, <3>3, <3>5
      <3> QED
        BY <1>8, <3>1, <3>2, <3>3, <3>4, <3>6
    <2>2. \A k \in HostIds : sh_list' = <<k>> => sh_life'[k] # "free"
      BY <1>1, <1>6, <1>8 DEF HostsPlaced
    <2>3. \A m \in LogicalUnits :
            /\ sh_lu'[m] \notin {"absent", "creating"} => sh_at'[m] \in HostIds /\ sh_life'[sh_at'[m]] # "free"
            /\ sh_lu'[m] \in {"absent", "creating"} => sh_at'[m] = Nil
      BY <1>1, <1>3, <1>4, <1>5, <1>8 DEF HostsPlaced
    <2> QED
      BY <1>1, <1>6, <2>1, <2>2, <2>3 DEF HostsPlaced
  <1>10. RefsExact'
    <2>1. ASSUME NEW k \in HostIds PROVE Counted(k)' = Counted(k)
      <3>1. ~(pc \in Using)
        BY <1>4 DEF Using
      <3>2. Counted(k)' = Counted(k) \ {l}
        BY <1>1, <1>4, <3>1, CountedMove
      <3>3. l \notin Counted(k)
        BY <1>2 DEF Counted
      <3> QED
        BY <3>2, <3>3
    <2> QED
      BY <1>1, <1>2, <2>1 DEF RefsExact
  <1>11. ASSUME ~sh_revived' PROVE HostsKept'
    <2>1. HostsKept
      BY <1>2, <1>11 DEF HostInv
    <2>2. CASE sh_lu[l] = "last"
      <3>1. sh_list = <<h>> /\ sh_ref[h] = 0
        BY <2>1, <2>2 DEF HostsKept
      <3>2. sh_list' = << >> /\ pc = "unlisted"
        BY <1>4, <2>2, <3>1, UnlistOne
      <3>3. Counted(h) = {}
        BY <1>1, <1>3, <3>1, CountedFinite DEF RefsExact
      <3>4. \A m \in LogicalUnits : sh_lu[m] \notin Using
        BY <2>1, <3>1, <3>3 DEF HostsKept, Counted, Using
      <3>5. \A m \in LogicalUnits : sh_lu'[m] \notin Using /\ sh_lu'[m] # "last"
        BY <1>5, <2>1, <2>2, <3>2, <3>4 DEF HostsKept, Using
      <3> QED
        BY <3>2, <3>5 DEF HostsKept
    <2>3. CASE sh_lu[l] = "unlisted"
      <3>1. pc = "absent" /\ sh_list' = sh_list /\ sh_list # <<h>>
        BY <1>4, <2>1, <2>3 DEF HostsKept
      <3>2. \A m \in LogicalUnits : sh_lu'[m] \in Using \cup {"last", "unlisted"} =>
                                      m # l /\ sh_lu'[m] = sh_lu[m] /\ sh_at'[m] = sh_at[m]
        BY <1>5, <3>1 DEF Using
      <3> QED
        BY <1>2, <1>8, <2>1, <3>1, <3>2 DEF HostsKept
    <2> QED
      BY <1>2, <2>2, <2>3
  <1> QED
    BY <1>7, <1>9, <1>10, <1>11 DEF HostInv

(* A step of a thread of the fio-scsi layer keeps the hosts as they should *)
(* be.  The first four actions are kfio_port_scsi_new_lu, the last six     *)
(* kfio_port_scsi_lu_gone.                                                 *)
LEMMA ThreadKeepsHosts ==
    ASSUME HostInv, ~Orphaned, NEW l \in LogicalUnits, LuThread(l)
    PROVE  HostInv'
  <1> DEFINE found == fio_port_scsi_host_lookup_from_tid
  <1>1. HostTypes /\ HostsPlaced
    BY DEF HostInv
  <1>2. (sh_list = << >> /\ found = Nil) \/ (found \in HostIds /\ found # Nil /\ sh_list = <<found>>)
    <2>1. CASE sh_list = << >>
      BY <2>1 DEF fio_port_scsi_host_lookup_from_tid
    <2>2. ASSUME NEW h \in HostIds, sh_list = <<h>> PROVE found = h /\ h # Nil
      BY <2>2, ScsiAssumption DEF fio_port_scsi_host_lookup_from_tid
    <2> QED
      BY <1>1, <2>1, <2>2 DEF HostsPlaced
  <1>3. sh_lu[l] \in Using => sh_list = <<sh_at[l]>> /\ found = sh_at[l]
    BY <1>2 DEF Orphaned, Using, fio_port_scsi_host_lookup_from_tid
  <1> HIDE DEF found
  <1>4. CASE NewLuLookup(l)
    <2>1. CASE found = Nil
      <3>1. sh_lu[l] = "absent" /\ Goes(l, "creating", Nil) /\ UNCHANGED <<sh_list, sh_life, sh_ref, sh_revived>>
        BY <1>4, <2>1 DEF NewLuLookup, found
      <3> QED
        BY <3>1, NobodyMoves
    <2>2. CASE found # Nil
      <3>1. sh_lu[l] = "absent" /\ CountOn(l, found) /\ sh_list' = sh_list /\ sh_life' = sh_life
        BY <1>4, <2>2 DEF NewLuLookup, found
      <3> QED
        BY <1>2, <2>2, <3>1, TakesListed
    <2> QED
      BY <2>1, <2>2
  <1>5. CASE fio_port_scsi_host_create(l)
    <2>1. sh_lu[l] = "creating" /\ UNCHANGED <<sh_list, sh_ref, sh_revived>>
      BY <1>5 DEF fio_port_scsi_host_create
    <2>2. CASE Goes(l, "absent", Nil) /\ UNCHANGED sh_life
      BY <2>1, <2>2, NobodyMoves
    <2>3. ASSUME NEW h \in HostIds, sh_life[h] = "free",
                 \/ Goes(l, "created", h) /\ sh_life' = [sh_life EXCEPT ![h] = "live"]
                 \/ Goes(l, "absent", Nil) /\ sh_life' = [sh_life EXCEPT ![h] = "leaked"]
          PROVE  HostInv'
      BY <2>1, <2>3, HostMade
    <2> QED
      BY <1>5, <2>2, <2>3 DEF fio_port_scsi_host_create
  <1>6. CASE NewLuCreated(l)
    <2>1. sh_lu[l] = "created"
      BY <1>6 DEF NewLuCreated
    <2>2. CASE found # Nil
      <3>1. /\ sh_life' = [sh_life EXCEPT ![sh_at[l]] = "destroyed"]
            /\ CountOn(l, found) /\ sh_list' = sh_list
        BY <1>6, <2>2 DEF NewLuCreated, fio_port_scsi_host_destroy, found
      <3> QED
        BY <1>2, <2>1, <2>2, <3>1, TakesListed
    <2>3. CASE found = Nil
      <3>1. sh_list' = Append(sh_list, sh_at[l]) /\ CountOn(l, sh_at[l]) /\ sh_life' = sh_life
        BY <1>6, <2>3 DEF NewLuCreated, found
      <3>2. sh_list = << >>
        BY <1>2, <2>3
      <3>3. sh_list' = <<sh_at[l]>>
        BY <3>1, <3>2
      <3> QED
        BY <2>1, <3>1, <3>2, <3>3, ListsOwn
    <2> QED
      BY <2>2, <2>3
  <1>7. CASE \/ NewLuUnhook(l) \/ fio_port_scsi_host_add_lu(l) \/ kfio_port_scsi_lu_hidden(l)
             \/ LuGoneLookup(l) \/ fio_port_scsi_host_remove_lu(l)
    <2>1. sh_lu[l] \in Using /\ UNCHANGED <<sh_list, sh_life, sh_ref, sh_revived>>
      BY <1>7 DEF NewLuUnhook, fio_port_scsi_host_add_lu, kfio_port_scsi_lu_hidden, LuGoneLookup,
                  fio_port_scsi_host_remove_lu, Using
    <2>2. found = sh_at[l] /\ found # Nil
      BY <1>2, <1>3, <2>1
    <2>3. \E pc \in Using : Goes(l, pc, sh_at[l])
      <3>1. {"adding", "exposed", "hidden", "removing", "removed"} \subseteq Using
        BY DEF Using
      <3>2. CASE NewLuUnhook(l)
        BY <3>1, <3>2 DEF NewLuUnhook
      <3>3. CASE fio_port_scsi_host_add_lu(l)
        BY <3>1, <3>3 DEF fio_port_scsi_host_add_lu
      <3>4. CASE kfio_port_scsi_lu_hidden(l)
        BY <3>1, <3>4 DEF kfio_port_scsi_lu_hidden
      <3>5. CASE LuGoneLookup(l)
        <4>1. Goes(l, "removing", found)
          BY <2>2, <3>5 DEF LuGoneLookup, found
        <4> QED
          BY <2>2, <3>1, <4>1
      <3>6. CASE fio_port_scsi_host_remove_lu(l)
        BY <3>1, <3>6 DEF fio_port_scsi_host_remove_lu
      <3> QED
        BY <1>7, <3>2, <3>3, <3>4, <3>5, <3>6
    <2> QED
      BY <2>1, <2>3, UserGoesOn
  <1>8. CASE LuGoneDecr(l)
    <2>1. sh_lu[l] = "removed"
      BY <1>8 DEF LuGoneDecr
    <2>2. sh_list = <<sh_at[l]>>
      BY <1>3, <2>1 DEF Using
    <2> QED
      BY <1>8, <2>2, UserLeaves
  <1>9. CASE LuGoneUnhook(l)
    <2>1. sh_lu[l] = "not last" /\ Goes(l, "absent", Nil) /\ UNCHANGED <<sh_list, sh_life, sh_ref, sh_revived>>
      BY <1>9 DEF LuGoneUnhook
    <2> QED
      BY <2>1, NobodyMoves
  <1>10. CASE LuGoneUnlist(l) \/ LuGoneDestroy(l)
    BY <1>10, HostEnds
  <1> QED
    BY <1>4, <1>5, <1>6, <1>7, <1>8, <1>9, <1>10 DEF LuThread

(* Unhooking the devices of a host clears both sides of each hook          *)
(* (fio_scsi_shost_unhook_devices_from_lus).                               *)
LEMMA UnhooksBothSides ==
    ASSUME NEW h, Hooked(sd_there, sd_hostdata, lu_port, lu_stale), UNCHANGED <<sd_there, lu_stale>>,
           fio_scsi_shost_unhook_devices_from_lus(h)
    PROVE  Hooked(sd_there, sd_hostdata, lu_port, lu_stale)'
  <1>1. /\ lu_port' = lu_port \ {l \in DevicesOf(h) : fio_scsi_lu_from_sdev_locked(l) # Nil}
        /\ sd_hostdata' = sd_hostdata \ DevicesOf(h)
    BY DEF fio_scsi_shost_unhook_devices_from_lus
  <1>2. sd_hostdata' \subseteq lu_port' /\ lu_port' \subseteq lu_port
    BY <1>1 DEF Hooked
  <1> QED
    BY <1>2 DEF Hooked

(* A step of a thread of the fio-scsi layer keeps the hooks valid, and     *)
(* takes no device away that a command is under way for.                   *)
LEMMA ThreadKeepsHooks ==
    ASSUME HostInv, HookInv, ~Orphaned, NEW l \in LogicalUnits, LuThread(l)
    PROVE  HookInv'
  <1>1. /\ Hooked(sd_there, sd_hostdata, lu_port, lu_stale)
        /\ sd_there \subseteq LogicalUnits
        /\ \A m \in sd_there : sh_lu[m] \in {"exposed", "hidden", "removing"}
        /\ \A c \in ScsiCmnds : sc_at[c] # "idle" \/ sc_in[c] => sc_lu[c] \in sd_there
        /\ HostTypes
    BY DEF HookInv, HostInv, Hooked
  <1>2. UNCHANGED scVars
    BY DEF LuThread, NewLuLookup, fio_port_scsi_host_create, NewLuCreated, NewLuUnhook, fio_port_scsi_host_add_lu,
           kfio_port_scsi_lu_hidden, LuGoneLookup, fio_port_scsi_host_remove_lu, LuGoneDecr, LuGoneUnhook,
           LuGoneUnlist, LuGoneDestroy
  <1>3. PICK pc, h : Goes(l, pc, h)
    BY DEF LuThread, NewLuLookup, fio_port_scsi_host_create, NewLuCreated, NewLuUnhook, fio_port_scsi_host_add_lu,
           kfio_port_scsi_lu_hidden, LuGoneLookup, fio_port_scsi_host_remove_lu, LuGoneDecr, LuGoneUnhook,
           LuGoneUnlist, LuGoneDestroy, CountOn
  <1>4. /\ \A m \in LogicalUnits : m # l => sh_lu'[m] = sh_lu[m]
        /\ \A q, g : Goes(l, q, g) => sh_lu'[l] = q
    BY <1>1, <1>3 DEF Goes, HostTypes
  <1> SUFFICES /\ Hooked(sd_there, sd_hostdata, lu_port, lu_stale)'
               /\ \A m \in sd_there' : sh_lu'[m] \in {"exposed", "hidden", "removing"}
               /\ \A c \in ScsiCmnds : sc_at[c] # "idle" \/ sc_in[c] => sc_lu[c] \in sd_there'
    BY <1>2 DEF HookInv, scVars
  <1>5. ASSUME sh_lu[l] \notin {"exposed", "hidden", "removing"}, sd_there' = sd_there
        PROVE  \A m \in sd_there' : sh_lu'[m] \in {"exposed", "hidden", "removing"}
    BY <1>1, <1>4, <1>5
  <1>6. CASE \/ NewLuLookup(l) \/ fio_port_scsi_host_create(l) \/ NewLuCreated(l)
             \/ LuGoneDecr(l) \/ LuGoneUnlist(l) \/ LuGoneDestroy(l)
    <2>1. /\ sh_lu[l] \notin {"exposed", "hidden", "removing"}
          /\ UNCHANGED <<sd_there, sd_hostdata, lu_port, lu_stale>>
      BY <1>6 DEF NewLuLookup, fio_port_scsi_host_create, NewLuCreated, LuGoneDecr, LuGoneUnlist, LuGoneDestroy,
                  sdVars
    <2>2. Hooked(sd_there, sd_hostdata, lu_port, lu_stale)'
      BY <1>1, <2>1 DEF Hooked
    <2> QED
      BY <1>1, <1>5, <2>1, <2>2
  <1>7. CASE NewLuUnhook(l) \/ LuGoneUnhook(l)
    <2>1. sh_lu[l] \notin {"exposed", "hidden", "removing"} /\ UNCHANGED <<sd_there, lu_stale>>
      BY <1>7 DEF NewLuUnhook, LuGoneUnhook
    <2>2. fio_scsi_shost_unhook_devices_from_lus(sh_at[l])
      BY <1>7 DEF NewLuUnhook, LuGoneUnhook
    <2>3. Hooked(sd_there, sd_hostdata, lu_port, lu_stale)'
      BY <1>1, <2>1, <2>2, UnhooksBothSides
    <2> QED
      BY <1>1, <1>5, <2>1, <2>3
  <1>8. CASE fio_port_scsi_host_add_lu(l)
    <2>1. sh_lu[l] = "adding" /\ sd_hostdata' = sd_hostdata
      BY <1>8 DEF fio_port_scsi_host_add_lu
    <2>2. ASSUME sd_there' = sd_there \cup {l}, Goes(l, "exposed", sh_at[l]),
                 NEW same \in SUBSET ({l} \cap lu_stale),
                 lu_port' = lu_port \cup same, lu_stale' = lu_stale \ same
          PROVE  /\ Hooked(sd_there, sd_hostdata, lu_port, lu_stale)'
                 /\ \A m \in sd_there' : sh_lu'[m] \in {"exposed", "hidden", "removing"}
      <3>1. Hooked(sd_there, sd_hostdata, lu_port, lu_stale)'
        BY <1>1, <2>1, <2>2 DEF Hooked
      <3> QED
        BY <1>1, <1>4, <2>2, <3>1
    <2>3. ASSUME UNCHANGED <<sd_there, lu_port, lu_stale>>
          PROVE  /\ Hooked(sd_there, sd_hostdata, lu_port, lu_stale)'
                 /\ \A m \in sd_there' : sh_lu'[m] \in {"exposed", "hidden", "removing"}
      BY <1>1, <1>5, <2>1, <2>3 DEF Hooked
    <2>4. /\ Hooked(sd_there, sd_hostdata, lu_port, lu_stale)'
          /\ \A m \in sd_there' : sh_lu'[m] \in {"exposed", "hidden", "removing"}
      BY <1>8, <2>2, <2>3 DEF fio_port_scsi_host_add_lu
    <2>5. sd_there \subseteq sd_there'
      BY <1>8 DEF fio_port_scsi_host_add_lu
    <2> QED
      BY <1>1, <2>4, <2>5
  <1>9. CASE kfio_port_scsi_lu_hidden(l)
    <2>1. /\ sd_there' = sd_there /\ sd_hostdata' = sd_hostdata \ {l} /\ lu_port' = lu_port \ {l}
          /\ lu_stale' = lu_stale \ {l} /\ sh_lu'[l] = "hidden"
      BY <1>4, <1>9 DEF kfio_port_scsi_lu_hidden
    <2>2. Hooked(sd_there, sd_hostdata, lu_port, lu_stale)'
      BY <1>1, <2>1 DEF Hooked
    <2> QED
      BY <1>1, <1>4, <2>1, <2>2
  <1>10. CASE LuGoneLookup(l)
    <2>1. sh_lu[l] = "hidden" /\ UNCHANGED <<sd_there, sd_hostdata, lu_port, lu_stale>>
      BY <1>10 DEF LuGoneLookup, sdVars
    <2>2. sh_list = <<sh_at[l]>>
      BY <2>1 DEF Orphaned
    <2>3. sh_at[l] \in HostIds
      BY <2>1 DEF HostInv, HostsPlaced
    <2>4. fio_port_scsi_host_lookup_from_tid # Nil
      BY <2>2, <2>3, ScsiAssumption DEF fio_port_scsi_host_lookup_from_tid
    <2>5. sh_lu'[l] = "removing"
      BY <1>4, <1>10, <2>4 DEF LuGoneLookup
    <2>6. Hooked(sd_there, sd_hostdata, lu_port, lu_stale)'
      BY <1>1, <2>1 DEF Hooked
    <2> QED
      BY <1>1, <1>4, <2>1, <2>5, <2>6
  <1>11. CASE fio_port_scsi_host_remove_lu(l)
    <2>1. /\ sd_there' = sd_there \ {l} /\ sd_hostdata' = sd_hostdata \ {l} /\ lu_port' = lu_port \ {l}
          /\ lu_stale' = lu_stale \cup ({l} \cap lu_port)
      BY <1>11 DEF fio_port_scsi_host_remove_lu
    <2>2. \A c \in ScsiCmnds : sc_at[c] # "idle" \/ sc_in[c] => sc_lu[c] # l
      BY <1>11 DEF fio_port_scsi_host_remove_lu, Busy
    <2>3. Hooked(sd_there, sd_hostdata, lu_port, lu_stale)'
      BY <1>1, <2>1 DEF Hooked
    <2> QED
      BY <1>1, <1>4, <2>1, <2>2, <2>3
  <1> QED
    BY <1>6, <1>7, <1>8, <1>9, <1>10, <1>11 DEF LuThread

(* A command goes on, and the hooks stay valid. *)
LEMMA CommandGoesOn ==
    ASSUME HookInv, NEW c \in ScsiCmnds, NEW l, sc_lu' = [sc_lu EXCEPT ![c] = l],
           NEW at \in {"idle", "unhooked", "hooking", "alloc", "received", "done"},
           sc_at' = [sc_at EXCEPT ![c] = at],
           NEW in \in BOOLEAN, sc_in' = [sc_in EXCEPT ![c] = in],
           l \in LogicalUnits \cup {Nil}, at # "idle" \/ in => l \in sd_there,
           sc_late' \in [ScsiCmnds -> 0 .. LateCalls],
           Hooked(sd_there, sd_hostdata, lu_port, lu_stale)', UNCHANGED <<sd_there, sh_lu>>
    PROVE  HookInv'
  <1>1. /\ sc_at' \in [ScsiCmnds -> {"idle", "unhooked", "hooking", "alloc", "received", "done"}]
        /\ sc_lu' \in [ScsiCmnds -> LogicalUnits \cup {Nil}]
    BY DEF HookInv
  <1>2. sc_in' \in [ScsiCmnds -> BOOLEAN]
    BY DEF HookInv
  <1>3. /\ \A d \in ScsiCmnds : d # c => sc_at'[d] = sc_at[d] /\ sc_lu'[d] = sc_lu[d] /\ sc_in'[d] = sc_in[d]
        /\ sc_at'[c] = at /\ sc_lu'[c] = l /\ sc_in'[c] = in
    BY DEF HookInv
  <1>4. \A d \in ScsiCmnds : sc_at'[d] # "idle" \/ sc_in'[d] => sc_lu'[d] \in sd_there
    BY <1>3 DEF HookInv
  <1> QED
    BY <1>1, <1>2, <1>4 DEF HookInv

(* A command whose place, logical unit and return are as before. *)
LEMMA CommandStays ==
    ASSUME HookInv, NEW c \in ScsiCmnds
    PROVE  /\ sc_at' = sc_at => sc_at' = [sc_at EXCEPT ![c] = sc_at[c]]
           /\ sc_lu' = sc_lu => sc_lu' = [sc_lu EXCEPT ![c] = sc_lu[c]]
           /\ sc_in' = sc_in => sc_in' = [sc_in EXCEPT ![c] = sc_in[c]]
           /\ sc_in[c] \in BOOLEAN /\ sc_lu[c] \in LogicalUnits \cup {Nil}
           /\ sc_at[c] \in {"idle", "unhooked", "hooking", "alloc", "received", "done"}
           /\ sc_at[c] # "idle" \/ sc_in[c] => sc_lu[c] \in sd_there
           /\ sc_late' = sc_late => sc_late' \in [ScsiCmnds -> 0 .. LateCalls]
  BY DEF HookInv

(* What a command does in fio_shost_queuecommand, in the completor, in an  *)
(* abort and in the midlayer keeps the hooks valid and the command on a    *)
(* device that is there.                                                   *)
LEMMA CommandKeepsHooks ==
    ASSUME HookInv, NEW c \in ScsiCmnds, Command(c)
    PROVE  HookInv' /\ UNCHANGED <<shVars, sd_there, sh_revived>>
  <1> DEFINE At == {"idle", "unhooked", "hooking", "alloc", "received", "done"}
             Frame == UNCHANGED <<shVars, sd_there, sh_revived>>
             Hooks == Hooked(sd_there, sd_hostdata, lu_port, lu_stale)'
             Late == sc_late' \in [ScsiCmnds -> 0 .. LateCalls]
             On(at, l, in) == /\ sc_at' = [sc_at EXCEPT ![c] = at]
                              /\ sc_lu' = [sc_lu EXCEPT ![c] = l]
                              /\ sc_in' = [sc_in EXCEPT ![c] = in]
  <1>1. ASSUME NEW at \in At, NEW l \in LogicalUnits \cup {Nil}, NEW in \in BOOLEAN, On(at, l, in),
               at # "idle" \/ in => l \in sd_there, Hooks, Late, Frame
        PROVE  HookInv' /\ Frame
    <2>1. UNCHANGED <<sd_there, sh_lu>>
      BY <1>1 DEF shVars
    <2> QED
      BY <1>1, <2>1, CommandGoesOn
  <1>2. ASSUME UNCHANGED sdVars PROVE Hooks
    BY <1>2 DEF sdVars, HookInv, Hooked
  <1>12. ASSUME NEW m, FixInvalidLu(m), UNCHANGED <<sd_there, lu_port, lu_stale>> PROVE Hooks
    BY <1>12 DEF FixInvalidLu, HookInv, Hooked
  <1>3. /\ sc_at' = sc_at => sc_at' = [sc_at EXCEPT ![c] = sc_at[c]]
        /\ sc_lu' = sc_lu => sc_lu' = [sc_lu EXCEPT ![c] = sc_lu[c]]
        /\ sc_in' = sc_in => sc_in' = [sc_in EXCEPT ![c] = sc_in[c]]
        /\ sc_in[c] \in BOOLEAN /\ sc_lu[c] \in LogicalUnits \cup {Nil} /\ sc_at[c] \in At
        /\ sc_at[c] # "idle" \/ sc_in[c] => sc_lu[c] \in sd_there
        /\ sc_late' = sc_late => Late
    BY CommandStays
  <1>4. ASSUME NEW l \in LogicalUnits, QueueCommand(c, l) PROVE HookInv' /\ Frame
    <2>1. PICK at \in {"unhooked", "alloc"} : On(at, l, TRUE)
      BY <1>4 DEF QueueCommand
    <2>2. l \in sd_there /\ sc_late' = sc_late /\ Frame
      BY <1>4 DEF QueueCommand
    <2>3. Hooks
      BY <1>4, <1>12 DEF QueueCommand
    <2> QED
      BY <1>1, <1>3, <2>1, <2>2, <2>3
  <1>5. CASE QueueLookup(c)
    <2>1. /\ \/ On("hooking", sc_lu[c], sc_in[c])
             \/ On("done", sc_lu[c], FALSE)
          /\ sc_lu[c] \in sd_there
      BY <1>3, <1>5 DEF QueueLookup, fio_scmd_immediate_error, Done
    <2>2. UNCHANGED sdVars /\ sc_late' = sc_late /\ Frame
      BY <1>5 DEF QueueLookup, sdVars
    <2> QED
      BY <1>1, <1>2, <1>3, <2>1, <2>2
  <1>6. CASE QueueHook(c)
    <2>1. On("alloc", sc_lu[c], sc_in[c]) /\ sc_lu[c] \in sd_there
      BY <1>3, <1>6 DEF QueueHook
    <2>2. Frame /\ sc_late' = sc_late
      BY <1>6 DEF QueueHook
    <2>3. Hooks
      BY <1>6, <2>1 DEF QueueHook, HookInv, Hooked
    <2> QED
      BY <1>1, <1>3, <2>1, <2>2, <2>3
  <1>7. CASE QueueAlloc(c)
    <2>1. /\ \/ On("idle", sc_lu[c], FALSE)
             \/ On("done", sc_lu[c], FALSE)
             \/ On("received", sc_lu[c], sc_in[c])
          /\ sc_lu[c] \in sd_there
      BY <1>3, <1>7 DEF QueueAlloc, HostBusy, fio_scmd_immediate_error, Done
    <2>2. UNCHANGED sdVars /\ sc_late' = sc_late /\ Frame
      BY <1>7 DEF QueueAlloc, sdVars
    <2> QED
      BY <1>1, <1>2, <1>3, <2>1, <2>2
  <1>8. CASE QueueNoMemory(c)
    <2>1. On("idle", sc_lu[c], FALSE)
      BY <1>3, <1>8 DEF QueueNoMemory, HostBusy
    <2>2. UNCHANGED sdVars /\ sc_late' = sc_late /\ Frame
      BY <1>8 DEF QueueNoMemory, sdVars
    <2> QED
      BY <1>1, <1>2, <1>3, <2>1, <2>2
  <1>9. CASE QueueReturn(c)
    <2>1. On(sc_at[c], sc_lu[c], FALSE) /\ sc_lu[c] \in sd_there
      BY <1>3, <1>9 DEF QueueReturn
    <2>2. UNCHANGED sdVars /\ sc_late' = sc_late /\ Frame
      BY <1>9 DEF QueueReturn, sdVars
    <2> QED
      BY <1>1, <1>2, <1>3, <2>1, <2>2
  <1>10. CASE LateReturn(c)
    <2>1. On(sc_at[c], sc_lu[c], sc_in[c])
      BY <1>3, <1>10 DEF LateReturn
    <2>2. UNCHANGED sdVars /\ Frame
      BY <1>10 DEF LateReturn, sdVars
    <2>3. Late
      BY <1>10, ScsiAssumption DEF LateReturn, HookInv
    <2> QED
      BY <1>1, <1>2, <1>3, <2>1, <2>2, <2>3
  <1>11. CASE kfio_port_scsi_cmd_completor(c)
    <2>1. /\ \E at \in {sc_at[c], "done"} : On(at, sc_lu[c], sc_in[c])
          /\ sc_lu[c] \in sd_there
      BY <1>3, <1>11 DEF kfio_port_scsi_cmd_completor, Complete, Done
    <2>2. UNCHANGED sdVars /\ sc_late' = sc_late /\ Frame
      BY <1>11 DEF kfio_port_scsi_cmd_completor, sdVars
    <2> QED
      BY <1>1, <1>2, <1>3, <2>1, <2>2
  <1>13. CASE AbortCommand(c)
    <2>1. /\ \E at \in {sc_at[c], "done"} : On(at, sc_lu[c], sc_in[c])
          /\ sc_lu[c] \in sd_there
      BY <1>3, <1>13 DEF AbortCommand, Complete, Done
    <2>2. sc_late' = sc_late /\ Frame
      BY <1>13 DEF AbortCommand
    <2>3. Hooks
      BY <1>12, <1>13 DEF AbortCommand
    <2> QED
      BY <1>1, <1>3, <2>1, <2>2, <2>3
  <1>14. CASE MidlayerReap(c)
    <2>1. On("idle", Nil, FALSE)
      BY <1>3, <1>14 DEF MidlayerReap
    <2>2. UNCHANGED sdVars /\ Frame
      BY <1>14 DEF MidlayerReap, sdVars
    <2>3. Late
      BY <1>14, ScsiAssumption DEF MidlayerReap, HookInv
    <2> QED
      BY <1>1, <1>2, <1>3, <2>1, <2>2, <2>3
  <1> QED
    BY <1>4, <1>5, <1>6, <1>7, <1>8, <1>9, <1>10, <1>11, <1>13, <1>14 DEF Command

(* So does a reset, which answers every command of the target that it may. *)
LEMMA ResetKeepsHooks ==
    ASSUME HookInv, fio_shost_reset_all_lus
    PROVE  HookInv' /\ UNCHANGED <<shVars, sd_there, sh_revived>>
  <1>1. /\ UNCHANGED <<shVars, sd_there, sd_hostdata, lu_port, lu_stale, sc_lu, sc_in, sc_late, sh_revived>>
        /\ \E hit : /\ \A c \in hit : c \in ScsiCmnds /\ sc_at[c] = "received"
                    /\ sc_at' = [c \in ScsiCmnds |-> IF c \in hit THEN "done" ELSE sc_at[c]]
    BY DEF fio_shost_reset_all_lus, sdVars
  <1>2. /\ sc_at' \in [ScsiCmnds -> {"idle", "unhooked", "hooking", "alloc", "received", "done"}]
        /\ \A c \in ScsiCmnds : sc_at'[c] = sc_at[c] \/ sc_at[c] # "idle"
    BY <1>1 DEF HookInv
  <1> QED
    BY <1>1, <1>2 DEF HookInv, Hooked, shVars

(* Every step keeps the invariant. *)
LEMMA ScsiNextInv == ScsiIInv /\ [ScsiNext]_scsiVars => ScsiIInv'
  <1> SUFFICES ASSUME ScsiIInv, [ScsiNext]_scsiVars PROVE ScsiIInv'
    OBVIOUS
  <1>1. HostInv /\ HookInv
    BY DEF ScsiIInv
  <1>2. ASSUME UNCHANGED <<shVars, sh_revived>> PROVE HostInv'
    <2>1. /\ sh_list' = sh_list /\ sh_life' = sh_life /\ sh_ref' = sh_ref /\ sh_lu' = sh_lu /\ sh_at' = sh_at
          /\ sh_revived' = sh_revived
      BY <1>2 DEF shVars
    <2>2. HostTypes' /\ HostsPlaced'
      BY <1>1, <2>1 DEF HostInv, HostTypes, HostsPlaced
    <2>3. RefsExact'
      <3>1. \A h \in HostIds : Counted(h)' = Counted(h)
        BY <2>1 DEF Counted
      <3> QED
        BY <1>1, <2>1, <3>1 DEF HostInv, RefsExact
    <2>4. HostsKept => HostsKept'
      BY <2>1 DEF HostsKept
    <2> QED
      BY <1>1, <2>1, <2>2, <2>3, <2>4 DEF HostInv
  <1>3. ASSUME ~Orphaned, NEW l \in LogicalUnits, LuThread(l) PROVE ScsiIInv'
    BY <1>1, <1>3, ThreadKeepsHosts, ThreadKeepsHooks DEF ScsiIInv
  <1>4. ASSUME NEW c \in ScsiCmnds, Command(c) PROVE ScsiIInv'
    BY <1>1, <1>2, <1>4, CommandKeepsHooks DEF ScsiIInv
  <1>5. CASE fio_shost_reset_all_lus
    BY <1>1, <1>2, <1>5, ResetKeepsHooks DEF ScsiIInv
  <1>6. CASE UNCHANGED scsiVars
    <2>1. HookInv'
      BY <1>1, <1>6 DEF HookInv, Hooked, scsiVars, sdVars, scVars, shVars
    <2> QED
      BY <1>2, <1>6, <2>1 DEF ScsiIInv, scsiVars
  <1> QED
    BY <1>3, <1>4, <1>5, <1>6 DEF ScsiNext

(* For any number of hosts, logical units and commands: as long as no host *)
(* is counted again after its count had reached 0, ref_count is exact,     *)
(* every user's host is live and listed, and no command divides by zero;   *)
(* a device that points to a unit is always the one it points back to.     *)
THEOREM HostCountsExact == ScsiSpec => [](ScsiTypeOK /\ HostCountExact)
  <1>1. ScsiSpec => []ScsiIInv
    BY ScsiInitInv, ScsiNextInv, PTL DEF ScsiSpec
  <1> QED
    BY <1>1, ScsiIInvSuffices, PTL

(* A command that is done was answered once, any other not at all. *)
AnswersCounted ==
    /\ sc_answers = [c \in ScsiCmnds |-> IF sc_at[c] = "done" THEN 1 ELSE 0]
    /\ sc_result = [c \in ScsiCmnds |-> sc_result[c]]

(* What a step may do to the answer of a command. *)
AnswerStep(c) ==
    /\ sc_answers'[c] <= 1
    /\ sc_at[c] = "done" =>
         \/ /\ sc_at'[c] = "done"
            /\ sc_result'[c] = sc_result[c] \/ (sc_result'[c] = Good /\ QueueRunning(c))
         \/ sc_at'[c] = "idle" /\ sc_answers[c] = 1

(* A command that was answered keeps its answer or is given back to the    *)
(* midlayer: a second completion finds host_scribble cleared               *)
(* (kfio_port_scsi_cmd_completor).                                         *)
LEMMA CommandKeepsAnswers ==
    ASSUME HookInv, AnswersCounted, NEW c \in ScsiCmnds, Command(c)
    PROVE  /\ AnswersCounted'
           /\ \A d \in ScsiCmnds : AnswerStep(d)
  <1>1. /\ sc_at \in [ScsiCmnds -> {"idle", "unhooked", "hooking", "alloc", "received", "done"}]
        /\ sc_answers = [d \in ScsiCmnds |-> IF sc_at[d] = "done" THEN 1 ELSE 0]
        /\ sc_answers[c] = IF sc_at[c] = "done" THEN 1 ELSE 0
    BY DEF HookInv, AnswersCounted
  <1>2. /\ \A d \in ScsiCmnds : d # c => sc_at'[d] = sc_at[d] /\ sc_result'[d] = sc_result[d]
                                                           /\ sc_answers'[d] = sc_answers[d]
        /\ sc_answers' = [d \in ScsiCmnds |-> sc_answers'[d]] /\ sc_result' = [d \in ScsiCmnds |-> sc_result'[d]]
    <2>1. /\ sc_at' = sc_at \/ \E a : sc_at' = [sc_at EXCEPT ![c] = a]
          /\ sc_result' = sc_result \/ \E a : sc_result' = [sc_result EXCEPT ![c] = a]
          /\ sc_answers' = sc_answers \/ \E a : sc_answers' = [sc_answers EXCEPT ![c] = a]
      BY DEF Command, QueueCommand, QueueLookup, QueueHook, QueueAlloc, QueueNoMemory, QueueReturn, LateReturn,
             kfio_port_scsi_cmd_completor, AbortCommand, MidlayerReap, Complete, Done, fio_scmd_immediate_error,
             HostBusy
    <2>2. \A d \in ScsiCmnds : d # c => sc_at'[d] = sc_at[d]
      BY <1>1, <2>1
    <2>3. /\ \A d \in ScsiCmnds : d # c => sc_result'[d] = sc_result[d]
          /\ sc_result' = [d \in ScsiCmnds |-> sc_result'[d]]
      BY <2>1 DEF AnswersCounted
    <2>4. /\ \A d \in ScsiCmnds : d # c => sc_answers'[d] = sc_answers[d]
          /\ sc_answers' = [d \in ScsiCmnds |-> sc_answers'[d]]
      BY <1>1, <2>1
    <2> QED
      BY <2>2, <2>3, <2>4
  <1>3. /\ sc_answers'[c] = IF sc_at'[c] = "done" THEN 1 ELSE 0
        /\ sc_at[c] = "done" =>
             \/ /\ sc_at'[c] = "done"
                /\ sc_result'[c] = sc_result[c] \/ (sc_result'[c] = Good /\ QueueRunning(c))
             \/ sc_at'[c] = "idle" /\ sc_answers[c] = 1
    <2> DEFINE Answered == sc_at[c] # "done" /\ sc_at'[c] = "done" /\ sc_answers'[c] = 1
               Elsewhere == sc_at[c] # "done" /\ sc_at'[c] # "done" /\ sc_answers'[c] = sc_answers[c]
               Kept == sc_at'[c] = sc_at[c] /\ sc_answers'[c] = sc_answers[c]
                       /\ (sc_result'[c] = sc_result[c] \/ (sc_result'[c] = Good /\ QueueRunning(c)))
               Reaped == sc_at[c] = "done" /\ sc_at'[c] = "idle" /\ sc_answers'[c] = 0
    <2> SUFFICES Answered \/ Elsewhere \/ Kept \/ Reaped
      BY <1>1
    <2>1. ASSUME NEW r, sc_at[c] # "done", Done(c, r) PROVE Answered
      <3>1. sc_at'[c] = "done" /\ sc_answers[c] = 0 /\ sc_answers'[c] = sc_answers[c] + 1
        BY <1>1, <2>1 DEF Done
      <3> QED
        BY <2>1, <3>1
    <2>2. ASSUME NEW r, Complete(c, r) PROVE Answered \/ Kept
      <3>1. CASE sc_at[c] = "received" /\ sh_life[sh_at[sc_lu[c]]] = "live"
        BY <2>1, <2>2, <3>1 DEF Complete
      <3>2. CASE ~(sc_at[c] = "received" /\ sh_life[sh_at[sc_lu[c]]] = "live")
        BY <2>2, <3>2 DEF Complete
      <3> QED
        BY <3>1, <3>2
    <2>3. ASSUME NEW l \in LogicalUnits, QueueCommand(c, l) PROVE Elsewhere
      BY <1>1, <2>3 DEF QueueCommand
    <2>4. CASE QueueLookup(c)
      <3>1. sc_at[c] # "done"
        BY <2>4 DEF QueueLookup
      <3>2. CASE sc_at' = [sc_at EXCEPT ![c] = "hooking"] /\ sc_answers' = sc_answers
        BY <1>1, <3>1, <3>2
      <3> QED
        BY <2>1, <2>4, <3>1, <3>2 DEF QueueLookup, fio_scmd_immediate_error
    <2>5. CASE QueueHook(c)
      BY <1>1, <2>5 DEF QueueHook
    <2>6. CASE QueueAlloc(c)
      <3>1. sc_at[c] # "done"
        BY <2>6 DEF QueueAlloc
      <3>2. CASE sc_answers' = sc_answers /\ \E a \in {"idle", "received"} : sc_at' = [sc_at EXCEPT ![c] = a]
        BY <1>1, <3>1, <3>2
      <3> QED
        BY <2>1, <2>6, <3>1, <3>2 DEF QueueAlloc, HostBusy, fio_scmd_immediate_error
    <2>7. CASE QueueNoMemory(c)
      BY <1>1, <2>7 DEF QueueNoMemory, HostBusy
    <2>8. CASE QueueReturn(c)
      BY <2>8 DEF QueueReturn, QueueRunning, AnswersCounted
    <2>9. CASE LateReturn(c)
      BY <2>9 DEF LateReturn, QueueRunning, AnswersCounted
    <2>10. CASE kfio_port_scsi_cmd_completor(c)
      BY <2>2, <2>10 DEF kfio_port_scsi_cmd_completor
    <2>11. CASE AbortCommand(c)
      BY <2>2, <2>11 DEF AbortCommand
    <2>12. CASE MidlayerReap(c)
      BY <1>1, <2>12 DEF MidlayerReap
    <2> QED
      BY <2>3, <2>4, <2>5, <2>6, <2>7, <2>8, <2>9, <2>10, <2>11, <2>12 DEF Command
  <1>4. \A d \in ScsiCmnds : sc_answers'[d] = IF sc_at'[d] = "done" THEN 1 ELSE 0
    BY <1>1, <1>2, <1>3
  <1>5. AnswersCounted'
    BY <1>2, <1>4 DEF AnswersCounted
  <1>6. \A d \in ScsiCmnds : AnswerStep(d)
    <2>1. \A d \in ScsiCmnds : sc_answers'[d] <= 1
      BY <1>4
    <2> QED
      BY <1>2, <1>3, <2>1 DEF AnswerStep
  <1> QED
    BY <1>5, <1>6

(* The answers of all commands, across any step. *)
LEMMA AnswersKept ==
    ASSUME HookInv, AnswersCounted, [ScsiNext]_scsiVars
    PROVE  AnswersCounted' /\ \A c \in ScsiCmnds : AnswerStep(c)
  <1>1. ASSUME sc_at' = sc_at, sc_answers' = sc_answers, sc_result' = sc_result
        PROVE  AnswersCounted' /\ \A c \in ScsiCmnds : AnswerStep(c)
    BY <1>1 DEF AnswersCounted, AnswerStep
  <1>2. ASSUME NEW l \in LogicalUnits, LuThread(l)
        PROVE  sc_at' = sc_at /\ sc_answers' = sc_answers /\ sc_result' = sc_result
    BY <1>2 DEF LuThread, NewLuLookup, fio_port_scsi_host_create, NewLuCreated, NewLuUnhook,
                fio_port_scsi_host_add_lu, kfio_port_scsi_lu_hidden, LuGoneLookup, fio_port_scsi_host_remove_lu,
                LuGoneDecr, LuGoneUnhook, LuGoneUnlist, LuGoneDestroy, scVars
  <1>3. CASE \E c \in ScsiCmnds : Command(c)
    BY <1>3, CommandKeepsAnswers
  <1>4. CASE fio_shost_reset_all_lus
    <2>1. PICK hit, out :
            /\ \A c \in hit : sc_at[c] = "received"
            /\ sc_at' = [c \in ScsiCmnds |-> IF c \in hit THEN "done" ELSE sc_at[c]]
            /\ sc_result' = [c \in ScsiCmnds |-> IF c \in hit THEN out ELSE sc_result[c]]
            /\ sc_answers' = [c \in ScsiCmnds |-> IF c \in hit THEN sc_answers[c] + 1 ELSE sc_answers[c]]
      BY <1>4 DEF fio_shost_reset_all_lus
    <2>2. \A c \in ScsiCmnds : sc_answers[c] = IF sc_at[c] = "done" THEN 1 ELSE 0
      BY DEF AnswersCounted
    <2>3. ASSUME NEW c \in ScsiCmnds PROVE sc_answers'[c] = IF sc_at'[c] = "done" THEN 1 ELSE 0
      <3>1. CASE c \in hit
        BY <2>1, <2>2, <3>1
      <3>2. CASE c \notin hit
        BY <2>1, <2>2, <3>2
      <3> QED
        BY <3>1, <3>2
    <2>4. AnswersCounted'
      BY <2>1, <2>3 DEF AnswersCounted
    <2>5. \A c \in ScsiCmnds : sc_at[c] = "done" => sc_at'[c] = "done" /\ sc_result'[c] = sc_result[c]
      BY <2>1
    <2> QED
      BY <2>3, <2>4, <2>5 DEF AnswerStep
  <1>5. CASE UNCHANGED scsiVars
    BY <1>1, <1>5 DEF scsiVars, scVars
  <1> QED
    BY <1>1, <1>2, <1>3, <1>4, <1>5 DEF ScsiNext

(* For any number of commands, however completions, aborts and resets meet: *)
(* scsi_done is called at most once for each use of a command, and its      *)
(* result stands until the midlayer takes it unless a call of               *)
(* fio_shost_queuecommand for the command is still running.                 *)
THEOREM AnsweredOnce == ScsiSpec => CommandAnsweredOnce
  <1>1. ScsiInit => AnswersCounted
    BY DEF ScsiInit, AnswersCounted
  <1>2. ScsiIInv => HookInv
    BY DEF ScsiIInv
  <1>3. HookInv /\ AnswersCounted /\ [ScsiNext]_scsiVars =>
          AnswersCounted' /\ [\A c \in ScsiCmnds : AnswerStep(c)]_scsiVars
    BY AnswersKept
  <1> QED
    BY <1>1, <1>2, <1>3, ScsiInitInv, ScsiNextInv, PTL DEF ScsiSpec, CommandAnsweredOnce, AnswerStep
-----------------------------------------------------------------------------
(* The information tree *)

(* The state has its types, and a node has its os_priv as long as it is there. *)
NodesTyped ==
    /\ kt_root \in BOOLEAN /\ kt_inside \in [Readers -> NodeIds \cup {NoNode}]
    /\ kt_node \in [NodeIds -> NodeRecs \cup {NoNode}]
    /\ kt_kids \in [NodeIds \cup {Top} -> Seq(NodeIds)]
    /\ kt_priv = Live

(* A node is on the list of its parent, once, and on no other; its parent is *)
(* a directory that is there, and no two nodes of a directory share a name.  *)
KidsExact ==
    /\ \A n \in Live : kt_node[n].parent \in Dirs \cup {Top}
    /\ \A d \in NodeIds \cup {Top} :
         /\ NoneTwice(kt_kids[d])
         /\ \A n : Listed(n, kt_kids[d]) <=> n \in Live /\ kt_node[n].parent = d
    /\ \A n, m \in Live : n # m /\ kt_node[n].parent = kt_node[m].parent => kt_node[n].name # kt_node[m].name

(* The /proc entry of a node. *)
Shadow(n) == [dir |-> kt_node[n].parent, name |-> kt_node[n].name, node |-> n]
Shadowed == kt_entry = {Shadow(n) : n \in Live}

ReadersIn == \A r \in Readers : kt_inside[r] # NoNode => kt_inside[r] \in Live

TreePart == NodesTyped /\ KidsExact /\ Shadowed /\ ReadersIn

(* The tree has no cycle: a rank grows from parent to child. *)
Ranked(rank) ==
    /\ rank \in [NodeIds -> Nat]
    /\ \A n \in Live : kt_node[n].parent \in NodeIds => rank[kt_node[n].parent] < rank[n]

(* The way down a removal has taken, from its first directory to where it is. *)
CutPath(rank, path) ==
    /\ path \in Seq(NodeIds) /\ Len(path) >= 1
    /\ path[1] = kt_cut.top /\ path[Len(path)] = kt_cut.at
    /\ \A i \in 1 .. Len(path) : path[i] \in Live /\ (Len(path) > 1 => path[i] \in Dirs)
    /\ \A i \in 1 .. (Len(path) - 1) : kt_node[path[i + 1]].parent = path[i]
    /\ \A i, j \in 1 .. Len(path) : i < j => rank[path[i]] < rank[path[j]]

CutPart == \E rank : Ranked(rank) /\ (Unlocked \/ (kt_cut \in Cuts /\ \E path : CutPath(rank, path)))

KtInv == TreePart /\ CutPart

(* What the invariant says of a live node, and of its record. *)
LEMMA LiveNodes ==
    ASSUME NodesTyped
    PROVE  /\ \A n \in Live : n \in NodeIds /\ kt_node[n] \in NodeRecs /\ kt_node[n].parent \in NodeIds \cup {Top}
                              /\ kt_node[n].name \in NodeNames
           /\ Dirs \subseteq Live /\ Live \subseteq NodeIds /\ Top \notin NodeIds /\ NoNode \notin NodeIds \cup {Top}
           /\ \A n \in Dirs : kt_node[n].type = "dir"
           /\ \A n \in Live : kt_node[n].type = "dir" => n \in Dirs
  <1>1. \A n \in Live : n \in NodeIds /\ kt_node[n] \in NodeRecs
    BY DEF Live, NodesTyped
  <1>2. \A n \in Live : kt_node[n].parent \in NodeIds \cup {Top} /\ kt_node[n].name \in NodeNames
    BY <1>1 DEF NodeRecs
  <1> QED
    BY <1>1, <1>2, KinfoNull DEF Live, Dirs

(* The invariant gives the types and the exact mirror. *)
LEMMA KtInvSuffices == KtInv => KinfoTypeOK /\ KinfoTreeExact
  <1> SUFFICES ASSUME KtInv PROVE KinfoTypeOK /\ KinfoTreeExact
    OBVIOUS
  <1>1. NodesTyped /\ KidsExact /\ Shadowed /\ ReadersIn
    BY DEF KtInv, TreePart
  <1>2. \A n \in Live : Shadow(n) \in [dir : NodeIds \cup {Top}, name : NodeNames, node : NodeIds]
    BY <1>1, LiveNodes DEF Shadow
  <1>3. KinfoTypeOK
    <2>1. Unlocked \/ kt_cut \in Cuts
      BY DEF KtInv, CutPart
    <2>2. \A n \in NodeIds : kt_node[n] # NoNode => kt_node[n] \in NodeRecs
      BY <1>1 DEF NodesTyped
    <2>3. kt_priv \subseteq NodeIds
      BY <1>1, LiveNodes DEF NodesTyped
    <2>4. kt_entry \subseteq [dir : NodeIds \cup {Top}, name : NodeNames, node : NodeIds]
      BY <1>1, <1>2 DEF Shadowed
    <2> QED
      BY <1>1, <2>1, <2>2, <2>3, <2>4 DEF KinfoTypeOK, NodesTyped
  <1>4. ASSUME NEW d \in NodeIds \cup {Top}
        PROVE  /\ DOMAIN kt_kids[d] = 1 .. Len(kt_kids[d])
               /\ \A i \in DOMAIN kt_kids[d] : kt_kids[d][i] \in Live /\ kt_node[kt_kids[d][i]].parent = d
               /\ \A i, j \in DOMAIN kt_kids[d] :
                    i # j => kt_node[kt_kids[d][i]].name # kt_node[kt_kids[d][j]].name
    <2>1. kt_kids[d] \in Seq(NodeIds) /\ DOMAIN kt_kids[d] = 1 .. Len(kt_kids[d])
      BY <1>1 DEF NodesTyped
    <2>2. \A i \in 1 .. Len(kt_kids[d]) : Listed(kt_kids[d][i], kt_kids[d])
      BY DEF Listed
    <2>3. \A i \in 1 .. Len(kt_kids[d]) : kt_kids[d][i] \in Live /\ kt_node[kt_kids[d][i]].parent = d
      BY <1>1, <2>2 DEF KidsExact
    <2>4. \A i, j \in 1 .. Len(kt_kids[d]) : i # j => kt_kids[d][i] # kt_kids[d][j]
      BY <1>1 DEF KidsExact, NoneTwice
    <2>5. \A i, j \in 1 .. Len(kt_kids[d]) : i # j => kt_node[kt_kids[d][i]].name # kt_node[kt_kids[d][j]].name
      BY <1>1, <2>3, <2>4 DEF KidsExact
    <2> QED
      BY <2>1, <2>3, <2>5
  <1>5. ASSUME NEW n \in Live PROVE n \in ToSet(kt_kids[kt_node[n].parent])
    <2>1. kt_node[n].parent \in NodeIds \cup {Top}
      BY <1>1, LiveNodes
    <2>2. Listed(n, kt_kids[kt_node[n].parent])
      BY <1>1, <2>1 DEF KidsExact
    <2> QED
      BY <1>4, <2>1, <2>2 DEF Listed, ToSet
  <1>6. kt_entry = {[dir |-> kt_node[n].parent, name |-> kt_node[n].name, node |-> n] : n \in Live}
    BY <1>1 DEF Shadowed, Shadow
  <1> QED
    BY <1>1, <1>3, <1>4, <1>5, <1>6 DEF KinfoTreeExact, ReadersIn

(* No node, no entry. *)
LEMMA KtInitInv == KinfoInit => KtInv
  <1> SUFFICES ASSUME KinfoInit PROVE KtInv
    OBVIOUS
  <1>1. Live = {} /\ Dirs = {}
    BY DEF KinfoInit, Live, Dirs
  <1>2. \A d \in NodeIds \cup {Top} : kt_kids[d] = << >>
    BY DEF KinfoInit
  <1>3. << >> \in Seq(NodeIds) /\ NoneTwice(<< >>) /\ \A n : ~Listed(n, << >>)
    BY DEF NoneTwice, Listed
  <1>4. NodesTyped
    BY <1>1, <1>3 DEF KinfoInit, NodesTyped
  <1>5. KidsExact
    BY <1>1, <1>2, <1>3 DEF KidsExact
  <1>6. Shadowed /\ ReadersIn
    BY <1>1 DEF KinfoInit, Shadowed, ReadersIn
  <1>7. Ranked([n \in NodeIds |-> 0])
    BY <1>1 DEF Ranked
  <1>8. Unlocked
    BY DEF KinfoInit, Unlocked
  <1> QED
    BY <1>4, <1>5, <1>6, <1>7, <1>8 DEF KtInv, TreePart, CutPart

(* Taking a node without children out of the tree. *)
LEMMA FreeNode ==
    ASSUME TreePart, NEW n \in Live, kt_kids[n] = << >>, UnlinkAndFree(n), UNCHANGED <<kt_root, kt_inside>>
    PROVE  /\ TreePart' /\ Live' = Live \ {n} /\ Dirs' = Dirs \ {n}
           /\ \A m \in Live : m # n => kt_node'[m] = kt_node[m]
  <1> DEFINE p == kt_node[n].parent
             rest == RemoveFirst(kt_kids[p], n)
  <1>1. NodesTyped /\ KidsExact /\ Shadowed /\ ReadersIn
    BY DEF TreePart
  <1>2. /\ n \in NodeIds /\ p \in NodeIds \cup {Top} /\ kt_kids[p] \in Seq(NodeIds) /\ NoneTwice(kt_kids[p])
        /\ Listed(n, kt_kids[p])
    BY <1>1, LiveNodes DEF NodesTyped, KidsExact
  <1>3. /\ Drained(n) /\ kt_priv' = kt_priv \ {n}
        /\ kt_entry' = {e \in kt_entry : ~(e.dir = p /\ e.name = kt_node[n].name)}
        /\ kt_kids' = [kt_kids EXCEPT ![p] = rest] /\ kt_node' = [kt_node EXCEPT ![n] = NoNode]
    BY DEF UnlinkAndFree, kfio_info_os_remove_node
  <1>4. /\ \A m \in NodeIds : kt_node'[m] = IF m = n THEN NoNode ELSE kt_node[m]
        /\ kt_node' \in [NodeIds -> NodeRecs \cup {NoNode}]
    BY <1>1, <1>2, <1>3 DEF NodesTyped
  <1>5. Live' = Live \ {n} /\ Dirs' = Dirs \ {n} /\ \A m \in Live : m # n => kt_node'[m] = kt_node[m]
    BY <1>4 DEF Live, Dirs
  <1>6. rest \in Seq(NodeIds) /\ NoneTwice(rest) /\ \A x : Listed(x, rest) <=> x # n /\ Listed(x, kt_kids[p])
    BY <1>2, RemoveFirstListed
  <1> HIDE DEF rest, p
  <1>7. /\ \A d \in NodeIds \cup {Top} : kt_kids'[d] = IF d = p THEN rest ELSE kt_kids[d]
        /\ kt_kids' \in [NodeIds \cup {Top} -> Seq(NodeIds)]
    BY <1>1, <1>2, <1>3, <1>6 DEF NodesTyped
  <1>8. NodesTyped'
    BY <1>1, <1>3, <1>4, <1>5, <1>7 DEF NodesTyped
  <1>9. KidsExact'
    <2>1. ASSUME NEW m \in Live' PROVE kt_node'[m].parent \in Dirs' \cup {Top}
      <3>1. m \in Live /\ m # n /\ kt_node'[m] = kt_node[m]
        BY <1>5
      <3>2. kt_node[m].parent \in Dirs \cup {Top}
        BY <1>1, <3>1 DEF KidsExact
      <3>3. kt_node[m].parent # n
        <4>1. ~Listed(m, kt_kids[n])
          BY DEF Listed
        <4> QED
          BY <1>1, <1>2, <3>1, <4>1 DEF KidsExact
      <3> QED
        BY <1>5, <3>1, <3>2, <3>3
    <2>2. ASSUME NEW d \in NodeIds \cup {Top}
          PROVE  /\ NoneTwice(kt_kids'[d])
                 /\ \A m : Listed(m, kt_kids'[d]) <=> m \in Live' /\ kt_node'[m].parent = d
      <3>1. NoneTwice(kt_kids[d]) /\ \A m : Listed(m, kt_kids[d]) <=> m \in Live /\ kt_node[m].parent = d
        BY <1>1 DEF KidsExact
      <3>2. CASE d = p
        BY <1>5, <1>6, <1>7, <3>1, <3>2
      <3>3. CASE d # p
        <4>1. kt_kids'[d] = kt_kids[d]
          BY <1>7, <3>3
        <4>2. kt_node[n].parent # d
          BY <3>3 DEF p
        <4> QED
          BY <1>5, <3>1, <4>1, <4>2
      <3> QED
        BY <3>2, <3>3
    <2>3. \A a, b \in Live' : a # b /\ kt_node'[a].parent = kt_node'[b].parent => kt_node'[a].name # kt_node'[b].name
      BY <1>1, <1>5 DEF KidsExact
    <2> QED
      BY <2>1, <2>2, <2>3 DEF KidsExact
  <1>10. Shadowed'
    <2>1. \A m \in Live : m # n => (Shadow(m))' = Shadow(m)
      BY <1>5 DEF Shadow
    <2>2. \A m \in Live : Shadow(m).dir = kt_node[m].parent /\ Shadow(m).name = kt_node[m].name
      BY DEF Shadow
    <2>3. \A m \in Live : (Shadow(m).dir = p /\ Shadow(m).name = kt_node[n].name) <=> m = n
      BY <1>1, <2>2 DEF KidsExact, p
    <2>4. kt_entry' = {Shadow(m) : m \in Live \ {n}}
      BY <1>1, <1>3, <2>3 DEF Shadowed
    <2>5. {Shadow(m) : m \in Live \ {n}} = {(Shadow(m))' : m \in Live \ {n}}
      BY <2>1
    <2> QED
      BY <1>5, <2>4, <2>5 DEF Shadowed
  <1>11. ReadersIn'
    BY <1>1, <1>3, <1>5 DEF ReadersIn, Drained
  <1> QED
    BY <1>5, <1>8, <1>9, <1>10, <1>11 DEF TreePart
(* A new node goes under a directory that is there, or under the root; its  *)
(* name is new there, since /proc would have refused it.                     *)
LEMMA CreateInv ==
    ASSUME KtInv, NEW parent \in Dirs \cup {Top, NoNode}, NEW type \in {"dir", "leaf"}, NEW name \in NodeNames,
           CreateNode(parent, type, name)
    PROVE  KtInv'
  <1>1. NodesTyped /\ KidsExact /\ Shadowed /\ ReadersIn /\ CutPart
    BY DEF KtInv, TreePart
  <1>2. PICK n : n = AllocNode
    OBVIOUS
  <1>3. PICK p : p = ProcDir(parent)
    OBVIOUS
  <1>4. n \in NodeIds /\ kt_node[n] = NoNode /\ n \notin Live
    BY <1>2 DEF CreateNode, AllocNode, Live
  <1>5. p \in Dirs \cup {Top} /\ p \in NodeIds \cup {Top} /\ p # n
    <2>1. parent # NoNode => parent \in Live
      BY <1>1 DEF CreateNode, kfio_info_insert_node, kfio_info_os_create_node, NodesTyped
    <2> QED
      BY <1>1, <1>3, <1>4, <2>1, LiveNodes DEF ProcDir
  <1> DEFINE new == [type |-> type, name |-> name, parent |-> p]
             entry == [dir |-> p, name |-> name, node |-> n]
  <1>6. /\ kt_root' = kt_root /\ kt_inside' = kt_inside /\ kt_cut' = kt_cut /\ kt_cut = NoNode
        /\ kt_node' = [kt_node EXCEPT ![n] = new]
        /\ kt_kids' = [kt_kids EXCEPT ![p] = Append(@, n), ![n] = << >>]
        /\ kt_priv' = kt_priv \cup {n} /\ kt_entry' = kt_entry \cup {entry}
    BY <1>2, <1>3 DEF CreateNode, Unlocked
  <1>7. \A e \in kt_entry : e.dir = p => e.name # name
    BY <1>3 DEF CreateNode, kfio_info_insert_node, kfio_info_os_create_node
  <1>8. new \in NodeRecs /\ new # NoNode /\ new.type = type /\ new.name = name /\ new.parent = p
    BY <1>5, KinfoNull DEF NodeRecs
  <1> HIDE DEF new
  <1>9. /\ kt_node' \in [NodeIds -> NodeRecs \cup {NoNode}] /\ kt_node'[n] = new
        /\ \A m \in NodeIds : m # n => kt_node'[m] = kt_node[m]
    BY <1>1, <1>4, <1>6, <1>8 DEF NodesTyped
  <1>10. Live' = Live \cup {n} /\ Dirs \subseteq Dirs' /\ \A m \in Live : m # n /\ kt_node'[m] = kt_node[m]
    BY <1>4, <1>8, <1>9 DEF Live, Dirs
  <1>11. \A m \in Live : kt_node[m].parent # n
    BY <1>1, <1>4, LiveNodes DEF KidsExact
  <1>12. /\ kt_kids[p] \in Seq(NodeIds) /\ Append(kt_kids[p], n) \in Seq(NodeIds)
         /\ NoneTwice(Append(kt_kids[p], n))
         /\ \A x : Listed(x, Append(kt_kids[p], n)) <=> x = n \/ Listed(x, kt_kids[p])
    <2>1. kt_kids[p] \in Seq(NodeIds) /\ NoneTwice(kt_kids[p]) /\ ~Listed(n, kt_kids[p])
      BY <1>1, <1>4, <1>5 DEF NodesTyped, KidsExact
    <2> QED
      BY <1>4, <2>1, AppendListed
  <1>13. << >> \in Seq(NodeIds) /\ NoneTwice(<< >>) /\ \A x : ~Listed(x, << >>)
    BY DEF NoneTwice, Listed
  <1> DEFINE longer == Append(kt_kids[p], n)
             none == << >>
  <1> HIDE DEF longer, none
  <1>14. /\ kt_kids' \in [NodeIds \cup {Top} -> Seq(NodeIds)]
         /\ kt_kids'[p] = longer /\ kt_kids'[n] = none
         /\ \A d \in NodeIds \cup {Top} : d # p /\ d # n => kt_kids'[d] = kt_kids[d]
    <2>1. kt_kids \in [NodeIds \cup {Top} -> Seq(NodeIds)]
      BY <1>1 DEF NodesTyped
    <2>2. kt_kids' = [kt_kids EXCEPT ![p] = longer, ![n] = none]
      BY <1>6 DEF longer, none
    <2>3. longer \in Seq(NodeIds) /\ none \in Seq(NodeIds)
      BY <1>12, <1>13 DEF longer, none
    <2> QED
      BY <1>4, <1>5, <2>1, <2>2, <2>3
  <1>15. NodesTyped'
    BY <1>1, <1>6, <1>9, <1>10, <1>14 DEF NodesTyped
  <1>16. KidsExact'
    <2>1. \A m \in Live' : kt_node'[m].parent \in Dirs' \cup {Top}
      BY <1>1, <1>5, <1>8, <1>9, <1>10 DEF KidsExact
    <2>2. ASSUME NEW d \in NodeIds \cup {Top}
          PROVE  /\ NoneTwice(kt_kids'[d])
                 /\ \A m : Listed(m, kt_kids'[d]) <=> m \in Live' /\ kt_node'[m].parent = d
      <3>1. NoneTwice(kt_kids[d]) /\ \A m : Listed(m, kt_kids[d]) <=> m \in Live /\ kt_node[m].parent = d
        BY <1>1 DEF KidsExact
      <3>2. \A m : (m \in Live' /\ kt_node'[m].parent = d) <=> (m = n /\ d = p) \/ (m \in Live /\ kt_node[m].parent = d)
        BY <1>8, <1>9, <1>10
      <3>3. CASE d = p
        BY <1>12, <1>14, <3>1, <3>2, <3>3 DEF longer
      <3>4. CASE d = n
        BY <1>5, <1>11, <1>13, <1>14, <3>2, <3>4 DEF none
      <3>5. CASE d # p /\ d # n
        BY <1>14, <3>1, <3>2, <3>5
      <3> QED
        BY <3>3, <3>4, <3>5
    <2>3. \A m \in Live : kt_node[m].parent = p => kt_node[m].name # name
      <3>1. \A m \in Live : Shadow(m).dir = kt_node[m].parent /\ Shadow(m).name = kt_node[m].name /\ Shadow(m) \in kt_entry
        BY <1>1 DEF Shadow, Shadowed
      <3> QED
        BY <1>7, <3>1
    <2>4. \A a, b \in Live' : a # b /\ kt_node'[a].parent = kt_node'[b].parent => kt_node'[a].name # kt_node'[b].name
      BY <1>1, <1>8, <1>9, <1>10, <2>3 DEF KidsExact
    <2> QED
      BY <2>1, <2>2, <2>4 DEF KidsExact
  <1>17. Shadowed'
    <2>1. \A m \in Live : (Shadow(m))' = Shadow(m)
      BY <1>10 DEF Shadow
    <2>2. (Shadow(n))' = entry
      BY <1>8, <1>9 DEF Shadow
    <2> HIDE DEF entry
    <2>3. kt_entry' = {Shadow(m) : m \in Live} \cup {entry}
      BY <1>1, <1>6 DEF Shadowed
    <2>4. {(Shadow(m))' : m \in Live \cup {n}} = {Shadow(m) : m \in Live} \cup {entry}
      BY <2>1, <2>2
    <2> QED
      BY <1>10, <2>3, <2>4 DEF Shadowed
  <1>18. ReadersIn'
    BY <1>1, <1>6, <1>10 DEF ReadersIn
  <1>19. CutPart'
    <2>1. PICK rank : Ranked(rank)
      BY <1>1 DEF CutPart
    <2>2. PICK r : r = [rank EXCEPT ![n] = IF p = Top THEN 0 ELSE rank[p] + 1]
      OBVIOUS
    <2>3. rank \in [NodeIds -> Nat] /\ (p # Top => rank[p] \in Nat)
      BY <1>5, <2>1 DEF Ranked
    <2>4. /\ r \in [NodeIds -> Nat] /\ \A m \in NodeIds : m # n => r[m] = rank[m]
          /\ p # Top => rank[p] < r[n] /\ r[p] = rank[p]
      BY <1>4, <1>5, <2>2, <2>3
    <2>5. \A m \in Live' : kt_node'[m].parent \in NodeIds => r[kt_node'[m].parent] < r[m]
      <3>1. ASSUME NEW m \in Live, kt_node[m].parent \in NodeIds PROVE r[kt_node[m].parent] < r[m]
        <4>1. m \in NodeIds /\ m # n /\ kt_node[m].parent # n /\ rank[kt_node[m].parent] < rank[m]
          BY <1>4, <1>11, <2>1, <3>1 DEF Ranked, Live
        <4> QED
          BY <2>4, <3>1, <4>1
      <3>2. p \in NodeIds => r[p] < r[n]
        BY <1>1, <1>5, <2>4, LiveNodes
      <3> QED
        BY <1>8, <1>9, <1>10, <3>1, <3>2
    <2>6. Ranked(r)'
      BY <2>4, <2>5 DEF Ranked
    <2>7. Unlocked'
      BY <1>6 DEF Unlocked
    <2> QED
      BY <2>6, <2>7 DEF CutPart
  <1> QED
    BY <1>15, <1>16, <1>17, <1>18, <1>19 DEF KtInv, TreePart

(* Where a removal under way stands. *)
LEMMA CutStands ==
    ASSUME KtInv, kt_cut # NoNode
    PROVE  \E rank, path : /\ Ranked(rank) /\ kt_cut \in Cuts /\ CutPath(rank, path)
                           /\ kt_cut.top \in Live /\ kt_cut.at \in Live
                           /\ \A n \in Live : n \notin Dirs => kt_kids[n] = << >>
                           /\ kt_kids[kt_cut.at] # << >> =>
                                /\ Head(kt_kids[kt_cut.at]) \in Live
                                /\ kt_node[Head(kt_kids[kt_cut.at])].parent = kt_cut.at
                                /\ kt_cut.at \in Dirs
                                /\ \A i \in 1 .. Len(path) : path[i] \in Dirs
  <1>1. NodesTyped /\ KidsExact
    BY DEF KtInv, TreePart
  <1>2. PICK rank, path : Ranked(rank) /\ kt_cut \in Cuts /\ CutPath(rank, path)
    BY DEF KtInv, CutPart, Unlocked
  <1>3. /\ Len(path) \in Nat /\ 1 <= Len(path) /\ path[1] = kt_cut.top /\ path[Len(path)] = kt_cut.at
        /\ \A i \in 1 .. Len(path) : path[i] \in Live /\ (Len(path) > 1 => path[i] \in Dirs)
    BY <1>2 DEF CutPath
  <1>4. kt_cut.top \in Live /\ kt_cut.at \in Live /\ kt_cut.at \in NodeIds
    BY <1>1, <1>3, LiveNodes
  <1>5. ASSUME NEW n \in NodeIds, kt_kids[n] # << >>
        PROVE  Head(kt_kids[n]) \in Live /\ kt_node[Head(kt_kids[n])].parent = n /\ n \in Dirs
    <2>1. kt_kids[n] \in Seq(NodeIds)
      BY <1>1 DEF NodesTyped
    <2>2. Listed(Head(kt_kids[n]), kt_kids[n])
      BY <1>5, <2>1 DEF Listed
    <2>3. Head(kt_kids[n]) \in Live /\ kt_node[Head(kt_kids[n])].parent = n
      BY <1>1, <2>2 DEF KidsExact
    <2>4. n \in Dirs \cup {Top}
      BY <1>1, <2>3 DEF KidsExact
    <2> QED
      BY <2>3, <2>4, KinfoNull
  <1>6. \A n \in Live : n \notin Dirs => kt_kids[n] = << >>
    BY <1>1, <1>5, LiveNodes
  <1>7. kt_cut.at \in Dirs => \A i \in 1 .. Len(path) : path[i] \in Dirs
    <2>1. CASE Len(path) > 1
      BY <1>3, <2>1
    <2>2. CASE Len(path) = 1
      BY <1>3, <2>2
    <2> QED
      BY <1>3, <2>1, <2>2
  <1> QED
    BY <1>2, <1>4, <1>5, <1>6, <1>7

(* Freeing a node keeps the ranks of the others. *)
LEMMA FreeKeepsRanks ==
    ASSUME NEW rank, Ranked(rank), NEW n, Live' = Live \ {n}, \A m \in Live : m # n => kt_node'[m] = kt_node[m]
    PROVE  Ranked(rank)'
  BY DEF Ranked

(* A removal starts at a live node. *)
LEMMA RemoveStartInv ==
    ASSUME KtInv, NEW n \in NodeIds, RemoveStart(n)
    PROVE  KtInv'
  <1>1. UNCHANGED <<kt_root, kt_node, kt_kids, kt_priv, kt_entry, kt_inside>> /\ kt_cut' = [top |-> n, at |-> n] /\ n \in Live
    BY DEF RemoveStart, Live
  <1>2. TreePart'
    BY <1>1 DEF KtInv, TreePart, NodesTyped, KidsExact, Shadowed, ReadersIn, Live, Dirs, Shadow
  <1>3. PICK rank : Ranked(rank)
    BY DEF KtInv, CutPart
  <1>4. Ranked(rank)'
    BY <1>1, <1>3 DEF Ranked, Live
  <1>5. kt_cut' \in Cuts /\ kt_cut'.top = n /\ kt_cut'.at = n
    BY <1>1 DEF Cuts
  <1>6. CutPath(rank, <<n>>)'
    BY <1>1, <1>5 DEF CutPath, Live
  <1>7. CutPart'
    BY <1>4, <1>5, <1>6 DEF CutPart, Cuts
  <1> QED
    BY <1>2, <1>7 DEF KtInv

(* A removal of a leaf is over in one step. *)
LEMMA RemoveLeafInv ==
    ASSUME KtInv, RemoveLeaf
    PROVE  KtInv'
  <1>1. PICK n : n = kt_cut.top
    OBVIOUS
  <1>2. PICK rank, path : /\ Ranked(rank) /\ n \in Live
                          /\ \A m \in Live : m \notin Dirs => kt_kids[m] = << >>
    BY <1>1, CutStands DEF RemoveLeaf
  <1>3. TreePart /\ n \notin Dirs /\ UnlinkAndFree(n) /\ UNCHANGED <<kt_root, kt_inside>> /\ kt_cut' = NoNode
    BY <1>1 DEF RemoveLeaf, KtInv, Dirs
  <1>4. TreePart' /\ Live' = Live \ {n} /\ \A m \in Live : m # n => kt_node'[m] = kt_node[m]
    BY <1>2, <1>3, FreeNode
  <1>5. Ranked(rank)' /\ Unlocked'
    BY <1>2, <1>3, <1>4, FreeKeepsRanks DEF Unlocked
  <1> QED
    BY <1>4, <1>5 DEF KtInv, CutPart

(* One directory further down. *)
LEMMA RemoveDescendInv ==
    ASSUME KtInv, RemoveDescend
    PROVE  KtInv'
  <1>1. PICK c : c = Head(kt_kids[kt_cut.at])
    OBVIOUS
  <1>2. /\ kt_cut # NoNode /\ kt_kids[kt_cut.at] # << >> /\ c \in Dirs /\ kt_cut' = [kt_cut EXCEPT !.at = c]
        /\ UNCHANGED <<kt_root, kt_node, kt_kids, kt_priv, kt_entry, kt_inside>>
    BY <1>1 DEF RemoveDescend
  <1>3. PICK rank, path :
          /\ Ranked(rank) /\ kt_cut \in Cuts /\ CutPath(rank, path)
          /\ c \in Live /\ kt_node[c].parent = kt_cut.at /\ kt_cut.at \in Dirs
          /\ \A i \in 1 .. Len(path) : path[i] \in Dirs
    BY <1>1, <1>2, CutStands
  <1>4. TreePart' /\ Live' = Live /\ Dirs' = Dirs /\ kt_node' = kt_node
    BY <1>2 DEF KtInv, TreePart, NodesTyped, KidsExact, Shadowed, ReadersIn, Live, Dirs, Shadow
  <1>5. Ranked(rank)'
    BY <1>3, <1>4 DEF Ranked
  <1>6. c \in NodeIds /\ kt_cut.at \in NodeIds /\ rank \in [NodeIds -> Nat] /\ rank[kt_cut.at] < rank[c]
    BY <1>3 DEF Live, Dirs, Ranked
  <1>7. kt_cut' \in Cuts /\ kt_cut'.top = kt_cut.top /\ kt_cut'.at = c
    BY <1>2, <1>3, <1>6 DEF Cuts
  <1> DEFINE longer == Append(path, c)
  <1>8. /\ path \in Seq(NodeIds) /\ Len(path) \in Nat /\ Len(path) >= 1
        /\ path[1] = kt_cut.top /\ path[Len(path)] = kt_cut.at
        /\ \A i \in 1 .. (Len(path) - 1) : kt_node[path[i + 1]].parent = path[i]
        /\ \A i, j \in 1 .. Len(path) : i < j => rank[path[i]] < rank[path[j]]
        /\ \A i \in 1 .. Len(path) : path[i] \in Live /\ path[i] \in NodeIds /\ rank[path[i]] \in Nat
    BY <1>3, <1>6, ElementOfSeq DEF CutPath
  <1>9. /\ longer \in Seq(NodeIds) /\ Len(longer) = Len(path) + 1 /\ longer[Len(path) + 1] = c
        /\ \A i \in 1 .. Len(path) : longer[i] = path[i]
    BY <1>6, <1>8
  <1> HIDE DEF longer
  <1>10. \A i \in 1 .. Len(longer) : longer[i] \in Live /\ longer[i] \in Dirs
    BY <1>2, <1>3, <1>8, <1>9
  <1>11. \A i \in 1 .. (Len(longer) - 1) : kt_node[longer[i + 1]].parent = longer[i]
    <2> SUFFICES ASSUME NEW i \in 1 .. Len(path) PROVE kt_node[longer[i + 1]].parent = longer[i]
      BY <1>8, <1>9
    <2>1. CASE i = Len(path)
      BY <1>3, <1>8, <1>9, <2>1
    <2>2. CASE i < Len(path)
      <3>1. i + 1 \in 1 .. Len(path) /\ i \in 1 .. (Len(path) - 1)
        BY <1>8, <2>2
      <3> QED
        BY <1>8, <1>9, <3>1
    <2> QED
      BY <1>8, <2>1, <2>2
  <1>12. \A i, j \in 1 .. Len(longer) : i < j => rank[longer[i]] < rank[longer[j]]
    <2> SUFFICES ASSUME NEW i \in 1 .. Len(longer), NEW j \in 1 .. Len(longer), i < j
                 PROVE  rank[longer[i]] < rank[longer[j]]
      OBVIOUS
    <2>1. i \in 1 .. Len(path) /\ longer[i] = path[i]
      BY <1>8, <1>9
    <2>2. CASE j <= Len(path)
      <3>1. j \in 1 .. Len(path) /\ longer[j] = path[j]
        BY <1>8, <1>9, <2>2
      <3> QED
        BY <1>8, <2>1, <3>1
    <2>3. CASE j = Len(path) + 1
      <3>1. longer[j] = c
        BY <1>9, <2>3
      <3>2. rank[path[i]] <= rank[kt_cut.at]
        <4>1. CASE i = Len(path)
          BY <1>6, <1>8, <4>1
        <4>2. CASE i < Len(path)
          <5>1. Len(path) \in 1 .. Len(path)
            BY <1>8
          <5>2. rank[path[i]] < rank[path[Len(path)]]
            BY <1>8, <2>1, <4>2, <5>1
          <5> QED
            BY <1>6, <1>8, <2>1, <5>1, <5>2
        <4> QED
          BY <1>8, <2>1, <4>1, <4>2
      <3>3. rank[path[i]] \in Nat /\ rank[kt_cut.at] \in Nat /\ rank[c] \in Nat
        BY <1>6, <1>8, <2>1
      <3> QED
        BY <1>6, <2>1, <3>1, <3>2, <3>3
    <2> QED
      BY <1>8, <1>9, <2>2, <2>3
  <1>13. longer[1] = kt_cut.top /\ longer[Len(longer)] = c /\ Len(longer) >= 1
    BY <1>8, <1>9
  <1>14. PICK q : q = longer
    OBVIOUS
  <1>15. CutPath(rank, q)'
    BY <1>4, <1>7, <1>9, <1>10, <1>11, <1>12, <1>13, <1>14 DEF CutPath
  <1>16. CutPart'
    BY <1>5, <1>7, <1>15 DEF CutPart, Cuts
  <1> QED
    BY <1>4, <1>16 DEF KtInv

(* The leaf taken away is not on the way down. *)
LEMMA RemoveChildInv ==
    ASSUME KtInv, RemoveChild
    PROVE  KtInv'
  <1>1. PICK c : c = Head(kt_kids[kt_cut.at])
    OBVIOUS
  <1>2. /\ kt_cut # NoNode /\ kt_kids[kt_cut.at] # << >> /\ c \notin Dirs /\ kt_cut' = kt_cut /\ UnlinkAndFree(c)
        /\ UNCHANGED <<kt_root, kt_inside>>
    BY <1>1 DEF RemoveChild
  <1>3. PICK rank, path :
          /\ Ranked(rank) /\ kt_cut \in Cuts /\ CutPath(rank, path)
          /\ c \in Live /\ kt_kids[c] = << >> /\ \A i \in 1 .. Len(path) : path[i] \in Dirs
    BY <1>1, <1>2, CutStands
  <1>4. TreePart' /\ Live' = Live \ {c} /\ Dirs' = Dirs \ {c} /\ \A m \in Live : m # c => kt_node'[m] = kt_node[m]
    BY <1>2, <1>3, FreeNode DEF KtInv
  <1>5. Ranked(rank)'
    BY <1>3, <1>4, FreeKeepsRanks
  <1>6. CutPath(rank, path)'
    <2>1. \A i \in 1 .. Len(path) : path[i] \in Live' /\ path[i] \in Dirs' /\ kt_node'[path[i]] = kt_node[path[i]]
      BY <1>2, <1>3, <1>4 DEF CutPath
    <2>2. \A i \in 1 .. (Len(path) - 1) : i + 1 \in 1 .. Len(path)
      BY <1>3 DEF CutPath
    <2>3. \A i \in 1 .. (Len(path) - 1) : kt_node'[path[i + 1]].parent = path[i]
      BY <1>3, <2>1, <2>2 DEF CutPath
    <2> QED
      BY <1>2, <1>3, <2>1, <2>3 DEF CutPath
  <1> QED
    BY <1>2, <1>3, <1>4, <1>5, <1>6 DEF KtInv, CutPart

(* An empty directory goes, and the removal is back in its parent, which is  *)
(* the one it came from, or over.                                            *)
LEMMA RemoveAscendInv ==
    ASSUME KtInv, RemoveAscend
    PROVE  KtInv'
  <1>1. PICK n : n = kt_cut.at
    OBVIOUS
  <1>2. /\ kt_cut # NoNode /\ kt_kids[n] = << >> /\ n \in Dirs /\ UnlinkAndFree(n) /\ UNCHANGED <<kt_root, kt_inside>>
        /\ kt_cut' = IF n = kt_cut.top THEN NoNode ELSE [kt_cut EXCEPT !.at = kt_node[n].parent]
    BY <1>1 DEF RemoveAscend
  <1>3. PICK rank, path : Ranked(rank) /\ kt_cut \in Cuts /\ CutPath(rank, path) /\ n \in Live
    BY <1>1, <1>2, CutStands
  <1>4. TreePart' /\ Live' = Live \ {n} /\ Dirs' = Dirs \ {n} /\ \A m \in Live : m # n => kt_node'[m] = kt_node[m]
    BY <1>2, <1>3, FreeNode DEF KtInv
  <1>5. Ranked(rank)'
    BY <1>3, <1>4, FreeKeepsRanks
  <1>6. CASE n = kt_cut.top
    <2>1. Unlocked'
      BY <1>2, <1>6 DEF Unlocked
    <2> QED
      BY <1>4, <1>5, <2>1 DEF KtInv, CutPart
  <1>7. CASE n # kt_cut.top
    <2>1. /\ path \in Seq(NodeIds) /\ Len(path) \in Nat /\ Len(path) >= 1
          /\ path[1] = kt_cut.top /\ path[Len(path)] = n
          /\ \A i \in 1 .. Len(path) : path[i] \in Live /\ (Len(path) > 1 => path[i] \in Dirs)
          /\ \A i \in 1 .. (Len(path) - 1) : kt_node[path[i + 1]].parent = path[i]
          /\ \A i, j \in 1 .. Len(path) : i < j => rank[path[i]] < rank[path[j]]
      BY <1>1, <1>3 DEF CutPath
    <2>2. Len(path) \in Nat /\ Len(path) >= 1 /\ Len(path) # 1
      BY <1>7, <2>1
    <2> DEFINE L == Len(path) - 1
    <2>3. L \in Nat /\ L >= 1 /\ L + 1 = Len(path)
      BY <2>2
    <2>4. PICK q : q = SubSeq(path, 1, L)
      OBVIOUS
    <2>5. q \in Seq(NodeIds) /\ Len(q) = L /\ \A i \in 1 .. L : q[i] = path[i]
      BY <2>1, <2>3, <2>4
    <2> HIDE DEF L
    <2>6. /\ \A i \in 1 .. L : i \in 1 .. Len(path) /\ i < Len(path) /\ i \in 1 .. (Len(path) - 1)
          /\ Len(path) \in 1 .. Len(path) /\ L \in 1 .. L /\ 1 \in 1 .. L
          /\ \A i \in 1 .. (L - 1) : i \in 1 .. L /\ i + 1 \in 1 .. L
          /\ Len(path) > 1
      BY <2>1, <2>3
    <2>7. \A i \in 1 .. L : path[i] \in NodeIds /\ rank[path[i]] \in Nat /\ path[i] # n
      <3>1. \A i \in 1 .. Len(path) : path[i] \in NodeIds /\ rank[path[i]] \in Nat
        BY <1>3, <2>1 DEF Live, Ranked
      <3>2. \A i \in 1 .. L : rank[path[i]] < rank[n]
        BY <2>1, <2>6
      <3> QED
        BY <2>6, <3>1, <3>2
    <2>8. \A i \in 1 .. L : q[i] \in Live' /\ q[i] \in Dirs' /\ kt_node'[q[i]] = kt_node[q[i]]
      <3>1. \A i \in 1 .. L : q[i] \in Live /\ q[i] \in Dirs /\ q[i] # n
        BY <2>1, <2>5, <2>6, <2>7
      <3> QED
        BY <1>4, <3>1
    <2>9. kt_node[n].parent = path[L]
      BY <2>1, <2>3, <2>6
    <2>10. kt_cut' \in Cuts /\ kt_cut'.top = kt_cut.top /\ kt_cut'.at = path[L]
      BY <1>2, <1>3, <1>7, <2>6, <2>7, <2>9 DEF Cuts
    <2>11. \A i \in 1 .. (Len(q) - 1) : kt_node'[q[i + 1]].parent = q[i]
      <3>1. \A i \in 1 .. (L - 1) : kt_node[path[i + 1]].parent = path[i] /\ q[i] = path[i] /\ q[i + 1] = path[i + 1]
        BY <2>1, <2>5, <2>6
      <3> QED
        BY <2>5, <2>6, <2>8, <3>1
    <2>12. \A i, j \in 1 .. Len(q) : i < j => rank[q[i]] < rank[q[j]]
      BY <2>1, <2>5, <2>6
    <2>13. q[1] = kt_cut'.top /\ q[Len(q)] = kt_cut'.at
      BY <2>1, <2>5, <2>6, <2>10
    <2>14. CutPath(rank, q)'
      BY <2>3, <2>5, <2>8, <2>11, <2>12, <2>13 DEF CutPath
    <2> QED
      BY <1>4, <1>5, <2>10, <2>14 DEF KtInv, CutPart
  <1> QED
    BY <1>6, <1>7

(* A removal stands where it stood while nothing about the nodes changes. *)
LEMMA CutUntouched ==
    ASSUME CutPart, Live' = Live, Dirs' = Dirs, UNCHANGED <<kt_node, kt_cut>>
    PROVE  CutPart'
  <1>1. PICK rank : Ranked(rank) /\ (Unlocked \/ (kt_cut \in Cuts /\ \E path : CutPath(rank, path)))
    BY DEF CutPart
  <1>2. Ranked(rank)'
    BY <1>1 DEF Ranked
  <1>3. Unlocked' <=> Unlocked
    BY DEF Unlocked
  <1>4. kt_cut' \in Cuts <=> kt_cut \in Cuts
    OBVIOUS
  <1>5. ASSUME NEW path, CutPath(rank, path) PROVE CutPath(rank, path)'
    BY <1>5 DEF CutPath
  <1>6. (Unlocked \/ (kt_cut \in Cuts /\ \E path : CutPath(rank, path)))'
    BY <1>1, <1>3, <1>4, <1>5, Zenon
  <1> QED
    BY <1>2, <1>6, Zenon DEF CutPart

(* Readers come and go; an entry leads to a live node. *)
LEMMA ReadersInv ==
    ASSUME KtInv, NEW r \in Readers, Enter(r) \/ Leave(r)
    PROVE  KtInv'
  <1>1. UNCHANGED <<kt_root, kt_node, kt_kids, kt_priv, kt_entry, kt_cut>>
    BY DEF Enter, Leave
  <1>2. NodesTyped /\ KidsExact /\ Shadowed /\ ReadersIn /\ CutPart
    BY DEF KtInv, TreePart
  <1>3. PICK n : n \in Live \cup {NoNode} /\ kt_inside' = [kt_inside EXCEPT ![r] = n]
    <2>1. CASE Leave(r)
      BY <2>1 DEF Leave
    <2>2. CASE Enter(r)
      <3>1. PICK e \in kt_entry : kt_inside' = [kt_inside EXCEPT ![r] = e.node]
        BY <2>2 DEF Enter
      <3>2. PICK m \in Live : e = Shadow(m)
        BY <1>2, <3>1 DEF Shadowed
      <3>3. e.node = m
        BY <3>2 DEF Shadow
      <3> QED
        BY <3>1, <3>2, <3>3
    <2> QED
      BY <2>1, <2>2
  <1>4. n \in NodeIds \cup {NoNode}
    BY <1>2, <1>3, LiveNodes
  <1>5. kt_inside' \in [Readers -> NodeIds \cup {NoNode}] /\ \A q \in Readers : kt_inside'[q] \in {n, kt_inside[q]}
    BY <1>2, <1>3, <1>4 DEF NodesTyped
  <1>6. Live' = Live /\ Dirs' = Dirs
    BY <1>1 DEF Live, Dirs
  <1>7. NodesTyped' /\ KidsExact' /\ Shadowed'
    BY <1>1, <1>2, <1>5, <1>6 DEF NodesTyped, KidsExact, Shadowed, Shadow
  <1>8. ReadersIn'
    BY <1>2, <1>3, <1>5, <1>6 DEF ReadersIn
  <1>9. CutPart'
    BY <1>1, <1>2, <1>6, CutUntouched
  <1> QED
    BY <1>7, <1>8, <1>9 DEF KtInv, TreePart

(* The steps that leave the tree alone. *)
LEMMA TreeUntouched ==
    ASSUME KtInv, kt_root' \in BOOLEAN, UNCHANGED <<kt_node, kt_kids, kt_priv, kt_entry, kt_inside, kt_cut>>
    PROVE  KtInv'
  <1>1. Live' = Live /\ Dirs' = Dirs
    BY DEF Live, Dirs
  <1>2. TreePart'
    BY <1>1 DEF KtInv, TreePart, NodesTyped, KidsExact, Shadowed, ReadersIn, Shadow
  <1>3. CutPart'
    BY <1>1, CutUntouched DEF KtInv
  <1> QED
    BY <1>2, <1>3 DEF KtInv

(* Every step keeps the invariant. *)
LEMMA KtNextInv == KtInv /\ [KinfoNext]_ktVars => KtInv'
  <1> SUFFICES ASSUME KtInv, [KinfoNext]_ktVars PROVE KtInv'
    OBVIOUS
  <1>1. CASE kfio_info_driver_init \/ kfio_info_driver_fini \/ UNCHANGED ktVars
    <2>1. kt_root' \in BOOLEAN /\ UNCHANGED <<kt_node, kt_kids, kt_priv, kt_entry, kt_inside, kt_cut>>
      BY <1>1 DEF kfio_info_driver_init, kfio_info_driver_fini, ktVars, KtInv, TreePart, NodesTyped
    <2> QED
      BY <2>1, TreeUntouched
  <1>2. ASSUME NEW p \in Dirs \cup {Top, NoNode}, NEW s \in NodeNames, kfio_info_create_dir(p, s) \/ CreateLeaf(p, s)
        PROVE  KtInv'
    <2>1. CreateNode(p, "dir", s) \/ CreateNode(p, "leaf", s)
      BY <1>2 DEF kfio_info_create_dir, CreateLeaf
    <2> QED
      BY <2>1, CreateInv
  <1>3. ASSUME NEW n \in NodeIds, RemoveStart(n) PROVE KtInv'
    BY <1>3, RemoveStartInv
  <1>4. CASE RemoveLeaf
    BY <1>4, RemoveLeafInv
  <1>5. CASE RemoveDescend
    BY <1>5, RemoveDescendInv
  <1>6. CASE RemoveChild
    BY <1>6, RemoveChildInv
  <1>7. CASE RemoveAscend
    BY <1>7, RemoveAscendInv
  <1>8. ASSUME NEW r \in Readers, Enter(r) \/ Leave(r) PROVE KtInv'
    BY <1>8, ReadersInv
  <1> QED
    BY <1>1, <1>2, <1>3, <1>4, <1>5, <1>6, <1>7, <1>8 DEF KinfoNext

(* For any nodes, names and readers: /proc shadows the tree at every step,   *)
(* also inside a removal; each list holds the nodes of its directory once,   *)
(* and nobody is inside a file operation of a freed node                     *)
(* (kfio_info_insert_node, kfio_info_remove_node).                           *)
THEOREM TreeAlwaysExact == KinfoSpec => [](KinfoTypeOK /\ KinfoTreeExact)
  <1> QED
    BY KtInitInv, KtNextInv, KtInvSuffices, PTL DEF KinfoSpec

-----------------------------------------------------------------------------
(* Files of information nodes *)

(* The equation that defines Bytes, up to n. *)
IsBytes(g, n) == g = [i \in 0 .. n |-> IF i = 0 THEN 0 ELSE RecordLens[i] + g[i - 1]]

(* It has a solution. *)
LEMMA BytesExist ==
    ASSUME NEW n \in Nat
    PROVE  \E g : IsBytes(g, n)
  <1> DEFINE S == {m \in Nat : \E g : IsBytes(g, m)}
  <1>1. 0 \in S
    <2> DEFINE g == [i \in 0 .. 0 |-> 0]
    <2>1. IsBytes(g, 0)
      BY DEF IsBytes
    <2> QED
      BY <2>1
  <1>2. ASSUME NEW m \in Nat, m \in S PROVE m + 1 \in S
    <2>1. PICK g : IsBytes(g, m)
      BY <1>2
    <2> DEFINE h == [i \in 0 .. (m + 1) |-> IF i = m + 1 THEN RecordLens[m + 1] + g[m] ELSE g[i]]
    <2>2. \A i \in 0 .. m : g[i] = IF i = 0 THEN 0 ELSE RecordLens[i] + g[i - 1]
      BY <2>1 DEF IsBytes
    <2>3. \A i \in 0 .. (m + 1) : h[i] = IF i = 0 THEN 0 ELSE RecordLens[i] + h[i - 1]
      BY <2>2
    <2>4. h = [i \in 0 .. (m + 1) |-> h[i]]
      OBVIOUS
    <2> HIDE DEF h
    <2>5. IsBytes(h, m + 1)
      BY <2>3, <2>4 DEF IsBytes
    <2> QED
      BY <2>5
  <1>3. Nat \subseteq S
    BY <1>1, <1>2, SetInduction
  <1> QED
    BY <1>3

(* The bytes of the first records, and of one more. *)
LEMMA BytesOfRecords ==
    /\ Len(RecordLens) \in Nat /\ Bytes[0] = 0
    /\ \A i \in 1 .. Len(RecordLens) : RecordLens[i] \in Nat /\ Bytes[i] = RecordLens[i] + Bytes[i - 1]
    /\ \A i \in 0 .. Len(RecordLens) : Bytes[i] \in Nat
  <1> DEFINE L == Len(RecordLens)
  <1>1. L \in Nat /\ \A i \in 1 .. L : RecordLens[i] \in Nat
    BY KinfoFileBounds, ElementOfSeq
  <1>2. IsBytes(Bytes, L)
    <2>1. \E g : IsBytes(g, L)
      BY <1>1, BytesExist
    <2>2. Bytes = CHOOSE g : IsBytes(g, L)
      BY DEF Bytes, IsBytes
    <2> QED
      BY <2>1, <2>2
  <1> HIDE DEF L
  <1>3. \A i \in 0 .. L : Bytes[i] = IF i = 0 THEN 0 ELSE RecordLens[i] + Bytes[i - 1]
    BY <1>2 DEF IsBytes
  <1> DEFINE S == {m \in Nat : m <= L => Bytes[m] \in Nat}
  <1>4. 0 \in S
    BY <1>1, <1>3
  <1>5. ASSUME NEW m \in Nat, m \in S PROVE m + 1 \in S
    <2>1. CASE m + 1 <= L
      <3>1. Bytes[m + 1] = RecordLens[m + 1] + Bytes[m] /\ RecordLens[m + 1] \in Nat /\ Bytes[m] \in Nat
        BY <1>1, <1>3, <1>5, <2>1
      <3> QED
        BY <3>1
    <2> QED
      BY <2>1
  <1>6. Nat \subseteq S
    BY <1>4, <1>5, SetInduction
  <1> QED
    BY <1>1, <1>3, <1>6 DEF L

(* Between two rounds of seq_read the buffer is empty; within one the data  *)
(* handle counts what is in it, and a record that is shown is there.        *)
SeqHandle ==
    /\ ks_next = ks_got + ks_buf.recs + 1
    /\ ks_buf.count = Bytes[ks_got + ks_buf.recs] - Bytes[ks_got]
    /\ ks_at \in {"idle", "start", "wild"} => ks_buf.recs = 0 /\ ks_buf.count = 0
    /\ ks_at \in {"show", "more"} =>
         /\ ks_dbh.max = ks_buf.size /\ ks_dbh.cur = ks_buf.count /\ ks_dbh.tot = ks_buf.count
         /\ ks_buf.count <= ks_buf.size
    /\ ks_at = "show" => ks_next <= Len(RecordLens)

FileIInv == FileTypeOK /\ KinfoReadWithin /\ KinfoWriteExact /\ SeqHandle

(* The handle of a record that fits has not overflowed. *)
LEMMA FileIInvSuffices == FileIInv => FileTypeOK /\ KinfoFileExact
  <1> SUFFICES ASSUME FileIInv PROVE FileTypeOK /\ KinfoFileExact
    OBVIOUS
  <1>1. SeqRecordsWhole
    <2>1. ks_at \in {"show", "more"} => ks_dbh.cur = ks_buf.count /\ ~kfio_info_data_overflow(ks_dbh)
      BY DEF FileIInv, FileTypeOK, SeqHandle, kfio_info_data_overflow
    <2> QED
      BY <2>1 DEF FileIInv, SeqHandle, SeqRecordsWhole
  <1> QED
    BY <1>1 DEF FileIInv, KinfoFileExact

(* A file nobody has read. *)
LEMMA FileInitInv == FileInit => FileIInv
  <1> SUFFICES ASSUME FileInit PROVE FileIInv
    OBVIOUS
  <1>1. SeqBuf(FirstSize) = [size |-> FirstSize, count |-> 0, recs |-> 0] /\ Dbh(0) = [max |-> 0, cur |-> 0, tot |-> 0]
    BY DEF SeqBuf, Dbh
  <1>2. FileTypeOK
    <2>1. /\ 0 \in 0 .. MaxText /\ 1 \in 0 .. MaxText /\ 0 \in 0 .. MaxPos /\ 0 \in 0 .. Len(RecordLens) /\ 1 \in 1 .. Len(RecordLens) + 1
          /\ FirstSize \in Nat
      BY KinfoFileBounds, BytesOfRecords
    <2>2. ks_buf \in [size : Nat, count : Nat, recs : Nat] /\ ks_dbh \in [max : Nat, cur : Nat, tot : Nat]
      BY <1>1, <2>1 DEF FileInit
    <2> QED
      BY <2>1, <2>2 DEF FileInit, FileTypeOK
  <1>3. KinfoReadWithin /\ KinfoWriteExact
    BY DEF FileInit, KinfoReadWithin, KinfoWriteExact
  <1>4. SeqHandle
    <2>1. /\ ks_got = 0 /\ ks_buf.recs = 0 /\ ks_buf.count = 0 /\ ks_next = 1 /\ ks_at = "idle"
          /\ ks_got + ks_buf.recs = 0
      BY <1>1 DEF FileInit
    <2>2. Bytes[0] = 0
      BY BytesOfRecords
    <2> QED
      BY <2>1, <2>2 DEF SeqHandle
  <1> QED
    BY <1>2, <1>3, <1>4 DEF FileIInv

(* The three parts of the state, which no operation mixes. *)
ReadTypes ==
    /\ kf_pos \in 0 .. MaxPos /\ kf_told \in 0 .. MaxPos
    /\ kf_over \in BOOLEAN /\ kf_shrunk \in BOOLEAN /\ kf_fault \in BOOLEAN
ValTypes == kf_val \in 0 .. MaxText /\ kf_asked \in 0 .. MaxText /\ kf_exact \in BOOLEAN /\ kf_leak \in BOOLEAN
SeqTypes ==
    /\ ks_at \in {"idle", "start", "show", "more", "stop", "wild"}
    /\ ks_buf \in [size : Nat, count : Nat, recs : Nat]
    /\ ks_dbh \in [max : Nat, cur : Nat, tot : Nat]
    /\ ks_next \in 1 .. Len(RecordLens) + 1 /\ ks_got \in 0 .. Len(RecordLens)

ReadPart == ReadTypes /\ KinfoReadWithin
ValPart  == ValTypes /\ KinfoWriteExact
SeqPart  == SeqTypes /\ SeqHandle

LEMMA FileParts == (FileIInv => ReadPart /\ ValPart /\ SeqPart) /\ (ReadPart' /\ ValPart' /\ SeqPart' => FileIInv')
  BY DEF FileIInv, FileTypeOK, ReadPart, ValPart, SeqPart, ReadTypes, ValTypes, SeqTypes

(* A part whose variables stay is as it was. *)
LEMMA PartsStay ==
    /\ ReadPart /\ UNCHANGED readVars => ReadPart'
    /\ ValPart /\ UNCHANGED valVars => ValPart'
    /\ SeqPart /\ UNCHANGED seqVars => SeqPart'
  <1>1. ReadPart /\ UNCHANGED readVars => ReadPart'
    BY DEF ReadPart, ReadTypes, KinfoReadWithin, readVars
  <1>2. ValPart /\ UNCHANGED valVars => ValPart'
    BY DEF ValPart, ValTypes, KinfoWriteExact, valVars
  <1>3. SeqPart /\ UNCHANGED seqVars => SeqPart'
    BY DEF SeqPart, SeqTypes, SeqHandle, seqVars
  <1> QED
    BY <1>1, <1>2, <1>3

(* A call that moves bytes, fails to copy them or fails late leaves the    *)
(* position and what was told within bounds, and the two agree unless a    *)
(* call failed.                                                            *)
LEMMA MoveStep ==
    ASSUME ReadPart, NEW n \in Nat, Moves(n) \/ CopyFails(n) \/ FailsLate(n), WithinBound
    PROVE  /\ kf_pos' \in 0 .. MaxPos /\ kf_told' \in 0 .. MaxPos /\ kf_fault' \in BOOLEAN
           /\ kf_fault' \/ kf_told' = kf_pos'
  <1>1. /\ kf_pos \in Nat /\ kf_told \in Nat /\ MaxPos \in Nat /\ kf_fault \in BOOLEAN
        /\ kf_fault \/ kf_told = kf_pos
    BY KinfoFileBounds DEF ReadPart, ReadTypes, KinfoReadWithin
  <1>2. kf_pos' <= MaxPos /\ kf_told' <= MaxPos
    BY DEF WithinBound
  <1>3. CASE Moves(n)
    BY <1>1, <1>2, <1>3 DEF Moves
  <1>4. CASE CopyFails(n)
    BY <1>1, <1>2, <1>4 DEF CopyFails
  <1>5. CASE FailsLate(n)
    <2>1. kf_pos' \in {kf_pos, kf_pos + n} /\ kf_fault' = (kf_fault \/ kf_pos' # kf_pos) /\ kf_told' = kf_told
      BY <1>5 DEF FailsLate
    <2>2. kf_pos' \in 0 .. MaxPos /\ kf_told' \in 0 .. MaxPos
      BY <1>1, <1>2, <2>1
    <2>3. kf_fault' \in BOOLEAN /\ (kf_fault' \/ kf_told' = kf_pos')
      BY ONLY <1>1, <2>1, Zenon
    <2> QED
      BY <2>2, <2>3
  <1> QED
    BY <1>3, <1>4, <1>5

(* Reading a value: only a position behind its end lets a copy run over it. *)
LEMMA ReadStep ==
    ASSUME ReadPart, ValPart, NEW count \in 0 .. MaxCount, kfio_info_os_type_read(count)
    PROVE  ReadPart'
  <1> DEFINE n == BytesToCopy(kf_val, count, kf_pos)
  <1>1. /\ kf_pos \in Nat /\ kf_val \in Nat /\ count \in Nat
        /\ kf_over \in BOOLEAN /\ kf_shrunk \in BOOLEAN
    BY KinfoFileBounds DEF ReadPart, ReadTypes, ValPart, ValTypes
  <1>2. n \in Nat /\ (kf_pos <= kf_val => kf_pos + n <= kf_val)
    BY <1>1 DEF BytesToCopy
  <1>3. /\ kf_over' = (kf_over \/ (n > 0 /\ kf_pos + n > kf_val))
        /\ kf_shrunk' = (kf_shrunk \/ kf_pos > kf_val)
        /\ Moves(n) \/ CopyFails(n)
        /\ WithinBound
    BY DEF kfio_info_os_type_read
  <1> HIDE DEF n
  <1>4. /\ kf_pos' \in 0 .. MaxPos /\ kf_told' \in 0 .. MaxPos /\ kf_fault' \in BOOLEAN
        /\ kf_fault' \/ kf_told' = kf_pos'
    BY <1>2, <1>3, MoveStep
  <1>5. kf_over' \in BOOLEAN /\ kf_shrunk' \in BOOLEAN
    BY ONLY <1>1, <1>3, Zenon
  <1>6. ASSUME kf_over' PROVE kf_shrunk'
    <2>1. CASE kf_over
      BY <1>3, <2>1, Zenon DEF ReadPart, KinfoReadWithin
    <2>2. CASE kf_pos + n > kf_val
      <3>1. kf_pos > kf_val
        BY <1>1, <1>2, <2>2
      <3> QED
        BY ONLY <1>3, <3>1, Zenon
    <2> QED
      BY ONLY <1>3, <1>6, <2>1, <2>2, Zenon
  <1> QED
    BY <1>4, <1>5, <1>6 DEF ReadPart, ReadTypes, KinfoReadWithin

(* A write moves the position and leaves the rest of the read side alone. *)
LEMMA WriteMoves ==
    ASSUME ReadPart, NEW n \in Nat, Moves(n) \/ CopyFails(n) \/ FailsLate(n), WithinBound,
           UNCHANGED <<kf_over, kf_shrunk>>
    PROVE  ReadPart'
  <1>1. /\ kf_pos' \in 0 .. MaxPos /\ kf_told' \in 0 .. MaxPos /\ kf_fault' \in BOOLEAN
        /\ kf_fault' \/ kf_told' = kf_pos'
    BY MoveStep
  <1>2. kf_over' \in BOOLEAN /\ kf_shrunk' \in BOOLEAN /\ (kf_over' => kf_shrunk')
    BY DEF ReadPart, ReadTypes, KinfoReadWithin
  <1> QED
    BY <1>1, <1>2 DEF ReadPart, ReadTypes, KinfoReadWithin

(* A number is taken with at most one character behind it. *)
LEMMA NumberStep ==
    ASSUME ReadPart, ValPart, NEW v \in 0 .. MaxText, NEW t \in 0 .. 2, WriteNumber(v, t)
    PROVE  ReadPart' /\ ValPart' /\ UNCHANGED seqVars
  <1>1. /\ MaxText \in Nat /\ LocalBuf \in Nat /\ v + t \in Nat /\ v + t <= LocalBuf
        /\ UNCHANGED <<kf_leak, kf_over, kf_shrunk>> /\ UNCHANGED seqVars /\ WithinBound
    BY KinfoFileBounds DEF WriteNumber
  <1>2. Moves(v + t) \/ CopyFails(v + t) \/ FailsLate(v + t)
    BY DEF WriteNumber
  <1>3. ReadPart'
    BY <1>1, <1>2, WriteMoves
  <1>4. CASE UNCHANGED <<kf_val, kf_asked, kf_exact>>
    BY <1>1, <1>3, <1>4 DEF ValPart, ValTypes, KinfoWriteExact
  <1>5. CASE /\ ParseTaken(v, v + t)
             /\ IF t = 0 THEN kf_val' \in v .. MaxText ELSE kf_val' = v
             /\ kf_asked' = IF t = 0 THEN v ELSE v + t - 1
             /\ kf_exact' = (t # 0)
    <2>1. t \in {0, 1}
      BY <1>1, <1>5 DEF ParseTaken
    <2>2. kf_val' \in 0 .. MaxText /\ kf_asked' = v /\ kf_exact' \in BOOLEAN /\ (t # 0 => kf_val' = kf_asked')
      BY <1>1, <1>5, <2>1
    <2>3. kf_exact' => kf_val' = kf_asked'
      BY ONLY <1>5, <2>2, Zenon
    <2>4. kf_leak' \in BOOLEAN
      BY <1>1 DEF ValPart, ValTypes
    <2> QED
      BY <1>1, <1>3, <2>2, <2>3, <2>4 DEF ValPart, ValTypes, KinfoWriteExact
  <1> QED
    BY <1>4, <1>5 DEF WriteNumber

(* A string that fills its node is stored as it is. *)
LEMMA StringStep ==
    ASSUME ReadPart, ValPart, NEW v \in 0 .. MaxText, NEW size \in 0 .. MaxText,
           StringTooLong(v, size) \/ WriteString(v, size)
    PROVE  ReadPart' /\ ValPart' /\ UNCHANGED seqVars
  <1>1. MaxText \in Nat /\ kf_leak \in BOOLEAN /\ v \in Nat
    BY KinfoFileBounds DEF ValPart, ValTypes
  <1>2. CASE StringTooLong(v, size)
    <2>1. /\ kf_leak' = (kf_leak \/ size > LocalBuf)
          /\ UNCHANGED <<kf_val, kf_asked, kf_exact>> /\ UNCHANGED readVars /\ UNCHANGED seqVars
      BY <1>2 DEF StringTooLong
    <2>2. kf_leak' \in BOOLEAN
      BY ONLY <2>1, Zenon
    <2>3. ReadPart'
      BY <2>1, PartsStay
    <2> QED
      BY <2>1, <2>2, <2>3 DEF ValPart, ValTypes, KinfoWriteExact
  <1>3. CASE WriteString(v, size)
    <2>1. /\ v <= size /\ UNCHANGED <<kf_leak, kf_over, kf_shrunk>> /\ UNCHANGED seqVars /\ WithinBound
          /\ Moves(v) \/ CopyFails(v) \/ FailsLate(v)
      BY <1>3 DEF WriteString
    <2>2. ReadPart'
      BY <1>1, <2>1, WriteMoves
    <2>3. CASE UNCHANGED <<kf_val, kf_asked, kf_exact>>
      BY <2>1, <2>2, <2>3 DEF ValPart, ValTypes, KinfoWriteExact
    <2>4. CASE /\ IF v < size THEN kf_val' \in v .. size ELSE kf_val' = v
               /\ kf_asked' = v /\ kf_exact' = (v = size)
      <3>1. kf_val' \in 0 .. MaxText /\ (v = size => kf_val' = v) /\ kf_exact' \in BOOLEAN
        BY <1>1, <2>1, <2>4
      <3>2. kf_exact' => kf_val' = kf_asked'
        BY ONLY <2>4, <3>1, Zenon
      <3> QED
        BY <1>1, <2>1, <2>2, <2>4, <3>1, <3>2 DEF ValPart, ValTypes, KinfoWriteExact
    <2> QED
      BY <1>3, <2>3, <2>4 DEF WriteString
  <1> QED
    BY <1>2, <1>3

(* What an operation of the sequence file leaves; the buffer and the handle *)
(* by their fields.                                                         *)
LEMMA SeqFields ==
    ASSUME SeqPart
    PROVE  /\ ks_buf.size \in Nat /\ ks_buf.count \in Nat /\ ks_buf.recs \in Nat
           /\ ks_dbh.max \in Nat /\ ks_dbh.cur \in Nat /\ ks_dbh.tot \in Nat
           /\ ks_got \in Nat /\ ks_next \in Nat /\ Len(RecordLens) \in Nat /\ ks_next <= Len(RecordLens) + 1
           /\ ks_next = ks_got + ks_buf.recs + 1
           /\ ks_got + ks_buf.recs \in 0 .. Len(RecordLens) /\ ks_got \in 0 .. Len(RecordLens)
           /\ Bytes[ks_got] \in Nat /\ Bytes[ks_got + ks_buf.recs] \in Nat
           /\ ks_buf = [size |-> ks_buf.size, count |-> ks_buf.count, recs |-> ks_buf.recs]
  <1>1. /\ ks_buf.size \in Nat /\ ks_buf.count \in Nat /\ ks_buf.recs \in Nat
        /\ ks_dbh.max \in Nat /\ ks_dbh.cur \in Nat /\ ks_dbh.tot \in Nat
        /\ ks_buf = [size |-> ks_buf.size, count |-> ks_buf.count, recs |-> ks_buf.recs]
    BY DEF SeqPart, SeqTypes
  <1>2. Len(RecordLens) \in Nat
    BY BytesOfRecords
  <1>3. /\ ks_next \in 1 .. Len(RecordLens) + 1 /\ ks_got \in 0 .. Len(RecordLens)
        /\ ks_next = ks_got + ks_buf.recs + 1
    BY DEF SeqPart, SeqTypes, SeqHandle
  <1>4. ks_got + ks_buf.recs \in 0 .. Len(RecordLens)
    BY <1>1, <1>2, <1>3
  <1>5. Bytes[ks_got] \in Nat /\ Bytes[ks_got + ks_buf.recs] \in Nat
    BY <1>3, <1>4, BytesOfRecords
  <1> QED
    BY <1>1, <1>2, <1>3, <1>4, <1>5

(* The number of records given, and the record after them. *)
LEMMA NextRecord == \A got \in 0 .. Len(RecordLens) : got + 0 = got /\ got + 1 \in 1 .. Len(RecordLens) + 1
  <1>1. Len(RecordLens) \in Nat
    BY BytesOfRecords
  <1> QED
    BY <1>1

(* An empty buffer holds no bytes of no records. *)
LEMMA EmptyBuffer ==
    ASSUME SeqPart, NEW size \in Nat, ks_buf' = SeqBuf(size), ks_dbh' = Dbh(0),
           ks_got' \in 0 .. Len(RecordLens), ks_next' = ks_got' + 1,
           ks_at' \in {"idle", "start", "wild"}
    PROVE  SeqPart'
  <1>1. /\ ks_buf' = [size |-> size, count |-> 0, recs |-> 0] /\ ks_dbh' = [max |-> 0, cur |-> 0, tot |-> 0]
        /\ ks_buf'.recs = 0 /\ ks_buf'.count = 0
    BY DEF SeqBuf, Dbh
  <1>2. SeqTypes'
    <2>1. ks_buf' \in [size : Nat, count : Nat, recs : Nat] /\ ks_dbh' \in [max : Nat, cur : Nat, tot : Nat]
      BY <1>1
    <2>2. ks_got' + 1 \in 1 .. Len(RecordLens) + 1
      BY NextRecord, Zenon
    <2> QED
      BY <2>1, <2>2 DEF SeqTypes
  <1>3. Bytes[ks_got'] \in Nat /\ ks_got' + ks_buf'.recs = ks_got'
    <2>1. Bytes[ks_got'] \in Nat
      BY BytesOfRecords
    <2>2. ks_got' + 0 = ks_got'
      BY NextRecord, Zenon
    <2> QED
      BY <1>1, <2>1, <2>2
  <1>4. SeqHandle'
    BY <1>1, <1>3 DEF SeqHandle
  <1> QED
    BY <1>2, <1>4 DEF SeqPart

(* A record that leaves the buffer short of full was not cut: it is there as *)
(* a whole.                                                                  *)
LEMMA ShowStep ==
    ASSUME SeqPart, SeqShow
    PROVE  SeqPart'
  <1> DEFINE len   == RecordLens[ks_next]
             dbh   == kfio_info_printf(ks_dbh, len)
             count == ks_buf.count + Committed(dbh, ks_dbh)
  <1>1. /\ ks_at = "show" /\ ks_next <= Len(RecordLens) /\ ks_dbh.max = ks_buf.size
        /\ ks_dbh.cur = ks_buf.count /\ ks_dbh.tot = ks_buf.count /\ ks_buf.count <= ks_buf.size
        /\ ks_buf.count = Bytes[ks_got + ks_buf.recs] - Bytes[ks_got]
        /\ ks_dbh \in [max : Nat, cur : Nat, tot : Nat] /\ ks_buf \in [size : Nat, count : Nat, recs : Nat]
    BY DEF SeqShow, SeqPart, SeqHandle, SeqTypes
  <1>2. /\ ks_next \in 1 .. Len(RecordLens) /\ len \in Nat /\ ks_next - 1 = ks_got + ks_buf.recs
        /\ Bytes[ks_next] = len + Bytes[ks_got + ks_buf.recs]
    <2>1. ks_next \in 1 .. Len(RecordLens) /\ ks_next - 1 = ks_got + ks_buf.recs
      BY <1>1, SeqFields
    <2> QED
      BY <2>1, BytesOfRecords
  <1>3. /\ dbh \in [max : Nat, cur : Nat, tot : Nat] /\ dbh.max = ks_buf.size
        /\ dbh.cur = (IF len > ks_buf.size - ks_buf.count THEN ks_buf.size ELSE ks_buf.count + len)
        /\ dbh.tot = ks_buf.count + len
    <2> DEFINE cur == IF len > ks_dbh.max - ks_dbh.cur THEN ks_dbh.max ELSE ks_dbh.cur + len
    <2>1. dbh = [ks_dbh EXCEPT !.cur = cur, !.tot = ks_dbh.tot + len]
      BY DEF kfio_info_printf
    <2>2. cur \in Nat /\ ks_dbh.tot + len \in Nat
      BY <1>1, <1>2
    <2>3. cur = IF len > ks_buf.size - ks_buf.count THEN ks_buf.size ELSE ks_buf.count + len
      BY <1>1
    <2> HIDE DEF cur, dbh, len
    <2> QED
      BY <1>1, <2>1, <2>2, <2>3
  <1>4. count = dbh.cur /\ UNCHANGED ks_got
    BY <1>1, <1>3 DEF Committed, SeqShow
  <1> HIDE DEF len, dbh, count
  <1>5. CASE count < ks_buf.size
    <2>1. /\ ks_buf' = [ks_buf EXCEPT !.count = count, !.recs = @ + 1]
          /\ ks_dbh' = dbh /\ ks_next' = ks_next + 1 /\ ks_at' = "more"
      BY <1>5 DEF SeqShow, len, dbh, count
    <2>2. count = ks_buf.count + len /\ count \in Nat
      BY <1>1, <1>2, <1>3, <1>4, <1>5
    <2>3. /\ ks_buf' \in [size : Nat, count : Nat, recs : Nat]
          /\ ks_buf'.size = ks_buf.size /\ ks_buf'.count = count /\ ks_buf'.recs = ks_buf.recs + 1
      <3>1. ks_buf.recs + 1 \in Nat /\ ks_buf' = [ks_buf EXCEPT !.count = count, !.recs = ks_buf.recs + 1]
        BY <2>1, SeqFields
      <3> QED
        BY <1>1, <2>2, <3>1
    <2>4. ks_next' \in 1 .. Len(RecordLens) + 1 /\ ks_next' = ks_got' + ks_buf'.recs + 1
      <3>1. ks_next \in Nat /\ ks_got \in Nat /\ ks_buf.recs \in Nat /\ Len(RecordLens) \in Nat
        BY SeqFields
      <3> QED
        BY <1>2, <1>4, <2>1, <2>3, <3>1
    <2>5. SeqTypes'
      BY <1>3, <1>4, <2>1, <2>3, <2>4 DEF SeqPart, SeqTypes
    <2>6. ks_got' + ks_buf'.recs = ks_next
      BY <1>2, <1>4, <2>3, SeqFields
    <2>7. ks_buf'.count = Bytes[ks_got' + ks_buf'.recs] - Bytes[ks_got']
      <3>1. Bytes[ks_got] \in Nat /\ Bytes[ks_got + ks_buf.recs] \in Nat
        BY SeqFields
      <3>2. ks_buf'.count = Bytes[ks_next] - Bytes[ks_got]
        BY <1>1, <1>2, <2>2, <2>3, <3>1
      <3> QED
        BY <1>4, <2>6, <3>2
    <2>8. /\ ks_dbh'.max = ks_buf'.size /\ ks_dbh'.cur = ks_buf'.count /\ ks_dbh'.tot = ks_buf'.count
          /\ ks_buf'.count <= ks_buf'.size
      BY <1>1, <1>3, <1>4, <1>5, <2>1, <2>2, <2>3
    <2>9. SeqHandle'
      BY <2>1, <2>4, <2>7, <2>8 DEF SeqHandle
    <2> QED
      BY <2>5, <2>9 DEF SeqPart
  <1>6. CASE ~(count < ks_buf.size) /\ ks_buf.recs = 0
    <2>1. /\ ks_buf' = SeqBuf(2 * ks_buf.size) /\ ks_dbh' = Dbh(0) /\ UNCHANGED ks_next /\ ks_at' = "start"
      BY <1>6 DEF SeqShow, len, dbh, count
    <2>2. 2 * ks_buf.size \in Nat /\ ks_got' \in 0 .. Len(RecordLens) /\ ks_next' = ks_got' + 1
      BY <1>4, <1>6, <2>1, SeqFields
    <2> QED
      BY <2>1, <2>2, EmptyBuffer
  <1>7. CASE ~(count < ks_buf.size) /\ ks_buf.recs # 0
    <2>1. UNCHANGED <<ks_buf, ks_dbh, ks_next>> /\ ks_at' = "stop"
      BY <1>7 DEF SeqShow, len, dbh, count
    <2> QED
      BY <1>4, <2>1 DEF SeqPart, SeqTypes, SeqHandle
  <1> QED
    BY <1>5, <1>6, <1>7

(* Every other step of seq_read. *)
LEMMA SeqSteps ==
    ASSUME SeqPart, SeqStart \/ SeqShowFails \/ SeqNext \/ SeqStop \/ SeqReopen
    PROVE  SeqPart'
  <1>1. CASE SeqStart
    <2>1. /\ ks_at \in {"idle", "start"} /\ ks_next <= Len(RecordLens) /\ UNCHANGED <<ks_buf, ks_next, ks_got>>
          /\ ks_buf.recs = 0 /\ ks_buf.count = 0
          /\ \/ ks_dbh' = Dbh(ks_buf.size - ks_buf.count) /\ ks_at' = "show"
             \/ ks_dbh' = Dbh(0) /\ ks_at' = "stop"
      BY <1>1 DEF SeqStart, SeqPart, SeqHandle
    <2>2. ks_buf.size - ks_buf.count = ks_buf.size /\ ks_buf.size \in Nat
      BY <2>1, SeqFields
    <2>3. /\ ks_dbh' \in [max : Nat, cur : Nat, tot : Nat]
          /\ ks_at' = "show" => ks_dbh'.max = ks_buf.size /\ ks_dbh'.cur = 0 /\ ks_dbh'.tot = 0
          /\ ks_at' \in {"show", "stop"}
      BY <2>1, <2>2 DEF Dbh
    <2> QED
      BY <2>1, <2>2, <2>3 DEF SeqPart, SeqTypes, SeqHandle
  <1>2. CASE SeqShowFails
    <2>1. /\ ks_at' = "idle" /\ ks_buf' = SeqBuf(ks_buf.size) /\ ks_next' = ks_got' + 1
          /\ ks_dbh' = Dbh(0) /\ ks_got' = ks_got
      BY <1>2 DEF SeqShowFails
    <2> QED
      BY <2>1, EmptyBuffer, SeqFields
  <1>3. CASE SeqNext
    <2>1. /\ ks_at = "more" /\ UNCHANGED <<ks_buf, ks_dbh, ks_next, ks_got>>
          /\ ks_at' = IF ks_next <= Len(RecordLens) THEN "show" ELSE "stop"
      BY <1>3 DEF SeqNext
    <2> QED
      BY <2>1 DEF SeqPart, SeqTypes, SeqHandle
  <1>4. CASE SeqStop
    <2>1. /\ ks_at' \in {"wild", "idle"} /\ ks_got' = ks_got + ks_buf.recs /\ ks_buf' = SeqBuf(ks_buf.size)
          /\ ks_dbh' = Dbh(0) /\ ks_next' = ks_next
      BY <1>4 DEF SeqStop
    <2>2. ks_got' \in 0 .. Len(RecordLens) /\ ks_next' = ks_got' + 1 /\ ks_buf.size \in Nat
      BY <2>1, SeqFields
    <2> QED
      BY <2>1, <2>2, EmptyBuffer
  <1>5. CASE SeqReopen
    <2>1. ks_at = "idle" /\ ks_at' = ks_at /\ ks_got' = 0 /\ ks_next' = 1 /\ ks_buf' = SeqBuf(FirstSize) /\ ks_dbh' = ks_dbh
      BY <1>5 DEF SeqReopen
    <2>2. /\ ks_buf' = [size |-> FirstSize, count |-> 0, recs |-> 0] /\ FirstSize \in Nat
          /\ ks_buf'.recs = 0 /\ ks_buf'.count = 0 /\ Len(RecordLens) \in Nat /\ Bytes[0] = 0
      BY <2>1, KinfoFileBounds, BytesOfRecords DEF SeqBuf
    <2>3. SeqTypes'
      BY <2>1, <2>2 DEF SeqPart, SeqTypes
    <2>4. ks_got' + ks_buf'.recs = 0
      BY <2>1, <2>2
    <2>5. SeqHandle'
      BY <2>1, <2>2, <2>4 DEF SeqHandle
    <2> QED
      BY <2>3, <2>5 DEF SeqPart
  <1> QED
    BY <1>1, <1>2, <1>3, <1>4, <1>5

(* Every step of a file. *)
LEMMA FileStepInv ==
    ASSUME FileIInv, [FileNext]_kfVars
    PROVE  FileIInv'
  <1>1. ReadPart /\ ValPart /\ SeqPart
    BY FileParts
  <1>2. CASE UNCHANGED kfVars
    BY <1>1, <1>2, PartsStay, FileParts DEF kfVars
  <1>3. ASSUME NEW n \in 0 .. MaxCount, kfio_info_os_type_read(n) PROVE FileIInv'
    <2>1. UNCHANGED <<valVars, seqVars>>
      BY <1>3 DEF kfio_info_os_type_read
    <2>2. ReadPart'
      BY <1>1, <1>3, ReadStep
    <2> QED
      BY <1>1, <2>1, <2>2, PartsStay, FileParts
  <1>4. ASSUME NEW v \in 1 .. MaxText, DriverSets(v) PROVE FileIInv'
    <2>1. UNCHANGED <<readVars, seqVars>> /\ kf_val' = v /\ kf_asked' = v /\ kf_exact' = TRUE /\ UNCHANGED kf_leak
      BY <1>4 DEF DriverSets
    <2>2. ValPart'
      BY <1>1, <2>1, KinfoFileBounds DEF ValPart, ValTypes, KinfoWriteExact
    <2> QED
      BY <1>1, <2>1, <2>2, PartsStay, FileParts
  <1>5. ASSUME NEW v \in 0 .. MaxText, NEW t \in 0 .. 2, WriteNumber(v, t) PROVE FileIInv'
    <2>1. ReadPart' /\ ValPart' /\ UNCHANGED seqVars
      BY <1>1, <1>5, NumberStep
    <2> QED
      BY <1>1, <2>1, PartsStay, FileParts
  <1>6. ASSUME NEW v \in 0 .. MaxText, NEW s \in 0 .. MaxText, StringTooLong(v, s) \/ WriteString(v, s)
        PROVE  FileIInv'
    <2>1. ReadPart' /\ ValPart' /\ UNCHANGED seqVars
      BY <1>1, <1>6, StringStep
    <2> QED
      BY <1>1, <2>1, PartsStay, FileParts
  <1>7. CASE Reopen
    <2>1. /\ UNCHANGED <<valVars, seqVars>> /\ kf_pos' = 0 /\ kf_told' = 0
          /\ kf_over' = FALSE /\ kf_shrunk' = FALSE /\ kf_fault' = FALSE
      BY <1>7 DEF Reopen
    <2>2. kf_pos' \in 0 .. MaxPos /\ kf_told' \in 0 .. MaxPos
      BY <2>1, KinfoFileBounds
    <2>3. /\ kf_over' \in BOOLEAN /\ kf_shrunk' \in BOOLEAN /\ kf_fault' \in BOOLEAN
          /\ kf_over' => kf_shrunk'
          /\ kf_fault' \/ kf_told' = kf_pos'
      BY ONLY <2>1, Zenon
    <2>4. ReadPart'
      BY <2>2, <2>3, Zenon DEF ReadPart, ReadTypes, KinfoReadWithin
    <2> QED
      BY <1>1, <2>1, <2>4, PartsStay, FileParts
  <1>8. CASE SeqStart \/ SeqShow \/ SeqShowFails \/ SeqNext \/ SeqStop \/ SeqReopen
    <2>1. UNCHANGED <<valVars, readVars>>
      BY <1>8 DEF SeqStart, SeqShow, SeqShowFails, SeqNext, SeqStop, SeqReopen
    <2>2. SeqPart'
      BY <1>1, <1>8, ShowStep, SeqSteps
    <2> QED
      BY <1>1, <2>1, <2>2, PartsStay, FileParts
  <1> QED
    BY <1>2, <1>3, <1>4, <1>5, <1>6, <1>7, <1>8 DEF FileNext

(* For any texts, reads, writes and records: reading in pieces copies nothing *)
(* from behind the text unless a read found its position there, a user is     *)
(* told of what the position moved by unless a call failed, a node holds what *)
(* was written to it with one character at the end, and a reader of a         *)
(* sequence file is given every record once, whole and in order, over all     *)
(* retries with a larger buffer.                                              *)
THEOREM FilesAlwaysExact == FileSpec => [](FileTypeOK /\ KinfoFileExact)
  <1>1. FileIInv /\ [FileNext]_kfVars => FileIInv'
    BY FileStepInv
  <1> QED
    BY <1>1, FileInitInv, FileIInvSuffices, PTL DEF FileSpec
=============================================================================
