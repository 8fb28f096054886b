----------------------------- MODULE DriverLoad -----------------------------
(***************************************************************************)
(* Loading and unloading the driver (main.c, kinit.c, sysrq.c) and the life *)
(* of its PCI devices (pci.c).                                              *)
(*                                                                          *)
(* External: the core library (iodrive_init brings the storage interfaces   *)
(* up and, when it fails, takes nothing down; iodrive_cleanup takes them    *)
(* down), the PCI core (it probes the devices of a registered driver,       *)
(* removes them before the driver is gone, and only warns when a driver     *)
(* that is not registered is unregistered), and the sysrq keys.  A system   *)
(* that shuts down does not come back.                                      *)
(***************************************************************************)
EXTENDS Integers, FiniteSets

CONSTANTS
  PciDevs,        \* devices of iodrive_ids
  HasScsi         \* KFIO_SCSI_DEVICE && KFIOC_PORT_SUPPORTS_SCSI

ASSUME HasScsiType == HasScsi \in BOOLEAN

VARIABLES
  dl_pc,          \* "out", "iodrive", "pci", "sysrq", "attach", "in", "leaving", "left", "cleanup"
  dl_state,       \* fio_init_state
  dl_iodrive,     \* the core library is initialized
  dl_block,       \* the block interface and its major number are registered
  dl_scsi,        \* the SCSI interface is initialized
  dl_pci,         \* the PCI driver is registered
  dl_keys,        \* the sysrq keys are registered
  dl_leftover,    \* history: a failing step left an interface behind
  pd_bound,       \* devices whose probe succeeded
  pd_enabled,     \* devices that are enabled
  pd_regions,     \* devices whose regions are claimed
  pd_attached,    \* devices attached to the core library
  pd_lost,        \* history: devices whose regions were left claimed
  dl_halted       \* shutdown has been called

dlVars == <<dl_pc, dl_state, dl_iodrive, dl_block, dl_scsi, dl_pci, dl_keys, dl_leftover>>
pdVars == <<pd_bound, pd_enabled, pd_regions, pd_attached, pd_lost, dl_halted>>
loadVars == <<dlVars, pdVars>>

LoadInit ==
  /\ dl_pc = "out" /\ dl_state = {}
  /\ dl_iodrive = FALSE /\ dl_block = FALSE /\ dl_scsi = FALSE /\ dl_pci = FALSE /\ dl_keys = FALSE
  /\ dl_leftover = FALSE
  /\ pd_bound = {} /\ pd_enabled = {} /\ pd_regions = {} /\ pd_attached = {} /\ pd_lost = {}
  /\ dl_halted = FALSE
-----------------------------------------------------------------------------
(* init_fio_driver *)

\* The queue strategy is tested first: USE_QUEUE_MQ needs a debug build, another
\* value is refused, and nothing has been done then.
init_fio_driver ==
  /\ dl_pc = "out"
  /\ dl_pc' = "iodrive"
  /\ UNCHANGED <<dl_state, dl_iodrive, dl_block, dl_scsi, dl_pci, dl_keys, dl_leftover, pdVars>>

\* The block interface is registered with the core, which fails for want of a major
\* number only.
kfio_platform_init_block_interface(ok) == dl_block' = ok

\* The SCSI interface tears itself down again when it cannot be initialized.
kfio_platform_init_scsi_interface(ok) == dl_scsi' = ok

\* kfio_platform_init_storage_interface: the block interface, then SCSI.  When
\* that fails the block interface stays.
InitStorage(block, scsi) ==
  /\ kfio_platform_init_block_interface(block)
  /\ kfio_platform_init_scsi_interface(HasScsi /\ block /\ scsi)
  /\ dl_leftover' = (dl_leftover \/ (HasScsi /\ block /\ ~scsi))

InitIodrive ==
  /\ dl_pc = "iodrive"
  /\ \E block, scsi, core \in BOOLEAN :
       /\ InitStorage(block, scsi)
       /\ LET ok == block /\ (HasScsi => scsi) /\ core IN
            /\ core \/ ~block \/ (HasScsi /\ ~scsi)    \* the core itself cleans up
            /\ dl_iodrive' = ok
            /\ dl_state' = IF ok THEN {"IODRIVE"} ELSE {}
            /\ dl_pc' = IF ok THEN "pci" ELSE "leaving"
  /\ UNCHANGED <<dl_pci, dl_keys, pdVars>>

\* kfio_pci_register_driver, 1 or an error; after an error the driver that was
\* not registered is unregistered as well.
RegisterPci ==
  /\ dl_pc = "pci"
  /\ \/ dl_pci' = TRUE /\ dl_state' = dl_state \cup {"PCIDEV"} /\ dl_pc' = "sysrq"
     \/ UNCHANGED <<dl_pci, dl_state>> /\ dl_pc' = "leaving"
  /\ UNCHANGED <<dl_iodrive, dl_block, dl_scsi, dl_keys, dl_leftover, pdVars>>

kfio_iodrive_sysrq_keys ==
  /\ dl_pc = "sysrq"
  /\ dl_keys' = TRUE
  /\ dl_state' = dl_state \cup {"SYSRQ"}
  /\ dl_pc' = "attach"
  /\ UNCHANGED <<dl_iodrive, dl_block, dl_scsi, dl_pci, dl_leftover, pdVars>>

\* fio_auto_attach_wait returns.
AutoAttachWait ==
  /\ dl_pc = "attach"
  /\ dl_pc' = "in"
  /\ UNCHANGED <<dl_state, dl_iodrive, dl_block, dl_scsi, dl_pci, dl_keys, dl_leftover, pdVars>>
-----------------------------------------------------------------------------
(* fio_do_exit, from the error exit of fio_do_init and from exit_fio_driver *)

exit_fio_driver ==
  /\ dl_pc = "in"
  /\ dl_pc' = "leaving"
  /\ UNCHANGED <<dl_state, dl_iodrive, dl_block, dl_scsi, dl_pci, dl_keys, dl_leftover, pdVars>>

UnregisterKeys ==
  /\ dl_pc = "leaving"
  /\ dl_keys' = (dl_keys /\ "SYSRQ" \notin dl_state)
  /\ dl_pc' = "left"
  /\ UNCHANGED <<dl_state, dl_iodrive, dl_block, dl_scsi, dl_pci, dl_leftover, pdVars>>

\* pci_unregister_driver returns when every device was removed.
UnregisterPci ==
  /\ dl_pc = "left"
  /\ "PCIDEV" \in dl_state => pd_bound = {}
  /\ dl_pci' = (dl_pci /\ "PCIDEV" \notin dl_state)
  /\ dl_pc' = "cleanup"
  /\ UNCHANGED <<dl_state, dl_iodrive, dl_block, dl_scsi, dl_keys, dl_leftover, pdVars>>

\* kfio_platform_teardown_storage_interface: SCSI, then the block interface.
TeardownStorage == dl_scsi' = FALSE /\ dl_block' = FALSE

\* Mutant of Cleanup: the state is not reset.
KeepsFlags ==
  /\ dl_pc = "cleanup"
  /\ IF "IODRIVE" \in dl_state
     THEN dl_iodrive' = FALSE /\ TeardownStorage
     ELSE UNCHANGED <<dl_iodrive, dl_block, dl_scsi>>
  /\ dl_pc' = "out"
  /\ UNCHANGED <<dl_state, dl_pci, dl_keys, dl_leftover, pdVars>>

\* iodrive_cleanup takes the storage interfaces down as well.  A fresh load starts
\* from cleared flags.
Cleanup ==
  /\ dl_pc = "cleanup"
  /\ IF "IODRIVE" \in dl_state
     THEN dl_iodrive' = FALSE /\ TeardownStorage
     ELSE UNCHANGED <<dl_iodrive, dl_block, dl_scsi>>
  /\ dl_state' = {}
  /\ dl_pc' = "out"
  /\ UNCHANGED <<dl_pci, dl_keys, dl_leftover, pdVars>>
-----------------------------------------------------------------------------
(* Devices *)

\* Mutant of ProbeLeaves: a failing probe leaves the device enabled.
ProbeKeepsEnabled(d, result) ==
  CASE result = "ok"       -> {"enabled", "regions", "attached", "bound"}
    [] result = "dma mask" -> {"regions"}
    [] result = "attach"   -> {"enabled"}
    [] OTHER               -> {}

\* What iodrive_pci_probe leaves behind, by the step that fails: a failing
\* dma_set_mask goes past the release of the regions.
ProbeLeaves(d, result) ==
  CASE result = "ok"       -> {"enabled", "regions", "attached", "bound"}
    [] result = "dma mask" -> {"regions"}
    [] OTHER               -> {}       \* ignored, enable, request regions, attach

iodrive_pci_probe(d) ==
  /\ dl_pci /\ ~dl_halted
  /\ dl_pc \in {"sysrq", "attach", "in"}
  /\ d \notin pd_bound
  /\ \E result \in {"ok", "ignored", "enable", "regions", "dma mask", "attach"} :
       LET left == ProbeLeaves(d, result)
           also(s, what) == IF what \in left THEN s \cup {d} ELSE s
       IN /\ d \in pd_regions => result \in {"ignored", "enable", "regions"}
          /\ pd_enabled' = also(pd_enabled, "enabled")
          /\ pd_regions' = also(pd_regions, "regions")
          /\ pd_attached' = also(pd_attached, "attached")
          /\ pd_bound' = also(pd_bound, "bound")
          /\ pd_lost' = IF result = "dma mask" THEN pd_lost \cup {d} ELSE pd_lost
  /\ UNCHANGED <<dlVars, dl_halted>>

\* The device goes away, or the driver does.
iodrive_pci_on_remove(d) ==
  /\ d \in pd_bound
  /\ dl_pc \in {"in", "left"} /\ ~dl_halted
  /\ pd_attached' = pd_attached \ {d}
  /\ pd_regions' = pd_regions \ {d}
  /\ pd_enabled' = pd_enabled \ {d}
  /\ pd_bound' = pd_bound \ {d}
  /\ UNCHANGED <<dlVars, pd_lost, dl_halted>>

iodrive_pci_on_shutdown(d) ==
  /\ d \in pd_attached
  /\ dl_pc = "in"
  /\ dl_halted' = TRUE
  /\ pd_attached' = pd_attached \ {d}
  /\ pd_regions' = pd_regions \ {d}
  /\ pd_enabled' = pd_enabled \ {d}
  /\ UNCHANGED <<dlVars, pd_bound, pd_lost>>
-----------------------------------------------------------------------------
Loader ==
  \/ init_fio_driver \/ InitIodrive \/ RegisterPci \/ kfio_iodrive_sysrq_keys \/ AutoAttachWait
  \/ exit_fio_driver \/ UnregisterKeys \/ UnregisterPci \/ Cleanup

LoadNext ==
  \/ ~dl_halted /\ Loader
  \/ \E d \in PciDevs : iodrive_pci_probe(d) \/ iodrive_pci_on_remove(d) \/ iodrive_pci_on_shutdown(d)

LoadSpec == LoadInit /\ [][LoadNext]_loadVars

LoadTypeOK ==
  /\ dl_pc \in {"out", "iodrive", "pci", "sysrq", "attach", "in", "leaving", "left", "cleanup"}
  /\ dl_state \subseteq {"IODRIVE", "PCIDEV", "SYSRQ"}
  /\ {dl_iodrive, dl_block, dl_scsi, dl_pci, dl_keys, dl_leftover, dl_halted} \subseteq BOOLEAN
  /\ pd_bound \cup pd_enabled \cup pd_regions \cup pd_attached \cup pd_lost \subseteq PciDevs

\* Every layer is up only while the ones below it are: a key press, a probe or an
\* attached device never meets a core library that is not initialized; what a
\* load that failed or an unload leaves behind is what the two error paths lose
\* (the block interface when SCSI fails, the regions when the DMA mask is
\* refused), and nothing else (fio_do_init, fio_do_exit, iodrive_pci_probe).
DriverLayers ==
  /\ dl_keys => dl_pci
  /\ dl_pci => dl_iodrive
  /\ dl_iodrive => dl_block /\ (HasScsi => dl_scsi)
  /\ pd_bound # {} => dl_pci
  /\ pd_attached \subseteq pd_bound /\ pd_attached = pd_enabled
  /\ pd_regions \subseteq pd_attached \cup pd_lost
  /\ dl_pc = "out" => /\ ~dl_keys /\ ~dl_pci /\ ~dl_iodrive /\ ~dl_scsi /\ dl_state = {}
                      /\ dl_leftover \/ ~dl_block
                      /\ pd_bound = {}
=============================================================================
