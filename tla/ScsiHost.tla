------------------------------ MODULE ScsiHost ------------------------------
(***************************************************************************)
(* The SCSI host and its logical units (kscsi_host.c, kscsi.c), for one     *)
(* target: the threads of the fio-scsi layer that expose, hide and remove   *)
(* logical units, and the midlayer that sends commands to them.             *)
(*                                                                          *)
(* An action is one critical section of port_hosts_lk or shost_lk, or one   *)
(* call that is made with neither held.  A host is the fio_port_scsi_host   *)
(* inside a Scsi_Host; it is "live" while port_host->shost points back.     *)
(* The midlayer and the fio-scsi layer are external: scsi_remove_device     *)
(* waits for the device's commands, a logical unit can be looked up and     *)
(* given commands only while it is exposed, and every logical unit goes     *)
(* through new_lu, lu_hidden and lu_gone in that order (lu_gone right after *)
(* a new_lu that could not add the device).  Statistics are left out.       *)
(***************************************************************************)
EXTENDS Integers, Sequences, SequencesExt, FiniteSets

CONSTANTS
  LogicalUnits,   \* the logical units of the target
  ScsiCmnds,      \* scsi_cmnd structures of the midlayer
  HostIds,        \* the Scsi_Hosts that can be allocated: bounds the host's lives
  LateCalls,      \* bound: calls of queuecommand that outlive the command they were given
  Nil             \* NULL, of every pointer here

ASSUME ScsiAssumption ==
  Nil \notin HostIds \cup LogicalUnits /\ IsFiniteSet(LogicalUnits) /\ LateCalls \in Nat

VARIABLES
  sh_list,        \* port_hosts
  sh_life,        \* per host: "free", "live" (shost points back), "destroyed", "leaked"
  sh_ref,         \* per host: ref_count
  sh_lu,          \* per logical unit: what its fio-scsi thread does next
  sh_at,          \* per logical unit: the port_host its thread works on
  sd_there,       \* logical units with a scsi_device
  sd_hostdata,    \* those whose scsi_device has hostdata = lu
  lu_port,        \* those whose port_lu points to their scsi_device
  lu_stale,       \* those whose port_lu points to a scsi_device that was removed
  sc_at,          \* per command: where it is
  sc_lu,          \* per command: the logical unit of its scsi_device
  sc_result,      \* per command: the host byte and status of scmd->result
  sc_in,          \* per command: queuecommand has not returned yet
  sc_late,        \* per command: calls of queuecommand for its earlier uses that run on
  sc_answers,     \* history: times scsi_done was called since the midlayer began to use it
  sh_revived      \* history: a host was counted again after its count had reached 0

shVars == <<sh_list, sh_life, sh_ref, sh_lu, sh_at>>
sdVars == <<sd_there, sd_hostdata, lu_port, lu_stale>>
scVars == <<sc_at, sc_lu, sc_result, sc_in, sc_late, sc_answers>>
scsiVars == <<shVars, sdVars, scVars, sh_revived>>

Good == <<"DID_OK", "GOOD">>

ScsiInit ==
  /\ sh_list = <<>>
  /\ sh_life = [h \in HostIds |-> "free"]
  /\ sh_ref = [h \in HostIds |-> 0]
  /\ sh_lu = [l \in LogicalUnits |-> "absent"]
  /\ sh_at = [l \in LogicalUnits |-> Nil]
  /\ sd_there = {}
  /\ sd_hostdata = {}
  /\ lu_port = {}
  /\ lu_stale = {}
  /\ sc_at = [c \in ScsiCmnds |-> "idle"]
  /\ sc_lu = [c \in ScsiCmnds |-> Nil]
  /\ sc_result = [c \in ScsiCmnds |-> Good]
  /\ sc_in = [c \in ScsiCmnds |-> FALSE]
  /\ sc_late = [c \in ScsiCmnds |-> 0]
  /\ sc_answers = [c \in ScsiCmnds |-> 0]
  /\ sh_revived = FALSE

\* fio_port_scsi_host_lookup_from_tid: every host here has the target's id.
fio_port_scsi_host_lookup_from_tid ==
  IF sh_list = <<>> THEN Nil ELSE Head(sh_list)
-----------------------------------------------------------------------------
(* kfio_port_scsi_new_lu *)

Goes(l, pc, h) == /\ sh_lu' = [sh_lu EXCEPT ![l] = pc]
                  /\ sh_at' = [sh_at EXCEPT ![l] = h]

\* The increment under port_hosts_lk that ends both critical sections.
CountOn(l, h) ==
  /\ sh_ref' = [sh_ref EXCEPT ![h] = @ + 1]
  /\ sh_revived' = (sh_revived \/ (sh_ref[h] = 0 /\ h \in {sh_list[i] : i \in DOMAIN sh_list}))
  /\ Goes(l, "counted", h)

NewLuLookup(l) ==
  /\ sh_lu[l] = "absent"
  /\ LET h == fio_port_scsi_host_lookup_from_tid IN
       IF h = Nil
       THEN Goes(l, "creating", Nil) /\ UNCHANGED <<sh_ref, sh_revived>>
       ELSE CountOn(l, h)
  /\ UNCHANGED <<sh_list, sh_life, sdVars, scVars>>

\* A host that could not be registered is destroyed before its shost is set:
\* nothing puts the Scsi_Host.
fio_port_scsi_host_create(l) ==
  /\ sh_lu[l] = "creating"
  /\ \/ Goes(l, "absent", Nil) /\ UNCHANGED sh_life
     \/ \E h \in HostIds : 
          /\ sh_life[h] = "free"
          /\ \/ /\ Goes(l, "created", h)
                /\ sh_life' = [sh_life EXCEPT ![h] = "live"]
             \/ /\ Goes(l, "absent", Nil)
                /\ sh_life' = [sh_life EXCEPT ![h] = "leaked"]
  /\ UNCHANGED <<sh_list, sh_ref, sdVars, scVars, sh_revived>>

fio_port_scsi_host_destroy(h) ==
  sh_life' = [sh_life EXCEPT ![h] = "destroyed"]

\* Mutant of NewLuCreated: the list is not searched again after the host was created.
NoRecheck(l) ==
  /\ sh_lu[l] = "created"
  /\ sh_list' = Append(sh_list, sh_at[l])
  /\ CountOn(l, sh_at[l])
  /\ UNCHANGED <<sh_life, sdVars, scVars>>

NewLuCreated(l) ==
  /\ sh_lu[l] = "created"
  /\ LET other == fio_port_scsi_host_lookup_from_tid IN
       IF other # Nil
       THEN fio_port_scsi_host_destroy(sh_at[l]) /\ CountOn(l, other) /\ UNCHANGED sh_list
       ELSE sh_list' = Append(sh_list, sh_at[l]) /\ CountOn(l, sh_at[l]) /\ UNCHANGED sh_life
  /\ UNCHANGED <<sdVars, scVars>>

\* The logical units whose scsi_device belongs to host h.
DevicesOf(h) == {l \in sd_there : sh_at[l] = h}

\* FH-19729: a scsi_device whose logical unit does not point back counts as
\* unhooked, and is unhooked.
fio_scsi_lu_from_sdev_locked(l) ==
  IF l \in sd_hostdata /\ l \in lu_port THEN l ELSE Nil

FixInvalidLu(l) == sd_hostdata' = sd_hostdata \ ({l} \ lu_port)

\* Mutant of fio_scsi_shost_unhook_devices_from_lus: the devices keep their units.
UnhookOneSided(h) ==
  /\ lu_port' = lu_port \ {l \in DevicesOf(h) : fio_scsi_lu_from_sdev_locked(l) # Nil}
  /\ UNCHANGED sd_hostdata

fio_scsi_shost_unhook_devices_from_lus(h) ==
  /\ sd_hostdata' = sd_hostdata \ DevicesOf(h)
  /\ lu_port' = lu_port \ {l \in DevicesOf(h) : fio_scsi_lu_from_sdev_locked(l) # Nil}

\* new_lu goes on without the lock.
NewLuUnhook(l) ==
  /\ sh_lu[l] = "counted"
  /\ fio_scsi_shost_unhook_devices_from_lus(sh_at[l])
  /\ Goes(l, "adding", sh_at[l])
  /\ UNCHANGED <<sh_list, sh_life, sh_ref, sd_there, lu_stale, scVars, sh_revived>>

\* The new scsi_device may lie where a stale port_lu points.
fio_port_scsi_host_add_lu(l) ==
  /\ sh_lu[l] = "adding"
  /\ \/ /\ sd_there' = sd_there \cup {l}
        /\ Goes(l, "exposed", sh_at[l])
        /\ \E same \in SUBSET ({l} \cap lu_stale) :
             lu_port' = lu_port \cup same /\ lu_stale' = lu_stale \ same
     \/ UNCHANGED <<sd_there, lu_port, lu_stale>> /\ Goes(l, "hidden", sh_at[l])
  /\ UNCHANGED <<sh_list, sh_life, sh_ref, sd_hostdata, scVars, sh_revived>>
-----------------------------------------------------------------------------
(* kfio_port_scsi_lu_hidden and kfio_port_scsi_lu_gone *)

kfio_port_scsi_lu_hidden(l) ==
  /\ sh_lu[l] = "exposed"
  /\ Goes(l, "hidden", sh_at[l])
  /\ sd_hostdata' = sd_hostdata \ {l}
  /\ lu_port' = lu_port \ {l}
  /\ lu_stale' = lu_stale \ {l}
  /\ UNCHANGED <<sh_list, sh_life, sh_ref, sd_there, scVars, sh_revived>>

LuGoneLookup(l) ==
  /\ sh_lu[l] = "hidden"
  /\ LET h == fio_port_scsi_host_lookup_from_tid IN
       IF h = Nil THEN Goes(l, "absent", Nil) ELSE Goes(l, "removing", h)
  /\ UNCHANGED <<sh_list, sh_life, sh_ref, sdVars, scVars, sh_revived>>

Busy(l) == \E c \in ScsiCmnds : sc_lu[c] = l /\ (sc_at[c] # "idle" \/ sc_in[c])

\* External: scsi_remove_device returns when the device's commands are done.
\* Nothing resets the port_lu of a unit that a command hooked after lu_hidden: it
\* is left pointing to the removed device.
fio_port_scsi_host_remove_lu(l) ==
  /\ sh_lu[l] = "removing"
  /\ ~Busy(l)
  /\ sd_there' = sd_there \ {l}
  /\ sd_hostdata' = sd_hostdata \ {l}
  /\ lu_port' = lu_port \ {l}
  /\ lu_stale' = lu_stale \cup ({l} \cap lu_port)
  /\ Goes(l, "removed", sh_at[l])
  /\ UNCHANGED <<sh_list, sh_life, sh_ref, scVars, sh_revived>>

LuGoneDecr(l) ==
  /\ sh_lu[l] = "removed"
  /\ sh_ref' = [sh_ref EXCEPT ![sh_at[l]] = @ - 1]
  /\ Goes(l, IF sh_ref[sh_at[l]] = 1 THEN "last" ELSE "not last", sh_at[l])
  /\ UNCHANGED <<sh_list, sh_life, sdVars, scVars, sh_revived>>

LuGoneUnhook(l) ==
  /\ sh_lu[l] = "not last"
  /\ fio_scsi_shost_unhook_devices_from_lus(sh_at[l])
  /\ Goes(l, "absent", Nil)
  /\ UNCHANGED <<sh_list, sh_life, sh_ref, sd_there, lu_stale, scVars, sh_revived>>

LuGoneUnlist(l) ==
  /\ sh_lu[l] = "last"
  /\ sh_list' = RemoveFirst(sh_list, sh_at[l])
  /\ Goes(l, "unlisted", sh_at[l])
  /\ UNCHANGED <<sh_life, sh_ref, sdVars, scVars, sh_revived>>

LuGoneDestroy(l) ==
  /\ sh_lu[l] = "unlisted"
  /\ fio_port_scsi_host_destroy(sh_at[l])
  /\ Goes(l, "absent", Nil)
  /\ UNCHANGED <<sh_list, sh_ref, sdVars, scVars, sh_revived>>
-----------------------------------------------------------------------------
(* Commands *)

\* fio_shost_queuecommand, up to the unlock that follows reading hostdata.  A
\* command for another target's device, or for a host whose shost is gone, is
\* answered at once and leaves no trace here.
QueueCommand(c, l) ==
  /\ sc_at[c] = "idle" /\ ~sc_in[c]
  /\ l \in sd_there
  /\ sh_life[sh_at[l]] = "live"
  /\ sc_lu' = [sc_lu EXCEPT ![c] = l]
  /\ sc_in' = [sc_in EXCEPT ![c] = TRUE]
  /\ sc_at' = [sc_at EXCEPT ![c] = IF fio_scsi_lu_from_sdev_locked(l) = Nil THEN "unhooked" ELSE "alloc"]
  /\ FixInvalidLu(l)
  /\ UNCHANGED <<shVars, sd_there, lu_port, lu_stale, sc_result, sc_late, sc_answers, sh_revived>>

\* scmd->scsi_done: the midlayer has the command back with this result.
Done(c, result) ==
  /\ sc_at' = [sc_at EXCEPT ![c] = "done"]
  /\ sc_result' = [sc_result EXCEPT ![c] = result]
  /\ sc_answers' = [sc_answers EXCEPT ![c] = @ + 1]

fio_scmd_immediate_error(c) ==
  /\ Done(c, <<"DID_TIME_OUT", "GOOD">>)
  /\ sc_in' = [sc_in EXCEPT ![c] = FALSE]

\* External: kfio_scsi_lu_lookup_from_tid_lun finds exposed logical units.
LuExposed(l) == sh_lu[l] \in {"counted", "adding", "exposed"}

\* The queue depth, scsi_queue_depth / ref_count, is left out but for its divisor
\* (HostCountExact).
QueueLookup(c) ==
  /\ sc_at[c] = "unhooked"
  /\ \/ /\ LuExposed(sc_lu[c])
        /\ sc_at' = [sc_at EXCEPT ![c] = "hooking"]
        /\ UNCHANGED <<sc_result, sc_in, sc_answers>>
     \/ ~LuExposed(sc_lu[c]) /\ fio_scmd_immediate_error(c)
  /\ UNCHANGED <<shVars, sdVars, sc_lu, sc_late, sh_revived>>

QueueHook(c) ==
  /\ sc_at[c] = "hooking"
  /\ sd_hostdata' = sd_hostdata \cup {sc_lu[c]}
  /\ lu_port' = lu_port \cup {sc_lu[c]}
  /\ lu_stale' = lu_stale \ {sc_lu[c]}
  /\ sc_at' = [sc_at EXCEPT ![c] = "alloc"]
  /\ UNCHANGED <<shVars, sd_there, sc_lu, sc_result, sc_in, sc_late, sc_answers, sh_revived>>

\* SCSI_MLQUEUE_HOST_BUSY: the midlayer keeps the command and sends it again.
HostBusy(c) ==
  /\ sc_at' = [sc_at EXCEPT ![c] = "idle"]
  /\ sc_in' = [sc_in EXCEPT ![c] = FALSE]
  /\ UNCHANGED <<sc_result, sc_answers>>

QueueAlloc(c) ==
  /\ sc_at[c] = "alloc"
  /\ \/ HostBusy(c)
     \/ ~LuExposed(sc_lu[c]) /\ fio_scmd_immediate_error(c)
     \/ /\ LuExposed(sc_lu[c])
        /\ sc_at' = [sc_at EXCEPT ![c] = "received"]
        /\ UNCHANGED <<sc_result, sc_in, sc_answers>>
  /\ UNCHANGED <<shVars, sdVars, sc_lu, sc_late, sh_revived>>

\* kfio_scsi_cmd_rcvd without memory: its completor takes the command back
\* with -ENOMEM and leaves the answer to queuecommand.
QueueNoMemory(c) ==
  /\ sc_at[c] = "received" /\ sc_in[c]
  /\ HostBusy(c)
  /\ UNCHANGED <<shVars, sdVars, sc_lu, sc_late, sh_revived>>

\* The host byte of a completion: the driver's error first, then the sense data.
HostStatus(driver_error, scsi_status, sense) ==
  CASE driver_error = "EAGAIN"   -> "DID_TIME_OUT"
    [] driver_error = "other"    -> "DID_NO_CONNECT"
    [] scsi_status # "CHECK"     -> "DID_OK"
    [] sense = "hardware error"  -> "DID_BAD_TARGET"
    [] sense = "other key"       -> "DID_OK"
    [] OTHER                     -> "DID_NO_CONNECT"

Completions == {"none", "EAGAIN", "other"} \X {"GOOD", "CHECK"}
                 \X {"hardware error", "other key", "invalid"}

\* Mutant of Complete: host_scribble is not looked at.
NoScribbleTest(c, result) ==
  IF sc_at[c] \in {"received", "done"} THEN Done(c, result) ELSE UNCHANGED <<sc_at, sc_result, sc_answers>>

\* The completor answers a command once: it takes host_scribble under shost_lk.
\* It does nothing for a host whose shost is gone.
Complete(c, result) ==
  IF sc_at[c] = "received" /\ sh_life[sh_at[sc_lu[c]]] = "live"
  THEN Done(c, result)
  ELSE UNCHANGED <<sc_at, sc_result, sc_answers>>

\* The fio-scsi layer may complete a command that an abort has just completed.
kfio_port_scsi_cmd_completor(c) ==
  /\ sc_at[c] \in {"received", "done"}
  /\ \E e \in Completions : Complete(c, <<HostStatus(e[1], e[2], e[3]), e[2]>>)
  /\ UNCHANGED <<shVars, sdVars, sc_lu, sc_in, sc_late, sh_revived>>

\* queuecommand returns after kfio_scsi_cmd_rcvd: completion was pending then,
\* and scmd->result is cleared, or the command was already answered.  It may have
\* been answered in between: the result it was answered with is cleared then.
QueueReturn(c) ==
  /\ sc_in[c]
  /\ sc_at[c] \in {"received", "done"}
  /\ sc_in' = [sc_in EXCEPT ![c] = FALSE]
  /\ \/ sc_result' = [sc_result EXCEPT ![c] = Good]
     \/ sc_at[c] = "done" /\ UNCHANGED sc_result
  /\ UNCHANGED <<shVars, sdVars, sc_at, sc_lu, sc_late, sc_answers, sh_revived>>

\* The same of a call whose command the midlayer has taken back meanwhile, and may
\* be using again.
LateReturn(c) ==
  /\ sc_late[c] > 0
  /\ sc_late' = [sc_late EXCEPT ![c] = @ - 1]
  /\ sc_result' = [sc_result EXCEPT ![c] = Good] \/ UNCHANGED sc_result
  /\ UNCHANGED <<shVars, sdVars, sc_at, sc_lu, sc_in, sc_answers, sh_revived>>

\* fio_shost_abort: refused unless the device is hooked to the command's unit;
\* the fio-scsi layer then completes the command with -EAGAIN.  The resets hand
\* every command of the target to the same completor.
AbortCommand(c) ==
  /\ sc_at[c] = "received" /\ ~sc_in[c]
  /\ FixInvalidLu(sc_lu[c])
  /\ IF fio_scsi_lu_from_sdev_locked(sc_lu[c]) = sc_lu[c]
     THEN Complete(c, <<HostStatus("EAGAIN", "GOOD", "invalid"), "GOOD">>)
     ELSE UNCHANGED <<sc_at, sc_result, sc_answers>>
  /\ UNCHANGED <<shVars, sd_there, lu_port, lu_stale, sc_lu, sc_in, sc_late, sh_revived>>

fio_shost_reset_all_lus ==
  /\ \E c \in ScsiCmnds : sc_at[c] = "received" /\ ~sc_in[c]
  /\ LET hit == {c \in ScsiCmnds : sc_at[c] = "received" /\ ~sc_in[c] /\ sh_life[sh_at[sc_lu[c]]] = "live"}
         out == <<HostStatus("EAGAIN", "GOOD", "invalid"), "GOOD">>
     IN /\ sc_at' = [c \in ScsiCmnds |-> IF c \in hit THEN "done" ELSE sc_at[c]]
        /\ sc_result' = [c \in ScsiCmnds |-> IF c \in hit THEN out ELSE sc_result[c]]
        /\ sc_answers' = [c \in ScsiCmnds |-> IF c \in hit THEN sc_answers[c] + 1 ELSE sc_answers[c]]
  /\ UNCHANGED <<shVars, sdVars, sc_lu, sc_in, sc_late, sh_revived>>

\* External: the midlayer takes the finished command and may use it again, whether
\* or not the call of queuecommand has returned.
MidlayerReap(c) ==
  /\ sc_at[c] = "done"
  /\ \/ ~sc_in[c] /\ UNCHANGED sc_late
     \/ sc_in[c] /\ sc_late[c] < LateCalls /\ sc_late' = [sc_late EXCEPT ![c] = @ + 1]
  /\ sc_in' = [sc_in EXCEPT ![c] = FALSE]
  /\ sc_at' = [sc_at EXCEPT ![c] = "idle"]
  /\ sc_lu' = [sc_lu EXCEPT ![c] = Nil]
  /\ sc_result' = [sc_result EXCEPT ![c] = Good]
  /\ sc_answers' = [sc_answers EXCEPT ![c] = 0]
  /\ UNCHANGED <<shVars, sdVars, sh_revived>>
-----------------------------------------------------------------------------
LuThread(l) ==
  \/ NewLuLookup(l) \/ fio_port_scsi_host_create(l) \/ NewLuCreated(l) \/ NewLuUnhook(l)
  \/ fio_port_scsi_host_add_lu(l) \/ kfio_port_scsi_lu_hidden(l)
  \/ LuGoneLookup(l) \/ fio_port_scsi_host_remove_lu(l) \/ LuGoneDecr(l)
  \/ LuGoneUnhook(l) \/ LuGoneUnlist(l) \/ LuGoneDestroy(l)

Command(c) ==
  \/ \E l \in LogicalUnits : QueueCommand(c, l)
  \/ QueueLookup(c) \/ QueueHook(c) \/ QueueAlloc(c) \/ QueueNoMemory(c) \/ QueueReturn(c) \/ LateReturn(c)
  \/ kfio_port_scsi_cmd_completor(c) \/ AbortCommand(c) \/ MidlayerReap(c)

\* A logical unit uses a host that is no longer listed and is being destroyed:
\* what the program does from there is not followed.
Orphaned ==
  \E l \in LogicalUnits :
     /\ sh_lu[l] \in {"counted", "adding", "exposed", "hidden", "removing", "removed"}
     /\ sh_list # <<sh_at[l]>>

ScsiNext ==
  /\ ~Orphaned
  /\ \/ \E l \in LogicalUnits : LuThread(l)
     \/ \E c \in ScsiCmnds : Command(c)
     \/ fio_shost_reset_all_lus

ScsiSpec == ScsiInit /\ [][ScsiNext]_scsiVars

ScsiTypeOK ==
  /\ sh_list \in Seq(HostIds)
  /\ sh_life \in [HostIds -> {"free", "live", "destroyed", "leaked"}]
  /\ sh_ref \in [HostIds -> 0 .. Cardinality(LogicalUnits)]
  /\ sh_lu \in [LogicalUnits -> {"absent", "creating", "created", "counted", "adding", "exposed",
                                 "hidden", "removing", "removed", "last", "not last", "unlisted"}]
  /\ sh_at \in [LogicalUnits -> HostIds \cup {Nil}]
  /\ sd_there \subseteq LogicalUnits /\ sd_hostdata \subseteq sd_there
  /\ lu_port \subseteq sd_there /\ lu_stale \subseteq LogicalUnits
  /\ sc_at \in [ScsiCmnds -> {"idle", "unhooked", "hooking", "alloc", "received", "done"}]
  /\ sc_lu \in [ScsiCmnds -> LogicalUnits \cup {Nil}]
  /\ sc_in \in [ScsiCmnds -> BOOLEAN]
  /\ sc_late \in [ScsiCmnds -> 0 .. LateCalls]
  /\ sh_revived \in BOOLEAN

\* Logical units that have been counted in ref_count and not yet taken out.
Counted(h) == {l \in LogicalUnits :
                 sh_at[l] = h /\ sh_lu[l] \in {"counted", "adding", "exposed", "hidden", "removing", "removed"}}

\* As long as no host is counted again after its count has reached 0 (see
\* HostKeptForCounted), ref_count is the number of logical units that use the
\* host, each of them finds the host registered and listed, and so a command
\* that divides the queue depth by ref_count never divides by zero.  A scsi_device
\* that points to a logical unit is the one the unit points back to, whichever
\* commands, hides, removals and unhooks meet (kfio_port_scsi_new_lu,
\* kfio_port_scsi_lu_gone, fio_shost_queuecommand): the invalid pointer of FH-19729
\* ("We don't know how") does not come from the steps modelled here.  Nothing is
\* said of the other direction: a unit may point to a device that was removed.
HostCountExact ==
  /\ sd_hostdata \subseteq lu_port
  /\ ~sh_revived =>
       /\ \A h \in HostIds : sh_ref[h] = Cardinality(Counted(h))
       /\ \A h \in HostIds : Counted(h) # {} => sh_life[h] = "live" /\ sh_list = <<h>>
       /\ \A c \in ScsiCmnds : sc_at[c] = "unhooked" => sh_ref[sh_at[sc_lu[c]]] > 0

\* A call of queuecommand that may still clear scmd->result.
QueueRunning(c) == sc_in[c] \/ sc_late[c] > 0

\* The midlayer gets a command back once: scsi_done is called at most once for each
\* use of a command, though an abort, a reset and the completion may all reach the
\* completor (kfio_port_scsi_cmd_completor), and not at all for one that was
\* handed back as busy and not sent again.  A command that was answered keeps its
\* result until the midlayer takes it, with one exception the code has:
\* fio_shost_queuecommand, while a call of it for the command still runs, clears
\* scmd->result after the answer.
CommandAnsweredOnce ==
  [][\A c \in ScsiCmnds :
        /\ sc_answers'[c] <= 1
        /\ sc_at[c] = "done" =>
             \/ /\ sc_at'[c] = "done"
                /\ sc_result'[c] = sc_result[c] \/ (sc_result'[c] = Good /\ QueueRunning(c))
             \/ sc_at'[c] = "idle" /\ sc_answers[c] = 1]_scsiVars

\* What the comment in kfio_port_scsi_new_lu says the count under the lock is
\* for: a thread that has counted its logical unit has a host that no other
\* thread's kfio_port_scsi_lu_gone deletes.
HostKeptForCounted ==
  \A l \in LogicalUnits :
     sh_lu[l] \in {"counted", "adding"} => sh_life[sh_at[l]] = "live" /\ sh_list = <<sh_at[l]>>
=============================================================================
