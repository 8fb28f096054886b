# TLA+ models of the iomemory-vsl4 driver

The repository is the open part of the Linux driver of the ioMemory (Fusion-io)
PCIe flash cards: the *port layer* under `src/root/usr/src/iomemory-vsl4-4.3.7/`
(below simply "the driver"). The flash translation layer itself is a binary
library (`kfio/*.o_shipped`), here called **the core**; the port layer gives it
locks, waits, memory and PCI access, and turns its logical devices into Linux
block devices. These modules model the parts of the port layer in which
concurrency decides whether the code is right.

## Inventory

| component | files | state | operations | what makes it correct |
|---|---|---|---|---|
| SIX semaphore | `six_lock.c` | mask of held classes, counters per class, waiter count, two serials, wait queue | down, down_trylock, upgrade, up | holders are compatible; mask and counters say who holds; conversions in order; no waiter is forgotten |
| condition variables | `kcondvar.c` | a kernel wait queue | wait, timed wait, signal, broadcast | exclusive FIFO waiters; the sleeps can be interrupted, so callers test again |
| waitable state | `state.c`, `state.h` | number, lock, condition variable | set, transition, up, down, arc transition; wait, unlock | no sleeper misses its state; the state stays until the caller unlocks |
| block device life cycle | `kblock.c` | `kfio_disk`: gendisk, queue, `ref_count`, state bits | create, expose (+ worker), open, close, hide, destroy | parent open exactly while there are openers; no use of the queue after it is gone; hide and expose end |
| block I/O, bio path | `kblock.c` | `bi_next` lists on plugs, queued work, fbios, the holdoff bit | submit, hold off, plug, unplug, merge, complete, backpressure | each bio ends once; an fbio covers exactly its bios; nobody sleeps without pressure |
| block I/O, blk-mq path | `kblock.c` | `disk->fbio`, shared completion list, `KFIO_DISK_COMPLETION` | queue_rq, completor, softirq end | a request becomes the fbio it describes; each request ends once (not modelled) |
| lock-free list | `atomic_list.h` | head and links | add, splice, walk | every entry added is taken once, also when entries are reused |
| scatter lists | `kscatter.c` | entries, pinned pages, DMA mapping | map (bytes, user pages, bio, request), dma_map/unmap, slice, copy, reset | the list is the bytes asked for; pages put as often as pinned |
| CPU topology | `kcpu.c` | node/CPU histograms | queue mapping | each CPU maps to a queue that exists, of its node |
| CPU hotplug | `khotplug.c` | notifier list, cpuhp states | register, unregister, events | callbacks installed exactly while somebody is registered |
| SCSI host | `kscsi_host.c`, `kscsi.c` | host list, count of units, commands | new_lu, lu_hidden, lu_gone, queuecommand, completor, abort | a host lives while it has units; a command is answered once |
| kinfo tree | `kinfo.c`, `common_kinfo.c` | tree of nodes under a lock, /proc entries | create, remove, look up, walk | the tree, /proc and the listing agree; no read of a removed node |
| kinfo files | `kinfo.c`, `common_kinfo.c`, `kfile.c` | position, value, sequence buffer | read, write, seq start/show/next/stop | records whole and in order; reads within the text |
| PCI attach | `pci.c` | what has been enabled, requested, attached | probe, remove, shutdown | a failing probe undoes what it did |
| module init/exit | `main.c`, `driver_init.c`, `kinit.c`, `sysrq.c` | `fio_init_state`, interfaces | init, exit | layers up in order, down in reverse order, also on failure |
| control device | `cdev.c` | misc device, handle, alert, poll queue | create, open, poll, ioctl, destroy | no event is slept through |
| condition variables and spin locks under interrupts | `kcondvar.c`, `kfio.c` | holder's flags in the lock | lock, lock_irqsave, wait, signal, broadcast | interrupt state restored to its owner; no handler spins on its own CPU |
| linked lists | `list.h` | links | add, delete, move, join, splice | the links lead through exactly the elements |
| helpers | `atomic.h`, `bits.h`, `bitops.h`, `byteswap.h`, `kcsr.c`, `ranges.h`, `ktime.c`, `errno.c`, ... | - | pure functions | compiler variants agree; results match definitions in sets and integers |
| work queues, memory, messages, parameters | `sched.c`, `kmem.c`, `kcache.c`, `kmsg.c`, ... | little | thin wrappers | - |

**Interaction.** The core calls the block device operations (create, expose,
hide, destroy, backpressure) from one control thread per device. Users reach the
device through the kernel's block layer: open and release under the disk's open
mutex, bios from any thread. Bios go to the core as fbios, and the core calls
their completor from its own threads. The SIX semaphore and the waitable state
are services of the port layer for the core. Everything sleeps on the condition
variables; expose, hide and held-back writers share one of them (`state_cv`).
The remaining components serve the core side by side and share no state: the
lists, helpers and scatter lists are libraries, the SCSI host, the kinfo tree,
hotplug, the control device and the PCI driver each have a lock and a list of
their own.

**What is hard.** One wakeup per release (six lock); sleeps that end for no
reason; a mask and counters kept by hand on five paths; a flag tested before a
count is taken (open against hide); a wait on a counter that the kernel lowers
*before* it calls release; lists rewritten through the links of bios that may
already be completing; a plug flushed later by another thread; error paths of
expose that reuse hide; kernel states set up after the lock that decided it is
released (hotplug, SCSI host); an interrupt state kept in the lock that guards
it; a recursion unrolled by hand over a tree that readers are in. `PROJECT.json` lists these as hazards, each at its line.

## Modules

| module | models | notes |
|---|---|---|
| `LockModes` | the classes and two tables of `six_lock.c` | constants only |
| `GranularLock` | abstract specification | a map from threads to classes; a class is obtained only if all other holders' classes let it in |
| `SixLock` | `six_lock.c` over `kcondvar.c` | every stretch under `sixsem_lock` is one action |
| `SixLockProofs` | proofs about `SixLock` | |
| `FioState` | `state.c`, `state.h` | waits return with the lock held |
| `FioStateProofs` | proofs about `FioState` | |
| `BlockDisk` | life of one `kfio_disk` in `kblock.c` | the kernel and the core are external |
| `BlockDiskProofs` | proofs about `BlockDisk` | |
| `BlockIo` | bio path of `kblock.c` (`USE_QUEUE_NONE`, the default) | sizes in device blocks |
| `BlockIoProofs` | proofs about `BlockIo` | |
| `AtomicBag` | abstract specification | entries are added and taken in indivisible steps |
| `AtomicList` | `atomic_list.h` | one step per memory access of add, splice and walk |
| `ScatterList` | `kscatter.c` | a byte is its address |
| `ScsiHost` | `kscsi_host.c`, `kscsi.c` | one target, several logical units |
| `KinfoTree` | `common_kinfo.c`, the `/proc` half of `kinfo.c` | removal is a series of steps |
| `KinfoWalk` | lookup, path names and walks of `common_kinfo.c` | computed over the tree; the only recursive operators, used by TLC alone |
| `KinfoFile` | file operations of `kinfo.c`, data handle of `common_kinfo.c`, `kfile.c` | text is its length |
| `CpuMap` | `kfio_map_cpus_to_read_queues` of `kcpu.c` | one step per machine |
| `Hotplug` | `khotplug.c` | the lock and the two setups are separate steps |
| `DriverLoad` | `main.c`, `kinit.c`, `sysrq.c`, probe and remove of `pci.c` | every step may fail |
| `CondVar` | `kcondvar.c`, locks of `kfio.c` | every task on a CPU that handlers interrupt |
| `ControlDev` | `cdev.c` | the core's part is external |
| `PortList` | `list.h` | operations are their link assignments, in order |
| `PortBits`, `PortCalc` | pure helpers of the port layer | operators, compared with reference definitions |
| `PortProofs` | proofs about `AtomicList`, `CondVar` and `PortList` | |
| `DeviceProofs` | proofs about `ScatterList` and `CpuMap` | |
| `ServiceProofs` | proofs about `ControlDev`, `DriverLoad`, `Hotplug`, `ScsiHost`, `KinfoTree` and `KinfoFile` | |
| `SequenceLemmas` | facts about induction, sequences, sums and concatenations that the proofs share | |
| `MC*` | constants of the runs; `MCServices` puts the service components on one bench | |

Each module has its operators named after the functions they model. Where a
function sleeps it is split at the sleep: `Request` / `Resume` / `Grant` are
`fusion_sixsem_upgrade` before the wait loop, after a wakeup, and past the loop;
`HideMark` .. `HideFinish` are `linux_bdev_hide_disk` between its waits.

*SixLock.* `want[t]` is the converted class of a call inside the wait loop,
`held[t]` what the caller believes it holds, `serial[t]` its local serial;
`sixsem_cv` is the FIFO of sleepers. Counters have the widths `HeldMax` and
`WaitMax`, serials count modulo `SerialMod`. If the count of the class is at its
limit, `Grant` follows the code: the old class is gone and `wait_count` keeps
counting the call; `dropped` remembers how often that happened.

*FioState.* `lk` is the waiter that came back from a wait and has not unlocked,
`cv` the sleepers, `goal[t]` the states asked for. Setters hold the lock only
inside one call.

*BlockDisk.* `pc` is the position of the control thread. External behaviour: the
kernel holds the open mutex around open and release, opens only an added disk,
counts `bd_openers` up after open and down *before* release, and sends no bio to
a dying queue; an opener does not close while its own bio is outstanding; at
system shutdown no open or close is running; the core makes the disk anew only
once all closes of the last one are over. A NULL or ERR_PTR that is dereferenced
sets `oops`, after which nothing happens.

*BlockIo.* `Chain(h)` follows `bi_next`. The kickoff loop is one action per
round, because earlier fbios complete while later bios are still being linked. A
thread that goes to sleep in holdoff flushes its plug to kblockd (`schedule()`
does so before it sleeps). Atomic bio chains are dead code
(`__kfio_bio_atomic` is 0).

*AtomicList.* `al_pc` is an adder's place in the compare-and-swap loop, `al_cur`
its local `cur`; `al_walk`, `al_pos` and `al_n` are a taker's place in the safe
walk. `al_listed` and `al_taken` are the lists as their users think of them; the
successful swap and the exchange are where they change. A handled entry may be
added again at once, so an adder can meet the same head twice.

*ScatterList.* An entry stands for `sge[i]` and `sl[i]` together. `sg_asked` is
the history of the bytes callers mapped, `sg_pin` the references taken on user
pages and not given back. Callers map only into a list that is not mapped for
DMA, as `kfio_sgl_unmap` asserts. Behind an error path of `kfio_sgl_map_bytes_gen`
(`sg_lost`) nothing is promised, see the findings.

*ScsiHost.* An action is one critical section of `port_hosts_lk` or `shost_lk`,
or a call made with neither. `sh_lu[l]` is where the fio-scsi thread of a logical
unit is in new_lu, lu_hidden or lu_gone, `sc_at[c]` where a command is.
A unit and its scsi_device point to each other with two separate pointers:
`sd_hostdata` are the devices that point to their unit, `lu_port` the units that
point to their device, `lu_stale` those that point to a device that was removed
(nothing resets `port_lu` there). A new device may come to lie at the address of
the old one. A command may be answered, taken back by the midlayer and sent again
before the call of `fio_shost_queuecommand` that sent it first has returned:
`sc_in` and `sc_late` are the calls still running for the present and for earlier
uses, and each may yet clear `scmd->result`. `sh_revived` remembers that the race
of `scsi_host_race` happened; `HostCountExact` is what holds until then.

*KinfoTree.* Creation, lookup and walk are one critical section of `kinfo_lock`;
a removal (`kt_cut`) keeps the lock over several steps because removing a /proc
entry waits for readers. What a lookup by path, a path name and a walk compute is
in *KinfoWalk*. *KinfoFile* has one typed file read in pieces and written, both
of which move its position (`kf_pos`; `kf_told` is what the user was told), and
one sequence file; `seq_read` is external and retries with a larger buffer. Since
the last open, `kf_shrunk` remembers a read that began behind the end of the text,
`kf_fault` a call that failed half way.

*CpuMap.* A machine is the node of each processor, the online nodes, the queues
asked for, and the processors online at the first and at the second look.
`CpuQueuesInRange` says of every processor that its queue exists, and that the
queue is counted as used of the online ones and of the offline ones in front of
one; those behind the last online processor are a finding.

*Hotplug.* `hp_pc` says which of the two cpuhp calls a caller makes next, after
it left the lock. `hp_overlap` remembers that two callers were there at once.

*DriverLoad.* `dl_pc` is where `fio_do_init` or `fio_do_exit` is, `dl_state` the
flags of `fio_init_state`, `pd_*` what each probed device holds. `pd_lost` and
`dl_leftover` remember the two error paths that lose something.

*CondVar.* Each task has a CPU with interrupts on or off (`cv_irq`) on which a
handler may run and take the lock; `cv_flags` is the state kept in the lock. A
lock is used by tasks only, or by tasks and handlers with the irq operations
(the rule of `kfio.c:72-78`). *ControlDev* splits poll into joining the queue
and testing the alert, and an event into raising and waking.

*PortList* writes each operation as the header's assignments one after the other,
so that aliasing in empty lists is part of the model. *PortBits* and *PortCalc*
take one operation and its inputs per step, over words of a few bits that wrap
as the code's do.

## Runs

| run | instance | checks |
|---|---|---|
| `six_safety` | 3 threads, 5 requested classes, conversions to IX, S and X, two conversions drawn at once | `BookkeepingExact`, `HoldersCompatible`, `ConversionSerials`, `ConversionOrder`, `ImplementsGranularLock` |
| `six_limits` | one holder per class, two waiters, serials modulo 4 | `IInv` and `WaitersCounted`, on every `-EAGAIN` path and across the wrap of the serials |
| `six_progress` | 3 threads, S and X, task signals, no conversion | `FreeLockTaken` |
| `six_upgrade_stall` | 2 threads, U and its upgrade to X | `NoStarvation` is violated |
| `state_machine` | 3 waiters, 4 states, all setters, two arc tables | `IInv`, `NoMissedState`, `StateHeldForWaiter`, `WaiterReturns` |
| `disk` | 3 users, both kinds of hide, every failure of expose | `TypeOK`, `ParentFollowsOpeners`, `PlugFindsQueue`, `PutDiskUnused`, `OpenersOnlyFall`, `HideCompletes`, `ExposeCompletes` |
| `disk_late_release` | 2 users | `NoLateRelease` is violated |
| `disk_shutdown` | 2 users, shutdown hides | `ShutdownReleasesParent` is violated |
| `io` | 3 bios of 6 shapes, one submitter, kblockd, backpressure | `TypeOK`, `EachBioInOnePlace`, `FbioMatchesChain`, `NoSleepWithoutPressure`, `EveryPlacedBioEnds` |
| `io_misaligned` | 2 bios, one not block aligned | `FbioBlockAligned` is violated |
| `services` | the thirteen service components, one per behaviour (`bench`) | `ScatterExact`, `ScatterPagesKept`, `HostCountExact`, `CommandAnsweredOnce`, `KinfoTreeExact`, `KinfoFileExact`, `CpuQueuesInRange`, `HotplugArmed`, `DriverLayers`, `AtomicListExact`, `AtomicBagRefined`, `PollNotLost`, `CondVarSound`, `PortListExact`, `AlgorithmsExact` (`PortBitsExact`, `PortCalcExact`, `KinfoWalkExact`), `ServicesTypeOK` |
| `scsi_host_race` | 2 logical units, 3 hosts | `HostKeptForCounted` is violated |

**Bounds.** Three threads give a holder, a converting holder and a newcomer,
and two waiting conversions next to a holder; the theorems below lift the safety
part to any number. `SerialBound` (2 in `six_safety`) keeps the serials from
wrapping where the order of conversions is checked; `six_limits` has no such
bound. Three openers make the first, a middle and the last one. Three bios make
a merge, a merge that reaches the limits (`MaxLen` 3 blocks, `MaxSg` 2 entries)
and a bio left behind; the shapes are adjacent writes, a read, a flush and a
discard. `MaxStalls` is 2 instead of 12: one more wait, or the last. Bios are
taken in a fixed order, which loses nothing because they are alike until they
have a shape. One submitter with kblockd already gives two threads working on
lists; submitters share nothing but the set of fbios and the holdoff bit.

The components of `services` do not interact, so checking one per behaviour
loses nothing and costs the sum of their state spaces, not the product. Pages of
two bytes and three entries give an entry cut at a page, a merge, and a list that
is one short; two logical units with two host records let one host be destroyed
while another is made; one late call of queuecommand per command (`LateCalls`) is
enough to meet the command's next use; four kinfo nodes make a directory in a directory with two
leaves, and paths of at most 5 characters make one that does not fit;
a file's position is followed up to one byte behind the longest text (`MaxPos` 5);
the records of 1, 2 and 9 bytes meet a buffer of 8, so that one is full at the
edge and one must be retried in a larger one; four processors on three nodes
with one to four queues cover fewer queues than nodes, than processors, and
enough; six cpuhp states are three setups of two; three entries and two adders
against a taker are enough to bring the head back to a value an adder holds.
`PortBits` tries every word of 4 bits (bit counts: every byte), `PortCalc` every
range of 3 bits, so that all edges are met.

**Deadlock** is checked where the system never stops (`six_safety`,
`six_limits`, `six_progress`, `state_machine`). The disk stops after an oops or
after shutdown, the bio runs stop when all bios are used up, and the service
runs stop when a pure computation has been made, the numbers for cpuhp states
are used up, or the system has shut down.

**Fairness.** A runnable thread gets to run and a holder releases (WF); the
spin locks are queued, so a thread that asks for one gets it even if others come
and go (SF on `Wakeup`); mutexes hand over in FIFO order (SF on `HideBarrier`
and on the kernel's `blkdev_put`). An opened device is closed again, and whoever
starts a plug finishes it, which is what `HideCompletes` and
`EveryPlacedBioEnds` need and all they ask of users. The core completes what it
was given. Nothing is assumed of task signals, of new requests, or of
backpressure ending; so a write that is still held back is outside
`EveryPlacedBioEnds`.

## Findings

* **`six_upgrade_stall`**: `init_flag` makes a converting *holder* sleep whenever
  anybody waits, even if its conversion is compatible. If the waiter waits for
  that holder, nobody is left to signal, and both sleep for ever.
  (`FreeLockTaken` is therefore checked without conversions.)
* **`disk_late_release`**: hide's barrier comes before its wait, and the kernel
  lowers `bd_openers` before it calls release: the wait can end while a release
  is still to come, which then finds `disk->rq` NULL.
* **`disk_shutdown`**: with exactly one opener the shutdown path lowers
  `ref_count` to 0 and keeps the parent's reference.
* **`io_misaligned`**: alignment is checked for the first bio of an fbio only.
* **`scsi_host_race`**: `kfio_port_scsi_lu_gone` counts down outside the lock; a
  unit that is counted under the lock just then loses its host all the same.

Other disagreements with comments that were met while modelling and have no run:

* The comment of `serial64_compare` promises 1 for `s1 > s2`; the code answers
  -1 for close serials. The wait loop depends on the code's answer (the
  documented one breaks `ConversionOrder`).
* "prevents starvation" (`six_lock.c:228`) also fails for three exclusive users:
  a woken thread that finds the lock taken goes back to the end of the queue.
* A request that overflows the count of its class returns `-EAGAIN` and stays
  counted in `wait_count` (255-260), unlike one that overflows `wait_count` itself
  (210-215): from then on `down_trylock` fails for ever, and every request sleeps
  at least once. `WaitersCounted` says that this is the only way to leave a count
  behind.
* `fio_bdev_drain_wait` ("Wait for all IO against bdev to finish") does not
  cover bios still on a plug; the wait for openers does (`PlugFindsQueue`,
  `PutDiskUnused`).
* A failing `add_disk` is only logged (606): expose returns 0, and hide later
  deletes that gendisk, although the comment at 819-821 takes care not "to delete
  the disk we didn't add" where there is no work item. No property is stated of
  this path, which the model takes.
* A failing gendisk allocation is dereferenced before the NULL test, and a failing
  queue allocation leads hide to an ERR_PTR (`oops` in the model). `HideCompletes`
  accepts these ends.
* The "1 minute timeout" of held writes counts only waits that time out, and a wait
  that is woken early starts a new one: no bound on the time follows.
  `NoSleepWithoutPressure` says nothing of it.
* With the writable parameter `enable_discard` off (`module_param.c:49`) a discard
  request of the blk-mq path becomes a write without data (`kblock.c:444-448`);
  `RequestExact` leaves that case out.
* `kscatter.c`: flags are written before the bound is tested (236-237, into the
  neighbouring array); a failed pin puts the pages but keeps their entries
  (276-280); `kfio_sgl_copy_data` is right only for entries that start at their
  page's start (758-776), so `ScatterExact` asks no more.
* `kscsi_host.c`: a host that cannot be registered leaks its `Scsi_Host`
  (529-533); `scmd->result = 0` (369-372) may come after the completor answered,
  and even when the midlayer already uses the command again, so that an error is
  reported as success (`CommandAnsweredOnce` names this exception); a command that
  hooks its unit again after `lu_hidden` leaves the unit pointing to the device that
  is then removed (571-582 do not reset `port_lu`); the queue depth is recomputed
  from a count read earlier (329-337). The comment at 186-189 reports a device with
  an invalid unit, "We don't know how": `HostCountExact` says that it does not come
  from the steps modelled here, which do not include a unit freed by the core.
* `common_kinfo.c`, `kinfo.c`: a node's handler that takes `kinfo_lock` while a
  removal waits for that handler would never end; the driver's fini frees the
  root without its children; nodes without a parent skip the duplicate check; a
  read whose position is behind the end of the text reads past the buffer (53-56),
  which happens when the value has become shorter or when a write through the same
  file moved the position there (214); a failing copy returns a positive count and
  leaves the position (64-65, 204-211), and a text that is refused has already
  moved it (214, 232-277); written text is parsed without a terminator (204-230)
  and a short string stored with what the buffer held; one path leaks the value
  buffer (184-193); if `start` cannot allocate, `stop` frees the node (334-360).
  `KinfoFileExact` makes an exception for each of these (`kf_shrunk`, `kf_fault`,
  `kf_exact`, "wild"; the leak is not part of it).
* `kcpu.c`: the comment at 241-243 says missing nodes are accounted for; with
  sparse nodes the index can reach the number of queues. `CpuQueuesInRange` says
  what holds on dense machines. The comment at 283-285 says offline processors
  share a queue with their nearest online neighbour; one behind the last online
  processor gets the queue after that one's, which need not be counted as used. The two
  histograms are never freed.
* `khotplug.c`: overlapping callers can leave the callbacks removed with somebody
  registered; an error of the setup is stored as a state.
* `main.c`, `pci.c`, `kinit.c`: a refused DMA mask skips the release of the regions
  (726); a failing SCSI interface leaves the block interface registered; a driver
  that was never registered is unregistered (89-90); the sysrq help names other
  keys than the ones registered.
* `kcondvar.c`: the elapsed time of a wait that ends early can be a huge unsigned
  number (277); a signal consumed while the timeout fires is reported as a
  timeout.
* `cdev.c`: an open between `misc_register` and the assignment of the handle gets
  `-ENODEV` (171-180); an allocation is not tested (167-169).
* `arch/ppc/bits.h`: "atomic set of bit # v of *p, returns old value" (88), but
  test-and-set and test-and-clear return whether any *other* bit was set; the
  64-bit clear shifts a 32-bit one. The x86 sub_return macros leave `-val`
  unparenthesised (`atomic.h:549`, `653`).
* `ranges.h`: a range that ends exactly at 2^64 counts as wrapping (130), and an
  empty range inside another overlaps it. `ktime.c`: jiffies are truncated to 32
  bits. `AlgorithmsExact` leaves these inputs out, and the PPC results above.
  `pci.c`: the slot search starts at the table's header (435) though the entries
  begin behind it (399), so that a header that looks like an entry is taken for one
  (`SlotExact` leaves such headers out); a malformed NUMA
  override ends the search, and the BAR pointer is not reset when a BAR is
  missing (600-625). `kscsi_host.c`: an update of the residual after it has
  reached 0 starts again from the buffer's length.

## Proofs

Every theorem is about all instances at once: any threads, users, bios, hosts,
lists. A run checks the same property on a small instance. What a theorem needs of
the constants is an `ASSUME` of the module that declares them (a NULL is no object,
the sets that are counted are finite, widths are numbers) and is named below where
it says more than that.

### The SIX semaphore (`SixLockProofs`)

* `SixLockSafe`: `Spec => []IInv`; `BooksAlwaysExact`: `BookkeepingExact`;
  `HoldersAlwaysCompatible`: `HoldersCompatible`;
* `SixLockImplements`: `Spec => ImplementsGranularLock`;
* `WaitersAlwaysCounted`: `WaitersCounted`;
* `SerialsAlwaysExact`: `ConversionSerials`, and `ConversionsInOrder`:
  `ConversionOrder`, given `SerialsSuffice`.

`HoldersCompatible` is not inductive: the code looks at a mask and a counter, not
at the holders. `IInv` adds `BookkeepingExact` (mask and counters equal what the
holders imply), the types with the counters' widths, and `WaitersSound` (a waiter
is counted and wants a conversion of the class it still holds, needed because its
request is granted many steps after it was computed). The central lemma
`CompatibleIsAdmissible` turns the code's test into the abstract lock's; a
conversion drops the old class before it takes the new one, and `GrantKeepsBooks`
covers both outcomes, the overflow included, where the abstract lock sees a
release.

`WaitersCounted` follows from `IInv` and what `Grant` does to `wait_count` and
`dropped` together (`GrantCounts`), for any widths. The last two theorems have a
hypothesis, because without it the code does something else (see the findings).
`SerialsSuffice` says that no serial wraps and that there are fewer threads than half the serials, beyond which
`serial64_compare` takes a late serial for an early one; serials have 64 bits, and
`SerialBound` is the guard that ends the model before the wrap. The inductive
invariant is `SerialRange`: the converting waiters own `wake_serial` to
`wait_serial`, each serial once, and the difference is their number.

### The waitable state (`FioStateProofs`)

`FioStateInvariant` (`Spec => []IInv`, which adds the types and `SleepersWait` to
the two properties), and from it `StateMachineSafe` (`NoMissedState`) and
`StateKeptForWaiter` (`StateHeldForWaiter`).

### The block device (`BlockDiskProofs`)

* `DiskInvariant`: `Spec => []IInv`;
* `OpenersCounted`: `TypeOK`, `ParentFollowsOpeners`, `PlugFindsQueue`;
* `PastBarrierOpenersFall`: `OpenersOnlyFall`;
* `PutAlwaysUnused`: `PutDiskUnused`.

The properties relate counts to openers; that they survive hide depends on where
the control thread is. `IInv` says what exists of the disk at each of its steps
(`DiskStage`), who can be opening, open or closing there and who holds the open
mutex (`UserStage`), and which counts are exact then (`CountsExact`): `bd_openers`
always, `ref_count` until a shutdown hide takes the reference that is not its own.

### Bios (`BlockIoProofs`)

* `BioInvariant`: `Spec => []IInv`;
* `BiosNeverLost`: `TypeOK`, `EachBioInOnePlace`;
* `FbiosCoverTheirBios`: `FbioMatchesChain`;
* `SleepersArePressed`: `NoSleepWithoutPressure`.

The state has only links, and the properties follow them with `Chain`. `IInv`
says instead that there *is* a function `Q` from the places where bios wait
(plugs, a submitter's hands, the rest of a kickoff, the fbio under construction,
queued works, fbios in the core) to sequences without repeats, such that the
links are those of the sequences (`WellStrung`), they share no bio and hold
exactly the bios submitted and not ended (`Covered`), every head and tail in the
driver's structures is that of its sequence (`SubmitterPoints`, `KickPoints`,
`WorkPoints`, `CorePoints`), and every fbio was made of its sequence (`MadeOf`).
Each action is then shown to move bios from one sequence to another. `ChainIs`
and the lemmas before it show that following the links from a head finds its
sequence. No relation between the limits is needed: a single bio larger than
`MaxLen` makes an fbio of its own.

### Lock-free list, condition variables and lists (`PortProofs`)

* `AtomicListSafe`: `ListSpec => [](ListInv /\ AtomicListExact)`, and
  `AtomicListImplements`: `ListSpec => AtomicBagRefined`. `AtomicListExact` speaks
  of links and is not inductive: a swap succeeds because the head has the value
  read before, not because nothing happened since. `ListInv` adds that each entry
  is in one place only (`OnePlacePerEntry`: in one list, or with one adder, never
  both) and that an adder about to swap has linked its entry to the head it read
  (`SwapPrepared`). Together they make the ABA case harmless: the entry is linked
  to whatever the head is now.
* `CondVarAlwaysSound`: `CvTypeOK` and `CondVarSound`. The queue is rewritten by a
  walk that takes out the waiters a signal or broadcast reaches; `IsWalk` describes
  it and the lemmas say who is left and in which order.
* `ListsStayLinked`: `PortListTypeOK` and `PortListExact`. Every operation of
  `list.h` is a sequence of single assignments; the proof shows what the links are
  after all of them, empty lists and neighbours that coincide included. The one
  assumption is that a head is never an element.

### Scatter lists and queue mapping (`DeviceProofs`)

* `PagesAlwaysKept`: `ScatterTypeOK` and `ScatterPagesKept`, for any page size,
  memory, list size and buffer length. `SgInv` says, until an error path of
  `kfio_sgl_map_bytes_gen` loses track of the pages, that a page is pinned once for
  each user entry (`Pins`) and that a page the device was let write is dirty or has
  an entry that will make it so (`PinsExact`); the second part is what
  `ScatterPagesKept` lacks to be inductive. `CutsInPages` shows that a buffer is cut
  into spans within pages of memory, `NewEntries` that user entries pin what
  `get_user_pages` pins for them, and `MergeKeepsPins` that a segment merged into
  an entry changes neither its page nor its flags and stays within the page.
* `BytesAlwaysExact`: `ScatterExact`. The invariant added to `SgInv` is small
  (`BytesInv`: until an error path is taken, the entries lie in memory, their bytes
  are the ones asked for and `sgl_size` is their number); the work is in what the
  code computes from a list. Everything is said with the sums `c[i]` of the first
  `i` lengths: a byte sequence *covers* a list (`Covers`) if byte `c[i - 1] + k` is
  byte `k` of entry `i`, which determines it (`CoverUnique`). `BytesAppend` and
  `BytesMerge` say what an entry of its own and a merged segment add, `BytesBuffer`
  that the cuts of a buffer add the buffer. A DMA map is right if it `SpansRange`:
  first and last entry, skip and truncation follow from the sums (`RangeMapped`).
  The search for an offset stops in the entry whose sums enclose it
  (`FindEntryIs`); the loop of `kfio_sgl_dma_slice` keeps `Growing`, the map being
  open at the current entry or ended where it had to. The copy loop keeps two
  `Cursor`s, one in each list and both at the number of bytes copied; a round ends
  at an entry's end of one of them, so as many rounds as there are entries in both
  lists are enough (`CopyStep`, `CopyDone`).
* `CpuQueuesAlwaysInRange`: `CpuMapTypeOK` and `CpuQueuesInRange`, for any number of
  processors, nodes and queues. With a queue per processor, the running index is
  the number of online processors before, modulo the queues (`IxIs`), so an offline
  one in front of an online one has its queue, and two online processors share a queue only after a whole round. Otherwise, on a machine
  without missing nodes, the counter of `node_map` is the identity
  (`NodeMapFacts`), clusters are intervals of nodes (`ClusterFacts`), and a queue
  number is a cluster times the queues per cluster plus a remainder
  (`PerClusterGood`).

### Services (`ServiceProofs`)

* `EventsNotSleptThrough`: `PollNotLost`. A poll joins the queue before it looks
  (`PollQueued`).
* `LayersAlwaysStacked`: `DriverLayers`.
* `NotifiersStayArmed`: `HotplugArmed`.
* `HostCountsExact`: `ScsiTypeOK` and `HostCountExact`. `HostInv` says that at most
  one host is listed and that a fresh host is its creator's alone
  (`HostsPlaced`), that counts equal the units that use the host (`RefsExact`,
  which holds whether or not the race of `scsi_host_race` happened), and, until it
  happens, that the listed host is live, everybody uses the listed one, and the one
  thread about to unlist it is alone (`HostsKept`). `HookInv` ties every command
  under way to a device that is there, so that its unit is counted and the divisor
  is not zero; `Hooked` says that a device that points to its unit is pointed back
  to, and not that a unit's pointer is good.
* `AnsweredOnce`: `CommandAnsweredOnce`. `AnswersCounted` says that a command was
  answered once exactly while it is done; the rest is what each step does to the
  result (`AnswerStep`).
* `TreeAlwaysExact`: `KinfoTypeOK` and `KinfoTreeExact`. `KtInv` is what the lists,
  the parents and /proc say of each other (`TreePart`) together with `CutPart`:
  there *is* a rank that grows from parent to child, and inside a removal a path
  from its first directory to where it is (`CutPath`). Without the path it would
  not follow that the climb back ends at the directory where the removal began, nor
  that this directory is still there; without the rank, that the path has no node
  twice.
* `FilesAlwaysExact`: `FileTypeOK` and `KinfoFileExact`. `SeqHandle` ties the next
  record to the records handed out and those in the buffer, the bytes in the buffer
  to the sum of the lengths of its records, and the counters of the data handle to
  the buffer, across every retry with a larger one. `MoveStep` and `WriteMoves` say
  how the position and what the user was told change together.

### How the proofs go about it

Sequences are reasoned about by their places (`Listed`, `NoneTwice` of
`SequenceLemmas`), because the provers find pointwise facts and not equalities of
sequences. Induction is done over sets of naturals (`SetInduction`, from
`LeastNatural`): the facts about the walks of `CondVar` and the chains of
`BlockIo` are memberships of a set that holds 0 and the successor of everything it
holds. A recursive function is a `CHOOSE`, so a
function with its equation is first shown to exist up to every number, by the same
induction (`GrownExists`, `CopyingExists`, `IxExists`, `BytesExist`), and then to
have the values it must. Folds and `FlattenSeq` become sums in the same way
(`Sums`, `SumsGrow`, `SumsPlace`, `FlattenPlaces`).

### Only model-checked

* Liveness: `FreeLockTaken`, `WaiterReturns`, `HideCompletes`, `ExposeCompletes`,
  `EveryPlacedBioEnds`. Fairness and ENABLED are out of the prover's reach.
* `AlgorithmsExact`: `PortBits` uses bit operators and `KinfoWalk` a `RECURSIVE`
  walk, neither of which the prover can reach; the reference definitions of
  `PortCalc` are compared over every word of the small width instead.
* `ServicesTypeOK` as a whole, because it is stated about the bench that puts all
  service components side by side. The types of every component but the two
  libraries of pure functions are proved, each with its component.

## Not modelled

The core (binary), queue limits, names and statistics, destroy functions that
only free, `lock_pending` (a counter nobody reads), inquiry data, configuration
space access, MSI-X vectors, and the wrappers of the kernel's allocators, work
queues, threads, messages and parameters.

Of the blk-mq path only the translation of a request (`PortCalc`) and the list
(`AtomicList`) are modelled. Its completion protocol cannot run as written:
`main.c:147-150` refuses it outside debug builds, `kblock.c:349` pushes the
embedded fbio onto the list from which 297-299 takes `kfio_bio`s, and `pending` is
never raised, so that the assertion at 303 fails on the first completion. A model
of it would be a model of a repaired program.

The SCSI host is compiled only with `KFIO_SCSI_DEVICE`; its model assumes it is.

## Plan

Every safety invariant, action property and refinement that the passing runs check
is proved, but for the two of the last section. What could follow:

1. The completion side of the blk-mq path, once it runs (see above).
2. Liveness proofs, when the prover reaches fairness; the weak and strong fairness
   of the specifications is stated so that it can be used as it is.

Runs are kept few: a component that shares no state joins the bench of
`services`, and a violation run is kept for a disagreement that matters.
