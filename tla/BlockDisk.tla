------------------------------ MODULE BlockDisk ------------------------------
(***************************************************************************)
(* The life of the Linux block device of one fio_bdev (kblock.c): create,   *)
(* expose (add_disk runs on a worker), open and close by users, hide and    *)
(* destroy.                                                                 *)
(*                                                                          *)
(* One control thread (the core of the driver) runs create, expose, hide    *)
(* and destroy; pc is where it is inside one of them.  Users open, use and  *)
(* close the device through the block layer of the kernel, which is         *)
(* external: it holds the disk's open mutex around fops->open and           *)
(* fops->release, counts bd_openers up after a successful open and down     *)
(* before release, and refuses to open a disk that is not added.  A NULL or *)
(* ERR_PTR that is dereferenced is an oops, after which nothing runs.       *)
(***************************************************************************)
EXTENDS Integers, FiniteSets

CONSTANTS
  Users,          \* openers of the block device
  HideFlags,      \* SUBSET BOOLEAN: is KFIO_DISK_OP_SHUTDOWN among a hide's opflags
  MayFail,        \* what may fail in expose: "gd", "rq", "param", "add"
  NoOne           \* the open mutex is free

ASSUME UsersFinite == IsFiniteSet(Users) /\ NoOne \notin Users
ASSUME FlagsType == HideFlags \subseteq BOOLEAN
ASSUME MayFailType == MayFail \subseteq {"gd", "rq", "param", "add"}

VARIABLES
  created,      \* bdev->bdev_gd # NULL: there is a struct kfio_disk
  gd,           \* disk->gd: none (NULL), alloc, added, failed (add_disk failed),
                \* deleted (and not yet put)
  rq,           \* disk->rq: none (NULL), err (an ERR_PTR), live, dying
  ref_count,    \* disk->ref_count
  parent,       \* fio_bdev_open calls not yet matched by fio_bdev_release
  bd_openers,   \* the kernel's count of openers
  open_mutex,   \* the user that holds SHUTDOWN_MUTEX
  user,         \* closed, opening, open, plugged, io, closing
  work,         \* the add_disk work item: none, queued, added, done (param->done)
  pc,           \* the control thread
  asleep,       \* it sleeps on disk->state_cv
  shutdown,     \* the core has hidden the disk with KFIO_DISK_OP_SHUTDOWN
  oops

disk == <<created, gd, rq, ref_count>>
ctl  == <<pc, asleep, shutdown>>
vars == <<created, gd, rq, ref_count, parent, bd_openers, open_mutex, user,
          work, pc, asleep, shutdown, oops>>

Init ==
  /\ created = FALSE
  /\ gd = "none"
  /\ rq = "none"
  /\ ref_count = 0
  /\ parent = 0
  /\ bd_openers = 0
  /\ open_mutex = NoOne
  /\ user = [u \in Users |-> "closed"]
  /\ work = "none"
  /\ pc = "idle"
  /\ asleep = FALSE
  /\ shutdown = FALSE
  /\ oops = FALSE
-----------------------------------------------------------------------------
(* Open, I/O and close, on behalf of user u *)

\* The kernel takes the mutex; kfio_open_disk tests QUEUE_FLAG_DYING first (an
\* open that fails with -ENXIO changes nothing).
kfio_open_begin(u) ==
  /\ user[u] = "closed"
  /\ gd = "added"
  /\ open_mutex = NoOne
  /\ ~shutdown
  /\ rq = "live"
  /\ open_mutex' = u
  /\ user' = [user EXCEPT ![u] = "opening"]
  /\ UNCHANGED <<disk, parent, bd_openers, work, ctl, oops>>

\* The rest of kfio_open_disk: the first opener opens the parent, which may
\* fail and is then not counted.  The kernel counts the opener on success.
kfio_open_disk(u) ==
  /\ user[u] = "opening"
  /\ open_mutex' = NoOne
  /\ \/ /\ ref_count' = ref_count + 1
        /\ parent' = IF ref_count = 0 THEN parent + 1 ELSE parent
        /\ bd_openers' = bd_openers + 1
        /\ user' = [user EXCEPT ![u] = "open"]
     \/ /\ ref_count = 0
        /\ user' = [user EXCEPT ![u] = "closed"]
        /\ UNCHANGED <<ref_count, parent, bd_openers>>
  /\ UNCHANGED <<created, gd, rq, work, ctl, oops>>

\* kfio_submit_bio with a plug (the bio is put on the plug's list) or without
\* one (the fbio goes to the core).  Setting QUEUE_FLAG_DYING is what the driver
\* does to "stop delivery of new io from user": no new bio comes after it.
kfio_submit_bio(u) ==
  /\ user[u] = "open"
  /\ rq = "live"
  /\ \E to \in {"plugged", "io"} : user' = [user EXCEPT ![u] = to]
  /\ UNCHANGED <<disk, parent, bd_openers, open_mutex, work, ctl, oops>>

\* kfio_unplug_do_cb goes through disk->rq to the disk.
kfio_unplug_do_cb(u) ==
  /\ user[u] = "plugged"
  /\ \/ /\ rq = "none"
        /\ oops' = TRUE
        /\ UNCHANGED user
     \/ /\ rq # "none"
        /\ user' = [user EXCEPT ![u] = "io"]
        /\ UNCHANGED oops
  /\ UNCHANGED <<disk, parent, bd_openers, open_mutex, work, ctl>>

kfio_bio_completor(u) ==
  /\ user[u] = "io"
  /\ user' = [user EXCEPT ![u] = "open"]
  /\ UNCHANGED <<disk, parent, bd_openers, open_mutex, work, ctl, oops>>

\* The kernel's half of a close: it counts the opener down under the mutex,
\* before it calls fops->release.
blkdev_put(u) ==
  /\ user[u] = "open"
  /\ open_mutex = NoOne
  /\ ~shutdown
  /\ open_mutex' = u
  /\ bd_openers' = bd_openers - 1
  /\ user' = [user EXCEPT ![u] = "closing"]
  /\ UNCHANGED <<disk, parent, work, ctl, oops>>

\* Mutant of kfio_close_disk: the last closer wakes nobody.
CloseWithoutBroadcast(u) ==
  /\ user[u] = "closing"
  /\ user' = [user EXCEPT ![u] = "closed"]
  /\ open_mutex' = NoOne
  /\ ref_count' = ref_count - 1
  /\ parent' = IF ref_count = 1 THEN parent - 1 ELSE parent
  /\ UNCHANGED <<created, gd, rq, bd_openers, work, ctl, oops>>

\* Mutant of kfio_close_disk: every closer releases the parent.
CloseReleasesAlways(u) ==
  /\ user[u] = "closing"
  /\ user' = [user EXCEPT ![u] = "closed"]
  /\ open_mutex' = NoOne
  /\ ref_count' = ref_count - 1
  /\ parent' = parent - 1
  /\ asleep' = IF ref_count = 1 /\ rq = "dying" THEN FALSE ELSE asleep
  /\ UNCHANGED <<created, gd, rq, bd_openers, work, pc, shutdown, oops>>

\* kfio_release: the last closer releases the parent and, if the queue is dying,
\* wakes the hider.  It needs the disk and, as the last one, disk->rq.
kfio_close_disk(u) ==
  /\ user[u] = "closing"
  /\ user' = [user EXCEPT ![u] = "closed"]
  /\ open_mutex' = NoOne
  /\ oops' = (~created \/ (ref_count = 1 /\ rq = "none"))
  /\ ref_count' = IF created THEN ref_count - 1 ELSE ref_count
  /\ parent' = IF created /\ ref_count = 1 THEN parent - 1 ELSE parent
  /\ asleep' = IF ref_count = 1 /\ rq = "dying" THEN FALSE ELSE asleep
  /\ UNCHANGED <<created, gd, rq, bd_openers, work, pc, shutdown>>
-----------------------------------------------------------------------------
(* Create and expose *)

\* The core makes the disk anew only after the closes of the last one are over.
linux_bdev_create_disk ==
  /\ pc = "idle"
  /\ ~created
  /\ ~shutdown
  /\ \A u \in Users : user[u] = "closed"
  /\ created' = TRUE
  /\ ref_count' = 0
  /\ UNCHANGED <<gd, rq, parent, bd_openers, open_mutex, user, work, ctl, oops>>

\* No memory for the work item: the gendisk is put, the link broken, and hide
\* called to take the queue down.  (Without a gendisk hide does not look at the
\* KFIO_DISK_OP_SHUTDOWN it is given.)
ExposeWithoutParam ==
  /\ gd' = "none"
  /\ pc' = "hide_finish"
  /\ UNCHANGED <<work, shutdown, oops>>

\* linux_bdev_expose_disk up to its wait.  The allocations in order: the
\* gendisk (its queue is looked at before the NULL test), the queue (the error
\* path calls hide with the gendisk set and disk->rq an ERR_PTR), the work item.
linux_bdev_expose_disk ==
  /\ pc = "idle"
  /\ created
  /\ gd = "none" /\ rq = "none"
  /\ ~shutdown
  /\ \/ /\ "gd" \in MayFail
        /\ oops' = TRUE
        /\ UNCHANGED <<gd, rq, work, pc, shutdown>>
     \/ /\ "rq" \in MayFail
        /\ gd' = "alloc"
        /\ rq' = "err"
        /\ pc' = "hide_mark"
        /\ UNCHANGED <<work, shutdown, oops>>
     \/ /\ "param" \in MayFail
        /\ rq' = "live"
        /\ ExposeWithoutParam
     \/ /\ gd' = "alloc"
        /\ rq' = "live"
        /\ work' = "queued"
        /\ pc' = "expose_wait"
        /\ UNCHANGED <<shutdown, oops>>
  /\ UNCHANGED <<created, ref_count, parent, bd_openers, open_mutex, user, asleep>>

\* The worker: add_disk, whose failure is only logged ...
kfio_blk_add_disk ==
  /\ work = "queued"
  /\ work' = "added"
  /\ \/ gd' = "added"
     \/ "add" \in MayFail /\ gd' = "failed"
  /\ UNCHANGED <<created, rq, ref_count, parent, bd_openers, open_mutex, user, ctl, oops>>

\* Mutant of AddDiskDone: the waiter is not woken.
DoneWithoutBroadcast ==
  /\ work = "added"
  /\ work' = "done"
  /\ UNCHANGED <<disk, parent, bd_openers, open_mutex, user, ctl, oops>>

\* ... then param->done and the broadcast, under state_lk.
AddDiskDone ==
  /\ work = "added"
  /\ work' = "done"
  /\ asleep' = FALSE
  /\ UNCHANGED <<disk, parent, bd_openers, open_mutex, user, pc, shutdown, oops>>

\* The wait loop of expose: sleep, or return (and free the work item).
ExposeWait ==
  /\ pc = "expose_wait"
  /\ ~asleep
  /\ \/ /\ work # "done"
        /\ asleep' = TRUE
        /\ UNCHANGED <<pc, work>>
     \/ /\ work = "done"
        /\ work' = "none"
        /\ pc' = "idle"
        /\ UNCHANGED asleep
  /\ UNCHANGED <<disk, parent, bd_openers, open_mutex, user, shutdown, oops>>
-----------------------------------------------------------------------------
(* Hide and destroy *)

\* At system shutdown nobody is expected "to try and open or close this device".
linux_bdev_hide_disk(sd) ==
  /\ pc = "idle"
  /\ created
  /\ rq # "none"
  /\ sd => open_mutex = NoOne
  /\ shutdown' = sd
  /\ pc' = IF gd = "none" THEN "hide_finish" ELSE "hide_mark"
  /\ UNCHANGED <<disk, parent, bd_openers, open_mutex, user, work, asleep, oops>>

\* Under queue_lock: QUEUE_FLAG_DYING.  (The list bio_head that is failed here
\* is always empty: nothing ever puts a bio on it.)
HideMark ==
  /\ pc = "hide_mark"
  /\ IF rq \in {"none", "err"}
     THEN oops' = TRUE /\ UNCHANGED <<rq, pc>>
     ELSE rq' = "dying" /\ pc' = "hide_drain" /\ UNCHANGED oops
  /\ UNCHANGED <<created, gd, ref_count, parent, bd_openers, open_mutex, user, work,
                 asleep, shutdown>>

\* fio_bdev_drain_wait returns when the core has no request in flight.
HideDrain ==
  /\ pc = "hide_drain"
  /\ \A u \in Users : user[u] # "io"
  /\ pc' = "hide_del"
  /\ UNCHANGED <<disk, parent, bd_openers, open_mutex, user, work, asleep, shutdown, oops>>

\* del_gendisk; then the waits, unless the system is shutting down.
HideDelete ==
  /\ pc = "hide_del"
  /\ gd' = "deleted"
  /\ pc' = IF shutdown THEN "hide_release" ELSE "hide_barrier"
  /\ UNCHANGED <<created, rq, ref_count, parent, bd_openers, open_mutex, user, work,
                 asleep, shutdown, oops>>

\* Mutant of HideBarrier: the mutex is not taken.
NoBarrier ==
  /\ pc = "hide_barrier"
  /\ pc' = "hide_wait"
  /\ UNCHANGED <<disk, parent, bd_openers, open_mutex, user, work, asleep, shutdown, oops>>

\* mutex_lock(SHUTDOWN_MUTEX); mutex_unlock(SHUTDOWN_MUTEX).
HideBarrier ==
  /\ pc = "hide_barrier"
  /\ open_mutex = NoOne
  /\ pc' = "hide_wait"
  /\ UNCHANGED <<disk, parent, bd_openers, open_mutex, user, work, asleep, shutdown, oops>>

\* Mutant of HideWait: the hider goes on with the device open.
HideDoesNotWait ==
  /\ pc = "hide_wait"
  /\ pc' = "hide_finish"
  /\ UNCHANGED <<disk, parent, bd_openers, open_mutex, user, work, asleep, shutdown, oops>>

\* The wait for bd_openers to become 0.
HideWait ==
  /\ pc = "hide_wait"
  /\ ~asleep
  /\ \/ /\ bd_openers > 0
        /\ asleep' = TRUE
        /\ UNCHANGED pc
     \/ /\ bd_openers = 0
        /\ pc' = "hide_finish"
        /\ UNCHANGED asleep
  /\ UNCHANGED <<disk, parent, bd_openers, open_mutex, user, work, shutdown, oops>>

\* KFIO_DISK_OP_SHUTDOWN: one reference is taken off the count, and the parent
\* released if others remain.
HideRelease ==
  /\ pc = "hide_release"
  /\ ref_count' = ref_count - 1
  /\ parent' = IF ref_count > 1 THEN parent - 1 ELSE parent
  /\ pc' = "hide_finish"
  /\ UNCHANGED <<created, gd, rq, bd_openers, open_mutex, user, work, asleep, shutdown, oops>>

\* put_disk, and disk->gd = disk->rq = NULL.
HideFinish ==
  /\ pc = "hide_finish"
  /\ gd' = "none"
  /\ rq' = "none"
  /\ pc' = "idle"
  /\ UNCHANGED <<created, ref_count, parent, bd_openers, open_mutex, user, work, asleep,
                 shutdown, oops>>

linux_bdev_destroy_disk ==
  /\ pc = "idle"
  /\ created
  /\ gd = "none" /\ rq = "none"
  /\ created' = FALSE
  /\ ref_count' = 0
  /\ UNCHANGED <<gd, rq, parent, bd_openers, open_mutex, user, work, ctl, oops>>

\* The sleeps are TASK_INTERRUPTIBLE, and linux_bdev_backpressure broadcasts on
\* the same condition variable: a sleeper may be woken for no reason of its own.
SpuriousWakeup ==
  /\ asleep
  /\ asleep' = FALSE
  /\ UNCHANGED <<disk, parent, bd_openers, open_mutex, user, work, pc, shutdown, oops>>
-----------------------------------------------------------------------------
Hide ==
  \/ \E sd \in HideFlags : linux_bdev_hide_disk(sd)
  \/ HideMark \/ HideDrain \/ HideDelete \/ HideBarrier \/ HideWait
  \/ HideRelease \/ HideFinish

Control ==
  \/ linux_bdev_create_disk \/ linux_bdev_expose_disk \/ ExposeWait
  \/ Hide
  \/ linux_bdev_destroy_disk

UserStep(u) ==
  \/ kfio_open_begin(u) \/ kfio_open_disk(u)
  \/ kfio_submit_bio(u) \/ kfio_unplug_do_cb(u) \/ kfio_bio_completor(u)
  \/ blkdev_put(u) \/ kfio_close_disk(u)

Next ==
  /\ ~oops
  /\ \/ Control
     \/ kfio_blk_add_disk \/ AddDiskDone \/ SpuriousWakeup
     \/ \E u \in Users : UserStep(u)

Spec == Init /\ [][Next]_vars

\* The control thread and the worker run; what a user has begun goes on, and a
\* user gets the mutex to close at last (it is handed over in FIFO order); the
\* core completes what was submitted.  Nobody has to open the device, to submit
\* I/O or to hide the disk, and no spurious wakeup has to come.
Fairness ==
  /\ WF_vars(~oops /\ (ExposeWait \/ HideMark \/ HideDrain \/ HideDelete
                       \/ HideWait \/ HideRelease \/ HideFinish))
  /\ SF_vars(~oops /\ HideBarrier)
  /\ WF_vars(~oops /\ (kfio_blk_add_disk \/ AddDiskDone))
  /\ \A u \in Users :
       /\ WF_vars(~oops /\ (kfio_open_disk(u) \/ kfio_unplug_do_cb(u)
                            \/ kfio_bio_completor(u) \/ kfio_close_disk(u)))
       /\ SF_vars(~oops /\ blkdev_put(u))

FairSpec == Spec /\ Fairness
-----------------------------------------------------------------------------
(* Properties *)

TypeOK ==
  /\ created \in BOOLEAN
  /\ gd \in {"none", "alloc", "added", "failed", "deleted"}
  /\ rq \in {"none", "err", "live", "dying"}
  /\ ref_count \in -1..Cardinality(Users)
  /\ parent \in 0..1
  /\ bd_openers \in 0..Cardinality(Users)
  /\ open_mutex \in Users \cup {NoOne}
  /\ user \in [Users -> {"closed", "opening", "open", "plugged", "io", "closing"}]
  /\ work \in {"none", "queued", "added", "done"}
  /\ pc \in {"idle", "expose_wait", "hide_mark", "hide_drain", "hide_del", "hide_barrier",
             "hide_wait", "hide_release", "hide_finish"}
  /\ asleep \in BOOLEAN /\ shutdown \in BOOLEAN /\ oops \in BOOLEAN

HasOpen(u) == user[u] \in {"open", "plugged", "io", "closing"}

\* The parent device is open exactly while somebody has the disk open, and
\* ref_count counts them, over failed opens and whatever hide does.
ParentFollowsOpeners ==
  created /\ ~shutdown =>
    /\ ref_count = Cardinality({u \in Users : HasOpen(u)})
    /\ parent = IF ref_count > 0 THEN 1 ELSE 0

\* The comment in hide: past the mutex barrier bd_openers "can now only go down".
OpenersOnlyFall == [][pc = "hide_wait" => bd_openers' <= bd_openers]_vars

\* Whoever has a bio on a plug's list finds the queue when the plug is flushed:
\* the wait for openers, not the drain, covers those bios.
PlugFindsQueue == \A u \in Users : user[u] = "plugged" /\ ~shutdown => rq # "none"

\* The comment at the wait for openers: it "protects against release calls arriving
\* after corresponding fio_bdev device is long gone".  Of that only this much holds:
\* when hide, not at shutdown, puts the gendisk, no open that passed its test of
\* QUEUE_FLAG_DYING is still on its way, nobody has the device open, and no bio has
\* come to the core from a plug since the drain.  (A release may still come:
\* NoLateRelease.)
PutDiskUnused ==
  pc = "hide_finish" /\ ~shutdown => \A u \in Users : user[u] \in {"closed", "closing"}

\* A hide comes to its end once the users close the device, although it shares
\* its condition variable with expose.  (The hide that undoes a failed queue
\* allocation ends in an oops.)
HideCompletes ==
  (pc \in {"hide_mark", "hide_drain", "hide_del", "hide_barrier", "hide_wait"})
    ~> (pc = "idle" \/ oops)

\* An expose gets past its wait for the worker.
ExposeCompletes == (pc = "expose_wait") ~> (pc # "expose_wait")

\* The comment in hide: after the barrier "no concurrent open-close operation
\* can race with the wait", which "protects against release calls arriving
\* after" the device is gone: a release still finds the queue.
NoLateRelease == \A u \in Users : user[u] = "closing" => rq # "none"

\* The comment in hide: at shutdown it releases "all of the outstanding
\* references to the parent device".
ShutdownReleasesParent == shutdown /\ pc = "idle" => parent = 0
=============================================================================
