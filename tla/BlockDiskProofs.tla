--------------------------- MODULE BlockDiskProofs ---------------------------
(***************************************************************************)
(* Proofs about the life of the block device, for any number of users,     *)
(* with every failure of expose and with hides at system shutdown: the     *)
(* counts follow the openers, and the queue is there while they are.       *)
(***************************************************************************)
EXTENDS BlockDisk, FiniteSetTheorems, TLAPS

(* Who the kernel has counted, and who the driver has (and still has while *)
(* it is inside kfio_close_disk).                                          *)
KernelOpen == {u \in Users : user[u] \in {"open", "plugged", "io"}}
Openers    == {u \in Users : HasOpen(u)}

(* What there is of the disk at every step of the control thread. *)
DiskStage ==
  /\ pc = "idle" => \/ gd = "none" /\ rq = "none"
                    \/ gd \in {"added", "failed"} /\ rq = "live" /\ ~shutdown
  /\ pc = "expose_wait" => /\ rq = "live" /\ ~shutdown
                           /\ \/ work = "queued" /\ gd = "alloc"
                              \/ work \in {"added", "done"} /\ gd \in {"added", "failed"}
  /\ pc # "expose_wait" => work = "none"
  /\ pc = "hide_mark" => \/ gd = "alloc" /\ rq = "err"
                         \/ gd \in {"added", "failed"} /\ rq = "live"
  /\ pc \in {"hide_drain", "hide_del"} => gd \in {"added", "failed"} /\ rq = "dying"
  /\ pc \in {"hide_barrier", "hide_wait"} => gd = "deleted" /\ rq = "dying" /\ ~shutdown
  /\ pc = "hide_release" => gd = "deleted" /\ rq = "dying" /\ shutdown
  /\ pc = "hide_finish" => gd \in {"none", "deleted"} /\ rq \in {"live", "dying"}
  /\ ~created => pc = "idle" /\ gd = "none" /\ ref_count = 0

(* The mutex is held by the one user that is opening or closing, by nobody *)
(* after a shutdown.  Without one, a user has the disk open only while it  *)
(* is there, and nobody is opening it once hide is past the barrier.       *)
UserStage ==
  /\ \A u \in Users : user[u] \in {"opening", "closing"} <=> open_mutex = u
  /\ shutdown => open_mutex = NoOne
  /\ ~shutdown => \A u \in Users : user[u] \in {"opening", "open", "plugged", "io"} =>
                                     gd \in {"added", "deleted"} /\ pc # "hide_finish"
  /\ \A u \in Users : user[u] = "opening" => pc # "hide_wait"

(* The counts: bd_openers always, ref_count until hide takes a reference   *)
(* off it at shutdown, and the parent also while there is no disk.         *)
CountsExact ==
  /\ bd_openers = Cardinality(KernelOpen)
  /\ created /\ (shutdown => pc \in {"hide_mark", "hide_drain", "hide_del", "hide_release"}) =>
       ref_count = Cardinality(Openers) /\ parent = IF ref_count > 0 THEN 1 ELSE 0
  /\ ~created /\ ~shutdown /\ ~oops => parent = IF Openers = {} THEN 0 ELSE 1

IInv == TypeOK /\ DiskStage /\ UserStage /\ CountsExact
-----------------------------------------------------------------------------
(* Counting users *)

(* A set of users is finite; it is empty when its count is 0, and a user   *)
(* more or less makes one more or less.                                    *)
LEMMA UserCounts ==
  ASSUME NEW S \in SUBSET Users
  PROVE  /\ Cardinality(S) \in 0..Cardinality(Users) /\ Cardinality(Users) \in Nat
         /\ Cardinality(S) = 0 <=> S = {}
         /\ \A u \in Users \ S : Cardinality(S \cup {u}) = Cardinality(S) + 1
         /\ \A u \in S : Cardinality(S \ {u}) = Cardinality(S) - 1
  <1>1. IsFiniteSet(Users) /\ IsFiniteSet(S) /\ Cardinality(S) <= Cardinality(Users)
    BY UsersFinite, FS_Subset
  <1>2. Cardinality(S) \in Nat /\ Cardinality(Users) \in Nat
    BY <1>1, FS_CardinalityType
  <1>3. Cardinality(S) = 0 <=> S = {}
    BY <1>1, FS_EmptySet
  <1>4. \A u \in Users \ S : Cardinality(S \cup {u}) = Cardinality(S) + 1
    BY <1>1, FS_AddElement
  <1>5. \A u \in S : Cardinality(S \ {u}) = Cardinality(S) - 1
    BY <1>1, FS_RemoveElement
  <1> QED
    BY <1>1, <1>2, <1>3, <1>4, <1>5

(* Nobody's openings change with the disk's other state. *)
LEMMA UsersStay ==
  ASSUME UNCHANGED user
  PROVE  KernelOpen' = KernelOpen /\ Openers' = Openers
  BY DEF KernelOpen, Openers, HasOpen

-----------------------------------------------------------------------------
(* Users *)

(* An open takes the mutex of a disk that is added. *)
LEMMA OpenBeginInv ==
  ASSUME IInv, ~oops, NEW u \in Users, kfio_open_begin(u)
  PROVE  IInv'
  <1> USE DEF IInv, kfio_open_begin, disk, ctl
  <1>1. /\ KernelOpen' = KernelOpen /\ Openers' = Openers
        /\ \A v \in Users : user'[v] = IF v = u THEN "opening" ELSE user[v]
    BY DEF TypeOK, KernelOpen, Openers, HasOpen
  <1>2. TypeOK'
    BY DEF TypeOK
  <1>3. DiskStage'
    BY DEF DiskStage
  <1>4. UserStage'
    BY <1>1, UsersFinite DEF UserStage, DiskStage, TypeOK
  <1>5. CountsExact'
    BY <1>1 DEF CountsExact
  <1> QED
    BY <1>2, <1>3, <1>4, <1>5

(* The rest of an open counts the opener, and opens the parent for the     *)
(* first one, or fails as the first one (kfio_open_disk).                  *)
LEMMA OpenDiskInv ==
  ASSUME IInv, ~oops, NEW u \in Users, kfio_open_disk(u)
  PROVE  IInv'
  <1> USE DEF IInv
  <1>1. /\ user[u] = "opening" /\ open_mutex' = NoOne /\ open_mutex = u /\ ~shutdown
        /\ UNCHANGED <<created, gd, rq, work, pc, asleep, shutdown, oops>>
    BY UsersFinite DEF kfio_open_disk, UserStage, ctl
  <1>2. gd \in {"added", "deleted"} /\ created /\ pc # "hide_wait" /\ pc # "hide_finish"
    BY <1>1 DEF UserStage, DiskStage
  <1>3. u \notin KernelOpen /\ u \notin Openers /\ KernelOpen \in SUBSET Users /\ Openers \in SUBSET Users
    BY <1>1 DEF KernelOpen, Openers, HasOpen
  <1>4. DiskStage'
    BY <1>1, <1>2 DEF DiskStage
  <1>5. CASE user' = [user EXCEPT ![u] = "open"] /\ bd_openers' = bd_openers + 1
               /\ ref_count' = ref_count + 1 /\ parent' = IF ref_count = 0 THEN parent + 1 ELSE parent
    <2>1. /\ KernelOpen' = KernelOpen \cup {u} /\ Openers' = Openers \cup {u}
          /\ \A v \in Users : user'[v] = IF v = u THEN "open" ELSE user[v]
      BY <1>5 DEF TypeOK, KernelOpen, Openers, HasOpen
    <2>2. KernelOpen' \in SUBSET Users /\ Openers' \in SUBSET Users
      BY <2>1, <1>3
    <2>3. /\ Cardinality(KernelOpen') = Cardinality(KernelOpen) + 1
          /\ Cardinality(Openers') = Cardinality(Openers) + 1
          /\ Cardinality(KernelOpen') \in 0..Cardinality(Users)
          /\ Cardinality(Openers') \in 0..Cardinality(Users)
          /\ Cardinality(Openers) \in Nat /\ Cardinality(Users) \in Nat
      BY <2>1, <2>2, <1>3, UserCounts
    <2>4. ref_count = Cardinality(Openers) /\ parent = IF ref_count > 0 THEN 1 ELSE 0
      BY <1>1, <1>2 DEF CountsExact
    <2>5. CountsExact'
      BY <1>1, <1>2, <1>5, <2>3, <2>4 DEF CountsExact
    <2>6. TypeOK'
      <3>1. bd_openers' \in 0..Cardinality(Users) /\ ref_count' \in -1..Cardinality(Users)
        BY <1>5, <2>3, <2>4 DEF CountsExact
      <3>2. parent' \in 0..1
        BY <1>5, <2>3, <2>4
      <3> QED
        BY <1>1, <1>5, <3>1, <3>2 DEF TypeOK
    <2>7. UserStage'
      BY <1>1, <1>2, <2>1, UsersFinite DEF UserStage
    <2> QED
      BY <1>4, <2>5, <2>6, <2>7
  <1>6. CASE user' = [user EXCEPT ![u] = "closed"] /\ UNCHANGED <<ref_count, parent, bd_openers>>
    <2>1. /\ KernelOpen' = KernelOpen /\ Openers' = Openers
          /\ \A v \in Users : user'[v] = IF v = u THEN "closed" ELSE user[v]
      BY <1>1, <1>6 DEF TypeOK, KernelOpen, Openers, HasOpen
    <2>2. TypeOK' /\ CountsExact'
      BY <1>1, <1>6, <2>1 DEF TypeOK, CountsExact
    <2>3. UserStage'
      BY <1>1, <1>2, <2>1, UsersFinite DEF UserStage
    <2> QED
      BY <1>4, <2>2, <2>3
  <1> QED
    BY <1>5, <1>6 DEF kfio_open_disk

(* A bio is submitted, flushed from its plug, or completed: the user keeps *)
(* the disk open (kfio_submit_bio, kfio_unplug_do_cb, kfio_bio_completor). *)
LEMMA UserIoInv ==
  ASSUME IInv, ~oops, NEW u \in Users,
         kfio_submit_bio(u) \/ kfio_unplug_do_cb(u) \/ kfio_bio_completor(u)
  PROVE  IInv'
  <1> USE DEF IInv, disk, ctl
  <1>1. /\ UNCHANGED <<created, gd, rq, ref_count, parent, bd_openers, open_mutex, work, pc, asleep, shutdown>>
        /\ user[u] \in {"open", "plugged", "io"} /\ oops' \in BOOLEAN
        /\ \E x \in {"open", "plugged", "io"} : user' = [user EXCEPT ![u] = x]
    <2>1. CASE kfio_submit_bio(u)
      BY <2>1 DEF kfio_submit_bio, TypeOK
    <2>2. CASE kfio_unplug_do_cb(u)
      <3>1. user = [user EXCEPT ![u] = user[u]]
        BY DEF TypeOK
      <3> QED
        BY <2>2, <3>1 DEF kfio_unplug_do_cb, TypeOK
    <2>3. CASE kfio_bio_completor(u)
      BY <2>3 DEF kfio_bio_completor, TypeOK
    <2> QED
      BY <2>1, <2>2, <2>3
  <1>2. PICK x \in {"open", "plugged", "io"} : user' = [user EXCEPT ![u] = x]
    BY <1>1
  <1>3. u \in KernelOpen /\ u \in Openers
    BY <1>1 DEF KernelOpen, Openers, HasOpen
  <1>4. /\ KernelOpen' = KernelOpen /\ Openers' = Openers
        /\ \A v \in Users : user'[v] = IF v = u THEN x ELSE user[v]
    BY <1>1, <1>2 DEF TypeOK, KernelOpen, Openers, HasOpen
  <1>5. TypeOK'
    BY <1>1, <1>2 DEF TypeOK
  <1>6. DiskStage'
    BY <1>1 DEF DiskStage
  <1>7. UserStage'
    BY <1>1, <1>2, <1>4 DEF UserStage
  <1>8. CountsExact'
    BY <1>1, <1>4 DEF CountsExact, TypeOK
  <1> QED
    BY <1>5, <1>6, <1>7, <1>8

(* The kernel's half of a close takes the opener off its own count. *)
LEMMA PutInv ==
  ASSUME IInv, ~oops, NEW u \in Users, blkdev_put(u)
  PROVE  IInv'
  <1> USE DEF IInv, blkdev_put, disk, ctl
  <1>1. u \in KernelOpen /\ u \in Openers /\ KernelOpen \in SUBSET Users
    BY DEF KernelOpen, Openers, HasOpen
  <1>2. /\ KernelOpen' = KernelOpen \ {u} /\ Openers' = Openers
        /\ \A v \in Users : user'[v] = IF v = u THEN "closing" ELSE user[v]
    BY <1>1 DEF TypeOK, KernelOpen, Openers, HasOpen
  <1>3. /\ Cardinality(KernelOpen') = Cardinality(KernelOpen) - 1
        /\ Cardinality(KernelOpen') \in 0..Cardinality(Users)
    <2>1. KernelOpen' \in SUBSET Users
      BY <1>1, <1>2
    <2> QED
      BY <1>1, <1>2, <2>1, UserCounts
  <1>4. TypeOK'
    BY <1>3 DEF TypeOK, CountsExact
  <1>5. DiskStage'
    BY DEF DiskStage
  <1>6. UserStage'
    BY <1>2, UsersFinite DEF UserStage
  <1>7. CountsExact'
    BY <1>2, <1>3 DEF CountsExact
  <1> QED
    BY <1>4, <1>5, <1>6, <1>7

(* The driver's half: the last closer releases the parent.  A close that   *)
(* comes after the disk is gone ends in an oops (kfio_close_disk).         *)
LEMMA CloseInv ==
  ASSUME IInv, ~oops, NEW u \in Users, kfio_close_disk(u)
  PROVE  IInv'
  <1> USE DEF IInv
  <1>1. /\ user[u] = "closing" /\ user' = [user EXCEPT ![u] = "closed"] /\ open_mutex' = NoOne
        /\ UNCHANGED <<created, gd, rq, bd_openers, work, pc, shutdown>>
        /\ oops' = (~created \/ (ref_count = 1 /\ rq = "none"))
        /\ ref_count' = IF created THEN ref_count - 1 ELSE ref_count
        /\ parent' = IF created /\ ref_count = 1 THEN parent - 1 ELSE parent
        /\ asleep' = IF ref_count = 1 /\ rq = "dying" THEN FALSE ELSE asleep
    BY DEF kfio_close_disk
  <1>2. open_mutex = u /\ ~shutdown
    BY <1>1, UsersFinite DEF UserStage
  <1>3. u \notin KernelOpen /\ u \in Openers /\ Openers \in SUBSET Users
    BY <1>1 DEF KernelOpen, Openers, HasOpen
  <1>4. /\ KernelOpen' = KernelOpen /\ Openers' = Openers \ {u}
        /\ \A v \in Users : user'[v] = IF v = u THEN "closed" ELSE user[v]
    BY <1>1 DEF TypeOK, KernelOpen, Openers, HasOpen
  <1>5. /\ Cardinality(Openers') = Cardinality(Openers) - 1
        /\ Cardinality(Openers') \in 0..Cardinality(Users) /\ Cardinality(Openers) \in Nat
        /\ Cardinality(Users) \in Nat
    <2>1. Openers' \in SUBSET Users
      BY <1>3, <1>4
    <2> QED
      BY <1>3, <1>4, <2>1, UserCounts
  <1>6. created => /\ ref_count = Cardinality(Openers) /\ parent = 1
                   /\ parent' = IF ref_count' > 0 THEN 1 ELSE 0
    BY <1>1, <1>2, <1>5 DEF CountsExact
  <1>7. CountsExact'
    <2>1. (bd_openers = Cardinality(KernelOpen))'
      BY <1>1, <1>4 DEF CountsExact
    <2>2. created => ref_count' = Cardinality(Openers')
      BY <1>1, <1>5, <1>6
    <2>3. ~created => oops'
      BY <1>1
    <2> QED
      BY <1>1, <1>2, <1>6, <2>1, <2>2, <2>3 DEF CountsExact
  <1>8. TypeOK'
    <2>1. ref_count' \in -1..Cardinality(Users) /\ parent' \in 0..1
      BY <1>1, <1>5, <1>6 DEF TypeOK
    <2>2. asleep' \in BOOLEAN /\ oops' \in BOOLEAN
      BY <1>1 DEF TypeOK
    <2> QED
      BY <1>1, <2>1, <2>2, ZenonT(60) DEF TypeOK
  <1>9. DiskStage'
    BY <1>1 DEF DiskStage
  <1>10. UserStage'
    BY <1>1, <1>2, <1>4, UsersFinite DEF UserStage
  <1> QED
    BY <1>7, <1>8, <1>9, <1>10
-----------------------------------------------------------------------------
(* The control thread *)

(* A disk is made when nobody has the last one open, and exposed with any  *)
(* of its allocations failing (linux_bdev_create_disk,                     *)
(* linux_bdev_expose_disk).                                                *)
LEMMA CreateInv ==
  ASSUME IInv, ~oops, linux_bdev_create_disk
  PROVE  IInv'
  <1> USE DEF IInv, linux_bdev_create_disk, ctl
  <1>1. KernelOpen' = KernelOpen /\ Openers' = Openers
    BY UsersStay
  <1>2. Openers = {}
    BY DEF Openers, HasOpen
  <1>3. Cardinality(Openers) = 0 /\ Cardinality(Users) \in Nat
    BY <1>2, UserCounts
  <1>4. TypeOK'
    BY <1>3 DEF TypeOK
  <1>5. DiskStage'
    BY DEF DiskStage
  <1>6. UserStage'
    BY DEF UserStage
  <1>7. CountsExact'
    BY <1>1, <1>2, <1>3 DEF CountsExact
  <1> QED
    BY <1>4, <1>5, <1>6, <1>7

(* Expose allocates the gendisk and the queue and hands their addition to  *)
(* a worker, or fails at one of them (linux_bdev_expose_disk).             *)
LEMMA ExposeInv ==
  ASSUME IInv, ~oops, linux_bdev_expose_disk
  PROVE  IInv'
  <1> USE DEF IInv, linux_bdev_expose_disk
  <1>1. KernelOpen' = KernelOpen /\ Openers' = Openers
    BY UsersStay
  <1>2. TypeOK'
    BY DEF TypeOK, ExposeWithoutParam
  <1>3. DiskStage'
    BY DEF DiskStage, ExposeWithoutParam
  <1>4. UserStage'
    BY DEF UserStage, DiskStage, ExposeWithoutParam
  <1>5. CountsExact'
    BY <1>1 DEF CountsExact, ExposeWithoutParam
  <1> QED
    BY <1>2, <1>3, <1>4, <1>5

(* The worker, and the wait of expose for it (kfio_blk_add_disk). *)
LEMMA WorkerInv ==
  ASSUME IInv, ~oops, kfio_blk_add_disk \/ AddDiskDone \/ ExposeWait \/ SpuriousWakeup
  PROVE  IInv'
  <1> USE DEF IInv, disk, ctl
  <1>1. KernelOpen' = KernelOpen /\ Openers' = Openers
    BY UsersStay DEF kfio_blk_add_disk, AddDiskDone, ExposeWait, SpuriousWakeup
  <1>2. CASE kfio_blk_add_disk
    <2>1. pc = "expose_wait" /\ gd = "alloc"
      BY <1>2 DEF kfio_blk_add_disk, DiskStage
    <2>2. TypeOK' /\ DiskStage'
      BY <1>2, <2>1 DEF kfio_blk_add_disk, TypeOK, DiskStage
    <2>3. UserStage'
      BY <1>2, <2>1 DEF kfio_blk_add_disk, UserStage
    <2>4. CountsExact'
      BY <1>1, <1>2 DEF kfio_blk_add_disk, CountsExact
    <2> QED
      BY <2>2, <2>3, <2>4
  <1>3. CASE AddDiskDone
    BY <1>1, <1>3 DEF AddDiskDone, TypeOK, DiskStage, UserStage, CountsExact
  <1>4. CASE ExposeWait
    BY <1>1, <1>4 DEF ExposeWait, TypeOK, DiskStage, UserStage, CountsExact
  <1>5. CASE SpuriousWakeup
    BY <1>1, <1>5 DEF SpuriousWakeup, TypeOK, DiskStage, UserStage, CountsExact
  <1> QED
    BY <1>2, <1>3, <1>4, <1>5

(* Hide, up to the deletion of the gendisk: at shutdown it starts when     *)
(* nobody is opening or closing (linux_bdev_hide_disk).                    *)
LEMMA HideStartInv ==
  ASSUME IInv, ~oops,
         (\E sd \in HideFlags : linux_bdev_hide_disk(sd)) \/ HideMark \/ HideDrain \/ HideDelete
  PROVE  IInv'
  <1> USE DEF IInv, disk, ctl
  <1>1. KernelOpen' = KernelOpen /\ Openers' = Openers
    BY UsersStay DEF linux_bdev_hide_disk, HideMark, HideDrain, HideDelete
  <1>2. ASSUME NEW sd \in HideFlags, linux_bdev_hide_disk(sd) PROVE IInv'
    <2>1. /\ pc = "idle" /\ rq = "live" /\ gd \in {"added", "failed"} /\ ~shutdown
          /\ created /\ sd \in BOOLEAN
      BY <1>2, FlagsType DEF linux_bdev_hide_disk, DiskStage
    <2>2. pc' = "hide_mark" /\ shutdown' = sd /\ (sd => open_mutex = NoOne)
          /\ UNCHANGED <<created, gd, rq, ref_count, parent, bd_openers, open_mutex, user, work, asleep, oops>>
      BY <1>2, <2>1 DEF linux_bdev_hide_disk
    <2>3. TypeOK' /\ DiskStage'
      BY <2>1, <2>2 DEF TypeOK, DiskStage
    <2>4. UserStage'
      BY <2>1, <2>2 DEF UserStage
    <2>5. CountsExact'
      BY <1>1, <2>1, <2>2 DEF CountsExact
    <2> QED
      BY <2>3, <2>4, <2>5
  <1>3. CASE HideMark
    <2>1. TypeOK' /\ DiskStage'
      BY <1>3 DEF HideMark, TypeOK, DiskStage
    <2>2. UserStage'
      BY <1>3 DEF HideMark, UserStage
    <2>3. CountsExact'
      BY <1>1, <1>3 DEF HideMark, CountsExact, DiskStage
    <2> QED
      BY <2>1, <2>2, <2>3
  <1>4. CASE HideDrain
    BY <1>1, <1>4 DEF HideDrain, TypeOK, DiskStage, UserStage, CountsExact
  <1>5. CASE HideDelete
    <2>1. TypeOK' /\ DiskStage'
      BY <1>5 DEF HideDelete, TypeOK, DiskStage
    <2>2. UserStage'
      BY <1>5 DEF HideDelete, UserStage
    <2>3. CountsExact'
      BY <1>1, <1>5 DEF HideDelete, CountsExact
    <2> QED
      BY <2>1, <2>2, <2>3
  <1> QED
    BY <1>2, <1>3, <1>4, <1>5

(* The barrier finds nobody opening, and the wait ends with no opener: the *)
(* two together are what lets hide take the queue away.                    *)
LEMMA HideWaitInv ==
  ASSUME IInv, ~oops, HideBarrier \/ HideWait
  PROVE  IInv'
  <1> USE DEF IInv, disk, ctl
  <1>1. KernelOpen' = KernelOpen /\ Openers' = Openers
    BY UsersStay DEF HideBarrier, HideWait
  <1>2. CASE HideBarrier
    <2>1. \A u \in Users : user[u] # "opening"
      BY <1>2, UsersFinite DEF HideBarrier, UserStage
    <2> QED
      BY <1>1, <1>2, <2>1 DEF HideBarrier, TypeOK, DiskStage, UserStage, CountsExact
  <1>3. CASE HideWait
    <2>1. TypeOK' /\ DiskStage' /\ CountsExact'
      BY <1>1, <1>3 DEF HideWait, TypeOK, DiskStage, CountsExact
    <2>2. bd_openers = 0 => KernelOpen = {}
      <3>1. KernelOpen \in SUBSET Users
        BY DEF KernelOpen
      <3> QED
        BY <3>1, UserCounts DEF CountsExact
    <2>3. bd_openers = 0 => \A u \in Users : user[u] \notin {"opening", "open", "plugged", "io"}
      BY <1>3, <2>2 DEF HideWait, KernelOpen, UserStage
    <2>4. UserStage'
      BY <1>3, <2>3 DEF HideWait, UserStage
    <2> QED
      BY <2>1, <2>4
  <1> QED
    BY <1>2, <1>3

(* The end of hide, with the reference it takes off at shutdown, and the   *)
(* destruction of the disk (linux_bdev_destroy_disk).                      *)
LEMMA HideEndInv ==
  ASSUME IInv, ~oops, HideRelease \/ HideFinish \/ linux_bdev_destroy_disk
  PROVE  IInv'
  <1> USE DEF IInv, disk, ctl
  <1>1. KernelOpen' = KernelOpen /\ Openers' = Openers
    BY UsersStay DEF HideRelease, HideFinish, linux_bdev_destroy_disk
  <1>2. CASE HideRelease
    <2>1. shutdown /\ created
      BY <1>2 DEF HideRelease, DiskStage
    <2>2. /\ ref_count = Cardinality(Openers) /\ parent = IF ref_count > 0 THEN 1 ELSE 0
          /\ Cardinality(Openers) \in 0..Cardinality(Users) /\ Cardinality(Users) \in Nat
      <3>1. Openers \in SUBSET Users
        BY DEF Openers
      <3> QED
        BY <1>2, <2>1, <3>1, UserCounts DEF HideRelease, CountsExact
    <2>3. TypeOK'
      <3>1. ref_count' \in -1..Cardinality(Users) /\ parent' \in 0..1
        BY <1>2, <2>2 DEF HideRelease
      <3> QED
        BY <1>2, <3>1 DEF HideRelease, TypeOK
    <2>4. DiskStage' /\ UserStage'
      BY <1>2, <2>1 DEF HideRelease, DiskStage, UserStage
    <2>5. CountsExact'
      BY <1>1, <1>2, <2>1 DEF HideRelease, CountsExact
    <2> QED
      BY <2>3, <2>4, <2>5
  <1>3. CASE HideFinish
    <2>1. TypeOK' /\ DiskStage'
      BY <1>3 DEF HideFinish, TypeOK, DiskStage
    <2>2. UserStage'
      BY <1>3 DEF HideFinish, UserStage
    <2>3. CountsExact'
      BY <1>1, <1>3 DEF HideFinish, CountsExact, DiskStage
    <2> QED
      BY <2>1, <2>2, <2>3
  <1>4. CASE linux_bdev_destroy_disk
    <2>1. Openers \in SUBSET Users
      BY DEF Openers
    <2>2. TypeOK'
      <3>1. Cardinality(Users) \in Nat
        BY <2>1, UserCounts
      <3>2. ref_count' \in -1..Cardinality(Users)
        BY <1>4, <3>1 DEF linux_bdev_destroy_disk
      <3> QED
        BY <1>4, <3>2 DEF linux_bdev_destroy_disk, TypeOK
    <2>3. DiskStage' /\ UserStage'
      BY <1>4 DEF linux_bdev_destroy_disk, DiskStage, UserStage
    <2>4. CountsExact'
      <3>1. Cardinality(Openers) \in Nat /\ (Cardinality(Openers) = 0 <=> Openers = {})
        BY <2>1, UserCounts
      <3>2. ~shutdown => parent = IF Openers = {} THEN 0 ELSE 1
        BY <1>4, <3>1 DEF linux_bdev_destroy_disk, CountsExact
      <3> QED
        BY <1>1, <1>4, <3>2 DEF linux_bdev_destroy_disk, CountsExact
    <2> QED
      BY <2>2, <2>3, <2>4
  <1> QED
    BY <1>2, <1>3, <1>4

-----------------------------------------------------------------------------
(* The theorems *)

(* A disk that does not exist yet has no opener and no queue. *)
LEMMA InitInv == Init => IInv
  <1> SUFFICES ASSUME Init PROVE IInv
    OBVIOUS
  <1>1. KernelOpen = {} /\ Openers = {}
    BY DEF Init, KernelOpen, Openers, HasOpen
  <1>2. Cardinality({}) = 0 /\ Cardinality(Users) \in Nat
    BY UserCounts
  <1>3. TypeOK
    <2>1. ref_count \in -1..Cardinality(Users) /\ bd_openers \in 0..Cardinality(Users) /\ parent \in 0..1
      BY <1>2 DEF Init
    <2>2. user \in [Users -> {"closed", "opening", "open", "plugged", "io", "closing"}]
      BY DEF Init
    <2> QED
      BY <2>1, <2>2 DEF Init, TypeOK
  <1>4. DiskStage
    BY DEF Init, DiskStage
  <1>5. UserStage
    BY UsersFinite DEF Init, UserStage
  <1>6. CountsExact
    BY <1>1, <1>2 DEF Init, CountsExact
  <1> QED
    BY <1>3, <1>4, <1>5, <1>6 DEF IInv

(* Every step of the control thread, the worker and the users keeps the    *)
(* invariant.                                                              *)
LEMMA NextInv == IInv /\ [Next]_vars => IInv'
  <1> SUFFICES ASSUME IInv, [Next]_vars PROVE IInv'
    OBVIOUS
  <1>1. CASE UNCHANGED vars
    BY <1>1 DEF vars, IInv, TypeOK, DiskStage, UserStage, CountsExact, KernelOpen, Openers, HasOpen
  <1>2. CASE Next
    <2>1. CASE Control
      BY <1>2, <2>1, CreateInv, ExposeInv, WorkerInv, HideStartInv, HideWaitInv, HideEndInv
         DEF Next, Control, Hide
    <2>2. CASE kfio_blk_add_disk \/ AddDiskDone \/ SpuriousWakeup
      BY <1>2, <2>2, WorkerInv DEF Next
    <2>3. ASSUME NEW u \in Users, UserStep(u) PROVE IInv'
      BY <1>2, <2>3, OpenBeginInv, OpenDiskInv, UserIoInv, PutInv, CloseInv DEF Next, UserStep
    <2> QED
      BY <1>2, <2>1, <2>2, <2>3 DEF Next
  <1> QED
    BY <1>1, <1>2

(* The life of the disk is as the invariant says, for any users. *)
THEOREM DiskInvariant == Spec => []IInv
  BY InitInv, NextInv, PTL DEF Spec

(* For any number of users and whatever of expose fails: ref_count is the  *)
(* number of users that have the disk open, the parent is open exactly     *)
(* while there is one, and whoever has a bio on a plug finds the queue     *)
(* (kfio_open_disk, kfio_close_disk, linux_bdev_hide_disk).                *)
THEOREM OpenersCounted == Spec => [](TypeOK /\ ParentFollowsOpeners /\ PlugFindsQueue)
  <1>1. IInv => TypeOK /\ ParentFollowsOpeners
    BY DEF IInv, CountsExact, ParentFollowsOpeners, Openers
  <1>2. IInv => PlugFindsQueue
    BY DEF IInv, UserStage, DiskStage, TypeOK, PlugFindsQueue
  <1> QED
    BY <1>1, <1>2, DiskInvariant, PTL

(* Past the mutex barrier of hide bd_openers can only go down, for any     *)
(* number of users (linux_bdev_hide_disk).                                 *)
THEOREM PastBarrierOpenersFall == Spec => OpenersOnlyFall
  <1>1. IInv /\ [Next]_vars => [pc = "hide_wait" => bd_openers' <= bd_openers]_vars
    <2> SUFFICES ASSUME IInv, Next, pc = "hide_wait" PROVE bd_openers' <= bd_openers
      OBVIOUS
    <2>1. bd_openers \in Int
      BY UserCounts DEF IInv, TypeOK
    <2>2. \A u \in Users : user[u] # "opening"
      BY DEF IInv, UserStage
    <2>3. UNCHANGED bd_openers \/ bd_openers' = bd_openers - 1
      BY <2>2 DEF Next, Control, Hide, UserStep, linux_bdev_create_disk, linux_bdev_expose_disk,
        ExposeWait, linux_bdev_hide_disk, HideMark, HideDrain, HideDelete, HideBarrier, HideWait,
        HideRelease, HideFinish, linux_bdev_destroy_disk, kfio_blk_add_disk, AddDiskDone,
        SpuriousWakeup, kfio_open_begin, kfio_open_disk, kfio_submit_bio, kfio_unplug_do_cb,
        kfio_bio_completor, blkdev_put, kfio_close_disk
    <2> QED
      BY <2>1, <2>3
  <1> QED
    BY <1>1, DiskInvariant, PTL DEF Spec, OpenersOnlyFall

(* When hide, not at shutdown, puts the gendisk, no open is on its way,    *)
(* nobody has the device open and no bio is in a plug or in the core, for  *)
(* any number of users (kfio_open_disk, linux_bdev_hide_disk).             *)
THEOREM PutAlwaysUnused == Spec => []PutDiskUnused
  <1>1. IInv => PutDiskUnused
    BY DEF IInv, TypeOK, UserStage, PutDiskUnused
  <1> QED
    BY <1>1, DiskInvariant, PTL
=============================================================================
