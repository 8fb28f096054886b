------------------------------- MODULE BlockIo -------------------------------
(***************************************************************************)
(* The bio path of kblock.c (USE_QUEUE_NONE): a submitted bio is held back  *)
(* under backpressure, then turned into an fbio and given to the core, or   *)
(* put on the list of its thread's plug.  Unplugging walks that list, links *)
(* adjacent bios into one fbio, and the completor walks the links again to  *)
(* end every bio.  The lists are the bi_next links of the bios themselves.  *)
(*                                                                          *)
(* Sizes and addresses count device blocks.  External: the plugs of the     *)
(* kernel, its work queue kblockd, and the core, which takes an fbio with   *)
(* kfio_bio_submit and calls its completor once.                            *)
(***************************************************************************)
EXTENDS Integers, Sequences, SequencesExt, FiniteSets

CONSTANTS
  Bios,
  Threads,        \* submitters
  Kblockd,        \* the work queue's thread
  Shapes,         \* what a bio may be: [dir, base, len, ok]; ok: block aligned
  MaxLen,         \* FUSION_MAX_SECTORS_PER_OS_RW_REQUEST
  MaxSg,          \* entries of an fbio's scatter list (one per bio with data)
  MaxStalls,      \* timed-out waits before a held write fails (12)
  Backpressure,   \* BOOLEAN: the core may turn backpressure on
  NULL

\* An fbio: its command and range, its first bio, its scatter entries.
FbioSet == [cmd : {"READ", "WRITE", "DISCARD"}, base : Nat, length : Nat, head : Bios, sg : 0..MaxSg]

ASSUME NullIsNoBio == NULL \notin Bios \cup Shapes \cup FbioSet /\ IsFiniteSet(Bios)
ASSUME KblockdIsNoSubmitter == Kblockd \notin Threads
ASSUME ShapesType ==
  Shapes \subseteq [dir : {"READ", "WRITE", "DISCARD"}, base : Nat, len : Nat, ok : BOOLEAN]
ASSUME Limits ==
  MaxLen \in Nat \ {0} /\ MaxSg \in Nat \ {0} /\ MaxStalls \in Nat \ {0} /\ Backpressure \in BOOLEAN

VARIABLES
  shape,      \* what each bio is (NULL: not submitted yet)
  bi_next,    \* bio->bi_next
  ended,      \* how often bio_endio was called on each
  at,         \* where a thread is: idle, hold, asleep, stalled, place, kick
  cur,        \* the bio a thread is submitting
  stalls,     \* holdoff_writes_under_pressure's count
  plug,       \* per thread [on, head, tail]: current->plug and its kfio_plug
  work,       \* heads of the lists whose unplug work is queued on kblockd
  kick,       \* kfio_kickoff_plugged_io's bio, fbio and tail, per thread
  fbios,      \* fbios in the core
  holdoff     \* KFIO_DISK_HOLDOFF_BIT

queues == <<plug, work>>
vars == <<shape, bi_next, ended, at, cur, stalls, plug, work, kick, fbios, holdoff>>

Runners == Threads \cup {Kblockd}
NoKick == [bio |-> NULL, fbio |-> NULL, tail |-> NULL]
EmptyPlug(on) == [on |-> on, head |-> NULL, tail |-> NULL]

\* The bios linked from h on.  (Cut off where a cycle would make it endless.)
Chain(h) ==
  LET w[n \in 0..Cardinality(Bios)] ==
        IF n = 0 THEN <<h>>
        ELSE IF bi_next[Last(w[n - 1])] = NULL THEN w[n - 1]
             ELSE Append(w[n - 1], bi_next[Last(w[n - 1])])
  IN  IF h = NULL THEN <<>> ELSE w[Cardinality(Bios)]

Init ==
  /\ shape = [b \in Bios |-> NULL]
  /\ bi_next = [b \in Bios |-> NULL]
  /\ ended = [b \in Bios |-> 0]
  /\ at = [t \in Threads |-> "idle"]
  /\ cur = [t \in Threads |-> NULL]
  /\ stalls = [t \in Threads |-> 0]
  /\ plug = [t \in Threads |-> EmptyPlug(FALSE)]
  /\ work = <<>>
  /\ kick = [r \in Runners |-> NoKick]
  /\ fbios = {}
  /\ holdoff = FALSE
-----------------------------------------------------------------------------
(* From bio to fbio *)

\* fbio with its range, its command, the head of its bios and how many scatter
\* entries they fill.
NewFbio(b) ==
  [cmd |-> shape[b].dir, base |-> shape[b].base, length |-> shape[b].len, head |-> b,
   sg |-> IF shape[b].dir = "DISCARD" \/ shape[b].len = 0 THEN 0 ELSE 1]

\* kfio_map_to_fbio succeeds: the bio is well formed and there is a free fbio.
\* (Otherwise NULL; an allocation can always fail.)
kfio_map_to_fbio(b) == {NULL} \cup IF shape[b].ok THEN {NewFbio(b)} ELSE {}

\* Mutant of kfio_kbio_add_bio: the addresses are not compared.
AddAnywhere(f, b) ==
  /\ shape[b].dir # "DISCARD"
  /\ shape[b].dir = f.cmd
  /\ f.length + shape[b].len <= MaxLen
  /\ f.sg + (IF shape[b].len = 0 THEN 0 ELSE 1) <= MaxSg

\* Mutant of kfio_kbio_add_bio: the room in the scatter list is not checked.
AddWithoutRoom(f, b) ==
  /\ shape[b].dir # "DISCARD"
  /\ shape[b].dir = f.cmd
  /\ f.base + f.length = shape[b].base
  /\ f.length + shape[b].len <= MaxLen

\* Whether bio b may join fbio f: same direction, next address, room.
kfio_kbio_add_bio(f, b) ==
  /\ shape[b].dir # "DISCARD"
  /\ shape[b].dir = f.cmd
  /\ f.base + f.length = shape[b].base
  /\ f.length + shape[b].len <= MaxLen
  /\ f.sg + (IF shape[b].len = 0 THEN 0 ELSE 1) <= MaxSg

Joined(f, b) ==
  [f EXCEPT !.length = @ + shape[b].len,
            !.sg = @ + (IF shape[b].len = 0 THEN 0 ELSE 1)]

\* Mutant of Unlink: the bio keeps its link into the old list.
UnlinkNothing(b) == bi_next

\* bio->bi_next = NULL, once next is saved.
Unlink(b) == [bi_next EXCEPT ![b] = NULL]

\* One round of the loop of kfio_kickoff_plugged_io, run by r: the bio joins the
\* fbio being built, or that one is submitted and a new one made for the bio; a
\* bio without an fbio ends with -EIO.  The last round submits what is left.
kfio_kickoff_plugged_io(r) ==
  LET k    == kick[r]
      b    == k.bio
      next == bi_next[b]
      join == k.fbio # NULL /\ kfio_kbio_add_bio(k.fbio, b)
      Out(S, f) == IF f = NULL THEN S ELSE S \cup {f}
      Go(S, f, tail) ==
        IF next = NULL
        THEN kick' = [kick EXCEPT ![r] = NoKick] /\ fbios' = Out(S, f)
        ELSE kick' = [kick EXCEPT ![r] = [bio |-> next, fbio |-> f, tail |-> tail]] /\ fbios' = S
  IN  /\ b # NULL
      /\ \/ /\ join
            /\ bi_next' = IF k.tail = NULL THEN Unlink(b) ELSE [Unlink(b) EXCEPT ![k.tail] = b]
            /\ Go(fbios, Joined(k.fbio, b), b)
            /\ UNCHANGED ended
         \/ /\ ~join
            /\ bi_next' = Unlink(b)
            /\ \E f \in kfio_map_to_fbio(b) :
                 /\ Go(Out(fbios, k.fbio), f, IF f = NULL THEN NULL ELSE b)
                 /\ ended' = IF f = NULL THEN [ended EXCEPT ![b] = @ + 1] ELSE ended
      /\ UNCHANGED <<shape, cur, stalls, queues, holdoff>>

\* The core finishes fbio f: every bio linked from its head is ended.
kfio_bio_completor(f) ==
  /\ f \in fbios
  /\ fbios' = fbios \ {f}
  /\ LET c == Chain(f.head)
     IN  ended' = [b \in Bios |-> ended[b] + Cardinality({i \in 1..Len(c) : c[i] = b})]
  /\ UNCHANGED <<shape, bi_next, at, cur, stalls, queues, kick, holdoff>>
-----------------------------------------------------------------------------
(* Submission by thread t *)

\* Runner r enters kfio_kickoff_plugged_io with the list that starts at first.
Start(first, r) == kick' = [kick EXCEPT ![r] = [NoKick EXCEPT !.bio = first]]

\* Bios are alike until they have a shape, so they are taken in a fixed order.
Fresh(b) == shape[b] = NULL /\ b = CHOOSE c \in Bios : shape[c] = NULL

\* kfio_submit_bio is called with bio b: a write (a discard is one) first looks
\* at the backpressure.
kfio_submit_bio(t, b, s) ==
  /\ at[t] = "idle"
  /\ Fresh(b)
  /\ shape' = [shape EXCEPT ![b] = s]
  /\ cur' = [cur EXCEPT ![t] = b]
  /\ at' = [at EXCEPT ![t] = IF s.dir = "READ" THEN "place" ELSE "hold"]
  /\ stalls' = [stalls EXCEPT ![t] = 0]
  /\ UNCHANGED <<bi_next, ended, queues, kick, fbios, holdoff>>

\* Mutant of QueueUnplug: the work item is not queued.
UnplugForgets(t) ==
  /\ plug' = [plug EXCEPT ![t] = EmptyPlug(plug[t].on)]
  /\ UNCHANGED work

\* kfio_unplug_cb when the thread goes to sleep: its list goes to kblockd.
QueueUnplug(t) ==
  /\ plug' = [plug EXCEPT ![t] = EmptyPlug(plug[t].on)]
  /\ work' = IF plug[t].head = NULL THEN work ELSE Append(work, plug[t].head)

\* holdoff_writes_under_pressure tests the bit: go on, or sleep on state_cv, and
\* schedule() flushes the plug of a thread that goes to sleep.
holdoff_writes_under_pressure(t) ==
  /\ at[t] = "hold"
  /\ \/ /\ holdoff
        /\ at' = [at EXCEPT ![t] = "asleep"]
        /\ QueueUnplug(t)
     \/ /\ ~holdoff
        /\ at' = [at EXCEPT ![t] = "place"]
        /\ UNCHANGED queues
  /\ UNCHANGED <<shape, bi_next, ended, cur, stalls, kick, fbios, holdoff>>

\* Its timed wait times out, and state_lk is released.
HoldoffTimeout(t) ==
  /\ at[t] = "asleep"
  /\ at' = [at EXCEPT ![t] = "stalled"]
  /\ UNCHANGED <<shape, bi_next, ended, cur, stalls, queues, kick, fbios, holdoff>>

\* The timeout is counted.  After MaxStalls of those the write goes on if the
\* bit is off by now, or ends with -EIO.
HoldoffStalled(t) ==
  /\ at[t] = "stalled"
  /\ \/ /\ stalls[t] + 1 < MaxStalls
        /\ stalls' = [stalls EXCEPT ![t] = @ + 1]
        /\ at' = [at EXCEPT ![t] = "hold"]
        /\ UNCHANGED <<ended, cur>>
     \/ /\ stalls[t] + 1 = MaxStalls
        /\ ~holdoff
        /\ at' = [at EXCEPT ![t] = "place"]
        /\ UNCHANGED <<stalls, ended, cur>>
     \/ /\ stalls[t] + 1 = MaxStalls
        /\ holdoff
        /\ ended' = [ended EXCEPT ![cur[t]] = @ + 1]
        /\ cur' = [cur EXCEPT ![t] = NULL]
        /\ at' = [at EXCEPT ![t] = "idle"]
        /\ UNCHANGED stalls
  /\ UNCHANGED <<shape, bi_next, queues, kick, fbios, holdoff>>

\* Mutant of linux_bdev_backpressure: the bit is cleared and nobody is woken.
BackpressureNoBroadcast(on) ==
  /\ on # holdoff
  /\ holdoff' = on
  /\ UNCHANGED <<shape, bi_next, ended, at, cur, stalls, queues, kick, fbios>>

\* The core sets the bit, or clears it and wakes every sleeper.
linux_bdev_backpressure(on) ==
  /\ on # holdoff
  /\ holdoff' = on
  /\ at' = IF on THEN at
           ELSE [t \in Threads |-> IF at[t] = "asleep" THEN "hold" ELSE at[t]]
  /\ UNCHANGED <<shape, bi_next, ended, cur, stalls, queues, kick, fbios>>

\* No plug (or no memory for its kfio_plug): the bio goes to the core at once,
\* or ends with -EIO.
SubmitNow(t) ==
  /\ at[t] = "place"
  /\ at' = [at EXCEPT ![t] = "idle"]
  /\ cur' = [cur EXCEPT ![t] = NULL]
  /\ \E f \in kfio_map_to_fbio(cur[t]) :
       /\ fbios' = IF f = NULL THEN fbios ELSE fbios \cup {f}
       /\ ended' = IF f = NULL THEN [ended EXCEPT ![cur[t]] = @ + 1] ELSE ended
  /\ UNCHANGED <<shape, bi_next, stalls, queues, kick, holdoff>>

\* kfio_bio_should_submit_now: an empty bio (a flush) or a discard.
kfio_bio_should_submit_now(b) == shape[b].len = 0 \/ shape[b].dir = "DISCARD"

\* With a plug the bio goes to the end of its list; if it must not wait, the
\* thread takes the whole list and kicks it off.
kfio_add_bio_to_plugged_list(t) ==
  LET b    == cur[t]
      p    == plug[t]
      head == IF p.tail = NULL THEN b ELSE p.head
  IN  /\ at[t] = "place"
      /\ p.on
      /\ bi_next' = IF p.tail = NULL THEN bi_next ELSE [bi_next EXCEPT ![p.tail] = b]
      /\ cur' = [cur EXCEPT ![t] = NULL]
      /\ \/ /\ kfio_bio_should_submit_now(b)
            /\ plug' = [plug EXCEPT ![t] = EmptyPlug(TRUE)]
            /\ Start(head, t)
            /\ at' = [at EXCEPT ![t] = "kick"]
         \/ /\ ~kfio_bio_should_submit_now(b)
            /\ plug' = [plug EXCEPT ![t] = [on |-> TRUE, head |-> head, tail |-> b]]
            /\ at' = [at EXCEPT ![t] = "idle"]
            /\ UNCHANGED kick
      /\ UNCHANGED <<shape, ended, stalls, work, fbios, holdoff>>

\* blk_start_plug, by whoever batches its I/O.
blk_start_plug(t) ==
  /\ at[t] = "idle"
  /\ ~plug[t].on
  /\ plug' = [plug EXCEPT ![t] = EmptyPlug(TRUE)]
  /\ UNCHANGED <<shape, bi_next, ended, at, cur, stalls, work, kick, fbios, holdoff>>

\* The thread goes to sleep outside this code.
UnplugFromSchedule(t) ==
  /\ at[t] = "idle"
  /\ plug[t].head # NULL
  /\ QueueUnplug(t)
  /\ UNCHANGED <<shape, bi_next, ended, at, cur, stalls, kick, fbios, holdoff>>

\* kfio_unplug_cb from blk_finish_plug: the thread kicks off the list itself.
UnplugFinish(t) ==
  /\ at[t] = "idle"
  /\ plug[t].on
  /\ plug' = [plug EXCEPT ![t] = EmptyPlug(FALSE)]
  /\ \/ /\ plug[t].head # NULL
        /\ Start(plug[t].head, t)
        /\ at' = [at EXCEPT ![t] = "kick"]
     \/ /\ plug[t].head = NULL
        /\ UNCHANGED <<at, kick>>
  /\ UNCHANGED <<shape, bi_next, ended, cur, stalls, work, fbios, holdoff>>

\* kfio_unplug_do_cb on kblockd.
kfio_unplug_do_cb ==
  /\ kick[Kblockd].bio = NULL
  /\ work # <<>>
  /\ Start(Head(work), Kblockd)
  /\ work' = Tail(work)
  /\ UNCHANGED <<shape, bi_next, ended, at, cur, stalls, plug, fbios, holdoff>>

\* A round of the kickoff loop by a submitter, which is done with its last round.
KickSubmitter(t) ==
  /\ at[t] = "kick"
  /\ kfio_kickoff_plugged_io(t)
  /\ at' = IF kick'[t].bio = NULL THEN [at EXCEPT ![t] = "idle"] ELSE at

KickKblockd == kfio_kickoff_plugged_io(Kblockd) /\ UNCHANGED at
-----------------------------------------------------------------------------
Progress(t) ==
  \/ holdoff_writes_under_pressure(t) \/ HoldoffStalled(t)
  \/ SubmitNow(t)
  \/ kfio_add_bio_to_plugged_list(t)
  \/ KickSubmitter(t)

Next ==
  \/ \E t \in Threads :
       \/ \E b \in Bios, s \in Shapes : kfio_submit_bio(t, b, s)
       \/ Progress(t)
       \/ HoldoffTimeout(t)
       \/ blk_start_plug(t) \/ UnplugFromSchedule(t) \/ UnplugFinish(t)
  \/ Backpressure /\ \E on \in BOOLEAN : linux_bdev_backpressure(on)
  \/ kfio_unplug_do_cb
  \/ KickKblockd
  \/ \E f \in fbios : kfio_bio_completor(f)

Spec == Init /\ [][Next]_vars

\* Threads and kblockd run, timers expire, whoever started a plug finishes it,
\* and the core completes what it was given.
Fairness ==
  /\ \A t \in Threads :
       WF_vars(Progress(t)) /\ WF_vars(HoldoffTimeout(t)) /\ SF_vars(UnplugFinish(t))
  /\ WF_vars(kfio_unplug_do_cb)
  /\ WF_vars(KickKblockd)
  /\ WF_vars(\E f \in fbios : kfio_bio_completor(f))

FairSpec == Spec /\ Fairness
-----------------------------------------------------------------------------
(* Properties *)

TypeOK ==
  /\ shape \in [Bios -> Shapes \cup {NULL}]
  /\ bi_next \in [Bios -> Bios \cup {NULL}]
  /\ ended \in [Bios -> Nat]
  /\ at \in [Threads -> {"idle", "hold", "asleep", "stalled", "place", "kick"}]
  /\ cur \in [Threads -> Bios \cup {NULL}]
  /\ stalls \in [Threads -> 0..(MaxStalls - 1)]
  /\ plug \in [Threads -> [on : BOOLEAN, head : Bios \cup {NULL}, tail : Bios \cup {NULL}]]
  /\ work \in Seq(Bios)
  /\ kick \in [Runners -> [bio : Bios \cup {NULL}, fbio : FbioSet \cup {NULL}, tail : Bios \cup {NULL}]]
  /\ fbios \subseteq FbioSet
  /\ holdoff \in BOOLEAN

FbioHead(r) == IF kick[r].fbio = NULL THEN NULL ELSE kick[r].fbio.head

\* Every list in the driver: plugs, queued work, the rest of a kickoff, the bios
\* of an fbio being built or in the core, a bio being submitted.
Lists ==
  [kind : {"plug", "cur"}, who : Threads] \cup [kind : {"rest", "built"}, who : Runners]
    \cup [kind : {"work"}, who : 1..Len(work)] \cup [kind : {"fbio"}, who : fbios]

Contents(l) ==
  CASE l.kind = "plug"  -> Chain(plug[l.who].head)
    [] l.kind = "cur"   -> Chain(cur[l.who])
    [] l.kind = "rest"  -> Chain(kick[l.who].bio)
    [] l.kind = "built" -> Chain(FbioHead(l.who))
    [] l.kind = "work"  -> Chain(work[l.who])
    [] l.kind = "fbio"  -> Chain(l.who.head)

\* However the links are rewritten, a submitted bio that is not ended yet is on
\* exactly one list, once; an ended one is on none and was ended once.
EachBioInOnePlace ==
  \A b \in Bios :
    LET places == {p \in Lists \X (1..Cardinality(Bios) + 1) :
                     p[2] <= Len(Contents(p[1])) /\ Contents(p[1])[p[2]] = b}
    IN  Cardinality(places) + ended[b] = IF shape[b] = NULL THEN 0 ELSE 1

\* The bios that the completor will find from an fbio are the ones its range was
\* made of: one direction, adjacent, within the limits, a discard alone.
FbioMatchesChain ==
  \A f \in fbios :
    LET c == Chain(f.head)
    IN  /\ \A i \in 1..Len(c) : shape[c[i]].dir = f.cmd
        /\ \A i \in 1..(Len(c) - 1) :
             shape[c[i]].base + shape[c[i]].len = shape[c[i + 1]].base
        /\ f.base = shape[c[1]].base
        /\ f.base + f.length = shape[Last(c)].base + shape[Last(c)].len
        /\ Len(c) > 1 => f.length <= MaxLen /\ f.cmd # "DISCARD"

Held == {"hold", "asleep", "stalled"}

\* Every bio that got past the backpressure ends: none is forgotten on a plug, on
\* kblockd or halfway through a list.
EveryPlacedBioEnds ==
  \A b \in Bios :
    (shape[b] # NULL /\ \A t \in Threads : cur[t] = b => at[t] \notin Held) ~> (ended[b] = 1)

\* A writer does not stay asleep once the pressure is off.
NoSleepWithoutPressure == \A t \in Threads : at[t] = "asleep" => holdoff

\* The assertions of linux_bio_get_bid and linux_bio_get_blen: what goes into an
\* fbio is a whole number of blocks.
FbioBlockAligned ==
  \A f \in fbios : \A i \in 1..Len(Chain(f.head)) : shape[Chain(f.head)[i]].ok
=============================================================================
