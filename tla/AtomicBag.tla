----------------------------- MODULE AtomicBag -----------------------------
(***************************************************************************)
(* What the lock-free list promises its users (fio/port/atomic_list.h):    *)
(* adding an entry is one indivisible step, splicing takes every entry     *)
(* added so far in one indivisible step, and the entries taken are handed  *)
(* out one at a time, the last one added first.                            *)
(***************************************************************************)
EXTENDS Sequences

CONSTANTS ListNodes,    \* the entries that may be added
          Takers        \* those who splice the list and walk what they took

VARIABLES listed,       \* the entries added and not yet taken, newest first
          taken         \* what each taker took and did not handle yet

BagInit ==
    /\ listed = << >>
    /\ taken = [k \in Takers |-> << >>]

(* Only an entry that is nowhere may be added: its link is inside it. *)
BagAdd(e) ==
    /\ \A i \in DOMAIN listed : listed[i] # e
    /\ \A k \in Takers : \A i \in DOMAIN taken[k] : taken[k][i] # e
    /\ listed' = <<e>> \o listed
    /\ UNCHANGED taken

BagTake(k) ==
    /\ taken[k] = << >>
    /\ taken' = [taken EXCEPT ![k] = listed]
    /\ listed' = << >>

BagHandle(k) ==
    /\ taken[k] # << >>
    /\ taken' = [taken EXCEPT ![k] = Tail(taken[k])]
    /\ UNCHANGED listed

BagNext ==
    \/ \E e \in ListNodes : BagAdd(e)
    \/ \E k \in Takers : BagTake(k) \/ BagHandle(k)

BagSpec == BagInit /\ [][BagNext]_<<listed, taken>>
=============================================================================
