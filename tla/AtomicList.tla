----------------------------- MODULE AtomicList -----------------------------
(***************************************************************************)
(* The singly linked list of fio/port/atomic_list.h: entries are added by  *)
(* compare-and-swap from any CPU, without a lock, and whoever handles them *)
(* takes them all with one exchange and walks its private chain.  An entry *)
(* may be added again as soon as it has been handled, so the head can come *)
(* back to a value that an adder read long ago.                            *)
(***************************************************************************)
EXTENDS Naturals, Sequences

CONSTANTS ListNodes,    \* the entries: each holds its own link
          Pushers,      \* the CPUs that add entries
          Takers,       \* those who splice the list and walk what they took
          Null          \* the end of a chain

ASSUME NullAssumption == Null \notin ListNodes

VARIABLES al_head,      \* head->next of the shared list
          al_next,      \* entry->next of every entry
          al_pc,        \* where each adder is in fusion_atomic_list_add
          al_entry,     \* the entry it adds
          al_cur,       \* its local cur
          al_walk,      \* where each taker is in the walk of its private list
          al_pos,       \* its pos
          al_n,         \* its n, read before pos is handled
          al_listed,    \* the entries added and not taken, newest first
          al_taken      \* the entries each taker took and did not handle yet

alVars == <<al_head, al_next, al_pc, al_entry, al_cur, al_walk, al_pos, al_n,
            al_listed, al_taken>>

ListRef == ListNodes \cup {Null}

ListInit ==
    /\ al_head = Null
    /\ al_next = [e \in ListNodes |-> Null]
    /\ al_pc = [p \in Pushers |-> "idle"]
    /\ al_entry = [p \in Pushers |-> Null]
    /\ al_cur = [p \in Pushers |-> Null]
    /\ al_walk = [k \in Takers |-> "idle"]
    /\ al_pos = [k \in Takers |-> Null]
    /\ al_n = [k \in Takers |-> Null]
    /\ al_listed = << >>
    /\ al_taken = [k \in Takers |-> << >>]

In(e, s) == \E i \in DOMAIN s : s[i] = e

Adding(p, e) == al_pc[p] # "idle" /\ al_entry[p] = e

(* The caller owns an entry that is in no list and that no one is adding. *)
Unused(e) ==
    /\ ~In(e, al_listed)
    /\ \A k \in Takers : ~In(e, al_taken[k])
    /\ \A p \in Pushers : ~Adding(p, e)

StartAdd(p, e) ==
    /\ al_pc[p] = "idle"
    /\ Unused(e)
    /\ al_entry' = [al_entry EXCEPT ![p] = e]
    /\ al_pc' = [al_pc EXCEPT ![p] = "read"]
    /\ UNCHANGED <<al_head, al_next, al_cur, al_walk, al_pos, al_n, al_listed, al_taken>>

(* cur = head->next; entry->next = cur: the entry is still the adder's own. *)
ReadHead(p) ==
    /\ al_pc[p] = "read"
    /\ al_cur' = [al_cur EXCEPT ![p] = al_head]
    /\ al_next' = [al_next EXCEPT ![al_entry[p]] = al_head]
    /\ al_pc' = [al_pc EXCEPT ![p] = "swap"]
    /\ UNCHANGED <<al_head, al_entry, al_walk, al_pos, al_n, al_listed, al_taken>>

(* An exchange that does not compare first. *)
SwapUnconditionally(p) ==
    /\ al_pc[p] = "swap"
    /\ al_head' = al_entry[p]
    /\ al_listed' = <<al_entry[p]>> \o al_listed
    /\ al_pc' = [al_pc EXCEPT ![p] = "idle"]
    /\ UNCHANGED <<al_next, al_entry, al_cur, al_walk, al_pos, al_n, al_taken>>

(* kfio_cmpxchg: the entry is in the list when the head is still cur, and  *)
(* the loop starts over when it is not.                                    *)
CompareAndSwap(p) ==
    /\ al_pc[p] = "swap"
    /\ IF al_head = al_cur[p]
         THEN /\ al_head' = al_entry[p]
              /\ al_listed' = <<al_entry[p]>> \o al_listed
              /\ al_pc' = [al_pc EXCEPT ![p] = "idle"]
         ELSE /\ al_pc' = [al_pc EXCEPT ![p] = "read"]
              /\ UNCHANGED <<al_head, al_listed>>
    /\ UNCHANGED <<al_next, al_entry, al_cur, al_walk, al_pos, al_n, al_taken>>

(* fusion_atomic_list_splice: one exchange empties the shared list. *)
Splice(k) ==
    /\ al_walk[k] = "idle"
    /\ al_pos' = [al_pos EXCEPT ![k] = al_head]
    /\ al_head' = Null
    /\ al_taken' = [al_taken EXCEPT ![k] = al_listed]
    /\ al_listed' = << >>
    /\ al_walk' = [al_walk EXCEPT ![k] = "next"]
    /\ UNCHANGED <<al_next, al_pc, al_entry, al_cur, al_n>>

(* n = pos ? pos->next : NULL, before the body of the loop sees pos. *)
WalkRead(k) ==
    /\ al_walk[k] = "next"
    /\ IF al_pos[k] = Null
         THEN /\ al_walk' = [al_walk EXCEPT ![k] = "idle"]
              /\ UNCHANGED al_n
         ELSE /\ al_n' = [al_n EXCEPT ![k] = al_next[al_pos[k]]]
              /\ al_walk' = [al_walk EXCEPT ![k] = "body"]
    /\ UNCHANGED <<al_head, al_next, al_pc, al_entry, al_cur, al_pos, al_listed, al_taken>>

(* The body of the loop handles the entry and gives it up to its owner. *)
WalkHandle(k) ==
    /\ al_walk[k] = "body"
    /\ al_taken[k] # << >>
    /\ al_taken' = [al_taken EXCEPT ![k] = Tail(al_taken[k])]
    /\ al_walk' = [al_walk EXCEPT ![k] = "advance"]
    /\ UNCHANGED <<al_head, al_next, al_pc, al_entry, al_cur, al_pos, al_n, al_listed>>

(* A loop that reads the link of the entry it has just handled. *)
ReadLinkAfterBody(k) ==
    /\ al_walk[k] = "advance"
    /\ al_pos' = [al_pos EXCEPT ![k] = al_next[al_pos[k]]]
    /\ al_walk' = [al_walk EXCEPT ![k] = "next"]
    /\ UNCHANGED <<al_head, al_next, al_pc, al_entry, al_cur, al_n, al_listed, al_taken>>

(* pos = n: the link of the entry just handled is not read again. *)
WalkAdvance(k) ==
    /\ al_walk[k] = "advance"
    /\ al_pos' = [al_pos EXCEPT ![k] = al_n[k]]
    /\ al_walk' = [al_walk EXCEPT ![k] = "next"]
    /\ UNCHANGED <<al_head, al_next, al_pc, al_entry, al_cur, al_n, al_listed, al_taken>>

PusherStep(p) ==
    \/ \E e \in ListNodes : StartAdd(p, e)
    \/ ReadHead(p)
    \/ CompareAndSwap(p)

TakerStep(k) == Splice(k) \/ WalkRead(k) \/ WalkHandle(k) \/ WalkAdvance(k)

ListNext ==
    \/ \E p \in Pushers : PusherStep(p)
    \/ \E k \in Takers : TakerStep(k)

ListSpec == ListInit /\ [][ListNext]_alVars

ListTypeOK ==
    /\ al_head \in ListRef
    /\ al_next \in [ListNodes -> ListRef]
    /\ al_pc \in [Pushers -> {"idle", "read", "swap"}]
    /\ al_entry \in [Pushers -> ListRef]
    /\ \A p \in Pushers : al_pc[p] # "idle" => al_entry[p] \in ListNodes
    /\ al_cur \in [Pushers -> ListRef]
    /\ al_walk \in [Takers -> {"idle", "next", "body", "advance"}]
    /\ al_pos \in [Takers -> ListRef]
    /\ al_n \in [Takers -> ListRef]
    /\ al_listed \in Seq(ListNodes)
    /\ al_taken \in [Takers -> Seq(ListNodes)]

(* The chain of links that starts at ref visits exactly the entries of s. *)
LinkedAs(ref, s) ==
    /\ ref = IF s = << >> THEN Null ELSE s[1]
    /\ \A i \in 1..Len(s) : al_next[s[i]] = IF i = Len(s) THEN Null ELSE s[i + 1]

NoRepeat(s) == \A i, j \in 1..Len(s) : s[i] = s[j] => i = j

(* Every entry that was added is found by following the links, once, in    *)
(* the shared list or in exactly one taker's private list, whatever adders *)
(* were caught between reading the head and swapping it, and whichever     *)
(* handled entries were added again meanwhile (atomic_list.h:51-71).       *)
AtomicListExact ==
    /\ LinkedAs(al_head, al_listed)
    /\ \A k \in Takers :
         /\ al_walk[k] = "idle" => al_taken[k] = << >>
         /\ al_walk[k] \in {"next", "body"} => LinkedAs(al_pos[k], al_taken[k])
         /\ al_walk[k] = "body" => al_taken[k] # << >> /\ LinkedAs(al_n[k], Tail(al_taken[k]))
         /\ al_walk[k] = "advance" => LinkedAs(al_n[k], al_taken[k])

(* No entry is in two lists or twice in one. *)
ListsApart ==
    /\ NoRepeat(al_listed)
    /\ \A k \in Takers :
         /\ NoRepeat(al_taken[k])
         /\ \A e \in ListNodes : In(e, al_taken[k]) => ~In(e, al_listed)
         /\ \A m \in Takers \ {k} : \A e \in ListNodes :
              In(e, al_taken[k]) => ~In(e, al_taken[m])

(* An entry that is being added is in no list, and added by one adder. *)
AddersApart ==
    \A p \in Pushers : al_pc[p] # "idle" =>
         /\ ~In(al_entry[p], al_listed)
         /\ \A k \in Takers : ~In(al_entry[p], al_taken[k])
         /\ \A q \in Pushers \ {p} : ~Adding(q, al_entry[p])

OnePlacePerEntry == ListsApart /\ AddersApart

(* An adder about to swap has linked its entry to the head it read. *)
SwapPrepared ==
    \A p \in Pushers : al_pc[p] = "swap" => al_next[al_entry[p]] = al_cur[p]

(* What every step keeps: the links are exact because an entry is in one   *)
(* place only and because an adder prepares its link before it swaps.      *)
ListInv == ListTypeOK /\ AtomicListExact /\ OnePlacePerEntry /\ SwapPrepared

(* The list implements the promise of AtomicBag: the swap that succeeds is *)
(* the addition, the exchange is the taking.                               *)
Bag == INSTANCE AtomicBag WITH ListNodes <- ListNodes, Takers <- Takers,
                               listed <- al_listed, taken <- al_taken

AtomicBagRefined == Bag!BagSpec
=============================================================================
