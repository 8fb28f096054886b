------------------------------ MODULE PortList ------------------------------
(***************************************************************************)
(* The doubly linked circular lists of fio/port/list.h.  A list is a head  *)
(* entry whose links lead through the elements and back; every operation   *)
(* is the sequence of link assignments the header makes, in its order, so  *)
(* that the aliasing of an empty list (head, first and last are the same   *)
(* entry) is part of the model.                                            *)
(***************************************************************************)
EXTENDS Naturals, Sequences, SequencesExt

CONSTANTS PortHeads,    \* the list heads
          PortEntries   \* the elements

ASSUME PortListAssumption == PortHeads \cap PortEntries = {}

VARIABLES pl_link,      \* [next, prev]: the links of heads and elements
          pl_seq        \* what each list holds, first to last

plVars == <<pl_link, pl_seq>>

LinkEnds == PortHeads \cup PortEntries

LinkNext(l, a, b) == [l EXCEPT !.next[a] = b]
LinkPrev(l, a, b) == [l EXCEPT !.prev[a] = b]

(* fusion_init_list and fusion_init_list_entry: linked to itself. *)
fusion_init_list(l, e) == LinkPrev(LinkNext(l, e, e), e, e)

fusion_list_empty(l, h) == l.next[h] = h

PortListInit ==
    /\ pl_link = [next |-> [e \in LinkEnds |-> e], prev |-> [e \in LinkEnds |-> e]]
    /\ pl_seq = [h \in PortHeads |-> << >>]

(* An insertion that sets the new entry's links last, through p->next. *)
LinksThroughP(l, e, p, n) ==
    LET l1 == LinkNext(l, p, e)
        l2 == LinkPrev(LinkNext(l1, e, l1.next[p]), e, p)
    IN  LinkPrev(l2, n, e)

(* n->prev = e; e->next = n; e->prev = p; p->next = e *)
fusion_list_add(l, e, p, n) ==
    LinkNext(LinkPrev(LinkNext(LinkPrev(l, n, e), e, n), e, p), p, e)

fusion_list_add_head(l, e, h) == fusion_list_add(l, e, h, l.next[h])

fusion_list_add_tail(l, e, h) == fusion_list_add(l, e, l.prev[h], h)

(* __fusion_list_del: the neighbours close the gap, the entry keeps its links. *)
(* Its test for NULL links is left out: an entry must have been initialised,   *)
(* and no operation of the header writes NULL.                                 *)
fusion_list_unlink(l, e) ==
    LET l1 == LinkPrev(l, l.next[e], l.prev[e])
    IN  LinkNext(l1, l1.prev[e], l1.next[e])

fusion_list_del(l, e) == fusion_init_list(fusion_list_unlink(l, e), e)

fusion_list_move_head(l, e, h) == fusion_list_add_head(fusion_list_unlink(l, e), e, h)

fusion_list_move_tail(l, e, h) == fusion_list_add_tail(fusion_list_unlink(l, e), e, h)

(* fusion_list_add_list puts the elements of src in front of those of dst. *)
fusion_list_add_list(l, src, dst) ==
    LET old == l.next[dst]
        new == l.next[src]
        l1  == LinkPrev(l, old, l.prev[src])
        l2  == LinkNext(l1, l1.prev[src], old)
        l3  == LinkNext(LinkPrev(l2, new, dst), dst, new)
    IN  IF l.next[src] = src THEN l ELSE fusion_init_list(l3, src)

(* __fusion_list_splice between prv and nxt, then the source is emptied. *)
fusion_list_splice_between(l, src, prv, nxt) ==
    LET first == l.next[src]
        last  == l.prev[src]
        l1    == LinkNext(LinkPrev(l, first, prv), prv, first)
    IN  fusion_init_list(LinkPrev(LinkNext(l1, last, nxt), nxt, last), src)

fusion_list_splice(l, src, h) ==
    IF fusion_list_empty(l, src) THEN l ELSE fusion_list_splice_between(l, src, h, l.next[h])

fusion_list_splice_tail(l, src, h) ==
    IF fusion_list_empty(l, src) THEN l ELSE fusion_list_splice_between(l, src, l.prev[h], h)

Holds(h, e) == \E i \in DOMAIN pl_seq[h] : pl_seq[h][i] = e

Without(e) == [h \in PortHeads |-> RemoveFirst(pl_seq[h], e)]

PortListAdd(e, h) ==
    /\ \A g \in PortHeads : ~Holds(g, e)
    /\ \/ /\ pl_link' = fusion_list_add_head(pl_link, e, h)
          /\ pl_seq' = [pl_seq EXCEPT ![h] = <<e>> \o @]
       \/ /\ pl_link' = fusion_list_add_tail(pl_link, e, h)
          /\ pl_seq' = [pl_seq EXCEPT ![h] = Append(@, e)]

(* Deleting is harmless for an initialised element that is on no list. *)
PortListDel(e) ==
    /\ pl_link' = fusion_list_del(pl_link, e)
    /\ pl_seq' = Without(e)

(* fusion_list_pop_head *)
PortListPop(h) ==
    /\ ~fusion_list_empty(pl_link, h)
    /\ pl_link' = fusion_list_del(pl_link, pl_link.next[h])
    /\ pl_seq' = [pl_seq EXCEPT ![h] = Tail(@)]

(* The moves work wherever the element is, the target list included. *)
PortListMove(e, h) ==
    \/ /\ pl_link' = fusion_list_move_head(pl_link, e, h)
       /\ pl_seq' = [Without(e) EXCEPT ![h] = <<e>> \o @]
    \/ /\ pl_link' = fusion_list_move_tail(pl_link, e, h)
       /\ pl_seq' = [Without(e) EXCEPT ![h] = Append(@, e)]

PortListJoin(src, h) ==
    /\ src # h
    /\ \/ /\ pl_link' = fusion_list_add_list(pl_link, src, h)
          /\ pl_seq' = [pl_seq EXCEPT ![h] = pl_seq[src] \o @, ![src] = << >>]
       \/ /\ pl_link' = fusion_list_splice(pl_link, src, h)
          /\ pl_seq' = [pl_seq EXCEPT ![h] = pl_seq[src] \o @, ![src] = << >>]
       \/ /\ pl_link' = fusion_list_splice_tail(pl_link, src, h)
          /\ pl_seq' = [pl_seq EXCEPT ![h] = @ \o pl_seq[src], ![src] = << >>]

PortListNext ==
    \/ \E e \in PortEntries, h \in PortHeads : PortListAdd(e, h) \/ PortListMove(e, h)
    \/ \E e \in PortEntries : PortListDel(e)
    \/ \E h \in PortHeads : PortListPop(h)
    \/ \E src, h \in PortHeads : PortListJoin(src, h)

PortListSpec == PortListInit /\ [][PortListNext]_plVars

PortListTypeOK ==
    /\ pl_link \in [next : [LinkEnds -> LinkEnds], prev : [LinkEnds -> LinkEnds]]
    /\ pl_seq \in [PortHeads -> Seq(PortEntries)]

(* After any sequence of operations the links of every list lead through   *)
(* exactly its elements, in order, in both directions, and back to the     *)
(* head, and an element that is on no list is linked to itself, so that    *)
(* deleting or moving it is harmless (list.h:48-251).                      *)
PortListExact ==
    /\ \A h \in PortHeads :
         LET ring == <<h>> \o pl_seq[h] \o <<h>>
         IN  \A i \in 1..(Len(ring) - 1) :
               /\ pl_link.next[ring[i]] = ring[i + 1]
               /\ pl_link.prev[ring[i + 1]] = ring[i]
    /\ \A e \in PortEntries :
         (\A h \in PortHeads : ~Holds(h, e)) => pl_link.next[e] = e /\ pl_link.prev[e] = e
=============================================================================
