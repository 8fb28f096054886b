----------------------------- MODULE ScatterList -----------------------------
(***************************************************************************)
(* Scatter-gather lists and their DMA maps (kscatter.c): one linux_sgl, the *)
(* dma map made from it, and a copy out of it.                              *)
(*                                                                          *)
(* A byte of memory is its address; page p holds the bytes from             *)
(* p * PageSize on.  An entry stands for sge[i] and sl[i] together.  The    *)
(* list is laid out as the code lays it out: sl[] follows sge[max_entries], *)
(* so that sge[max_entries].flags is the low half of sl[0].page_link, and a *)
(* write there leaves the first entry with another page (NoPage).           *)
(* Callers map into a list that is not mapped for DMA (Mappable), as the    *)
(* assertions of kfio_sgl_unmap demand, and slice within the list; what a   *)
(* caller maps after an error path has lost pages is not followed.          *)
(***************************************************************************)
EXTENDS Integers, Sequences, SequencesExt, FiniteSets

CONSTANTS
  PageSize,     \* FUSION_PAGE_SIZE
  NumPages,     \* pages of memory
  MaxVecs,      \* the largest nvecs of kfio_sgl_alloc_nvec
  MaxBytes,     \* the longest buffer that is mapped
  NoPage        \* what is left of an overwritten page_link

ASSUME PageSizeType == PageSize \in Nat \ {0}
ASSUME ScatterBounds == NumPages \in Nat /\ MaxVecs \in Nat /\ MaxBytes \in Nat

Pages == 0 .. NumPages - 1

VARIABLES
  sg_max,       \* lsg->max_entries; 0: no list is allocated
  sg_list,      \* the first num_entries entries
  sg_size,      \* lsg->sgl_size
  sg_mapped,    \* lsg->num_mapped
  sg_pin,       \* references get_user_pages took on a page and no put_page gave back
  sg_dirty,     \* pages given to set_page_dirty_lock
  sg_written,   \* history: user pages the device was allowed to write
  sg_asked,     \* history: the bytes callers mapped since the last reset, in order
  sg_lost       \* history: an error path has lost track of the pages

sgVars == <<sg_max, sg_list, sg_size, sg_mapped, sg_pin, sg_dirty, sg_written, sg_asked, sg_lost>>

ScatterInit ==
  /\ sg_max = 0
  /\ sg_list = <<>>
  /\ sg_size = 0
  /\ sg_mapped = 0
  /\ sg_pin = [p \in Pages |-> 0]
  /\ sg_dirty = {}
  /\ sg_written = {}
  /\ sg_asked = <<>>
  /\ sg_lost = FALSE

Lesser(a, b)  == IF a < b THEN a ELSE b
Greater(a, b) == IF a > b THEN a ELSE b
LengthOf(es) ==
  LET sum[i \in 0 .. Len(es)] == IF i = 0 THEN 0 ELSE sum[i - 1] + es[i].length
  IN  sum[Len(es)]
-----------------------------------------------------------------------------
(* Building the list *)

\* Between uses of the list the kernel writes dirty pages back: what is recorded of
\* the pages is since the list was last empty.
SinceEmpty ==
  /\ sg_dirty' = IF sg_list = <<>> THEN {} ELSE sg_dirty
  /\ sg_written' = IF sg_list = <<>> THEN {} ELSE sg_written

Span(addr, size) == [k \in 1 .. size |-> addr + k - 1]

Mappable == sg_max > 0 /\ sg_mapped = 0 /\ ~sg_lost

kfio_sgl_alloc_nvec(n) ==
  /\ sg_max = 0
  /\ ~sg_lost
  /\ sg_max' = n
  /\ sg_list' = <<>>
  /\ sg_size' = 0
  /\ sg_mapped' = 0
  /\ UNCHANGED <<sg_pin, sg_dirty, sg_written, sg_asked, sg_lost>>

\* The cuts kfio_sgl_map_bytes_gen makes of a buffer: one for each page it touches.
PageCuts(buffer, size) ==
  [i \in 1 .. (buffer + size - 1) \div PageSize - buffer \div PageSize + 1 |->
     LET page == buffer \div PageSize + i - 1
         from == Greater(buffer, page * PageSize)
         to   == Lesser(buffer + size, (page + 1) * PageSize)
     IN  [page |-> page, offset |-> from - page * PageSize, length |-> to - from]]

\* An entry of the list, made of a cut.
Entry(cut, flags) ==
  [page |-> cut.page, offset |-> cut.offset, length |-> cut.length, flags |-> flags]

\* Appending the first n cuts, n within the room that is left.
Append_cuts(cuts, n, flags) ==
  LET new == [i \in 1 .. n |-> Entry(cuts[i], flags)]
  IN  /\ sg_list' = sg_list \o new
      /\ sg_size' = sg_size + LengthOf(new)

\* get_user_pages_fast on the pages of the first n cuts; put_page undoes it.
Pinned(pin, cuts, n) ==
  [p \in Pages |-> pin[p] + Cardinality({i \in 1 .. n : cuts[i].page = p})]

\* kfio_sgl_map_bytes_gen: all of the buffer, or the entries there is room for and
\* -ENOMEM, or the entries before the page that could not be pinned.  The flags of
\* the entry past the last one are written before the bound is tested; the pages
\* pinned before a failure are put, and stay in the list.
kfio_sgl_map_bytes_gen(buffer, size, user) ==
  LET cuts  == PageCuts(buffer, size)
      room  == sg_max - Len(sg_list)
      flags == IF user THEN {"SGE_USER"} ELSE {}
  IN
  /\ Mappable
  /\ \/ /\ Len(cuts) <= room
        /\ Append_cuts(cuts, Len(cuts), flags)
        /\ sg_pin' = IF user THEN Pinned(sg_pin, cuts, Len(cuts)) ELSE sg_pin
        /\ sg_asked' = sg_asked \o Span(buffer, size)
        /\ UNCHANGED sg_lost
     \/ /\ Len(cuts) > room
        /\ LET new == [i \in 1 .. room |-> Entry(cuts[i], flags)]
               all == sg_list \o new
           IN  /\ sg_list' = [all EXCEPT ![1].page = NoPage]
               /\ sg_size' = sg_size + LengthOf(new)
        /\ sg_pin' = IF user THEN Pinned(sg_pin, cuts, room) ELSE sg_pin
        /\ sg_lost' = TRUE
        /\ sg_asked' = <<>>
     \/ /\ user
        /\ \E n \in 0 .. Lesser(Len(cuts), room) - 1 :
             /\ Append_cuts(cuts, n, flags)
             /\ sg_lost' = (n > 0)
             /\ sg_asked' = IF n > 0 THEN <<>> ELSE sg_asked
        /\ UNCHANGED sg_pin
  /\ SinceEmpty
  /\ UNCHANGED <<sg_max, sg_mapped>>

\* kfio_sgl_map_page; a full list or a span past the page's end is -EINVAL.
kfio_sgl_map_page(page, offset, size) ==
  /\ Mappable
  /\ Len(sg_list) < sg_max
  /\ offset + size <= PageSize
  /\ Append_cuts(<<[page |-> page, offset |-> offset, length |-> size]>>, 1, {})
  /\ sg_asked' = sg_asked \o Span(page * PageSize + offset, size)
  /\ SinceEmpty
  /\ UNCHANGED <<sg_max, sg_mapped, sg_pin, sg_lost>>

\* Mutant of MergeVec: the pages are not compared.
MergesAcrossPages(es, vec) ==
  IF es # <<>> /\ Last(es).offset + Last(es).length = vec.offset
    THEN [es EXCEPT ![Len(es)].length = @ + vec.length]
    ELSE Append(es, Entry(vec, {}))

\* One bio_vec: it lengthens the last entry when it goes on where that one ends in
\* the same page, and is an entry of its own otherwise.
MergeVec(es, vec) ==
  IF /\ es # <<>>
     /\ Last(es).page = vec.page
     /\ Last(es).offset + Last(es).length = vec.offset
    THEN [es EXCEPT ![Len(es)].length = @ + vec.length]
    ELSE Append(es, Entry(vec, {}))

SegmentSpans(segments) ==
  FlattenSeq([i \in DOMAIN segments |->
    Span(segments[i].page * PageSize + segments[i].offset, segments[i].length)])

\* The list after the segments of a bio, one after the other.
WithSegments(segments) ==
  LET es[i \in 0 .. Len(segments)] == IF i = 0 THEN sg_list ELSE MergeVec(es[i - 1], segments[i])
  IN  es[Len(segments)]

\* Mutant of kfio_sgl_map_bio: the room is not tested first.
MapsBioWithoutRoom(segments) ==
  /\ Mappable
  /\ sg_list' = WithSegments(segments)
  /\ sg_size' = sg_size + LengthOf(segments)
  /\ sg_asked' = sg_asked \o SegmentSpans(segments)
  /\ SinceEmpty
  /\ UNCHANGED <<sg_max, sg_mapped, sg_pin, sg_lost>>

\* kfio_sgl_map_bio: nothing (-EAGAIN) unless all of the bio's segments would fit
\* unmerged.  A segment lies in one page and the list has room for all of them, so
\* the roll-back that follows the loop is never taken.
kfio_sgl_map_bio(segments) ==
  /\ Mappable
  /\ Len(sg_list) + Len(segments) <= sg_max
  /\ sg_list' = WithSegments(segments)
  /\ sg_size' = sg_size + LengthOf(segments)
  /\ sg_asked' = sg_asked \o SegmentSpans(segments)
  /\ SinceEmpty
  /\ UNCHANGED <<sg_max, sg_mapped, sg_pin, sg_lost>>
-----------------------------------------------------------------------------
(* Taking it down *)

\* User entries of the list on page p.
UserEntries(p) ==
  {i \in DOMAIN sg_list : "SGE_USER" \in sg_list[i].flags /\ sg_list[i].page = p}

\* Mutant of kfio_sgl_reset: the pages the device wrote are not marked.
ResetForgetsDirty ==
  /\ sg_max > 0
  /\ sg_mapped = 0
  /\ sg_list # <<>>
  /\ sg_pin' = [p \in Pages |-> sg_pin[p] - Cardinality(UserEntries(p))]
  /\ sg_list' = <<>>
  /\ sg_size' = 0
  /\ sg_asked' = <<>>
  /\ UNCHANGED <<sg_max, sg_mapped, sg_dirty, sg_written, sg_lost>>

\* kfio_sgl_reset: kfio_sgl_unmap dirties the user pages that were read into and puts
\* all user pages.
kfio_sgl_reset ==
  /\ sg_max > 0
  /\ sg_mapped = 0
  /\ sg_list # <<>>
  /\ sg_dirty' = sg_dirty \cup
       {p \in Pages : \E i \in UserEntries(p) : "SGE_READ_MAPPED" \in sg_list[i].flags}
  /\ sg_pin' = [p \in Pages |-> sg_pin[p] - Cardinality(UserEntries(p))]
  /\ sg_list' = <<>>
  /\ sg_size' = 0
  /\ sg_asked' = <<>>
  /\ UNCHANGED <<sg_max, sg_mapped, sg_written, sg_lost>>

\* kfio_sgl_destroy frees the list, which its users have reset; the history of its
\* pages starts anew.
kfio_sgl_destroy ==
  /\ sg_max > 0
  /\ sg_mapped = 0
  /\ sg_list = <<>>
  /\ sg_max' = 0
  /\ sg_dirty' = {}
  /\ sg_written' = {}
  /\ UNCHANGED <<sg_list, sg_size, sg_mapped, sg_pin, sg_asked, sg_lost>>
-----------------------------------------------------------------------------
(* DMA *)

\* kfio_sgl_dma_map: the flags are set first; dma_map_sg maps every entry, or fewer,
\* after which all is unmapped again (-EINVAL).
kfio_sgl_dma_map(read) ==
  /\ sg_list # <<>>
  /\ sg_mapped = 0
  /\ sg_list' = [i \in DOMAIN sg_list |->
       IF read THEN [sg_list[i] EXCEPT !.flags = @ \cup {"SGE_READ_MAPPED"}]
               ELSE sg_list[i]]
  /\ \/ /\ sg_mapped' = Len(sg_list)
        /\ sg_written' = IF read THEN sg_written \cup {p \in Pages : UserEntries(p) # {}}
                                 ELSE sg_written
     \/ UNCHANGED <<sg_mapped, sg_written>>
  /\ UNCHANGED <<sg_max, sg_size, sg_pin, sg_dirty, sg_asked, sg_lost>>

\* kfio_sgl_dma_unmap; the map is of no use after it (kfio_dma_map_free).
kfio_sgl_dma_unmap ==
  /\ sg_mapped > 0
  /\ sg_mapped' = 0
  /\ UNCHANGED <<sg_max, sg_list, sg_size, sg_pin, sg_dirty, sg_written, sg_asked, sg_lost>>

\* The map kfio_sgl_dma_map fills in: all of the list.
WholeMap ==
  [map_offset |-> 0, map_length |-> sg_size, sge_count |-> Len(sg_list),
   sge_skip |-> 0, sge_trunc |-> 0, sge_first |-> 1, sge_last |-> Len(sg_list),
   done |-> TRUE]

\* The first loop of kfio_sgl_dma_slice: it walks to the entry the offset falls into,
\* taking the lengths it passes off the offset.
FindEntry(offset) ==
  LET left[i \in 1 .. Len(sg_list)] ==
        IF i = 1 THEN offset ELSE left[i - 1] - sg_list[i - 1].length
      in(i) == left[i] < sg_list[i].length
      first == CHOOSE i \in DOMAIN sg_list : in(i) /\ \A j \in 1 .. i - 1 : ~in(j)
  IN  [i |-> first, offset |-> left[first]]

\* The body of its second loop, at entry i (which may be the one past the last): enough
\* bytes end the loop and set what is cut off the last entry, else the map grows.
Grow(dmap, i, length) ==
  IF dmap.done THEN dmap
  ELSE IF dmap.map_length >= length
    THEN [dmap EXCEPT !.sge_trunc = dmap.map_length - length, !.map_length = length,
                      !.done = TRUE]
    ELSE [dmap EXCEPT !.map_length = @ + sg_list[i].length, !.sge_last = i,
                      !.sge_count = @ + 1]

\* kfio_sgl_dma_slice: the map of a range of the list.
kfio_sgl_dma_slice(offset, length) ==
  LET at    == FindEntry(offset)
      start == [map_offset |-> offset, map_length |-> sg_list[at.i].length - at.offset,
                sge_count |-> 1, sge_skip |-> at.offset, sge_trunc |-> 0,
                sge_first |-> at.i, sge_last |-> at.i, done |-> FALSE]
      grown[i \in at.i .. sg_mapped + 1] ==
        IF i = at.i THEN start ELSE Grow(grown[i - 1], i, length)
  IN  grown[sg_mapped + 1]

\* The segment kfio_dma_map_first and kfio_dma_map_next report for entry i of a map:
\* the address of its first byte and its length.
DmaSegment(dmap, i) ==
  LET skip  == IF i = dmap.sge_first THEN dmap.sge_skip ELSE 0
      trunc == IF i = dmap.sge_last THEN dmap.sge_trunc ELSE 0
  IN  [addr |-> sg_list[i].page * PageSize + sg_list[i].offset + skip,
       len  |-> sg_list[i].length - skip - trunc]
-----------------------------------------------------------------------------
(* Bytes *)

\* kfio_sgl_get_byte_pointer: it walks to the entry the offset falls into.
kfio_sgl_get_byte_pointer(offset) ==
  LET at == FindEntry(offset)
  IN  sg_list[at.i].page * PageSize + sg_list[at.i].offset + at.offset

\* The destination of a copy: whole pages, as kfio_sgl_map_page would add them.
CopyTarget == [i \in 1 .. MaxVecs |-> [page |-> i - 1, offset |-> 0, length |-> PageSize]]

\* a - b in 32 bits without sign: past zero it is larger than any length.
Wrapped == 1000000
Sub32(a, b) == IF b <= a THEN a - b ELSE Wrapped

\* One round of the loop of kfio_sgl_copy_data: it copies up to what is left of
\* either entry.  Offsets into an entry count from the start of its page and are
\* compared with its length; a copy that runs off the end of a list reads what is
\* not an entry (Wild).
Wild == <<-1, -1>>
CopyRound(at) ==
  IF at.left = 0 THEN at
  ELSE IF at.d > Len(CopyTarget) \/ at.s > Len(sg_list)
    THEN [at EXCEPT !.left = 0, !.copied = Append(@, Wild)]
  ELSE LET to   == CopyTarget[at.d]
           from == sg_list[at.s]
           n    == Lesser(at.left, Lesser(Sub32(to.length, at.doff), Sub32(from.length, at.soff)))
           dend == at.doff + n = to.length
           send == at.soff + n = from.length
       IN  [d      |-> IF dend THEN at.d + 1 ELSE at.d,
            doff   |-> IF dend THEN 0 ELSE at.doff + n,
            s      |-> IF send THEN at.s + 1 ELSE at.s,
            soff   |-> IF ~send THEN at.soff + n
                       ELSE IF at.s < Len(sg_list) THEN sg_list[at.s + 1].offset ELSE 0,
            left   |-> at.left - n,
            copied |-> at.copied \o [k \in 1 .. n |-> <<to.page * PageSize + at.doff + k - 1,
                                                        from.page * PageSize + at.soff + k - 1>>]]

\* kfio_sgl_copy_data: the <<to, from>> of every byte copied.  A round is the last
\* one or ends an entry, which bounds them.
kfio_sgl_copy_data(length) ==
  LET start == [d |-> 1, doff |-> CopyTarget[1].offset, s |-> 1, soff |-> sg_list[1].offset,
                left |-> length, copied |-> <<>>]
      rounds == Len(CopyTarget) + Len(sg_list) + 1
      at[r \in 0 .. rounds] == IF r = 0 THEN start ELSE CopyRound(at[r - 1])
  IN  at[rounds].copied
-----------------------------------------------------------------------------
Vecs == [page : Pages, offset : 0 .. PageSize - 1, length : 1 .. PageSize]
InPage(vec) == vec.offset + vec.length <= PageSize

ScatterNext ==
  \/ \E n \in 1 .. MaxVecs : kfio_sgl_alloc_nvec(n)
  \/ \E buffer \in 0 .. NumPages * PageSize - 1, size \in 1 .. MaxBytes, user \in BOOLEAN :
       /\ buffer + size <= NumPages * PageSize
       /\ kfio_sgl_map_bytes_gen(buffer, size, user)
  \/ \E vec \in Vecs : kfio_sgl_map_page(vec.page, vec.offset, vec.length)
  \/ \E v1, v2 \in {v \in Vecs : InPage(v)} : kfio_sgl_map_bio(<<v1, v2>>)
  \/ kfio_sgl_reset
  \/ kfio_sgl_destroy
  \/ \E read \in BOOLEAN : kfio_sgl_dma_map(read)
  \/ kfio_sgl_dma_unmap

ScatterSpec == ScatterInit /\ [][ScatterNext]_sgVars
-----------------------------------------------------------------------------
(* Properties *)

ScatterTypeOK ==
  /\ sg_max \in 0 .. MaxVecs
  /\ Len(sg_list) <= sg_max
  /\ \A i \in DOMAIN sg_list :
       /\ sg_list[i].page \in Pages \cup {NoPage}
       /\ sg_list[i].offset \in 0 .. PageSize - 1
       /\ sg_list[i].length \in 1 .. PageSize
       /\ sg_list[i].flags \subseteq {"SGE_USER", "SGE_READ_MAPPED"}
  /\ sg_mapped \in {0, Len(sg_list)}
  /\ DOMAIN sg_pin = Pages

BytesOf(es) ==
  FlattenSeq([i \in DOMAIN es |->
    [k \in 1 .. es[i].length |-> es[i].page * PageSize + es[i].offset + k - 1]])
SegmentBytes(dmap) ==
  FlattenSeq([k \in 1 .. dmap.sge_last - dmap.sge_first + 1 |->
    LET seg == DmaSegment(dmap, dmap.sge_first + k - 1)
    IN  [j \in 1 .. seg.len |-> seg.addr + j - 1]])

MapExact(dmap) ==
  /\ SegmentBytes(dmap) = SubSeq(BytesOf(sg_list), dmap.map_offset + 1,
                                 dmap.map_offset + dmap.map_length)
  /\ dmap.sge_count = dmap.sge_last - dmap.sge_first + 1

\* The segments kfio_dma_map_first and kfio_dma_map_next enumerate for the map of a list,
\* or for any slice of it, are byte for byte the range of the list that was asked for,
\* and the map counts them right (kfio_dma_map_size, kfio_dma_map_nvecs).  The byte
\* pointer of an offset is the byte at that offset.
ScatterSliceExact ==
  (sg_mapped > 0 /\ ~sg_lost) =>
    /\ sg_size = Len(BytesOf(sg_list))
    /\ MapExact(WholeMap)
    /\ \A offset \in 0 .. sg_size - 1 :
         /\ kfio_sgl_get_byte_pointer(offset) = BytesOf(sg_list)[offset + 1]
         /\ \A length \in 1 .. sg_size - offset :
              LET dmap == kfio_sgl_dma_slice(offset, length)
              IN  MapExact(dmap) /\ dmap.map_length = length

\* As long as no error path of kfio_sgl_map_bytes_gen was taken, a user page is held once
\* for each entry of the list it is in, and a user page the device may have written is
\* dirty when nothing holds it any more: kfio_sgl_reset gives back what was taken.
ScatterPagesKept ==
  ~sg_lost =>
    \A p \in Pages :
      /\ sg_pin[p] = Cardinality(UserEntries(p))
      /\ (p \in sg_written /\ sg_pin[p] = 0) => p \in sg_dirty

\* A copy out of a list whose entries start where their pages start moves the first
\* bytes of the list to the first bytes of the destination, in order.
ScatterCopyExact ==
  (sg_list # <<>> /\ ~sg_lost /\ \A i \in DOMAIN sg_list : sg_list[i].offset = 0) =>
    \A length \in 1 .. sg_size :
      kfio_sgl_copy_data(length) =
        [k \in 1 .. length |-> <<BytesOf(CopyTarget)[k], BytesOf(sg_list)[k]>>]

\* The list is byte for byte what its users mapped, in order, though buffers are cut
\* at pages and adjacent segments merged; neither DMA nor a copy then touches a byte
\* outside the range it was asked for (the two parts above).
ScatterExact ==
  /\ ~sg_lost => BytesOf(sg_list) = sg_asked
  /\ ScatterSliceExact
  /\ ScatterCopyExact
=============================================================================
