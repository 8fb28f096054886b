---------------------------- MODULE DeviceProofs ----------------------------
(***************************************************************************)
(* Proofs about what the driver hands to the hardware: the scatter lists   *)
(* and their DMA maps, for any memory and list size, and the queues that   *)
(* serve the processors, for any machine.                                  *)
(***************************************************************************)
EXTENDS ScatterList, CpuMap, SequenceLemmas, FiniteSetTheorems, TLAPS

-----------------------------------------------------------------------------
(* Scatter lists *)

(* Multiples of the page size are in the order of their factors. *)
LEMMA PageOrder ==
    ASSUME NEW a \in Int, NEW b \in Int
    PROVE  /\ a * PageSize \in Int /\ (a + 1) * PageSize = a * PageSize + PageSize
           /\ a <= b => a * PageSize <= b * PageSize
           /\ a * PageSize < b * PageSize => a < b
  <1>1. PageSize \in Nat /\ PageSize > 0
    BY PageSizeType
  <1>2. ASSUME a <= b PROVE a * PageSize <= b * PageSize
    <2>1. b * PageSize = a * PageSize + (b - a) * PageSize
      BY <1>1
    <2>2. (b - a) * PageSize >= 0
      BY <1>1, <1>2
    <2> QED
      BY <1>1, <2>1, <2>2
  <1>3. ASSUME b <= a PROVE b * PageSize <= a * PageSize
    <2>1. a * PageSize = b * PageSize + (a - b) * PageSize
      BY <1>1
    <2>2. (a - b) * PageSize >= 0
      BY <1>1, <1>3
    <2> QED
      BY <1>1, <2>1, <2>2
  <1> QED
    BY <1>1, <1>2, <1>3

(* The page of a byte. *)
LEMMA PageOf ==
    ASSUME NEW a \in Nat
    PROVE  /\ a \div PageSize \in Nat
           /\ (a \div PageSize) * PageSize <= a /\ a < (a \div PageSize) * PageSize + PageSize
  BY PageSizeType

SgFlags == {"SGE_USER", "SGE_READ_MAPPED"}
SgEntry == [page : Pages \cup {NoPage}, offset : 0 .. PageSize - 1, length : 1 .. PageSize, flags : SUBSET SgFlags]

(* The cuts of a buffer lie in memory, each within its page. *)
LEMMA CutsInPages ==
    ASSUME NEW buffer \in Nat, NEW size \in Nat \ {0}, buffer + size <= NumPages * PageSize
    PROVE  PageCuts(buffer, size) \in Seq(Vecs)
  <1> DEFINE q0 == buffer \div PageSize
             q1 == (buffer + size - 1) \div PageSize
             n  == q1 - q0 + 1
             at(i) == LET page == q0 + i - 1
                          from == Greater(buffer, page * PageSize)
                          to   == Lesser(buffer + size, (page + 1) * PageSize)
                      IN  [page |-> page, offset |-> from - page * PageSize, length |-> to - from]
  <1>1. PageSize \in Nat /\ PageSize > 0 /\ NumPages \in Nat /\ buffer + size - 1 \in Nat
    BY PageSizeType, ScatterBounds
  <1>2. /\ q0 \in Nat /\ q0 * PageSize <= buffer /\ buffer < q0 * PageSize + PageSize
        /\ q1 \in Nat /\ q1 * PageSize <= buffer + size - 1 /\ buffer + size - 1 < q1 * PageSize + PageSize
    BY <1>1, PageOf
  <1>3. PageCuts(buffer, size) = [i \in 1 .. n |-> at(i)]
    BY DEF PageCuts
  <1> HIDE DEF q0, q1
  <1>4. n \in Nat
    <2>1. q0 * PageSize < (q1 + 1) * PageSize
      <3>1. (q1 + 1) * PageSize = q1 * PageSize + PageSize /\ q1 * PageSize \in Int /\ q0 * PageSize \in Int
        BY <1>2, PageOrder
      <3> QED
        BY <1>1, <1>2, <3>1
    <2>2. q0 < q1 + 1
      BY <1>2, <2>1, PageOrder
    <2> QED
      BY <1>2, <2>2
  <1>5. ASSUME NEW i \in 1 .. n PROVE at(i) \in Vecs
    <2> DEFINE page == q0 + i - 1
               x == page * PageSize
    <2>1. page \in Nat /\ q0 <= page /\ page <= q1
      BY <1>2, <1>4
    <2> HIDE DEF page
    <2>2. x \in Int /\ (page + 1) * PageSize = x + PageSize
      BY <2>1, PageOrder
    <2>3. q0 * PageSize <= x /\ q0 * PageSize \in Int
      BY <1>2, <2>1, PageOrder
    <2>4. x <= q1 * PageSize /\ q1 * PageSize \in Int
      BY <1>2, <2>1, PageOrder
    <2>5. x < NumPages * PageSize /\ NumPages * PageSize \in Int
      <3>1. NumPages * PageSize \in Int
        BY <1>1
      <3> QED
        BY <1>1, <1>2, <2>2, <2>4, <3>1
    <2>6. page \in Pages
      <3>1. page < NumPages
        BY <1>1, <2>1, <2>5, PageOrder
      <3> QED
        BY <1>1, <2>1, <3>1 DEF Pages
    <2> DEFINE from == Greater(buffer, x)
               to == Lesser(buffer + size, x + PageSize)
    <2>7. at(i) = [page |-> page, offset |-> from - x, length |-> to - from]
      BY <2>2 DEF page
    <2> HIDE DEF x
    <2>8. buffer < x + PageSize /\ x < buffer + size
      BY <1>1, <1>2, <2>2, <2>3, <2>4
    <2>9. from - x \in 0 .. PageSize - 1 /\ to - from \in 1 .. PageSize
      BY <1>1, <2>2, <2>8 DEF Greater, Lesser
    <2> HIDE DEF from, to, at
    <2> QED
      BY <2>6, <2>7, <2>9 DEF Vecs
  <1> HIDE DEF n, at
  <1>6. [i \in 1 .. n |-> at(i)] \in Seq(Vecs)
    BY <1>4, <1>5
  <1> QED
    BY <1>3, <1>6

(* The entries of s that pin page p. *)
Pins(s, p) == {i \in 1 .. Len(s) : "SGE_USER" \in s[i].flags /\ s[i].page = p}

(* They are finitely many. *)
LEMMA PinsFinite ==
    ASSUME NEW s \in Seq(SgEntry), NEW p
    PROVE  /\ IsFiniteSet(Pins(s, p)) /\ Cardinality(Pins(s, p)) \in Nat
           /\ Cardinality(Pins(s, p)) = 0 <=> Pins(s, p) = {}
  <1>1. IsFiniteSet(1 .. Len(s)) /\ Pins(s, p) \subseteq 1 .. Len(s)
    BY FS_Interval DEF Pins
  <1>2. IsFiniteSet(Pins(s, p))
    BY <1>1, FS_Subset
  <1> QED
    BY <1>2, FS_CardinalityType, FS_EmptySet

(* Entries added at the end pin what they pin. *)
LEMMA PinsConcat ==
    ASSUME NEW s \in Seq(SgEntry), NEW t \in Seq(SgEntry), NEW p
    PROVE  Cardinality(Pins(s \o t, p)) = Cardinality(Pins(s, p)) + Cardinality(Pins(t, p))
  <1> DEFINE A == Pins(s, p)
             B == Pins(t, p)
             C == {i \in Pins(s \o t, p) : i > Len(s)}
             f == [i \in B |-> Len(s) + i]
  <1>1. /\ Len(s) \in Nat /\ Len(t) \in Nat /\ Len(s \o t) = Len(s) + Len(t) /\ s \o t \in Seq(SgEntry)
        /\ \A i \in 1 .. Len(s) + Len(t) : (s \o t)[i] = IF i <= Len(s) THEN s[i] ELSE t[i - Len(s)]
    BY ConcatProperties
  <1>2. Pins(s \o t, p) = A \cup C /\ A \cap C = {}
    BY <1>1 DEF Pins
  <1>3. f \in Bijection(B, C)
    <2>1. \A i \in B : i \in 1 .. Len(t) /\ f[i] = Len(s) + i /\ f[i] \in C
      BY <1>1 DEF Pins
    <2>2. \A j \in C : j - Len(s) \in B /\ j = Len(s) + (j - Len(s)) /\ j \in Int
      BY <1>1 DEF Pins
    <2>3. f \in [B -> C]
      BY <2>1
    <2>4. \A i, j \in B : f[i] = f[j] => i = j
      BY <1>1, <2>1
    <2>5. \A j \in C : \E i \in B : f[i] = j
      BY <2>1, <2>2
    <2> QED
      BY <2>3, <2>4, <2>5 DEF Bijection, Injection, Surjection, IsInjective
  <1>4. IsFiniteSet(A) /\ IsFiniteSet(B)
    BY PinsFinite
  <1> HIDE DEF A, B, C, f
  <1>5. ExistsBijection(B, C)
    BY <1>3 DEF ExistsBijection
  <1>6. IsFiniteSet(C) /\ Cardinality(C) = Cardinality(B)
    BY <1>4, <1>5, FS_Bijection
  <1>7. Cardinality(A \cup C) = Cardinality(A) + Cardinality(C) - Cardinality({})
    BY <1>2, <1>4, <1>6, FS_Union
  <1>8. Cardinality({}) = 0 /\ Cardinality(A) \in Nat /\ Cardinality(C) \in Nat
    BY <1>4, <1>6, FS_EmptySet, FS_CardinalityType
  <1>9. Cardinality(A \cup C) = Cardinality(A) + Cardinality(B)
    BY <1>6, <1>7, <1>8
  <1> QED
    BY <1>2, <1>9 DEF A, B
(* The list fits and is mapped as a whole, or not at all. *)
SgTypes ==
    /\ sg_max \in 0 .. MaxVecs /\ sg_list \in Seq(SgEntry) /\ Len(sg_list) <= sg_max
    /\ sg_mapped \in {0, Len(sg_list)} /\ sg_pin \in [Pages -> Int]

(* Unless an error path was taken: a page is pinned once for each user     *)
(* entry, and a page the device was let write is dirty or will be when its *)
(* entry is unmapped.                                                      *)
PinsExact ==
    \A p \in Pages :
      /\ sg_pin[p] = Cardinality(Pins(sg_list, p))
      /\ p \in sg_written =>
           p \in sg_dirty \/ \E i \in Pins(sg_list, p) : "SGE_READ_MAPPED" \in sg_list[i].flags

SgInv == SgTypes /\ (~sg_lost => PinsExact)

(* The invariant says what ScatterPagesKept says. *)
LEMMA SgInvSuffices == SgInv => ScatterTypeOK /\ ScatterPagesKept
  <1> SUFFICES ASSUME SgInv PROVE ScatterTypeOK /\ ScatterPagesKept
    OBVIOUS
  <1>1. sg_list \in Seq(SgEntry) /\ DOMAIN sg_list = 1 .. Len(sg_list)
    BY DEF SgInv, SgTypes
  <1>2. \A i \in 1 .. Len(sg_list) : sg_list[i] \in SgEntry
    BY <1>1, ElementOfSeq
  <1>3. ScatterTypeOK
    BY <1>1, <1>2 DEF SgInv, SgTypes, ScatterTypeOK, SgEntry, SgFlags
  <1>4. \A p : UserEntries(p) = Pins(sg_list, p)
    BY <1>1 DEF UserEntries, Pins
  <1>5. ASSUME ~sg_lost, NEW p \in Pages
        PROVE  /\ sg_pin[p] = Cardinality(UserEntries(p))
               /\ (p \in sg_written /\ sg_pin[p] = 0) => p \in sg_dirty
    <2>1. /\ sg_pin[p] = Cardinality(Pins(sg_list, p))
          /\ p \in sg_written =>
               p \in sg_dirty \/ \E i \in Pins(sg_list, p) : "SGE_READ_MAPPED" \in sg_list[i].flags
      BY <1>5 DEF SgInv, PinsExact
    <2>2. sg_pin[p] = 0 => Pins(sg_list, p) = {}
      BY <1>1, <2>1, PinsFinite
    <2> QED
      BY <1>4, <2>1, <2>2
  <1> QED
    BY <1>3, <1>5 DEF ScatterPagesKept

(* No list, no pages. *)
LEMMA SgInitInv == ScatterInit => SgInv
  <1> SUFFICES ASSUME ScatterInit PROVE SgInv
    OBVIOUS
  <1>1. sg_list = << >> /\ << >> \in Seq(SgEntry) /\ Len(<< >>) = 0
    BY DEF ScatterInit
  <1>2. SgTypes
    BY <1>1, ScatterBounds DEF ScatterInit, SgTypes
  <1>3. \A p : Pins(<< >>, p) = {}
    BY DEF Pins
  <1>4. PinsExact
    BY <1>1, <1>3, FS_EmptySet DEF ScatterInit, PinsExact
  <1> QED
    BY <1>2, <1>4 DEF SgInv

(* New entries that pin what they say, at the end of a list that is not    *)
(* mapped; their flags do not say that the device may write.               *)
LEMMA EntriesAdded ==
    ASSUME SgInv, sg_mapped = 0, NEW t \in Seq(SgEntry), sg_list' = sg_list \o t, SinceEmpty,
           Len(sg_list) + Len(t) <= sg_max, UNCHANGED <<sg_max, sg_mapped>>,
           sg_pin' \in [Pages -> Int],
           ~sg_lost' => /\ ~sg_lost
                        /\ \A p \in Pages : sg_pin'[p] = sg_pin[p] + Cardinality(Pins(t, p))
    PROVE  SgInv'
  <1>1. SgTypes
    BY DEF SgInv
  <1>2. /\ sg_list' \in Seq(SgEntry) /\ Len(sg_list') = Len(sg_list) + Len(t)
        /\ Len(sg_list) \in Nat /\ Len(t) \in Nat
        /\ \A i \in 1 .. Len(sg_list) : sg_list'[i] = sg_list[i]
    <2>1. sg_list \in Seq(SgEntry)
      BY <1>1 DEF SgTypes
    <2>2. /\ sg_list \o t \in Seq(SgEntry) /\ Len(sg_list \o t) = Len(sg_list) + Len(t)
          /\ \A i \in 1 .. Len(sg_list) + Len(t) : (sg_list \o t)[i] =
                     IF i <= Len(sg_list) THEN sg_list[i] ELSE t[i - Len(sg_list)]
      BY <2>1, ConcatProperties
    <2>3. Len(sg_list) \in Nat /\ Len(t) \in Nat
      BY <2>1
    <2> QED
      BY <2>2, <2>3
  <1>3. SgTypes'
    BY <1>1, <1>2 DEF SgTypes
  <1>4. ASSUME ~sg_lost', NEW p \in Pages
        PROVE  /\ sg_pin'[p] = Cardinality(Pins(sg_list', p))
               /\ p \in sg_written' =>
                    p \in sg_dirty' \/ \E i \in Pins(sg_list', p) : "SGE_READ_MAPPED" \in sg_list'[i].flags
    <2>1. ~sg_lost /\ sg_pin'[p] = sg_pin[p] + Cardinality(Pins(t, p))
      BY <1>4
    <2>2. /\ sg_pin[p] = Cardinality(Pins(sg_list, p))
          /\ p \in sg_written =>
               p \in sg_dirty \/ \E i \in Pins(sg_list, p) : "SGE_READ_MAPPED" \in sg_list[i].flags
      BY <2>1 DEF SgInv, PinsExact
    <2>3. sg_pin'[p] = Cardinality(Pins(sg_list', p))
      <3>1. Cardinality(Pins(sg_list \o t, p)) = Cardinality(Pins(sg_list, p)) + Cardinality(Pins(t, p))
        BY <1>1, PinsConcat DEF SgTypes
      <3> QED
        BY <2>1, <2>2, <3>1
    <2>4. Pins(sg_list, p) \subseteq Pins(sg_list', p)
      BY <1>2 DEF Pins
    <2>5. p \in sg_written' => p \in sg_written /\ sg_dirty' = sg_dirty
      BY DEF SinceEmpty
    <2>6. \A i \in Pins(sg_list, p) : sg_list'[i] = sg_list[i]
      BY <1>2 DEF Pins
    <2> QED
      BY <2>2, <2>3, <2>4, <2>5, <2>6
  <1> QED
    BY <1>3, <1>4 DEF SgInv, PinsExact

(* Steps that leave the pins of the list alone and take no flag from it. *)
LEMMA PinsKept ==
    ASSUME SgInv, SgTypes', sg_pin' = sg_pin, sg_lost' = sg_lost,
           \A p \in Pages : /\ Pins(sg_list', p) = Pins(sg_list, p)
                            /\ \A i \in Pins(sg_list, p) : sg_list[i].flags \subseteq sg_list'[i].flags
                            /\ p \in sg_written' =>
                                 \/ p \in sg_written /\ sg_dirty' = sg_dirty
                                 \/ \E i \in Pins(sg_list, p) : "SGE_READ_MAPPED" \in sg_list'[i].flags
    PROVE  SgInv'
  <1>1. ASSUME ~sg_lost', NEW p \in Pages
        PROVE  /\ sg_pin'[p] = Cardinality(Pins(sg_list', p))
               /\ p \in sg_written' =>
                    p \in sg_dirty' \/ \E i \in Pins(sg_list', p) : "SGE_READ_MAPPED" \in sg_list'[i].flags
    <2>1. /\ sg_pin[p] = Cardinality(Pins(sg_list, p))
          /\ p \in sg_written =>
               p \in sg_dirty \/ \E i \in Pins(sg_list, p) : "SGE_READ_MAPPED" \in sg_list[i].flags
      BY <1>1 DEF SgInv, PinsExact
    <2>2. /\ Pins(sg_list', p) = Pins(sg_list, p)
          /\ \A i \in Pins(sg_list, p) : sg_list[i].flags \subseteq sg_list'[i].flags
          /\ p \in sg_written' =>
               \/ p \in sg_written /\ sg_dirty' = sg_dirty
               \/ \E i \in Pins(sg_list, p) : "SGE_READ_MAPPED" \in sg_list'[i].flags
      OBVIOUS
    <2> QED
      BY <2>1, <2>2
  <1> QED
    BY <1>1 DEF SgInv, PinsExact

(* The entries made of the first cuts of a buffer, and the cuts on a page. *)
CutEntries(cuts, n, flags) == [i \in 1 .. n |-> Entry(cuts[i], flags)]
CutsOn(cuts, n, p) == {i \in 1 .. n : cuts[i].page = p}

(* User entries pin what get_user_pages pins for them. *)
LEMMA NewEntries ==
    ASSUME NEW cuts \in Seq(Vecs), NEW n \in 0 .. Len(cuts), NEW flags \in SUBSET SgFlags
    PROVE  /\ CutEntries(cuts, n, flags) \in Seq(SgEntry) /\ Len(CutEntries(cuts, n, flags)) = n
           /\ \A p : /\ Cardinality(CutsOn(cuts, n, p)) \in Nat
                     /\ "SGE_USER" \in flags =>
                          Cardinality(Pins(CutEntries(cuts, n, flags), p)) = Cardinality(CutsOn(cuts, n, p))
                     /\ "SGE_USER" \notin flags => Cardinality(Pins(CutEntries(cuts, n, flags), p)) = 0
  <1> DEFINE new == CutEntries(cuts, n, flags)
  <1>1. n \in Nat /\ n <= Len(cuts)
    OBVIOUS
  <1>2. ASSUME NEW i \in 1 .. n
        PROVE  /\ Entry(cuts[i], flags) \in SgEntry /\ Entry(cuts[i], flags).flags = flags
               /\ Entry(cuts[i], flags).page = cuts[i].page
    <2>1. cuts[i] \in Vecs
      BY <1>1, ElementOfSeq
    <2> QED
      BY <2>1 DEF Entry, Vecs, SgEntry
  <1>3. new \in Seq(SgEntry) /\ Len(new) = n
    BY <1>1, <1>2 DEF CutEntries
  <1>4. \A i \in 1 .. n : new[i] = Entry(cuts[i], flags)
    BY DEF CutEntries
  <1> HIDE DEF new
  <1>5. ASSUME NEW p
        PROVE  /\ Cardinality(CutsOn(cuts, n, p)) \in Nat
               /\ "SGE_USER" \in flags => Cardinality(Pins(new, p)) = Cardinality(CutsOn(cuts, n, p))
               /\ "SGE_USER" \notin flags => Cardinality(Pins(new, p)) = 0
    <2>1. IsFiniteSet(1 .. n) /\ CutsOn(cuts, n, p) \subseteq 1 .. n
      BY <1>1, FS_Interval DEF CutsOn
    <2>2. Cardinality(CutsOn(cuts, n, p)) \in Nat
      BY <2>1, FS_Subset, FS_CardinalityType
    <2>3. /\ "SGE_USER" \in flags => Pins(new, p) = CutsOn(cuts, n, p)
          /\ "SGE_USER" \notin flags => Pins(new, p) = {}
      BY <1>2, <1>3, <1>4 DEF Pins, CutsOn
    <2> QED
      BY <2>2, <2>3, FS_EmptySet
  <1> QED
    BY <1>3, <1>5 DEF new

(* Writing a buffer into the list, in each of the three ways it can go. *)
LEMMA MapBytesStep ==
    ASSUME SgInv, NEW buffer \in Nat, NEW size \in Nat \ {0}, buffer + size <= NumPages * PageSize,
           NEW user \in BOOLEAN, kfio_sgl_map_bytes_gen(buffer, size, user)
    PROVE  SgInv'
  <1> DEFINE cuts  == PageCuts(buffer, size)
             room  == sg_max - Len(sg_list)
             flags == IF user THEN {"SGE_USER"} ELSE {}
             new(n) == CutEntries(cuts, n, flags)
  <1>1. cuts \in Seq(Vecs)
    BY CutsInPages
  <1>2. /\ Mappable /\ SinceEmpty /\ UNCHANGED <<sg_max, sg_mapped>>
        /\ \/ /\ Len(cuts) <= room
              /\ sg_list' = sg_list \o new(Len(cuts))
              /\ sg_pin' = IF user THEN Pinned(sg_pin, cuts, Len(cuts)) ELSE sg_pin
              /\ UNCHANGED sg_lost
           \/ /\ Len(cuts) > room
              /\ sg_list' = [sg_list \o new(room) EXCEPT ![1].page = NoPage]
              /\ sg_pin' = IF user THEN Pinned(sg_pin, cuts, room) ELSE sg_pin
              /\ sg_lost' = TRUE
           \/ /\ \E n \in 0 .. Lesser(Len(cuts), room) - 1 :
                   /\ sg_list' = sg_list \o new(n)
                   /\ sg_lost' = (n > 0)
              /\ UNCHANGED sg_pin
    BY DEF kfio_sgl_map_bytes_gen, Append_cuts, CutEntries
  <1>3. flags \in SUBSET SgFlags /\ ("SGE_USER" \in flags <=> user)
    BY DEF SgFlags
  <1> HIDE DEF cuts, flags
  <1>4. /\ SgTypes /\ sg_list \in Seq(SgEntry) /\ Len(sg_list) \in Nat /\ Len(cuts) \in Nat
        /\ room \in Nat /\ sg_pin \in [Pages -> Int] /\ sg_mapped = 0 /\ ~sg_lost /\ sg_max \in Nat /\ sg_max > 0
    BY <1>1, <1>2 DEF SgInv, SgTypes, Mappable
  <1>5. ASSUME NEW n \in 0 .. Len(cuts)
        PROVE  /\ new(n) \in Seq(SgEntry) /\ Len(new(n)) = n
               /\ \A p : /\ Cardinality(CutsOn(cuts, n, p)) \in Nat
                         /\ user => Cardinality(Pins(new(n), p)) = Cardinality(CutsOn(cuts, n, p))
                         /\ ~user => Cardinality(Pins(new(n), p)) = 0
    BY <1>1, <1>3, NewEntries
  <1> HIDE DEF new
  <1>6. ASSUME NEW n \in 0 .. Len(cuts)
        PROVE  /\ Pinned(sg_pin, cuts, n) \in [Pages -> Int]
               /\ \A p \in Pages : Pinned(sg_pin, cuts, n)[p] = sg_pin[p] + Cardinality(CutsOn(cuts, n, p))
    <2>1. Pinned(sg_pin, cuts, n) = [p \in Pages |-> sg_pin[p] + Cardinality(CutsOn(cuts, n, p))]
      BY DEF Pinned, CutsOn
    <2>2. \A p \in Pages : Cardinality(CutsOn(cuts, n, p)) \in Nat /\ sg_pin[p] \in Int
      BY <1>4, <1>5
    <2> QED
      BY <2>1, <2>2
  <1> HIDE DEF room
  <1>7. CASE /\ Len(cuts) <= room
             /\ sg_list' = sg_list \o new(Len(cuts))
             /\ sg_pin' = IF user THEN Pinned(sg_pin, cuts, Len(cuts)) ELSE sg_pin
             /\ UNCHANGED sg_lost
    <2>1. Len(cuts) \in 0 .. Len(cuts)
      BY <1>4
    <2>2. new(Len(cuts)) \in Seq(SgEntry) /\ Len(new(Len(cuts))) = Len(cuts)
      BY <1>5, <2>1
    <2>3. ASSUME NEW p \in Pages PROVE sg_pin'[p] = sg_pin[p] + Cardinality(Pins(new(Len(cuts)), p))
      <3>1. sg_pin[p] \in Int
        BY <1>4
      <3>2. CASE user
        BY <1>5, <1>6, <1>7, <2>1, <3>2
      <3>3. CASE ~user
        BY <1>5, <1>7, <2>1, <3>1, <3>3
      <3> QED
        BY <3>2, <3>3
    <2>4. sg_pin' \in [Pages -> Int]
      BY <1>4, <1>6, <1>7, <2>1
    <2>5. Len(sg_list) + Len(new(Len(cuts))) <= sg_max
      BY <1>4, <1>7, <2>2 DEF room
    <2> QED
      BY <1>2, <1>4, <1>7, <2>2, <2>3, <2>4, <2>5, EntriesAdded
  <1>8. CASE /\ Len(cuts) > room
             /\ sg_list' = [sg_list \o new(room) EXCEPT ![1].page = NoPage]
             /\ sg_pin' = IF user THEN Pinned(sg_pin, cuts, room) ELSE sg_pin
             /\ sg_lost' = TRUE
    <2> DEFINE all == sg_list \o new(room)
    <2>1. room \in 0 .. Len(cuts)
      BY <1>4, <1>8
    <2>2. new(room) \in Seq(SgEntry) /\ Len(new(room)) = room
      BY <1>5, <2>1
    <2>3. all \in Seq(SgEntry) /\ Len(all) = sg_max
      <3>1. all \in Seq(SgEntry) /\ Len(all) = Len(sg_list) + room
        BY <1>4, <2>2, ConcatProperties
      <3> QED
        BY <1>4, <3>1 DEF room
    <2> HIDE DEF all
    <2>4. all[1] \in SgEntry
      BY <1>4, <2>3, ElementOfSeq
    <2>5. [all[1] EXCEPT !.page = NoPage] \in SgEntry
      BY <2>4 DEF SgEntry
    <2>6. sg_list' = [all EXCEPT ![1] = [all[1] EXCEPT !.page = NoPage]]
      BY <1>8 DEF all
    <2>7. sg_list' \in Seq(SgEntry) /\ Len(sg_list') = sg_max
      BY <1>4, <2>3, <2>5, <2>6, ExceptSeq
    <2>8. sg_pin' \in [Pages -> Int]
      BY <1>4, <1>6, <1>8, <2>1
    <2>9. SgTypes'
      BY <1>2, <1>4, <2>7, <2>8 DEF SgTypes
    <2> QED
      BY <1>8, <2>9 DEF SgInv
  <1>9. ASSUME NEW n \in 0 .. Lesser(Len(cuts), room) - 1,
               sg_list' = sg_list \o new(n), sg_lost' = (n > 0), sg_pin' = sg_pin
        PROVE  SgInv'
    <2>1. n \in 0 .. Len(cuts) /\ n <= room /\ n \in Nat
      BY <1>4 DEF Lesser
    <2>2. new(n) \in Seq(SgEntry) /\ Len(new(n)) = n
      BY <1>5, <2>1
    <2>3. ASSUME ~sg_lost', NEW p \in Pages PROVE sg_pin'[p] = sg_pin[p] + Cardinality(Pins(new(n), p))
      <3>0. ~(n > 0)
        BY ONLY <1>9, <2>3, Zenon
      <3>1. n = 0
        BY <2>1, <3>0
      <3>2. Pins(new(n), p) = {}
        BY <2>2, <3>1 DEF Pins
      <3> QED
        BY <1>4, <1>9, <3>2, FS_EmptySet
    <2>4. Len(sg_list) + Len(new(n)) <= sg_max
      BY <1>4, <2>1, <2>2 DEF room
    <2> QED
      BY <1>2, <1>4, <1>9, <2>2, <2>3, <2>4, EntriesAdded
  <1> QED
    BY <1>2, <1>7, <1>8, <1>9

(* A page of the kernel, which no entry pins. *)
LEMMA MapPageStep ==
    ASSUME SgInv, NEW vec \in Vecs, kfio_sgl_map_page(vec.page, vec.offset, vec.length)
    PROVE  SgInv'
  <1> DEFINE cuts == <<[page |-> vec.page, offset |-> vec.offset, length |-> vec.length]>>
             new  == CutEntries(cuts, 1, {})
  <1>1. /\ Mappable /\ SinceEmpty /\ UNCHANGED <<sg_max, sg_mapped, sg_pin, sg_lost>>
        /\ Len(sg_list) < sg_max /\ sg_list' = sg_list \o new
    BY DEF kfio_sgl_map_page, Append_cuts, CutEntries
  <1>2. cuts \in Seq(Vecs) /\ 1 \in 0 .. Len(cuts)
    BY DEF Vecs
  <1>3. /\ new \in Seq(SgEntry) /\ Len(new) = 1
        /\ \A p : Cardinality(Pins(new, p)) = 0
    BY <1>2, NewEntries
  <1> HIDE DEF cuts, new
  <1>4. /\ sg_max \in Nat /\ Len(sg_list) \in Nat /\ sg_pin \in [Pages -> Int] /\ sg_mapped = 0 /\ ~sg_lost
    BY <1>1 DEF SgInv, SgTypes, Mappable
  <1>5. Len(sg_list) + Len(new) <= sg_max
    BY <1>1, <1>3, <1>4
  <1>6. \A p \in Pages : sg_pin'[p] = sg_pin[p] + Cardinality(Pins(new, p))
    BY <1>1, <1>3, <1>4
  <1> QED
    BY <1>1, <1>3, <1>4, <1>5, <1>6, EntriesAdded

(* A segment of a bio lengthens the last entry within its page, whatever that *)
(* entry pins, or is an entry that pins nothing.                              *)
LEMMA MergeKeepsPins ==
    ASSUME NEW es \in Seq(SgEntry), NEW vec \in Vecs, InPage(vec)
    PROVE  /\ MergeVec(es, vec) \in Seq(SgEntry)
           /\ Len(es) <= Len(MergeVec(es, vec)) /\ Len(MergeVec(es, vec)) <= Len(es) + 1
           /\ \A i \in 1 .. Len(es) : MergeVec(es, vec)[i].flags = es[i].flags
           /\ \A p : Pins(MergeVec(es, vec), p) = Pins(es, p)
  <1> DEFINE n   == Len(es)
             out == MergeVec(es, vec)
             merged == /\ es # << >> /\ Last(es).page = vec.page
                       /\ Last(es).offset + Last(es).length = vec.offset
  <1>1. n \in Nat /\ \A i \in 1 .. n : es[i] \in SgEntry
    BY ElementOfSeq
  <1>2. CASE merged
    <2> DEFINE long == [es[n] EXCEPT !.length = @ + vec.length]
    <2>1. n \in 1 .. n /\ es[n] \in SgEntry /\ Last(es) = es[n]
      BY <1>1, <1>2, EmptySeq DEF Last
    <2>2. es[n].offset + es[n].length = vec.offset
      BY <1>2, <2>1
    <2>3. es[n].length + vec.length \in 1 .. PageSize
      <3> DEFINE at  == es[n].offset
                 len == es[n].length
                 add == vec.length
      <3>1. /\ at \in Nat /\ len \in Nat /\ add \in Nat \ {0}
            /\ PageSize \in Nat /\ vec.offset + add <= PageSize
        BY <2>1, PageSizeType DEF SgEntry, Vecs, InPage
      <3>2. at + len + add <= PageSize
        BY <2>2, <3>1
      <3> HIDE DEF at, len, add
      <3>3. len + add \in 1 .. PageSize
        BY <3>1, <3>2
      <3> QED
        BY <3>3 DEF len, add
    <2>4. long \in SgEntry /\ long.flags = es[n].flags /\ long.page = es[n].page
      BY <2>1, <2>3 DEF SgEntry
    <2>5. out = [es EXCEPT ![n] = long]
      BY <1>2 DEF MergeVec
    <2> HIDE DEF long, out, merged
    <2>6. out \in Seq(SgEntry) /\ Len(out) = n
      BY <2>1, <2>4, <2>5, ExceptSeq
    <2>7. \A i \in 1 .. n : out[i] = IF i = n THEN long ELSE es[i]
      BY <1>1, <2>5
    <2>8. \A i \in 1 .. n : out[i].flags = es[i].flags /\ out[i].page = es[i].page
      BY <2>4, <2>7
    <2>9. \A p : Pins(out, p) = Pins(es, p)
      BY <2>6, <2>8 DEF Pins
    <2> QED
      BY <1>1, <2>6, <2>8, <2>9 DEF out
  <1>3. CASE ~merged
    <2> DEFINE e == Entry(vec, {})
    <2>1. e \in SgEntry /\ e.flags = {}
      BY DEF Entry, Vecs, SgEntry
    <2>2. out = Append(es, e)
      BY <1>3 DEF MergeVec
    <2> HIDE DEF e, out, merged
    <2>3. /\ out \in Seq(SgEntry) /\ Len(out) = n + 1 /\ out[n + 1] = e
          /\ \A i \in 1 .. n : out[i] = es[i]
      BY <2>1, <2>2, AppendProperties
    <2>4. \A p : Pins(out, p) = Pins(es, p)
      BY <1>1, <2>1, <2>3 DEF Pins
    <2> QED
      BY <1>1, <2>3, <2>4 DEF out
  <1> QED
    BY <1>2, <1>3

(* The segments of a bio, one after the other. *)
LEMMA MapBioStep ==
    ASSUME SgInv, NEW v1 \in Vecs, NEW v2 \in Vecs, InPage(v1), InPage(v2), kfio_sgl_map_bio(<<v1, v2>>)
    PROVE  SgInv'
  <1> DEFINE e1 == MergeVec(sg_list, v1)
             e2 == MergeVec(e1, v2)
  <1>1. /\ Mappable /\ SinceEmpty /\ UNCHANGED <<sg_max, sg_mapped, sg_pin, sg_lost>>
        /\ Len(sg_list) + 2 <= sg_max /\ sg_list' = WithSegments(<<v1, v2>>)
    BY DEF kfio_sgl_map_bio
  <1>2. WithSegments(<<v1, v2>>) = e2
    <2> DEFINE segs == <<v1, v2>>
               D(f) == [i \in 0 .. Len(segs) |-> IF i = 0 THEN sg_list ELSE MergeVec(f[i - 1], segs[i])]
               es   == CHOOSE f : f = D(f)
               g    == [i \in 0 .. 2 |-> IF i = 0 THEN sg_list ELSE IF i = 1 THEN e1 ELSE e2]
    <2>1. WithSegments(segs) = es[Len(segs)]
      BY DEF WithSegments
    <2>2. Len(segs) = 2 /\ segs[1] = v1 /\ segs[2] = v2
      OBVIOUS
    <2>3. g = D(g)
      <3>1. g[0] = sg_list /\ g[1] = e1 /\ g[2] = e2 /\ DOMAIN g = 0 .. 2
        OBVIOUS
      <3>2. D(g) = [i \in 0 .. 2 |-> IF i = 0 THEN sg_list ELSE MergeVec(g[i - 1], segs[i])]
        BY <2>2
      <3> HIDE DEF e1, e2, segs
      <3>3. \A i \in 0 .. 2 : g[i] = IF i = 0 THEN sg_list ELSE MergeVec(g[i - 1], segs[i])
        <4>1. e1 = MergeVec(sg_list, segs[1]) /\ e2 = MergeVec(e1, segs[2])
          BY <2>2 DEF e1, e2
        <4> QED
          BY <3>1, <4>1
      <3>4. g = [i \in 0 .. 2 |-> g[i]]
        OBVIOUS
      <3> HIDE DEF g, D
      <3>5. [i \in 0 .. 2 |-> g[i]] = [i \in 0 .. 2 |-> IF i = 0 THEN sg_list ELSE MergeVec(g[i - 1], segs[i])]
        BY <3>3
      <3> QED
        BY <3>2, <3>4, <3>5
    <2> HIDE DEF g
    <2>4. es = D(es)
      <3> HIDE DEF D
      <3> QED
        BY <2>3
    <2> HIDE DEF es, segs, e1, e2
    <2>5. es[0] = sg_list /\ es[1] = MergeVec(es[0], segs[1]) /\ es[2] = MergeVec(es[1], segs[2])
      <3>1. \A i \in 0 .. 2 : es[i] = IF i = 0 THEN sg_list ELSE MergeVec(es[i - 1], segs[i])
        BY <2>2, <2>4
      <3> QED
        BY <3>1
    <2>6. es[2] = e2
      BY <2>2, <2>5 DEF e1, e2
    <2> QED
      BY <2>1, <2>2, <2>6 DEF segs
  <1>3. SgTypes /\ sg_list \in Seq(SgEntry) /\ Len(sg_list) \in Nat /\ sg_max \in Nat /\ sg_mapped = 0
    BY <1>1 DEF SgInv, SgTypes, Mappable
  <1>4. /\ e1 \in Seq(SgEntry) /\ Len(sg_list) <= Len(e1) /\ Len(e1) <= Len(sg_list) + 1
        /\ \A i \in 1 .. Len(sg_list) : e1[i].flags = sg_list[i].flags
        /\ \A p : Pins(e1, p) = Pins(sg_list, p)
    BY <1>3, MergeKeepsPins
  <1> HIDE DEF e1
  <1>5. /\ e2 \in Seq(SgEntry) /\ Len(e2) <= Len(e1) + 1
        /\ \A i \in 1 .. Len(e1) : e2[i].flags = e1[i].flags
        /\ \A p : Pins(e2, p) = Pins(e1, p)
    BY <1>4, MergeKeepsPins
  <1> HIDE DEF e2
  <1>6. sg_list' = e2
    BY <1>1, <1>2
  <1>7. Len(e1) \in Nat /\ Len(e2) \in Nat /\ Len(e2) <= sg_max
    BY <1>1, <1>3, <1>4, <1>5
  <1>8. SgTypes'
    BY <1>1, <1>3, <1>5, <1>6, <1>7 DEF SgTypes
  <1>9. ASSUME NEW p \in Pages
        PROVE  /\ Pins(sg_list', p) = Pins(sg_list, p)
               /\ \A i \in Pins(sg_list, p) : sg_list[i].flags \subseteq sg_list'[i].flags
               /\ p \in sg_written' => p \in sg_written /\ sg_dirty' = sg_dirty
    <2>1. Pins(sg_list', p) = Pins(sg_list, p)
      BY <1>4, <1>5, <1>6
    <2>2. \A i \in 1 .. Len(sg_list) : sg_list'[i].flags = sg_list[i].flags
      BY <1>3, <1>4, <1>5, <1>6, <1>7
    <2>3. Pins(sg_list, p) \subseteq 1 .. Len(sg_list)
      BY DEF Pins
    <2>4. p \in sg_written' => p \in sg_written /\ sg_dirty' = sg_dirty
      BY <1>1 DEF SinceEmpty
    <2> QED
      BY <2>1, <2>2, <2>3, <2>4
  <1> QED
    BY <1>1, <1>8, <1>9, PinsKept

(* The list is emptied: what its entries pinned is put, and what was read into *)
(* is dirty.                                                                   *)
LEMMA ResetStep ==
    ASSUME SgInv, kfio_sgl_reset
    PROVE  SgInv'
  <1>1. SgTypes /\ sg_list \in Seq(SgEntry) /\ DOMAIN sg_list = 1 .. Len(sg_list)
    BY DEF SgInv, SgTypes
  <1>2. \A p : UserEntries(p) = Pins(sg_list, p)
    BY <1>1 DEF UserEntries, Pins
  <1>3. /\ sg_list' = << >> /\ UNCHANGED <<sg_max, sg_mapped, sg_written, sg_lost>> /\ sg_mapped = 0
        /\ sg_pin' = [p \in Pages |-> sg_pin[p] - Cardinality(Pins(sg_list, p))]
        /\ sg_dirty' = sg_dirty \cup
             {p \in Pages : \E i \in Pins(sg_list, p) : "SGE_READ_MAPPED" \in sg_list[i].flags}
    BY <1>2 DEF kfio_sgl_reset
  <1>4. \A p \in Pages : Cardinality(Pins(sg_list, p)) \in Nat /\ sg_pin[p] \in Int
    BY <1>1, PinsFinite DEF SgTypes
  <1>5. sg_pin' \in [Pages -> Int] /\ << >> \in Seq(SgEntry) /\ Len(<< >>) = 0
    BY <1>3, <1>4
  <1>6. SgTypes'
    BY <1>1, <1>3, <1>5 DEF SgTypes
  <1>7. ASSUME ~sg_lost', NEW p \in Pages
        PROVE  sg_pin'[p] = Cardinality(Pins(sg_list', p)) /\ (p \in sg_written' => p \in sg_dirty')
    <2>1. /\ sg_pin[p] = Cardinality(Pins(sg_list, p))
          /\ p \in sg_written =>
               p \in sg_dirty \/ \E i \in Pins(sg_list, p) : "SGE_READ_MAPPED" \in sg_list[i].flags
      BY <1>3, <1>7 DEF SgInv, PinsExact
    <2>2. Pins(sg_list', p) = {} /\ Cardinality({}) = 0
      BY <1>3, <1>5, FS_EmptySet DEF Pins
    <2>3. sg_pin'[p] = 0
      BY <1>3, <1>4, <2>1
    <2>4. p \in sg_written' => p \in sg_dirty'
      BY <1>3, <2>1
    <2> QED
      BY <2>2, <2>3, <2>4
  <1> QED
    BY <1>6, <1>7 DEF SgInv, PinsExact

(* Mapping for DMA: the device may write the pages of the user entries, and *)
(* every entry says so.                                                     *)
LEMMA DmaMapStep ==
    ASSUME SgInv, NEW read \in BOOLEAN, kfio_sgl_dma_map(read)
    PROVE  SgInv'
  <1> DEFINE new == [i \in DOMAIN sg_list |->
                       IF read THEN [sg_list[i] EXCEPT !.flags = @ \cup {"SGE_READ_MAPPED"}] ELSE sg_list[i]]
  <1>1. SgTypes /\ sg_list \in Seq(SgEntry) /\ DOMAIN sg_list = 1 .. Len(sg_list) /\ Len(sg_list) \in Nat
    BY DEF SgInv, SgTypes
  <1>2. \A p : UserEntries(p) = Pins(sg_list, p)
    BY <1>1 DEF UserEntries, Pins
  <1>3. /\ sg_list' = new /\ UNCHANGED <<sg_max, sg_pin, sg_dirty, sg_lost>>
        /\ sg_mapped' \in {0, Len(sg_list)}
        /\ \A p \in Pages : p \in sg_written' => p \in sg_written \/ (read /\ Pins(sg_list, p) # {})
    BY <1>2 DEF kfio_sgl_dma_map
  <1>4. ASSUME NEW i \in 1 .. Len(sg_list)
        PROVE  /\ new[i] \in SgEntry /\ new[i].page = sg_list[i].page
               /\ sg_list[i].flags \subseteq new[i].flags
               /\ ("SGE_USER" \in new[i].flags <=> "SGE_USER" \in sg_list[i].flags)
               /\ read => "SGE_READ_MAPPED" \in new[i].flags
    <2>1. sg_list[i] \in SgEntry
      BY <1>1, ElementOfSeq
    <2>2. CASE read
      <3>1. new[i] = [sg_list[i] EXCEPT !.flags = @ \cup {"SGE_READ_MAPPED"}]
        BY <1>1, <2>2
      <3> HIDE DEF new
      <3>2. /\ new[i].page = sg_list[i].page /\ new[i].flags = sg_list[i].flags \cup {"SGE_READ_MAPPED"}
            /\ new[i] \in SgEntry
        BY <2>1, <3>1 DEF SgEntry, SgFlags
      <3> QED
        BY <3>2
    <2>3. CASE ~read
      BY <1>1, <2>1, <2>3
    <2> QED
      BY <2>2, <2>3
  <1>5. new \in Seq(SgEntry) /\ Len(new) = Len(sg_list)
    BY <1>1, <1>4
  <1> HIDE DEF new
  <1>6. SgTypes'
    BY <1>1, <1>3, <1>5 DEF SgTypes
  <1>7. \A p : Pins(new, p) = Pins(sg_list, p) /\ Pins(sg_list, p) \subseteq 1 .. Len(sg_list)
    BY <1>4, <1>5 DEF Pins
  <1>8. ASSUME NEW p \in Pages
        PROVE  /\ Pins(sg_list', p) = Pins(sg_list, p)
               /\ \A i \in Pins(sg_list, p) : sg_list[i].flags \subseteq sg_list'[i].flags
               /\ p \in sg_written' =>
                    \/ p \in sg_written /\ sg_dirty' = sg_dirty
                    \/ \E i \in Pins(sg_list, p) : "SGE_READ_MAPPED" \in sg_list'[i].flags
    BY <1>3, <1>4, <1>7
  <1> QED
    BY <1>3, <1>6, <1>8, PinsKept

(* Every step of a scatter list. *)
LEMMA SgStep ==
    ASSUME SgInv, [ScatterNext]_sgVars
    PROVE  SgInv'
  <1>1. SgTypes /\ sg_list \in Seq(SgEntry) /\ Len(sg_list) \in Nat
    BY DEF SgInv, SgTypes
  <1>2. ASSUME NEW n \in 1 .. MaxVecs, kfio_sgl_alloc_nvec(n) PROVE SgInv'
    <2>1. /\ sg_max = 0 /\ sg_max' = n /\ sg_list' = << >> /\ sg_mapped' = 0
          /\ UNCHANGED <<sg_pin, sg_dirty, sg_written, sg_lost>>
      BY <1>2 DEF kfio_sgl_alloc_nvec
    <2>2. sg_list = << >>
      BY <1>1, <2>1, EmptySeq DEF SgTypes
    <2>3. SgTypes'
      BY <1>1, <1>2, <2>1, <2>2, ScatterBounds DEF SgTypes
    <2> QED
      BY <2>1, <2>2, <2>3, PinsKept
  <1>3. ASSUME NEW buffer \in 0 .. NumPages * PageSize - 1, NEW size \in 1 .. MaxBytes, NEW user \in BOOLEAN,
               buffer + size <= NumPages * PageSize, kfio_sgl_map_bytes_gen(buffer, size, user)
        PROVE  SgInv'
    <2>1. buffer \in Nat /\ size \in Nat \ {0}
      BY PageSizeType, ScatterBounds
    <2> QED
      BY <1>3, <2>1, MapBytesStep
  <1>4. ASSUME NEW vec \in Vecs, kfio_sgl_map_page(vec.page, vec.offset, vec.length) PROVE SgInv'
    BY <1>4, MapPageStep
  <1>5. ASSUME NEW v1 \in {v \in Vecs : InPage(v)}, NEW v2 \in {v \in Vecs : InPage(v)},
               kfio_sgl_map_bio(<<v1, v2>>)
        PROVE  SgInv'
    BY <1>5, MapBioStep
  <1>6. CASE kfio_sgl_reset
    BY <1>6, ResetStep
  <1>7. CASE kfio_sgl_destroy
    <2>1. /\ sg_list = << >> /\ sg_max' = 0 /\ sg_written' = {}
          /\ UNCHANGED <<sg_list, sg_mapped, sg_pin, sg_lost>>
      BY <1>7 DEF kfio_sgl_destroy
    <2>2. SgTypes'
      BY <1>1, <2>1, ScatterBounds DEF SgTypes
    <2> QED
      BY <2>1, <2>2, PinsKept
  <1>8. ASSUME NEW read \in BOOLEAN, kfio_sgl_dma_map(read) PROVE SgInv'
    BY <1>8, DmaMapStep
  <1>9. CASE kfio_sgl_dma_unmap \/ UNCHANGED sgVars
    <2>1. UNCHANGED <<sg_max, sg_list, sg_pin, sg_dirty, sg_written, sg_lost>> /\ sg_mapped' \in {0, sg_mapped}
      BY <1>9 DEF kfio_sgl_dma_unmap, sgVars
    <2>2. SgTypes'
      BY <1>1, <2>1 DEF SgTypes
    <2> QED
      BY <2>1, <2>2, PinsKept
  <1> QED
    BY <1>2, <1>3, <1>4, <1>5, <1>6, <1>7, <1>8, <1>9 DEF ScatterNext

(* As long as no error path of kfio_sgl_map_bytes_gen was taken, a user page  *)
(* is held once for each entry it is in, and a page the device may have       *)
(* written is dirty once nothing holds it: for lists, memories and buffers of *)
(* any size.                                                                  *)
THEOREM PagesAlwaysKept == ScatterSpec => [](ScatterTypeOK /\ ScatterPagesKept)
  <1>1. SgInv /\ [ScatterNext]_sgVars => SgInv'
    BY SgStep
  <1> QED
    BY <1>1, SgInitInv, SgInvSuffices, PTL DEF ScatterSpec
-----------------------------------------------------------------------------
(* The bytes of a scatter list: spans of memory one behind the other *)

(* t is n spans one behind the other: the i-th is len[i] bytes from a[i] on, *)
(* and ends at the sum c[i].                                                 *)
Covers(t, c, n, a, len) ==
    /\ t \in Seq(Int) /\ Len(t) = c[n]
    /\ \A i \in 1 .. n : \A k \in 1 .. len[i] : t[c[i - 1] + k] = a[i] + k - 1

(* The addresses and lengths of n spans. *)
IsSpans(n, a, len) == n \in Nat /\ \A i \in 1 .. n : a[i] \in Int /\ len[i] \in Nat

(* The spans say what every byte is. *)
LEMMA CoverUnique ==
    ASSUME NEW n, NEW a, NEW len, IsSpans(n, a, len), NEW c, Sums(c, n, len),
           NEW t, NEW u, Covers(t, c, n, a, len), Covers(u, c, n, a, len)
    PROVE  t = u
  <1>1. t \in Seq(Int) /\ u \in Seq(Int) /\ Len(t) = Len(u) /\ Len(t) = c[n] /\ c[n] \in Nat /\ n \in Nat
    BY DEF Covers, Sums, IsSpans
  <1>2. ASSUME NEW x \in 1 .. Len(t) PROVE t[x] = u[x]
    <2>1. x - 1 \in Nat /\ x - 1 < c[n]
      BY <1>1
    <2>2. PICK i \in 1 .. n : c[i - 1] <= x - 1 /\ x - 1 < c[i]
      BY <1>1, <2>1, SumsPlace
    <2>3. c[i - 1] \in Nat /\ c[i] = c[i - 1] + len[i] /\ len[i] \in Nat
      BY <1>1 DEF Sums, IsSpans
    <2> DEFINE k == x - c[i - 1]
    <2>4. k \in 1 .. len[i] /\ c[i - 1] + k = x
      <3>1. x \in Nat /\ c[i - 1] <= x - 1 /\ x - 1 < c[i]
        BY <1>1, <2>2
      <3> QED
        BY ONLY <2>3, <3>1
    <2> HIDE DEF k
    <2>5. t[c[i - 1] + k] = a[i] + k - 1
      BY <2>4 DEF Covers
    <2>6. u[c[i - 1] + k] = a[i] + k - 1
      BY <2>4 DEF Covers
    <2> QED
      BY <2>4, <2>5, <2>6
  <1> QED
    BY <1>1, <1>2, SeqEqual

(* A span, byte by byte. *)
LEMMA SpanIs ==
    ASSUME NEW a \in Int, NEW n \in Nat
    PROVE  Span(a, n) \in Seq(Int) /\ Len(Span(a, n)) = n /\ \A k \in 1 .. n : Span(a, n)[k] = a + k - 1
  BY DEF Span

(* One span behind the other. *)
Spans(n, a, len) == FlattenSeq([i \in 1 .. n |-> Span(a[i], len[i])])

(* Spans flattened are where the sums of their lengths say. *)
LEMMA SpansCover ==
    ASSUME NEW n, NEW a, NEW len, IsSpans(n, a, len), NEW c, Sums(c, n, len)
    PROVE  Covers(Spans(n, a, len), c, n, a, len)
  <1> DEFINE ss == [i \in 1 .. n |-> Span(a[i], len[i])]
  <1>1. n \in Nat /\ \A i \in 1 .. n : a[i] \in Int /\ len[i] \in Nat
    BY DEF IsSpans
  <1>2. \A i \in 1 .. n : /\ ss[i] \in Seq(Int) /\ Len(ss[i]) = len[i]
                          /\ \A k \in 1 .. len[i] : ss[i][k] = a[i] + k - 1
    BY <1>1, SpanIs
  <1>3. ss \in Seq(Seq(Int)) /\ Len(ss) = n
    BY <1>1, <1>2
  <1> HIDE DEF ss
  <1>4. Flattened(FlattenSeq(ss), ss, c, Int)
    <2>1. PartsOf(ss, c, len)
      BY <1>2, <1>3 DEF PartsOf
    <2> QED
      BY <1>3, <2>1, FlattenPlaces
  <1>5. Spans(n, a, len) = FlattenSeq(ss)
    BY DEF Spans, ss
  <1> QED
    BY <1>2, <1>3, <1>4, <1>5 DEF Covers, Flattened

(* What a list of entries, cuts or segments is about. *)
Extents(es) ==
    /\ Len(es) \in Nat /\ DOMAIN es = 1 .. Len(es)
    /\ \A i \in 1 .. Len(es) : es[i].page \in Nat /\ es[i].offset \in Nat /\ es[i].length \in Nat

Addr(e) == e.page * PageSize + e.offset
Addrs(es) == [i \in 1 .. Len(es) |-> Addr(es[i])]
Lens(es) == [i \in 1 .. Len(es) |-> es[i].length]

(* A list as addresses and lengths. *)
LEMMA ExtentsAre ==
    ASSUME NEW es, Extents(es)
    PROVE  /\ IsSpans(Len(es), Addrs(es), Lens(es)) /\ Len(es) \in Nat
           /\ \A i \in 1 .. Len(es) : /\ Addrs(es)[i] = Addr(es[i]) /\ Addrs(es)[i] \in Nat
                                      /\ Lens(es)[i] = es[i].length /\ Lens(es)[i] \in Nat
           /\ BytesOf(es) = Spans(Len(es), Addrs(es), Lens(es))
           /\ \E c : Sums(c, Len(es), Lens(es))
  <1>1. /\ Len(es) \in Nat /\ DOMAIN es = 1 .. Len(es) /\ PageSize \in Nat
        /\ \A i \in 1 .. Len(es) : es[i].page \in Nat /\ es[i].offset \in Nat /\ es[i].length \in Nat
    BY PageSizeType DEF Extents
  <1>2. \A i \in 1 .. Len(es) : es[i].page * PageSize \in Nat
    BY <1>1
  <1>3. \A i \in 1 .. Len(es) : Addr(es[i]) \in Nat
    BY <1>1, <1>2 DEF Addr
  <1>4. \A i \in 1 .. Len(es) : /\ Addrs(es)[i] = Addr(es[i]) /\ Addrs(es)[i] \in Nat
                                /\ Lens(es)[i] = es[i].length /\ Lens(es)[i] \in Nat
    BY <1>1, <1>3 DEF Addrs, Lens
  <1>5. IsSpans(Len(es), Addrs(es), Lens(es))
    BY <1>1, <1>4 DEF IsSpans
  <1>6. BytesOf(es) = Spans(Len(es), Addrs(es), Lens(es))
    <2>1. \A i \in 1 .. Len(es) : [k \in 1 .. es[i].length |-> es[i].page * PageSize + es[i].offset + k - 1]
                                    = Span(Addrs(es)[i], Lens(es)[i])
      BY <1>4 DEF Span, Addr
    <2>2. [i \in 1 .. Len(es) |-> [k \in 1 .. es[i].length |-> es[i].page * PageSize + es[i].offset + k - 1]]
            = [i \in 1 .. Len(es) |-> Span(Addrs(es)[i], Lens(es)[i])]
      BY <2>1
    <2> QED
      BY <1>1, <2>2 DEF BytesOf, Spans
  <1>7. \E c : Sums(c, Len(es), Lens(es))
    BY <1>1, <1>4, SumsExist
  <1> QED
    BY <1>1, <1>4, <1>5, <1>6, <1>7

(* The bytes of a list are where the sums of its lengths say. *)
LEMMA BytesCover ==
    ASSUME NEW es, Extents(es), NEW c, Sums(c, Len(es), Lens(es))
    PROVE  Covers(BytesOf(es), c, Len(es), Addrs(es), Lens(es))
  <1>1. IsSpans(Len(es), Addrs(es), Lens(es)) /\ BytesOf(es) = Spans(Len(es), Addrs(es), Lens(es))
    BY ExtentsAre
  <1> QED
    BY <1>1, SpansCover

(* The recursive sum of the lengths is the last sum. *)
LEMMA LengthIs ==
    ASSUME NEW es, Extents(es), NEW c, Sums(c, Len(es), Lens(es))
    PROVE  LengthOf(es) = c[Len(es)]
  <1> DEFINE n == Len(es)
             IsSum(g) == g = [i \in 0 .. n |-> IF i = 0 THEN 0 ELSE g[i - 1] + es[i].length]
             s == CHOOSE g : IsSum(g)
  <1>1. LengthOf(es) = s[n]
    BY DEF LengthOf
  <1>2. n \in Nat /\ \A i \in 1 .. n : Lens(es)[i] = es[i].length /\ es[i].length \in Nat
    BY ExtentsAre DEF Extents
  <1>3. c \in [0 .. n -> Nat] /\ c[0] = 0 /\ \A i \in 1 .. n : c[i] = c[i - 1] + Lens(es)[i]
    BY DEF Sums
  <1> HIDE DEF n
  <1>4. IsSum(c)
    <2>1. \A i \in 0 .. n : c[i] = IF i = 0 THEN 0 ELSE c[i - 1] + es[i].length
      BY <1>2, <1>3
    <2>2. c = [i \in 0 .. n |-> c[i]]
      BY <1>3
    <2>3. [i \in 0 .. n |-> c[i]] = [i \in 0 .. n |-> IF i = 0 THEN 0 ELSE c[i - 1] + es[i].length]
      BY <2>1
    <2> QED
      BY <2>2, <2>3
  <1>5. IsSum(s)
    <2> HIDE DEF IsSum
    <2> QED
      BY <1>4
  <1> HIDE DEF s
  <1>6. \A i \in 0 .. n : s[i] = IF i = 0 THEN 0 ELSE s[i - 1] + es[i].length
    BY <1>5
  <1> DEFINE S == {m \in Nat : m <= n => s[m] = c[m]}
  <1>7. 0 \in S
    BY <1>2, <1>3, <1>6
  <1>8. ASSUME NEW m \in Nat, m \in S PROVE m + 1 \in S
    <2> SUFFICES ASSUME m + 1 <= n PROVE s[m + 1] = c[m + 1]
      OBVIOUS
    <2>1. m + 1 \in 1 .. n /\ m + 1 \in 0 .. n /\ (m + 1) - 1 = m /\ m + 1 # 0 /\ s[m] = c[m]
      <3>1. m \in Nat /\ n \in Nat /\ m <= n
        BY <1>2
      <3>2. s[m] = c[m]
        BY <1>8, <3>1
      <3> QED
        BY <3>1, <3>2
    <2>9. s[m + 1] = c[m + 1]
      <3>1. s[m + 1] = s[m] + es[m + 1].length
        BY <1>6, <2>1
      <3>2. c[m + 1] = c[m] + es[m + 1].length
        BY <1>2, <1>3, <2>1
      <3> QED
        BY <2>1, <3>1, <3>2
    <2> QED
      BY <2>9
  <1>9. Nat \subseteq S
    BY <1>7, <1>8, SetInduction
  <1> QED
    BY <1>1, <1>2, <1>9 DEF n

(* The bytes of a list are as many as its entries say. *)
LEMMA BytesLength ==
    ASSUME NEW es, Extents(es)
    PROVE  BytesOf(es) \in Seq(Int) /\ Len(BytesOf(es)) = LengthOf(es) /\ LengthOf(es) \in Nat
  <1>1. PICK c : Sums(c, Len(es), Lens(es))
    BY ExtentsAre
  <1>2. Covers(BytesOf(es), c, Len(es), Addrs(es), Lens(es)) /\ LengthOf(es) = c[Len(es)]
    BY <1>1, BytesCover, LengthIs
  <1>3. c[Len(es)] \in Nat
    BY <1>1, ExtentsAre DEF Sums
  <1> QED
    BY <1>2, <1>3 DEF Covers

(* Two sequences of bytes, by their places. *)
LEMMA ConcatAt ==
    ASSUME NEW s \in Seq(Int), NEW t \in Seq(Int)
    PROVE  /\ s \o t \in Seq(Int) /\ Len(s \o t) = Len(s) + Len(t)
           /\ \A x \in 1 .. Len(s) : (s \o t)[x] = s[x]
           /\ \A k \in 1 .. Len(t) : (s \o t)[Len(s) + k] = t[k]
  <1>1. /\ s \o t \in Seq(Int) /\ Len(s \o t) = Len(s) + Len(t)
        /\ \A x \in 1 .. Len(s) + Len(t) : (s \o t)[x] = IF x <= Len(s) THEN s[x] ELSE t[x - Len(s)]
    BY ConcatProperties
  <1>2. Len(s) \in Nat /\ Len(t) \in Nat
    OBVIOUS
  <1>3. \A x \in 1 .. Len(s) : x \in 1 .. Len(s) + Len(t) /\ x <= Len(s)
    BY <1>2
  <1>4. \A k \in 1 .. Len(t) : /\ Len(s) + k \in 1 .. Len(s) + Len(t) /\ ~(Len(s) + k <= Len(s))
                               /\ (Len(s) + k) - Len(s) = k
    BY <1>2
  <1>5. \A x \in 1 .. Len(s) : (s \o t)[x] = s[x]
    BY <1>1, <1>3
  <1>6. \A k \in 1 .. Len(t) : (s \o t)[Len(s) + k] = t[k]
    BY <1>1, <1>4
  <1> QED
    BY <1>1, <1>5, <1>6

(* Bytes behind bytes behind bytes. *)
LEMMA BytesAssociative ==
    ASSUME NEW s \in Seq(Int), NEW t \in Seq(Int), NEW u \in Seq(Int)
    PROVE  (s \o t) \o u = s \o (t \o u)
  BY ONLY s \in Seq(Int), t \in Seq(Int), u \in Seq(Int), ConcatAssociative

(* An entry of its own behind a list. *)
LEMMA BytesAppend ==
    ASSUME NEW es, Extents(es), NEW u, Extents(u), NEW e, Len(u) = Len(es) + 1,
           \A i \in 1 .. Len(es) : u[i].page = es[i].page /\ u[i].offset = es[i].offset /\ u[i].length = es[i].length,
           u[Len(u)] = e
    PROVE  /\ BytesOf(u) = BytesOf(es) \o Span(Addr(e), e.length)
           /\ LengthOf(u) = LengthOf(es) + e.length
  <1> DEFINE n == Len(es)
             B == BytesOf(es)
             T == Span(Addr(e), e.length)
             len == Lens(u)
             a == Addrs(u)
  <1>1. PICK c : Sums(c, n, Lens(es))
    BY ExtentsAre
  <1>2. Covers(B, c, n, Addrs(es), Lens(es)) /\ LengthOf(es) = c[n]
    BY <1>1, BytesCover, LengthIs
  <1>3. /\ n \in Nat /\ Len(u) = n + 1 /\ n + 1 \in 1 .. n + 1 /\ u[n + 1] = e
        /\ IsSpans(n + 1, a, len)
        /\ \A i \in 1 .. n + 1 : a[i] = Addr(u[i]) /\ a[i] \in Nat /\ len[i] = u[i].length /\ len[i] \in Nat
    <2>1. n \in Nat /\ Len(u) = n + 1 /\ u[n + 1] = e
      BY DEF Extents
    <2>2. IsSpans(Len(u), a, len)
      BY ExtentsAre
    <2>3. \A i \in 1 .. Len(u) : a[i] = Addr(u[i]) /\ a[i] \in Nat /\ len[i] = u[i].length /\ len[i] \in Nat
      BY ExtentsAre
    <2> HIDE DEF n, a, len
    <2> QED
      BY <2>1, <2>2, <2>3
  <1>4. \A i \in 1 .. n : a[i] = Addrs(es)[i] /\ len[i] = Lens(es)[i]
    <2>1. \A i \in 1 .. n : Addrs(es)[i] = Addr(es[i]) /\ Lens(es)[i] = es[i].length
      BY ExtentsAre
    <2>2. \A i \in 1 .. n : Addr(u[i]) = Addr(es[i]) /\ u[i].length = es[i].length
      BY DEF Addr
    <2> QED
      BY <1>3, <2>1, <2>2
  <1>5. c \in [0 .. n -> Nat] /\ c[0] = 0 /\ \A i \in 1 .. n : c[i] = c[i - 1] + len[i]
    BY <1>1, <1>4 DEF Sums
  <1>6. a[n + 1] = Addr(e) /\ len[n + 1] = e.length /\ Addr(e) \in Int /\ e.length \in Nat
    BY <1>3
  <1> HIDE DEF a, len, n, B, T
  <1> DEFINE d == [i \in 0 .. n + 1 |-> IF i = n + 1 THEN c[n] + len[n + 1] ELSE c[i]]
  <1>7. /\ d \in [0 .. n + 1 -> Nat] /\ d[n + 1] = c[n] + e.length
        /\ \A i \in 0 .. n : d[i] = c[i] /\ c[i] \in Nat
    BY <1>3, <1>5, <1>6
  <1> HIDE DEF d
  <1>8. Sums(d, n + 1, len)
    <2>1. \A i \in 1 .. n + 1 : d[i] = d[i - 1] + len[i]
      <3> TAKE i \in 1 .. n + 1
      <3>1. CASE i = n + 1
        <4>1. i - 1 = n /\ n \in 0 .. n
          BY <1>3, <3>1
        <4> QED
          BY <1>6, <1>7, <3>1, <4>1
      <3>2. CASE i # n + 1
        <4>1. i \in 1 .. n /\ i \in 0 .. n /\ i - 1 \in 0 .. n
          BY <1>3, <3>2
        <4> QED
          BY <1>5, <1>7, <4>1
      <3> QED
        BY <3>1, <3>2
    <2>2. d[0] = 0
      BY <1>3, <1>5, <1>7
    <2> QED
      BY <1>7, <2>1, <2>2 DEF Sums
  <1>9. T \in Seq(Int) /\ Len(T) = e.length /\ \A k \in 1 .. e.length : T[k] = Addr(e) + k - 1
    BY <1>6, SpanIs DEF T
  <1>10. /\ B \in Seq(Int) /\ Len(B) = c[n] /\ c[n] \in Nat
         /\ \A i \in 1 .. n : \A k \in 1 .. len[i] : B[c[i - 1] + k] = a[i] + k - 1
    <2>1. c[n] \in Nat
      BY <1>3, <1>7
    <2> QED
      BY <1>2, <1>4, <2>1 DEF Covers
  <1>11. /\ B \o T \in Seq(Int) /\ Len(B \o T) = c[n] + e.length
         /\ \A x \in 1 .. c[n] : (B \o T)[x] = B[x]
         /\ \A k \in 1 .. e.length : (B \o T)[c[n] + k] = T[k]
    <2>1. B \in Seq(Int) /\ T \in Seq(Int)
      BY <1>9, <1>10
    <2>2. /\ B \o T \in Seq(Int) /\ Len(B \o T) = Len(B) + Len(T)
          /\ \A x \in 1 .. Len(B) : (B \o T)[x] = B[x]
          /\ \A k \in 1 .. Len(T) : (B \o T)[Len(B) + k] = T[k]
      BY <2>1, ConcatAt
    <2> QED
      BY <1>9, <1>10, <2>2
  <1>grow. \A x, y \in 0 .. n : x <= y => c[x] <= c[y]
    <2>1. Sums(c, n, len)
      BY <1>5 DEF Sums
    <2>2. \A j \in 1 .. n : len[j] \in Nat
      BY <1>3
    <2>3. n \in Nat
      BY <1>3
    <2> QED
      BY ONLY <2>1, <2>2, <2>3, SumsGrow
  <1>12. Covers(B \o T, d, n + 1, a, len)
    <2>1. ASSUME NEW i \in 1 .. n + 1, NEW k \in 1 .. len[i] PROVE (B \o T)[d[i - 1] + k] = a[i] + k - 1
      <3>1. CASE i = n + 1
        <4>1. d[i - 1] = c[n] /\ k \in 1 .. e.length
          BY <1>3, <1>6, <1>7, <3>1
        <4>2. (B \o T)[c[n] + k] = T[k]
          BY <1>11, <4>1
        <4>3. T[k] = Addr(e) + k - 1
          BY <1>9, <4>1
        <4>4. a[i] = Addr(e)
          BY <1>6, <3>1
        <4> QED
          BY <4>1, <4>2, <4>3, <4>4
      <3>2. CASE i # n + 1
        <4>1. i \in 1 .. n /\ i \in 0 .. n /\ i - 1 \in 0 .. n
          BY <1>3, <3>2
        <4>2. d[i - 1] = c[i - 1] /\ c[i - 1] \in Nat /\ c[i] = c[i - 1] + len[i] /\ c[i] \in Nat /\ len[i] \in Nat
          BY <1>3, <1>5, <1>7, <4>1
        <4>3. c[i] <= c[n]
          <5>1. n \in 0 .. n /\ i <= n
            BY <1>3, <4>1
          <5> QED
            BY ONLY <1>grow, <4>1, <5>1
        <4>4. c[i - 1] + k \in 1 .. c[n]
          <5>1. k \in Nat /\ k >= 1 /\ k <= len[i]
            BY <4>2
          <5>2. c[n] \in Nat
            BY <1>10
          <5> QED
            BY ONLY <4>2, <4>3, <5>1, <5>2
        <4> QED
          BY <1>10, <1>11, <4>1, <4>2, <4>4
      <3> QED
        BY <3>1, <3>2
    <2> QED
      BY <1>7, <1>11, <2>1 DEF Covers
  <1>13. Covers(BytesOf(u), d, n + 1, a, len) /\ LengthOf(u) = d[n + 1]
    BY <1>3, <1>8, BytesCover, LengthIs DEF a, len
  <1>14. BytesOf(u) = B \o T
    BY <1>3, <1>8, <1>12, <1>13, CoverUnique
  <1> QED
    BY <1>2, <1>7, <1>13, <1>14 DEF B, T

(* An entry that goes on where the last one ends, made one with it. *)
LEMMA BytesMerge ==
    ASSUME NEW es, Extents(es), NEW u, Extents(u), NEW v, Len(u) = Len(es), Len(es) # 0,
           \A i \in 1 .. Len(es) : u[i].page = es[i].page /\ u[i].offset = es[i].offset,
           \A i \in 1 .. Len(es) : i # Len(es) => u[i].length = es[i].length,
           u[Len(es)].length = es[Len(es)].length + v.length, v.length \in Nat,
           v.page = es[Len(es)].page, v.offset = es[Len(es)].offset + es[Len(es)].length
    PROVE  /\ BytesOf(u) = BytesOf(es) \o Span(Addr(v), v.length)
           /\ LengthOf(u) = LengthOf(es) + v.length
  <1> DEFINE n == Len(es)
             B == BytesOf(es)
             T == Span(Addr(v), v.length)
             len == Lens(es)
             more == Lens(u)
             a == Addrs(es)
  <1>1. PICK c : Sums(c, n, len)
    BY ExtentsAre
  <1>2. Covers(B, c, n, a, len) /\ LengthOf(es) = c[n]
    BY <1>1, BytesCover, LengthIs
  <1>3. /\ n \in Nat /\ n \in 1 .. n
        /\ \A i \in 1 .. n : a[i] = Addr(es[i]) /\ a[i] \in Nat /\ len[i] = es[i].length /\ len[i] \in Nat
    BY ExtentsAre
  <1>4. /\ IsSpans(n, Addrs(u), more)
        /\ \A i \in 1 .. n : Addrs(u)[i] = Addr(u[i]) /\ more[i] = u[i].length
    BY ExtentsAre
  <1>5. Addrs(u) = a
    <2>1. \A i \in 1 .. n : Addr(u[i]) = Addr(es[i])
      BY DEF Addr
    <2> QED
      BY <2>1 DEF Addrs
  <1>6. more[n] = len[n] + v.length /\ (\A i \in 1 .. n : i # n => more[i] = len[i]) /\ v.length \in Nat
    BY <1>3, <1>4
  <1>7. Addr(v) = a[n] + len[n] /\ Addr(v) \in Int
    <2>1. es[n].page * PageSize \in Nat /\ es[n].offset \in Nat /\ es[n].length \in Nat
      <3>1. es[n].page \in Nat /\ es[n].offset \in Nat /\ es[n].length \in Nat
        BY <1>3 DEF Extents
      <3>2. \A x \in Nat : x * PageSize \in Nat
        BY PageSizeType
      <3> QED
        BY <3>1, <3>2
    <2>2. Addr(v) = es[n].page * PageSize + (es[n].offset + es[n].length)
      BY DEF Addr
    <2>3. a[n] = es[n].page * PageSize + es[n].offset /\ len[n] = es[n].length
      BY <1>3 DEF Addr
    <2> DEFINE x == es[n].page * PageSize
    <2>4. x \in Nat /\ Addr(v) = x + (es[n].offset + es[n].length) /\ a[n] = x + es[n].offset
      BY <2>1, <2>2, <2>3
    <2> HIDE DEF x, a
    <2> QED
      BY <2>1, <2>3, <2>4
  <1>8. c \in [0 .. n -> Nat] /\ c[0] = 0 /\ \A i \in 1 .. n : c[i] = c[i - 1] + len[i]
    BY <1>1 DEF Sums
  <1> HIDE DEF a, len, more, n, B, T
  <1> DEFINE d == [i \in 0 .. n |-> IF i = n THEN c[n] + v.length ELSE c[i]]
  <1>9. /\ d \in [0 .. n -> Nat] /\ d[n] = c[n] + v.length /\ c[n] \in Nat
        /\ \A i \in 0 .. n : c[i] \in Nat /\ (i # n => d[i] = c[i])
    BY <1>3, <1>6, <1>8
  <1> HIDE DEF d
  <1>10. Sums(d, n, more)
    <2>1. \A i \in 1 .. n : d[i] = d[i - 1] + more[i]
      <3> TAKE i \in 1 .. n
      <3>1. i \in 0 .. n /\ i - 1 \in 0 .. n /\ i - 1 # n
        BY <1>3
      <3>2. d[i - 1] = c[i - 1] /\ c[i] = c[i - 1] + len[i] /\ c[i - 1] \in Nat /\ len[i] \in Nat
        BY <1>3, <1>8, <1>9, <3>1
      <3>3. CASE i = n
        BY <1>6, <1>9, <3>2, <3>3
      <3>4. CASE i # n
        BY <1>6, <1>9, <3>1, <3>2, <3>4
      <3> QED
        BY <3>3, <3>4
    <2>2. d[0] = 0
      BY <1>3, <1>8, <1>9
    <2> QED
      BY <1>9, <2>1, <2>2 DEF Sums
  <1>11. T \in Seq(Int) /\ Len(T) = v.length /\ \A k \in 1 .. v.length : T[k] = Addr(v) + k - 1
    BY <1>6, <1>7, SpanIs DEF T
  <1>12. /\ B \in Seq(Int) /\ Len(B) = c[n]
         /\ \A i \in 1 .. n : \A k \in 1 .. len[i] : B[c[i - 1] + k] = a[i] + k - 1
    BY <1>2 DEF Covers
  <1>13. /\ B \o T \in Seq(Int) /\ Len(B \o T) = c[n] + v.length
         /\ \A x \in 1 .. c[n] : (B \o T)[x] = B[x]
         /\ \A k \in 1 .. v.length : (B \o T)[c[n] + k] = T[k]
    <2>1. B \in Seq(Int) /\ T \in Seq(Int)
      BY <1>11, <1>12
    <2>2. /\ B \o T \in Seq(Int) /\ Len(B \o T) = Len(B) + Len(T)
          /\ \A x \in 1 .. Len(B) : (B \o T)[x] = B[x]
          /\ \A k \in 1 .. Len(T) : (B \o T)[Len(B) + k] = T[k]
      BY <2>1, ConcatAt
    <2> QED
      BY <1>11, <1>12, <2>2
  <1>14. Covers(B \o T, d, n, a, more)
    <2>1. ASSUME NEW i \in 1 .. n, NEW k \in 1 .. more[i] PROVE (B \o T)[d[i - 1] + k] = a[i] + k - 1
      <3>1. i \in 0 .. n /\ i - 1 \in 0 .. n /\ i - 1 # n
        BY <1>3
      <3>2. /\ d[i - 1] = c[i - 1] /\ c[i - 1] \in Nat /\ c[i] = c[i - 1] + len[i] /\ c[i] \in Nat
            /\ len[i] \in Nat /\ a[i] \in Nat
        BY <1>3, <1>8, <1>9, <3>1
      <3>3. c[i] <= c[n]
        <4>1. (\A j \in 1 .. n : len[j] \in Nat) /\ n \in 0 .. n /\ i <= n
          BY <1>3
        <4> QED
          BY <1>1, <1>3, <3>1, <4>1, SumsGrow
      <3>4. CASE k <= len[i]
        <4>1. k \in Nat /\ k >= 1 /\ k <= len[i]
          BY <3>4
        <4>2. c[n] \in Nat
          BY <1>3, <1>8
        <4>3. k \in 1 .. len[i] /\ c[i - 1] + k \in 1 .. c[n]
          BY ONLY <3>2, <3>3, <4>1, <4>2
        <4> QED
          BY <1>12, <1>13, <3>2, <4>3
      <3>5. CASE ~(k <= len[i])
        <4>1. i = n
          BY <1>6, <3>2, <3>5
        <4> DEFINE j == k - len[n]
        <4>2. j \in 1 .. v.length /\ c[i - 1] + k = c[n] + j
          <5>1. more[i] = len[n] + v.length /\ v.length \in Nat
            BY <1>6, <4>1
          <5>2. k \in Nat /\ k >= 1 /\ k <= len[n] + v.length /\ ~(k <= len[n])
            BY <3>5, <4>1, <5>1
          <5>3. len[n] \in Nat /\ c[i - 1] \in Nat /\ c[n] = c[i - 1] + len[n]
            BY <3>2, <4>1
          <5> QED
            BY ONLY <5>1, <5>2, <5>3
        <4>3. (B \o T)[c[n] + j] = Addr(v) + j - 1
          BY <1>11, <1>13, <4>2
        <4>4. Addr(v) + j - 1 = a[i] + k - 1
          BY <1>7, <3>2, <4>1
        <4> QED
          BY <3>2, <4>2, <4>3, <4>4
      <3> QED
        BY <3>4, <3>5
    <2> QED
      BY <1>9, <1>13, <2>1 DEF Covers
  <1>15. Covers(BytesOf(u), d, n, a, more) /\ LengthOf(u) = d[n]
    BY <1>5, <1>10, BytesCover, LengthIs DEF n, more
  <1>16. BytesOf(u) = B \o T
    BY <1>4, <1>5, <1>10, <1>14, <1>15, CoverUnique
  <1> QED
    BY <1>2, <1>9, <1>15, <1>16 DEF B, T

(* The cuts of a buffer follow each other, from its first byte to its last. *)
LEMMA CutsFollow ==
    ASSUME NEW buffer \in Nat, NEW size \in Nat \ {0}, buffer + size <= NumPages * PageSize
    PROVE  \E d \in [0 .. Len(PageCuts(buffer, size)) -> Nat] :
             /\ d[0] = 0 /\ d[Len(PageCuts(buffer, size))] = size
             /\ \A i \in 1 .. Len(PageCuts(buffer, size)) :
                  /\ d[i] = d[i - 1] + PageCuts(buffer, size)[i].length
                  /\ Addr(PageCuts(buffer, size)[i]) = buffer + d[i - 1]
  <1> DEFINE q0 == buffer \div PageSize
             q1 == (buffer + size - 1) \div PageSize
             n  == q1 - q0 + 1
             cuts == PageCuts(buffer, size)
             at(i) == LET page == q0 + i - 1
                          from == Greater(buffer, page * PageSize)
                          to   == Lesser(buffer + size, (page + 1) * PageSize)
                      IN  [page |-> page, offset |-> from - page * PageSize, length |-> to - from]
             d == [i \in 0 .. n |-> IF i = 0 THEN 0 ELSE Lesser(buffer + size, (q0 + i) * PageSize) - buffer]
  <1>1. PageSize \in Nat /\ PageSize > 0 /\ buffer + size - 1 \in Nat
    BY PageSizeType
  <1>2. /\ q0 \in Nat /\ q0 * PageSize <= buffer /\ buffer < q0 * PageSize + PageSize
        /\ q1 \in Nat /\ q1 * PageSize <= buffer + size - 1 /\ buffer + size - 1 < q1 * PageSize + PageSize
    BY <1>1, PageOf
  <1>3. cuts = [i \in 1 .. n |-> at(i)]
    BY DEF PageCuts
  <1> HIDE DEF q0, q1
  <1>4. n \in Nat /\ n >= 1
    <2>1. q0 * PageSize < (q1 + 1) * PageSize
      <3>1. (q1 + 1) * PageSize = q1 * PageSize + PageSize /\ q1 * PageSize \in Int /\ q0 * PageSize \in Int
        BY <1>2, PageOrder
      <3> QED
        BY <1>1, <1>2, <3>1
    <2>2. q0 < q1 + 1
      BY <1>2, <2>1, PageOrder
    <2> QED
      BY <1>2, <2>2
  <1>5. Len(cuts) = n /\ \A i \in 1 .. n : cuts[i] = at(i)
    <2> HIDE DEF at, n
    <2> QED
      BY <1>3, <1>4
  (* The end of the first i pages, and where the buffer is in them. *)
  <1> DEFINE x(i) == (q0 + i) * PageSize
  <1>6. \A i \in 0 .. n : x(i) \in Int /\ (i >= 1 => x(i) > buffer) /\ (i < n => x(i) < buffer + size)
    <2> TAKE i \in 0 .. n
    <2>1. q0 + i \in Int /\ x(i) \in Int
      BY <1>2, <1>4, PageOrder
    <2>2. ASSUME i >= 1 PROVE x(i) > buffer
      <3>1. (q0 + 1) * PageSize <= x(i) /\ (q0 + 1) * PageSize = q0 * PageSize + PageSize
        BY <1>2, <2>1, <2>2, PageOrder
      <3>2. q0 * PageSize \in Int
        BY <1>2, PageOrder
      <3> HIDE DEF x
      <3> QED
        BY <1>1, <1>2, <2>1, <3>1, <3>2
    <2>3. ASSUME i < n PROVE x(i) < buffer + size
      <3>1. x(i) <= q1 * PageSize
        <4>1. q0 + i <= q1
          BY <1>2, <2>1, <2>3
        <4> QED
          BY <1>2, <2>1, <4>1, PageOrder
      <3>2. q1 * PageSize \in Int
        BY <1>2, PageOrder
      <3> HIDE DEF x
      <3> QED
        BY <1>1, <1>2, <2>1, <3>1, <3>2
    <2> QED
      BY <2>1, <2>2, <2>3
  <1>7. x(n) >= buffer + size
    <2>1. q0 + n = q1 + 1
      BY <1>2
    <2>2. x(n) = (q1 + 1) * PageSize
      BY <2>1
    <2>3. (q1 + 1) * PageSize = q1 * PageSize + PageSize /\ q1 * PageSize \in Int
      BY <1>2, PageOrder
    <2> HIDE DEF x
    <2> QED
      BY <1>1, <1>2, <2>2, <2>3
  <1>8. \A i \in 1 .. n : /\ q0 + i - 1 = q0 + (i - 1) /\ (q0 + i - 1) + 1 = q0 + i /\ i - 1 \in 0 .. n /\ i \in 0 .. n
                          /\ i - 1 < n
    BY <1>2, <1>4
  <1>9. ASSUME NEW i \in 1 .. n
        PROVE  /\ cuts[i].page = q0 + i - 1
               /\ cuts[i].offset = Greater(buffer, x(i - 1)) - x(i - 1)
               /\ cuts[i].length = Lesser(buffer + size, x(i)) - Greater(buffer, x(i - 1))
               /\ cuts[i].page * PageSize = x(i - 1)
    <2>1. (q0 + i - 1) * PageSize = x(i - 1) /\ ((q0 + i - 1) + 1) * PageSize = x(i)
      BY <1>8
    <2>2. cuts[i] = at(i)
      BY <1>5
    <2>3. at(i) = [page |-> q0 + i - 1, offset |-> Greater(buffer, x(i - 1)) - x(i - 1),
                   length |-> Lesser(buffer + size, x(i)) - Greater(buffer, x(i - 1))]
      BY <2>1
    <2> HIDE DEF at, x
    <2> QED
      BY <2>1, <2>2, <2>3
  <1>10. \A i \in 0 .. n : d[i] = IF i = 0 THEN 0 ELSE Lesser(buffer + size, x(i)) - buffer
    OBVIOUS
  <1>11. DOMAIN d = 0 .. n /\ d = [i \in 0 .. n |-> d[i]]
    OBVIOUS
  <1> HIDE DEF d, x, cuts, at
  <1>12. \A i \in 0 .. n : d[i] \in Nat
    BY <1>1, <1>6, <1>10 DEF Lesser
  <1>13. d \in [0 .. n -> Nat]
    BY <1>11, <1>12
  <1>14. d[0] = 0 /\ d[n] = size
    BY <1>1, <1>4, <1>6, <1>7, <1>10 DEF Lesser
  <1>15. \A i \in 1 .. n : Greater(buffer, x(i - 1)) = buffer + d[i - 1]
    <2> TAKE i \in 1 .. n
    <2>1. i - 1 \in 0 .. n /\ i - 1 < n /\ x(i - 1) \in Int /\ x(i - 1) < buffer + size
      BY <1>6, <1>8
    <2>2. CASE i = 1
      <3>1. x(i - 1) = q0 * PageSize /\ d[i - 1] = 0
        <4>1. i - 1 = 0 /\ q0 + 0 = q0
          BY <1>2, <2>2
        <4> QED
          BY <1>14, <4>1 DEF x
      <3> QED
        BY <1>2, <2>1, <3>1 DEF Greater
    <2>3. CASE i # 1
      <3>1. i - 1 >= 1 /\ i - 1 # 0
        BY <2>3
      <3>2. x(i - 1) > buffer /\ d[i - 1] = Lesser(buffer + size, x(i - 1)) - buffer
        BY <1>6, <1>10, <2>1, <3>1
      <3> QED
        BY <2>1, <3>2 DEF Greater, Lesser
    <2> QED
      BY <2>2, <2>3
  <1>16. ASSUME NEW i \in 1 .. n
         PROVE  d[i] = d[i - 1] + cuts[i].length /\ Addr(cuts[i]) = buffer + d[i - 1]
    <2>1. /\ i \in 0 .. n /\ i # 0 /\ i - 1 \in 0 .. n
      BY <1>8
    <2>2. d[i] = Lesser(buffer + size, x(i)) - buffer /\ d[i - 1] \in Nat /\ d[i] \in Nat
      BY <1>10, <1>12, <2>1
    <2>3. x(i) \in Int /\ x(i - 1) \in Int
      BY <1>6, <2>1
    <2>4. Lesser(buffer + size, x(i)) \in Int
      BY <1>1, <2>3 DEF Lesser
    <2>5. cuts[i].length = Lesser(buffer + size, x(i)) - (buffer + d[i - 1])
      BY <1>9, <1>15
    <2>6. cuts[i].offset = (buffer + d[i - 1]) - x(i - 1) /\ cuts[i].page * PageSize = x(i - 1)
      BY <1>9, <1>15
    <2>7. Addr(cuts[i]) = x(i - 1) + ((buffer + d[i - 1]) - x(i - 1))
      BY <2>6 DEF Addr
    <2> QED
      BY <2>2, <2>3, <2>4, <2>5, <2>7
  <1> HIDE DEF n
  <1> QED
    BY <1>5, <1>13, <1>14, <1>16 DEF cuts

(* Spans one behind the other are a span. *)
LEMMA SpanConcat ==
    ASSUME NEW a \in Int, NEW x \in Nat, NEW y \in Nat
    PROVE  Span(a, x) \o Span(a + x, y) = Span(a, x + y)
  <1> DEFINE s == Span(a, x)
             t == Span(a + x, y)
             u == Span(a, x + y)
  <1>1. /\ s \in Seq(Int) /\ Len(s) = x /\ \A k \in 1 .. x : s[k] = a + k - 1
        /\ t \in Seq(Int) /\ Len(t) = y /\ \A k \in 1 .. y : t[k] = a + x + k - 1
        /\ u \in Seq(Int) /\ Len(u) = x + y /\ \A k \in 1 .. x + y : u[k] = a + k - 1
    BY SpanIs
  <1> HIDE DEF s, t, u
  <1>2. /\ s \o t \in Seq(Int) /\ Len(s \o t) = x + y
        /\ \A k \in 1 .. x : (s \o t)[k] = s[k]
        /\ \A k \in 1 .. y : (s \o t)[x + k] = t[k]
    BY <1>1, ConcatAt
  <1>3. ASSUME NEW k \in 1 .. x + y PROVE (s \o t)[k] = u[k]
    <2>1. CASE k <= x
      <3>1. k \in 1 .. x
        BY <2>1
      <3> QED
        BY <1>1, <1>2, <3>1
    <2>2. CASE k > x
      <3> DEFINE j == k - x
      <3>1. j \in 1 .. y /\ x + j = k /\ a + x + j - 1 = a + k - 1
        BY <2>2
      <3> HIDE DEF j
      <3>2. (s \o t)[x + j] = t[j] /\ t[j] = a + x + j - 1
        BY <1>1, <1>2, <3>1
      <3>3. u[k] = a + k - 1
        BY <1>1
      <3> QED
        BY <3>1, <3>2, <3>3
    <2>3. k <= x \/ k > x
      OBVIOUS
    <2> QED
      BY <2>1, <2>2, <2>3, Zenon
  <1>4. s \o t = u
    BY <1>1, <1>2, <1>3, SeqEqual
  <1> QED
    BY <1>4 DEF s, t, u

(* Entries whose pages are known. *)
InMemory(es) == es \in Seq(SgEntry) /\ \A i \in 1 .. Len(es) : es[i].page \in Pages

(* Such entries are extents of memory, none empty or longer than a page. *)
LEMMA InMemoryExtents ==
    ASSUME NEW es, InMemory(es)
    PROVE  Extents(es) /\ \A i \in 1 .. Len(es) : es[i].length \in 1 .. PageSize
  <1>1. es \in Seq(SgEntry) /\ Len(es) \in Nat /\ DOMAIN es = 1 .. Len(es)
    BY DEF InMemory
  <1>2. \A i \in 1 .. Len(es) : es[i] \in SgEntry /\ es[i].page \in Pages
    BY <1>1, ElementOfSeq DEF InMemory
  <1>3. \A i \in 1 .. Len(es) : es[i].page \in Nat /\ es[i].offset \in Nat /\ es[i].length \in 1 .. PageSize
    BY <1>2, PageSizeType DEF SgEntry, Pages
  <1> QED
    BY <1>1, <1>3, PageSizeType DEF Extents

(* One such list behind another. *)
LEMMA InMemoryConcat ==
    ASSUME NEW es, InMemory(es), NEW t, InMemory(t)
    PROVE  /\ InMemory(es \o t) /\ Len(es \o t) = Len(es) + Len(t)
           /\ \A i \in 1 .. Len(es) : (es \o t)[i] = es[i]
           /\ \A k \in 1 .. Len(t) : (es \o t)[Len(es) + k] = t[k]
  <1>1. es \in Seq(SgEntry) /\ t \in Seq(SgEntry) /\ Len(es) \in Nat /\ Len(t) \in Nat
    BY DEF InMemory
  <1>2. /\ es \o t \in Seq(SgEntry) /\ Len(es \o t) = Len(es) + Len(t)
        /\ \A x \in 1 .. Len(es) + Len(t) : (es \o t)[x] = IF x <= Len(es) THEN es[x] ELSE t[x - Len(es)]
    BY <1>1, ConcatProperties
  <1>3. \A x \in 1 .. Len(es) : x \in 1 .. Len(es) + Len(t) /\ x <= Len(es)
    BY <1>1
  <1>4. \A k \in 1 .. Len(t) : /\ Len(es) + k \in 1 .. Len(es) + Len(t) /\ ~(Len(es) + k <= Len(es))
                               /\ (Len(es) + k) - Len(es) = k
    BY <1>1
  <1>5. \A x \in 1 .. Len(es) : (es \o t)[x] = es[x]
    BY <1>2, <1>3
  <1>6. \A k \in 1 .. Len(t) : (es \o t)[Len(es) + k] = t[k]
    BY <1>2, <1>4
  <1>7. \A x \in 1 .. Len(es) + Len(t) : (es \o t)[x].page \in Pages
    <2> TAKE x \in 1 .. Len(es) + Len(t)
    <2>1. CASE x <= Len(es)
      <3>1. x \in 1 .. Len(es)
        BY <1>1, <2>1
      <3> QED
        BY <1>5, <3>1 DEF InMemory
    <2>2. CASE ~(x <= Len(es))
      <3>1. x - Len(es) \in 1 .. Len(t) /\ Len(es) + (x - Len(es)) = x
        BY <1>1, <2>2
      <3> QED
        BY <1>6, <3>1 DEF InMemory
    <2> QED
      BY <2>1, <2>2
  <1> QED
    BY <1>2, <1>5, <1>6, <1>7 DEF InMemory

(* The entries of cuts are in memory as the cuts are. *)
LEMMA CutEntriesAre ==
    ASSUME NEW cuts \in Seq(Vecs), NEW n \in 0 .. Len(cuts), NEW flags \in SUBSET SgFlags
    PROVE  /\ InMemory(CutEntries(cuts, n, flags)) /\ Len(CutEntries(cuts, n, flags)) = n
           /\ \A i \in 1 .. n : /\ CutEntries(cuts, n, flags)[i] = Entry(cuts[i], flags)
                                /\ Addr(CutEntries(cuts, n, flags)[i]) = Addr(cuts[i])
                                /\ CutEntries(cuts, n, flags)[i].length = cuts[i].length
  <1> DEFINE new == CutEntries(cuts, n, flags)
  <1>1. new \in Seq(SgEntry) /\ Len(new) = n
    BY NewEntries
  <1>2. \A i \in 1 .. n : new[i] = Entry(cuts[i], flags)
    BY DEF CutEntries
  <1> HIDE DEF new
  <1>3. \A i \in 1 .. n : cuts[i].page \in Pages
    <2>1. \A i \in 1 .. n : i \in 1 .. Len(cuts)
      OBVIOUS
    <2>2. \A i \in 1 .. n : cuts[i] \in Vecs
      BY <2>1, ElementOfSeq
    <2> QED
      BY <2>2 DEF Vecs
  <1>4. \A i \in 1 .. n : /\ new[i].page = cuts[i].page /\ new[i].offset = cuts[i].offset
                          /\ new[i].length = cuts[i].length
    <2> TAKE i \in 1 .. n
    <2>1. new[i] = [page |-> cuts[i].page, offset |-> cuts[i].offset, length |-> cuts[i].length, flags |-> flags]
      BY <1>2 DEF Entry
    <2> QED
      BY <2>1
  <1>5. InMemory(new)
    BY <1>1, <1>3, <1>4 DEF InMemory
  <1>6. \A i \in 1 .. n : Addr(new[i]) = Addr(cuts[i])
    BY <1>4 DEF Addr
  <1> QED
    BY <1>1, <1>2, <1>4, <1>5, <1>6 DEF new

(* An empty list has no bytes. *)
LEMMA NoBytes ==
    ASSUME NEW es, Extents(es), Len(es) = 0
    PROVE  LengthOf(es) = 0
  <1>1. PICK c : Sums(c, Len(es), Lens(es))
    BY ExtentsAre
  <1>2. LengthOf(es) = c[Len(es)]
    BY <1>1, LengthIs
  <1> QED
    BY <1>1, <1>2 DEF Sums

(* The entries of a buffer behind a list are the bytes of the buffer behind *)
(* its bytes.                                                               *)
IsBuffer(buffer, size) == buffer \in Nat /\ size \in Nat \ {0} /\ buffer + size <= NumPages * PageSize

BufferEntries(buffer, size, flags) ==
    CutEntries(PageCuts(buffer, size), Len(PageCuts(buffer, size)), flags)

(* The cuts of a buffer, appended, append its bytes. *)
LEMMA BytesBuffer ==
    ASSUME NEW es, InMemory(es), NEW buffer, NEW size, IsBuffer(buffer, size),
           NEW flags, flags \subseteq SgFlags, NEW new, new = BufferEntries(buffer, size, flags)
    PROVE  /\ InMemory(es \o new) /\ BytesOf(es \o new) = BytesOf(es) \o Span(buffer, size)
           /\ LengthOf(es \o new) = LengthOf(es) + LengthOf(new)
  <1> DEFINE cuts == PageCuts(buffer, size)
             n    == Len(cuts)
             part(m) == CutEntries(cuts, m, flags)
  <1>0. /\ buffer \in Nat /\ size \in Nat \ {0} /\ buffer + size <= NumPages * PageSize
        /\ flags \in SUBSET SgFlags
    BY DEF IsBuffer
  <1>1. cuts \in Seq(Vecs) /\ n \in Nat
    BY <1>0, CutsInPages
  <1>2. PICK d \in [0 .. n -> Nat] :
             /\ d[0] = 0 /\ d[n] = size
             /\ \A i \in 1 .. n : d[i] = d[i - 1] + cuts[i].length /\ Addr(cuts[i]) = buffer + d[i - 1]
    BY <1>0, CutsFollow
  <1>3. \A m \in 0 .. n :
          /\ InMemory(part(m)) /\ Len(part(m)) = m
          /\ \A i \in 1 .. m : /\ part(m)[i] = Entry(cuts[i], flags) /\ Addr(part(m)[i]) = Addr(cuts[i])
                               /\ part(m)[i].length = cuts[i].length
    BY <1>0, <1>1, CutEntriesAre
  <1> HIDE DEF cuts, n, part
  <1>4. \A m \in 0 .. n :
          /\ InMemory(es \o part(m)) /\ Len(es \o part(m)) = Len(es) + m
          /\ \A i \in 1 .. Len(es) : (es \o part(m))[i] = es[i]
          /\ \A k \in 1 .. m : (es \o part(m))[Len(es) + k] = part(m)[k]
    <2> TAKE m \in 0 .. n
    <2>1. InMemory(part(m)) /\ Len(part(m)) = m
      BY <1>3
    <2> DEFINE t == part(m)
    <2>2. InMemory(t)
      BY <2>1
    <2> HIDE DEF t
    <2>3. /\ InMemory(es \o t) /\ Len(es \o t) = Len(es) + Len(t)
          /\ \A i \in 1 .. Len(es) : (es \o t)[i] = es[i]
          /\ \A k \in 1 .. Len(t) : (es \o t)[Len(es) + k] = t[k]
      BY ONLY InMemory(es), <2>2, InMemoryConcat
    <2> QED
      BY <2>1, <2>3 DEF t
  <1>5. Len(es) \in Nat /\ es \in Seq(SgEntry) /\ Extents(es) /\ BytesOf(es) \in Seq(Int) /\ LengthOf(es) \in Nat
    <2>1. Extents(es)
      BY InMemoryExtents
    <2> QED
      BY <2>1, BytesLength DEF InMemory
  <1> DEFINE Good(m) == /\ BytesOf(es \o part(m)) = BytesOf(es) \o Span(buffer, d[m])
                        /\ LengthOf(es \o part(m)) = LengthOf(es) + d[m]
                        /\ LengthOf(part(m)) = d[m]
             S == {m \in Nat : m <= n => Good(m)}
  <1>6. 0 \in S
    <2>1. 0 \in 0 .. n
      BY <1>1
    <2>2. part(0) = << >>
      <3>1. part(0) \in Seq(SgEntry) /\ Len(part(0)) = 0
        BY <1>3, <2>1 DEF InMemory
      <3> QED
        BY <3>1, EmptySeq
    <2>3. es \o part(0) = es
      BY <1>5, <2>2, ConcatEmptySeq
    <2>4. Span(buffer, d[0]) = << >>
      <3>1. Span(buffer, 0) \in Seq(Int) /\ Len(Span(buffer, 0)) = 0
        BY <1>0, SpanIs
      <3> QED
        BY <1>2, <3>1, EmptySeq
    <2>5. BytesOf(es) \o << >> = BytesOf(es)
      BY <1>5, ConcatEmptySeq
    <2>6. LengthOf(part(0)) = 0
      <3>1. Extents(part(0)) /\ Len(part(0)) = 0
        BY <1>3, <2>1, InMemoryExtents
      <3> QED
        BY <3>1, NoBytes
    <2>7. 0 \in S
      <3>1. d[0] = 0 /\ LengthOf(es) + 0 = LengthOf(es)
        BY <1>2, <1>5
      <3>2. Good(0)
        BY <2>3, <2>4, <2>5, <2>6, <3>1
      <3> HIDE DEF Good
      <3> QED
        BY <3>2
    <2> QED
      BY <2>7
  <1>7. ASSUME NEW m \in Nat, m \in S PROVE m + 1 \in S
    <2> SUFFICES ASSUME m + 1 <= n PROVE Good(m + 1)
      OBVIOUS
    <2> DEFINE j == m + 1
               e == part(j)[j]
               old == es \o part(m)
               u == es \o part(j)
    <2>1. m \in 0 .. n /\ j \in 0 .. n /\ j \in 1 .. n /\ j - 1 = m /\ m <= n /\ j \in Nat
      BY <1>1
    <2>2. Good(m)
      BY <1>7, <2>1
    <2>3. /\ d[m] \in Nat /\ d[j] \in Nat /\ d[j] = d[m] + e.length /\ Addr(e) = buffer + d[m] /\ e.length \in Nat
      <3>1. e.length = cuts[j].length /\ Addr(e) = Addr(cuts[j])
        <4>1. \A i \in 1 .. j : Addr(part(j)[i]) = Addr(cuts[i]) /\ part(j)[i].length = cuts[i].length
          BY <1>3, <2>1
        <4>2. j \in 1 .. j
          BY <2>1
        <4> HIDE DEF j
        <4> QED
          BY <4>1, <4>2
      <3>2. d[j] = d[m] + cuts[j].length /\ Addr(cuts[j]) = buffer + d[m] /\ d[m] \in Nat /\ d[j] \in Nat
        <4>1. \A i \in 1 .. n : d[i] = d[i - 1] + cuts[i].length /\ Addr(cuts[i]) = buffer + d[i - 1]
          BY <1>2
        <4>2. \A i \in 0 .. n : d[i] \in Nat
          BY <1>2
        <4> QED
          BY <2>1, <4>1, <4>2
      <3>3. e.length \in Nat
        <4>1. InMemory(part(j)) /\ j \in 1 .. Len(part(j))
          BY <1>3, <2>1
        <4> QED
          BY <4>1, InMemoryExtents DEF Extents
      <3> QED
        BY <3>1, <3>2, <3>3
    <2> HIDE DEF j
    <2>4. /\ Extents(old) /\ Extents(u) /\ Extents(part(m)) /\ Extents(part(j))
          /\ Len(old) = Len(es) + m /\ Len(u) = Len(old) + 1
          /\ Len(part(j)) = Len(part(m)) + 1 /\ Len(part(m)) = m /\ Len(part(j)) = j
      <3>1. j = m + 1 /\ m \in Nat
        BY DEF j
      <3>2. /\ Extents(old) /\ Extents(u) /\ Extents(part(m)) /\ Extents(part(j))
            /\ Len(old) = Len(es) + m /\ Len(u) = Len(old) + 1
            /\ Len(part(j)) = Len(part(m)) + 1 /\ Len(part(m)) = m /\ Len(part(j)) = j
        <4>1. /\ InMemory(part(m)) /\ Len(part(m)) = m /\ InMemory(part(j)) /\ Len(part(j)) = j
              /\ InMemory(old) /\ Len(old) = Len(es) + m /\ InMemory(u) /\ Len(u) = Len(es) + j
          BY <1>3, <1>4, <2>1
        <4>2. Extents(old) /\ Extents(u) /\ Extents(part(m)) /\ Extents(part(j))
          BY <4>1, InMemoryExtents
        <4>3. Len(es) + j = (Len(es) + m) + 1
          BY <1>5, <3>1
        <4> HIDE DEF u, old
        <4> QED
          BY <3>1, <4>1, <4>2, <4>3
      <3> QED
        BY <3>2
    <2>5. \A i \in 1 .. m : part(j)[i] = part(m)[i]
      BY <1>3, <2>1
    <2>6. \A i \in 1 .. Len(old) : u[i] = old[i]
      <3> TAKE i \in 1 .. Len(old)
      <3>1. CASE i <= Len(es)
        <4>1. i \in 1 .. Len(es)
          BY <1>5, <2>1, <2>4, <3>1
        <4> QED
          BY <1>4, <2>1, <4>1
      <3>2. CASE ~(i <= Len(es))
        <4> DEFINE k == i - Len(es)
        <4>1. k \in 1 .. m /\ k \in 1 .. j /\ Len(es) + k = i
          BY <1>5, <2>1, <2>4, <3>2
        <4> HIDE DEF k
        <4>2. u[Len(es) + k] = part(j)[k] /\ old[Len(es) + k] = part(m)[k]
          BY <1>4, <2>1, <4>1
        <4> QED
          BY <2>5, <4>1, <4>2
      <3> QED
        BY <3>1, <3>2
    <2>7. u[Len(u)] = e /\ part(j)[Len(part(j))] = e
      <3>1. Len(u) = Len(es) + j /\ j \in 1 .. j
        BY <1>4, <2>1
      <3> QED
        BY <1>4, <2>1, <2>4, <3>1
    <2> HIDE DEF u, old, e
    <2>8. /\ BytesOf(u) = BytesOf(old) \o Span(Addr(e), e.length)
          /\ LengthOf(u) = LengthOf(old) + e.length
      <3>1. \A i \in 1 .. Len(old) : /\ u[i].page = old[i].page /\ u[i].offset = old[i].offset
                                     /\ u[i].length = old[i].length
        BY <2>6
      <3>2. Extents(old) /\ Extents(u) /\ Len(u) = Len(old) + 1 /\ u[Len(u)] = e
        BY <2>4, <2>7
      <3> QED
        BY ONLY <3>1, <3>2, BytesAppend, SMTT(20)
    <2>9. LengthOf(part(j)) = LengthOf(part(m)) + e.length
      <3> DEFINE x == part(m)
                 y == part(j)
      <3>1. /\ Len(x) = m /\ Extents(x) /\ Extents(y) /\ Len(y) = Len(x) + 1 /\ y[Len(y)] = e
            /\ \A i \in 1 .. m : y[i] = x[i]
        BY <2>1, <2>4, <2>5, <2>7
      <3> HIDE DEF x, y
      <3>2. \A i \in 1 .. Len(x) : y[i].page = x[i].page /\ y[i].offset = x[i].offset /\ y[i].length = x[i].length
        BY <3>1
      <3>3. Extents(x) /\ Extents(y) /\ Len(y) = Len(x) + 1 /\ y[Len(y)] = e
        BY <3>1
      <3>4. LengthOf(y) = LengthOf(x) + e.length
        BY ONLY <3>2, <3>3, BytesAppend
      <3> QED
        BY <3>4 DEF x, y
    <2>10. BytesOf(u) = BytesOf(es) \o Span(buffer, d[j])
      <3> DEFINE x == d[m]
                 y == e.length
                 p == Span(buffer, x)
                 q == Span(buffer + x, y)
                 b == BytesOf(es)
      <3>1. x \in Nat /\ y \in Nat /\ d[j] = x + y /\ Addr(e) = buffer + x /\ buffer \in Int /\ buffer + x \in Int
        BY <1>0, <2>3
      <3>2. BytesOf(u) = (b \o p) \o q
        BY <2>2, <2>3, <2>8 DEF old
      <3> HIDE DEF x, y, b
      <3>3. p \o q = Span(buffer, x + y)
        BY <3>1, SpanConcat
      <3>4. p \in Seq(Int) /\ q \in Seq(Int)
        <4> HIDE DEF p, q
        <4>1. p \in Seq(Int)
          BY <3>1, SpanIs DEF p
        <4>2. q \in Seq(Int)
          BY <3>1, SpanIs DEF q
        <4> QED
          BY <4>1, <4>2
      <3>5. b \in Seq(Int)
        BY <1>5 DEF b
      <3> HIDE DEF p, q
      <3>6. (b \o p) \o q = b \o (p \o q)
        BY ONLY <3>4, <3>5, BytesAssociative
      <3>7. BytesOf(u) = b \o Span(buffer, x + y)
        BY <3>2, <3>3, <3>6
      <3> QED
        BY <3>1, <3>7 DEF b
    <2>11. LengthOf(u) = LengthOf(es) + d[j] /\ LengthOf(part(j)) = d[j]
      BY <1>5, <2>2, <2>3, <2>8, <2>9 DEF old
    <2> QED
      BY <2>10, <2>11 DEF u, j
  <1>8. Nat \subseteq S
    BY <1>6, <1>7, SetInduction
  <1>9. Good(n)
    <2>1. n <= n
      BY <1>1
    <2> HIDE DEF Good
    <2> QED
      BY <1>1, <1>8, <2>1
  <1>10. n \in 0 .. n
    BY <1>1
  <1>11. new = part(n)
    BY DEF part, n, cuts, BufferEntries
  <1> QED
    BY <1>2, <1>4, <1>9, <1>10, <1>11

(* Flags are no part of the bytes. *)
LEMMA BytesSame ==
    ASSUME NEW es, Extents(es), NEW u, Extents(u), Len(u) = Len(es),
           \A i \in 1 .. Len(es) : u[i].page = es[i].page /\ u[i].offset = es[i].offset /\ u[i].length = es[i].length
    PROVE  BytesOf(u) = BytesOf(es) /\ LengthOf(u) = LengthOf(es)
  <1>1. Addrs(u) = Addrs(es) /\ Lens(u) = Lens(es)
    <2>1. \A i \in 1 .. Len(es) : Addr(u[i]) = Addr(es[i]) /\ u[i].length = es[i].length
      BY DEF Addr
    <2> QED
      BY <2>1 DEF Addrs, Lens
  <1>2. BytesOf(u) = BytesOf(es)
    <2>1. BytesOf(es) = Spans(Len(es), Addrs(es), Lens(es))
      BY ExtentsAre
    <2>2. BytesOf(u) = Spans(Len(u), Addrs(u), Lens(u))
      BY ExtentsAre
    <2> QED
      BY <1>1, <2>1, <2>2
  <1>3. PICK c : Sums(c, Len(es), Lens(es))
    BY ExtentsAre
  <1>4. Sums(c, Len(u), Lens(u))
    BY <1>1, <1>3
  <1>5. LengthOf(es) = c[Len(es)]
    BY <1>3, LengthIs
  <1>6. LengthOf(u) = c[Len(u)]
    BY <1>4, LengthIs
  <1> QED
    BY <1>2, <1>5, <1>6

(* No entries, no bytes. *)
LEMMA EmptyBytes == InMemory(<< >>) /\ Extents(<< >>) /\ BytesOf(<< >>) = << >> /\ LengthOf(<< >>) = 0
  <1>1. InMemory(<< >>)
    BY DEF InMemory
  <1>2. Extents(<< >>) /\ Len(<< >>) = 0
    BY <1>1, InMemoryExtents
  <1>3. LengthOf(<< >>) = 0
    BY <1>2, NoBytes
  <1>4. BytesOf(<< >>) \in Seq(Int) /\ Len(BytesOf(<< >>)) = 0
    BY <1>2, <1>3, BytesLength
  <1>5. BytesOf(<< >>) = << >>
    BY <1>4, EmptySeq
  <1> QED
    BY <1>1, <1>2, <1>3, <1>5

(* A segment of a bio behind a list, on its own or merged. *)
LEMMA BytesVec ==
    ASSUME NEW es, InMemory(es), NEW vec \in Vecs, InPage(vec)
    PROVE  /\ InMemory(MergeVec(es, vec))
           /\ BytesOf(MergeVec(es, vec)) = BytesOf(es) \o Span(Addr(vec), vec.length)
           /\ LengthOf(MergeVec(es, vec)) = LengthOf(es) + vec.length
  <1> DEFINE n   == Len(es)
             out == MergeVec(es, vec)
             merged == /\ es # << >> /\ Last(es).page = vec.page
                       /\ Last(es).offset + Last(es).length = vec.offset
  <1>1. /\ es \in Seq(SgEntry) /\ n \in Nat /\ Extents(es) /\ out \in Seq(SgEntry)
        /\ \A i \in 1 .. n : es[i] \in SgEntry /\ es[i].page \in Pages
    <2>1. es \in Seq(SgEntry)
      BY DEF InMemory
    <2>2. out \in Seq(SgEntry)
      BY <2>1, MergeKeepsPins
    <2> QED
      BY <2>1, <2>2, InMemoryExtents, ElementOfSeq DEF InMemory
  <1>2. CASE merged
    <2> DEFINE long == [es[n] EXCEPT !.length = @ + vec.length]
    <2>1. n \in 1 .. n /\ es[n] \in SgEntry /\ Last(es) = es[n]
      BY <1>1, <1>2, EmptySeq DEF Last
    <2>2. es[n].offset + es[n].length = vec.offset /\ es[n].page = vec.page
      BY <1>2, <2>1
    <2>3. /\ long.page = es[n].page /\ long.offset = es[n].offset /\ long.length = es[n].length + vec.length
      BY <2>1 DEF SgEntry
    <2>4. out = [es EXCEPT ![n] = long]
      BY <1>2 DEF MergeVec
    <2> HIDE DEF long, out, merged
    <2>5. Len(out) = n /\ \A i \in 1 .. n : out[i] = IF i = n THEN long ELSE es[i]
      BY <1>1, <2>4
    <2>6. \A i \in 1 .. n : out[i].page = es[i].page /\ out[i].offset = es[i].offset
      BY <2>3, <2>5
    <2>7. InMemory(out)
      BY <1>1, <2>5, <2>6 DEF InMemory
    <2>8. Extents(out)
      BY <2>7, InMemoryExtents
    <2>9. vec.length \in Nat
      BY DEF Vecs
    <2>10. \A i \in 1 .. n : i # n => out[i].length = es[i].length
      BY <2>5
    <2>11. out[n].length = es[n].length + vec.length /\ n # 0
      BY <2>1, <2>3, <2>5
    <2>12. BytesOf(out) = BytesOf(es) \o Span(Addr(vec), vec.length) /\ LengthOf(out) = LengthOf(es) + vec.length
      BY <1>1, <2>2, <2>5, <2>6, <2>8, <2>9, <2>10, <2>11, BytesMerge
    <2> QED
      BY <2>7, <2>12 DEF out
  <1>3. CASE ~merged
    <2> DEFINE e == Entry(vec, {})
    <2>1. e.page = vec.page /\ e.offset = vec.offset /\ e.length = vec.length /\ e \in SgEntry /\ e.page \in Pages
      BY DEF Entry, Vecs, SgEntry
    <2>2. out = Append(es, e)
      BY <1>3 DEF MergeVec
    <2> HIDE DEF e, out, merged
    <2>3. Len(out) = n + 1 /\ out[n + 1] = e /\ \A i \in 1 .. n : out[i] = es[i]
      BY <1>1, <2>1, <2>2, AppendProperties
    <2>4. InMemory(out)
      BY <1>1, <2>1, <2>3 DEF InMemory
    <2>5. Extents(out)
      BY <2>4, InMemoryExtents
    <2>6. Addr(e) = Addr(vec)
      BY <2>1 DEF Addr
    <2>7. BytesOf(out) = BytesOf(es) \o Span(Addr(e), e.length) /\ LengthOf(out) = LengthOf(es) + e.length
      BY <1>1, <2>3, <2>5, BytesAppend
    <2> QED
      BY <2>1, <2>4, <2>6, <2>7 DEF out
  <1> QED
    BY <1>2, <1>3

(* The bytes and the length of two segments. *)
LEMMA TwoSegments ==
    ASSUME NEW v1 \in Vecs, NEW v2 \in Vecs
    PROVE  /\ SegmentSpans(<<v1, v2>>) = Span(Addr(v1), v1.length) \o Span(Addr(v2), v2.length)
           /\ LengthOf(<<v1, v2>>) = v1.length + v2.length
  <1> DEFINE s1 == Span(Addr(v1), v1.length)
             s2 == Span(Addr(v2), v2.length)
             ss == <<s1, s2>>
  <1>1. SegmentSpans(<<v1, v2>>) = FlattenSeq(ss)
    <2> DEFINE segs == <<v1, v2>>
               fs == [i \in DOMAIN segs |-> Span(segs[i].page * PageSize + segs[i].offset, segs[i].length)]
    <2>1. DOMAIN segs = 1 .. 2 /\ segs[1] = v1 /\ segs[2] = v2
      OBVIOUS
    <2>2. fs = [i \in 1 .. 2 |-> Span(segs[i].page * PageSize + segs[i].offset, segs[i].length)]
      BY <2>1
    <2>3. fs[1] = s1 /\ fs[2] = s2
      BY <2>1, <2>2 DEF Addr
    <2>4. fs = <<fs[1], fs[2]>>
      <3> HIDE DEF segs
      <3> QED
        BY <2>2
    <2>5. fs = ss
      BY <2>3, <2>4
    <2> QED
      BY <2>5 DEF SegmentSpans
  <1>2. FlattenSeq(ss) = s1 \o s2
    <2> HIDE DEF s1, s2
    <2>1. Len(ss) = 2 /\ ss[1] = s1 /\ ss[2] = s2
      OBVIOUS
    <2> HIDE DEF ss
    <2>2. IsFlat(Flat(ss), ss, Len(ss))
      <3>1. \E f : IsFlat(f, ss, Len(ss))
        BY <2>1, FlatExists
      <3> QED
        BY <3>1 DEF Flat
    <2> DEFINE f == Flat(ss)
               n == Len(ss)
    <2>3. IsFlat(f, ss, n) /\ n = 2
      BY <2>1, <2>2
    <2> HIDE DEF f, n
    <2>4. f[1] = ss[1] /\ f[2] = f[1] \o ss[2]
      <3>1. \A i \in 1 .. n : f[i] = IF i = 1 THEN ss[i] ELSE f[i - 1] \o ss[i]
        BY <2>3 DEF IsFlat
      <3>2. 1 \in 1 .. n /\ 2 \in 1 .. n /\ 2 # 1 /\ 2 - 1 = 1
        BY <2>3
      <3> QED
        BY <3>1, <3>2
    <2>5. FlattenSeq(ss) = f[n]
      <3>1. n # 0
        BY <2>3
      <3> QED
        BY <3>1, FlattenIs DEF f, n
    <2> QED
      BY <2>1, <2>3, <2>4, <2>5
  <1>3. LengthOf(<<v1, v2>>) = v1.length + v2.length
    <2>1. /\ v1.page \in Nat /\ v1.offset \in Nat /\ v1.length \in Nat
          /\ v2.page \in Nat /\ v2.offset \in Nat /\ v2.length \in Nat
      BY PageSizeType DEF Vecs, Pages
    <2>2. Extents(<<v1>>) /\ Len(<<v1>>) = 1 /\ <<v1>>[1] = v1
      BY <2>1 DEF Extents
    <2>3. Extents(<<v1, v2>>) /\ Len(<<v1, v2>>) = 2 /\ <<v1, v2>>[1] = v1 /\ <<v1, v2>>[2] = v2
      <3> DEFINE p == <<v1, v2>>
      <3>1. Len(p) = 2 /\ DOMAIN p = 1 .. 2 /\ p[1] = v1 /\ p[2] = v2
        OBVIOUS
      <3>2. \A i \in 1 .. 2 : i = 1 \/ i = 2
        OBVIOUS
      <3> HIDE DEF p
      <3>3. Extents(p)
        BY <2>1, <3>1, <3>2 DEF Extents
      <3> QED
        BY <3>1, <3>3 DEF p
    <2>4. LengthOf(<<v1>>) = 0 + v1.length
      <3>1. Len(<< >>) = 0 /\ Len(<<v1>>) = Len(<< >>) + 1
        BY <2>2
      <3>2. \A i \in 1 .. Len(<< >>) : FALSE
        BY <3>1
      <3>3. <<v1>>[Len(<<v1>>)] = v1
        BY <2>2
      <3> DEFINE x == << >>
                 y == <<v1>>
      <3>4. Extents(x) /\ Extents(y) /\ Len(y) = Len(x) + 1 /\ y[Len(y)] = v1 /\ LengthOf(x) = 0
        BY <2>2, <3>1, <3>3, EmptyBytes
      <3>5. \A i \in 1 .. Len(x) : y[i].page = x[i].page /\ y[i].offset = x[i].offset /\ y[i].length = x[i].length
        BY <3>2
      <3> HIDE DEF x, y
      <3>6. LengthOf(y) = LengthOf(x) + v1.length
        BY <3>4, <3>5, BytesAppend
      <3> QED
        BY <3>4, <3>6 DEF y
    <2> DEFINE x == <<v1>>
               y == <<v1, v2>>
    <2>5. Extents(x) /\ Extents(y) /\ Len(x) = 1 /\ Len(y) = Len(x) + 1 /\ y[Len(y)] = v2 /\ x[1] = y[1]
      BY <2>2, <2>3
    <2>6. LengthOf(x) = 0 + v1.length
      BY <2>4
    <2> HIDE DEF x, y
    <2>7. \A i \in 1 .. Len(x) : y[i].page = x[i].page /\ y[i].offset = x[i].offset /\ y[i].length = x[i].length
      <3>1. \A i \in 1 .. Len(x) : i = 1
        BY <2>5
      <3> QED
        BY <2>5, <3>1
    <2>8. LengthOf(y) = LengthOf(x) + v2.length
      <3>1. Extents(x) /\ Extents(y) /\ Len(y) = Len(x) + 1 /\ y[Len(y)] = v2
        BY <2>5
      <3> QED
        BY ONLY <2>7, <3>1, BytesAppend
    <2> QED
      BY <2>1, <2>6, <2>8 DEF y
  <1> QED
    BY <1>1, <1>2, <1>3

-----------------------------------------------------------------------------
(* The list is what was asked for *)

(* Until an error path is taken, the list is the bytes that were asked for. *)
ListIsAsked ==
    /\ InMemory(sg_list) /\ BytesOf(sg_list) = sg_asked /\ sg_size = LengthOf(sg_list)

BytesInv == ~sg_lost => ListIsAsked

(* No list, no bytes. *)
LEMMA BytesInit == ScatterInit => BytesInv
  <1> SUFFICES ASSUME ScatterInit PROVE ListIsAsked
    BY DEF BytesInv
  <1>1. sg_list = << >> /\ sg_size = 0 /\ sg_asked = << >>
    BY DEF ScatterInit
  <1> QED
    BY <1>1, EmptyBytes DEF ListIsAsked

(* A buffer, in each of the three ways it can go. *)
LEMMA MapBytesBytes ==
    ASSUME SgInv, BytesInv, NEW buffer \in Nat, NEW size \in Nat \ {0}, buffer + size <= NumPages * PageSize,
           NEW user \in BOOLEAN, kfio_sgl_map_bytes_gen(buffer, size, user)
    PROVE  BytesInv'
  <1> DEFINE cuts  == PageCuts(buffer, size)
             room  == sg_max - Len(sg_list)
             flags == IF user THEN {"SGE_USER"} ELSE {}
             new(n) == CutEntries(cuts, n, flags)
  <1>1. /\ Mappable
        /\ \/ /\ sg_list' = sg_list \o new(Len(cuts)) /\ sg_size' = sg_size + LengthOf(new(Len(cuts)))
              /\ sg_asked' = sg_asked \o Span(buffer, size)
           \/ sg_lost' = TRUE
           \/ /\ \E n \in 0 .. Lesser(Len(cuts), room) - 1 :
                   /\ sg_list' = sg_list \o new(n) /\ sg_size' = sg_size + LengthOf(new(n))
                   /\ sg_lost' = (n > 0)
                   /\ sg_asked' = IF n > 0 THEN << >> ELSE sg_asked
    BY DEF kfio_sgl_map_bytes_gen, Append_cuts, CutEntries
  <1>2. flags \in SUBSET SgFlags
    BY DEF SgFlags
  <1>3. InMemory(sg_list) /\ BytesOf(sg_list) = sg_asked /\ sg_size = LengthOf(sg_list) /\ sg_list \in Seq(SgEntry)
    BY <1>1 DEF Mappable, BytesInv, ListIsAsked, InMemory
  <1>4. LengthOf(sg_list) \in Nat
    BY <1>3, InMemoryExtents, BytesLength
  <1>5. ASSUME sg_list' = sg_list \o new(Len(cuts)), sg_size' = sg_size + LengthOf(new(Len(cuts))),
               sg_asked' = sg_asked \o Span(buffer, size)
        PROVE  BytesInv'
    <2> DEFINE t == new(Len(cuts))
    <2>1. /\ InMemory(sg_list \o t) /\ BytesOf(sg_list \o t) = BytesOf(sg_list) \o Span(buffer, size)
          /\ LengthOf(sg_list \o t) = LengthOf(sg_list) + LengthOf(t)
      <3>1. t = BufferEntries(buffer, size, flags)
        BY DEF BufferEntries
      <3>3. IsBuffer(buffer, size) /\ flags \subseteq SgFlags
        BY <1>2 DEF IsBuffer
      <3>2. InMemory(sg_list)
        BY <1>3
      <3> HIDE DEF t, flags, new, cuts, room
      <3> QED
        BY ONLY <3>1, <3>2, <3>3, BytesBuffer
    <2> HIDE DEF t
    <2>2. sg_list' = sg_list \o t /\ sg_size' = sg_size + LengthOf(t)
      BY <1>5 DEF t
    <2>3. InMemory(sg_list') /\ BytesOf(sg_list') = sg_asked' /\ sg_size' = LengthOf(sg_list')
      BY <1>3, <1>5, <2>1, <2>2
    <2> QED
      BY <2>3 DEF BytesInv, ListIsAsked
  <1>6. ASSUME sg_lost' = TRUE PROVE BytesInv'
    BY <1>6 DEF BytesInv
  <1>7. ASSUME NEW n \in 0 .. Lesser(Len(cuts), room) - 1,
               sg_list' = sg_list \o new(n), sg_size' = sg_size + LengthOf(new(n)),
               sg_lost' = (n > 0), sg_asked' = IF n > 0 THEN << >> ELSE sg_asked
        PROVE  BytesInv'
    <2>1. CASE n > 0
      <3>1. sg_lost'
        BY <1>7, <2>1
      <3> QED
        BY <3>1 DEF BytesInv
    <2>2. CASE ~(n > 0)
      <3>1. n = 0
        BY <2>2
      <3>2. new(n) = << >>
        BY <3>1 DEF CutEntries
      <3>3. sg_list' = sg_list
        BY <1>3, <1>7, <3>2, ConcatEmptySeq
      <3>4. sg_size' = sg_size
        BY <1>3, <1>4, <1>7, <3>2, EmptyBytes
      <3>5. sg_asked' = sg_asked
        BY <1>7, <2>2
      <3>6. InMemory(sg_list') /\ BytesOf(sg_list') = sg_asked' /\ sg_size' = LengthOf(sg_list')
        BY <1>3, <3>3, <3>4, <3>5
      <3> QED
        BY <3>6 DEF BytesInv, ListIsAsked
    <2> QED
      BY <2>1, <2>2
  <1> HIDE DEF new, cuts, flags, room
  <1> QED
    BY <1>1, <1>5, <1>6, <1>7

(* A page, or a part of one. *)
LEMMA MapPageBytes ==
    ASSUME SgInv, BytesInv, NEW vec \in Vecs, kfio_sgl_map_page(vec.page, vec.offset, vec.length)
    PROVE  BytesInv'
  <1> DEFINE cuts == <<[page |-> vec.page, offset |-> vec.offset, length |-> vec.length]>>
             new  == CutEntries(cuts, 1, {})
             addr == vec.page * PageSize + vec.offset
  <1>1. /\ Mappable /\ sg_list' = sg_list \o new /\ sg_size' = sg_size + LengthOf(new)
        /\ sg_asked' = sg_asked \o Span(addr, vec.length)
    BY DEF kfio_sgl_map_page, Append_cuts, CutEntries
  <1>2. cuts \in Seq(Vecs) /\ Len(cuts) = 1 /\ cuts[1] = vec
    BY DEF Vecs
  <1> HIDE DEF cuts
  <1>3. InMemory(new) /\ Len(new) = 1 /\ Addr(new[1]) = Addr(vec) /\ new[1].length = vec.length
    <2>1. 1 \in 0 .. Len(cuts) /\ {} \in SUBSET SgFlags /\ 1 \in 1 .. 1
      BY <1>2
    <2>2. /\ InMemory(new) /\ Len(new) = 1
          /\ \A i \in 1 .. 1 : Addr(new[i]) = Addr(cuts[i]) /\ new[i].length = cuts[i].length
      BY <1>2, <2>1, CutEntriesAre
    <2> HIDE DEF new
    <2> QED
      BY <1>2, <2>1, <2>2
  <1> HIDE DEF new
  <1>4. InMemory(sg_list) /\ BytesOf(sg_list) = sg_asked /\ sg_size = LengthOf(sg_list)
    BY <1>1 DEF Mappable, BytesInv, ListIsAsked
  <1> DEFINE u == sg_list \o new
             e == new[1]
  <1>5. /\ InMemory(u) /\ Len(u) = Len(sg_list) + Len(new)
        /\ \A i \in 1 .. Len(sg_list) : u[i] = sg_list[i]
        /\ \A k \in 1 .. Len(new) : u[Len(sg_list) + k] = new[k]
    <2>1. InMemory(sg_list) /\ InMemory(new)
      BY <1>3, <1>4
    <2> QED
      BY ONLY <2>1, InMemoryConcat
  <1> HIDE DEF u, e
  <1>6. Extents(u) /\ Extents(sg_list) /\ Extents(new)
    BY <1>3, <1>4, <1>5, InMemoryExtents
  <1>7. Len(u) = Len(sg_list) + 1 /\ u[Len(u)] = e /\ new[Len(new)] = e
    <2>1. 1 \in 1 .. Len(new) /\ Len(new) = 1
      BY <1>3
    <2> QED
      BY <1>5, <2>1 DEF e
  <1>8. BytesOf(u) = BytesOf(sg_list) \o Span(Addr(e), e.length) /\ LengthOf(u) = LengthOf(sg_list) + e.length
    <2>1. \A i \in 1 .. Len(sg_list) : /\ u[i].page = sg_list[i].page /\ u[i].offset = sg_list[i].offset
                                        /\ u[i].length = sg_list[i].length
      BY <1>5
    <2>2. Extents(sg_list) /\ Extents(u) /\ Len(u) = Len(sg_list) + 1 /\ u[Len(u)] = e
      BY <1>6, <1>7
    <2> QED
      BY ONLY <2>1, <2>2, BytesAppend
  <1>9. LengthOf(new) = e.length
    <2> DEFINE x == << >>
    <2>1. Extents(x) /\ LengthOf(x) = 0 /\ Len(x) = 0 /\ e.length \in Nat
      BY <1>3, <1>6, <1>7, EmptyBytes DEF Extents
    <2>2. \A i \in 1 .. Len(x) : new[i].page = x[i].page /\ new[i].offset = x[i].offset /\ new[i].length = x[i].length
      BY <2>1
    <2>3. Len(new) = Len(x) + 1
      BY <1>3, <2>1
    <2> HIDE DEF x
    <2>4. LengthOf(new) = LengthOf(x) + e.length
      <3>1. Extents(x) /\ Extents(new) /\ new[Len(new)] = e
        BY <1>6, <1>7, <2>1
      <3> QED
        BY ONLY <2>2, <2>3, <3>1, BytesAppend
    <2> QED
      BY <2>1, <2>4
  <1>10. Addr(e) = addr /\ e.length = vec.length
    BY <1>3 DEF e, Addr
  <1>11. InMemory(sg_list') /\ BytesOf(sg_list') = sg_asked' /\ sg_size' = LengthOf(sg_list')
    <2>1. sg_list' = u
      BY <1>1 DEF u
    <2> QED
      BY <1>1, <1>4, <1>5, <1>8, <1>9, <1>10, <2>1
  <1> QED
    BY <1>11 DEF BytesInv, ListIsAsked

(* The list after the two segments of a bio. *)
LEMMA TwoMerged ==
    ASSUME NEW v1, NEW v2
    PROVE  WithSegments(<<v1, v2>>) = MergeVec(MergeVec(sg_list, v1), v2)
  <1> DEFINE e1 == MergeVec(sg_list, v1)
             e2 == MergeVec(e1, v2)
             segs == <<v1, v2>>
             D(f) == [i \in 0 .. Len(segs) |-> IF i = 0 THEN sg_list ELSE MergeVec(f[i - 1], segs[i])]
             es   == CHOOSE f : f = D(f)
             g    == [i \in 0 .. 2 |-> IF i = 0 THEN sg_list ELSE IF i = 1 THEN e1 ELSE e2]
  <1>1. WithSegments(segs) = es[Len(segs)]
    BY DEF WithSegments
  <1>2. Len(segs) = 2 /\ segs[1] = v1 /\ segs[2] = v2
    OBVIOUS
  <1>3. g = D(g)
    <2>1. g[0] = sg_list /\ g[1] = e1 /\ g[2] = e2 /\ DOMAIN g = 0 .. 2
      OBVIOUS
    <2>2. D(g) = [i \in 0 .. 2 |-> IF i = 0 THEN sg_list ELSE MergeVec(g[i - 1], segs[i])]
      BY <1>2
    <2> HIDE DEF e1, e2, segs
    <2>3. \A i \in 0 .. 2 : g[i] = IF i = 0 THEN sg_list ELSE MergeVec(g[i - 1], segs[i])
      <3>1. e1 = MergeVec(sg_list, segs[1]) /\ e2 = MergeVec(e1, segs[2])
        BY <1>2 DEF e1, e2
      <3> QED
        BY <2>1, <3>1
    <2>4. g = [i \in 0 .. 2 |-> g[i]]
      OBVIOUS
    <2> HIDE DEF g, D
    <2>5. [i \in 0 .. 2 |-> g[i]] = [i \in 0 .. 2 |-> IF i = 0 THEN sg_list ELSE MergeVec(g[i - 1], segs[i])]
      BY <2>3
    <2> QED
      BY <2>2, <2>4, <2>5
  <1> HIDE DEF g
  <1>4. es = D(es)
    <2> HIDE DEF D
    <2> QED
      BY <1>3
  <1> HIDE DEF es, segs, e1, e2
  <1>5. es[0] = sg_list /\ es[1] = MergeVec(es[0], segs[1]) /\ es[2] = MergeVec(es[1], segs[2])
    <2>1. \A i \in 0 .. 2 : es[i] = IF i = 0 THEN sg_list ELSE MergeVec(es[i - 1], segs[i])
      BY <1>2, <1>4
    <2> QED
      BY <2>1
  <1>6. es[2] = e2
    BY <1>2, <1>5 DEF e1, e2
  <1> QED
    BY <1>1, <1>2, <1>6 DEF segs, e1, e2

(* The segments of a bio, merged or not. *)
LEMMA MapBioBytes ==
    ASSUME SgInv, BytesInv, NEW v1 \in Vecs, NEW v2 \in Vecs, InPage(v1), InPage(v2), kfio_sgl_map_bio(<<v1, v2>>)
    PROVE  BytesInv'
  <1> DEFINE e1 == MergeVec(sg_list, v1)
             e2 == MergeVec(e1, v2)
             s1 == Span(Addr(v1), v1.length)
             s2 == Span(Addr(v2), v2.length)
  <1>1. /\ Mappable /\ sg_list' = e2 /\ sg_size' = sg_size + (v1.length + v2.length)
        /\ sg_asked' = sg_asked \o (s1 \o s2)
    <2>1. /\ Mappable /\ sg_list' = WithSegments(<<v1, v2>>) /\ sg_size' = sg_size + LengthOf(<<v1, v2>>)
          /\ sg_asked' = sg_asked \o SegmentSpans(<<v1, v2>>)
      BY DEF kfio_sgl_map_bio
    <2>2. WithSegments(<<v1, v2>>) = e2
      BY TwoMerged
    <2>3. SegmentSpans(<<v1, v2>>) = s1 \o s2 /\ LengthOf(<<v1, v2>>) = v1.length + v2.length
      BY TwoSegments
    <2> QED
      BY <2>1, <2>2, <2>3
  <1>2. InMemory(sg_list) /\ BytesOf(sg_list) = sg_asked /\ sg_size = LengthOf(sg_list)
    BY <1>1 DEF Mappable, BytesInv, ListIsAsked
  <1>3. BytesOf(sg_list) \in Seq(Int) /\ LengthOf(sg_list) \in Nat
    BY <1>2, InMemoryExtents, BytesLength
  <1>4. InMemory(e1) /\ BytesOf(e1) = BytesOf(sg_list) \o s1 /\ LengthOf(e1) = LengthOf(sg_list) + v1.length
    BY <1>2, BytesVec
  <1> HIDE DEF e1
  <1>5. InMemory(e2) /\ BytesOf(e2) = BytesOf(e1) \o s2 /\ LengthOf(e2) = LengthOf(e1) + v2.length
    BY <1>4, BytesVec
  <1>6. s1 \in Seq(Int) /\ s2 \in Seq(Int) /\ v1.length \in Nat /\ v2.length \in Nat
    <2>1. \A v \in Vecs : Addr(v) \in Int /\ v.length \in Nat
      <3> TAKE v \in Vecs
      <3>1. v.page \in Nat /\ v.offset \in Nat /\ v.length \in Nat
        BY PageSizeType DEF Vecs, Pages
      <3>2. \A x \in Nat : x * PageSize \in Nat
        BY PageSizeType
      <3>3. v.page * PageSize \in Nat
        BY <3>1, <3>2
      <3> QED
        BY <3>1, <3>3 DEF Addr
    <2> QED
      BY <2>1, SpanIs
  <1> HIDE DEF e2, s1, s2
  <1>7. (BytesOf(sg_list) \o s1) \o s2 = BytesOf(sg_list) \o (s1 \o s2)
    <2> DEFINE b == BytesOf(sg_list)
    <2>1. b \in Seq(Int)
      BY <1>3
    <2> HIDE DEF b
    <2>2. (b \o s1) \o s2 = b \o (s1 \o s2)
      BY ONLY <1>6, <2>1, BytesAssociative
    <2> QED
      BY <2>2 DEF b
  <1>8. InMemory(sg_list') /\ BytesOf(sg_list') = sg_asked' /\ sg_size' = LengthOf(sg_list')
    <2>1. BytesOf(e2) = sg_asked' /\ sg_size' = LengthOf(e2)
      BY <1>1, <1>2, <1>3, <1>4, <1>5, <1>6, <1>7
    <2> QED
      BY <1>1, <1>5, <2>1
  <1> QED
    BY <1>8 DEF BytesInv, ListIsAsked

(* Mapping for DMA changes flags only. *)
LEMMA DmaMapBytes ==
    ASSUME SgInv, BytesInv, NEW read \in BOOLEAN, kfio_sgl_dma_map(read)
    PROVE  BytesInv'
  <1> SUFFICES ASSUME ~sg_lost' PROVE ListIsAsked'
    BY DEF BytesInv
  <1> DEFINE new == [i \in DOMAIN sg_list |->
                       IF read THEN [sg_list[i] EXCEPT !.flags = @ \cup {"SGE_READ_MAPPED"}] ELSE sg_list[i]]
  <1>1. sg_list' = new /\ UNCHANGED <<sg_size, sg_asked, sg_lost>>
    BY DEF kfio_sgl_dma_map
  <1>2. InMemory(sg_list) /\ BytesOf(sg_list) = sg_asked /\ sg_size = LengthOf(sg_list)
    BY <1>1 DEF BytesInv, ListIsAsked
  <1>3. sg_list \in Seq(SgEntry) /\ DOMAIN sg_list = 1 .. Len(sg_list) /\ Len(sg_list) \in Nat
    BY <1>2 DEF InMemory
  <1>4. sg_list' \in Seq(SgEntry)
    <2>1. SgInv'
      BY DmaMapStep
    <2> QED
      BY <2>1 DEF SgInv, SgTypes
  <1>5. ASSUME NEW i \in 1 .. Len(sg_list)
        PROVE  /\ new[i].page = sg_list[i].page /\ new[i].offset = sg_list[i].offset
               /\ new[i].length = sg_list[i].length
    <2>1. sg_list[i] \in SgEntry
      BY <1>3, ElementOfSeq
    <2>2. CASE read
      <3>1. new[i] = [sg_list[i] EXCEPT !.flags = @ \cup {"SGE_READ_MAPPED"}]
        BY <1>3, <2>2
      <3> HIDE DEF new
      <3> QED
        BY <2>1, <3>1 DEF SgEntry
    <2>3. CASE ~read
      BY <1>3, <2>3
    <2> QED
      BY <2>2, <2>3
  <1>6. Len(new) = Len(sg_list)
    BY <1>3
  <1> HIDE DEF new
  <1>7. new \in Seq(SgEntry)
    BY <1>1, <1>4
  <1>8. InMemory(new)
    BY <1>2, <1>5, <1>6, <1>7 DEF InMemory
  <1>9. Extents(new) /\ Extents(sg_list)
    BY <1>2, <1>8, InMemoryExtents
  <1>10. BytesOf(new) = BytesOf(sg_list) /\ LengthOf(new) = LengthOf(sg_list)
    BY <1>5, <1>6, <1>9, BytesSame
  <1>11. InMemory(sg_list') /\ BytesOf(sg_list') = sg_asked' /\ sg_size' = LengthOf(sg_list')
    BY <1>1, <1>2, <1>8, <1>10
  <1> QED
    BY <1>11 DEF ListIsAsked

(* Every step. *)
LEMMA BytesStep ==
    ASSUME SgInv, BytesInv, [ScatterNext]_sgVars
    PROVE  BytesInv'
  <1>1. ASSUME NEW n \in 1 .. MaxVecs, kfio_sgl_alloc_nvec(n) PROVE BytesInv'
    <2>1. ~sg_lost /\ sg_max = 0 /\ sg_list' = << >> /\ sg_size' = 0 /\ sg_asked' = sg_asked
      BY <1>1 DEF kfio_sgl_alloc_nvec
    <2>2. sg_list = << >>
      BY <2>1, EmptySeq DEF SgInv, SgTypes
    <2>3. InMemory(sg_list') /\ BytesOf(sg_list') = sg_asked' /\ sg_size' = LengthOf(sg_list')
      BY <2>1, <2>2, EmptyBytes DEF BytesInv, ListIsAsked
    <2> QED
      BY <2>3 DEF BytesInv, ListIsAsked
  <1>2. ASSUME NEW buffer \in 0 .. NumPages * PageSize - 1, NEW size \in 1 .. MaxBytes, NEW user \in BOOLEAN,
               buffer + size <= NumPages * PageSize, kfio_sgl_map_bytes_gen(buffer, size, user)
        PROVE  BytesInv'
    <2>1. buffer \in Nat /\ size \in Nat \ {0}
      BY PageSizeType, ScatterBounds
    <2> QED
      BY <1>2, <2>1, MapBytesBytes
  <1>3. ASSUME NEW vec \in Vecs, kfio_sgl_map_page(vec.page, vec.offset, vec.length) PROVE BytesInv'
    BY <1>3, MapPageBytes
  <1>4. ASSUME NEW v1 \in {v \in Vecs : InPage(v)}, NEW v2 \in {v \in Vecs : InPage(v)},
               kfio_sgl_map_bio(<<v1, v2>>)
        PROVE  BytesInv'
    BY <1>4, MapBioBytes
  <1>5. ASSUME kfio_sgl_reset PROVE BytesInv'
    <2>1. sg_list' = << >> /\ sg_size' = 0 /\ sg_asked' = << >>
      BY <1>5 DEF kfio_sgl_reset
    <2>2. InMemory(sg_list') /\ BytesOf(sg_list') = sg_asked' /\ sg_size' = LengthOf(sg_list')
      BY <2>1, EmptyBytes
    <2> QED
      BY <2>2 DEF BytesInv, ListIsAsked
  <1>6. ASSUME UNCHANGED <<sg_list, sg_size, sg_asked, sg_lost>> PROVE BytesInv'
    <2>1. sg_list' = sg_list /\ sg_size' = sg_size /\ sg_asked' = sg_asked /\ sg_lost' = sg_lost
      BY <1>6
    <2>2. ASSUME ~sg_lost PROVE InMemory(sg_list') /\ BytesOf(sg_list') = sg_asked' /\ sg_size' = LengthOf(sg_list')
      BY <2>1, <2>2 DEF BytesInv, ListIsAsked
    <2> QED
      BY <2>1, <2>2 DEF BytesInv, ListIsAsked
  <1>7. ASSUME NEW read \in BOOLEAN, kfio_sgl_dma_map(read) PROVE BytesInv'
    BY <1>7, DmaMapBytes
  <1>8. CASE kfio_sgl_destroy
    BY <1>6, <1>8 DEF kfio_sgl_destroy
  <1>9. CASE kfio_sgl_dma_unmap
    BY <1>6, <1>9 DEF kfio_sgl_dma_unmap
  <1>10. CASE UNCHANGED sgVars
    BY <1>6, <1>10 DEF sgVars
  <1> QED
    BY <1>1, <1>2, <1>3, <1>4, <1>5, <1>7, <1>8, <1>9, <1>10 DEF ScatterNext

-----------------------------------------------------------------------------
(* DMA maps and byte pointers *)

(* What a map must say of the part of the list from byte off on: the entries it *)
(* starts and ends in, what is skipped of the first and cut off the last.       *)
SpansRange(dmap, c, off, length) ==
    LET f == dmap.sge_first
        l == dmap.sge_last
    IN  /\ f \in 1 .. Len(sg_list) /\ l \in f .. Len(sg_list)
        /\ c[f - 1] <= off /\ off < c[f]
        /\ off + length <= c[l] /\ (l = f \/ c[l - 1] < off + length)
        /\ dmap.map_offset = off /\ dmap.map_length = length /\ dmap.sge_count = l - f + 1
        /\ dmap.sge_skip = off - c[f - 1] /\ dmap.sge_trunc = c[l] - (off + length)

(* Such a map enumerates the bytes of its range. *)
LEMMA RangeMapped ==
    ASSUME InMemory(sg_list), NEW c, Sums(c, Len(sg_list), Lens(sg_list)),
           NEW off \in Nat, NEW length \in Nat \ {0}, NEW dmap, SpansRange(dmap, c, off, length)
    PROVE  MapExact(dmap)
  <1> DEFINE n == Len(sg_list)
             L == Lens(sg_list)
             A == Addrs(sg_list)
             B == BytesOf(sg_list)
             f == dmap.sge_first
             l == dmap.sge_last
             s == off - c[f - 1]
             t == c[l] - (off + length)
             m == l - f + 1
             sub == SubSeq(B, off + 1, off + length)
  <1>0. off \in Nat /\ length \in Nat
    OBVIOUS
  <1>1. /\ f \in 1 .. n /\ l \in f .. n /\ c[f - 1] <= off /\ off < c[f]
        /\ off + length <= c[l] /\ (l = f \/ c[l - 1] < off + length)
        /\ dmap.map_offset = off /\ dmap.map_length = length /\ dmap.sge_count = m
        /\ dmap.sge_skip = s /\ dmap.sge_trunc = t
    BY DEF SpansRange
  <1>2. Extents(sg_list) /\ n \in Nat
    BY InMemoryExtents DEF Extents
  <1>3. \A i \in 1 .. n : /\ A[i] = Addr(sg_list[i]) /\ A[i] \in Nat
                          /\ L[i] = sg_list[i].length /\ L[i] \in Nat
    BY <1>2, ExtentsAre
  <1>4. c \in [0 .. n -> Nat] /\ \A i \in 1 .. n : c[i] = c[i - 1] + L[i]
    BY DEF Sums
  <1>5. /\ B \in Seq(Int) /\ Len(B) = c[n]
        /\ \A i \in 1 .. n : \A k \in 1 .. L[i] : B[c[i - 1] + k] = A[i] + k - 1
    BY <1>2, BytesCover DEF Covers
  <1>6. c[l] <= c[n] /\ c[l] \in Nat /\ c[n] \in Nat /\ c[f - 1] \in Nat /\ c[f] \in Nat
    <2>1. l \in 0 .. n /\ n \in 0 .. n /\ l <= n /\ f - 1 \in 0 .. n /\ f \in 0 .. n
      BY <1>1, <1>2
    <2>2. \A i, j \in 0 .. n : i <= j => c[i] <= c[j]
      BY <1>2, <1>3, SumsGrow
    <2> QED
      BY <1>4, <2>1, <2>2
  <1>7. /\ f \in Nat /\ l \in Nat /\ f >= 1 /\ f <= l /\ l <= n /\ m \in Nat /\ m >= 1
        /\ s \in Nat /\ t \in Nat
    <2>1. f \in Nat /\ l \in Nat /\ f >= 1 /\ f <= l /\ l <= n
      BY <1>1, <1>2
    <2>2. m \in Nat /\ m >= 1
      BY <2>1
    <2>3. s \in Nat
      BY <1>1, <1>6
    <2>4. t \in Nat
      BY <1>1, <1>6
    <2> QED
      BY <2>1, <2>2, <2>3, <2>4
  <1>m. \A x, y \in 0 .. n : x <= y => c[x] <= c[y]
    BY <1>2, <1>3, SumsGrow
  <1>8. SegmentBytes(dmap) =
          FlattenSeq([k \in 1 .. m |->
            LET seg == DmaSegment(dmap, f + k - 1) IN [j \in 1 .. seg.len |-> seg.addr + j - 1]])
    BY DEF SegmentBytes
  <1> HIDE DEF f, l, m, s, t, n, L, A, B
  (* The spans of the segments. *)
  <1> DEFINE a2 == [k \in 1 .. m |-> A[f + k - 1] + (IF k = 1 THEN s ELSE 0)]
             l2 == [k \in 1 .. m |-> L[f + k - 1] - (IF k = 1 THEN s ELSE 0) - (IF k = m THEN t ELSE 0)]
             d  == [k \in 0 .. m |-> IF k = 0 THEN 0 ELSE IF k = m THEN length ELSE c[f + k - 1] - off]
  <1>9. \A k \in 1 .. m : /\ f + k - 1 \in 1 .. n /\ (f + k - 1) - 1 \in 0 .. n /\ f + k - 1 \in 0 .. n
                          /\ f + k - 1 >= f /\ f + k - 1 <= l
                          /\ (f + k - 1 = f <=> k = 1) /\ (f + k - 1 = l <=> k = m)
    BY <1>2, <1>7 DEF m
  <1>10. \A k \in 1 .. m : /\ a2[k] = A[f + k - 1] + (IF k = 1 THEN s ELSE 0)
                           /\ l2[k] = L[f + k - 1] - (IF k = 1 THEN s ELSE 0) - (IF k = m THEN t ELSE 0)
    OBVIOUS
  <1>11. \A k \in 0 .. m : d[k] = IF k = 0 THEN 0 ELSE IF k = m THEN length ELSE c[f + k - 1] - off
    OBVIOUS
  <1>12. DOMAIN d = 0 .. m /\ d = [k \in 0 .. m |-> d[k]]
    OBVIOUS
  <1> HIDE DEF a2, l2, d
  <1>13. SegmentBytes(dmap) = Spans(m, a2, l2)
    <2>1. ASSUME NEW k \in 1 .. m
          PROVE  LET seg == DmaSegment(dmap, f + k - 1) IN
                 [j \in 1 .. seg.len |-> seg.addr + j - 1] = Span(a2[k], l2[k])
      <3> DEFINE i == f + k - 1
                 seg == DmaSegment(dmap, i)
      <3>1. /\ i \in 1 .. n /\ (i = f <=> k = 1) /\ (i = l <=> k = m)
        BY <1>9
      <3>2. /\ a2[k] = A[i] + (IF k = 1 THEN s ELSE 0)
            /\ l2[k] = L[i] - (IF k = 1 THEN s ELSE 0) - (IF k = m THEN t ELSE 0)
        BY <1>10
      <3> HIDE DEF i
      <3>3. seg.addr = sg_list[i].page * PageSize + sg_list[i].offset + (IF i = f THEN s ELSE 0)
        BY <1>1 DEF DmaSegment, f
      <3>4. seg.len = sg_list[i].length - (IF i = f THEN s ELSE 0) - (IF i = l THEN t ELSE 0)
        BY <1>1 DEF DmaSegment, f, l
      <3>5. seg.addr = a2[k]
        BY <1>3, <3>1, <3>2, <3>3 DEF Addr
      <3>6. seg.len = l2[k]
        BY <1>3, <3>1, <3>2, <3>4
      <3> HIDE DEF seg
      <3>7. [j \in 1 .. seg.len |-> seg.addr + j - 1] = Span(a2[k], l2[k])
        BY <3>5, <3>6 DEF Span
      <3> QED
        BY <3>7 DEF seg, i
    <2>2. [k \in 1 .. m |-> LET seg == DmaSegment(dmap, f + k - 1) IN [j \in 1 .. seg.len |-> seg.addr + j - 1]]
            = [k \in 1 .. m |-> Span(a2[k], l2[k])]
      BY <2>1
    <2> QED
      BY <1>8, <2>2 DEF Spans
  (* One step of the sums. *)
  <1>14. ASSUME NEW k \in 1 .. m
         PROVE  d[k] = d[k - 1] + l2[k] /\ l2[k] \in Nat /\ a2[k] \in Int /\ d[k] \in Nat /\ d[k - 1] \in Nat
    <2> DEFINE i == f + k - 1
    <2>1. i \in 1 .. n /\ i - 1 \in 0 .. n /\ i \in 0 .. n /\ (i = f <=> k = 1) /\ (i = l <=> k = m) /\ f <= i /\ i <= l
      BY <1>9
    <2>2. c[i] = c[i - 1] + L[i] /\ c[i] \in Nat /\ c[i - 1] \in Nat /\ L[i] \in Nat /\ A[i] \in Nat
      BY <1>3, <1>4, <2>1
    <2>3. /\ a2[k] = A[i] + (IF k = 1 THEN s ELSE 0)
          /\ l2[k] = L[i] - (IF k = 1 THEN s ELSE 0) - (IF k = m THEN t ELSE 0)
      BY <1>10
    <2>4. d[k] = IF k = m THEN length ELSE c[i] - off
      BY <1>7, <1>11
    <2>5. d[k - 1] = IF k = 1 THEN 0 ELSE c[i - 1] - off
      <3>1. k - 1 \in 0 .. m /\ k - 1 # m /\ (k - 1 = 0 <=> k = 1) /\ f + (k - 1) - 1 = i - 1
        BY <1>7
      <3> QED
        BY <1>11, <3>1
    <2>6. c[f] <= c[i] /\ (k # 1 => c[f] <= c[i - 1])
      <3>2. f \in 0 .. n
        BY <1>2, <1>7
      <3>3. k # 1 => f <= i - 1
        BY <1>7
      <3> HIDE DEF i
      <3> QED
        BY <1>m, <2>1, <3>2, <3>3
    <2> HIDE DEF i
    <2>7. k = 1 => s = off - c[i - 1]
      BY <2>1 DEF s
    <2>8. k = m => t = c[i] - (off + length) /\ (k = 1 \/ c[i - 1] < off + length)
      BY <1>1, <2>1 DEF t
    <2>9. a2[k] \in Int
      BY <1>7, <2>2, <2>3
    <2>10. CASE k = 1 /\ k = m
      <3>1. l2[k] = L[i] - s - t /\ d[k] = length /\ d[k - 1] = 0 /\ s = off - c[i - 1] /\ t = c[i] - (off + length)
        BY <2>3, <2>4, <2>5, <2>7, <2>8, <2>10
      <3>2. L[i] - s - t = length /\ 0 + length = length
        <4> DEFINE X == c[i - 1]
                   Y == c[i]
                   Z == L[i]
        <4>1. X \in Nat /\ Y \in Nat /\ Z \in Nat /\ Y = X + Z /\ s = off - X /\ t = Y - (off + length)
          BY <2>2, <3>1
        <4> HIDE DEF X, Y, Z
        <4>2. Z - s - t = length /\ 0 + length = length
          BY ONLY <1>0, <4>1
        <4> QED
          BY <4>2 DEF Z
      <3> QED
        BY <2>9, <3>1, <3>2
    <2>11. CASE k = 1 /\ k # m
      <3>1. c[i] - off \in Nat
        <4>1. off < c[f] /\ c[f] <= c[i] /\ c[f] \in Nat /\ c[i] \in Nat
          BY <1>1, <1>6, <2>2, <2>6
        <4> QED
          BY ONLY <1>0, <4>1
      <3>2. l2[k] = L[i] - s - 0 /\ d[k] = c[i] - off /\ d[k - 1] = 0 /\ s = off - c[i - 1]
        BY <2>3, <2>4, <2>5, <2>7, <2>11
      <3>3. L[i] - s - 0 = c[i] - off /\ 0 + (c[i] - off) = c[i] - off
        <4> DEFINE X == c[i - 1]
                   Y == c[i]
                   Z == L[i]
        <4>1. X \in Nat /\ Y \in Nat /\ Z \in Nat /\ Y = X + Z /\ s = off - X
          BY <2>2, <3>2
        <4> HIDE DEF X, Y, Z
        <4>2. Z - s - 0 = Y - off /\ 0 + (Y - off) = Y - off
          BY ONLY <1>0, <4>1
        <4> QED
          BY <4>2 DEF X, Y, Z
      <3> QED
        BY <2>9, <3>1, <3>2, <3>3
    <2>12. CASE k # 1 /\ k = m
      <3>1. c[i - 1] - off \in Nat /\ c[i - 1] < off + length
        <4>1. off < c[f] /\ c[f] <= c[i - 1] /\ c[f] \in Nat /\ c[i - 1] \in Nat
          BY <1>1, <1>6, <2>2, <2>6, <2>12
        <4>2. c[i - 1] - off \in Nat
          BY ONLY <1>0, <4>1
        <4> QED
          BY <2>8, <2>12, <4>2
      <3>2. l2[k] = L[i] - t /\ d[k] = length /\ d[k - 1] = c[i - 1] - off /\ t = c[i] - (off + length)
        <4>1. l2[k] = L[i] - 0 - t
          BY <2>3, <2>12
        <4>2. L[i] - 0 - t = L[i] - t
          BY <1>7, <2>2
        <4> QED
          BY <4>1, <4>2, <2>4, <2>5, <2>8, <2>12
      <3>3. \A x, y, z, u \in Nat : (x - off \in Nat /\ y = x + z /\ u = y - (off + length) /\ x < off + length)
                => length = (x - off) + (z - u) /\ z - u \in Nat
        OBVIOUS
      <3>4. length = (c[i - 1] - off) + (L[i] - t) /\ L[i] - t \in Nat
        <4> DEFINE X == c[i - 1]
                   Y == c[i]
                   Z == L[i]
        <4>1. X \in Nat /\ Y \in Nat /\ Z \in Nat /\ t \in Nat
          BY <1>7, <2>2
        <4>2. X - off \in Nat /\ Y = X + Z /\ t = Y - (off + length) /\ X < off + length
          BY <2>2, <3>1, <3>2
        <4> HIDE DEF X, Y, Z
        <4>3. length = (X - off) + (Z - t) /\ Z - t \in Nat
          BY ONLY <3>3, <4>1, <4>2
        <4> QED
          BY <4>3 DEF X, Z
      <3> QED
        BY <2>9, <3>1, <3>2, <3>4
    <2>13. CASE k # 1 /\ k # m
      <3>1. c[i - 1] - off \in Nat
        <4>1. off < c[f] /\ c[f] <= c[i - 1] /\ c[f] \in Nat /\ c[i - 1] \in Nat
          BY <1>1, <1>6, <2>2, <2>6, <2>13
        <4> QED
          BY ONLY <1>0, <4>1
      <3>2. l2[k] = L[i] - 0 - 0 /\ d[k] = c[i] - off /\ d[k - 1] = c[i - 1] - off
        BY <2>3, <2>4, <2>5, <2>13
      <3>3. /\ L[i] - 0 - 0 = L[i] /\ c[i] - off = (c[i - 1] - off) + L[i] /\ c[i] - off \in Nat
        <4> DEFINE X == c[i - 1]
                   Y == c[i]
                   Z == L[i]
        <4>1. X \in Nat /\ Y \in Nat /\ Z \in Nat /\ Y = X + Z /\ X - off \in Nat
          BY <2>2, <3>1
        <4> HIDE DEF X, Y, Z
        <4>2. Z - 0 - 0 = Z /\ Y - off = (X - off) + Z /\ Y - off \in Nat
          BY ONLY <1>0, <4>1
        <4> QED
          BY <4>2 DEF X, Y, Z
      <3> QED
        BY <2>2, <2>9, <3>1, <3>2, <3>3
    <2> QED
      BY <2>10, <2>11, <2>12, <2>13
  <1>15. Sums(d, m, l2) /\ IsSpans(m, a2, l2) /\ d[m] = length
    <2>1. d[0] = 0 /\ d[m] = length
      BY <1>7, <1>11
    <2>2. \A k \in 0 .. m : d[k] \in Nat
      <3> TAKE k \in 0 .. m
      <3>1. CASE k = 0
        BY <2>1, <3>1
      <3>2. CASE k # 0
        <4>1. k \in 1 .. m
          BY <1>7, <3>2
        <4> QED
          BY <1>14, <4>1
      <3> QED
        BY <3>1, <3>2
    <2>3. d \in [0 .. m -> Nat]
      BY <1>12, <2>2
    <2> QED
      BY <1>7, <1>14, <2>1, <2>3 DEF Sums, IsSpans
  <1>16. /\ sub \in Seq(Int) /\ Len(sub) = length
         /\ \A x \in 1 .. length : sub[x] = B[off + x]
    <2>1. off + length <= Len(B) /\ Len(B) \in Nat
      BY <1>1, <1>5, <1>6
    <2>2. \A x \in off + 1 .. off + length : B[x] \in Int
      BY <1>5, <2>1
    <2>3. sub = [x \in 1 .. length |-> B[off + x]]
      <3>1. (off + length) - (off + 1) + 1 = length /\ \A x \in 1 .. length : x + (off + 1) - 1 = off + x
        OBVIOUS
      <3>2. sub = [x \in 1 .. ((off + length) - (off + 1) + 1) |-> B[x + (off + 1) - 1]]
        BY <1>5, <2>1
      <3> QED
        BY <3>1, <3>2
    <2>4. \A x \in 1 .. length : B[off + x] \in Int
      BY <2>2
    <2> QED
      BY <2>3, <2>4
  <1> HIDE DEF sub
  <1>17. Covers(sub, d, m, a2, l2)
    <2>1. ASSUME NEW k \in 1 .. m, NEW j \in 1 .. l2[k] PROVE sub[d[k - 1] + j] = a2[k] + j - 1
      <3> DEFINE i == f + k - 1
                 p == IF k = 1 THEN s ELSE 0
      <3>1. i \in 1 .. n /\ i - 1 \in 0 .. n /\ (i = f <=> k = 1)
        BY <1>9
      <3>2. c[i] = c[i - 1] + L[i] /\ c[i - 1] \in Nat /\ L[i] \in Nat /\ A[i] \in Nat /\ p \in Nat
        BY <1>3, <1>4, <1>7, <3>1
      <3>3. a2[k] = A[i] + p /\ l2[k] = L[i] - p - (IF k = m THEN t ELSE 0)
        BY <1>10
      <3>4. d[k - 1] = IF k = 1 THEN 0 ELSE c[i - 1] - off
        <4>1. k - 1 \in 0 .. m /\ k - 1 # m /\ (k - 1 = 0 <=> k = 1) /\ f + (k - 1) - 1 = i - 1
          BY <1>7
        <4> QED
          BY <1>11, <4>1
      <3>5. d[k] = d[k - 1] + l2[k] /\ l2[k] \in Nat /\ d[k] \in Nat /\ d[k - 1] \in Nat
        BY <1>14
      <3>6. d[k] <= length
        <4>1. \A x, y \in 0 .. m : x <= y => d[x] <= d[y]
          <5>1. m \in Nat /\ \A x \in 1 .. m : l2[x] \in Nat
            BY <1>7, <1>14
          <5> QED
            BY <1>15, <5>1, SumsGrow
        <4>2. k \in 0 .. m /\ m \in 0 .. m /\ k <= m
          BY <1>7
        <4> QED
          BY <1>15, <4>1, <4>2
      <3>7. d[k - 1] + j \in 1 .. length
        BY <3>5, <3>6
      <3>8. j + p \in 1 .. L[i]
        <4> DEFINE q == IF k = m THEN t ELSE 0
        <4>1. q \in Nat
          BY <1>7
        <4>2. l2[k] = L[i] - p - q
          BY <3>3
        <4> HIDE DEF q, p, i
        <4> QED
          BY <3>2, <3>5, <4>1, <4>2
      <3>9. off + (d[k - 1] + j) = c[i - 1] + (j + p)
        <4>1. k = 1 => s = off - c[i - 1]
          BY <3>1 DEF s
        <4> QED
          BY <3>2, <3>4, <3>5, <4>1, SMTT(20)
      <3>10. sub[d[k - 1] + j] = B[off + (d[k - 1] + j)]
        BY <1>16, <3>7
      <3>11. B[c[i - 1] + (j + p)] = A[i] + (j + p) - 1
        BY <1>5, <3>1, <3>8
      <3> HIDE DEF i, p
      <3>12. A[i] + (j + p) - 1 = a2[k] + j - 1
        BY <3>2, <3>3
      <3> QED
        BY <3>9, <3>10, <3>11, <3>12
    <2> QED
      BY <1>15, <1>16, <2>1 DEF Covers
  <1>18. Covers(SegmentBytes(dmap), d, m, a2, l2)
    BY <1>13, <1>15, SpansCover
  <1>19. SegmentBytes(dmap) = sub
    BY <1>15, <1>17, <1>18, CoverUnique
  <1>20. dmap.sge_count = dmap.sge_last - dmap.sge_first + 1
    BY <1>1 DEF m, l, f
  <1>21. sub = SubSeq(BytesOf(sg_list), dmap.map_offset + 1, dmap.map_offset + dmap.map_length)
    BY <1>1 DEF sub, B
  <1> QED
    BY <1>19, <1>20, <1>21 DEF MapExact

(* The entries of a list in memory, and the sums of their lengths. *)
ListSums(c) ==
    /\ Len(sg_list) \in Nat /\ DOMAIN sg_list = 1 .. Len(sg_list)
    /\ c \in [0 .. Len(sg_list) -> Nat] /\ c[0] = 0
    /\ \A i \in 1 .. Len(sg_list) : /\ sg_list[i].length \in 1 .. PageSize
                                    /\ c[i] = c[i - 1] + sg_list[i].length
    /\ \A i, j \in 0 .. Len(sg_list) : i <= j => c[i] <= c[j]

(* They are what Sums says of the list. *)
LEMMA SumsOfList ==
    ASSUME InMemory(sg_list), NEW c, Sums(c, Len(sg_list), Lens(sg_list))
    PROVE  ListSums(c)
  <1> DEFINE n == Len(sg_list)
             L == Lens(sg_list)
  <1>1. Extents(sg_list) /\ n \in Nat /\ DOMAIN sg_list = 1 .. n /\ \A i \in 1 .. n : sg_list[i].length \in 1 .. PageSize
    BY InMemoryExtents DEF Extents
  <1>2. \A i \in 1 .. n : L[i] = sg_list[i].length /\ L[i] \in Nat
    BY <1>1, ExtentsAre
  <1>3. c \in [0 .. n -> Nat] /\ c[0] = 0 /\ \A i \in 1 .. n : c[i] = c[i - 1] + L[i]
    BY DEF Sums
  <1>4. \A i, j \in 0 .. n : i <= j => c[i] <= c[j]
    BY <1>1, <1>2, SumsGrow
  <1>5. \A i \in 1 .. n : sg_list[i].length \in 1 .. PageSize /\ c[i] = c[i - 1] + sg_list[i].length
    BY <1>1, <1>2, <1>3
  <1> HIDE DEF L
  <1> QED
    BY <1>1, <1>3, <1>4, <1>5 DEF ListSums

(* One entry of it. *)
LEMMA ListSumsAt ==
    ASSUME NEW c, ListSums(c), NEW i \in 1 .. Len(sg_list)
    PROVE  /\ i \in Nat /\ i - 1 \in 0 .. Len(sg_list) /\ i \in 0 .. Len(sg_list)
           /\ sg_list[i].length \in Nat /\ sg_list[i].length >= 1 /\ sg_list[i].length <= PageSize
           /\ c[i - 1] \in Nat /\ c[i] \in Nat /\ c[i] = c[i - 1] + sg_list[i].length
  <1>1. Len(sg_list) \in Nat /\ c \in [0 .. Len(sg_list) -> Nat] /\ PageSize \in Nat
    BY PageSizeType DEF ListSums
  <1>2. i \in Nat /\ i - 1 \in 0 .. Len(sg_list) /\ i \in 0 .. Len(sg_list)
    BY <1>1
  <1>3. sg_list[i].length \in 1 .. PageSize /\ c[i] = c[i - 1] + sg_list[i].length
    BY DEF ListSums
  <1> QED
    BY <1>1, <1>2, <1>3

(* The map of all of the list. *)
LEMMA WholeSpans ==
    ASSUME NEW c, ListSums(c), sg_list # << >>, sg_size = c[Len(sg_list)]
    PROVE  SpansRange(WholeMap, c, 0, c[Len(sg_list)]) /\ c[Len(sg_list)] \in Nat \ {0}
  <1> DEFINE n == Len(sg_list)
  <1>1. n \in Nat /\ n >= 1
    BY DEF ListSums
  <1>2. 1 \in 1 .. n /\ n \in 1 .. n
    BY <1>1
  <1>3. c[0] = 0 /\ c[1] \in Nat /\ c[1] = c[0] + sg_list[1].length /\ sg_list[1].length \in Nat /\ sg_list[1].length >= 1
    BY <1>2, ListSumsAt DEF ListSums
  <1>4. c[n - 1] \in Nat /\ c[n] \in Nat /\ c[n] = c[n - 1] + sg_list[n].length /\ sg_list[n].length \in Nat /\ sg_list[n].length >= 1
    BY <1>2, ListSumsAt
  <1>5. c[n - 1] < c[n] /\ c[n] \in Nat \ {0} /\ 0 < c[1]
    <2>1. \A x, y, z \in Nat : (z = x + y /\ y >= 1) => (x < z /\ z \in Nat \ {0} /\ 0 < z)
      OBVIOUS
    <2> QED
      BY <1>3, <1>4, <2>1
  <1>6. /\ WholeMap.map_offset = 0 /\ WholeMap.map_length = c[n] /\ WholeMap.sge_count = n
        /\ WholeMap.sge_skip = 0 /\ WholeMap.sge_trunc = 0 /\ WholeMap.sge_first = 1 /\ WholeMap.sge_last = n
    BY DEF WholeMap
  <1>7. 1 - 1 = 0 /\ n - 1 + 1 = n /\ 0 - c[0] = 0 /\ c[n] - (0 + c[n]) = 0 /\ 0 + c[n] = c[n] /\ c[0] <= 0
    BY <1>1, <1>3, <1>4
  <1> HIDE DEF n
  <1>8. /\ 1 \in 1 .. n /\ n \in 1 .. n /\ c[1 - 1] <= 0 /\ 0 < c[1] /\ 0 + c[n] <= c[n] /\ c[n - 1] < 0 + c[n]
        /\ 0 = 0 - c[1 - 1] /\ 0 = c[n] - (0 + c[n]) /\ n = n - 1 + 1
    BY <1>2, <1>4, <1>5, <1>7
  <1> QED
    BY <1>5, <1>6, <1>8 DEF SpansRange, n

(* The first loop stops in the entry that holds the offset. *)
EntryAt(at, c, offset) ==
    /\ at.i \in 1 .. Len(sg_list) /\ c[at.i - 1] <= offset /\ offset < c[at.i]
    /\ at.offset = offset - c[at.i - 1]

(* By induction over the entries it passes: it has taken c[i - 1] off the offset. *)
LEMMA FindEntryIs ==
    ASSUME NEW c, ListSums(c), NEW offset \in Nat, offset < c[Len(sg_list)],
           Sums(c, Len(sg_list), Lens(sg_list))
    PROVE  EntryAt(FindEntry(offset), c, offset)
  <1> DEFINE n == Len(sg_list)
             IsLeft(g) == g = [i \in 1 .. n |-> IF i = 1 THEN offset ELSE g[i - 1] - sg_list[i - 1].length]
             left == CHOOSE g : IsLeft(g)
             in(i) == left[i] < sg_list[i].length
             First(i) == in(i) /\ \A j \in 1 .. i - 1 : ~in(j)
             first == CHOOSE i \in DOMAIN sg_list : First(i)
             w == [i \in 1 .. n |-> offset - c[i - 1]]
  <1>1. FindEntry(offset) = [i |-> first, offset |-> left[first]]
    BY DEF FindEntry
  <1>2. n \in Nat /\ DOMAIN sg_list = 1 .. n /\ c \in [0 .. n -> Nat] /\ c[0] = 0
    BY DEF ListSums
  <1>3. \A i \in 1 .. n : /\ i \in Nat /\ i - 1 \in 0 .. n /\ i \in 0 .. n
                          /\ sg_list[i].length \in Nat
                          /\ c[i - 1] \in Nat /\ c[i] \in Nat /\ c[i] = c[i - 1] + sg_list[i].length
    BY ListSumsAt
  <1>m. \A i, j \in 0 .. n : i <= j => c[i] <= c[j]
    BY DEF ListSums
  <1>p. PICK p \in 1 .. n : c[p - 1] <= offset /\ offset < c[p]
    BY <1>2, SumsPlace
  <1> HIDE DEF n
  <1>4. IsLeft(w)
    <2>1. \A i \in 1 .. n : w[i] = IF i = 1 THEN offset ELSE w[i - 1] - sg_list[i - 1].length
      <3> TAKE i \in 1 .. n
      <3>1. CASE i = 1
        <4>1. offset - c[i - 1] = offset
          BY <1>2, <3>1
        <4> QED
          BY <3>1, <4>1
      <3>2. CASE i # 1
        <4>1. i - 1 \in 1 .. n
          BY <1>2, <3>2
        <4>2. /\ w[i] = offset - c[i - 1] /\ w[i - 1] = offset - c[(i - 1) - 1]
          BY <4>1
        <4>3. /\ c[i - 1] = c[(i - 1) - 1] + sg_list[i - 1].length
              /\ c[i - 1] \in Nat /\ c[(i - 1) - 1] \in Nat /\ sg_list[i - 1].length \in Nat
          BY <1>3, <4>1
        <4>4. offset - c[i - 1] = (offset - c[(i - 1) - 1]) - sg_list[i - 1].length
          BY <4>3
        <4> QED
          BY <3>2, <4>2, <4>4
      <3> QED
        BY <3>1, <3>2
    <2>2. w = [i \in 1 .. n |-> w[i]]
      OBVIOUS
    <2>3. [i \in 1 .. n |-> w[i]] = [i \in 1 .. n |-> IF i = 1 THEN offset ELSE w[i - 1] - sg_list[i - 1].length]
      BY <2>1
    <2> HIDE DEF w
    <2> QED
      BY <2>2, <2>3
  <1>5. IsLeft(left)
    <2> HIDE DEF IsLeft
    <2> QED
      BY <1>4
  <1> HIDE DEF left
  <1>6. \A i \in 1 .. n : left[i] = IF i = 1 THEN offset ELSE left[i - 1] - sg_list[i - 1].length
    BY <1>5
  <1> DEFINE S == {m \in Nat : m + 1 \in 1 .. n => left[m + 1] = offset - c[m]}
  <1>7. 0 \in S
    BY <1>2, <1>6
  <1>8. ASSUME NEW m \in Nat, m \in S PROVE m + 1 \in S
    <2> SUFFICES ASSUME (m + 1) + 1 \in 1 .. n PROVE left[(m + 1) + 1] = offset - c[m + 1]
      OBVIOUS
    <2>1. m + 1 \in 1 .. n /\ ((m + 1) + 1) - 1 = m + 1 /\ (m + 1) + 1 # 1 /\ (m + 1) - 1 = m
      BY <1>2
    <2>2. left[m + 1] = offset - c[m]
      BY <1>8, <2>1
    <2>3. left[(m + 1) + 1] = left[m + 1] - sg_list[m + 1].length
      BY <1>6, <2>1
    <2>4. c[m + 1] = c[m] + sg_list[m + 1].length /\ c[m] \in Nat /\ sg_list[m + 1].length \in Nat
      BY <1>3, <2>1
    <2>5. (offset - c[m]) - sg_list[m + 1].length = offset - c[m + 1]
      BY <2>4
    <2> QED
      BY <2>2, <2>3, <2>5
  <1>9. Nat \subseteq S
    BY <1>7, <1>8, SetInduction
  <1>10. \A i \in 1 .. n : left[i] = offset - c[i - 1] /\ (in(i) <=> offset < c[i])
    <2> TAKE i \in 1 .. n
    <2>1. i - 1 \in Nat /\ (i - 1) + 1 = i
      BY <1>3
    <2>2. left[i] = offset - c[i - 1]
      <3>1. i - 1 \in S
        BY <1>9, <2>1
      <3>2. (i - 1) + 1 \in 1 .. n => left[(i - 1) + 1] = offset - c[i - 1]
        BY <3>1
      <3> QED
        BY <2>1, <3>2
    <2>3. offset - c[i - 1] < sg_list[i].length <=> offset < c[i]
      <3>1. /\ sg_list[i].length \in Nat
            /\ c[i - 1] \in Nat /\ c[i] \in Nat /\ c[i] = c[i - 1] + sg_list[i].length
        BY <1>3
      <3>2. \A x, y, z \in Nat : z = x + y => (offset - x < y <=> offset < z)
        OBVIOUS
      <3> QED
        BY ONLY <3>1, <3>2
    <2> QED
      BY <2>2, <2>3
  <1>11. First(p)
    <2>1. in(p)
      BY <1>10, <1>p
    <2>2. ASSUME NEW j \in 1 .. p - 1 PROVE ~in(j)
      <3>1. p \in 1 .. n
        BY <1>p
      <3>2. j \in 1 .. n /\ j \in 0 .. n /\ p - 1 \in 0 .. n /\ j <= p - 1
        BY <1>2, <3>1
      <3>3. c[j] <= c[p - 1] /\ c[j] \in Nat /\ c[p - 1] \in Nat /\ c[p - 1] <= offset
        BY <1>2, <1>m, <1>p, <3>2
      <3>4. ~(offset < c[j])
        BY <3>3
      <3> QED
        BY <1>10, <3>2, <3>4
    <2> QED
      BY <2>1, <2>2
  <1>12. first \in 1 .. n /\ First(first)
    <2> HIDE DEF First
    <2> QED
      BY <1>2, <1>11, <1>p
  <1> HIDE DEF first
  <1>13. offset < c[first]
    BY <1>10, <1>12
  <1>14. c[first - 1] <= offset
    <2>1. CASE first = 1
      BY <1>2, <2>1
    <2>2. CASE first # 1
      <3>1. first - 1 \in 1 .. first - 1 /\ first - 1 \in 1 .. n
        BY <1>2, <1>12, <2>2
      <3>2. ~in(first - 1)
        BY <1>12, <3>1
      <3>3. ~(offset < c[first - 1]) /\ c[first - 1] \in Nat
        BY <1>3, <1>10, <3>1, <3>2
      <3> QED
        BY <3>3
    <2> QED
      BY <2>1, <2>2
  <1>15. left[first] = offset - c[first - 1]
    BY <1>10, <1>12
  <1> QED
    BY <1>1, <1>12, <1>13, <1>14, <1>15 DEF EntryAt, n

(* The byte pointer of an offset. *)
LEMMA PointerIs ==
    ASSUME InMemory(sg_list), NEW c, ListSums(c), Sums(c, Len(sg_list), Lens(sg_list)),
           NEW offset \in Nat, offset < c[Len(sg_list)]
    PROVE  kfio_sgl_get_byte_pointer(offset) = BytesOf(sg_list)[offset + 1]
  <1> DEFINE at == FindEntry(offset)
             f == at.i
  <1>1. f \in 1 .. Len(sg_list) /\ c[f - 1] <= offset /\ offset < c[f] /\ at.offset = offset - c[f - 1]
    BY FindEntryIs DEF EntryAt
  <1>2. kfio_sgl_get_byte_pointer(offset) = Addr(sg_list[f]) + at.offset
    BY DEF kfio_sgl_get_byte_pointer, Addr
  <1> HIDE DEF at, f
  <1>3. Extents(sg_list)
    BY InMemoryExtents
  <1>4. /\ \A i \in 1 .. Len(sg_list) : \A k \in 1 .. Lens(sg_list)[i] :
             BytesOf(sg_list)[c[i - 1] + k] = Addrs(sg_list)[i] + k - 1
    BY <1>3, BytesCover DEF Covers
  <1>5. /\ Lens(sg_list)[f] = sg_list[f].length /\ Addrs(sg_list)[f] = Addr(sg_list[f]) /\ Addr(sg_list[f]) \in Nat
    BY <1>1, <1>3, ExtentsAre
  <1>6. c[f] = c[f - 1] + sg_list[f].length /\ c[f - 1] \in Nat /\ sg_list[f].length \in Nat
    BY <1>1, ListSumsAt
  <1> DEFINE k == offset - c[f - 1] + 1
  <1>7. k \in 1 .. sg_list[f].length /\ c[f - 1] + k = offset + 1
    BY <1>1, <1>6
  <1>8. BytesOf(sg_list)[c[f - 1] + k] = Addr(sg_list[f]) + k - 1
    <2> HIDE DEF k
    <2> QED
      BY <1>1, <1>4, <1>5, <1>7
  <1>9. Addr(sg_list[f]) + k - 1 = Addr(sg_list[f]) + (offset - c[f - 1])
    BY <1>5, <1>6
  <1> QED
    BY <1>1, <1>2, <1>7, <1>8, <1>9

(* The maps the second loop of kfio_sgl_dma_slice passes through. *)
IsGrown(g, f, start, length, k) ==
    g = [i \in f .. f + k |-> IF i = f THEN start ELSE Grow(g[i - 1], i, length)]

(* There are such maps, however far the loop goes. *)
LEMMA GrownExists ==
    ASSUME NEW f \in Nat, NEW start, NEW length, NEW n \in Nat
    PROVE  \E g : IsGrown(g, f, start, length, n)
  <1> DEFINE S == {k \in Nat : \E g : IsGrown(g, f, start, length, k)}
  <1>1. 0 \in S
    <2> DEFINE g == [i \in f .. f + 0 |-> start]
    <2>1. g = [i \in f .. f + 0 |-> IF i = f THEN start ELSE Grow(g[i - 1], i, length)]
      <3>1. \A i \in f .. f + 0 : i = f
        OBVIOUS
      <3> QED
        BY <3>1
    <2>2. IsGrown(g, f, start, length, 0)
      BY <2>1 DEF IsGrown
    <2> QED
      BY <2>2
  <1>2. ASSUME NEW k \in Nat, k \in S PROVE k + 1 \in S
    <2>1. PICK g : IsGrown(g, f, start, length, k)
      BY <1>2
    <2> DEFINE new == Grow(g[f + k], f + k + 1, length)
               h == [i \in f .. f + (k + 1) |-> IF i = f + k + 1 THEN new ELSE g[i]]
    <2>2. \A i \in f .. f + k : g[i] = IF i = f THEN start ELSE Grow(g[i - 1], i, length)
      BY <2>1 DEF IsGrown
    <2>3. \A i \in f .. f + (k + 1) : h[i] = IF i = f THEN start ELSE Grow(h[i - 1], i, length)
      <3> TAKE i \in f .. f + (k + 1)
      <3>1. CASE i = f + k + 1
        <4>1. i - 1 = f + k /\ i # f /\ f + k \in f .. f + (k + 1) /\ f + k # f + k + 1
          BY <3>1
        <4>2. h[i] = new /\ h[f + k] = g[f + k]
          BY <3>1, <4>1
        <4> HIDE DEF h
        <4> QED
          BY <3>1, <4>1, <4>2
      <3>2. CASE i # f + k + 1
        <4>1. i \in f .. f + k /\ h[i] = g[i]
          BY <3>2
        <4>2. i # f => h[i - 1] = g[i - 1]
          BY <4>1
        <4> HIDE DEF h
        <4> QED
          BY <2>2, <4>1, <4>2
      <3> QED
        BY <3>1, <3>2
    <2>4. h = [i \in f .. f + (k + 1) |-> h[i]]
      OBVIOUS
    <2> HIDE DEF h
    <2>5. IsGrown(h, f, start, length, k + 1)
      BY <2>3, <2>4 DEF IsGrown
    <2> QED
      BY <2>5
  <1>3. Nat \subseteq S
    BY <1>1, <1>2, SetInduction
  <1> QED
    BY <1>3

(* What Grow makes of a map, field by field. *)
MapRecord(off, mlen, count, skip, trunc, first, last, done) ==
    [map_offset |-> off, map_length |-> mlen, sge_count |-> count, sge_skip |-> skip,
     sge_trunc |-> trunc, sge_first |-> first, sge_last |-> last, done |-> done]

OpenMap(off, mlen, count, skip, trunc, first, last) ==
    MapRecord(off, mlen, count, skip, trunc, first, last, FALSE)
EndedMap(off, mlen, count, skip, trunc, first, last) ==
    MapRecord(off, mlen, count, skip, trunc, first, last, TRUE)

(* Enough bytes: the loop ends. *)
LEMMA GrowEnds ==
    ASSUME NEW o, NEW m \in Int, NEW c, NEW s, NEW t, NEW f, NEW l, NEW i, NEW length \in Nat, m >= length
    PROVE  Grow(OpenMap(o, m, c, s, t, f, l), i, length) = EndedMap(o, length, c, s, m - length, f, l)
  <1> DEFINE no == FALSE
             yes == TRUE
             g == MapRecord(o, m, c, s, t, f, l, no)
             tr == m - length
  <1>1. ~g.done /\ g.map_length = m
    BY DEF MapRecord
  <1>2. Grow(g, i, length) = [g EXCEPT !.sge_trunc = tr, !.map_length = length, !.done = yes]
    <2> HIDE DEF g
    <2> QED
      BY <1>1 DEF Grow
  <1> HIDE DEF no, yes, tr
  <1>3. [g EXCEPT !.sge_trunc = tr, !.map_length = length, !.done = yes] = MapRecord(o, length, c, s, tr, f, l, yes)
    <2> DEFINE r1 == MapRecord(o, m, c, s, tr, f, l, no)
               r2 == MapRecord(o, length, c, s, tr, f, l, no)
               r3 == MapRecord(o, length, c, s, tr, f, l, yes)
    <2>1. [g EXCEPT !.sge_trunc = tr] = r1
      BY DEF MapRecord
    <2>2. [r1 EXCEPT !.map_length = length] = r2
      BY DEF MapRecord
    <2>3. [r2 EXCEPT !.done = yes] = r3
      BY DEF MapRecord
    <2> HIDE DEF g, r1, r2, r3
    <2>4. [g EXCEPT !.sge_trunc = tr, !.map_length = length, !.done = yes] =
            [[[g EXCEPT !.sge_trunc = tr] EXCEPT !.map_length = length] EXCEPT !.done = yes]
      OBVIOUS
    <2>5. [g EXCEPT !.sge_trunc = tr, !.map_length = length, !.done = yes] = r3
      BY <2>1, <2>2, <2>3, <2>4
    <2> QED
      BY <2>5 DEF r3
  <1> QED
    BY <1>2, <1>3 DEF no, yes, tr, OpenMap, EndedMap

(* Too few: the next entry is added. *)
LEMMA GrowGrows ==
    ASSUME NEW o, NEW m \in Int, NEW c \in Int, NEW s, NEW t, NEW f, NEW l, NEW i, NEW length \in Nat, ~(m >= length),
           NEW more, more = sg_list[i].length, more \in Nat
    PROVE  Grow(OpenMap(o, m, c, s, t, f, l), i, length) = OpenMap(o, m + more, c + 1, s, t, f, i)
  <1> DEFINE no == FALSE
             g == MapRecord(o, m, c, s, t, f, l, no)
             m2 == m + more
             c2 == c + 1
  <1>1. ~g.done /\ g.map_length = m /\ g.sge_count = c
    BY DEF MapRecord
  <1>2. Grow(g, i, length) = [g EXCEPT !.map_length = m2, !.sge_last = i, !.sge_count = c2]
    <2> HIDE DEF g
    <2> QED
      BY <1>1 DEF Grow
  <1> HIDE DEF no, m2, c2
  <1>3. [g EXCEPT !.map_length = m2, !.sge_last = i, !.sge_count = c2] = MapRecord(o, m2, c2, s, t, f, i, no)
    <2> DEFINE r1 == MapRecord(o, m2, c, s, t, f, l, no)
               r2 == MapRecord(o, m2, c, s, t, f, i, no)
               r3 == MapRecord(o, m2, c2, s, t, f, i, no)
    <2>1. [g EXCEPT !.map_length = m2] = r1
      BY DEF MapRecord
    <2>2. [r1 EXCEPT !.sge_last = i] = r2
      BY DEF MapRecord
    <2>3. [r2 EXCEPT !.sge_count = c2] = r3
      BY DEF MapRecord
    <2> HIDE DEF g, r1, r2, r3
    <2>4. [g EXCEPT !.map_length = m2, !.sge_last = i, !.sge_count = c2] =
            [[[g EXCEPT !.map_length = m2] EXCEPT !.sge_last = i] EXCEPT !.sge_count = c2]
      OBVIOUS
    <2>5. [g EXCEPT !.map_length = m2, !.sge_last = i, !.sge_count = c2] = r3
      BY <2>1, <2>2, <2>3, <2>4
    <2> QED
      BY <2>5 DEF r3
  <1> QED
    BY <1>2, <1>3 DEF no, m2, c2, OpenMap

(* The map at entry i: it goes on to entry i, or has ended where it must. *)
Growing(g, c, f, i, off, length) ==
    \E l \in f .. Len(sg_list) :
      /\ l = f \/ c[l - 1] < off + length
      /\ \/ /\ l = i
            /\ g = OpenMap(off, c[l] - off, l - f + 1, off - c[f - 1], 0, f, l)
         \/ /\ off + length <= c[l]
            /\ g = EndedMap(off, length, l - f + 1, off - c[f - 1], c[l] - (off + length), f, l)

(* One round of the loop. *)
LEMMA GrowStep ==
    ASSUME NEW c, ListSums(c), NEW off \in Nat, NEW length \in Nat \ {0}, off + length <= c[Len(sg_list)],
           NEW f \in 1 .. Len(sg_list), off < c[f], c[f - 1] <= off,
           NEW i \in f .. Len(sg_list), NEW g, Growing(g, c, f, i, off, length)
    PROVE  Growing(Grow(g, i + 1, length), c, f, i + 1, off, length)
  <1> DEFINE n == Len(sg_list)
             skip == off - c[f - 1]
  <1>1. n \in Nat /\ f \in Nat /\ i \in Nat /\ f >= 1 /\ i >= f /\ i <= n /\ i \in 1 .. n
    BY DEF ListSums
  <1>2. PICK l \in f .. n :
          /\ l = f \/ c[l - 1] < off + length
          /\ \/ /\ l = i
                /\ g = OpenMap(off, c[l] - off, l - f + 1, skip, 0, f, l)
             \/ /\ off + length <= c[l]
                /\ g = EndedMap(off, length, l - f + 1, skip, c[l] - (off + length), f, l)
    BY DEF Growing
  <1>3. l \in 1 .. n /\ l \in Nat
    BY <1>1
  <1>4. c[l] \in Nat /\ c[f - 1] \in Nat /\ c[n] \in Nat /\ n \in 1 .. n
    <2>1. n \in 1 .. n
      BY <1>1
    <2> QED
      BY <1>3, <2>1, ListSumsAt
  <1>5. CASE g = EndedMap(off, length, l - f + 1, skip, c[l] - (off + length), f, l) /\ off + length <= c[l]
    <2>1. Grow(g, i + 1, length) = g
      BY <1>5 DEF Grow, EndedMap, MapRecord
    <2> QED
      BY <1>2, <1>5, <2>1 DEF Growing
  <1>6. CASE l = i /\ g = OpenMap(off, c[l] - off, l - f + 1, skip, 0, f, l)
    <2> DEFINE mlen == c[l] - off
    <2> HIDE DEF skip
    <2> DEFINE cnt == l - f + 1
    <2>1. g = OpenMap(off, mlen, cnt, skip, 0, f, l) /\ cnt \in Int /\ mlen \in Int
      <3>1. cnt \in Int /\ mlen \in Int
        BY <1>1, <1>3, <1>4
      <3> QED
        BY <1>6, <3>1 DEF cnt
    <2> HIDE DEF cnt
    <2>2. CASE mlen >= length
      <3>1. mlen - length = c[l] - (off + length) /\ off + length <= c[l]
        BY <1>4, <2>2
      <3> HIDE DEF mlen
      <3>2. Grow(g, i + 1, length) = EndedMap(off, length, cnt, skip, mlen - length, f, l)
        BY <2>1, <2>2, GrowEnds
      <3>3. Grow(g, i + 1, length) = EndedMap(off, length, l - f + 1, skip, c[l] - (off + length), f, l)
        BY <3>1, <3>2 DEF cnt
      <3> QED
        BY <1>2, <3>1, <3>3 DEF Growing, skip
    <2>3. CASE ~(mlen >= length)
      <3>1. c[l] < off + length
        BY <1>4, <2>3
      <3>2. l # n
        BY <1>4, <3>1
      <3>3. i + 1 \in f .. n /\ i + 1 \in 1 .. n /\ (i + 1) - 1 = l /\ (i + 1) - f + 1 = cnt + 1
        BY <1>1, <1>6, <3>2 DEF cnt
      <3>4. c[i + 1] = c[l] + sg_list[i + 1].length /\ sg_list[i + 1].length \in Nat
        BY <3>3, ListSumsAt
      <3>5. mlen + sg_list[i + 1].length = c[i + 1] - off
        BY <1>4, <3>4
      <3> HIDE DEF mlen
      <3> DEFINE more == sg_list[i + 1].length
                 j == i + 1
      <3>6. Grow(g, j, length) = OpenMap(off, mlen + more, cnt + 1, skip, 0, f, j)
        <4>0. more = sg_list[j].length /\ more \in Nat
          BY <3>4
        <4> HIDE DEF more, j
        <4>1. mlen \in Int /\ cnt \in Int /\ length \in Nat /\ ~(mlen >= length)
          BY <2>1, <2>3
        <4>2. Grow(OpenMap(off, mlen, cnt, skip, 0, f, l), j, length)
                = OpenMap(off, mlen + more, cnt + 1, skip, 0, f, j)
          BY ONLY <4>0, <4>1, GrowGrows
        <4> QED
          BY <2>1, <4>2
      <3>7. Grow(g, i + 1, length) = OpenMap(off, c[i + 1] - off, (i + 1) - f + 1, skip, 0, f, i + 1)
        BY <3>3, <3>5, <3>6
      <3>8. c[(i + 1) - 1] < off + length
        BY <3>1, <3>3
      <3> QED
        BY <3>3, <3>7, <3>8 DEF Growing, skip
    <2> QED
      BY <2>2, <2>3
  <1> QED
    BY <1>2, <1>5, <1>6

(* The slice of a range of the list spans that range. *)
LEMMA SliceSpans ==
    ASSUME NEW c, ListSums(c), Sums(c, Len(sg_list), Lens(sg_list)), sg_mapped = Len(sg_list),
           NEW off \in Nat, NEW length \in Nat \ {0}, off + length <= c[Len(sg_list)]
    PROVE  SpansRange(kfio_sgl_dma_slice(off, length), c, off, length)
  <1> DEFINE n  == Len(sg_list)
             at == FindEntry(off)
             f  == at.i
             start == [map_offset |-> off, map_length |-> sg_list[at.i].length - at.offset,
                       sge_count |-> 1, sge_skip |-> at.offset, sge_trunc |-> 0,
                       sge_first |-> at.i, sge_last |-> at.i, done |-> FALSE]
             IsG(g) == g = [i \in at.i .. sg_mapped + 1 |-> IF i = at.i THEN start ELSE Grow(g[i - 1], i, length)]
             grown == CHOOSE g : IsG(g)
  <1>1. kfio_sgl_dma_slice(off, length) = grown[n + 1]
    BY DEF kfio_sgl_dma_slice
  <1>2. n \in Nat /\ c[n] \in Nat
    BY DEF ListSums
  <1>3. off < c[n]
    BY <1>2
  <1>4. EntryAt(at, c, off)
    BY <1>3, FindEntryIs
  <1> HIDE DEF at
  <1>5. f \in 1 .. n /\ c[f - 1] <= off /\ off < c[f] /\ at.offset = off - c[f - 1]
    BY <1>4 DEF EntryAt
  <1>6. c[f] = c[f - 1] + sg_list[f].length /\ c[f - 1] \in Nat /\ c[f] \in Nat /\ sg_list[f].length \in Nat /\ f \in Nat
    BY <1>5, ListSumsAt
  <1>7. start = OpenMap(off, c[f] - off, f - f + 1, off - c[f - 1], 0, f, f)
    <2>1. sg_list[f].length - (off - c[f - 1]) = c[f] - off /\ f - f + 1 = 1
      BY <1>6
    <2> HIDE DEF f
    <2>2. start = [map_offset |-> off, map_length |-> sg_list[f].length - at.offset,
                   sge_count |-> 1, sge_skip |-> at.offset, sge_trunc |-> 0,
                   sge_first |-> f, sge_last |-> f, done |-> FALSE]
      BY DEF f
    <2> HIDE DEF start
    <2> QED
      BY <1>5, <2>1, <2>2 DEF OpenMap, MapRecord
  <1>8. \E g : IsG(g)
    <2>1. (n + 1) - f \in Nat /\ f + ((n + 1) - f) = sg_mapped + 1
      BY <1>2, <1>5, <1>6
    <2>2. PICK g : IsGrown(g, f, start, length, (n + 1) - f)
      <3> HIDE DEF f, start, n
      <3> QED
        BY <1>6, <2>1, GrownExists
    <2>3. IsG(g)
      <3> HIDE DEF start, n
      <3> QED
        BY <2>1, <2>2 DEF IsGrown
    <2> QED
      BY <2>3
  <1>9. IsG(grown)
    <2> HIDE DEF IsG
    <2> QED
      BY <1>8
  <1>10. \A i \in f .. n + 1 : grown[i] = IF i = f THEN start ELSE Grow(grown[i - 1], i, length)
    <2> HIDE DEF grown, start, n
    <2>1. grown = [i \in f .. sg_mapped + 1 |-> IF i = f THEN start ELSE Grow(grown[i - 1], i, length)]
      BY <1>9
    <2> QED
      BY <2>1 DEF n
  <1> HIDE DEF grown, start, f, n
  <1> DEFINE Holds(i) == Growing(grown[i], c, f, i, off, length)
             S == {k \in Nat : f + k <= n + 1 => Holds(f + k)}
  <1>11. 0 \in S
    <2>1. f + 0 = f /\ f \in f .. n + 1 /\ f \in f .. n
      BY <1>2, <1>5, <1>6
    <2>2. grown[f] = OpenMap(off, c[f] - off, f - f + 1, off - c[f - 1], 0, f, f)
      BY <1>7, <1>10, <2>1
    <2>3. Holds(f)
      BY <2>1, <2>2 DEF Growing, n
    <2> QED
      BY <2>1, <2>3
  <1>12. ASSUME NEW k \in Nat, k \in S PROVE k + 1 \in S
    <2> SUFFICES ASSUME f + (k + 1) <= n + 1 PROVE Holds(f + (k + 1))
      OBVIOUS
    <2> DEFINE i == f + k
    <2>1. /\ i \in f .. n /\ i + 1 \in f .. n + 1 /\ i + 1 # f /\ (i + 1) - 1 = i /\ f + (k + 1) = i + 1 /\ f + k <= n + 1
      BY <1>2, <1>6
    <2>2. Holds(i)
      BY <1>12, <2>1
    <2>3. grown[i + 1] = Grow(grown[i], i + 1, length)
      BY <1>10, <2>1
    <2> HIDE DEF i
    <2>4. Growing(Grow(grown[i], i + 1, length), c, f, i + 1, off, length)
      BY <1>5, <2>1, <2>2, GrowStep DEF n
    <2> QED
      BY <2>1, <2>3, <2>4
  <1>13. Nat \subseteq S
    BY <1>11, <1>12, SetInduction
  <1>14. Holds(n + 1)
    <2>1. (n + 1) - f \in Nat /\ f + ((n + 1) - f) = n + 1 /\ f + ((n + 1) - f) <= n + 1
      BY <1>2, <1>5, <1>6
    <2>2. (n + 1) - f \in S
      BY <1>13, <2>1
    <2>3. f + ((n + 1) - f) <= n + 1 => Holds(f + ((n + 1) - f))
      BY <2>2
    <2> HIDE DEF Holds
    <2> QED
      BY <2>1, <2>3
  <1>15. PICK l \in f .. n :
           /\ l = f \/ c[l - 1] < off + length
           /\ \/ /\ l = n + 1
                 /\ grown[n + 1] = OpenMap(off, c[l] - off, l - f + 1, off - c[f - 1], 0, f, l)
              \/ /\ off + length <= c[l]
                 /\ grown[n + 1] = EndedMap(off, length, l - f + 1, off - c[f - 1], c[l] - (off + length), f, l)
    BY <1>14 DEF Growing, n
  <1>16. l # n + 1
    BY <1>2, <1>6, <1>15
  <1>17. /\ l \in f .. n /\ off + length <= c[l] /\ (l = f \/ c[l - 1] < off + length)
         /\ grown[n + 1] = EndedMap(off, length, l - f + 1, off - c[f - 1], c[l] - (off + length), f, l)
    BY <1>15, <1>16
  <1> DEFINE g == grown[n + 1]
  <1>18. /\ g.map_offset = off /\ g.map_length = length /\ g.sge_count = l - f + 1
         /\ g.sge_skip = off - c[f - 1] /\ g.sge_trunc = c[l] - (off + length) /\ g.sge_first = f /\ g.sge_last = l
    BY <1>17 DEF EndedMap, MapRecord
  <1> HIDE DEF g
  <1>19. SpansRange(g, c, off, length)
    BY <1>5, <1>17, <1>18 DEF SpansRange, n
  <1> QED
    BY <1>1, <1>19 DEF g

-----------------------------------------------------------------------------
(* Copies *)

(* A list whose entries start where their pages start: its bytes, entry by entry. *)
Laid(es, c) ==
    /\ Len(es) \in Nat /\ c \in [0 .. Len(es) -> Nat] /\ c[0] = 0
    /\ \A i \in 1 .. Len(es) :
         /\ es[i].length \in Nat /\ es[i].length >= 1 /\ c[i] = c[i - 1] + es[i].length
         /\ es[i].page * PageSize \in Nat
         /\ \A k \in 1 .. es[i].length : BytesOf(es)[c[i - 1] + k] = es[i].page * PageSize + k - 1

(* A list of whole starts of pages is laid out so. *)
LEMMA LaidOut ==
    ASSUME NEW es, Extents(es), NEW c, Sums(c, Len(es), Lens(es)),
           \A i \in 1 .. Len(es) : es[i].length >= 1 /\ es[i].offset = 0
    PROVE  Laid(es, c)
  <1>1. /\ Len(es) \in Nat /\ c \in [0 .. Len(es) -> Nat] /\ c[0] = 0
        /\ \A i \in 1 .. Len(es) : c[i] = c[i - 1] + Lens(es)[i]
    BY DEF Extents, Sums
  <1>2. \A i \in 1 .. Len(es) : /\ Addrs(es)[i] = Addr(es[i]) /\ Addrs(es)[i] \in Nat
                                /\ Lens(es)[i] = es[i].length /\ Lens(es)[i] \in Nat
    BY ExtentsAre
  <1>3. \A i \in 1 .. Len(es) : \A k \in 1 .. Lens(es)[i] : BytesOf(es)[c[i - 1] + k] = Addrs(es)[i] + k - 1
    BY BytesCover DEF Covers
  <1>4. \A i \in 1 .. Len(es) : es[i].page * PageSize \in Nat
    BY PageSizeType DEF Extents
  <1>5. \A i \in 1 .. Len(es) : Addr(es[i]) = es[i].page * PageSize
    <2> TAKE i \in 1 .. Len(es)
    <2>1. Addr(es[i]) = es[i].page * PageSize + 0 /\ es[i].page * PageSize \in Nat
      BY <1>4 DEF Addr
    <2> QED
      BY <2>1
  <1>6. ASSUME NEW i \in 1 .. Len(es)
        PROVE  /\ es[i].length \in Nat /\ es[i].length >= 1 /\ c[i] = c[i - 1] + es[i].length
               /\ es[i].page * PageSize \in Nat
               /\ \A k \in 1 .. es[i].length : BytesOf(es)[c[i - 1] + k] = es[i].page * PageSize + k - 1
    <2>1. Lens(es)[i] = es[i].length /\ Lens(es)[i] \in Nat /\ Addrs(es)[i] = es[i].page * PageSize
      BY <1>2, <1>5
    <2>2. \A k \in 1 .. Lens(es)[i] : BytesOf(es)[c[i - 1] + k] = Addrs(es)[i] + k - 1
      BY <1>3
    <2> QED
      BY <1>1, <1>4, <2>1, <2>2
  <1> QED
    BY <1>1, <1>6 DEF Laid

(* A place in a list: byte off of entry i is byte x of the list. *)
Cursor(es, c, i, off, x) ==
    i \in 1 .. Len(es) /\ off \in Nat /\ off < es[i].length /\ x = c[i - 1] + off

(* n bytes of one entry, their addresses, and the place behind them. *)
InEntry(es, c, i, off, x, n) ==
    Cursor(es, c, i, off, x) /\ n \in Nat \ {0} /\ off + n <= es[i].length

Moves(es, c, i, off, x, n) ==
    /\ \A k \in 1 .. n : BytesOf(es)[x + k] = es[i].page * PageSize + off + k - 1
    /\ \A k \in 1 .. n : es[i].page * PageSize + off + k - 1 \in Int
    /\ off + n # es[i].length => Cursor(es, c, i, off + n, x + n)
    /\ off + n = es[i].length /\ x + n < c[Len(es)] => Cursor(es, c, i + 1, 0, x + n)

(* Copying them moves the place so. *)
LEMMA CursorMoves ==
    ASSUME NEW es, NEW c, Laid(es, c), NEW i, NEW off, NEW x, NEW n, InEntry(es, c, i, off, x, n)
    PROVE  Moves(es, c, i, off, x, n)
  <1> DEFINE L == es[i].length
             P == es[i].page * PageSize
  <1>1. /\ i \in 1 .. Len(es) /\ off \in Nat /\ off < L /\ x = c[i - 1] + off /\ off + n <= L
        /\ n \in Nat \ {0}
    BY DEF InEntry, Cursor
  <1>2. Len(es) \in Nat /\ c \in [0 .. Len(es) -> Nat]
    BY DEF Laid
  <1>3. i \in Nat /\ i - 1 \in 0 .. Len(es) /\ c[i - 1] \in Nat /\ x \in Nat
    BY <1>1, <1>2
  <1>4. L \in Nat /\ c[i] = c[i - 1] + L /\ P \in Nat /\ \A k \in 1 .. L : BytesOf(es)[c[i - 1] + k] = P + k - 1
    BY <1>1 DEF Laid
  <1> HIDE DEF L, P
  <1>5. ASSUME NEW k \in 1 .. n PROVE BytesOf(es)[x + k] = P + off + k - 1 /\ P + off + k - 1 \in Int
    <2>1. off + k \in 1 .. L /\ x + k = c[i - 1] + (off + k) /\ P + (off + k) - 1 = P + off + k - 1
      <3>1. k \in Nat /\ k >= 1 /\ k <= n
        BY <1>1
      <3>2. off + k \in 1 .. L
        BY <1>1, <1>4, <3>1
      <3>3. x + k = c[i - 1] + (off + k)
        BY <1>1, <1>3, <3>1
      <3>4. P + (off + k) - 1 = P + off + k - 1
        BY <1>1, <1>4, <3>1
      <3> QED
        BY <3>2, <3>3, <3>4
    <2>2. BytesOf(es)[c[i - 1] + (off + k)] = P + (off + k) - 1
      BY <1>4, <2>1
    <2> QED
      BY <1>1, <1>4, <2>1, <2>2
  <1>6. ASSUME off + n # L PROVE Cursor(es, c, i, off + n, x + n)
    <2>0. off \in Nat /\ n \in Nat /\ x = c[i - 1] + off /\ c[i - 1] \in Nat /\ L \in Nat /\ off + n <= L /\ off + n # L
      BY <1>1, <1>3, <1>4, <1>6
    <2>1. off + n \in Nat /\ off + n < L /\ x + n = c[i - 1] + (off + n)
      BY ONLY <2>0
    <2> QED
      BY <1>1, <2>1 DEF Cursor, L
  <1>7. ASSUME off + n = L, x + n < c[Len(es)] PROVE Cursor(es, c, i + 1, 0, x + n)
    <2>0. off \in Nat /\ n \in Nat /\ x = c[i - 1] + off /\ c[i - 1] \in Nat /\ L \in Nat /\ off + n = L /\ c[i] = c[i - 1] + L
      BY <1>1, <1>3, <1>4, <1>7
    <2>1. x + n = c[i] /\ x + n \in Nat
      BY ONLY <2>0
    <2>2. i # Len(es)
      BY <1>7, <2>1
    <2>3. i + 1 \in 1 .. Len(es) /\ (i + 1) - 1 = i
      BY <1>1, <1>2, <2>2
    <2>4. es[i + 1].length \in Nat /\ es[i + 1].length >= 1
      BY <2>3 DEF Laid
    <2>5. 0 < es[i + 1].length /\ x + n = c[(i + 1) - 1] + 0
      BY <1>3, <2>1, <2>3, <2>4
    <2> QED
      BY <2>3, <2>5 DEF Cursor
  <1> QED
    BY <1>5, <1>6, <1>7 DEF Moves, L, P

(* The destination of a copy. *)
LEMMA TargetIs ==
    /\ Extents(CopyTarget) /\ Len(CopyTarget) = MaxVecs
    /\ \A i \in 1 .. MaxVecs : /\ CopyTarget[i].offset = 0 /\ CopyTarget[i].length = PageSize
                               /\ CopyTarget[i].page = i - 1
  <1>1. MaxVecs \in Nat /\ PageSize \in Nat
    BY ScatterBounds, PageSizeType
  <1>2. Len(CopyTarget) = MaxVecs /\ DOMAIN CopyTarget = 1 .. MaxVecs
    BY <1>1 DEF CopyTarget
  <1>3. \A i \in 1 .. MaxVecs : /\ CopyTarget[i].offset = 0 /\ CopyTarget[i].length = PageSize
                                /\ CopyTarget[i].page = i - 1
    BY DEF CopyTarget
  <1>4. \A i \in 1 .. MaxVecs : i - 1 \in Nat
    BY <1>1
  <1> QED
    BY <1>1, <1>2, <1>3, <1>4 DEF Extents

(* The entries of a list are no longer than pages, so that it fits the destination. *)
LEMMA ListFits ==
    ASSUME NEW c, ListSums(c), Len(sg_list) <= MaxVecs, NEW e, Sums(e, Len(CopyTarget), Lens(CopyTarget))
    PROVE  c[Len(sg_list)] <= e[Len(CopyTarget)]
  <1> DEFINE n == Len(sg_list)
             T == CopyTarget
  <1>1. n \in Nat /\ c \in [0 .. n -> Nat] /\ c[0] = 0
    BY DEF ListSums
  <1>2. Extents(T) /\ Len(T) = MaxVecs /\ MaxVecs \in Nat /\ n <= MaxVecs /\ PageSize \in Nat
    BY TargetIs, ScatterBounds, PageSizeType
  <1>3. \A i \in 1 .. MaxVecs : Lens(T)[i] = PageSize /\ Lens(T)[i] \in Nat
    BY <1>2, TargetIs, ExtentsAre
  <1>4. e \in [0 .. MaxVecs -> Nat] /\ e[0] = 0 /\ \A i \in 1 .. MaxVecs : e[i] = e[i - 1] + PageSize
    BY <1>2, <1>3 DEF Sums
  <1>5. \A x, y \in 0 .. MaxVecs : x <= y => e[x] <= e[y]
    <2>1. Sums(e, MaxVecs, Lens(T))
      BY <1>2
    <2> QED
      BY <1>2, <1>3, <2>1, SumsGrow
  <1> HIDE DEF n, T
  <1> DEFINE S == {m \in Nat : m <= n => c[m] <= e[m]}
  <1>6. 0 \in S
    BY <1>1, <1>4
  <1>7. ASSUME NEW m \in Nat, m \in S PROVE m + 1 \in S
    <2> SUFFICES ASSUME m + 1 <= n PROVE c[m + 1] <= e[m + 1]
      OBVIOUS
    <2>1. m + 1 \in 1 .. n /\ m + 1 \in 1 .. MaxVecs /\ (m + 1) - 1 = m /\ m <= n /\ m \in 0 .. MaxVecs
      BY <1>1, <1>2
    <2>2. c[m] <= e[m]
      BY <1>7, <2>1
    <2>3. c[m + 1] = c[m] + sg_list[m + 1].length /\ c[m] \in Nat /\ sg_list[m + 1].length \in Nat /\ sg_list[m + 1].length <= PageSize
      <3>1. m + 1 \in 1 .. Len(sg_list)
        BY <2>1 DEF n
      <3> QED
        BY <2>1, <3>1, ListSumsAt
    <2>4. e[m + 1] = e[m] + PageSize /\ e[m] \in Nat
      BY <1>4, <2>1
    <2> QED
      BY <1>2, <2>2, <2>3, <2>4
  <1>8. Nat \subseteq S
    BY <1>6, <1>7, SetInduction
  <1>9. c[n] <= e[n]
    BY <1>1, <1>8
  <1>10. e[n] <= e[MaxVecs] /\ e[n] \in Nat /\ e[MaxVecs] \in Nat /\ c[n] \in Nat
    <2>1. n \in 0 .. MaxVecs /\ MaxVecs \in 0 .. MaxVecs /\ n \in 0 .. n
      BY <1>1, <1>2
    <2> QED
      BY <1>1, <1>2, <1>4, <1>5, <2>1
  <1>11. c[n] <= e[MaxVecs]
    BY <1>9, <1>10
  <1> QED
    BY <1>2, <1>11 DEF n, T

(* The rounds of kfio_sgl_copy_data. *)
IsCopying(g, start, k) == g = [r \in 0 .. k |-> IF r = 0 THEN start ELSE CopyRound(g[r - 1])]

(* There are such rounds, however many there are. *)
LEMMA CopyingExists ==
    ASSUME NEW start, NEW n \in Nat
    PROVE  \E g : IsCopying(g, start, n)
  <1> DEFINE S == {k \in Nat : \E g : IsCopying(g, start, k)}
  <1>1. 0 \in S
    <2> DEFINE g == [r \in 0 .. 0 |-> start]
    <2>1. g = [r \in 0 .. 0 |-> IF r = 0 THEN start ELSE CopyRound(g[r - 1])]
      <3>1. \A r \in 0 .. 0 : r = 0
        OBVIOUS
      <3> QED
        BY <3>1
    <2>2. IsCopying(g, start, 0)
      BY <2>1 DEF IsCopying
    <2> QED
      BY <2>2
  <1>2. ASSUME NEW k \in Nat, k \in S PROVE k + 1 \in S
    <2>1. PICK g : IsCopying(g, start, k)
      BY <1>2
    <2> DEFINE new == CopyRound(g[k])
               h == [r \in 0 .. k + 1 |-> IF r = k + 1 THEN new ELSE g[r]]
    <2>2. \A r \in 0 .. k : g[r] = IF r = 0 THEN start ELSE CopyRound(g[r - 1])
      BY <2>1 DEF IsCopying
    <2>3. \A r \in 0 .. k + 1 : h[r] = IF r = 0 THEN start ELSE CopyRound(h[r - 1])
      <3> TAKE r \in 0 .. k + 1
      <3>1. CASE r = k + 1
        <4>1. r - 1 = k /\ r # 0 /\ k \in 0 .. k + 1 /\ k # k + 1
          BY <3>1
        <4>2. h[r] = new /\ h[k] = g[k]
          BY <3>1, <4>1
        <4> HIDE DEF h
        <4> QED
          BY <3>1, <4>1, <4>2
      <3>2. CASE r # k + 1
        <4>1. r \in 0 .. k /\ h[r] = g[r]
          BY <3>2
        <4>2. r # 0 => h[r - 1] = g[r - 1]
          BY <4>1
        <4> HIDE DEF h
        <4> QED
          BY <2>2, <4>1, <4>2
      <3> QED
        BY <3>1, <3>2
    <2>4. h = [r \in 0 .. k + 1 |-> h[r]]
      OBVIOUS
    <2> HIDE DEF h
    <2>5. IsCopying(h, start, k + 1)
      BY <2>3, <2>4 DEF IsCopying
    <2> QED
      BY <2>5
  <1>3. Nat \subseteq S
    BY <1>1, <1>2, SetInduction
  <1> QED
    BY <1>3

(* What has been copied: x bytes, each to its place. *)
Copied(s, x) ==
    /\ s \in Seq(Int \X Int) /\ Len(s) = x
    /\ \A k \in 1 .. x : s[k] = <<BytesOf(CopyTarget)[k], BytesOf(sg_list)[k]>>

(* n bytes more. *)
LEMMA CopyMore ==
    ASSUME NEW x \in Nat, NEW n \in Nat, NEW s, Copied(s, x), NEW to, NEW from,
           \A k \in 1 .. n : to[k] \in Int /\ from[k] \in Int,
           \A k \in 1 .. n : BytesOf(CopyTarget)[x + k] = to[k] /\ BytesOf(sg_list)[x + k] = from[k]
    PROVE  Copied(s \o [k \in 1 .. n |-> <<to[k], from[k]>>], x + n)
  <1> DEFINE t == [k \in 1 .. n |-> <<to[k], from[k]>>]
             P == Int \X Int
             u == s \o t
  <1>1. \A k \in 1 .. n : t[k] = <<to[k], from[k]>> /\ t[k] \in P
    OBVIOUS
  <1>2. t \in Seq(P) /\ Len(t) = n
    BY <1>1
  <1>3. s \in Seq(P) /\ Len(s) = x /\ \A k \in 1 .. x : s[k] = <<BytesOf(CopyTarget)[k], BytesOf(sg_list)[k]>>
    BY DEF Copied
  <1> HIDE DEF t, P
  <1>4. /\ u \in Seq(P) /\ Len(u) = x + n
        /\ \A i \in 1 .. x + n : u[i] = IF i <= x THEN s[i] ELSE t[i - x]
    <2>1. s \in Seq(P) /\ t \in Seq(P)
      BY <1>2, <1>3
    <2>2. /\ u \in Seq(P) /\ Len(u) = Len(s) + Len(t)
          /\ \A i \in 1 .. Len(s) + Len(t) : u[i] = IF i <= Len(s) THEN s[i] ELSE t[i - Len(s)]
      BY ONLY <2>1, ConcatProperties
    <2>3. Len(s) = x /\ Len(t) = n
      BY <1>2, <1>3
    <2> HIDE DEF u
    <2> QED
      BY ONLY <2>2, <2>3
  <1> HIDE DEF u
  <1>5. ASSUME NEW i \in 1 .. x + n PROVE u[i] = <<BytesOf(CopyTarget)[i], BytesOf(sg_list)[i]>>
    <2>1. CASE i <= x
      <3>1. i \in 1 .. x
        BY <2>1
      <3> QED
        BY <1>3, <1>4, <2>1, <3>1
    <2>2. CASE ~(i <= x)
      <3> DEFINE k == i - x
      <3>1. k \in 1 .. n /\ x + k = i
        BY <2>2
      <3>2. u[i] = t[k]
        BY <1>4, <2>2
      <3> HIDE DEF k
      <3>3. t[k] = <<to[k], from[k]>> /\ BytesOf(CopyTarget)[x + k] = to[k] /\ BytesOf(sg_list)[x + k] = from[k]
        BY <1>1, <3>1
      <3> QED
        BY <3>1, <3>2, <3>3
    <2> QED
      BY <2>1, <2>2
  <1>6. Copied(u, x + n)
    BY <1>4, <1>5 DEF Copied, P
  <1> QED
    BY <1>6 DEF u, t

(* A copy of length bytes after r rounds: done, or somewhere in both lists, at an *)
(* entry more of one of them for each round.                                      *)
CopyAt(at, c, e, length, r) ==
    /\ at.left \in 0 .. length /\ Copied(at.copied, length - at.left)
    /\ at.left > 0 =>
         /\ Cursor(CopyTarget, e, at.d, at.doff, length - at.left)
         /\ Cursor(sg_list, c, at.s, at.soff, length - at.left)
         /\ r <= (at.d - 1) + (at.s - 1)

(* Both lists, and room for the bytes in both. *)
CopyLists(c, e, length) ==
    /\ Laid(CopyTarget, e) /\ Laid(sg_list, c) /\ length \in Nat \ {0}
    /\ length <= e[Len(CopyTarget)] /\ length <= c[Len(sg_list)]
    /\ \A i \in 1 .. Len(sg_list) : sg_list[i].offset = 0

(* The bytes of a round that is not the last one end an entry. *)
LEMMA RoundBytes ==
    ASSUME NEW left \in Nat \ {0}, NEW a \in Nat \ {0}, NEW b \in Nat \ {0}
    PROVE  LET n == Lesser(left, Lesser(a, b))
           IN  /\ n \in Nat \ {0} /\ n <= left /\ n <= a /\ n <= b
               /\ n = left \/ n = a \/ n = b
  BY DEF Lesser

(* One round of the copy. *)
LEMMA CopyStep ==
    ASSUME NEW c, NEW e, NEW length, CopyLists(c, e, length), NEW r \in Nat, NEW at, CopyAt(at, c, e, length, r)
    PROVE  CopyAt(CopyRound(at), c, e, length, r + 1)
  <1>1. /\ Laid(CopyTarget, e) /\ Laid(sg_list, c) /\ length \in Nat \ {0}
        /\ length <= e[Len(CopyTarget)] /\ length <= c[Len(sg_list)]
        /\ \A i \in 1 .. Len(sg_list) : sg_list[i].offset = 0
    BY DEF CopyLists
  <1>2. at.left \in Nat /\ at.left <= length /\ Copied(at.copied, length - at.left)
    BY <1>1 DEF CopyAt
  <1>3. CASE at.left = 0
    <2>1. CopyRound(at) = at
      BY <1>3 DEF CopyRound
    <2>2. ~(at.left > 0)
      BY <1>3
    <2> QED
      BY <1>3, <2>1, <2>2 DEF CopyAt
  <1>4. CASE at.left # 0
    <2> DEFINE to   == CopyTarget[at.d]
               from == sg_list[at.s]
               n    == Lesser(at.left, Lesser(Sub32(to.length, at.doff), Sub32(from.length, at.soff)))
               dend == at.doff + n = to.length
               send == at.soff + n = from.length
               x    == length - at.left
               toB  == [k \in 1 .. n |-> to.page * PageSize + at.doff + k - 1]
               fromB == [k \in 1 .. n |-> from.page * PageSize + at.soff + k - 1]
               more == [k \in 1 .. n |-> <<to.page * PageSize + at.doff + k - 1,
                                           from.page * PageSize + at.soff + k - 1>>]
               d2    == IF dend THEN at.d + 1 ELSE at.d
               doff2 == IF dend THEN 0 ELSE at.doff + n
               s2    == IF send THEN at.s + 1 ELSE at.s
               soff2 == IF ~send THEN at.soff + n
                        ELSE IF at.s < Len(sg_list) THEN sg_list[at.s + 1].offset ELSE 0
               new == [d |-> d2, doff |-> doff2, s |-> s2, soff |-> soff2,
                       left |-> at.left - n, copied |-> at.copied \o more]
    <2>1. /\ Cursor(CopyTarget, e, at.d, at.doff, x) /\ Cursor(sg_list, c, at.s, at.soff, x)
          /\ r <= (at.d - 1) + (at.s - 1) /\ at.left \in Nat \ {0} /\ x \in Nat /\ length = x + at.left
      <3>1. at.left > 0
        BY <1>2, <1>4
      <3>2. /\ Cursor(CopyTarget, e, at.d, at.doff, x) /\ Cursor(sg_list, c, at.s, at.soff, x)
            /\ r <= (at.d - 1) + (at.s - 1)
        BY <3>1 DEF CopyAt
      <3>3. at.left \in Nat \ {0} /\ x \in Nat /\ length = x + at.left
        BY <1>1, <1>2, <1>4
      <3> QED
        BY <3>2, <3>3
    <2>2. /\ at.d \in 1 .. Len(CopyTarget) /\ at.doff \in Nat /\ at.doff < to.length
          /\ at.s \in 1 .. Len(sg_list) /\ at.soff \in Nat /\ at.soff < from.length
      BY <2>1 DEF Cursor
    <2>3. Len(CopyTarget) \in Nat /\ Len(sg_list) \in Nat /\ to.length \in Nat /\ from.length \in Nat
      BY <1>1, <2>2 DEF Laid
    <2>4. at.d \in Nat /\ at.s \in Nat /\ ~(at.d > Len(CopyTarget) \/ at.s > Len(sg_list))
      BY <2>2, <2>3
    <2>5. CopyRound(at) = new
      BY <1>4, <2>4 DEF CopyRound
    <2> HIDE DEF to, from
    <2>6. /\ Sub32(to.length, at.doff) = to.length - at.doff /\ to.length - at.doff \in Nat \ {0}
          /\ Sub32(from.length, at.soff) = from.length - at.soff /\ from.length - at.soff \in Nat \ {0}
      BY <2>2, <2>3, SMTT(20) DEF Sub32
    <2>7. /\ n \in Nat \ {0} /\ n <= at.left /\ n <= to.length - at.doff /\ n <= from.length - at.soff
          /\ n = at.left \/ n = to.length - at.doff \/ n = from.length - at.soff
      <3>1. n = Lesser(at.left, Lesser(to.length - at.doff, from.length - at.soff))
        BY <2>6
      <3> HIDE DEF n
      <3> QED
        BY <2>1, <2>6, <3>1, RoundBytes
    <2> HIDE DEF n
    <2>8. at.doff + n <= to.length /\ at.soff + n <= from.length
      BY <2>2, <2>3, <2>7
    <2>9. /\ \A k \in 1 .. n : BytesOf(CopyTarget)[x + k] = to.page * PageSize + at.doff + k - 1
          /\ \A k \in 1 .. n : to.page * PageSize + at.doff + k - 1 \in Int
          /\ at.doff + n # to.length => Cursor(CopyTarget, e, at.d, at.doff + n, x + n)
          /\ at.doff + n = to.length /\ x + n < e[Len(CopyTarget)] => Cursor(CopyTarget, e, at.d + 1, 0, x + n)
      <3> HIDE DEF x
      <3>1. InEntry(CopyTarget, e, at.d, at.doff, x, n)
        BY <2>1, <2>7, <2>8 DEF InEntry, to
      <3>2. Moves(CopyTarget, e, at.d, at.doff, x, n)
        BY <1>1, <3>1, CursorMoves
      <3> QED
        BY <3>2 DEF Moves, to
    <2>10. /\ \A k \in 1 .. n : BytesOf(sg_list)[x + k] = from.page * PageSize + at.soff + k - 1
           /\ \A k \in 1 .. n : from.page * PageSize + at.soff + k - 1 \in Int
           /\ at.soff + n # from.length => Cursor(sg_list, c, at.s, at.soff + n, x + n)
           /\ at.soff + n = from.length /\ x + n < c[Len(sg_list)] => Cursor(sg_list, c, at.s + 1, 0, x + n)
      <3> HIDE DEF x
      <3>1. InEntry(sg_list, c, at.s, at.soff, x, n)
        BY <2>1, <2>7, <2>8 DEF InEntry, from
      <3>2. Moves(sg_list, c, at.s, at.soff, x, n)
        BY <1>1, <3>1, CursorMoves
      <3> QED
        BY <3>2 DEF Moves, from
    <2>11. Copied(at.copied \o more, x + n)
      <3>1. \A k \in 1 .. n : /\ toB[k] = to.page * PageSize + at.doff + k - 1
                              /\ fromB[k] = from.page * PageSize + at.soff + k - 1
        OBVIOUS
      <3> HIDE DEF toB, fromB
      <3>2. more = [k \in 1 .. n |-> <<toB[k], fromB[k]>>]
        BY <3>1
      <3> HIDE DEF more, x
      <3>3. \A k \in 1 .. n : toB[k] \in Int /\ fromB[k] \in Int
        BY <2>9, <2>10, <3>1
      <3>4. \A k \in 1 .. n : BytesOf(CopyTarget)[x + k] = toB[k] /\ BytesOf(sg_list)[x + k] = fromB[k]
        BY <2>9, <2>10, <3>1
      <3>5. n \in Nat /\ x \in Nat /\ Copied(at.copied, x)
        BY <1>2, <2>1, <2>7 DEF x
      <3>6. Copied(at.copied \o [k \in 1 .. n |-> <<toB[k], fromB[k]>>], x + n)
        BY ONLY <3>3, <3>4, <3>5, CopyMore
      <3> QED
        BY <3>2, <3>6
    <2>12. /\ at.left - n \in 0 .. length /\ length - (at.left - n) = x + n
      BY <1>1, <1>2, <2>1, <2>7
    <2>13. ASSUME at.left - n > 0
           PROVE  /\ Cursor(CopyTarget, e, d2, doff2, x + n) /\ Cursor(sg_list, c, s2, soff2, x + n)
                  /\ r + 1 <= (d2 - 1) + (s2 - 1)
      <3>1. x + n < length /\ n # at.left /\ (n = to.length - at.doff \/ n = from.length - at.soff)
        BY <2>1, <2>7, <2>13
      <3>2. x + n < e[Len(CopyTarget)] /\ x + n < c[Len(sg_list)]
        <4>1. e[Len(CopyTarget)] \in Nat /\ c[Len(sg_list)] \in Nat
          BY <1>1, <2>3 DEF Laid
        <4>2. length \in Nat /\ x + n \in Nat
          BY <1>1, <2>1, <2>7
        <4> HIDE DEF x
        <4> QED
          BY <1>1, <3>1, <4>1, <4>2
      <3>3. dend \/ send
        BY <2>2, <2>3, <3>1
      <3>4. Cursor(CopyTarget, e, d2, doff2, x + n)
        <4> HIDE DEF x
        <4> QED
          BY <2>9, <3>2
      <3>5. Cursor(sg_list, c, s2, soff2, x + n)
        <4> HIDE DEF x
        <4>1. CASE ~send
          BY <2>10, <4>1
        <4>2. CASE send
          <5>1. Cursor(sg_list, c, at.s + 1, 0, x + n)
            BY <2>10, <3>2, <4>2
          <5>2. soff2 = 0
            <6>1. at.s < Len(sg_list) => at.s + 1 \in 1 .. Len(sg_list)
              BY <2>3, <2>4
            <6> QED
              BY <1>1, <4>2, <6>1
          <5> QED
            BY <4>2, <5>1, <5>2
        <4> QED
          BY <4>1, <4>2
      <3>6. r + 1 <= (d2 - 1) + (s2 - 1)
        <4>1. d2 \in {at.d, at.d + 1} /\ s2 \in {at.s, at.s + 1} /\ (d2 = at.d + 1 \/ s2 = at.s + 1)
          BY <3>3
        <4> HIDE DEF d2, s2
        <4>2. r \in Nat /\ at.d \in Nat /\ at.s \in Nat /\ r <= (at.d - 1) + (at.s - 1)
          BY <2>1, <2>4
        <4>3. \A x1, y1, x2, y2 \in Nat : (x2 \in {x1, x1 + 1} /\ y2 \in {y1, y1 + 1} /\ (x2 = x1 + 1 \/ y2 = y1 + 1)
                /\ r <= (x1 - 1) + (y1 - 1)) => r + 1 <= (x2 - 1) + (y2 - 1)
          BY ONLY <4>2
        <4>4. d2 \in Nat /\ s2 \in Nat
          BY ONLY <4>1, <4>2
        <4> QED
          BY ONLY <4>1, <4>2, <4>3, <4>4
      <3> QED
        BY <3>4, <3>5, <3>6
    <2> HIDE DEF d2, doff2, s2, soff2, more, x
    <2>14. /\ new.d = d2 /\ new.doff = doff2 /\ new.s = s2 /\ new.soff = soff2
           /\ new.left = at.left - n /\ new.copied = at.copied \o more
      OBVIOUS
    <2> HIDE DEF new
    <2>15. CopyAt(new, c, e, length, r + 1)
      BY <2>11, <2>12, <2>13, <2>14 DEF CopyAt
    <2> QED
      BY <2>5, <2>15
  <1> QED
    BY <1>3, <1>4

(* Before the first round. *)
LEMMA NothingCopied == Copied(<< >>, 0)
  BY DEF Copied

(* All of the rounds: the bytes asked for, each to its place. *)
LEMMA CopyDone ==
    ASSUME NEW c, NEW e, NEW length, CopyLists(c, e, length)
    PROVE  kfio_sgl_copy_data(length) = [k \in 1 .. length |-> <<BytesOf(CopyTarget)[k], BytesOf(sg_list)[k]>>]
  <1> DEFINE start == [d |-> 1, doff |-> CopyTarget[1].offset, s |-> 1, soff |-> sg_list[1].offset,
                       left |-> length, copied |-> << >>]
             rounds == Len(CopyTarget) + Len(sg_list) + 1
             IsG(g) == g = [r \in 0 .. rounds |-> IF r = 0 THEN start ELSE CopyRound(g[r - 1])]
             at == CHOOSE g : IsG(g)
  <1>1. kfio_sgl_copy_data(length) = at[rounds].copied
    BY DEF kfio_sgl_copy_data
  <1>2. /\ Laid(CopyTarget, e) /\ Laid(sg_list, c) /\ length \in Nat \ {0}
        /\ length <= e[Len(CopyTarget)] /\ length <= c[Len(sg_list)]
        /\ \A i \in 1 .. Len(sg_list) : sg_list[i].offset = 0
    BY DEF CopyLists
  <1>3. /\ Len(CopyTarget) \in Nat /\ Len(sg_list) \in Nat
        /\ e[0] = 0 /\ c[0] = 0 /\ e[Len(CopyTarget)] \in Nat /\ c[Len(sg_list)] \in Nat
    BY <1>2 DEF Laid
  <1>4. Len(CopyTarget) # 0 /\ Len(sg_list) # 0
    BY <1>2, <1>3
  <1>5. 1 \in 1 .. Len(CopyTarget) /\ 1 \in 1 .. Len(sg_list) /\ rounds \in Nat /\ Len(CopyTarget) = MaxVecs
    BY <1>3, <1>4, TargetIs
  <1>6. CopyAt(start, c, e, length, 0)
    <2>1. start.d = 1 /\ start.doff = 0 /\ start.s = 1 /\ start.soff = 0 /\ start.left = length /\ start.copied = << >>
      BY <1>2, <1>5, TargetIs
    <2> HIDE DEF start
    <2>2. length - length = 0 /\ length \in 0 .. length /\ 0 <= (1 - 1) + (1 - 1) /\ 1 - 1 = 0 /\ 0 + 0 = 0
      BY <1>2
    <2>3. Cursor(CopyTarget, e, 1, 0, 0)
      <3>1. CopyTarget[1].length \in Nat /\ CopyTarget[1].length >= 1
        BY <1>2, <1>5 DEF Laid
      <3>2. 0 < CopyTarget[1].length /\ 0 \in Nat
        BY <3>1
      <3>3. 0 = e[1 - 1] + 0
        <4>1. e[1 - 1] = 0
          BY <1>3
        <4> QED
          BY <4>1
      <3> QED
        BY <1>5, <3>2, <3>3 DEF Cursor
    <2>4. Cursor(sg_list, c, 1, 0, 0)
      <3>1. sg_list[1].length \in Nat /\ sg_list[1].length >= 1
        BY <1>2, <1>5 DEF Laid
      <3>2. 0 < sg_list[1].length /\ 0 \in Nat
        BY <3>1
      <3>3. 0 = c[1 - 1] + 0
        <4>1. c[1 - 1] = 0
          BY <1>3
        <4> QED
          BY <4>1
      <3> QED
        BY <1>5, <3>2, <3>3 DEF Cursor
    <2> QED
      BY <2>1, <2>2, <2>3, <2>4, NothingCopied DEF CopyAt
  <1>7. \E g : IsG(g)
    <2> HIDE DEF start, rounds
    <2>1. PICK g : IsCopying(g, start, rounds)
      BY <1>5, CopyingExists
    <2>2. IsG(g)
      BY <2>1 DEF IsCopying
    <2> QED
      BY <2>2
  <1>8. IsG(at)
    <2> HIDE DEF IsG
    <2> QED
      BY <1>7
  <1>9. \A r \in 0 .. rounds : at[r] = IF r = 0 THEN start ELSE CopyRound(at[r - 1])
    <2> HIDE DEF at, start, rounds
    <2> QED
      BY <1>8
  <1>10. rounds = Len(CopyTarget) + Len(sg_list) + 1
    OBVIOUS
  <1> HIDE DEF at, start, rounds
  <1> DEFINE S == {r \in Nat : r <= rounds => CopyAt(at[r], c, e, length, r)}
  <1>11. 0 \in S
    <2>1. 0 \in 0 .. rounds
      BY <1>5
    <2>2. at[0] = start
      BY <1>9, <2>1
    <2> QED
      BY <1>6, <2>2
  <1>12. ASSUME NEW r \in Nat, r \in S PROVE r + 1 \in S
    <2> SUFFICES ASSUME r + 1 <= rounds PROVE CopyAt(at[r + 1], c, e, length, r + 1)
      OBVIOUS
    <2>1. r <= rounds /\ r + 1 \in 0 .. rounds /\ r + 1 # 0 /\ (r + 1) - 1 = r
      BY <1>5
    <2>2. CopyAt(at[r], c, e, length, r)
      BY <1>12, <2>1
    <2>3. at[r + 1] = CopyRound(at[r])
      BY <1>9, <2>1
    <2>4. CopyAt(CopyRound(at[r]), c, e, length, r + 1)
      BY <2>2, CopyStep
    <2> QED
      BY <2>3, <2>4
  <1>13. Nat \subseteq S
    BY <1>11, <1>12, SetInduction
  <1>14. CopyAt(at[rounds], c, e, length, rounds)
    <2>1. rounds \in S /\ rounds <= rounds
      BY <1>5, <1>13
    <2> QED
      BY <2>1
  <1> DEFINE last == at[rounds]
  <1> HIDE DEF last
  <1>15. /\ last.left \in 0 .. length /\ Copied(last.copied, length - last.left)
         /\ last.left > 0 =>
              /\ last.d \in 1 .. Len(CopyTarget) /\ last.s \in 1 .. Len(sg_list)
              /\ rounds <= (last.d - 1) + (last.s - 1)
    BY <1>14 DEF CopyAt, Cursor, last
  <1>16. last.left = 0
    <2> SUFFICES ASSUME last.left > 0 PROVE FALSE
      BY <1>2, <1>15
    <2>1. last.d \in 1 .. Len(CopyTarget) /\ last.s \in 1 .. Len(sg_list) /\ rounds <= (last.d - 1) + (last.s - 1)
      BY <1>15
    <2> QED
      BY <1>3, <1>10, <2>1
  <1>17. Copied(last.copied, length)
    <2>1. length - 0 = length
      BY <1>2
    <2> QED
      BY <1>15, <1>16, <2>1
  <1> DEFINE s == last.copied
             P == Int \X Int
  <1>18. s \in Seq(P) /\ Len(s) = length /\ \A k \in 1 .. length : s[k] = <<BytesOf(CopyTarget)[k], BytesOf(sg_list)[k]>>
    BY <1>17 DEF Copied
  <1> HIDE DEF s, P
  <1>19. s = [k \in 1 .. length |-> s[k]]
    BY <1>18
  <1>20. s = [k \in 1 .. length |-> <<BytesOf(CopyTarget)[k], BytesOf(sg_list)[k]>>]
    BY <1>18, <1>19
  <1> QED
    BY <1>1, <1>20 DEF s, last

(* A copy out of the list. *)
LEMMA CopiesExact == SgInv /\ BytesInv => ScatterCopyExact
  <1> SUFFICES ASSUME SgInv, BytesInv, sg_list # << >>, ~sg_lost, \A i \in DOMAIN sg_list : sg_list[i].offset = 0,
                      NEW length \in 1 .. sg_size
               PROVE  kfio_sgl_copy_data(length) =
                        [k \in 1 .. length |-> <<BytesOf(CopyTarget)[k], BytesOf(sg_list)[k]>>]
    BY DEF ScatterCopyExact
  <1>1. InMemory(sg_list) /\ sg_size = LengthOf(sg_list)
    BY DEF BytesInv, ListIsAsked
  <1>2. Extents(sg_list) /\ DOMAIN sg_list = 1 .. Len(sg_list)
    BY <1>1, InMemoryExtents DEF Extents
  <1>3. PICK c : Sums(c, Len(sg_list), Lens(sg_list))
    BY <1>2, ExtentsAre
  <1>4. ListSums(c) /\ sg_size = c[Len(sg_list)]
    BY <1>1, <1>2, <1>3, SumsOfList, LengthIs
  <1>5. Extents(CopyTarget) /\ Len(CopyTarget) = MaxVecs
    BY TargetIs
  <1>6. PICK e : Sums(e, Len(CopyTarget), Lens(CopyTarget))
    BY <1>5, ExtentsAre
  <1>7. Laid(sg_list, c)
    <2>1. \A i \in 1 .. Len(sg_list) : sg_list[i].length >= 1 /\ sg_list[i].offset = 0
      BY <1>2, <1>4, ListSumsAt
    <2> QED
      BY <1>2, <1>3, <2>1, LaidOut
  <1>8. Laid(CopyTarget, e)
    <2>1. \A i \in 1 .. Len(CopyTarget) : CopyTarget[i].length >= 1 /\ CopyTarget[i].offset = 0
      BY TargetIs, PageSizeType
    <2> QED
      BY <1>5, <1>6, <2>1, LaidOut
  <1>9. Len(sg_list) <= MaxVecs
    <2>1. sg_max \in 0 .. MaxVecs /\ Len(sg_list) <= sg_max /\ Len(sg_list) \in Nat
      BY <1>2 DEF SgInv, SgTypes, Extents
    <2> QED
      BY <2>1, ScatterBounds
  <1>10. c[Len(sg_list)] <= e[Len(CopyTarget)]
    BY <1>4, <1>6, <1>9, ListFits
  <1>11. c[Len(sg_list)] \in Nat /\ e[Len(CopyTarget)] \in Nat
    BY <1>7, <1>8 DEF Laid
  <1>12. length \in Nat \ {0} /\ length <= c[Len(sg_list)] /\ length <= e[Len(CopyTarget)]
    BY <1>4, <1>10, <1>11
  <1>13. CopyLists(c, e, length)
    BY <1>2, <1>7, <1>8, <1>12 DEF CopyLists
  <1> QED
    BY <1>13, CopyDone

(* The maps of the list, and of any range of it. *)
LEMMA SlicesExact == SgInv /\ BytesInv => ScatterSliceExact
  <1> SUFFICES ASSUME SgInv, BytesInv, sg_mapped > 0, ~sg_lost
               PROVE  /\ sg_size = Len(BytesOf(sg_list))
                      /\ MapExact(WholeMap)
                      /\ \A offset \in 0 .. sg_size - 1 :
                           /\ kfio_sgl_get_byte_pointer(offset) = BytesOf(sg_list)[offset + 1]
                           /\ \A length \in 1 .. sg_size - offset :
                                LET dmap == kfio_sgl_dma_slice(offset, length)
                                IN  MapExact(dmap) /\ dmap.map_length = length
    BY DEF ScatterSliceExact
  <1> DEFINE n == Len(sg_list)
  <1>1. InMemory(sg_list) /\ sg_size = LengthOf(sg_list)
    BY DEF BytesInv, ListIsAsked
  <1>2. Extents(sg_list)
    BY <1>1, InMemoryExtents
  <1>3. PICK c : Sums(c, n, Lens(sg_list))
    BY <1>2, ExtentsAre
  <1>4. ListSums(c) /\ sg_size = c[n] /\ sg_size = Len(BytesOf(sg_list))
    BY <1>1, <1>2, <1>3, SumsOfList, LengthIs, BytesLength
  <1>5. n \in Nat /\ c[n] \in Nat /\ sg_mapped = n /\ sg_list # << >>
    <2>1. n \in Nat /\ c[n] \in Nat
      BY <1>4 DEF ListSums
    <2>2. sg_mapped \in {0, n}
      BY DEF SgInv, SgTypes
    <2>3. sg_mapped = n /\ n > 0
      BY <2>1, <2>2
    <2> QED
      BY <2>1, <2>3
  <1>6. MapExact(WholeMap)
    <2>1. SpansRange(WholeMap, c, 0, c[n]) /\ c[n] \in Nat \ {0}
      BY <1>4, <1>5, WholeSpans
    <2>2. 0 \in Nat
      OBVIOUS
    <2> QED
      BY <1>1, <1>3, <2>1, <2>2, RangeMapped
  <1>7. ASSUME NEW offset \in 0 .. sg_size - 1
        PROVE  kfio_sgl_get_byte_pointer(offset) = BytesOf(sg_list)[offset + 1]
    <2>1. offset \in Nat /\ offset < c[n]
      BY <1>4, <1>5
    <2> QED
      BY <1>1, <1>3, <1>4, <2>1, PointerIs
  <1>8. ASSUME NEW offset \in 0 .. sg_size - 1, NEW length \in 1 .. sg_size - offset
        PROVE  MapExact(kfio_sgl_dma_slice(offset, length)) /\ kfio_sgl_dma_slice(offset, length).map_length = length
    <2>1. offset \in Nat /\ length \in Nat \ {0} /\ offset + length <= c[n]
      BY <1>4, <1>5
    <2> DEFINE dmap == kfio_sgl_dma_slice(offset, length)
    <2>2. SpansRange(dmap, c, offset, length)
      BY <1>3, <1>4, <1>5, <2>1, SliceSpans
    <2> HIDE DEF dmap
    <2>3. MapExact(dmap)
      BY <1>1, <1>3, <2>1, <2>2, RangeMapped
    <2>4. dmap.map_length = length
      BY <2>2 DEF SpansRange
    <2> QED
      BY <2>3, <2>4 DEF dmap
  <1> QED
    BY <1>4, <1>6, <1>7, <1>8

(* For any page size, memory, list and buffers, while no error path of        *)
(* kfio_sgl_map_bytes_gen was taken: the list is byte for byte what its users *)
(* mapped; a slice for DMA (kfio_sgl_dma_slice) and a pointer into the list   *)
(* give exactly the bytes of the range asked for; and a copy of any length    *)
(* (kfio_sgl_copy_data), of entries that start at their pages, pairs every    *)
(* byte with the one at the same place.                                       *)
THEOREM BytesAlwaysExact == ScatterSpec => []ScatterExact
  <1>1. ScatterInit => SgInv /\ BytesInv
    BY SgInitInv, BytesInit
  <1>2. SgInv /\ BytesInv /\ [ScatterNext]_sgVars => (SgInv /\ BytesInv)'
    BY SgStep, BytesStep
  <1>3. SgInv /\ BytesInv => ScatterExact
    BY SlicesExact, CopiesExact DEF ScatterExact, BytesInv, ListIsAsked
  <1> QED
    BY <1>1, <1>2, <1>3, PTL DEF ScatterSpec

-----------------------------------------------------------------------------
(* The map from processors to queues *)

(* What divisions and remainders of natural numbers are. *)
LEMMA Division ==
    ASSUME NEW a \in Nat, NEW b \in Nat \ {0}
    PROVE  /\ a \div b \in Nat /\ (a \div b) * b <= a /\ a < (a \div b) * b + b
           /\ a % b \in 0 .. (b - 1) /\ a = (a \div b) * b + (a % b)
  OBVIOUS

(* Products grow with their factors. *)
LEMMA ProductsGrow ==
    ASSUME NEW a \in Nat, NEW b \in Nat, NEW k \in Nat, a <= b
    PROVE  a * k <= b * k
  <1>1. (b - a) * k >= 0
    OBVIOUS
  <1>2. (b - a) * k = b * k - a * k
    OBVIOUS
  <1>3. a * k \in Nat /\ b * k \in Nat
    OBVIOUS
  <1> QED
    BY <1>1, <1>2, <1>3

(* The quotient is the only number between the bounds. *)
LEMMA Quotient ==
    ASSUME NEW a \in Nat, NEW b \in Nat \ {0}, NEW q \in Nat, q * b <= a, a < q * b + b
    PROVE  a \div b = q
  OBVIOUS

(* The remainder of a multiple and a rest. *)
LEMMA Remainder ==
    ASSUME NEW b \in Nat \ {0}, NEW q \in Nat, NEW r \in 0 .. (b - 1)
    PROVE  (q * b + r) % b = r
  BY SMT

(* A number below the divisor is its own remainder. *)
LEMMA RemainderSmall ==
    ASSUME NEW a \in Nat, NEW b \in Nat \ {0}, a < b
    PROVE  a % b = a
  OBVIOUS

(* Counting on in a ring. *)
LEMMA RemainderNext ==
    ASSUME NEW a \in Nat, NEW b \in Nat \ {0}
    PROVE  ((a % b) + 1) % b = (a + 1) % b
  <1> DEFINE q == a \div b
             r == a % b
  <1>1. q \in Nat /\ r \in 0 .. (b - 1) /\ a = q * b + r
    BY Division
  <1> HIDE DEF q, r
  <1>2. CASE r + 1 < b
    <2>1. r + 1 \in 0 .. (b - 1) /\ r + 1 \in Nat
      BY <1>1, <1>2
    <2>2. (q * b + (r + 1)) % b = r + 1
      BY <1>1, <2>1, Remainder
    <2>3. (r + 1) % b = r + 1
      BY <1>2, <2>1, RemainderSmall
    <2>4. a + 1 = q * b + (r + 1)
      BY <1>1
    <2> QED
      BY <2>2, <2>3, <2>4 DEF r
  <1>3. CASE r + 1 = b
    <2>1. q + 1 \in Nat /\ 1 \in Nat /\ 0 \in 0 .. (b - 1)
      BY <1>1
    <2>2. ((q + 1) * b + 0) % b = 0 /\ (1 * b + 0) % b = 0
      BY <2>1, Remainder
    <2>3. a + 1 = (q + 1) * b + 0 /\ r + 1 = 1 * b + 0
      BY <1>1, <1>3
    <2> QED
      BY <2>2, <2>3 DEF r
  <1> QED
    BY <1>1, <1>2, <1>3

(* The machines the map is computed for. *)
Machine(m) ==
    /\ m.node \in [Cpus -> Nodes] /\ m.nodes \in 1 .. NodesPossible /\ m.queues \in 1 .. MaxQueues
    /\ m.online \subseteq Cpus

(* The types of the parts of a machine. *)
LEMMA MachineFacts ==
    ASSUME NEW m, Machine(m)
    PROVE  /\ m.nodes \in Nat \ {0} /\ m.nodes <= NodesPossible /\ m.queues \in Nat \ {0}
           /\ NumCpus \in Nat \ {0} /\ NodesPossible \in Nat \ {0}
           /\ \A c \in Cpus : c \in Nat /\ c < NumCpus /\ m.node[c] \in Nodes /\ m.node[c] \in Nat /\ m.node[c] \in Populated(m)
           /\ Populated(m) \subseteq Nodes
           /\ IsFiniteSet(Cpus) /\ IsFiniteSet(m.online) /\ Cardinality(m.online) \in Nat
  <1>1. NumCpus \in Nat \ {0} /\ NodesPossible \in Nat \ {0} /\ MaxQueues \in Nat \ {0}
    BY CpuMapBounds
  <1>2. m.nodes \in Nat \ {0} /\ m.nodes <= NodesPossible /\ m.queues \in Nat \ {0}
    BY <1>1 DEF Machine
  <1>3. \A c \in Cpus : c \in Nat /\ c < NumCpus /\ m.node[c] \in Nodes /\ m.node[c] \in Nat /\ m.node[c] \in Populated(m)
    BY <1>1 DEF Machine, Cpus, Nodes, Populated
  <1>4. Populated(m) \subseteq Nodes
    BY DEF Machine, Populated
  <1>5. IsFiniteSet(Cpus)
    BY <1>1, FS_Interval DEF Cpus
  <1>6. IsFiniteSet(m.online) /\ Cardinality(m.online) \in Nat
    BY <1>5, FS_Subset, FS_CardinalityType DEF Machine
  <1> QED
    BY <1>1, <1>2, <1>3, <1>4, <1>5, <1>6

(* The equation of ix, up to n. *)
IsIx(m, g, n) ==
    g = [c \in 0 .. n |-> IF c = 0 THEN 0
                          ELSE IF c - 1 \in m.online THEN (g[c - 1] + 1) % m.queues ELSE g[c - 1]]

Ix(m) == CHOOSE g : IsIx(m, g, NumCpus)

(* The first mapping, as its table of counters. *)
LEMMA QueuePerCpuIs ==
    ASSUME NEW m
    PROVE  QueuePerCpu(m) = [c \in Cpus |-> Ix(m)[c]]
  BY DEF QueuePerCpu, Ix, IsIx

(* There is such a table. *)
LEMMA IxExists ==
    ASSUME NEW m, NEW n \in Nat
    PROVE  \E g : IsIx(m, g, n)
  <1> DEFINE S == {k \in Nat : \E g : IsIx(m, g, k)}
  <1>1. 0 \in S
    <2>1. IsIx(m, [c \in 0 .. 0 |-> 0], 0)
      BY DEF IsIx
    <2> QED
      BY <2>1
  <1>2. ASSUME NEW k \in Nat, k \in S PROVE k + 1 \in S
    <2>1. PICK g : IsIx(m, g, k)
      BY <1>2
    <2> DEFINE last == IF k \in m.online THEN (g[k] + 1) % m.queues ELSE g[k]
               h == [c \in 0 .. (k + 1) |-> IF c = k + 1 THEN last ELSE g[c]]
    <2>2. \A c \in 0 .. k : g[c] = IF c = 0 THEN 0
                                   ELSE IF c - 1 \in m.online THEN (g[c - 1] + 1) % m.queues ELSE g[c - 1]
      BY <2>1 DEF IsIx
    <2>3. \A c \in 0 .. (k + 1) : h[c] = IF c = 0 THEN 0
                                         ELSE IF c - 1 \in m.online THEN (h[c - 1] + 1) % m.queues ELSE h[c - 1]
      BY <2>2
    <2>4. h = [c \in 0 .. (k + 1) |-> h[c]]
      OBVIOUS
    <2> HIDE DEF h
    <2>5. IsIx(m, h, k + 1)
      BY <2>3, <2>4 DEF IsIx
    <2> QED
      BY <2>5
  <1>3. Nat \subseteq S
    BY <1>1, <1>2, SetInduction
  <1> QED
    BY <1>3

(* The online processors before c. *)
OnlineBefore(m, c) == {d \in m.online : d < c}

(* The processors counted before a processor. *)
LEMMA OnlineBeforeFacts ==
    ASSUME NEW m, Machine(m), NEW c \in Nat
    PROVE  /\ IsFiniteSet(OnlineBefore(m, c)) /\ Cardinality(OnlineBefore(m, c)) \in Nat
           /\ Cardinality(OnlineBefore(m, c)) <= Cardinality(m.online)
           /\ Cardinality(OnlineBefore(m, 0)) = 0
           /\ c \in m.online => Cardinality(OnlineBefore(m, c + 1)) = Cardinality(OnlineBefore(m, c)) + 1
           /\ c \notin m.online => Cardinality(OnlineBefore(m, c + 1)) = Cardinality(OnlineBefore(m, c))
           /\ \A d \in Nat : c <= d => Cardinality(OnlineBefore(m, c)) <= Cardinality(OnlineBefore(m, d))
  <1>1. IsFiniteSet(m.online) /\ \A d \in m.online : d \in Nat
    BY MachineFacts DEF Machine
  <1>2. \A d \in Nat : OnlineBefore(m, d) \subseteq m.online /\ IsFiniteSet(OnlineBefore(m, d))
                       /\ Cardinality(OnlineBefore(m, d)) \in Nat
    BY <1>1, FS_Subset, FS_CardinalityType DEF OnlineBefore
  <1>3. Cardinality(OnlineBefore(m, c)) <= Cardinality(m.online)
    BY <1>1, <1>2, FS_Subset
  <1>4. Cardinality(OnlineBefore(m, 0)) = 0
    <2>1. OnlineBefore(m, 0) = {}
      BY <1>1 DEF OnlineBefore
    <2> QED
      BY <2>1, FS_EmptySet
  <1>5. ASSUME c \in m.online
        PROVE  Cardinality(OnlineBefore(m, c + 1)) = Cardinality(OnlineBefore(m, c)) + 1
    <2>1. OnlineBefore(m, c + 1) = OnlineBefore(m, c) \cup {c} /\ c \notin OnlineBefore(m, c)
      BY <1>1, <1>5 DEF OnlineBefore
    <2> QED
      BY <1>2, <2>1, FS_AddElement
  <1>6. ASSUME c \notin m.online
        PROVE  Cardinality(OnlineBefore(m, c + 1)) = Cardinality(OnlineBefore(m, c))
    <2>1. OnlineBefore(m, c + 1) = OnlineBefore(m, c)
      BY <1>1, <1>6 DEF OnlineBefore
    <2> QED
      BY <2>1
  <1>7. ASSUME NEW d \in Nat, c <= d
        PROVE  Cardinality(OnlineBefore(m, c)) <= Cardinality(OnlineBefore(m, d))
    <2>1. OnlineBefore(m, c) \subseteq OnlineBefore(m, d)
      BY <1>1, <1>7 DEF OnlineBefore
    <2> QED
      BY <1>2, <2>1, FS_Subset
  <1> QED
    BY <1>2, <1>3, <1>4, <1>5, <1>6, <1>7

(* ix counts the online processors, in the ring of the queues. *)
LEMMA IxIs ==
    ASSUME NEW m, Machine(m), NEW c \in Cpus
    PROVE  Ix(m)[c] = Cardinality(OnlineBefore(m, c)) % m.queues
  <1>1. NumCpus \in Nat \ {0} /\ m.queues \in Nat \ {0} /\ c \in Nat /\ c < NumCpus
    BY MachineFacts
  <1>2. IsIx(m, Ix(m), NumCpus)
    BY <1>1, IxExists DEF Ix
  <1> DEFINE g == Ix(m)
             N(d) == Cardinality(OnlineBefore(m, d))
  <1>3. \A d \in 0 .. NumCpus : g[d] = IF d = 0 THEN 0
                                       ELSE IF d - 1 \in m.online THEN (g[d - 1] + 1) % m.queues ELSE g[d - 1]
    BY <1>2 DEF IsIx
  <1> HIDE DEF g
  <1>4. /\ \A d \in Nat : N(d) \in Nat
        /\ N(0) = 0
        /\ \A d \in Nat : d \in m.online => N(d + 1) = N(d) + 1
        /\ \A d \in Nat : d \notin m.online => N(d + 1) = N(d)
    BY OnlineBeforeFacts
  <1> HIDE DEF N
  <1> DEFINE S == {d \in Nat : d <= NumCpus => g[d] = N(d) % m.queues}
  <1>5. 0 \in S
    <2>1. 0 % m.queues = 0
      BY <1>1, RemainderSmall
    <2>2. g[0] = 0
      BY <1>1, <1>3
    <2> QED
      BY <1>4, <2>1, <2>2
  <1>6. ASSUME NEW d \in Nat, d \in S PROVE d + 1 \in S
    <2> SUFFICES ASSUME d + 1 <= NumCpus PROVE g[d + 1] = N(d + 1) % m.queues
      OBVIOUS
    <2>1. g[d] = N(d) % m.queues
      BY <1>1, <1>6
    <2>2. d + 1 \in 0 .. NumCpus /\ d + 1 # 0 /\ (d + 1) - 1 = d
      BY <1>1
    <2>3. g[d + 1] = IF d \in m.online THEN (g[d] + 1) % m.queues ELSE g[d]
      BY <1>3, <2>2
    <2>4. ((N(d) % m.queues) + 1) % m.queues = (N(d) + 1) % m.queues
      BY <1>1, <1>4, RemainderNext
    <2> QED
      BY <1>4, <2>1, <2>3, <2>4
  <1>7. Nat \subseteq S
    BY <1>5, <1>6, SetInduction
  <1> QED
    BY <1>1, <1>7 DEF g, N
(* The scan for the next node ends, and with the nodes that have processors *)
(* in a row it ends at the next one.                                        *)
LEMMA NextNodeIs ==
    ASSUME NEW m, Machine(m), NEW k \in Nat
    PROVE  /\ NextNode(m, k) \in Nat
           /\ Dense(m) /\ k < m.nodes => NextNode(m, k) = k + 1
  <1> DEFINE Ends(j) == j >= m.nodes \/ j \in Populated(m)
             Found(j) == /\ Ends(j)
                         /\ \A i \in (k + 1) .. (j - 1) : ~Ends(i)
             R == (k + 1) .. (k + NodesPossible)
  <1>1. m.nodes \in Nat \ {0} /\ m.nodes <= NodesPossible /\ NodesPossible \in Nat \ {0}
    BY MachineFacts
  <1>2. NextNode(m, k) = CHOOSE j \in R : Found(j)
    BY DEF NextNode
  <1> HIDE DEF Ends
  <1>3. \E j \in R : Found(j)
    <2> DEFINE T == {j \in Nat : j >= k + 1 /\ Ends(j)}
    <2>1. k + m.nodes \in T
      BY <1>1 DEF Ends
    <2>2. PICK j \in T : \A i \in T : j <= i
      BY <2>1, LeastNatural
    <2>3. j \in R
      BY <1>1, <2>1, <2>2
    <2>4. \A i \in (k + 1) .. (j - 1) : ~Ends(i)
      BY <2>2
    <2> QED
      BY <2>2, <2>3, <2>4
  <1>4. NextNode(m, k) \in R /\ Found(NextNode(m, k))
    BY <1>2, <1>3
  <1>5. NextNode(m, k) \in Nat
    BY <1>1, <1>4
  <1>6. ASSUME Dense(m), k < m.nodes PROVE NextNode(m, k) = k + 1
    <2>1. Ends(k + 1)
      BY <1>1, <1>6 DEF Ends, Dense
    <2>2. ~(k + 1 \in (k + 1) .. (NextNode(m, k) - 1))
      BY <1>4, <2>1
    <2> QED
      BY <1>1, <1>4, <1>5, <2>2
  <1> QED
    BY <1>5, <1>6

(* The equation of node_counter, up to n. *)
IsCounter(m, g, n) ==
    g = [i \in 0 .. n |-> IF i = 0 THEN 0
                          ELSE IF i - 1 \in Populated(m) THEN NextNode(m, g[i - 1]) ELSE g[i - 1]]

Counter(m) == CHOOSE g : IsCounter(m, g, NodesPossible)

(* The second mapping, as its table of counters. *)
LEMMA NodeMapIs ==
    ASSUME NEW m
    PROVE  NodeMap(m) = [n \in Nodes |-> IF n \in Populated(m) THEN Counter(m)[n] ELSE 0]
  BY DEF NodeMap, Counter, IsCounter

(* There is such a table, whatever the machine. *)
LEMMA CounterExists ==
    ASSUME NEW m, NEW n \in Nat
    PROVE  \E g : IsCounter(m, g, n)
  <1> DEFINE S == {k \in Nat : \E g : IsCounter(m, g, k)}
  <1>1. 0 \in S
    <2>1. IsCounter(m, [c \in 0 .. 0 |-> 0], 0)
      BY DEF IsCounter
    <2> QED
      BY <2>1
  <1>2. ASSUME NEW k \in Nat, k \in S PROVE k + 1 \in S
    <2>1. PICK g : IsCounter(m, g, k)
      BY <1>2
    <2> DEFINE last == IF k \in Populated(m) THEN NextNode(m, g[k]) ELSE g[k]
               h == [i \in 0 .. (k + 1) |-> IF i = k + 1 THEN last ELSE g[i]]
    <2>2. \A i \in 0 .. k : g[i] = IF i = 0 THEN 0
                                   ELSE IF i - 1 \in Populated(m) THEN NextNode(m, g[i - 1]) ELSE g[i - 1]
      BY <2>1 DEF IsCounter
    <2>3. \A i \in 0 .. (k + 1) : h[i] = IF i = 0 THEN 0
                                         ELSE IF i - 1 \in Populated(m) THEN NextNode(m, h[i - 1]) ELSE h[i - 1]
      BY <2>2
    <2>4. h = [i \in 0 .. (k + 1) |-> h[i]]
      OBVIOUS
    <2> HIDE DEF h
    <2>5. IsCounter(m, h, k + 1)
      BY <2>3, <2>4 DEF IsCounter
    <2> QED
      BY <2>5
  <1>3. Nat \subseteq S
    BY <1>1, <1>2, SetInduction
  <1> QED
    BY <1>3

(* node_map numbers the nodes; without missing nodes it is the identity. *)
LEMMA NodeMapFacts ==
    ASSUME NEW m, Machine(m), NEW c \in Cpus
    PROVE  /\ NodeMap(m)[m.node[c]] \in Nat
           /\ Dense(m) => NodeMap(m)[m.node[c]] = m.node[c] /\ m.node[c] < m.nodes
  <1>1. /\ m.nodes \in Nat \ {0} /\ m.nodes <= NodesPossible /\ NodesPossible \in Nat \ {0}
        /\ m.node[c] \in Nodes /\ m.node[c] \in Nat /\ m.node[c] \in Populated(m)
    BY MachineFacts
  <1> DEFINE g == Counter(m)
             n == m.node[c]
  <1>2. IsCounter(m, g, NodesPossible)
    BY <1>1, CounterExists DEF Counter
  <1>3. NodeMap(m)[n] = g[n]
    BY <1>1, NodeMapIs
  <1>4. \A i \in 0 .. NodesPossible :
          g[i] = IF i = 0 THEN 0 ELSE IF i - 1 \in Populated(m) THEN NextNode(m, g[i - 1]) ELSE g[i - 1]
    BY <1>2 DEF IsCounter
  <1> HIDE DEF g
  <1> DEFINE S == {i \in Nat : i <= NodesPossible => g[i] \in Nat /\ (Dense(m) /\ i <= m.nodes => g[i] = i)}
  <1>5. 0 \in S
    BY <1>1, <1>4
  <1>6. ASSUME NEW i \in Nat, i \in S PROVE i + 1 \in S
    <2> SUFFICES ASSUME i + 1 <= NodesPossible
                 PROVE  g[i + 1] \in Nat /\ (Dense(m) /\ i + 1 <= m.nodes => g[i + 1] = i + 1)
      OBVIOUS
    <2>1. g[i] \in Nat /\ (Dense(m) /\ i <= m.nodes => g[i] = i)
      BY <1>1, <1>6
    <2>2. i + 1 \in 0 .. NodesPossible /\ i + 1 # 0 /\ (i + 1) - 1 = i
      BY <1>1
    <2>3. g[i + 1] = IF i \in Populated(m) THEN NextNode(m, g[i]) ELSE g[i]
      BY <1>4, <2>2
    <2>4. NextNode(m, g[i]) \in Nat /\ (Dense(m) /\ g[i] < m.nodes => NextNode(m, g[i]) = g[i] + 1)
      BY <2>1, NextNodeIs
    <2>5. ASSUME Dense(m), i + 1 <= m.nodes PROVE g[i + 1] = i + 1
      <3>1. i \in Populated(m) /\ g[i] = i /\ i < m.nodes
        BY <1>1, <2>1, <2>5 DEF Dense
      <3> QED
        BY <2>3, <2>4, <2>5, <3>1
    <2> QED
      BY <2>1, <2>3, <2>4, <2>5
  <1>7. Nat \subseteq S
    BY <1>5, <1>6, SetInduction
  <1>8. n \in Nat /\ n <= NodesPossible
    BY <1>1 DEF Nodes
  <1>9. Dense(m) => n < m.nodes
    BY <1>1 DEF Dense
  <1>10. g[n] \in Nat /\ (Dense(m) => g[n] = n)
    BY <1>1, <1>7, <1>8, <1>9
  <1> QED
    BY <1>3, <1>9, <1>10

(* The clusters are as many as there are queues, or fewer. *)
LEMMA ClusterFacts ==
    ASSUME NEW m, Machine(m)
    PROVE  LET n == NodesPerCluster(m)
               per == QueuesPerCluster(m)
               count == CeilDiv(m.nodes, n)
           IN /\ n \in Nat \ {0} /\ per \in Nat \ {0} /\ count \in Nat
              /\ count * per <= m.queues
              /\ m.queues >= m.nodes => n = 1
              /\ \A k \in Nat : k < m.nodes => k \div n < count
  <1> DEFINE n == NodesPerCluster(m)
             per == QueuesPerCluster(m)
             count == CeilDiv(m.nodes, n)
  <1>1. m.nodes \in Nat \ {0} /\ m.queues \in Nat \ {0}
    BY MachineFacts
  <1>2. \A a, b \in Nat \ {0} : CeilDiv(a, b) \in Nat
    <2> TAKE a, b \in Nat \ {0}
    <2>1. a + b - 1 \in Nat
      OBVIOUS
    <2> QED
      BY <2>1, Division DEF CeilDiv
  <1>3. n \in Nat \ {0} /\ (m.queues >= m.nodes => n = 1) /\ (m.queues < m.nodes => count <= m.queues)
    <2>1. CASE m.queues >= m.nodes
      BY <1>1, <2>1 DEF NodesPerCluster
    <2>2. CASE m.queues < m.nodes
      <3> DEFINE T == {k \in 2 .. m.nodes : CeilDiv(m.nodes, k) <= m.queues}
      <3>1. CeilDiv(m.nodes, m.nodes) = 1
        <4>1. m.nodes + m.nodes - 1 \in Nat /\ 1 * m.nodes <= m.nodes + m.nodes - 1
              /\ m.nodes + m.nodes - 1 < 1 * m.nodes + m.nodes
          BY <1>1
        <4> QED
          BY <1>1, <4>1, Quotient DEF CeilDiv
      <3>2. m.nodes \in T
        BY <1>1, <2>2, <3>1
      <3>3. PICK k \in T : \A j \in T : k <= j
        <4>1. T \subseteq Nat /\ T # {}
          BY <1>1, <3>2
        <4> HIDE DEF T
        <4> QED
          BY <4>1, LeastNatural
      <3>4. \A j \in 2 .. k - 1 : CeilDiv(m.nodes, j) > m.queues
        <4> TAKE j \in 2 .. k - 1
        <4>1. j \notin T /\ j \in 2 .. m.nodes
          BY <1>1, <3>3
        <4>2. CeilDiv(m.nodes, j) \in Nat
          BY <1>1, <1>2, <4>1
        <4> QED
          BY <1>1, <4>1, <4>2
      <3>5. \E j \in 2 .. m.nodes : /\ CeilDiv(m.nodes, j) <= m.queues
                                    /\ \A i \in 2 .. j - 1 : CeilDiv(m.nodes, i) > m.queues
        BY <3>3, <3>4
      <3>6. n = CHOOSE j \in 2 .. m.nodes : /\ CeilDiv(m.nodes, j) <= m.queues
                                            /\ \A i \in 2 .. j - 1 : CeilDiv(m.nodes, i) > m.queues
        BY <1>1, <2>2 DEF NodesPerCluster
      <3>7. n \in 2 .. m.nodes /\ CeilDiv(m.nodes, n) <= m.queues
        BY <3>5, <3>6
      <3> QED
        BY <1>1, <2>2, <3>7
    <2> QED
      BY <1>1, <2>1, <2>2
  <1> HIDE DEF n
  <1>4. per \in Nat \ {0} /\ (m.queues >= m.nodes => per * m.nodes <= m.queues) /\ (m.queues < m.nodes => per = 1)
    <2>1. CASE m.queues >= m.nodes
      <3>1. per = m.queues \div m.nodes
        BY <2>1 DEF QueuesPerCluster
      <3>2. per \in Nat /\ per * m.nodes <= m.queues /\ m.queues < per * m.nodes + m.nodes
        BY <1>1, <3>1, Division
      <3>3. per # 0
        BY <1>1, <2>1, <3>2
      <3> QED
        BY <1>1, <2>1, <3>2, <3>3
    <2>2. CASE m.queues < m.nodes
      BY <1>1, <2>2 DEF QueuesPerCluster
    <2> QED
      BY <1>1, <2>1, <2>2
  <1>5. count \in Nat
    BY <1>1, <1>2, <1>3
  <1>6. ASSUME NEW k \in Nat, k < m.nodes PROVE k \div n < count
    <2> DEFINE q == k \div n
               top == m.nodes + n - 1
    <2>1. q \in Nat /\ q * n <= k /\ k < q * n + n
      BY <1>3, Division
    <2>2. top \in Nat /\ count = top \div n
      BY <1>1, <1>3 DEF CeilDiv
    <2>3. count * n <= top /\ top < count * n + n
      BY <1>3, <2>2, Division
    <2> HIDE DEF q
    <2>4. q * n + n <= top
      BY <1>1, <1>3, <1>6, <2>1
    <2> HIDE DEF count, top
    <2>5. ASSUME count <= q PROVE FALSE
      <3>1. count * n <= q * n
        BY <1>3, <1>5, <2>1, <2>5, ProductsGrow
      <3> QED
        BY <1>3, <1>5, <2>1, <2>2, <2>3, <2>4, <3>1
    <2> QED
      BY <1>5, <2>1, <2>5 DEF q
  <1>7. count * per <= m.queues
    <2>1. CASE m.queues >= m.nodes
      <3>1. count = m.nodes
        <4>1. m.nodes + 1 - 1 \in Nat /\ m.nodes * 1 <= m.nodes + 1 - 1 /\ m.nodes + 1 - 1 < m.nodes * 1 + 1
          BY <1>1
        <4> QED
          BY <1>1, <1>3, <2>1, <4>1, Quotient DEF CeilDiv
      <3>2. count * per = per * m.nodes
        BY <1>1, <1>4, <3>1
      <3> QED
        BY <1>4, <2>1, <3>2
    <2>2. CASE m.queues < m.nodes
      BY <1>3, <1>4, <1>5, <2>2
    <2> QED
      BY <1>1, <2>1, <2>2
  <1> QED
    BY <1>3, <1>4, <1>5, <1>6, <1>7 DEF n

(* What the property says of a map computed for a machine. *)
QueuesGood(m, queue, used) ==
    LET each == m.queues >= Cardinality(m.counted)
    IN /\ (each \/ Dense(m)) => used <= m.queues /\ \A c \in Cpus : queue[c] < m.queues
       /\ each => \A c, d \in Cpus : NextOnline(m, c, d) => queue[c] = queue[d] /\ queue[c] < used
       /\ each /\ m.queues >= Cardinality(m.online) => \A c, d \in m.online : queue[c] = queue[d] => c = d
       /\ ~each /\ Dense(m) => \A c \in Cpus : queue[c] < used
       /\ ~each /\ Dense(m) /\ m.queues >= m.nodes => \A c, d \in Cpus : queue[c] = queue[d] => m.node[c] = m.node[d]

(* A queue for each processor. *)
LEMMA PerCpuGood ==
    ASSUME NEW m, Machine(m), m.queues >= Cardinality(m.counted)
    PROVE  /\ QueuePerCpu(m) \in [Cpus -> Nat] /\ Lower(Cardinality(m.online), m.queues) \in Nat
           /\ QueuesGood(m, QueuePerCpu(m), Lower(Cardinality(m.online), m.queues))
  <1> DEFINE N(c) == Cardinality(OnlineBefore(m, c))
             K == Cardinality(m.online)
             f == QueuePerCpu(m)
             used == Lower(K, m.queues)
  <1>1. /\ m.queues \in Nat \ {0} /\ K \in Nat /\ m.online \subseteq Cpus
        /\ \A c \in Cpus : c \in Nat
    BY MachineFacts DEF Machine
  <1>2. \A c \in Cpus : N(c) \in Nat /\ f[c] = N(c) % m.queues /\ f[c] \in 0 .. (m.queues - 1)
    <2> TAKE c \in Cpus
    <2>1. N(c) \in Nat
      BY <1>1, OnlineBeforeFacts
    <2>2. f[c] = N(c) % m.queues
      BY QueuePerCpuIs, IxIs
    <2> QED
      BY <1>1, <2>1, <2>2, Division
  <1>3. f \in [Cpus -> Nat]
    <2>1. f = [c \in Cpus |-> Ix(m)[c]]
      BY QueuePerCpuIs
    <2>2. \A c \in Cpus : Ix(m)[c] \in Nat
      BY <1>1, <1>2, <2>1
    <2> QED
      BY <2>1, <2>2
  <1>4. ASSUME NEW c \in m.online, NEW d \in Nat, c < d PROVE N(c) < N(d)
    <2>1. N(c + 1) = N(c) + 1 /\ N(c) \in Nat /\ c + 1 \in Nat /\ c + 1 <= d
      BY <1>1, <1>4, OnlineBeforeFacts
    <2>2. N(c + 1) <= N(d) /\ N(d) \in Nat
      BY <2>1, OnlineBeforeFacts
    <2> QED
      BY <2>1, <2>2
  <1>5. \A c \in m.online : N(c) < K
    <2> TAKE c \in m.online
    <2>1. c + 1 \in Nat /\ c \in Nat
      BY <1>1
    <2>2. N(c + 1) = N(c) + 1 /\ N(c + 1) <= K /\ N(c) \in Nat
      BY <2>1, OnlineBeforeFacts
    <2> QED
      BY <1>1, <2>2
  <1>12. ASSUME NEW c \in Cpus, NEW d \in Cpus, NextOnline(m, c, d) PROVE N(c) = N(d)
    <2>1. \A e \in m.online : e \in Nat
      BY <1>1
    <2>2. OnlineBefore(m, c) = OnlineBefore(m, d)
      BY <1>1, <1>12, <2>1 DEF OnlineBefore, NextOnline
    <2> QED
      BY <2>2
  <1> HIDE DEF N, K, f
  <1>6. used \in Nat /\ used <= m.queues /\ (used = K \/ used = m.queues) /\ (K <= m.queues => used = K)
    BY <1>1 DEF Lower
  <1> HIDE DEF used
  <1>7. \A c \in Cpus : f[c] < m.queues
    BY <1>1, <1>2
  <1>8. \A c \in m.online : K <= m.queues => f[c] = N(c)
    <2> SUFFICES ASSUME NEW c \in m.online, K <= m.queues PROVE f[c] = N(c)
      OBVIOUS
    <2>1. N(c) \in Nat /\ N(c) < m.queues /\ f[c] = N(c) % m.queues
      BY <1>1, <1>2, <1>5
    <2> QED
      BY <1>1, <2>1, RemainderSmall
  <1>9. ASSUME NEW c \in m.online PROVE f[c] < used
    <2>1. CASE K <= m.queues
      BY <1>5, <1>6, <1>8, <2>1
    <2>2. CASE K > m.queues
      BY <1>1, <1>6, <1>7, <2>2
    <2> QED
      BY <1>1, <2>1, <2>2
  <1>10. ASSUME m.queues >= K, NEW c \in m.online, NEW d \in m.online, f[c] = f[d] PROVE c = d
    <2>1. N(c) = N(d) /\ N(c) \in Nat /\ c \in Nat /\ d \in Nat
      BY <1>1, <1>2, <1>8, <1>10
    <2>2. ~(c < d) /\ ~(d < c)
      BY <1>4, <2>1
    <2> QED
      BY <2>1, <2>2
  <1>13. ASSUME NEW c \in Cpus, NEW d \in Cpus, NextOnline(m, c, d) PROVE f[c] = f[d] /\ f[c] < used
    <2>1. f[c] = f[d] /\ d \in m.online
      BY <1>2, <1>12, <1>13 DEF NextOnline
    <2> QED
      BY <1>9, <2>1
  <1>11. QueuesGood(m, f, used)
    BY <1>6, <1>7, <1>10, <1>13 DEF QueuesGood, K
  <1> QED
    BY <1>3, <1>6, <1>11 DEF f, used, K

(* Clusters of nodes. *)
LEMMA PerClusterGood ==
    ASSUME NEW m, Machine(m), ~(m.queues >= Cardinality(m.counted))
    PROVE  LET used == CeilDiv(m.nodes, NodesPerCluster(m)) * QueuesPerCluster(m)
           IN QueuePerCluster(m) \in [Cpus -> Nat] /\ used \in Nat /\ QueuesGood(m, QueuePerCluster(m), used)
  <1> DEFINE n == NodesPerCluster(m)
             per == QueuesPerCluster(m)
             count == CeilDiv(m.nodes, n)
             cluster == [c \in Cpus |-> NodeMap(m)[m.node[c]] \div n]
             seen(c) == Cardinality({d \in m.online : d < c /\ cluster[d] = cluster[c]})
             f == QueuePerCluster(m)
  <1>1. /\ n \in Nat \ {0} /\ per \in Nat \ {0} /\ count \in Nat /\ count * per <= m.queues
        /\ m.queues >= m.nodes => n = 1
        /\ \A k \in Nat : k < m.nodes => k \div n < count
    BY ClusterFacts
  <1>2. /\ m.queues \in Nat \ {0} /\ m.nodes \in Nat \ {0} /\ m.online \subseteq Cpus /\ IsFiniteSet(m.online)
        /\ \A c \in Cpus : m.node[c] \in Nat
    BY MachineFacts DEF Machine
  <1>3. f = [c \in Cpus |-> (cluster[c] * per) + (seen(c) % per)]
    BY DEF QueuePerCluster
  <1>4. \A c \in Cpus : seen(c) % per \in 0 .. (per - 1)
    <2> TAKE c \in Cpus
    <2>1. {d \in m.online : d < c /\ cluster[d] = cluster[c]} \subseteq m.online
      OBVIOUS
    <2>2. seen(c) \in Nat
      BY <1>2, <2>1, FS_Subset, FS_CardinalityType
    <2> HIDE DEF seen
    <2> QED
      BY <1>1, <2>2, Division
  <1>5. ASSUME NEW c \in Cpus
        PROVE  /\ cluster[c] \in Nat
               /\ Dense(m) => cluster[c] < count
               /\ Dense(m) /\ n = 1 => cluster[c] = m.node[c]
    <2>1. cluster[c] = NodeMap(m)[m.node[c]] \div n
      OBVIOUS
    <2>2. NodeMap(m)[m.node[c]] \in Nat /\ (Dense(m) => NodeMap(m)[m.node[c]] = m.node[c] /\ m.node[c] < m.nodes)
      BY NodeMapFacts
    <2>3. cluster[c] \in Nat
      BY <1>1, <2>1, <2>2, Division
    <2>4. Dense(m) => cluster[c] < count
      BY <1>1, <1>2, <2>1, <2>2
    <2>5. \A k \in Nat : k \div 1 = k
      OBVIOUS
    <2> QED
      BY <1>2, <2>1, <2>2, <2>3, <2>4, <2>5
  <1> DEFINE turn(c) == seen(c) % per
  <1>6. \A c \in Cpus : f[c] = (cluster[c] * per) + turn(c) /\ turn(c) \in Nat /\ turn(c) < per
    BY <1>1, <1>3, <1>4
  <1>7. f = [c \in Cpus |-> f[c]]
    BY <1>3
  <1> HIDE DEF f, turn, cluster, per, count, n
  <1>8. f \in [Cpus -> Nat] /\ count * per \in Nat
    <2>1. \A c \in Cpus : f[c] \in Nat
      BY <1>1, <1>5, <1>6
    <2> QED
      BY <1>1, <1>7, <2>1
  <1>9. ASSUME Dense(m), NEW c \in Cpus PROVE f[c] < count * per
    <2>1. cluster[c] \in Nat /\ cluster[c] + 1 <= count
      BY <1>1, <1>5, <1>9
    <2>2. (cluster[c] + 1) * per <= count * per
      <3>1. cluster[c] + 1 \in Nat /\ count \in Nat /\ per \in Nat
        BY <1>1, <2>1
      <3> QED
        BY <2>1, <3>1, ProductsGrow
    <2>3. (cluster[c] + 1) * per = cluster[c] * per + per
      BY <1>1, <2>1
    <2>4. cluster[c] * per \in Nat /\ count * per \in Nat
      BY <1>1, <2>1
    <2>5. turn(c) \in Nat /\ turn(c) < per /\ f[c] = (cluster[c] * per) + turn(c)
      BY <1>6
    <2> QED
      BY <1>1, <2>2, <2>3, <2>4, <2>5
  <1>10. ASSUME Dense(m), NEW c \in Cpus PROVE f[c] < m.queues
    BY <1>1, <1>2, <1>8, <1>9, <1>10
  <1>11. ASSUME Dense(m), n = 1, NEW c \in Cpus, NEW d \in Cpus, f[c] = f[d] PROVE m.node[c] = m.node[d]
    <2>1. \A x, y, s, t \in Nat : s < per /\ t < per /\ x * per + s = y * per + t => x = y
      <3> SUFFICES ASSUME NEW x \in Nat, NEW y \in Nat, NEW s \in Nat, NEW t \in Nat,
                          s < per, t < per, x * per + s = y * per + t
                   PROVE  x = y
        OBVIOUS
      <3>1. x * per \in Nat /\ y * per \in Nat /\ x * per + s \in Nat
        BY <1>1
      <3>2. (x * per + s) \div per = x
        BY <1>1, <3>1, Quotient
      <3>3. (y * per + t) \div per = y
        BY <1>1, <3>1, Quotient
      <3> QED
        BY <3>2, <3>3
    <2>2. cluster[c] = cluster[d]
      BY <1>5, <1>6, <1>11, <2>1
    <2> QED
      BY <1>5, <1>11, <2>2
  <1>12. QueuesGood(m, f, count * per)
    BY <1>1, <1>2, <1>9, <1>10, <1>11 DEF QueuesGood
  <1> QED
    BY <1>8, <1>12 DEF f, count, per, n

(* For any number of processors, nodes and queues, and with a processor that *)
(* comes online while the map is made: with a queue per processor or no      *)
(* missing nodes every processor's queue exists; with a queue per processor  *)
(* each one up to the last online processor has the queue of the next online *)
(* one, which is counted as used, and no two online processors share one;    *)
(* with fewer queues every queue is counted, and with a queue per node no    *)
(* two nodes share one (kfio_map_cpus_to_read_queues).                       *)
THEOREM CpuQueuesAlwaysInRange == CpuMapSpec => [](CpuMapTypeOK /\ CpuQueuesInRange)
  <1> DEFINE Inv == CpuMapTypeOK /\ CpuQueuesInRange
  <1>1. CpuMapInit => Inv
    BY DEF CpuMapInit, CpuMapTypeOK, CpuQueuesInRange
  <1>2. Inv /\ UNCHANGED cmVars => Inv'
    BY DEF cmVars, CpuMapTypeOK, CpuQueuesInRange, Dense, Populated, NextOnline
  <1>3. Inv /\ CpuMapNext => Inv'
    <2> SUFFICES ASSUME CpuMapNext PROVE Inv'
      OBVIOUS
    <2>1. PICK node \in [Cpus -> Nodes], nodes \in 1 .. NodesPossible, queues \in 1 .. MaxQueues,
               online \in SUBSET Cpus, counted \in SUBSET Cpus :
            MapCpus([node |-> node, nodes |-> nodes, queues |-> queues, counted |-> counted, online |-> online])
      BY DEF CpuMapNext
    <2> DEFINE m == [node |-> node, nodes |-> nodes, queues |-> queues, counted |-> counted, online |-> online]
    <2>2. Machine(m)
      BY DEF Machine
    <2>3. cm_machine' = m /\ cm_queue' = kfio_map_cpus_to_read_queues(m).queue
          /\ cm_used' = kfio_map_cpus_to_read_queues(m).used
      BY <2>1 DEF MapCpus
    <2> HIDE DEF m
    <2>4. cm_queue' \in [Cpus -> Nat] /\ cm_used' \in Nat /\ QueuesGood(m, cm_queue', cm_used')
      <3>1. CASE m.queues >= Cardinality(m.counted)
        <4>1. cm_queue' = QueuePerCpu(m) /\ cm_used' = Lower(Cardinality(m.online), m.queues)
          BY <2>3, <3>1 DEF kfio_map_cpus_to_read_queues
        <4> QED
          BY <2>2, <3>1, <4>1, PerCpuGood
      <3>2. CASE ~(m.queues >= Cardinality(m.counted))
        <4>1. /\ cm_queue' = QueuePerCluster(m)
              /\ cm_used' = CeilDiv(m.nodes, NodesPerCluster(m)) * QueuesPerCluster(m)
          BY <2>3, <3>2 DEF kfio_map_cpus_to_read_queues
        <4> QED
          BY <2>2, <3>2, <4>1, PerClusterGood
      <3> QED
        BY <3>1, <3>2
    <2> QED
      BY <2>3, <2>4 DEF CpuMapTypeOK, CpuQueuesInRange, QueuesGood
  <1> QED
    BY <1>1, <1>2, <1>3, PTL DEF CpuMapSpec

=============================================================================
