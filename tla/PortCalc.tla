------------------------------ MODULE PortCalc ------------------------------
(***************************************************************************)
(* The pure computations of the porting layer: block ranges (ranges.h),    *)
(* ticks and microseconds (ktime.c), the 64-bit division of 32-bit builds  *)
(* (kfio_common.c), error numbers (errno.c), the NUMA override and the     *)
(* BIOS slot table (pci.c), the translation of a block request (kblock.c)  *)
(* and the SCSI residual (kscsi_host.c).  Each is an operator; one step    *)
(* picks a computation and its inputs, and PortCalcExact compares it with  *)
(* a definition in sets and integers.                                      *)
(***************************************************************************)
EXTENDS Integers, Sequences, FiniteSets

CONSTANTS RangeBits,    \* the width of a block number
          HalfBits,     \* half the width of the words that are divided
          TickLimit,    \* MAX_JIFFY_OFFSET
          MaxUsecs      \* the greatest time that is converted

ASSUME PortCalcAssumption == {RangeBits, HalfBits, TickLimit, MaxUsecs} \subseteq Nat \ {0}

VARIABLE pc_case        \* the computation tried and its inputs

-----------------------------------------------------------------------------
(* Block ranges: base and length are unsigned words, sums wrap. *)

fio_range_upper_bound(r) == (r.base + r.length) % 2^RangeBits

fio_range_wrap(r) == fio_range_upper_bound(r) < r.base

fio_ranges_overlap(r1, r2) ==
    r1.base < fio_range_upper_bound(r2) /\ r2.base < fio_range_upper_bound(r1)

(* FIOMAX and FIOMIN. *)
FIOMAX(a, b) == IF a > b THEN a ELSE b
FIOMIN(a, b) == IF a < b THEN a ELSE b

(* An intersection that keeps the first range's end. *)
IntersectKeepsEnd(r1, r2) ==
    LET base == FIOMAX(r1.base, r2.base)
        past == fio_range_upper_bound(r1)
    IN  [found |-> past > base, base |-> base, length |-> past - base]

(* The result is written only when something is left of both ranges. *)
fio_range_intersect(r1, r2) ==
    LET base == FIOMAX(r1.base, r2.base)
        past == FIOMIN(fio_range_upper_bound(r1), fio_range_upper_bound(r2))
    IN  [found |-> past > base, base |-> base, length |-> past - base]

fio_range_overlaps_tail(tail, other) ==
    tail.base > other.base /\ tail.base < fio_range_upper_bound(other)

fio_range_bisects(bisector, other) ==
    bisector.base > other.base /\ fio_range_upper_bound(bisector) < fio_range_upper_bound(other)

fio_range_overlaps_head(head, other) == other.base < fio_range_upper_bound(head)

(* fio_range_add_offset, fio_range_sub_offset and fio_range_offset. *)
fio_range_offset(r, offset) == [r EXCEPT !.base = (@ + offset) % 2^RangeBits]

-----------------------------------------------------------------------------
(* Time.  hz ticks and usecs microseconds make a second; jiffies_to_usecs  *)
(* is the kernel's and returns a 32-bit number.                            *)

jiffies_to_usecs(hz, usecs, j) == ((j * usecs) \div hz) % 2^(2 * HalfBits)

(* The build selects one of three ways, by how hz and usecs divide. *)
fusion_usectohz(hz, usecs, u) ==
    IF u > jiffies_to_usecs(hz, usecs, TickLimit) THEN TickLimit
    ELSE IF hz <= usecs /\ usecs % hz = 0 THEN (u + (usecs \div hz) - 1) \div (usecs \div hz)
    ELSE IF hz > usecs /\ hz % usecs = 0 THEN u * (hz \div usecs)
    ELSE (u * hz + usecs - 1) \div usecs

fusion_hztousec(hz, usecs, hertz) == hertz * (usecs \div hz)

-----------------------------------------------------------------------------
(* The 64-bit division of 32-bit builds: do_div divides by 32 bits, so a   *)
(* wide divisor is shifted, with the dividend, until it fits.              *)

fls(x) == CHOOSE n \in 0..HalfBits : x < 2^n /\ (n = 0 \/ x >= 2^(n - 1))

kfio_div64_64(dividend, divisor) ==
    LET shift == fls(divisor \div 2^HalfBits)
    IN  (dividend \div 2^shift) \div ((divisor \div 2^shift) % 2^HalfBits)

(* do_div takes the low half of the divisor. *)
kfio_mod64_64(dividend, divisor) == dividend % (divisor % 2^HalfBits)

-----------------------------------------------------------------------------
(* errno.c: the numbers of fio_strerror_entries, in the table's order, the *)
(* last one ending the search.                                             *)
fio_strerror_entries ==
    <<0, 1, 2, 3, 4, 5, 6, 7, 8, 9, 10, 11, 12, 13, 14, 16, 17, 18, 19, 20, 21, 22, 23, 24, 25,
      27, 28, 29, 30, 31, 32, 33, 34, 95, 122, 1024, 1026, 1027, 1028, 1029, -1>>

(* Callers pass negative numbers; what is not an error counts as ENONE.    *)
get_strerror_entries_index(errnum) ==
    LET wanted == IF -errnum <= 0 THEN 0 ELSE -errnum
        stops == {i \in DOMAIN fio_strerror_entries : fio_strerror_entries[i] \in {wanted, -1}}
    IN  CHOOSE i \in stops : \A j \in stops : i <= j

-----------------------------------------------------------------------------
(* pci.c *)

(* kfio_get_numa_node_override: a parameter is a text, the device name a   *)
(* prefix of it that must be followed by "=" and a number, to the end.     *)
HasPrefix(name, param) ==
    /\ Len(param) > Len(name)
    /\ SubSeq(param, 1, Len(name)) = name
    /\ param[Len(name) + 1] = "="

AfterName(name, param) == SubSeq(param, Len(name) + 2, Len(param))

(* kfio_strtoul took at least a digit and stopped at the end of the text.  *)
IsNumber(text) == text # <<>> /\ \A i \in DOMAIN text : text[i] \in {"1", "2"}

(* The first parameter for the name decides: a malformed one ends the      *)
(* search.  None stands for -ENOENT, *nodep left alone.                    *)
kfio_get_numa_node_override(params, name) ==
    LET hits == {i \in DOMAIN params : HasPrefix(name, params[i])}
        first == CHOOSE i \in hits : \A j \in hits : i <= j
    IN  IF hits # {} /\ IsNumber(AfterName(name, params[first]))
          THEN AfterName(name, params[first]) ELSE <<"none">>

(* find_slot_number_bios.  The BIOS area is a sequence of paragraphs: the  *)
(* step of the signature scan, the header's unit and a slot entry are all  *)
(* 16 bytes.  A paragraph is what it reads as: sig and, for a header, size *)
(* (in paragraphs, 0 when version or size do not validate); for a slot     *)
(* entry, dev and slot.  The entries are searched from the header on; what *)
(* lies behind the mapped area, where a table may claim to reach, is not   *)
(* modelled.                                                               *)
find_slot_number_bios(bios, dev) ==
    LET sigs == {i \in DOMAIN bios : bios[i].sig}
        first == CHOOSE i \in sigs : \A j \in sigs : i <= j
        table == IF sigs = {} \/ bios[first].size <= 2 THEN {}
                 ELSE first..(first + bios[first].size - 1)
        hits == {i \in table \cap DOMAIN bios : bios[i].dev = dev /\ bios[i].slot > 0}
    IN  IF hits = {} THEN 0 ELSE bios[CHOOSE i \in hits : \A j \in hits : i <= j].slot

(* kfio_pci_get_slot: the device, else its bridge, else the bridge above,  *)
(* else the ACPI lookup, which always gives 0.                             *)
kfio_pci_get_slot(bios, path) ==
    LET found == {i \in DOMAIN path : i <= 3 /\ find_slot_number_bios(bios, path[i]) # 0}
    IN  IF found = {} THEN 0
        ELSE find_slot_number_bios(bios, path[CHOOSE i \in found : \A j \in found : i <= j])

(* kfio_iodrive_intx: the value written to PCI_COMMAND, and whether it is. *)
kfio_iodrive_intx(disabled, enable) ==
    [disabled |-> ~enable, written |-> disabled # ~enable]

-----------------------------------------------------------------------------
(* kblock.c: kfio_request_to_bio.  A request has an operation, a position  *)
(* in sectors, the lengths of its bios, and the flags that make a write    *)
(* synchronous; a block has SectorsPerBlock sectors.  enable_discard is a  *)
(* parameter that can be changed at any time.  NoFbio stands for an        *)
(* allocation that failed, or for pages that the scatter list did not take.*)

SectorsPerBlock == 2
NoFbio == [cmd |-> "none"]

RequestSectors(req) ==
    LET sum[i \in 0..Len(req.bios)] == IF i = 0 THEN 0 ELSE sum[i - 1] + req.bios[i]
    IN  sum[Len(req.bios)]

rq_is_empty_flush(req) == RequestSectors(req) = 0 /\ req.op = "flush"

(* The scatter list gets every bio's pages; flush and discard carry none.  *)
(* A scatter list of another size than the request is only reported.       *)
kfio_request_to_bio(req, allocated, enable_discard, mapped) ==
    LET base == req.pos \div SectorsPerBlock
        length == RequestSectors(req) \div SectorsPerBlock
        Fbio(cmd, b, sync, sgl) ==
            [cmd |-> cmd, base |-> b, length |-> length, sync |-> sync, sgl |-> sgl]
    IN  IF ~allocated THEN NoFbio
        ELSE IF rq_is_empty_flush(req) THEN Fbio("flush", 0, TRUE, 0)
        ELSE IF enable_discard /\ req.op = "discard" THEN Fbio("discard", base, FALSE, 0)
        ELSE IF ~mapped THEN NoFbio
        ELSE Fbio(IF req.op = "read" THEN "read" ELSE "write", base,
                  req.op # "read" /\ (req.sync \/ req.fua), RequestSectors(req))

(* kscsi_host.c: fio_scmd_update_resid; 0 means that nothing was counted.  *)
fio_scmd_update_resid(bufflen, resid, xfer) ==
    (IF resid = 0 THEN bufflen ELSE resid) - xfer

-----------------------------------------------------------------------------
(* The inputs tried *)

Ranges == [base : 0..(2^RangeBits - 1), length : 0..(2^RangeBits - 1)]
DeviceNames == {<<"a">>, <<"b">>, <<"a", "b">>}
ValueTexts == {<<"1">>, <<"2">>, <<>>, <<"1", "x">>}
NumaTexts == {n \o <<"=">> \o v : n \in DeviceNames, v \in ValueTexts}
Paragraphs == [sig : {FALSE}, size : {0}, dev : {1, 2}, slot : 0..2]
                \cup [sig : {TRUE}, size : {0, 3, 4}, dev : {3}, slot : {7}]
BlockRequests ==
    [op : {"read", "write", "discard"}, pos : {0, 2, 4}, bios : {<<2>>, <<1, 3>>, <<2, 2>>},
     sync : BOOLEAN, fua : BOOLEAN]
    \cup [op : {"flush"}, pos : {0, 3}, bios : {<<>>}, sync : BOOLEAN, fua : {FALSE}]

CalcCases ==
    [op : {"range"}, r1 : Ranges, r2 : Ranges]
    \cup [op : {"time"}, hz : {2, 3, 5, 20}, usecs : {10}, u : 0..MaxUsecs]
    \cup [op : {"div"}, n : 0..(2^(2 * HalfBits) - 1), d : 1..(2^(2 * HalfBits) - 1)]
    \cup [op : {"errno"}, n : (-1031)..3]
    \cup [op : {"numa"}, params : NumaTexts \X NumaTexts, name : DeviceNames]
    \cup [op : {"slot"}, bios : [1..4 -> Paragraphs], path : {<<1>>, <<2, 1>>, <<3>>}]
    \cup [op : {"request"}, req : BlockRequests, allocated : BOOLEAN,
          enable_discard : BOOLEAN, mapped : BOOLEAN]
    \cup [op : {"resid"}, bufflen : 1..4, xfers : (0..2) \X (0..2) \X (0..2)]
    \cup [op : {"intx"}, disabled : BOOLEAN, enable : BOOLEAN]

NoCalcCase == [op |-> "none"]

PortCalcInit == pc_case = NoCalcCase

PortCalcNext == pc_case = NoCalcCase /\ pc_case' \in CalcCases

PortCalcSpec == PortCalcInit /\ [][PortCalcNext]_pc_case

PortCalcTypeOK == pc_case = NoCalcCase \/ pc_case \in CalcCases

-----------------------------------------------------------------------------
(* The reference definitions *)

Blocks(r) == r.base..(r.base + r.length - 1)

(* For two ranges with blocks that end below the last block number, the    *)
(* predicates say what they say of the sets of blocks.  Left out are a     *)
(* range whose last block is the last number, which the code takes for one *)
(* that wraps, one that wraps, and an empty one, which may count as        *)
(* overlapping: of those only fio_range_wrap is compared, which answers    *)
(* yes for the first two.                                                  *)
RangeExact(r1, r2) ==
    LET meet == Blocks(r1) \cap Blocks(r2)
        i == fio_range_intersect(r1, r2)
    IN  /\ fio_range_wrap(r1) <=> r1.base + r1.length >= 2^RangeBits
        /\ fio_range_offset(fio_range_offset(r1, r2.base), -r2.base) = r1
        /\ (r1.length > 0 /\ r2.length > 0 /\ ~fio_range_wrap(r1) /\ ~fio_range_wrap(r2)) =>
             /\ fio_ranges_overlap(r1, r2) <=> meet # {}
             /\ i.found <=> meet # {}
             /\ i.found => Blocks([base |-> i.base, length |-> i.length]) = meet
             /\ fio_range_overlaps_tail(r1, r2) <=> r1.base \in Blocks(r2) \ {r2.base}
             /\ fio_range_bisects(r1, r2) <=>
                  Blocks(r1) \subseteq Blocks(r2) \ {r2.base, r2.base + r2.length - 1}
             /\ fio_ranges_overlap(r1, r2) <=>
                  fio_range_overlaps_head(r1, r2) /\ fio_range_overlaps_head(r2, r1)

(* A wait converted to ticks is never shorter than what was asked, unless  *)
(* it is cut to the limit, and never a whole tick too long; converted back *)
(* it covers the time when a tick is a whole number of microseconds.  From *)
(* where on a wait is cut, which is computed from a truncated number, is   *)
(* not compared.                                                           *)
TimeExact(hz, usecs, u) ==
    LET ticks == fusion_usectohz(hz, usecs, u)
    IN  ticks # TickLimit =>
          /\ ticks * usecs >= u * hz
          /\ hz <= usecs => (ticks - 1) * usecs < u * hz
          /\ usecs % hz = 0 => fusion_hztousec(hz, usecs, ticks) \in u..(u + usecs \div hz - 1)

(* Division is exact by a divisor that fits in half a word; by a wider one *)
(* it is at most one too great.                                            *)
DivExact(n, d) ==
    /\ d < 2^HalfBits => kfio_div64_64(n, d) = n \div d /\ kfio_mod64_64(n, d) = n % d
    /\ kfio_div64_64(n, d) - (n \div d) \in {0, 1}

(* Every number of the table is found at its own place, -1 otherwise.      *)
ErrnoExact(errnum) ==
    LET wanted == IF errnum >= 0 THEN 0 ELSE -errnum
        found == fio_strerror_entries[get_strerror_entries_index(errnum)]
        known == {fio_strerror_entries[i] : i \in DOMAIN fio_strerror_entries}
    IN  found = IF wanted \in known THEN wanted ELSE -1

(* An override names its device in full: only a parameter for exactly this *)
(* name gives the node.                                                    *)
NumaExact(params, name) ==
    LET node == kfio_get_numa_node_override(params, name)
        own == {i \in DOMAIN params : \E v \in ValueTexts :
                                          params[i] = name \o <<"=">> \o v}
    IN  IF node = <<"none">>
          THEN own = {} \/ ~IsNumber(AfterName(name, params[CHOOSE i \in own : \A j \in own : i <= j]))
          ELSE \E i \in own : /\ params[i] = name \o <<"=">> \o node
                              /\ \A j \in own : i <= j

(* The slot found is one that an entry of the table gives for the device   *)
(* or for a bridge above it; a bridge counts only if no entry is for the   *)
(* device.  The entries follow the two paragraphs of the header; left out  *)
(* are tables whose header reads as an entry of one of these devices,      *)
(* which the search, starting at the header, takes for one.                *)
SlotExact(bios, path) ==
    LET first(t) == bios[t].sig /\ bios[t].size > 2 /\ \A s \in 1..(t - 1) : ~bios[s].sig
        Reads(i, d) == bios[i].dev = d /\ bios[i].slot > 0
        Gives(d) == {bios[i].slot : i \in
                       {i \in DOMAIN bios : /\ Reads(i, d)
                                            /\ \E t \in DOMAIN bios :
                                                 first(t) /\ i \in (t + 2)..(t + bios[t].size - 1)}}
        clear == \A t \in DOMAIN bios : first(t) =>
                   \A i \in {t, t + 1} \cap DOMAIN bios, k \in DOMAIN path : ~Reads(i, path[k])
        slot == kfio_pci_get_slot(bios, path)
    IN  clear => IF slot = 0 THEN \A k \in DOMAIN path : Gives(path[k]) = {}
                 ELSE \E k \in DOMAIN path : /\ slot \in Gives(path[k])
                                             /\ \A j \in 1..(k - 1) : Gives(path[j]) = {}

(* The fbio is the request's operation on the sectors of the request, in   *)
(* whole blocks, and one that carries data has it in the scatter list; a   *)
(* request that must reach the flash before it ends is marked so.  There   *)
(* is none if memory failed or the pages of a request with data could not  *)
(* be mapped.  A discard that comes while enable_discard is off goes out   *)
(* as a write: nothing is claimed of it.                                   *)
RequestExact(req, allocated, enable_discard, mapped) ==
    LET fbio == kfio_request_to_bio(req, allocated, enable_discard, mapped)
    IN  (req.op = "discard" => enable_discard) =>
          IF ~allocated \/ (req.op \in {"read", "write"} /\ ~mapped) THEN fbio = NoFbio
          ELSE /\ fbio.cmd = req.op
               /\ fbio.length * SectorsPerBlock = RequestSectors(req)
               /\ fbio.length > 0 => fbio.base * SectorsPerBlock = req.pos
               /\ req.op \in {"read", "write"} => fbio.sgl = fbio.length * SectorsPerBlock
               /\ (req.op = "flush" \/ (req.op = "write" /\ req.fua)) => fbio.sync

(* After each of several transfers, the residual is what is still missing, *)
(* as long as the command is not finished before its last transfer.        *)
ResidExact(bufflen, xfers) ==
    LET total[i \in 0..3] == IF i = 0 THEN 0 ELSE total[i - 1] + xfers[i]
        resid[i \in 0..3] == IF i = 0 THEN 0 ELSE fio_scmd_update_resid(bufflen, resid[i - 1], xfers[i])
    IN  \A i \in 1..3 : (total[i] <= bufflen /\ total[i - 1] < bufflen)
                          => resid[i] = bufflen - total[i]

(* Every computation gives what its reference definition says, for every   *)
(* input of the small words but the ones that the parts above leave out.   *)
PortCalcExact ==
    LET c == pc_case
    IN  /\ c.op = "range" => RangeExact(c.r1, c.r2)
        /\ c.op = "time" => TimeExact(c.hz, c.usecs, c.u)
        /\ c.op = "div" => DivExact(c.n, c.d)
        /\ c.op = "errno" => ErrnoExact(c.n)
        /\ c.op = "numa" => NumaExact(c.params, c.name)
        /\ c.op = "slot" => SlotExact(c.bios, c.path)
        /\ c.op = "request" => RequestExact(c.req, c.allocated, c.enable_discard, c.mapped)
        /\ c.op = "resid" => ResidExact(c.bufflen, c.xfers)
        /\ c.op = "intx" => LET w == kfio_iodrive_intx(c.disabled, c.enable)
                            IN  w.written <=> w.disabled # c.disabled
=============================================================================
