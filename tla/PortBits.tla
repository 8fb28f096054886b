------------------------------ MODULE PortBits ------------------------------
(***************************************************************************)
(* The word-level helpers of the porting layer: the atomic operations and  *)
(* bit operations in the variants the compilers select (x86_common/        *)
(* atomic.h, bits.h), bit counting and rounding (bitops.h), byte order     *)
(* (byteswap.h, kcsr.c) and unaligned access (unaligned.h).  They are      *)
(* operators over words of WordBits bits that keep the code's wrapping;    *)
(* a byte has ByteBits bits, so that a word has as many bytes as in C and  *)
(* TLC can try every value.  One step picks one operation and its inputs.  *)
(***************************************************************************)
EXTENDS Integers, Sequences, FiniteSets
LOCAL INSTANCE Bitwise

CONSTANTS WordBits,     \* the width of a word, for the atomics and the bit tricks
          ByteBits      \* the width of a byte, for the byte orders

ASSUME PortBitsAssumption == WordBits \in {4, 8} /\ ByteBits \in 1..4

VARIABLE pb_case        \* the operation tried and its inputs

Unsigned(w, x) == x % 2^w

Signed(w, x) == ((x + 2^(w - 1)) % 2^w) - 2^(w - 1)

Left(w, v, n) == Unsigned(w, v * 2^n)
Right(v, n) == v \div 2^n

-----------------------------------------------------------------------------
(* Atomics.  Each variant gives, for every operation, the new value of the *)
(* word and what the operation returns; v is the word, x and y the         *)
(* arguments.  Operations that return nothing return 0 here.               *)

(* InterlockedExchangeAdd returns the value before the addition. *)
InterlockedAtomics(w, v, x, y) ==
    LET ExchangeAdd(d) == [val |-> Signed(w, v + d), old |-> v]
        After(d, e) == <<ExchangeAdd(d).val, Signed(w, ExchangeAdd(d).old + e)>>
    IN  [inc |-> <<Signed(w, v + 1), 0>>,  incr |-> <<Signed(w, v + 1), Signed(w, v + 1)>>,
         dec |-> <<Signed(w, v - 1), 0>>,  decr |-> <<Signed(w, v - 1), Signed(w, v - 1)>>,
         add |-> <<ExchangeAdd(x).val, 0>>,   add_return |-> After(x, x),
         sub |-> <<ExchangeAdd(-x).val, 0>>,  sub_return |-> After(-x, -x),
         exchange |-> <<x, v>>,
         cas |-> <<IF v = x THEN y ELSE v, v>>,
         cas_bool |-> <<IF v = x THEN y ELSE v, IF v = x THEN 1 ELSE 0>>]

(* __sync_add_and_fetch and __sync_sub_and_fetch return the new value. *)
SyncAtomics(w, v, x, y) ==
    LET AddAndFetch(d) == <<Signed(w, v + d), Signed(w, v + d)>>
        Quiet(r) == <<r[1], 0>>
    IN  [inc |-> Quiet(AddAndFetch(1)),   incr |-> AddAndFetch(1),
         dec |-> Quiet(AddAndFetch(-1)),  decr |-> AddAndFetch(-1),
         add |-> Quiet(AddAndFetch(x)),   add_return |-> AddAndFetch(x),
         sub |-> Quiet(AddAndFetch(-x)),  sub_return |-> AddAndFetch(-x),
         exchange |-> <<x, v>>,
         cas |-> <<IF v = x THEN y ELSE v, v>>,
         cas_bool |-> <<IF v = x THEN y ELSE v, IF v = x THEN 1 ELSE 0>>]

(* xadd leaves the old value in val, to which the saved addend i is added; *)
(* cmpxchg leaves in rc what the word held, oldval when it swapped.        *)
AsmAtomics(w, v, x, y) ==
    LET XaddReturn(d) == LET i == d  val == v IN <<Signed(w, v + d), Signed(w, val + i)>>
        rc == IF v = x THEN x ELSE v
        swapped == IF v = x THEN y ELSE v
    IN  [inc |-> <<Signed(w, v + 1), 0>>,  incr |-> XaddReturn(1),
         dec |-> <<Signed(w, v - 1), 0>>,  decr |-> XaddReturn(-1),
         add |-> <<Signed(w, v + x), 0>>,  add_return |-> XaddReturn(x),
         sub |-> <<Signed(w, v - x), 0>>,  sub_return |-> XaddReturn(-x),
         exchange |-> <<x, v>>,
         cas |-> <<swapped, rc>>,
         cas_bool |-> <<swapped, IF rc = x THEN 1 ELSE 0>>]

(* The PPC build has the 32-bit builtins only, and no compare-and-swap. *)
PpcAtomics(w, v, x) ==
    LET AddAndFetch(d) == <<Signed(w, v + d), Signed(w, v + d)>>
    IN  [incr |-> AddAndFetch(1), add_return |-> AddAndFetch(x),
         decr |-> AddAndFetch(-1), sub_return |-> AddAndFetch(-x), exchange |-> <<x, v>>]

(* Bit operations: the interlocked intrinsics of one compiler, shifts and  *)
(* bts/btr with setb for the other; v is the bit, below the word's width.  *)
IntrinsicBits(w, p, v) ==
    LET old == Right(p, v) % 2
        set == p | 2^v
        reset == set - 2^v
    IN  [test |-> <<p, old>>, set |-> <<set, 0>>, clear |-> <<reset, 0>>,
         test_and_set |-> <<set, old>>, test_and_clear |-> <<reset, old>>]

AsmBits(w, p, v) ==
    LET mask == Left(w, 1, v % w)
        carry == Right(p, v) % 2
        bts == IF carry = 1 THEN p ELSE p + 2^v
        btr == IF carry = 1 THEN p - 2^v ELSE p
    IN  [test |-> <<p, IF mask & p # 0 THEN 1 ELSE 0>>, set |-> <<bts, 0>>, clear |-> <<btr, 0>>,
         test_and_set |-> <<bts, carry>>, test_and_clear |-> <<btr, carry>>]

(* lwarx/stwcx. loops: the test-and-set pair keeps the old word and        *)
(* returns !!(old & ~mask), whether any OTHER bit of it was set.           *)
PpcBits(w, p, v) ==
    LET mask == Left(w, 1, v % w)
        andc == p - (p & mask)
        others == IF andc # 0 THEN 1 ELSE 0
    IN  [test |-> <<p, IF mask & p # 0 THEN 1 ELSE 0>>, set |-> <<p | mask, 0>>, clear |-> <<andc, 0>>,
         test_and_set |-> <<p | mask, others>>, test_and_clear |-> <<andc, others>>]

-----------------------------------------------------------------------------
(* bitops.h *)

(* The mask of a pattern of n bits repeated over w bits: 0x55.., 0x33..    *)
Pattern(w, n, bits) ==
    LET mask[k \in 0..(w \div n)] == IF k = 0 THEN 0 ELSE mask[k - 1] * 2^n + bits
    IN  mask[w \div n]

(* fio_bitcount8, 32 and 64: sums of 2, 4 and 8 bits in parallel, then the *)
(* multiplication that adds the bytes into the top one.                    *)
fio_bitcount(w, val) ==
    LET v1 == val - (Right(val, 1) & Pattern(w, 2, 1))
        v2 == (v1 & Pattern(w, 4, 3)) + (Right(v1, 2) & Pattern(w, 4, 3))
        v3 == (v2 + Right(v2, 4)) & Pattern(w, 8, 15)
    IN  Right(Unsigned(w, v3 * Pattern(w, 8, 1)), w - 8)

(* The loop over index: stops at the n-th bit found, or past the last bit. *)
fio_get_nth_bit_set_index(w, val, n) ==
    LET scan[index \in 0..w, found \in 0..w] ==
          IF index = w THEN w
          ELSE LET now == found + (Right(val, index) % 2)
               IN  IF now = n /\ now # found THEN index ELSE scan[index + 1, now]
    IN  scan[0, 0]

fio_get_top_bit_set_index(w, val) ==
    LET scan[index \in -1..(w - 1)] ==
          IF index = -1 \/ Right(val, index) % 2 = 1 THEN index ELSE scan[index - 1]
    IN  scan[w - 1]

Smear(v, n) == v | Right(v, n)

(* A rounding that does not step back first: powers of two are doubled. *)
RoundsPowersUp(w, v) == Unsigned(w, Smear(Smear(Smear(Smear(v, 1), 2), 4), 8) + 1)

(* Stepping back, copying the top bit down and stepping on; 0 counts as 1. *)
fio_round_up_power_of_2(w, v) ==
    LET v0 == IF v = 0 THEN 0 ELSE v - 1
    IN  Unsigned(w, Smear(Smear(Smear(Smear(v0, 1), 2), 4), 8) + 1)

-----------------------------------------------------------------------------
(* byteswap.h: bytes of b bits *)

fusion_bswap16(b, val) == Unsigned(2 * b, Left(2 * b, val, b) | Right(val, b))

fusion_bswap32(b, val) ==
    LET w == 4 * b
        hi == Pattern(w, 2 * b, (2^b - 1) * 2^b)
        lo == Pattern(w, 2 * b, 2^b - 1)
        v  == (Left(w, val, b) & hi) | (Right(val, b) & lo)
    IN  Left(w, v, 2 * b) | Right(v, 2 * b)

fusion_bswap64(b, val) ==
    LET w == 8 * b
        Half(v, n) == (Left(w, v, n) & Pattern(w, 2 * n, (2^n - 1) * 2^n))
                        | (Right(v, n) & Pattern(w, 2 * n, 2^n - 1))
    IN  Half(Half(Half(val, b), 2 * b), 4 * b)

(* le32toh and htole32: the card is little-endian, the host may not be. *)
CardOrder32(b, bigEndian, val) == IF bigEndian THEN fusion_bswap32(b, val) ELSE val

(* The bytes a store of val puts into memory, lowest address first. *)
StoredBytes(b, n, bigEndian, val) ==
    [i \in 1..n |-> Right(val, b * (IF bigEndian THEN n - i ELSE i - 1)) % 2^b]

LoadedWord(b, bytes, bigEndian) ==
    LET n == Len(bytes)
        sum[i \in 0..n] == IF i = 0 THEN 0
            ELSE sum[i - 1] + bytes[i] * 2^(b * (IF bigEndian THEN n - i ELSE i - 1))
    IN  sum[n]

(* kfio_csr_write_nobarrier and kfio_csr_read_direct on a device register. *)
kfio_csr_write(b, bigEndian, val) ==
    StoredBytes(b, 4, bigEndian, CardOrder32(b, bigEndian, val))

kfio_csr_read_direct(b, bigEndian, reg) ==
    CardOrder32(b, bigEndian, LoadedWord(b, reg, bigEndian))

(* MD_SETTER_BF and MD_GETTER_BF: a field of len bits at off in a word     *)
(* that is kept in the card's byte order.                                  *)
MD_SETTER_BF(b, bigEndian, word, v, off, len) ==
    LET val == CardOrder32(b, bigEndian, word)
        cleared == val - (val & ((2^len - 1) * 2^off))
    IN  CardOrder32(b, bigEndian, cleared | (v * 2^off))

MD_GETTER_BF(b, bigEndian, word, off, len) ==
    Right(CardOrder32(b, bigEndian, word), off) & (2^len - 1)

(* put_unaligned and get_unaligned copy sizeof(value) bytes at any address. *)
put_unaligned(mem, b, bigEndian, at, n, v) ==
    [i \in DOMAIN mem |-> IF i \in at..(at + n - 1)
                            THEN StoredBytes(b, n, bigEndian, v)[i - at + 1] ELSE mem[i]]

get_unaligned(mem, b, bigEndian, at, n) ==
    LoadedWord(b, SubSeq(mem, at, at + n - 1), bigEndian)

-----------------------------------------------------------------------------
(* The cases tried: every operation over every value of the small words.   *)

BitsValues == 0..(2^WordBits - 1)
IntValues == (-(2^(WordBits - 1)))..(2^(WordBits - 1) - 1)
CardWords == {0, 1, 2^ByteBits, 2^(2 * ByteBits) + 3, 2^(4 * ByteBits) - 1} \cup
             {2^(i * ByteBits) + 2^(j * ByteBits) : i, j \in 0..3}

BitsCases ==
    [op : {"atomic"}, v : IntValues, x : IntValues, y : {0, 1, -1}]
    \cup [op : {"bit"}, p : BitsValues, v : 0..(WordBits - 1)]
    \cup [op : {"count8"}, v : 0..255] \cup [op : {"count16"}, v : {k * 257 : k \in 0..255}]
    \cup [op : {"nth"}, v : BitsValues, n : 1..WordBits]
    \cup [op : {"top", "round"}, v : BitsValues]
    \cup [op : {"swap"}, v : CardWords]
    \cup [op : {"csr"}, v : CardWords, big : BOOLEAN]
    \cup [op : {"field"}, word : CardWords, v : 0..3, off : 0..(4 * ByteBits - 2), big : BOOLEAN]
    \cup [op : {"unaligned"}, v : CardWords, at : 1..4, n : {1, 2, 4}, big : BOOLEAN]

NoBitsCase == [op |-> "none"]

PortBitsInit == pb_case = NoBitsCase

PortBitsNext == pb_case = NoBitsCase /\ pb_case' \in BitsCases

PortBitsSpec == PortBitsInit /\ [][PortBitsNext]_pb_case

PortBitsTypeOK == pb_case = NoBitsCase \/ pb_case \in BitsCases

SetBits(w, v) == {i \in 0..(w - 1) : Right(v, i) % 2 = 1}

Reversed(s) == [i \in 1..Len(s) |-> s[Len(s) + 1 - i]]

(* The builds of the atomics agree: whichever the compiler and the machine *)
(* select, an operation leaves the same value and returns the same one,    *)
(* also when the counter wraps (atomic.h:84-254, 262-450, 494-695).        *)
AtomicsAgree(c) ==
    LET sync == SyncAtomics(WordBits, c.v, c.x, c.y)
    IN  /\ InterlockedAtomics(WordBits, c.v, c.x, c.y) = sync
        /\ AsmAtomics(WordBits, c.v, c.x, c.y) = sync
        /\ LET ppc == PpcAtomics(WordBits, c.v, c.x) IN \A op \in DOMAIN ppc : ppc[op] = sync[op]
        /\ sync.sub_return[2] = sync.sub[1] /\ sync.add_return[2] = sync.add[1]

(* The bit operations agree on the word they leave and on the test; what   *)
(* the PPC test-and-set pair returns is not the old bit (see PpcBits), so  *)
(* that build is held to the new word only.                                *)
BitsAgree(c) ==
    LET asm == AsmBits(WordBits, c.p, c.v)
        ppc == PpcBits(WordBits, c.p, c.v)
        bits == SetBits(WordBits, c.p)
    IN  /\ \A op \in DOMAIN asm : ppc[op][1] = asm[op][1]
        /\ ppc.test = asm.test
        /\ IntrinsicBits(WordBits, c.p, c.v) = asm
        /\ asm.test[2] = (IF c.v \in bits THEN 1 ELSE 0)
        /\ SetBits(WordBits, asm.test_and_set[1]) = bits \cup {c.v}
        /\ SetBits(WordBits, asm.test_and_clear[1]) = bits \ {c.v}

(* Each byte swap reverses the bytes, and undoes itself. *)
SwapReverses(v) ==
    LET b == ByteBits
    IN  /\ StoredBytes(b, 4, FALSE, fusion_bswap32(b, v)) = Reversed(StoredBytes(b, 4, FALSE, v))
        /\ fusion_bswap32(b, fusion_bswap32(b, v)) = v
        /\ StoredBytes(b, 2, FALSE, fusion_bswap16(b, v % 2^(2 * b)))
             = Reversed(StoredBytes(b, 2, FALSE, v % 2^(2 * b)))
        /\ StoredBytes(b, 8, FALSE, fusion_bswap64(b, v * 3)) = Reversed(StoredBytes(b, 8, FALSE, v * 3))

(* A field written is read back, and no other bit of the word changes. *)
FieldExact(c) ==
    LET b == ByteBits
        word == CardOrder32(b, c.big, c.word)
        new == MD_SETTER_BF(b, c.big, word, c.v, c.off, 2)
        field == {c.off, c.off + 1}
    IN  /\ MD_GETTER_BF(b, c.big, new, c.off, 2) = c.v
        /\ SetBits(4 * b, CardOrder32(b, c.big, new)) \ field = SetBits(4 * b, c.word) \ field

UnalignedExact(c) ==
    LET b == ByteBits
        v == c.v % 2^(b * c.n)
        old == [i \in 1..8 |-> i % 2^b]
        mem == put_unaligned(old, b, c.big, c.at, c.n, v)
    IN  /\ get_unaligned(mem, b, c.big, c.at, c.n) = v
        /\ \A i \in 1..8 : i \notin c.at..(c.at + c.n - 1) => mem[i] = old[i]

(* Rounding up gives the least power of two that is not below v; past the  *)
(* greatest power a word holds the result wraps to 0 (bitops.h:160-174).   *)
RoundsUp(v) ==
    LET powers == {2^k : k \in 0..WordBits}
        least == CHOOSE p \in powers : p >= v /\ \A q \in powers : q >= v => p <= q
    IN  fio_round_up_power_of_2(WordBits, v) = Unsigned(WordBits, least)

(* Every word-level helper computes what its name says, for every input of *)
(* the small words, but for what the PPC test-and-set pair returns: see    *)
(* the parts above.                                                        *)
PortBitsExact ==
    LET c == pb_case
    IN  /\ c.op = "atomic" => AtomicsAgree(c)
        /\ c.op = "bit" => BitsAgree(c)
        /\ c.op = "count8" => fio_bitcount(8, c.v) = Cardinality(SetBits(8, c.v))
        /\ c.op = "count16" => fio_bitcount(16, c.v) = Cardinality(SetBits(16, c.v))
        /\ c.op = "nth" =>
             LET i == fio_get_nth_bit_set_index(WordBits, c.v, c.n)
             IN  IF Cardinality(SetBits(WordBits, c.v)) < c.n THEN i = WordBits
                 ELSE i \in SetBits(WordBits, c.v) /\ Cardinality(SetBits(i + 1, c.v)) = c.n
        /\ c.op = "top" =>
             LET i == fio_get_top_bit_set_index(WordBits, c.v)
             IN  IF c.v = 0 THEN i = -1 ELSE c.v \in 2^i..(2^(i + 1) - 1)
        /\ c.op = "round" => RoundsUp(c.v)
        /\ c.op = "swap" => SwapReverses(c.v)
        /\ c.op = "csr" =>
             LET reg == kfio_csr_write(ByteBits, c.big, c.v)
             IN  /\ reg = StoredBytes(ByteBits, 4, FALSE, c.v)
                 /\ kfio_csr_read_direct(ByteBits, c.big, reg) = c.v
        /\ c.op = "field" => FieldExact(c)
        /\ c.op = "unaligned" => UnalignedExact(c)
=============================================================================
