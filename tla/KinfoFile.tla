------------------------------ MODULE KinfoFile ------------------------------
(***************************************************************************)
(* What a process sees of an information node through /proc (kinfo.c,       *)
(* kfile.c and the data handle of common_kinfo.c): one file with a typed    *)
(* value that is read in pieces and written, and one sequence file whose    *)
(* records are collected in the buffer of the kernel's seq_file.            *)
(*                                                                          *)
(* Text is its length.  A value is a number; its text has as many bytes as  *)
(* the number (its last one is the newline).  seq_read and copy_to_user are *)
(* external: seq_read calls start, show, next and stop, takes a buffer that *)
(* is full for one that was too small, drops what the last show put there   *)
(* and, when that was all there was, starts over with a buffer twice the    *)
(* size; it calls stop also when start gave nothing.                        *)
(***************************************************************************)
EXTENDS Integers, Sequences, FiniteSets

CONSTANTS
  MaxText,        \* the longest text of a value
  MaxCount,       \* the longest read
  MaxPos,         \* bound: how far a file's position is followed
  LocalBuf,       \* sizeof(local_buf)
  RecordLens,     \* the lengths of the sequence file's records
  FirstSize       \* the size seq_read first gives its buffer

ASSUME KinfoFileBounds ==
  /\ MaxText \in Nat \ {0} /\ MaxCount \in Nat /\ MaxPos \in Nat /\ LocalBuf \in Nat
  /\ RecordLens \in Seq(Nat) /\ FirstSize \in Nat \ {0}

VARIABLES
  kf_val,         \* the node's value
  kf_asked,       \* history: the last value a write carried that was accepted
  kf_exact,       \* history: that write's text ended with one more character
  kf_leak,        \* history: a value buffer was never freed
  kf_pos,         \* *ppos of the file
  kf_told,        \* the bytes that reads and writes said they moved
  kf_over,        \* history: bytes behind the end of the text were copied out
  kf_shrunk,      \* history: a read found its position behind the end of the text, which
                  \* had become shorter, or was shorter than what had been written
  kf_fault,       \* history: a call that failed told of other bytes than *ppos moved by
  ks_at,          \* seq_read: "idle", "start", "show", "more", "stop", "wild" (the node was freed)
  ks_buf,         \* seq_file: [size, count, recs]: recs are the whole records in the buffer
  ks_dbh,         \* the data handle [max, cur, tot]
  ks_next,        \* the record the next show produces
  ks_got          \* how many records the reader has been given

valVars == <<kf_val, kf_asked, kf_exact, kf_leak>>
readVars == <<kf_pos, kf_told, kf_over, kf_shrunk, kf_fault>>
seqVars == <<ks_at, ks_buf, ks_dbh, ks_next, ks_got>>
kfVars == <<valVars, readVars, seqVars>>

Dbh(max) == [max |-> max, cur |-> 0, tot |-> 0]
SeqBuf(size) == [size |-> size, count |-> 0, recs |-> 0]

FileInit ==
  /\ kf_val = 1 /\ kf_asked = 1 /\ kf_exact = TRUE /\ kf_leak = FALSE
  /\ kf_pos = 0 /\ kf_told = 0 /\ kf_over = FALSE /\ kf_shrunk = FALSE /\ kf_fault = FALSE
  /\ ks_at = "idle" /\ ks_buf = SeqBuf(FirstSize) /\ ks_dbh = Dbh(0) /\ ks_next = 1 /\ ks_got = 0
-----------------------------------------------------------------------------
(* Typed values *)

\* Mutant of BytesToCopy: the position is forgotten.
CopyFromStart(len, count, pos) == IF len > count THEN count ELSE len

\* fio_proc_read_buffer: the bytes to copy.  len is signed and count is not, so a
\* position behind the end counts as a very long rest.
BytesToCopy(len, count, pos) ==
  IF len - pos < 0 \/ len - pos > count THEN count ELSE len - pos

\* A call that moves n bytes: *ppos += n, and n is returned.
Moves(n) == kf_pos' = kf_pos + n /\ kf_told' = kf_told + n /\ UNCHANGED kf_fault

\* A copy to or from the user fails: the bytes it left out are returned as if they
\* had been moved.
CopyFails(n) ==
  /\ n > 0
  /\ kf_told' \in (kf_told + 1) .. (kf_told + n)
  /\ kf_fault' = TRUE
  /\ UNCHANGED kf_pos

\* A write fails with -EINVAL or -EIO when *ppos was already moved.  External: the
\* kernel may drop the position of a call that failed.
FailsLate(n) ==
  /\ kf_pos' \in {kf_pos, kf_pos + n}
  /\ kf_fault' = (kf_fault \/ kf_pos' # kf_pos)
  /\ UNCHANGED kf_told

WithinBound == kf_pos' <= MaxPos /\ kf_told' <= MaxPos

kfio_info_os_type_read(count) ==
  /\ LET n == BytesToCopy(kf_val, count, kf_pos) IN
       /\ kf_over' = (kf_over \/ (n > 0 /\ kf_pos + n > kf_val))
       /\ kf_shrunk' = (kf_shrunk \/ kf_pos > kf_val)
       /\ Moves(n) \/ CopyFails(n)
  /\ WithinBound
  /\ UNCHANGED <<valVars, seqVars>>

Reopen ==
  /\ kf_pos' = 0 /\ kf_told' = 0
  /\ kf_over' = FALSE /\ kf_shrunk' = FALSE /\ kf_fault' = FALSE
  /\ UNCHANGED <<valVars, seqVars>>

\* The driver changes the value itself.
DriverSets(v) ==
  /\ kf_val' = v /\ kf_asked' = v /\ kf_exact' = TRUE
  /\ UNCHANGED <<kf_leak, readVars, seqVars>>

\* Mutant of ParseTaken: what follows the number is not looked at.
ParseAnything(digits, count) == count > 0

\* The number is taken if at most one character follows it; count - 1 is
\* unsigned, so that an empty text is refused.
ParseTaken(digits, count) == count > 0 /\ digits >= count - 1

\* kfio_info_os_type_write of a number of the given digits with tail characters
\* behind it.  The copy is not terminated: without a tail the conversion goes on
\* into what the buffer held before.  One character ends a text: the others of
\* the tail are part of what was asked.  A text that is refused by the conversion,
\* or by the node's handler, has moved *ppos; one longer than the buffer is refused
\* at once.
WriteNumber(v, tail) ==
  /\ v + tail <= LocalBuf
  /\ \/ /\ CopyFails(v + tail) \/ FailsLate(v + tail)
        /\ UNCHANGED <<kf_val, kf_asked, kf_exact>>
     \/ /\ ParseTaken(v, v + tail)
        /\ Moves(v + tail)
        /\ IF tail = 0 THEN kf_val' \in v .. MaxText ELSE kf_val' = v
        /\ kf_asked' = IF tail = 0 THEN v ELSE v + tail - 1
        /\ kf_exact' = (tail # 0)
  /\ WithinBound
  /\ UNCHANGED <<kf_leak, kf_over, kf_shrunk, seqVars>>

\* A string longer than its node is refused after the buffer for a large node
\* was allocated, and that is not freed.
StringTooLong(v, size) ==
  /\ v > size
  /\ kf_leak' = (kf_leak \/ size > LocalBuf)
  /\ UNCHANGED <<kf_val, kf_asked, kf_exact, readVars, seqVars>>

\* A shorter one is stored with what the rest of the buffer held.
WriteString(v, size) ==
  /\ v <= size
  /\ \/ /\ CopyFails(v) \/ FailsLate(v)
        /\ UNCHANGED <<kf_val, kf_asked, kf_exact>>
     \/ /\ Moves(v)
        /\ IF v < size THEN kf_val' \in v .. size ELSE kf_val' = v
        /\ kf_asked' = v
        /\ kf_exact' = (v = size)
  /\ WithinBound
  /\ UNCHANGED <<kf_leak, kf_over, kf_shrunk, seqVars>>
-----------------------------------------------------------------------------
(* The sequence file *)

\* kfio_info_printf: vsnprintf ends a text that just fits one byte short of it.
kfio_info_printf(dbh, len) ==
  [dbh EXCEPT !.cur = IF len > dbh.max - dbh.cur THEN dbh.max ELSE @ + len, !.tot = @ + len]

\* kfio_info_data_overflow
kfio_info_data_overflow(dbh) == dbh.tot > dbh.max

\* seq_read begins, or begins again.
SeqStart ==
  /\ ks_at \in {"idle", "start"}
  /\ ks_next <= Len(RecordLens)
  /\ \/ ks_dbh' = Dbh(ks_buf.size - ks_buf.count) /\ ks_at' = "show"
     \/ ks_dbh' = Dbh(0) /\ ks_at' = "stop"
  /\ UNCHANGED <<ks_buf, ks_next, ks_got, valVars, readVars>>

\* Mutant of Committed: what the buffer held before is committed again.
CommitAll(now, before) == now.cur

\* What kfio_info_linux_seq_show gives kfio_seq_commit.
Committed(now, before) == now.cur - before.cur

\* kfio_info_linux_seq_show.  A buffer that is full afterwards is dropped by
\* seq_read: the record again, in a larger buffer if it was the first.
SeqShow ==
  /\ ks_at = "show"
  /\ LET dbh == kfio_info_printf(ks_dbh, RecordLens[ks_next])
         count == ks_buf.count + Committed(dbh, ks_dbh)
     IN IF count < ks_buf.size
        THEN /\ ks_buf' = [ks_buf EXCEPT !.count = count, !.recs = @ + 1]
             /\ ks_dbh' = dbh /\ ks_next' = ks_next + 1 /\ ks_at' = "more"
        ELSE IF ks_buf.recs = 0
        THEN /\ ks_buf' = SeqBuf(2 * ks_buf.size)
             /\ ks_dbh' = Dbh(0) /\ UNCHANGED ks_next /\ ks_at' = "start"
        ELSE UNCHANGED <<ks_buf, ks_dbh, ks_next>> /\ ks_at' = "stop"
  /\ UNCHANGED <<ks_got, valVars, readVars>>

\* The handler fails: the buffer is marked full, the error goes to the reader.
SeqShowFails ==
  /\ ks_at = "show"
  /\ ks_at' = "idle"
  /\ ks_buf' = SeqBuf(ks_buf.size)
  /\ ks_next' = ks_got + 1
  /\ ks_dbh' = Dbh(0)
  /\ UNCHANGED <<ks_got, valVars, readVars>>

SeqNext ==
  /\ ks_at = "more"
  /\ ks_at' = IF ks_next <= Len(RecordLens) THEN "show" ELSE "stop"
  /\ UNCHANGED <<ks_buf, ks_dbh, ks_next, ks_got, valVars, readVars>>

\* kfio_info_linux_seq_stop frees the data handle it takes private to be: when
\* start could not allocate one, private is still the node.
SeqStop ==
  /\ ks_at = "stop"
  /\ ks_at' = IF ks_dbh.max = 0 THEN "wild" ELSE "idle"
  /\ ks_got' = ks_got + ks_buf.recs
  /\ ks_buf' = SeqBuf(ks_buf.size)
  /\ ks_dbh' = Dbh(0)
  /\ UNCHANGED <<ks_next, valVars, readVars>>

\* Opening the file again reads it from the start.
SeqReopen ==
  /\ ks_at = "idle"
  /\ ks_got' = 0 /\ ks_next' = 1 /\ ks_buf' = SeqBuf(FirstSize)
  /\ UNCHANGED <<ks_at, ks_dbh, valVars, readVars>>
-----------------------------------------------------------------------------
FileNext ==
  /\ ks_at # "wild"
  /\ \/ \E n \in 0 .. MaxCount : kfio_info_os_type_read(n)
     \/ \E v \in 1 .. MaxText : DriverSets(v)
     \/ \E v \in 0 .. MaxText, t \in 0 .. 2 : WriteNumber(v, t)
     \/ \E v \in 0 .. MaxText, s \in 0 .. MaxText : StringTooLong(v, s) \/ WriteString(v, s)
     \/ Reopen
     \/ SeqStart \/ SeqShow \/ SeqShowFails \/ SeqNext \/ SeqStop \/ SeqReopen

FileSpec == FileInit /\ [][FileNext]_kfVars

FileTypeOK ==
  /\ kf_val \in 0 .. MaxText /\ kf_asked \in 0 .. MaxText /\ kf_exact \in BOOLEAN /\ kf_leak \in BOOLEAN
  /\ kf_pos \in 0 .. MaxPos /\ kf_told \in 0 .. MaxPos
  /\ kf_over \in BOOLEAN /\ kf_shrunk \in BOOLEAN /\ kf_fault \in BOOLEAN
  /\ ks_at \in {"idle", "start", "show", "more", "stop", "wild"}
  /\ ks_buf \in [size : Nat, count : Nat, recs : Nat]
  /\ ks_dbh \in [max : Nat, cur : Nat, tot : Nat]
  /\ ks_next \in 1 .. Len(RecordLens) + 1 /\ ks_got \in 0 .. Len(RecordLens)

\* As long as no read since the open found its position behind the end of the text
\* (because the text became shorter, or because a write moved the position there),
\* reading in pieces never copies bytes from behind the text; and as long as no
\* call since the open failed half way, the user was told of exactly the bytes that
\* the position moved by (fio_proc_read_buffer, kfio_info_os_type_write).
KinfoReadWithin ==
  /\ kf_over => kf_shrunk
  /\ kf_fault \/ kf_told = kf_pos

\* What a node holds is what the last write that was accepted carried, if one
\* character ended its text; text that a number does not end with is refused as
\* a whole (kfio_info_os_type_write).
KinfoWriteExact == kf_exact => kf_val = kf_asked

\* The bytes of the first n records.
Bytes[n \in 0 .. Len(RecordLens)] == IF n = 0 THEN 0 ELSE RecordLens[n] + Bytes[n - 1]

\* A reader of a sequence file is given every record once, whole and in order,
\* over all retries with a larger buffer: the records in the buffer follow those
\* it has, their bytes are what was committed, and a record that did not fit is
\* not among them (kfio_info_printf, kfio_info_linux_seq_show, kfio_seq_commit).
SeqRecordsWhole ==
  /\ ks_buf.count = Bytes[ks_got + ks_buf.recs] - Bytes[ks_got]
  /\ ks_at # "wild" => ks_next = ks_got + ks_buf.recs + 1
  /\ ks_at \in {"show", "more"} => ks_dbh.cur = ks_buf.count /\ ~kfio_info_data_overflow(ks_dbh)

\* What passes between a user's buffer and a node is what was asked, in every
\* direction and over every retry: the three parts above.
KinfoFileExact == KinfoReadWithin /\ KinfoWriteExact /\ SeqRecordsWhole
=============================================================================
