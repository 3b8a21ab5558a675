-------------------------------- MODULE Swal --------------------------------
(***************************************************************************)
(* The write-ahead log of the replication layer (src/replication/swal.c):  *)
(* a fixed-size log file used as a ring, an mmap'd meta page that says     *)
(* which window of log offsets the ring holds, and an optional in-memory   *)
(* ring cache with the most recent bytes.                                  *)
(*                                                                         *)
(* A byte is abstracted to its identity: the number of bytes appended, by  *)
(* any append, before it.  `written' counts them, so the byte at log       *)
(* offset o of the current log is the byte written - (log_end_offset - o). *)
(* A slot that never held a byte of the log holds Junk.                    *)
(*                                                                         *)
(* The meta page is stored to field by field, and what was stored outlives *)
(* the process: a process that is killed inside an append or a reset       *)
(* leaves it torn.                                                         *)
(***************************************************************************)
EXTENDS Integers, Sequences

CONSTANTS
  max_file_size,     \* swal_options_t: slots of the log file
  ring_cache_size,   \* swal_options_t: slots of the ring cache, 0 for none
  SizeMax,           \* 2 to the number of bits of a size_t
  MaxAppend,         \* bound: longest log record of one append
  MaxWritten,        \* bound: bytes appended in a behaviour
  ResetOffsets,      \* offsets a full resync may reset the log to
  MaxOpens,          \* bound: times the log is opened
  MaxWriteErrors     \* bound: write(2) calls that fail

ASSUME SwalAssumption ==
  /\ max_file_size \in Nat \ {0}
  /\ ring_cache_size \in Nat
  /\ SizeMax \in Nat /\ SizeMax > max_file_size /\ SizeMax > ring_cache_size
  /\ MaxAppend \in Nat
  /\ MaxWritten \in Nat
  /\ ResetOffsets \subseteq 0..(SizeMax - 1)
  /\ MaxOpens \in Nat
  /\ MaxWriteErrors \in Nat

VARIABLES
  log_start_offset, log_end_offset, log_file_pos,   \* swal_meta_t, mmap'd
  cksm, cksm_from,   \* swal_meta_t: a checksum is the bytes it covers, as
                     \* cksm_from..cksm-1 after the seed given by a reset
  file,                                             \* the log file
  ring_cache, ring_cache_start_offset, ring_cache_idx,
  mmap_buf,                                         \* the log file is mapped
  written,                                          \* bytes appended so far
  opened,                                           \* value of written at open
  torn,              \* an append has broken off halfway, or a reset, and no
                     \* reset has been completed since (history)
  opens, errors                                     \* counters of the bounds

meta == <<log_start_offset, log_end_offset, log_file_pos, cksm, cksm_from>>
cache == <<ring_cache, ring_cache_start_offset, ring_cache_idx>>
vars == <<meta, file, cache, mmap_buf, written, opened, torn, opens, errors>>

Junk == -1

(***************************************************************************)
(* Rings.  A ring of `size' slots is written at idx; At is the slot of the *)
(* k-th most recent byte, Behind how many bytes ago slot i was written.    *)
(***************************************************************************)
At(idx, size, k) == IF idx >= k THEN idx - k ELSE size - k + idx
Behind(idx, size, i) == IF i < idx THEN idx - i ELSE idx + size - i

\* The write position after n more bytes (the loops wrap it to 0 at size).
Advance(idx, size, n) == (idx + n) % size

\* (mutant of RingWrite: the oldest of the new bytes is not copied)
RingWriteShort(ring, size, idx, n, w) ==
  [i \in 0..(size - 1) |->
     IF Behind(idx, size, i) < n THEN w - Behind(idx, size, i) ELSE ring[i]]

\* The copy loops of swal_append: the last bytes of the n new ones, of
\* which the final one is byte w - 1, end just before the new position idx.
RingWrite(ring, size, idx, n, w) ==
  [i \in 0..(size - 1) |->
     IF Behind(idx, size, i) <= n THEN w - Behind(idx, size, i) ELSE ring[i]]

\* A difference of two size_t.
Minus(a, b) == IF a >= b THEN a - b ELSE SizeMax + a - b

\* log_end_offset has moved: keep at most `size' bytes behind it.
Retain(start, end, size) == IF Minus(end, start) >= size THEN Minus(end, size) ELSE start

-----------------------------------------------------------------------------
(***************************************************************************)
(* Operations.                                                             *)
(***************************************************************************)
Init ==
  /\ log_start_offset = 0 /\ log_end_offset = 0 /\ log_file_pos = 0
  /\ cksm = 0 /\ cksm_from = 0
  /\ file = [i \in 0..(max_file_size - 1) |-> Junk]
  /\ ring_cache = [i \in 0..(ring_cache_size - 1) |-> Junk]
  /\ ring_cache_start_offset = 0 /\ ring_cache_idx = 0
  /\ mmap_buf = "NULL"
  /\ written = 0 /\ opened = 0 /\ torn = FALSE
  /\ opens = 1 /\ errors = 0

\* The cache half of swal_append.
CacheAppend(n) ==
  IF ring_cache_size = 0
  THEN UNCHANGED cache
  ELSE /\ ring_cache_idx' = Advance(ring_cache_idx, ring_cache_size, n)
       /\ ring_cache' = RingWrite(ring_cache, ring_cache_size, ring_cache_idx', n, written')
       /\ ring_cache_start_offset' =
            Retain(ring_cache_start_offset, log_end_offset', ring_cache_size)

swal_append(n) ==
  /\ written + n <= MaxWritten
  /\ written' = written + n
  /\ log_file_pos' = Advance(log_file_pos, max_file_size, n)
  /\ file' = RingWrite(file, max_file_size, log_file_pos', n, written')
  /\ log_end_offset' = log_end_offset + n
  /\ log_start_offset' = Retain(log_start_offset, log_end_offset', max_file_size)
  /\ cksm' = cksm + n /\ UNCHANGED cksm_from
  /\ CacheAppend(n)
  /\ UNCHANGED <<mmap_buf, opened, torn, opens, errors>>

\* The file after m bytes of a record that is never announced.
Spoiled(m) ==
  [i \in 0..(max_file_size - 1) |->
     IF Behind(Advance(log_file_pos, max_file_size, m), max_file_size, i) <= m
     THEN Junk ELSE file[i]]

\* write(2) fails: the append returns.  Chunks written before, each of which
\* filled the file up to its end, stay in the file and log_file_pos with them.
swal_append_fails(n) ==
  /\ errors < MaxWriteErrors
  /\ errors' = errors + 1
  /\ \/ UNCHANGED <<file, log_file_pos, torn>>
     \/ \E m \in 1..(n - 1) :
          /\ Advance(log_file_pos, max_file_size, m) = 0
          /\ log_file_pos' = 0
          /\ file' = Spoiled(m)
          /\ torn' = TRUE
  /\ UNCHANGED <<log_start_offset, log_end_offset, cksm, cksm_from, cache, mmap_buf,
                 written, opened, opens>>

swal_reset(offset) ==
  /\ log_start_offset' = offset
  /\ log_end_offset' = offset
  /\ log_file_pos' = 0
  /\ cksm' = written /\ cksm_from' = written
  /\ torn' = FALSE
  /\ IF ring_cache_size = 0
     THEN UNCHANGED cache
     ELSE /\ ring_cache_start_offset' = offset
          /\ ring_cache_idx' = 0
          /\ UNCHANGED ring_cache
  /\ UNCHANGED <<file, mmap_buf, written, opened, opens, errors>>
-----------------------------------------------------------------------------
(***************************************************************************)
(* The process ends, cleanly or not, and opens the log again: the file and *)
(* the mapped meta page survive, malloc gives the cache arbitrary          *)
(* contents.                                                               *)
(***************************************************************************)
Reopen ==
  /\ opens < MaxOpens
  /\ opens' = opens + 1
  /\ opened' = written'
  /\ mmap_buf' = "NULL"
  /\ ring_cache' = [i \in 0..(ring_cache_size - 1) |-> Junk]
  /\ IF ring_cache_size = 0
     THEN UNCHANGED <<ring_cache_start_offset, ring_cache_idx>>
     ELSE /\ ring_cache_start_offset' = log_start_offset'
          /\ ring_cache_idx' = 0
  /\ UNCHANGED errors

swal_open ==
  /\ UNCHANGED <<meta, file, written, torn>>
  /\ Reopen

\* Where write(2) has been called and log_file_pos moved, for a record of n.
ChunkEnd(n, m) == m \in {0, n} \/ Advance(log_file_pos, max_file_size, m) = 0

\* The process is killed while m bytes are in the file and log_file_pos has
\* moved over those of the chunks done, or not yet gone back to 0.
KilledInWrite(n) ==
  \E done, m \in 0..n :
    /\ ChunkEnd(n, done) /\ done <= m /\ m > 0
    /\ \A k \in (done + 1)..(m - 1) : ~ChunkEnd(n, k)
    /\ file' = Spoiled(m)
    /\ \/ log_file_pos' = Advance(log_file_pos, max_file_size, done)
       \/ /\ m = done /\ Advance(log_file_pos, max_file_size, done) = 0
          /\ log_file_pos' = max_file_size
    /\ UNCHANGED <<log_start_offset, log_end_offset, written>>

\* It is killed when log_end_offset has moved: log_start_offset may have.
KilledBeforeChecksum(n) ==
  /\ written + n <= MaxWritten
  /\ written' = written + n
  /\ log_file_pos' = Advance(log_file_pos, max_file_size, n)
  /\ file' = RingWrite(file, max_file_size, log_file_pos', n, written')
  /\ log_end_offset' = log_end_offset + n
  /\ log_start_offset' \in {log_start_offset, Retain(log_start_offset, log_end_offset', max_file_size)}

killed_in_append(n) ==
  /\ KilledInWrite(n) \/ KilledBeforeChecksum(n)
  /\ torn' = TRUE
  /\ UNCHANGED <<cksm, cksm_from>>
  /\ Reopen

killed_in_reset(offset) ==
  /\ log_start_offset' = offset
  /\ \/ UNCHANGED <<log_end_offset, log_file_pos>>
     \/ log_end_offset' = offset /\ log_file_pos' \in {log_file_pos, 0}
  /\ torn' = TRUE
  /\ UNCHANGED <<cksm, cksm_from, file, written>>
  /\ Reopen
-----------------------------------------------------------------------------
(***************************************************************************)
(* swal_replay: what func is called with, one sequence per call.  Callers  *)
(* pass offsets in log_start_offset..log_end_offset; a limit <= 0 is none. *)
(* Memory outside the ring reads as Junk.                                  *)
(***************************************************************************)
Slice(ring, from, len) ==
  [i \in 1..len |-> IF from + i - 1 \in DOMAIN ring THEN ring[from + i - 1] ELSE Junk]

Total(offset, limit) ==
  LET len == log_end_offset - offset
  IN  IF limit > 0 /\ limit < len THEN limit ELSE len

\* (mutant of Calls: the bytes are taken to be contiguous)
CallsOnce(ring, size, start_pos, total) == <<Slice(ring, start_pos, total)>>

\* One call, or two when the bytes run over the end of the ring.  The size_t
\* difference size - start_pos is huge when start_pos is beyond the ring.
Calls(ring, size, start_pos, total) ==
  IF total <= size - start_pos \/ start_pos > size
  THEN <<Slice(ring, start_pos, total)>>
  ELSE <<Slice(ring, start_pos, size - start_pos),
         Slice(ring, 0, start_pos + total - size)>>

FromCache(offset) == ring_cache_size > 0 /\ offset >= ring_cache_start_offset

\* (mutant of CacheStart: steps back by the limited length)
CacheStartByTotal(offset, limit) ==
  At(ring_cache_idx, ring_cache_size, Total(offset, limit))

\* The first slot to pass: step back to offset, whatever the limit.
CacheStart(offset, limit) ==
  At(ring_cache_idx, ring_cache_size, log_end_offset - offset)

\* Once wrapped, the code steps back by total and not by data_len.
FileStart(offset, limit) ==
  LET data_len == log_end_offset - offset
  IN  IF log_file_pos >= data_len
      THEN log_file_pos - data_len
      ELSE max_file_size - Total(offset, limit) + log_file_pos

Replayed(offset, limit) ==
  IF FromCache(offset)
  THEN Calls(ring_cache, ring_cache_size, CacheStart(offset, limit), Total(offset, limit))
  ELSE Calls(file, max_file_size, FileStart(offset, limit), Total(offset, limit))

\* Replaying from the file maps it; the mapping stays until it is cleared.
swal_replay(offset) ==
  /\ mmap_buf' = IF FromCache(offset) THEN mmap_buf ELSE "mapped"
  /\ UNCHANGED <<meta, file, cache, written, opened, torn, opens, errors>>

swal_clear_replay_cache ==
  /\ mmap_buf # "NULL"
  /\ mmap_buf' = "NULL"
  /\ UNCHANGED <<meta, file, cache, written, opened, torn, opens, errors>>
-----------------------------------------------------------------------------
Next ==
  \/ \E n \in 1..MaxAppend : swal_append(n) \/ swal_append_fails(n) \/ killed_in_append(n)
  \/ \E offset \in ResetOffsets : swal_reset(offset) \/ killed_in_reset(offset)
  \/ \E offset \in log_start_offset..log_end_offset : swal_replay(offset)
  \/ swal_clear_replay_cache
  \/ swal_open

Spec == Init /\ [][Next]_vars
-----------------------------------------------------------------------------
(***************************************************************************)
(* Properties.                                                             *)
(***************************************************************************)
TypeOK ==
  /\ log_start_offset \in Nat
  /\ log_end_offset \in Nat
  /\ log_file_pos \in 0..max_file_size
  /\ cksm \in Nat /\ cksm_from \in Nat
  /\ file \in [0..(max_file_size - 1) -> Int]
  /\ ring_cache \in [0..(ring_cache_size - 1) -> Int]
  /\ ring_cache_start_offset \in Nat
  /\ ring_cache_idx \in Nat
  /\ ring_cache_size > 0 => ring_cache_idx < ring_cache_size
  /\ mmap_buf \in {"NULL", "mapped"}
  /\ written \in Nat /\ opened \in 0..written /\ torn \in BOOLEAN
  /\ opens \in Nat /\ errors \in Nat

\* The len bytes of the current log that follow offset.
Bytes(offset, len) ==
  [i \in 1..len |-> written - (log_end_offset - offset) + i - 1]

Joined(calls) == IF Len(calls) = 1 THEN calls[1] ELSE calls[1] \o calls[2]

\* Unless it is torn, the window the meta page announces is one the ring can
\* hold, was appended since the last reset, and ends where the checksum ends:
\* Master accepts a partial resync for any offset in it (swal_append,
\* swal_reset).
WindowOK ==
  ~torn =>
    /\ log_start_offset <= log_end_offset
    /\ log_end_offset - log_start_offset <= max_file_size
    /\ log_end_offset - log_start_offset <= cksm - cksm_from
    /\ cksm = written /\ log_file_pos < max_file_size

\* Unless an append or a reset has broken off halfway since the last reset,
\* every byte of the announced window is in the file, where stepping back from
\* log_file_pos finds it: through any wraps of the ring, resets, restarts of
\* the process and appends that failed at once (swal_append, swal_open).
FileHoldsWindow ==
  ~torn =>
    \A k \in 1..(log_end_offset - log_start_offset) :
      file[At(log_file_pos, max_file_size, k)] = written - k

\* Every byte appended since the log was opened, and not older than the
\* cache claims to reach, is in the ring cache.
CacheHoldsTail ==
  ring_cache_size > 0 =>
    \A k \in 1..ring_cache_size :
      k <= log_end_offset - ring_cache_start_offset /\ k <= written - opened
        => ring_cache[At(ring_cache_idx, ring_cache_size, k)] = written - k

\* The ring that serves a replay from the offset has its bytes: no append or
\* reset has broken off halfway since the last reset, by a write that fails
\* after another or by the end of the process, and the cache is asked for
\* nothing older than its last opening (where swal_open announces more than
\* the empty cache holds).
Served(offset) ==
  /\ ~torn
  /\ FromCache(offset) => log_end_offset - offset <= written - opened

\* An unlimited replay, from whichever ring serves it, passes func exactly the
\* bytes from the offset to the end of the log, in order: what the checksum
\* comparison and the slave's own replay rely on (swal_replay).
ReplayExact ==
  \A offset \in log_start_offset..log_end_offset :
    Served(offset) =>
      Joined(Replayed(offset, 0)) = Bytes(offset, log_end_offset - offset)

\* A limited replay passes the first bytes that follow the offset, if it is
\* served by the cache or by a part of the file that does not wrap: with
\* FileStart it is wrong for the others (swal_replay called by Master::SyncWAL).
LimitedReplayExact ==
  \A offset \in log_start_offset..log_end_offset, limit \in 1..MaxAppend :
    /\ Served(offset)
    /\ FromCache(offset) \/ log_end_offset - offset <= log_file_pos
    => Joined(Replayed(offset, limit)) = Bytes(offset, Total(offset, limit))
=============================================================================
