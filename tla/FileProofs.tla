----------------------------- MODULE FileProofs -----------------------------
(***************************************************************************)
(* Proofs about the two kinds of files that the server keeps its data in:  *)
(* the write-ahead log, for every size of its rings, and the lengths,      *)
(* integers and strings of a snapshot, whatever their bytes and wherever   *)
(* in a file they are.                                                     *)
(***************************************************************************)
EXTENDS Swal, RdbCodec, SequenceTheorems, WellFoundedInduction, TLAPS

-----------------------------------------------------------------------------
(***************************************************************************)
(* The write-ahead log.                                                    *)
(***************************************************************************)

\* Moving a ring's write position by n slots stays in the ring, and for less
\* than a full turn it is the wrap that the copy loops of swal_append make.
LEMMA AdvanceInRing ==
  ASSUME NEW size \in Nat \ {0}, NEW idx \in 0..size, NEW n \in Nat
  PROVE  /\ Advance(idx, size, n) \in 0..(size - 1)
         /\ n < size => Advance(idx, size, n) =
                          IF idx + n < size THEN idx + n ELSE idx + n - size
BY SMT DEF Advance

\* Stepping back k slots and asking how far back that is are inverse.
LEMMA BehindAt ==
  ASSUME NEW size \in Nat \ {0}, NEW idx \in 0..(size - 1), NEW k \in 1..size
  PROVE  /\ At(idx, size, k) \in 0..(size - 1)
         /\ Behind(idx, size, At(idx, size, k)) = k
BY SMT DEF At, Behind

\* Copying bytes into a ring leaves it a ring of bytes.
LEMMA RingWriteType ==
  ASSUME NEW size \in Nat \ {0}, NEW idx \in 0..(size - 1), NEW n \in Nat,
         NEW w \in Int, NEW ring \in [0..(size - 1) -> Int]
  PROVE  RingWrite(ring, size, idx, n, w) \in [0..(size - 1) -> Int]
BY DEF RingWrite, Behind

\* After n bytes are copied into a ring, the k-th most recent slot holds a new
\* byte if k <= n, and otherwise what was the (k - n)-th most recent before.
LEMMA RingWriteAt ==
  ASSUME NEW size \in Nat \ {0}, NEW idx \in 0..(size - 1), NEW n \in Nat,
         NEW w \in Int, NEW ring \in [0..(size - 1) -> Int], NEW k \in 1..size
  PROVE  LET idx2 == Advance(idx, size, n)
         IN  RingWrite(ring, size, idx2, n, w)[At(idx2, size, k)] =
               IF k <= n THEN w - k ELSE ring[At(idx, size, k - n)]
<1> DEFINE idx2 == Advance(idx, size, n)
<1>1. /\ idx2 \in 0..(size - 1)
      /\ n < size => idx2 = IF idx + n < size THEN idx + n ELSE idx + n - size
  <2>1. idx \in 0..size
    OBVIOUS
  <2>2. QED
    BY <2>1, AdvanceInRing
<1> HIDE DEF idx2
<1>2. At(idx2, size, k) \in 0..(size - 1) /\ Behind(idx2, size, At(idx2, size, k)) = k
  BY <1>1, BehindAt
<1>3. RingWrite(ring, size, idx2, n, w)[At(idx2, size, k)] =
        IF k <= n THEN w - k ELSE ring[At(idx2, size, k)]
  BY <1>2 DEF RingWrite
<1>4. k > n => At(idx2, size, k) = At(idx, size, k - n)
  BY <1>1 DEF At
<1>5. QED
  BY <1>3, <1>4 DEF idx2
-----------------------------------------------------------------------------
(***************************************************************************)
(* Type correctness and the announced window.                              *)
(***************************************************************************)
\* A window that is kept starts at an offset again, on either side of a wrap of
\* size_t.
LEMMA RetainType ==
  ASSUME NEW size \in Nat, size < SizeMax, NEW start \in Nat, NEW end \in Nat
  PROVE  Retain(start, end, size) \in Nat
BY SwalAssumption DEF Retain, Minus

LEMMA InitType == Init => TypeOK /\ WindowOK
<1> SUFFICES ASSUME Init PROVE TypeOK /\ WindowOK
  OBVIOUS
<1>1. /\ file \in [0..(max_file_size - 1) -> Int]
      /\ ring_cache \in [0..(ring_cache_size - 1) -> Int]
  BY SwalAssumption DEF Init, Junk
<1>2. TypeOK
  <2>1. torn \in BOOLEAN /\ mmap_buf \in {"NULL", "mapped"}
    BY DEF Init
  <2>2. /\ log_start_offset = 0 /\ log_end_offset = 0 /\ log_file_pos = 0
        /\ cksm = 0 /\ cksm_from = 0
        /\ ring_cache_start_offset = 0 /\ ring_cache_idx = 0
        /\ written = 0 /\ opened = 0 /\ opens = 1 /\ errors = 0
    BY DEF Init
  <2>3. QED
    BY <1>1, <2>1, <2>2, SwalAssumption DEF TypeOK
<1>3. WindowOK
  BY SwalAssumption DEF Init, WindowOK
<1>4. QED
  BY <1>2, <1>3

\* What swal_append does to each ring keeps it well typed.
LEMMA AppendType ==
  ASSUME TypeOK, NEW n \in 1..MaxAppend, swal_append(n)
  PROVE  TypeOK'
<1> USE SwalAssumption
<1>1. /\ written' \in Nat /\ opened' \in 0..written'
      /\ log_end_offset' \in Nat /\ log_start_offset' \in Nat
      /\ cksm' \in Nat /\ cksm_from' \in Nat
  BY RetainType DEF TypeOK, swal_append
<1>2. /\ log_file_pos' \in 0..(max_file_size - 1)
      /\ file' \in [0..(max_file_size - 1) -> Int]
  <2>1. log_file_pos' \in 0..(max_file_size - 1)
    <3>1. log_file_pos' = Advance(log_file_pos, max_file_size, n)
      BY DEF swal_append
    <3>2. max_file_size \in Nat \ {0} /\ log_file_pos \in 0..max_file_size /\ n \in Nat
      BY DEF TypeOK
    <3>3. QED BY <3>1, <3>2, AdvanceInRing, Zenon
  <2>2. file' = RingWrite(file, max_file_size, log_file_pos', n, written')
    BY DEF swal_append
  <2>3. file \in [0..(max_file_size - 1) -> Int] /\ n \in Nat /\ written' \in Int
    BY <1>1 DEF TypeOK
  <2>4. QED
    BY <2>1, <2>2, <2>3, RingWriteType
<1>3. /\ ring_cache' \in [0..(ring_cache_size - 1) -> Int]
      /\ ring_cache_start_offset' \in Nat
      /\ ring_cache_idx' \in Nat
      /\ ring_cache_size > 0 => ring_cache_idx' < ring_cache_size
  <2>1. CASE ring_cache_size = 0
    BY <2>1 DEF TypeOK, swal_append, CacheAppend, cache
  <2>2. CASE ring_cache_size > 0
    <3>1. ring_cache_idx' \in 0..(ring_cache_size - 1)
      <4>1. ring_cache_idx' = Advance(ring_cache_idx, ring_cache_size, n)
        BY <2>2 DEF swal_append, CacheAppend
      <4>2. ring_cache_size \in Nat \ {0} /\ ring_cache_idx \in 0..ring_cache_size /\ n \in Nat
        BY <2>2 DEF TypeOK
      <4>3. QED BY <4>1, <4>2, AdvanceInRing, Zenon
    <3>2. ring_cache_start_offset' \in Nat
      <4>1. ring_cache_start_offset' =
              Retain(ring_cache_start_offset, log_end_offset', ring_cache_size)
        BY <2>2 DEF swal_append, CacheAppend
      <4>2. /\ ring_cache_size \in Nat /\ ring_cache_size < SizeMax
            /\ ring_cache_start_offset \in Nat
        BY DEF TypeOK
      <4>3. QED
        BY <1>1, <4>1, <4>2, RetainType
    <3>3. ring_cache' \in [0..(ring_cache_size - 1) -> Int]
      <4>1. ring_cache' = RingWrite(ring_cache, ring_cache_size, ring_cache_idx', n, written')
        BY <2>2 DEF swal_append, CacheAppend
      <4>2. /\ ring_cache \in [0..(ring_cache_size - 1) -> Int]
            /\ n \in Nat /\ written' \in Int
        BY <1>1 DEF TypeOK
      <4>3. QED
        BY <2>2, <3>1, <4>1, <4>2, RingWriteType
    <3>4. QED BY <3>1, <3>2, <3>3
  <2>3. QED BY <2>1, <2>2
<1>4. QED
  <2>1. UNCHANGED <<mmap_buf, torn, opens, errors>>
    BY DEF swal_append
  <2>2. /\ mmap_buf' \in {"NULL", "mapped"} /\ torn' \in BOOLEAN
        /\ opens' \in Nat /\ errors' \in Nat
    BY <2>1, Zenon DEF TypeOK
  <2>3. log_file_pos' \in 0..max_file_size
    BY <1>2
  <2>4. QED
    BY <1>1, <1>2, <1>3, <2>2, <2>3, Zenon DEF TypeOK

\* The file after a part of a record that is never announced.
LEMMA SpoiledType ==
  ASSUME TypeOK, NEW m \in Nat
  PROVE  Spoiled(m) \in [0..(max_file_size - 1) -> Int]
BY SwalAssumption DEF TypeOK, Spoiled, Junk

\* What is opened again is well typed.
LEMMA ReopenType ==
  ASSUME TypeOK, Reopen, written' \in Nat, log_start_offset' \in Nat
  PROVE  /\ ring_cache' \in [0..(ring_cache_size - 1) -> Int]
         /\ ring_cache_start_offset' \in Nat /\ ring_cache_idx' \in Nat
         /\ ring_cache_size > 0 => ring_cache_idx' < ring_cache_size
         /\ mmap_buf' \in {"NULL", "mapped"}
         /\ opened' \in 0..written' /\ opens' \in Nat /\ errors' \in Nat
<1> USE SwalAssumption
<1>1. ring_cache' \in [0..(ring_cache_size - 1) -> Int]
  <2>1. ring_cache' = [i \in 0..(ring_cache_size - 1) |-> Junk]
    BY DEF Reopen
  <2>2. QED
    BY <2>1 DEF Junk
<1>2. /\ ring_cache_start_offset' \in Nat /\ ring_cache_idx' \in Nat
      /\ ring_cache_size > 0 => ring_cache_idx' < ring_cache_size
  <2>1. /\ ring_cache_size = 0 => /\ ring_cache_start_offset' = ring_cache_start_offset
                                  /\ ring_cache_idx' = ring_cache_idx
        /\ ring_cache_size # 0 => /\ ring_cache_start_offset' = log_start_offset'
                                  /\ ring_cache_idx' = 0
    BY Zenon DEF Reopen
  <2>2. /\ ring_cache_start_offset \in Nat /\ ring_cache_idx \in Nat
        /\ ring_cache_size \in Nat
    BY Zenon DEF TypeOK
  <2>3. QED
    BY ONLY <2>1, <2>2, log_start_offset' \in Nat
<1>3. /\ mmap_buf' \in {"NULL", "mapped"}
      /\ opened' \in 0..written' /\ opens' \in Nat /\ errors' \in Nat
  BY DEF TypeOK, Reopen
<1>4. QED
  BY <1>1, <1>2, <1>3

LEMMA KilledInAppendType ==
  ASSUME TypeOK, NEW n \in 1..MaxAppend, killed_in_append(n)
  PROVE  TypeOK'
<1> USE SwalAssumption
<1>1. /\ written' \in Nat /\ log_end_offset' \in Nat /\ log_start_offset' \in Nat
      /\ log_file_pos' \in 0..max_file_size
      /\ file' \in [0..(max_file_size - 1) -> Int]
  <2>1. CASE KilledInWrite(n)
    <3>1. PICK done \in 0..n, m \in 0..n :
            /\ file' = Spoiled(m)
            /\ log_file_pos' = Advance(log_file_pos, max_file_size, done)
               \/ log_file_pos' = max_file_size
      BY <2>1 DEF KilledInWrite
    <3>2. log_file_pos \in 0..max_file_size /\ done \in Nat /\ m \in Nat
      BY DEF TypeOK
    <3>3. Advance(log_file_pos, max_file_size, done) \in 0..(max_file_size - 1)
      BY <3>2, AdvanceInRing
    <3>4. log_file_pos' \in 0..max_file_size
      BY <3>1, <3>3
    <3>5. file' \in [0..(max_file_size - 1) -> Int]
      BY <3>1, <3>2, SpoiledType
    <3>6. UNCHANGED <<log_start_offset, log_end_offset, written>>
      BY <2>1 DEF KilledInWrite
    <3>7. QED
      BY <3>4, <3>5, <3>6 DEF TypeOK
  <2>2. CASE KilledBeforeChecksum(n)
    <3>1. /\ written' = written + n /\ log_end_offset' = log_end_offset + n
          /\ log_file_pos' = Advance(log_file_pos, max_file_size, n)
          /\ file' = RingWrite(file, max_file_size, log_file_pos', n, written')
          /\ log_start_offset' \in
               {log_start_offset, Retain(log_start_offset, log_end_offset', max_file_size)}
      BY <2>2 DEF KilledBeforeChecksum
    <3>2. /\ log_file_pos \in 0..max_file_size /\ n \in Nat
          /\ written' \in Nat /\ log_end_offset' \in Nat
          /\ file \in [0..(max_file_size - 1) -> Int] /\ log_start_offset \in Nat
      BY <3>1 DEF TypeOK
    <3>3. log_file_pos' \in 0..(max_file_size - 1)
      BY <3>1, <3>2, AdvanceInRing
    <3>4. file' \in [0..(max_file_size - 1) -> Int]
      BY <3>1, <3>2, <3>3, RingWriteType
    <3>5. log_start_offset' \in Nat
      <4>1. max_file_size \in Nat /\ max_file_size < SizeMax
        OBVIOUS
      <4>2. Retain(log_start_offset, log_end_offset', max_file_size) \in Nat
        BY <3>2, <4>1, RetainType
      <4>3. QED
        BY <3>1, <3>2, <4>2
    <3>6. QED
      BY <3>2, <3>3, <3>4, <3>5
  <2>3. QED
    BY <2>1, <2>2 DEF killed_in_append
<1>2. Reopen /\ torn' = TRUE /\ UNCHANGED <<cksm, cksm_from>>
  BY DEF killed_in_append
<1>3. QED
  BY <1>1, <1>2, ReopenType DEF TypeOK

LEMMA NextType == TypeOK /\ [Next]_vars => TypeOK'
<1> SUFFICES ASSUME TypeOK, [Next]_vars PROVE TypeOK'
  OBVIOUS
<1> USE SwalAssumption
<1>1. ASSUME NEW n \in 1..MaxAppend, swal_append(n) PROVE TypeOK'
  BY <1>1, AppendType
<1>2. ASSUME NEW n \in 1..MaxAppend, swal_append_fails(n) PROVE TypeOK'
  <2>1. /\ file' \in [0..(max_file_size - 1) -> Int]
        /\ log_file_pos' \in 0..max_file_size /\ torn' \in BOOLEAN
    <3>1. \/ UNCHANGED <<file, log_file_pos, torn>>
          \/ \E m \in 1..(n - 1) : log_file_pos' = 0 /\ file' = Spoiled(m) /\ torn' = TRUE
      BY <1>2 DEF swal_append_fails
    <3>2. CASE UNCHANGED <<file, log_file_pos, torn>>
      BY <3>2 DEF TypeOK
    <3>3. ASSUME NEW m \in 1..(n - 1), log_file_pos' = 0, file' = Spoiled(m), torn' = TRUE
          PROVE  /\ file' \in [0..(max_file_size - 1) -> Int]
                 /\ log_file_pos' \in 0..max_file_size /\ torn' \in BOOLEAN
      <4>1. m \in Nat
        OBVIOUS
      <4>2. QED
        BY <3>3, <4>1, SpoiledType
    <3>4. QED
      BY <3>1, <3>2, <3>3
  <2>2. /\ UNCHANGED <<log_start_offset, log_end_offset, cksm, cksm_from, ring_cache,
                       ring_cache_start_offset, ring_cache_idx, mmap_buf, written, opened, opens>>
        /\ errors' = errors + 1
    BY <1>2 DEF swal_append_fails, cache
  <2>3. errors' \in Nat
    BY <2>2 DEF TypeOK
  <2>4. /\ log_start_offset' \in Nat /\ log_end_offset' \in Nat
        /\ cksm' \in Nat /\ cksm_from' \in Nat
        /\ ring_cache' \in [0..(ring_cache_size - 1) -> Int]
        /\ ring_cache_start_offset' \in Nat /\ ring_cache_idx' \in Nat
        /\ ring_cache_size > 0 => ring_cache_idx' < ring_cache_size
    BY <2>2, Zenon DEF TypeOK
  <2>5. /\ mmap_buf' \in {"NULL", "mapped"}
        /\ written' \in Nat /\ opened' \in 0..written' /\ opens' \in Nat
    BY <2>2, Zenon DEF TypeOK
  <2>6. QED
    BY <2>1, <2>3, <2>4, <2>5, Zenon DEF TypeOK
<1>3. ASSUME NEW offset \in ResetOffsets, swal_reset(offset) PROVE TypeOK'
  <2>1. /\ log_start_offset' = offset /\ log_end_offset' = offset /\ offset \in Nat
        /\ log_file_pos' = 0 /\ cksm' = written /\ cksm_from' = written /\ torn' = FALSE
        /\ UNCHANGED <<file, mmap_buf, ring_cache, written, opened, opens, errors>>
    BY <1>3 DEF swal_reset, cache
  <2>2. /\ ring_cache_size = 0 => UNCHANGED <<ring_cache_start_offset, ring_cache_idx>>
        /\ ring_cache_size # 0 => ring_cache_start_offset' = offset /\ ring_cache_idx' = 0
    BY <1>3, Zenon DEF swal_reset, cache
  <2>3. /\ ring_cache_start_offset' \in Nat /\ ring_cache_idx' \in Nat
        /\ ring_cache_size > 0 => ring_cache_idx' < ring_cache_size
    <3>1. /\ ring_cache_start_offset \in Nat /\ ring_cache_idx \in Nat
          /\ ring_cache_size \in Nat /\ offset \in Nat
      BY <2>1, Zenon DEF TypeOK
    <3>2. QED
      BY ONLY <2>2, <3>1
  <2>4. /\ log_file_pos' \in 0..max_file_size /\ cksm' \in Nat /\ cksm_from' \in Nat
    BY <2>1 DEF TypeOK
  <2>5. QED
    BY <2>1, <2>3, <2>4, Zenon DEF TypeOK
<1>4. ASSUME NEW offset \in log_start_offset..log_end_offset, swal_replay(offset)
      PROVE  TypeOK'
  BY <1>4 DEF TypeOK, swal_replay, meta, cache
<1>5. CASE swal_clear_replay_cache
  BY <1>5 DEF TypeOK, swal_clear_replay_cache, meta, cache
<1>6. CASE swal_open
  BY <1>6, ReopenType DEF TypeOK, swal_open, meta
<1>7. ASSUME NEW n \in 1..MaxAppend, killed_in_append(n) PROVE TypeOK'
  BY <1>7, KilledInAppendType
<1>8. ASSUME NEW offset \in ResetOffsets, killed_in_reset(offset) PROVE TypeOK'
  <2>1. /\ log_start_offset' \in Nat /\ log_end_offset' \in Nat
        /\ log_file_pos' \in 0..max_file_size /\ written' \in Nat
    BY <1>8 DEF TypeOK, killed_in_reset
  <2>2. Reopen /\ torn' = TRUE /\ UNCHANGED <<cksm, cksm_from, file>>
    BY <1>8 DEF killed_in_reset
  <2>3. QED
    BY <2>1, <2>2, ReopenType DEF TypeOK
<1>9. CASE UNCHANGED vars
  BY <1>9 DEF TypeOK, vars, meta, cache
<1>10. QED
  BY <1>1, <1>2, <1>3, <1>4, <1>5, <1>6, <1>7, <1>8, <1>9 DEF Next

\* swal.c keeps its state well typed: positions stay inside their rings.
THEOREM TypeCorrect == Spec => []TypeOK
<1>1. Init => TypeOK
  BY InitType
<1>2. QED
  BY <1>1, NextType, PTL DEF Spec

LEMMA NextWindow == TypeOK /\ WindowOK /\ [Next]_vars => WindowOK'
<1> SUFFICES ASSUME TypeOK, WindowOK, [Next]_vars PROVE WindowOK'
  OBVIOUS
<1> USE SwalAssumption DEF WindowOK
<1>1. ASSUME NEW n \in 1..MaxAppend, swal_append(n) PROVE WindowOK'
  <2> SUFFICES ASSUME ~torn PROVE WindowOK'
    BY <1>1 DEF swal_append
  <2>1. log_file_pos' < max_file_size
    <3>1. log_file_pos \in 0..max_file_size /\ n \in Nat
      BY DEF TypeOK
    <3>2. QED
      BY <1>1, <3>1, AdvanceInRing DEF swal_append
  <2>2. /\ log_start_offset' <= log_end_offset'
        /\ log_end_offset' - log_start_offset' <= max_file_size
        /\ log_end_offset' - log_start_offset' <= cksm' - cksm_from'
        /\ cksm' = written'
    BY <1>1 DEF TypeOK, swal_append, Retain, Minus
  <2>3. QED
    BY <2>1, <2>2
<1>2. ASSUME NEW n \in 1..MaxAppend, swal_append_fails(n) PROVE WindowOK'
  BY <1>2 DEF TypeOK, swal_append_fails
<1>3. ASSUME NEW offset \in ResetOffsets, swal_reset(offset) PROVE WindowOK'
  BY <1>3 DEF TypeOK, swal_reset
<1>4. ASSUME NEW offset \in log_start_offset..log_end_offset, swal_replay(offset)
      PROVE  WindowOK'
  BY <1>4 DEF TypeOK, swal_replay, meta
<1>5. CASE swal_clear_replay_cache
  BY <1>5 DEF TypeOK, swal_clear_replay_cache, meta
<1>6. CASE swal_open
  BY <1>6 DEF TypeOK, swal_open, meta
<1>7. ASSUME NEW n \in 1..MaxAppend, killed_in_append(n) PROVE WindowOK'
  BY <1>7 DEF killed_in_append
<1>8. ASSUME NEW offset \in ResetOffsets, killed_in_reset(offset) PROVE WindowOK'
  BY <1>8 DEF killed_in_reset
<1>9. CASE UNCHANGED vars
  BY <1>9 DEF TypeOK, vars, meta
<1>10. QED
  BY <1>1, <1>2, <1>3, <1>4, <1>5, <1>6, <1>7, <1>8, <1>9 DEF Next

\* The window of offsets that swal_append and swal_reset announce never
\* exceeds the file, whatever is appended, reset, reopened or fails, unless an
\* append or a reset broke off halfway and no reset has been completed since.
THEOREM WindowCorrect == Spec => []WindowOK
<1>1. Init => WindowOK
  BY InitType
<1>2. QED
  BY <1>1, NextWindow, TypeCorrect, PTL DEF Spec
-----------------------------------------------------------------------------
(***************************************************************************)
(* The rings hold what the meta page and the cache announce.               *)
(***************************************************************************)
LEMMA AppendFile ==
  ASSUME TypeOK, WindowOK, FileHoldsWindow, NEW n \in 1..MaxAppend, swal_append(n)
  PROVE  FileHoldsWindow'
<1> USE SwalAssumption
<1> SUFFICES ASSUME ~torn', NEW k \in 1..(log_end_offset' - log_start_offset')
             PROVE  file'[At(log_file_pos', max_file_size, k)] = written' - k
  BY DEF FileHoldsWindow
<1>0. ~torn
  BY DEF swal_append
<1>1. /\ max_file_size \in Nat \ {0} /\ n \in Nat /\ written' \in Int
      /\ log_file_pos \in 0..(max_file_size - 1)
      /\ file \in [0..(max_file_size - 1) -> Int]
  BY <1>0 DEF TypeOK, WindowOK, swal_append
<1>2. /\ k \in 1..max_file_size
      /\ k > n => k - n \in 1..(log_end_offset - log_start_offset)
  BY <1>0 DEF TypeOK, WindowOK, swal_append, Retain, Minus
<1>3. file'[At(log_file_pos', max_file_size, k)] =
        IF k <= n THEN written' - k ELSE file[At(log_file_pos, max_file_size, k - n)]
  <2>1. /\ log_file_pos' = Advance(log_file_pos, max_file_size, n)
        /\ file' = RingWrite(file, max_file_size, log_file_pos', n, written')
    BY DEF swal_append
  <2> DEFINE pos == Advance(log_file_pos, max_file_size, n)
  <2>2. /\ max_file_size \in Nat \ {0} /\ log_file_pos \in 0..(max_file_size - 1) /\ n \in Nat
        /\ written' \in Int /\ file \in [0..(max_file_size - 1) -> Int] /\ k \in 1..max_file_size
    BY <1>1, <1>2
  <2>3. RingWrite(file, max_file_size, pos, n, written')[At(pos, max_file_size, k)] =
          IF k <= n THEN written' - k ELSE file[At(log_file_pos, max_file_size, k - n)]
    BY ONLY <2>2, RingWriteAt, SMTT(30)
  <2>4. QED
    BY <2>1, <2>3, Zenon
<1>4. k > n => file[At(log_file_pos, max_file_size, k - n)] = written - (k - n)
  BY <1>0, <1>2 DEF FileHoldsWindow, swal_append
<1>5. written \in Nat /\ written' = written + n
  BY DEF TypeOK, swal_append
<1>6. QED
  BY <1>1, <1>2, <1>3, <1>4, <1>5

\* What the cache announces dates from after the last reset or from after the
\* last opening.
SinceReset ==
  /\ cksm_from <= written
  /\ \/ ring_cache_size = 0
     \/ opened >= cksm_from
     \/ /\ ring_cache_start_offset <= log_end_offset
        /\ log_end_offset - ring_cache_start_offset <= written - cksm_from

\* The cache holds what was appended since the log was opened and reset.
CacheRing ==
  ring_cache_size > 0 =>
    \A k \in 1..ring_cache_size :
      k <= written - opened /\ k <= written - cksm_from
        => ring_cache[At(ring_cache_idx, ring_cache_size, k)] = written - k

LEMMA AppendCache ==
  ASSUME TypeOK, CacheRing, NEW n \in 1..MaxAppend, swal_append(n)
  PROVE  CacheRing'
<1> USE SwalAssumption
<1> SUFFICES ASSUME ring_cache_size > 0, NEW k \in 1..ring_cache_size,
                    k <= written' - opened', k <= written' - cksm_from'
             PROVE  ring_cache'[At(ring_cache_idx', ring_cache_size, k)] = written' - k
  BY DEF CacheRing
<1>1. /\ ring_cache_size \in Nat \ {0} /\ n \in Nat /\ written' \in Int
      /\ ring_cache_idx \in 0..(ring_cache_size - 1)
      /\ ring_cache \in [0..(ring_cache_size - 1) -> Int]
  BY DEF TypeOK, swal_append
<1>2. k > n => /\ k - n \in 1..ring_cache_size
               /\ k - n <= written - opened
               /\ k - n <= written - cksm_from
  BY DEF TypeOK, swal_append
<1>3. ring_cache'[At(ring_cache_idx', ring_cache_size, k)] =
        IF k <= n THEN written' - k
        ELSE ring_cache[At(ring_cache_idx, ring_cache_size, k - n)]
  <2>1. /\ ring_cache_idx' = Advance(ring_cache_idx, ring_cache_size, n)
        /\ ring_cache' = RingWrite(ring_cache, ring_cache_size, ring_cache_idx', n, written')
    BY DEF swal_append, CacheAppend
  <2>2. k \in 1..ring_cache_size
    OBVIOUS
  <2>3. QED
    BY ONLY <1>1, <2>1, <2>2, RingWriteAt, SMTT(30)
<1>4. k > n => ring_cache[At(ring_cache_idx, ring_cache_size, k - n)] = written - (k - n)
  BY <1>2 DEF CacheRing
<1>5. written \in Nat /\ written' = written + n
  BY DEF TypeOK, swal_append
<1>6. QED
  BY <1>1, <1>3, <1>4, <1>5

LEMMA AppendSince ==
  ASSUME TypeOK, SinceReset, NEW n \in 1..MaxAppend, swal_append(n)
  PROVE  SinceReset'
<1> USE SwalAssumption
<1>1. /\ written' = written + n /\ log_end_offset' = log_end_offset + n
      /\ UNCHANGED <<opened, cksm_from>>
  BY DEF swal_append
<1>2. CASE ring_cache_size = 0
  BY <1>1, <1>2 DEF TypeOK, SinceReset, swal_append, CacheAppend, cache
<1>3. CASE ring_cache_size > 0
  <2>1. ring_cache_start_offset' =
          Retain(ring_cache_start_offset, log_end_offset', ring_cache_size)
    BY <1>3 DEF swal_append, CacheAppend
  <2>2. QED
    BY <1>1, <1>3, <2>1 DEF TypeOK, SinceReset, Retain, Minus
<1>4. QED
  BY <1>2, <1>3 DEF TypeOK

\* Whatever was written before, an opened cache announces nothing that it holds.
LEMMA ReopenCache ==
  ASSUME TypeOK, SinceReset, Reopen, written' \in Nat, written' >= written,
         UNCHANGED cksm_from
  PROVE  CacheRing' /\ SinceReset'
<1>1. opened' = written' /\ cksm_from' = cksm_from /\ cksm_from <= written'
  BY DEF TypeOK, SinceReset, Reopen
<1>2. CacheRing'
  <2> SUFFICES ASSUME NEW k \in 1..ring_cache_size, k <= written' - opened'
               PROVE  FALSE
    BY DEF CacheRing
  <2>1. ring_cache_size \in Nat
    BY SwalAssumption
  <2>2. opened' \in Nat /\ opened' = written'
    BY <1>1
  <2>3. \A w \in Nat, i \in 1..ring_cache_size : ~(i <= w - w)
    BY ONLY <2>1
  <2>4. QED
    BY <2>2, <2>3, Zenon
<1>3. SinceReset'
  BY <1>1 DEF SinceReset
<1>4. QED
  BY <1>2, <1>3

\* The ring cache holds the bytes appended since the log was opened, back to
\* ring_cache_start_offset: for every cache size, through resets, failed
\* writes and reopens after any end of the process.
THEOREM CacheCorrect == Spec => []CacheHoldsTail
<1> DEFINE Inv == SinceReset /\ CacheRing
<1>1. Init => Inv
  BY SwalAssumption DEF Init, SinceReset, CacheRing
<1>2. TypeOK /\ Inv /\ [Next]_vars => Inv'
  <2> SUFFICES ASSUME TypeOK, Inv, [Next]_vars PROVE Inv'
    OBVIOUS
  <2> USE SwalAssumption
  <2>1. ASSUME NEW n \in 1..MaxAppend, swal_append(n) PROVE Inv'
    BY <2>1, AppendCache, AppendSince
  <2>2. ASSUME NEW n \in 1..MaxAppend, swal_append_fails(n) PROVE Inv'
    BY <2>2 DEF SinceReset, CacheRing, swal_append_fails, cache
  <2>3. ASSUME NEW offset \in ResetOffsets, swal_reset(offset) PROVE Inv'
    <3>1. /\ cksm_from' = written /\ written' = written /\ log_end_offset' = offset
          /\ opened' = opened /\ offset \in Nat
          /\ ring_cache_size > 0 => ring_cache_start_offset' = offset
      BY <2>3 DEF swal_reset
    <3>2. CacheRing'
      BY <3>1 DEF TypeOK, CacheRing
    <3>3. SinceReset'
      BY <2>3, <3>1 DEF TypeOK, SinceReset
    <3>4. QED BY <3>2, <3>3
  <2>4. ASSUME NEW offset \in log_start_offset..log_end_offset, swal_replay(offset)
        PROVE  Inv'
    BY <2>4 DEF SinceReset, CacheRing, swal_replay, meta, cache
  <2>5. CASE swal_clear_replay_cache
    BY <2>5 DEF SinceReset, CacheRing, swal_clear_replay_cache, meta, cache
  <2>6. CASE swal_open
    BY <2>6, ReopenCache DEF TypeOK, swal_open, meta
  <2>7. ASSUME NEW n \in 1..MaxAppend, killed_in_append(n) PROVE Inv'
    <3>1. written' \in Nat /\ written' >= written
      BY <2>7 DEF TypeOK, killed_in_append, KilledInWrite, KilledBeforeChecksum
    <3>2. QED
      BY <2>7, <3>1, ReopenCache DEF killed_in_append
  <2>8. ASSUME NEW offset \in ResetOffsets, killed_in_reset(offset) PROVE Inv'
    BY <2>8, ReopenCache DEF TypeOK, killed_in_reset
  <2>9. CASE UNCHANGED vars
    BY <2>9 DEF SinceReset, CacheRing, vars, meta, cache
  <2>10. QED
    BY <2>1, <2>2, <2>3, <2>4, <2>5, <2>6, <2>7, <2>8, <2>9 DEF Next
<1>3. TypeOK /\ Inv => CacheHoldsTail
  BY SwalAssumption DEF TypeOK, SinceReset, CacheRing, CacheHoldsTail
<1>4. QED
  BY <1>1, <1>2, <1>3, TypeCorrect, PTL DEF Spec

\* The log file holds the announced window, for every file size and through any
\* number of reopens, unless an append or a reset broke off halfway and no reset
\* has been completed since (swal_append, swal_reset, swal_open).
THEOREM FileCorrect == Spec => []FileHoldsWindow
<1>1. Init => FileHoldsWindow
  BY SwalAssumption DEF Init, FileHoldsWindow
<1>2. TypeOK /\ WindowOK /\ FileHoldsWindow /\ [Next]_vars => FileHoldsWindow'
  <2> SUFFICES ASSUME TypeOK, WindowOK, FileHoldsWindow, [Next]_vars
               PROVE  FileHoldsWindow'
    OBVIOUS
  <2> USE SwalAssumption
  <2>1. ASSUME NEW n \in 1..MaxAppend, swal_append(n) PROVE FileHoldsWindow'
    BY <2>1, AppendFile
  <2>2. ASSUME NEW n \in 1..MaxAppend, swal_append_fails(n) PROVE FileHoldsWindow'
    <3>1. \/ torn' = TRUE
          \/ UNCHANGED <<file, log_file_pos, torn>>
      BY <2>2 DEF swal_append_fails
    <3>2. QED
      BY <2>2, <3>1 DEF FileHoldsWindow, swal_append_fails
  <2>3. ASSUME NEW offset \in ResetOffsets, swal_reset(offset) PROVE FileHoldsWindow'
    BY <2>3 DEF TypeOK, FileHoldsWindow, swal_reset
  <2>4. ASSUME NEW offset \in log_start_offset..log_end_offset, swal_replay(offset)
        PROVE  FileHoldsWindow'
    BY <2>4 DEF FileHoldsWindow, swal_replay, meta, cache
  <2>5. CASE swal_clear_replay_cache
    BY <2>5 DEF FileHoldsWindow, swal_clear_replay_cache, meta, cache
  <2>6. CASE swal_open
    BY <2>6 DEF FileHoldsWindow, swal_open, meta
  <2>7. ASSUME NEW n \in 1..MaxAppend, killed_in_append(n) PROVE FileHoldsWindow'
    BY <2>7 DEF FileHoldsWindow, killed_in_append
  <2>8. ASSUME NEW offset \in ResetOffsets, killed_in_reset(offset) PROVE FileHoldsWindow'
    BY <2>8 DEF FileHoldsWindow, killed_in_reset
  <2>9. CASE UNCHANGED vars
    BY <2>9 DEF FileHoldsWindow, vars, meta, cache
  <2>10. QED
    BY <2>1, <2>2, <2>3, <2>4, <2>5, <2>6, <2>7, <2>8, <2>9 DEF Next
<1>3. QED
  BY <1>1, <1>2, TypeCorrect, WindowCorrect, PTL DEF Spec
-----------------------------------------------------------------------------
(***************************************************************************)
(* Replay.                                                                 *)
(***************************************************************************)
\* The last len bytes of a ring, written up to idx, are those before byte w.
Holds(ring, size, idx, len, w) ==
  \A k \in 1..len : ring[At(idx, size, k)] = w - k

\* The first n of the len bytes before byte w, oldest first.
Run(w, len, n) == [i \in 1..n |-> w - len + i - 1]

\* If the last len bytes of a ring are the bytes before w, the one or two
\* calls of swal_replay pass exactly the first n of these, oldest first.
LEMMA CallsExact ==
  ASSUME NEW size \in Nat \ {0}, NEW ring \in [0..(size - 1) -> Int],
         NEW idx \in 0..(size - 1), NEW len \in 0..size, NEW n \in 0..len,
         NEW w \in Int,
         Holds(ring, size, idx, len, w)
  PROVE  Joined(Calls(ring, size, At(idx, size, len), n))
           = Run(w, len, n)
<1> DEFINE want == [i \in 1..n |-> w - len + i - 1]
<1>0. PICK start \in Nat : start = At(idx, size, len)
  <2>1. At(idx, size, len) \in Nat
    BY DEF At
  <2>2. QED
    BY <2>1
<1>1. start \in 0..size /\ (idx < len => start = size - len + idx)
                        /\ (idx >= len => start = idx - len)
  BY <1>0 DEF At
<1>2. CASE n <= size - start
  <2>1. Calls(ring, size, start, n) = <<Slice(ring, start, n)>>
    BY <1>2 DEF Calls
  <2>2. Joined(Calls(ring, size, start, n)) = Slice(ring, start, n)
    BY <2>1 DEF Joined
  <2>3. Slice(ring, start, n) = [i \in 1..n |-> ring[start + i - 1]]
    BY <1>1, <1>2 DEF Slice
  <2>4. ASSUME NEW i \in 1..n PROVE ring[start + i - 1] = w - len + i - 1
    <3>1. len - i + 1 \in 1..len /\ start + i - 1 = At(idx, size, len - i + 1)
      BY <1>1, <1>2 DEF At
    <3>2. QED
      BY <3>1 DEF Holds
  <2>5. QED
    BY <1>0, <2>2, <2>3, <2>4 DEF Run
<1>3. CASE ~(n <= size - start)
  <2> DEFINE a == Slice(ring, start, size - start)
             b == Slice(ring, 0, start + n - size)
             m2 == n - (len - idx)
  <2>0. idx < len /\ start = size - len + idx
    BY <1>1, <1>3
  <2>1. /\ idx < len /\ start = size - len + idx /\ start \in 0..(size - 1)
        /\ size - start = len - idx /\ start + n - size = m2 /\ m2 \in 1..idx
    BY <1>3, <2>0
  <2>2. Joined(Calls(ring, size, start, n)) = a \o b
    <3>1. Calls(ring, size, start, n) = <<a, b>>
      BY <1>3, <2>1, SMTT(30) DEF Calls
    <3> HIDE DEF a, b
    <3>2. QED
      BY <3>1 DEF Joined
  <2>3. /\ a \in Seq(Int) /\ Len(a) = len - idx
        /\ \A i \in 1..(len - idx) : a[i] = ring[start + i - 1]
    <3>1. PICK m \in Nat : m = len - idx
      BY <2>0
    <3>2. start + m <= size
      BY <2>1, <3>1
    <3>3. /\ Slice(ring, start, m) \in Seq(Int) /\ Len(Slice(ring, start, m)) = m
          /\ \A i \in 1..m : Slice(ring, start, m)[i] = ring[start + i - 1]
      <4>1. Slice(ring, start, m) = [i \in 1..m |-> ring[start + i - 1]]
        BY <3>2 DEF Slice
      <4>2. \A i \in 1..m : ring[start + i - 1] \in Int
        BY <3>2
      <4>3. QED
        BY ONLY m \in Nat, <4>1, <4>2
    <3>4. a = Slice(ring, start, m)
      BY <2>1, <3>1
    <3> HIDE DEF a
    <3>5. QED
      BY <3>1, <3>3, <3>4
  <2>4. /\ b \in Seq(Int) /\ Len(b) = m2
        /\ \A i \in 1..m2 : b[i] = ring[i - 1]
    <3>0. PICK m \in Nat : m = m2 /\ m <= size
      BY <2>1
    <3>1. /\ Slice(ring, 0, m) \in Seq(Int) /\ Len(Slice(ring, 0, m)) = m
          /\ \A i \in 1..m : Slice(ring, 0, m)[i] = ring[0 + i - 1]
      <4>1. Slice(ring, 0, m) = [i \in 1..m |-> ring[0 + i - 1]]
        BY <3>0 DEF Slice
      <4>2. \A i \in 1..m : ring[0 + i - 1] \in Int
        BY <3>0
      <4>3. QED
        BY ONLY m \in Nat, <4>1, <4>2
    <3>2. b = Slice(ring, 0, m)
      BY <2>1, <3>0
    <3> HIDE DEF b
    <3>3. QED
      BY <3>0, <3>1, <3>2
  <2> HIDE DEF a, b
  <2>5. /\ a \o b \in Seq(Int) /\ Len(a \o b) = n
        /\ \A i \in 1..n : (a \o b)[i] = IF i <= len - idx THEN a[i] ELSE b[i - (len - idx)]
    <3>1. /\ a \o b \in Seq(Int) /\ Len(a \o b) = Len(a) + Len(b)
          /\ \A i \in 1..(Len(a) + Len(b)) :
               (a \o b)[i] = IF i <= Len(a) THEN a[i] ELSE b[i - Len(a)]
      BY ONLY <2>3, <2>4, ConcatProperties, ZenonT(40)
    <3>2. Len(a) = len - idx /\ Len(b) = m2 /\ len - idx + m2 = n
      BY <2>1, <2>3, <2>4
    <3>3. QED
      BY ONLY <3>1, <3>2
  <2>6. ASSUME NEW i \in 1..n
        PROVE  (IF i <= len - idx THEN a[i] ELSE b[i - (len - idx)]) = w - len + i - 1
    <3> DEFINE k == len - i + 1
    <3>1. k \in 1..len /\ ring[At(idx, size, k)] = w - k
      BY DEF Holds
    <3>2. CASE i <= len - idx
      <4>1. a[i] = ring[start + i - 1]
        <5>1. i \in 1..(len - idx)
          BY <3>2, <2>1
        <5>2. \A j \in 1..(len - idx) : a[j] = ring[start + j - 1]
          BY <2>3
        <5> QED BY <5>1, <5>2, Zenon
      <4>2. At(idx, size, k) = start + i - 1
        BY <3>2, <2>1 DEF At
      <4>3. QED BY <4>1, <4>2, <3>1, <3>2
    <3>3. CASE ~(i <= len - idx)
      <4>1. /\ i - (len - idx) \in 1..m2
            /\ At(idx, size, k) = i - (len - idx) - 1
        BY <3>3, <2>1 DEF At
      <4>2. b[i - (len - idx)] = ring[i - (len - idx) - 1]
        BY <4>1, <2>4
      <4>3. QED BY <4>1, <4>2, <3>1, <3>3
    <3>4. QED
      BY <3>2, <3>3
  <2>7. a \o b = want
    <3>1. \A i \in 1..n : (a \o b)[i] = w - len + i - 1
      BY <2>5, <2>6
    <3>2. /\ want \in Seq(Int) /\ Len(want) = n
          /\ \A i \in 1..n : want[i] = w - len + i - 1
      OBVIOUS
    <3> HIDE DEF want
    <3>3. QED
      BY ONLY <2>5, <3>1, <3>2, SeqEqual
  <2>8. QED
    BY <1>0, <2>2, <2>7 DEF Run
<1>4. QED
  BY <1>2, <1>3 DEF Run

\* Once bytes were appended since the opening, the cache reaches back no
\* further than it has slots for.
CacheReach ==
  ~torn /\ ring_cache_size > 0 =>
    /\ ring_cache_start_offset <= log_end_offset
    /\ written > opened => log_end_offset - ring_cache_start_offset <= ring_cache_size

LEMMA ReachCorrect == Spec => []CacheReach
<1>1. Init => CacheReach
  BY SwalAssumption DEF Init, CacheReach
<1>2. TypeOK /\ WindowOK /\ CacheReach /\ [Next]_vars => CacheReach'
  <2> SUFFICES ASSUME TypeOK, WindowOK, CacheReach, [Next]_vars, ~torn', ring_cache_size > 0
               PROVE  CacheReach'
    BY SwalAssumption DEF CacheReach
  <2> USE SwalAssumption DEF TypeOK, CacheReach
  <2>1. ASSUME NEW n \in 1..MaxAppend, swal_append(n) PROVE CacheReach'
    BY <2>1, SMTT(30) DEF swal_append, CacheAppend, Retain, Minus
  <2>2. ASSUME NEW n \in 1..MaxAppend, swal_append_fails(n) PROVE CacheReach'
    BY <2>2 DEF swal_append_fails, cache
  <2>3. ASSUME NEW offset \in ResetOffsets, swal_reset(offset) PROVE CacheReach'
    BY <2>3 DEF swal_reset
  <2>4. ASSUME NEW offset \in log_start_offset..log_end_offset, swal_replay(offset)
        PROVE  CacheReach'
    BY <2>4 DEF swal_replay, meta, cache
  <2>5. CASE swal_clear_replay_cache
    BY <2>5 DEF swal_clear_replay_cache, meta, cache
  <2>6. CASE swal_open
    BY <2>6 DEF swal_open, Reopen, meta, WindowOK
  <2>7. CASE UNCHANGED vars
    BY <2>7 DEF vars, meta, cache
  <2>8. QED
    BY <2>1, <2>2, <2>3, <2>4, <2>5, <2>6, <2>7 DEF Next, killed_in_append, killed_in_reset
<1>3. QED
  BY <1>1, <1>2, TypeCorrect, WindowCorrect, PTL DEF Spec

\* What replays rely on.
RingsOK == TypeOK /\ WindowOK /\ FileHoldsWindow /\ CacheHoldsTail /\ CacheReach

\* A replay is exact if its ring has the bytes and, with a limit, if the code
\* steps back in that ring by the whole distance.
LEMMA ServedExact ==
  ASSUME RingsOK, NEW offset \in log_start_offset..log_end_offset, NEW limit \in Nat,
         Served(offset),
         limit = 0 \/ FromCache(offset) \/ log_end_offset - offset <= log_file_pos
  PROVE  Joined(Replayed(offset, limit)) = Bytes(offset, Total(offset, limit))
<1> USE SwalAssumption DEF RingsOK
<1>0. PICK len : len = log_end_offset - offset
  OBVIOUS
<1>1. PICK n : n = Total(offset, limit)
  OBVIOUS
<1>2. /\ len \in Nat /\ len <= max_file_size
      /\ n \in 0..len /\ (limit = 0 => n = len)
  BY <1>0, <1>1 DEF TypeOK, WindowOK, Total, Served
<1>3. Bytes(offset, n) = Run(written, len, n)
  BY <1>0, <1>1 DEF Bytes, Run
<1>4. CASE FromCache(offset)
  <2>0. len <= log_end_offset - ring_cache_start_offset /\ len <= written - opened
    BY <1>0, <1>2, <1>4 DEF TypeOK, FromCache, Served
  <2>1. /\ ring_cache_size \in Nat \ {0} /\ ring_cache_idx \in 0..(ring_cache_size - 1)
        /\ ring_cache \in [0..(ring_cache_size - 1) -> Int]
        /\ len \in 0..ring_cache_size /\ written \in Int
    BY <1>0, <1>2, <1>4, <2>0 DEF TypeOK, CacheReach, FromCache, Served
  <2>2. Holds(ring_cache, ring_cache_size, ring_cache_idx, len, written)
    <3>1. log_end_offset - ring_cache_start_offset \in Int /\ written - opened \in Int
      BY DEF TypeOK
    <3>2. \A k \in 1..ring_cache_size :
            k <= log_end_offset - ring_cache_start_offset /\ k <= written - opened
              => ring_cache[At(ring_cache_idx, ring_cache_size, k)] = written - k
      BY <2>1 DEF CacheHoldsTail
    <3>3. ASSUME NEW k \in 1..len
          PROVE  ring_cache[At(ring_cache_idx, ring_cache_size, k)] = written - k
      <4>1. /\ k \in 1..ring_cache_size
            /\ k <= log_end_offset - ring_cache_start_offset /\ k <= written - opened
        BY <2>0, <2>1, <3>1
      <4>2. QED
        BY <3>2, <4>1
    <3>4. QED
      BY <3>3 DEF Holds
  <2>3. Replayed(offset, limit) =
          Calls(ring_cache, ring_cache_size, At(ring_cache_idx, ring_cache_size, len), n)
    BY <1>0, <1>1, <1>4 DEF Replayed, CacheStart
  <2>4. Joined(Calls(ring_cache, ring_cache_size, At(ring_cache_idx, ring_cache_size, len), n))
          = Run(written, len, n)
    BY ONLY <1>2, <2>1, <2>2, CallsExact
  <2>5. QED
    BY <1>1, <1>3, <2>3, <2>4
<1>5. CASE ~FromCache(offset)
  <2>1. /\ max_file_size \in Nat \ {0} /\ log_file_pos \in 0..(max_file_size - 1)
        /\ file \in [0..(max_file_size - 1) -> Int]
        /\ len \in 0..max_file_size /\ written \in Int
    BY <1>0, <1>2 DEF TypeOK, WindowOK, Served
  <2>2. Holds(file, max_file_size, log_file_pos, len, written)
    BY <1>0, <1>2 DEF TypeOK, WindowOK, FileHoldsWindow, Holds, Served
  <2>3. FileStart(offset, limit) = At(log_file_pos, max_file_size, len)
    BY <1>0, <1>1, <1>2, <1>5, <2>1 DEF FileStart, At
  <2>4. Replayed(offset, limit) =
          Calls(file, max_file_size, At(log_file_pos, max_file_size, len), n)
    BY <1>1, <1>5, <2>3 DEF Replayed
  <2>5. Joined(Calls(file, max_file_size, At(log_file_pos, max_file_size, len), n))
          = Run(written, len, n)
    BY ONLY <1>2, <2>1, <2>2, CallsExact
  <2>6. QED
    BY <1>1, <1>3, <2>4, <2>5
<1>6. QED
  BY <1>4, <1>5

\* Unlimited replays are exact, whichever ring serves them: after any number
\* of reopens, but for bytes of the cache from before the last one and until
\* the next reset when an append or a reset has broken off halfway.
THEOREM ReplayCorrect == Spec => []ReplayExact
<1>1. RingsOK => ReplayExact
  <2> SUFFICES ASSUME RingsOK, NEW offset \in log_start_offset..log_end_offset, Served(offset)
               PROVE  Joined(Replayed(offset, 0)) = Bytes(offset, log_end_offset - offset)
    BY DEF ReplayExact
  <2>1. Joined(Replayed(offset, 0)) = Bytes(offset, Total(offset, 0))
    BY ServedExact
  <2>2. Total(offset, 0) = log_end_offset - offset
    BY DEF Total
  <2>3. QED
    BY <2>1, <2>2
<1>2. QED
  BY <1>1, TypeCorrect, WindowCorrect, FileCorrect, CacheCorrect, ReachCorrect, PTL DEF RingsOK

\* Limited replays, which feed the slaves, pass the first bytes that follow the
\* offset, for every limit, from the cache and from an unwrapped file, with
\* the exceptions of ReplayCorrect.
THEOREM LimitedReplayCorrect == Spec => []LimitedReplayExact
<1>1. RingsOK => LimitedReplayExact
  BY ServedExact, SwalAssumption DEF LimitedReplayExact
<1>2. QED
  BY <1>1, TypeCorrect, WindowCorrect, FileCorrect, CacheCorrect, ReachCorrect, PTL DEF RingsOK

-----------------------------------------------------------------------------
(***************************************************************************)
(* What Snapshot writes of a length or an integer it reads again.          *)
(***************************************************************************)
\* The bytes w are in the file f, after the first pos of it.
InFile(f, pos, w) ==
  /\ Len(w) \in Nat /\ pos + Len(w) <= Len(f)
  /\ \A i \in 1..Len(w) : f[pos + i] = w[i]

\* A signed number of the width whose highest bit is n.
Fits(v, n) == -n <= v /\ v < n

\* What is written are bytes.
LEMMA LengthBytes ==
  ASSUME NEW len \in Nat, len < 65536 * 65536
  PROVE  RedisWriteLen(len) \in Seq(Byte)
<1>1. CASE len < 64
  <2>1. len \in Byte
    BY <1>1 DEF Byte
  <2> QED
    BY <1>1, <2>1 DEF RedisWriteLen
<1>2. CASE 64 <= len /\ len < 16384
  <2>1. 64 + len \div 256 \in Byte /\ len % 256 \in Byte
    BY <1>2 DEF Byte
  <2> QED
    BY <1>2, <2>1 DEF RedisWriteLen
<1>3. CASE len >= 16384
  <2>1. /\ 128 \in Byte /\ len \div (256 * 65536) \in Byte /\ (len \div 65536) % 256 \in Byte
        /\ (len \div 256) % 256 \in Byte /\ len % 256 \in Byte
    BY DEF Byte
  <2> QED
    BY <1>3, <2>1 DEF RedisWriteLen
<1> QED
  BY <1>1, <1>2, <1>3

LEMMA IntegerBytes ==
  ASSUME NEW v \in Int
  PROVE  EncodeInteger(v) \in Seq(Byte)
<1>1. /\ 192 \in Byte /\ 193 \in Byte /\ 194 \in Byte
      /\ v % 256 \in Byte /\ (v \div 256) % 256 \in Byte
      /\ (v \div 65536) % 256 \in Byte /\ (v \div (256 * 65536)) % 256 \in Byte
  BY DEF Byte
<1> QED
  BY <1>1 DEF EncodeInteger

\* A length that is written is read again, by its own bytes and no others
\* (RedisWriteLen, RedisReadLen); the one that RedisReadLen uses for errors is
\* left out.
THEOREM LengthsSurvive ==
  ASSUME NEW f \in Seq(Byte), NEW pos \in Nat, NEW len \in Nat, len < 65536 * 65536 - 1,
         InFile(f, pos, RedisWriteLen(len))
  PROVE  RedisReadLen(f, pos) = Length(len, pos + Len(RedisWriteLen(len)))
<1> DEFINE w == RedisWriteLen(len)
<1>0. Len(f) \in Nat
  OBVIOUS
<1>1. CASE len < 64
  <2>1. w = <<len>>
    BY <1>1 DEF RedisWriteLen
  <2>2. Len(w) = 1 /\ w[1] = len
    BY <2>1
  <2> HIDE DEF w
  <2>3. pos + 1 <= Len(f) /\ f[pos + 1] = len
    BY <2>2 DEF InFile, w
  <2>4. RedisReadLen(f, pos) = Length(len, pos + 1)
    BY <1>1, <2>3 DEF RedisReadLen, Enough
  <2> QED
    BY <2>2, <2>4 DEF w
<1>2. CASE 64 <= len /\ len < 16384
  <2> DEFINE a == len \div 256
             b == len % 256
  <2>1. a \in Int /\ b \in Int /\ 0 <= a /\ a < 64 /\ a * 256 + b = len
    BY <1>2
  <2>2. w = <<64 + a, b>>
    BY <1>2 DEF RedisWriteLen
  <2> HIDE DEF a, b
  <2>3. Len(w) = 2 /\ w[1] = 64 + a /\ w[2] = b
    BY <2>2
  <2> HIDE DEF w
  <2>4. pos + 2 <= Len(f) /\ f[pos + 1] = 64 + a /\ f[pos + 2] = b
    BY <2>3 DEF InFile, w
  <2>5. RedisReadLen(f, pos) = Length((64 + a - 64) * 256 + b, pos + 2)
    BY <1>0, <2>1, <2>4 DEF RedisReadLen, Enough
  <2>6. (64 + a - 64) * 256 + b = len
    BY <2>1
  <2> QED
    BY <2>3, <2>5, <2>6 DEF w
<1>3. CASE len >= 16384
  <2> DEFINE a == len \div (256 * 65536)
             b == (len \div 65536) % 256
             c == (len \div 256) % 256
             d == len % 256
  <2>1. /\ a \in Int /\ b \in Int /\ c \in Int /\ d \in Int
        /\ ((a * 256 + b) * 256 + c) * 256 + d = len
    OBVIOUS
  <2>2. ~(a = 255 /\ b = 255 /\ c = 255 /\ d = 255)
    OBVIOUS
  <2>3. w = <<128, a, b, c, d>>
    BY <1>3 DEF RedisWriteLen
  <2> HIDE DEF a, b, c, d
  <2>4. Len(w) = 5 /\ w[1] = 128 /\ w[2] = a /\ w[3] = b /\ w[4] = c /\ w[5] = d
    BY <2>3
  <2> HIDE DEF w
  <2>5. /\ pos + 5 <= Len(f) /\ f[pos + 1] = 128
        /\ f[pos + 2] = a /\ f[pos + 3] = b /\ f[pos + 4] = c /\ f[pos + 5] = d
    BY <2>4 DEF InFile, w
  <2>6. Long(f, pos) = len
    BY <2>1, <2>5 DEF Long
  <2>7. ~(\A i \in 2..5 : f[pos + i] = 255)
    BY <2>2, <2>5
  <2>8. RedisReadLen(f, pos) = Length(len, pos + 5)
    BY <1>0, <2>5, <2>6, <2>7 DEF RedisReadLen, Enough
  <2> QED
    BY <2>4, <2>8 DEF w
<1> QED
  BY <1>1, <1>2, <1>3

\* The byte before an integer.
Kind(enctype, pos) == [ok |-> TRUE, encoded |-> TRUE, val |-> enctype, pos |-> pos + 1]

\* An integer of 32 bits comes back: the byte before it says its width, and
\* the bytes after that its value with its sign (EncodeInteger, RedisReadLen,
\* RedisReadInteger).
THEOREM IntegersSurvive ==
  ASSUME NEW f \in Seq(Byte), NEW pos \in Nat, NEW v \in Int, Fits(v, 32768 * 65536),
         InFile(f, pos, EncodeInteger(v))
  PROVE  \E enctype \in 0..2 :
           /\ RedisReadLen(f, pos) = Kind(enctype, pos)
           /\ RedisReadInteger(f, pos + 1, enctype)
                = [ok |-> TRUE, val |-> v, pos |-> pos + Len(EncodeInteger(v))]
<1> DEFINE w == EncodeInteger(v)
           a == v % 256
           b == (v \div 256) % 256
           c == (v \div 65536) % 256
           d == (v \div (256 * 65536)) % 256
<1>0. /\ Len(f) \in Nat
      /\ a \in Int /\ b \in Int /\ c \in Int /\ d \in Int
  OBVIOUS
<1>1. CASE Fits(v, 128)
  <2>1. v = Signed(a)
    BY <1>1 DEF Signed, Fits
  <2>2. w = <<192, a>>
    BY <1>1 DEF EncodeInteger, Fits
  <2> HIDE DEF a, b, c, d
  <2>3. Len(w) = 2 /\ w[1] = 192 /\ w[2] = a
    BY <2>2
  <2> HIDE DEF w
  <2>4. pos + 2 <= Len(f) /\ f[pos + 1] = 192 /\ f[pos + 1 + 1] = a
    BY <2>3 DEF InFile, w
  <2>5. RedisReadLen(f, pos) = Kind(0, pos)
    BY <1>0, <2>4 DEF RedisReadLen, Enough, Kind
  <2>6. RedisReadInteger(f, pos + 1, 0) = [ok |-> TRUE, val |-> v, pos |-> pos + 2]
    BY <1>0, <2>1, <2>4 DEF RedisReadInteger, Enough, Width
  <2> QED
    BY <2>3, <2>5, <2>6 DEF w, Kind
<1>2. CASE ~Fits(v, 128) /\ Fits(v, 32768)
  <2>1. v = a + 256 * Signed(b)
    BY <1>2 DEF Signed, Fits
  <2>2. w = <<193, a, b>>
    BY <1>2 DEF EncodeInteger, Fits
  <2> HIDE DEF a, b, c, d
  <2>3. Len(w) = 3 /\ w[1] = 193 /\ w[2] = a /\ w[3] = b
    BY <2>2
  <2> HIDE DEF w
  <2>4. pos + 3 <= Len(f) /\ f[pos + 1] = 193 /\ f[pos + 1 + 1] = a /\ f[pos + 1 + 2] = b
    BY <2>3 DEF InFile, w
  <2>5. RedisReadLen(f, pos) = Kind(1, pos)
    BY <1>0, <2>4 DEF RedisReadLen, Enough, Kind
  <2>6. RedisReadInteger(f, pos + 1, 1) = [ok |-> TRUE, val |-> v, pos |-> pos + 3]
    BY <1>0, <2>1, <2>4 DEF RedisReadInteger, Enough, Width
  <2> QED
    BY <2>3, <2>5, <2>6 DEF w, Kind
<1>3. CASE ~Fits(v, 32768)
  <2>1. v = a + 256 * b + 65536 * c + 256 * 65536 * Signed(d)
    BY <1>3 DEF Signed, Fits
  <2>2. w = <<194, a, b, c, d>>
    BY <1>3 DEF EncodeInteger, Fits
  <2> HIDE DEF a, b, c, d
  <2>3. Len(w) = 5 /\ w[1] = 194 /\ w[2] = a /\ w[3] = b /\ w[4] = c /\ w[5] = d
    BY <2>2
  <2> HIDE DEF w
  <2>4. pos + 5 <= Len(f) /\ f[pos + 1] = 194 /\ f[pos + 1 + 1] = a /\ f[pos + 1 + 2] = b /\ f[pos + 1 + 3] = c /\ f[pos + 1 + 4] = d
    BY <2>3 DEF InFile, w
  <2>5. RedisReadLen(f, pos) = Kind(2, pos)
    BY <1>0, <2>4 DEF RedisReadLen, Enough, Kind
  <2>6. RedisReadInteger(f, pos + 1, 2) = [ok |-> TRUE, val |-> v, pos |-> pos + 5]
    BY <1>0, <2>1, <2>4 DEF RedisReadInteger, Enough, Width
  <2> QED
    BY <2>3, <2>5, <2>6 DEF w, Kind
<1> QED
  BY <1>1, <1>2, <1>3

-----------------------------------------------------------------------------
(***************************************************************************)
(* The compression of long strings.  Induction over the turns of the two   *)
(* loops has the form of a least counterexample.  A compressed string is   *)
(* looked at run by run: each one, wherever it is in the bytes, is read in *)
(* one turn of lzf_decompress, which then has as much of the string as the *)
(* turns of lzf_compress had taken when they wrote it.                     *)
(***************************************************************************)

\* What is said of every turn of a loop is shown by its least counterexample.
LEMMA LeastNumber ==
  ASSUME NEW T \in SUBSET Nat, T # {}
  PROVE  \E x \in T : \A y \in T : x <= y
<1> DEFINE R == OpToRel(<, Nat)
<1>1. IsWellFoundedOn(R, Nat)
  BY NatLessThanWellFounded, Zenon
<1>2. \A x, y \in Nat : y < x => <<y, x>> \in R
  BY Zenon DEF OpToRel
<1> HIDE DEF R
<1>3. PICK x \in T : \A y \in T : ~(<<y, x>> \in R)
  BY <1>1, WFMin
<1>4. ASSUME NEW y \in T PROVE x <= y
  <2>1. x \in Nat /\ y \in Nat /\ ~(y < x)
    BY <1>2, <1>3
  <2> QED BY <2>1
<1> QED BY <1>4

-----------------------------------------------------------------------------
\* What is there after each turn of a loop: of lzf_compress, or with
\* packing FALSE of lzf_decompress.
Turn(packing, s, out_len, htab, o) ==
  IF packing THEN CompressTurn(s, out_len, htab, o) ELSE DecompressTurn(s, out_len, o)
Start(packing) ==
  IF packing THEN [i |-> 1, out |-> <<>>, run |-> <<>>, full |-> FALSE]
  ELSE [i |-> 1, out |-> <<>>, bad |-> FALSE]
Loop(packing, s, out_len, htab, k, f) ==
  f = [n \in 0..k |-> IF n = 0 THEN Start(packing) ELSE Turn(packing, s, out_len, htab, f[n - 1])]

\* Both loops have a value.
LEMMA LoopExists ==
  ASSUME NEW packing, NEW s, NEW out_len, NEW htab, NEW k \in Nat
  PROVE  \E f : Loop(packing, s, out_len, htab, k, f)
<1> DEFINE Has(n) == \E f : Loop(packing, s, out_len, htab, n, f)
           Lacking == {n \in Nat : ~Has(n)}
<1> SUFFICES ASSUME Lacking # {} PROVE FALSE
  OBVIOUS
<1>1. PICK n \in Lacking : \A m \in Lacking : n <= m
  <2>1. Lacking \in SUBSET Nat
    OBVIOUS
  <2> HIDE DEF Lacking
  <2> QED BY <2>1, LeastNumber
<1> DEFINE After(o) == Turn(packing, s, out_len, htab, o)
<1>2. CASE n = 0
  <2> DEFINE f == [m \in 0..0 |-> Start(packing)]
  <2>1. Loop(packing, s, out_len, htab, 0, f)
    BY DEF Loop
  <2> QED BY <2>1, <1>1, <1>2
<1>3. CASE n # 0
  <2>1. n \in Nat /\ n - 1 \in Nat /\ Has(n - 1)
    <3>1. n \in Nat /\ n - 1 \in Nat /\ n - 1 \notin Lacking
      BY <1>1, <1>3
    <3> QED BY <3>1
  <2>2. PICK g : Loop(packing, s, out_len, htab, n - 1, g)
    BY <2>1
  <2> DEFINE f == [m \in 0..n |-> IF m = n THEN After(g[n - 1]) ELSE g[m]]
  <2>3. ASSUME NEW m \in 0..n
        PROVE  f[m] = IF m = 0 THEN Start(packing) ELSE After(f[m - 1])
    <3>1. CASE m = n
      BY <3>1, <1>3, <2>1
    <3>2. CASE m # n
      <4>1. m \in 0..(n - 1) /\ (m # 0 => m - 1 \in 0..(n - 1))
        BY <3>2, <2>1
      <4>2. g[m] = IF m = 0 THEN Start(packing) ELSE After(g[m - 1])
        BY <4>1, <2>2 DEF Loop
      <4>3. f[m] = g[m] /\ (m # 0 => f[m - 1] = g[m - 1])
        BY <4>1, <3>2, <2>1
      <4> QED BY <4>2, <4>3
    <3> QED BY <3>1, <3>2
  <2>4. f = [m \in 0..n |-> IF m = 0 THEN Start(packing) ELSE After(f[m - 1])]
    <3> DEFINE h == [m \in 0..n |-> IF m = 0 THEN Start(packing) ELSE After(f[m - 1])]
    <3>1. \A m \in 0..n : f[m] = h[m]
      <4> HIDE DEF f
      <4> QED BY <2>3
    <3> QED BY <3>1
  <2>5. Loop(packing, s, out_len, htab, n, f)
    <3> HIDE DEF f
    <3> QED BY <2>4 DEF Loop
  <2> QED BY <2>5, <1>1
<1> QED BY <1>2, <1>3

\* What lzf_compress gives is what its loop has come to.
LEMMA CompressLoop ==
  ASSUME NEW s, NEW out_len, NEW htab, Len(s) \in Nat
  PROVE  \E f : /\ Loop(TRUE, s, out_len, htab, Len(s), f)
                /\ lzf_compress(s, out_len, htab) = Finished(s, out_len, f[Len(s)])
<1> DEFINE g == CHOOSE f : Loop(TRUE, s, out_len, htab, Len(s), f)
<1>1. Loop(TRUE, s, out_len, htab, Len(s), g)
  BY LoopExists
<1>2. lzf_compress(s, out_len, htab) = Finished(s, out_len, g[Len(s)])
  BY DEF lzf_compress, Loop, Turn, Start
<1> HIDE DEF g
<1> QED BY <1>1, <1>2

\* So it is for lzf_decompress.
LEMMA DecompressLoop ==
  ASSUME NEW c, NEW out_len, Len(c) \in Nat
  PROVE  \E f : /\ Loop(FALSE, c, out_len, <<>>, Len(c), f)
                /\ lzf_decompress(c, out_len) = IF f[Len(c)].bad THEN <<>> ELSE f[Len(c)].out
<1> DEFINE g == CHOOSE f : Loop(FALSE, c, out_len, <<>>, Len(c), f)
<1>1. Loop(FALSE, c, out_len, <<>>, Len(c), g)
  BY LoopExists
<1>2. lzf_decompress(c, out_len) = IF g[Len(c)].bad THEN <<>> ELSE g[Len(c)].out
  BY DEF lzf_decompress, Loop, Turn, Start
<1> HIDE DEF g
<1> QED BY <1>1, <1>2
-----------------------------------------------------------------------------
\* Whatever follows the bytes c, the turns of lzf_decompress that read them
\* have made t.
Going(i, out) == [i |-> i, out |-> out, bad |-> FALSE]
Decodes(c, t) ==
  /\ c \in Seq(Byte) /\ t \in Seq(Byte)
  /\ \A w \in Seq(Byte), l \in Nat : \A f :
       Len(t) <= l /\ Loop(FALSE, c \o w, l, <<>>, Len(c \o w), f)
         => \E m \in 0..Len(c) : f[m] = Going(Len(c) + 1, t)

\* Before the first run lzf_decompress has made nothing.
LEMMA DecodesNothing == Decodes(<<>>, <<>>)
<1>1. <<>> \in Seq(Byte) /\ Len(<<>>) = 0 /\ 0 \in 0..0 /\ 0 + 1 = 1
  BY EmptySeq
<1>2. ASSUME NEW d, NEW l, NEW f, Loop(FALSE, d, l, <<>>, Len(d), f), Len(d) \in Nat
      PROVE  f[0] = Going(1, <<>>)
  BY <1>2 DEF Loop, Start, Going
<1>3. ASSUME NEW w \in Seq(Byte) PROVE Len(<<>> \o w) \in Nat
  <2>1. <<>> \o w = w
    BY ConcatEmptySeq
  <2> QED BY <2>1
<1>4. ASSUME NEW w \in Seq(Byte), NEW l \in Nat, NEW f,
             Loop(FALSE, <<>> \o w, l, <<>>, Len(<<>> \o w), f)
      PROVE  \E m \in 0..Len(<<>>) : f[m] = Going(Len(<<>>) + 1, <<>>)
  <2>1. f[0] = Going(1, <<>>)
    BY <1>2, <1>3, <1>4
  <2>2. 0 \in 0..Len(<<>>) /\ Len(<<>>) + 1 = 1
    BY <1>1
  <2> QED BY <2>1, <2>2, Zenon
<1>5. \A w \in Seq(Byte), l \in Nat : \A f :
        Len(<<>>) <= l /\ Loop(FALSE, <<>> \o w, l, <<>>, Len(<<>> \o w), f)
          => \E m \in 0..Len(<<>>) : f[m] = Going(Len(<<>>) + 1, <<>>)
  BY <1>4, Zenon
<1> QED BY <1>1, <1>5, Zenon DEF Decodes

\* Bytes may be grouped in any way.
LEMMA BytesAssociate ==
  \A x, y, z \in Seq(Byte) : (x \o y) \o z = x \o (y \o z)
BY ConcatAssociative

\* One more turn, which reads the bytes a.
LEMMA DecodesMore ==
  ASSUME NEW c, NEW t, Decodes(c, t),
         NEW a \in Seq(Byte), a # <<>>, NEW u \in Seq(Byte), Len(t) <= Len(u),
         \A w \in Seq(Byte), l \in Nat :
           Len(u) <= l => DecompressTurn(c \o (a \o w), l, Going(Len(c) + 1, t))
                            = Going(Len(c) + Len(a) + 1, u)
  PROVE  Decodes(c \o a, u)
<1>1. c \in Seq(Byte) /\ t \in Seq(Byte) /\ Len(t) \in Nat /\ Len(c) \in Nat /\ Len(u) \in Nat
      /\ Len(a) \in Nat \ {0}
  BY EmptySeq DEF Decodes
<1>2. c \o a \in Seq(Byte) /\ Len(c \o a) = Len(c) + Len(a)
  BY <1>1, ConcatProperties
<1>3. ASSUME NEW w \in Seq(Byte), NEW l \in Nat, NEW f, Len(u) <= l,
             Loop(FALSE, (c \o a) \o w, l, <<>>, Len((c \o a) \o w), f)
      PROVE  \E m \in 0..Len(c \o a) : f[m] = Going(Len(c \o a) + 1, u)
  <2>1. (c \o a) \o w = c \o (a \o w) /\ a \o w \in Seq(Byte) /\ Len(w) \in Nat
    <3>1. (c \o a) \o w = c \o (a \o w)
      <4>1. c \in Seq(Byte)
        BY <1>1
      <4>2. a \in Seq(Byte)
        OBVIOUS
      <4>3. w \in Seq(Byte)
        OBVIOUS
      <4> QED BY <4>1, <4>2, <4>3, BytesAssociate
    <3>2. a \o w \in Seq(Byte)
      BY ConcatProperties
    <3> QED BY <3>1, <3>2
  <2>2. Len(c \o (a \o w)) = Len(c) + Len(a) + Len(w)
    BY <1>1, <2>1, ConcatProperties
  <2>3. PICK m \in 0..Len(c) : f[m] = Going(Len(c) + 1, t)
    <3>1. Len(t) <= l
      BY <1>1, <1>3
    <3> QED BY <3>1, <1>3, <2>1 DEF Decodes
  <2>4. m + 1 \in 0..Len(c \o (a \o w)) /\ m + 1 # 0 /\ (m + 1) - 1 = m /\ m + 1 \in 0..Len(c \o a)
    BY <1>1, <1>2, <2>1, <2>2
  <2>5. f[m + 1] = Turn(FALSE, c \o (a \o w), l, <<>>, f[m])
    <3> DEFINE k == Len(c \o (a \o w))
    <3>1. f = [n \in 0..k |-> IF n = 0 THEN Start(FALSE) ELSE Turn(FALSE, c \o (a \o w), l, <<>>, f[n - 1])]
      BY <1>3, <2>1 DEF Loop
    <3>2. m + 1 \in 0..k
      BY <2>4
    <3> HIDE DEF k
    <3> QED BY <3>1, <3>2, <2>4
  <2>6. f[m + 1] = Going(Len(c) + Len(a) + 1, u)
    BY <1>3, <2>3, <2>5 DEF Turn
  <2> QED BY <1>2, <2>4, <2>6
<1>4. \A w \in Seq(Byte), l \in Nat : \A f :
        Len(u) <= l /\ Loop(FALSE, (c \o a) \o w, l, <<>>, Len((c \o a) \o w), f)
          => \E m \in 0..Len(c \o a) : f[m] = Going(Len(c \o a) + 1, u)
  BY <1>3
<1>5. c \o a \in Seq(Byte) /\ u \in Seq(Byte)
  BY <1>2
<1> QED BY <1>4, <1>5 DEF Decodes

\* The bytes a between others.
LEMMA Middle ==
  ASSUME NEW c \in Seq(Byte), NEW a \in Seq(Byte), NEW w \in Seq(Byte)
  PROVE  LET d == c \o (a \o w)
         IN  /\ d \in Seq(Byte) /\ Len(d) = Len(c) + Len(a) + Len(w) /\ Len(w) \in Nat
             /\ \A j \in 1..Len(a) : d[Len(c) + j] = a[j]
<1> DEFINE d == c \o (a \o w)
<1>1. /\ a \o w \in Seq(Byte) /\ Len(a \o w) = Len(a) + Len(w)
      /\ Len(w) \in Nat /\ Len(a) \in Nat /\ Len(c) \in Nat
      /\ \A j \in 1..(Len(a) + Len(w)) : (a \o w)[j] = IF j <= Len(a) THEN a[j] ELSE w[j - Len(a)]
  BY ConcatProperties
<1>2. /\ d \in Seq(Byte) /\ Len(d) = Len(c) + Len(a \o w)
      /\ \A j \in 1..(Len(c) + Len(a \o w)) : d[j] = IF j <= Len(c) THEN c[j] ELSE (a \o w)[j - Len(c)]
  BY <1>1, ConcatProperties
<1> HIDE DEF d
<1>3. ASSUME NEW j \in 1..Len(a) PROVE d[Len(c) + j] = a[j]
  <2>1. Len(c) + j \in 1..(Len(c) + Len(a \o w)) /\ ~(Len(c) + j <= Len(c)) /\ (Len(c) + j) - Len(c) = j
        /\ j \in 1..(Len(a) + Len(w)) /\ j <= Len(a)
    BY <1>1
  <2> QED BY <2>1, <1>1, <1>2
<1> QED BY <1>1, <1>2, <1>3 DEF d

\* A run of literals is read as such.
LEMMA DecodesRun ==
  ASSUME NEW c, NEW t, Decodes(c, t), NEW run \in Seq(Byte), Len(run) <= MAX_LIT
  PROVE  Decodes(Closed(c, run), t \o run)
<1>1. c \in Seq(Byte) /\ t \in Seq(Byte) /\ Len(t) \in Nat /\ Len(c) \in Nat /\ Len(run) \in Nat
  BY DEF Decodes
<1>2. CASE run = <<>>
  <2>1. t \o run = t
    BY <1>1, <1>2, ConcatEmptySeq
  <2> QED BY <1>2, <2>1 DEF Closed
<1>3. CASE run # <<>>
  <2> DEFINE n == Len(run) - 1
             head == <<n>>
             a == head \o run
             u == t \o run
  <2> HIDE DEF head, a, u
  <2>1. n \in 0..31 /\ n \in Byte /\ Len(run) = n + 1
    <3>1. Len(run) \in Nat \ {0}
      BY <1>3, EmptySeq
    <3>2. Len(run) <= 32
      BY DEF MAX_LIT
    <3>3. \A k \in Nat \ {0} : k <= 32 => k - 1 \in 0..31 /\ k - 1 \in 0..255 /\ k = (k - 1) + 1
      OBVIOUS
    <3> QED BY <3>1, <3>2, <3>3, Zenon DEF Byte
  <2> USE DEF head, a, u
  <2> HIDE DEF n
  <2>2. head \in Seq(Byte) /\ Len(head) = 1 /\ head[1] = n
    BY <2>1
  <2> HIDE DEF head
  <2>3. /\ a \in Seq(Byte) /\ Len(a) = n + 2 /\ a # <<>>
        /\ a[1] = n /\ \A j \in 1..Len(run) : a[j + 1] = run[j]
    <3>1. /\ a \in Seq(Byte) /\ Len(a) = 1 + Len(run)
          /\ \A i \in 1..1 + Len(run) : a[i] = IF i <= 1 THEN head[i] ELSE run[i - 1]
      BY <2>2, ConcatProperties, SMTT(30)
    <3> HIDE DEF a
    <3>2. a # <<>>
      BY <3>1, <1>1, EmptySeq
    <3> QED BY <3>1, <3>2, <2>1, <2>2
  <2>4. u \in Seq(Byte) /\ Len(u) = Len(t) + Len(run)
    BY <1>1, ConcatProperties
  <2> HIDE DEF a, u
  <2>5. ASSUME NEW w \in Seq(Byte), NEW l \in Nat, Len(u) <= l
        PROVE  DecompressTurn(c \o (a \o w), l, Going(Len(c) + 1, t)) = Going(Len(c) + Len(a) + 1, u)
    <3> DEFINE d == c \o (a \o w)
               i == Len(c) + 1
    <3>1. /\ d \in Seq(Byte) /\ Len(d) = Len(c) + Len(a) + Len(w) /\ Len(w) \in Nat
          /\ \A j \in 1..Len(a) : d[Len(c) + j] = a[j]
      BY <1>1, <2>3, Middle
    <3> HIDE DEF d
    <3>2. d[i] = n /\ i \in Nat /\ i <= Len(d)
      BY <3>1, <2>1, <2>3, <1>1
    <3>3. SubSeq(d, i + 1, i + n + 1) = run
      <4> DEFINE r == SubSeq(d, i + 1, i + n + 1)
      <4>1. \A j \in (i + 1)..(i + n + 1) : d[j] \in Byte
        <5>1. d \in [1..Len(d) -> Byte]
          BY <3>1, LenProperties
        <5>2. ASSUME NEW j \in (i + 1)..(i + n + 1) PROVE j \in 1..Len(d)
          BY <3>1, <2>1, <2>3, <1>1
        <5> HIDE DEF i
        <5> QED BY <5>1, <5>2
      <4>2. /\ r \in Seq(Byte) /\ Len(r) = n + 1
            /\ \A j \in 1..(n + 1) : r[j] = d[i + 1 + j - 1]
        <5>1. i + 1 \in Int /\ i + n + 1 \in Int /\ i + 1 <= i + n + 1 /\ (i + n + 1) - (i + 1) + 1 = n + 1
          BY <2>1, <3>2
        <5>2. /\ r \in Seq(Byte) /\ Len(r) = IF i + 1 <= i + n + 1 THEN (i + n + 1) - (i + 1) + 1 ELSE 0
              /\ \A j \in 1..((i + n + 1) - (i + 1) + 1) : r[j] = d[i + 1 + j - 1]
          BY <4>1, <5>1, SubSeqProperties
        <5> HIDE DEF r, i
        <5> QED BY <5>1, <5>2
      <4> HIDE DEF r
      <4>3. ASSUME NEW j \in 1..Len(run) PROVE r[j] = run[j]
        <5>1. j \in 1..(n + 1) /\ i + 1 + j - 1 = Len(c) + (j + 1) /\ j + 1 \in 1..Len(a)
          BY <2>1, <2>3, <1>1
        <5>2. r[j] = d[Len(c) + (j + 1)]
          BY <4>2, <5>1
        <5> QED BY <5>1, <5>2, <3>1, <2>3
      <4> QED BY <4>2, <4>3, <2>1, SeqEqual DEF r
    <3>4. n < 32 /\ n \in Nat /\ ~(Len(t) + n + 1 > l) /\ ~(i + n + 1 > Len(d)) /\ ~(i > Len(d))
      BY <2>1, <2>3, <2>4, <2>5, <3>1, <3>2, <1>1
    <3>5. DecompressTurn(d, l, Going(i, t)) = Going(i + n + 2, t \o run)
      <4> HIDE DEF i
      <4> QED BY <3>2, <3>3, <3>4 DEF DecompressTurn, Going
    <3>6. i + n + 2 = Len(c) + Len(a) + 1
      BY <2>1, <2>3, <1>1
    <3> QED BY <3>5, <3>6 DEF d, u
  <2>6. Len(t) <= Len(u)
    BY <2>4, <1>1
  <2>7. Decodes(c \o a, u)
    BY <2>3, <2>4, <2>5, <2>6, DecodesMore
  <2>8. c \o a = Closed(c, run)
    <3>1. c \o <<n>> \o run = c \o (<<n>> \o run)
      BY <1>1, <2>2, ConcatAssociative DEF head
    <3> QED BY <3>1, <1>3 DEF Closed, a, head, n
  <2> QED BY <2>7, <2>8 DEF u
<1> QED BY <1>2, <1>3
-----------------------------------------------------------------------------
\* A length and an offset that a reference can have.
RefSize(len, off) == len \in 3..MAX_REF /\ off \in 0..(MAX_OFF - 1)

\* The bytes of a reference say its length and how far back it is.
LEMMA RefBytes ==
  ASSUME NEW len, NEW off, RefSize(len, off)
  PROVE  LET a == BackRef(len, off)
         IN  /\ a \in Seq(Byte) /\ a # <<>> /\ a[1] >= 32
             /\ \/ /\ Len(a) = 2 /\ a[1] \div 32 # 7 /\ a[1] \div 32 + 2 + 0 = len
                   /\ (a[1] % 32) * 256 + a[2] + 1 = off + 1
                \/ /\ Len(a) = 3 /\ a[1] \div 32 = 7 /\ a[1] \div 32 + 2 + a[2] = len
                   /\ (a[1] % 32) * 256 + a[3] + 1 = off + 1
<1> DEFINE a == BackRef(len, off)
           high == off \div 256
           low == off % 256
<1>1. high \in 0..31 /\ low \in 0..255 /\ high * 256 + low = off
  BY DEF RefSize, MAX_OFF
<1>0. len \in 3..264
  BY DEF RefSize, MAX_REF
<1>2. CASE len < 9
  <2> DEFINE b == high + 32 * (len - 2)
  <2>1. a = <<b, low>>
    BY <1>2 DEF BackRef
  <2> HIDE DEF high, low
  <2>2. /\ b \in 0..255 /\ b >= 32 /\ b \div 32 = len - 2 /\ b % 32 = high
        /\ len - 2 # 7 /\ (len - 2) + 2 + 0 = len
    BY <1>0, <1>1, <1>2
  <2> HIDE DEF b
  <2>3. b \in Byte /\ low \in Byte
    BY <1>1, <2>2 DEF Byte
  <2> HIDE DEF a
  <2>4. a \in Seq(Byte) /\ a # <<>> /\ Len(a) = 2 /\ a[1] = b /\ a[2] = low
    BY <2>1, <2>3
  <2> QED BY <1>1, <2>2, <2>4 DEF a
<1>3. CASE len >= 9
  <2> DEFINE b == high + 224
             m == len - 9
  <2>1. a = <<b, m, low>>
    BY <1>0, <1>3 DEF BackRef
  <2> HIDE DEF high, low
  <2>2. /\ b \in 0..255 /\ b >= 32 /\ b \div 32 = 7 /\ b % 32 = high
        /\ m \in 0..255 /\ 7 + 2 + m = len
    BY <1>0, <1>1, <1>3
  <2> HIDE DEF b, m
  <2>3. b \in Byte /\ low \in Byte /\ m \in Byte
    BY <1>1, <2>2 DEF Byte
  <2> HIDE DEF a
  <2>4. a \in Seq(Byte) /\ a # <<>> /\ Len(a) = 3 /\ a[1] = b /\ a[2] = m /\ a[3] = low
    BY <2>1, <2>3
  <2> QED BY <1>1, <2>2, <2>4 DEF a
<1> QED BY <1>0, <1>2, <1>3

\* A copy that is made of bytes is made of bytes, also where it reaches into itself.
LEMMA CopiedBytes ==
  ASSUME NEW t \in Seq(Byte), NEW dist \in 1..Len(t), NEW n \in Nat
  PROVE  /\ Copied(t, dist, n) \in Seq(Byte) /\ Len(Copied(t, dist, n)) = n
         /\ \A j \in 1..n : Copied(t, dist, n)[j] = t[Len(t) - dist + 1 + ((j - 1) % dist)]
<1>1. t \in [1..Len(t) -> Byte] /\ Len(t) \in Nat
  BY LenProperties
<1>2. ASSUME NEW j \in 1..n PROVE Len(t) - dist + 1 + ((j - 1) % dist) \in 1..Len(t)
  <2>1. dist \in Nat /\ dist > 0 /\ j - 1 \in Nat /\ dist <= Len(t)
    BY <1>1
  <2>2. (j - 1) % dist \in 0..(dist - 1)
    BY <2>1
  <2> QED BY <2>1, <2>2, <1>1
<1>3. Copied(t, dist, n) \in [1..n -> Byte]
  BY <1>1, <1>2 DEF Copied
<1>4. Copied(t, dist, n) \in Seq(Byte) /\ Len(Copied(t, dist, n)) = n
  BY <1>3
<1> QED BY <1>4 DEF Copied

\* At byte i of d there is a reference of len bytes, dist back, whose last
\* byte is at; for which there is room.
HasRef(d, l, i, t, at, len, dist) ==
  /\ at = (IF d[i] \div 32 = 7 THEN i + 2 ELSE i + 1)
  /\ len = d[i] \div 32 + 2 + (IF d[i] \div 32 = 7 THEN d[i + 1] ELSE 0)
  /\ dist = (d[i] % 32) * 256 + d[at] + 1
  /\ ~(i > Len(d)) /\ ~(d[i] < 32)
  /\ ~(at > Len(d)) /\ ~(Len(t) + len > l) /\ ~(dist > Len(t))

\* Such a reference is read in one turn.
LEMMA RefTurn ==
  ASSUME NEW d, NEW l, NEW i, NEW t, NEW at, NEW len, NEW dist, HasRef(d, l, i, t, at, len, dist)
  PROVE  DecompressTurn(d, l, Going(i, t)) = Going(at + 1, t \o Copied(t, dist, len))
<1> DEFINE o == Going(i, t)
<1>1. o.i = i /\ o.out = t /\ o.bad = FALSE
  BY DEF Going
<1> HIDE DEF o
<1>2. DecompressTurn(d, l, o) = [i |-> at + 1, out |-> t \o Copied(t, dist, len), bad |-> FALSE]
  BY <1>1 DEF DecompressTurn, HasRef
<1> QED BY <1>2 DEF o, Going

\* A reference is read as the bytes it stands for.
LEMMA DecodesRef ==
  ASSUME NEW c, NEW t, Decodes(c, t), NEW len, NEW off, RefSize(len, off), off + 1 <= Len(t)
  PROVE  Decodes(c \o BackRef(len, off), t \o Copied(t, off + 1, len))
<1> DEFINE a == BackRef(len, off)
           more == Copied(t, off + 1, len)
           u == t \o more
<1>1. c \in Seq(Byte) /\ t \in Seq(Byte) /\ Len(t) \in Nat /\ Len(c) \in Nat
  BY DEF Decodes
<1>0. len \in Nat /\ off \in Nat
  BY DEF RefSize, MAX_REF, MAX_OFF
<1>2. more \in Seq(Byte) /\ Len(more) = len
  <2>1. off + 1 \in 1..Len(t) /\ len \in Nat
    BY <1>0, <1>1
  <2> HIDE DEF u
  <2> QED BY <1>1, <2>1, CopiedBytes
<1>3. u \in Seq(Byte) /\ Len(u) = Len(t) + len
  BY <1>1, <1>2, ConcatProperties
<1>4. /\ a \in Seq(Byte) /\ a # <<>> /\ a[1] >= 32
      /\ \/ /\ Len(a) = 2 /\ a[1] \div 32 # 7 /\ a[1] \div 32 + 2 + 0 = len
            /\ (a[1] % 32) * 256 + a[2] + 1 = off + 1
         \/ /\ Len(a) = 3 /\ a[1] \div 32 = 7 /\ a[1] \div 32 + 2 + a[2] = len
            /\ (a[1] % 32) * 256 + a[3] + 1 = off + 1
  BY RefBytes
<1> HIDE DEF a
<1>5. ASSUME NEW w \in Seq(Byte), NEW l \in Nat, Len(u) <= l
      PROVE  DecompressTurn(c \o (a \o w), l, Going(Len(c) + 1, t)) = Going(Len(c) + Len(a) + 1, u)
  <2> DEFINE d == c \o (a \o w)
             i == Len(c) + 1
  <2>1. /\ d \in Seq(Byte) /\ Len(d) = Len(c) + Len(a) + Len(w) /\ Len(w) \in Nat
        /\ \A j \in 1..Len(a) : d[Len(c) + j] = a[j]
    BY <1>1, <1>4, Middle
  <2> HIDE DEF d
  <2>2. ~(Len(t) + len > l) /\ ~(off + 1 > Len(t)) /\ len \in Nat /\ off + 1 \in Nat
    BY <1>0, <1>1, <1>3, <1>5
  <2>3. a[1] \in Byte /\ a[1] \in Int /\ ~(a[1] < 32)
    <3>1. a \in [1..Len(a) -> Byte] /\ 1 \in 1..Len(a)
      BY <1>4, LenProperties
    <3>2. a[1] \in Byte
      BY <3>1
    <3>3. \A b \in Byte : b \in Int
      BY DEF Byte
    <3>4. \A b \in Int : b >= 32 => ~(b < 32)
      OBVIOUS
    <3> QED BY <3>2, <3>3, <3>4, <1>4
  <2>4. CASE Len(a) = 2
    <3>1. d[i] = a[1] /\ d[i + 1] = a[2] /\ i <= Len(d) /\ i + 1 <= Len(d) /\ i \in Nat
      BY <2>1, <2>4, <1>1
    <3>2. /\ a[1] \div 32 # 7 /\ a[1] \div 32 + 2 + 0 = len
          /\ (a[1] % 32) * 256 + a[2] + 1 = off + 1
      BY <1>4, <2>4
    <3>3. DecompressTurn(d, l, Going(i, t)) = Going(i + 1 + 1, u)
      <4>1. ~(i + 1 > Len(d)) /\ ~(i > Len(d))
        BY <3>1, <2>1, <1>1
      <4> HIDE DEF i, u
      <4>2. /\ i + 1 = IF d[i] \div 32 = 7 THEN i + 2 ELSE i + 1
            /\ len = d[i] \div 32 + 2 + (IF d[i] \div 32 = 7 THEN d[i + 1] ELSE 0)
            /\ off + 1 = (d[i] % 32) * 256 + d[i + 1] + 1
        BY <3>1, <3>2
      <4>3. ~(d[i] < 32)
        BY <3>1, <2>3
      <4>4. DecompressTurn(d, l, Going(i, t)) = Going(i + 1 + 1, t \o Copied(t, off + 1, len))
        <5>1. HasRef(d, l, i, t, i + 1, len, off + 1)
          BY <2>2, <4>1, <4>2, <4>3 DEF HasRef
        <5> QED BY <5>1, RefTurn
      <4> QED BY <4>4 DEF u, more
    <3>4. i + 1 + 1 = Len(c) + Len(a) + 1
      BY <2>4, <1>1
    <3> QED BY <3>3, <3>4 DEF d
  <2>5. CASE Len(a) = 3
    <3>1. /\ d[i] = a[1] /\ d[i + 1] = a[2] /\ d[i + 2] = a[3]
          /\ i <= Len(d) /\ i + 2 <= Len(d) /\ i \in Nat
      BY <2>1, <2>5, <1>1
    <3>2. /\ a[1] \div 32 = 7 /\ a[1] \div 32 + 2 + a[2] = len
          /\ (a[1] % 32) * 256 + a[3] + 1 = off + 1
      BY <1>4, <2>5
    <3>3. DecompressTurn(d, l, Going(i, t)) = Going(i + 2 + 1, u)
      <4>1. ~(i + 2 > Len(d)) /\ ~(i > Len(d))
        BY <3>1, <2>1, <1>1
      <4> HIDE DEF i, u
      <4>2. /\ i + 2 = IF d[i] \div 32 = 7 THEN i + 2 ELSE i + 1
            /\ len = d[i] \div 32 + 2 + (IF d[i] \div 32 = 7 THEN d[i + 1] ELSE 0)
            /\ off + 1 = (d[i] % 32) * 256 + d[i + 2] + 1
        BY <3>1, <3>2
      <4>3. ~(d[i] < 32)
        BY <3>1, <2>3
      <4>4. DecompressTurn(d, l, Going(i, t)) = Going(i + 2 + 1, t \o Copied(t, off + 1, len))
        <5>1. HasRef(d, l, i, t, i + 2, len, off + 1)
          BY <2>2, <4>1, <4>2, <4>3 DEF HasRef
        <5> QED BY <5>1, RefTurn
      <4> QED BY <4>4 DEF u, more
    <3>4. i + 2 + 1 = Len(c) + Len(a) + 1
      BY <2>5, <1>1
    <3> QED BY <3>3, <3>4 DEF d
  <2> QED BY <2>4, <2>5, <1>4
<1>6. Len(t) <= Len(u)
  BY <1>0, <1>1, <1>3
<1> HIDE DEF u
<1>7. Decodes(c \o a, u)
  BY <1>3, <1>4, <1>5, <1>6, DecodesMore
<1> QED BY <1>7 DEF a, u
-----------------------------------------------------------------------------
\* The n bytes at i are those at ref.
Same(s, i, ref, n) == \A j \in 0..(n - 1) : s[ref + j] = s[i + j]

\* What lzf_compress takes for a match is one, within the string.
LEMMA MatchIsOne ==
  ASSUME NEW s \in Seq(Byte), NEW i \in Nat, NEW ref \in Int, Refers(s, i, ref)
  PROVE  LET n == Match(s, i, ref)
         IN  /\ n \in 3..MAX_REF /\ i + n - 1 <= Len(s)
             /\ Same(s, i, ref, n)
<1> DEFINE maxlen == IF Len(s) - i - 1 > MAX_REF THEN MAX_REF ELSE Len(s) - i - 1
           most == IF maxlen \in 17..18 THEN 19 ELSE maxlen
           Stops(n) == n = most \/ s[ref + n] # s[i + n]
           Stop == {n \in 3..most : Stops(n)}
           Is(n) == (\A j \in 3..(n - 1) : s[ref + j] = s[i + j]) /\ Stops(n)
<1>1. Len(s) \in Nat /\ i + 3 < Len(s) /\ MAX_REF = 264
  BY DEF Refers, MAX_REF
<1>2. most \in 3..MAX_REF /\ i + most - 1 <= Len(s)
  <2>1. maxlen \in 3..264 /\ i + maxlen + 1 <= Len(s)
    <3>1. \A l, k \in Nat : k + 3 < l /\ l - k - 1 > 264 => 264 \in 3..264 /\ k + 264 + 1 <= l
      OBVIOUS
    <3>2. \A l, k \in Nat : k + 3 < l /\ ~(l - k - 1 > 264) => l - k - 1 \in 3..264 /\ k + (l - k - 1) + 1 <= l
      OBVIOUS
    <3>3. CASE Len(s) - i - 1 > 264
      <4>1. maxlen = 264
        BY <1>1, <3>3
      <4> HIDE DEF maxlen
      <4> QED BY <1>1, <3>1, <3>3, <4>1
    <3>4. CASE ~(Len(s) - i - 1 > 264)
      <4>1. maxlen = Len(s) - i - 1
        BY <1>1, <3>4
      <4> HIDE DEF maxlen
      <4> QED BY <1>1, <3>2, <3>4, <4>1
    <3> QED BY <3>3, <3>4
  <2> HIDE DEF maxlen
  <2> QED BY <1>1, <2>1
<1>3. Match(s, i, ref) = CHOOSE n \in 3..most : Is(n)
  BY DEF Match
<1> HIDE DEF most, maxlen
<1>4. \E n \in 3..most : Is(n)
  <2>1. Stop \in SUBSET Nat
    BY <1>1, <1>2
  <2>2. most \in Stop
    BY <1>1, <1>2
  <2> HIDE DEF Stop
  <2>3. PICK n \in Stop : \A k \in Stop : n <= k
    BY <2>1, <2>2, LeastNumber
  <2> USE DEF Stop
  <2>4. ASSUME NEW j \in 3..(n - 1) PROVE s[ref + j] = s[i + j]
    <3>1. j \in 3..most /\ ~(n <= j)
      BY <2>3, <1>1, <1>2
    <3> QED BY <3>1, <2>3
  <2> QED BY <2>3, <2>4
<1>5. Match(s, i, ref) \in 3..most /\ Is(Match(s, i, ref))
  <2> DEFINE m == CHOOSE n \in 3..most : Is(n)
  <2> HIDE DEF Is
  <2>1. m \in 3..most /\ Is(m)
    BY <1>4
  <2> QED BY <1>3, <2>1
<1> DEFINE n == Match(s, i, ref)
<1>6. n \in 3..MAX_REF /\ i + n - 1 <= Len(s)
  <2>1. n \in 3..most
    BY <1>5
  <2> HIDE DEF n
  <2> QED BY <1>1, <1>2, <2>1
<1>7. ASSUME NEW j \in 0..(n - 1) PROVE s[ref + j] = s[i + j]
  <2>1. CASE j \in 0..2
    BY <2>1 DEF Refers
  <2>2. CASE j \notin 0..2
    <3>1. j \in 3..(n - 1)
      BY <2>2, <1>1, <1>6
    <3> HIDE DEF n
    <3> QED BY <3>1, <1>5 DEF n
  <2> QED BY <2>1, <2>2
<1> HIDE DEF n
<1>8. Same(s, i, ref, n)
  BY <1>7 DEF Same
<1> QED BY <1>6, <1>8 DEF n

\* The byte k after i is that at k, modulo d, after ref.
Again(s, i, ref, k, d) == s[i + k] = s[ref + (k % d)]

\* What repeats ref, over i and beyond, repeats the bytes from ref to i.
LEMMA Repeats ==
  ASSUME NEW s, NEW i \in Nat, NEW ref \in Nat, ref < i, NEW n \in Nat, Same(s, i, ref, n),
         NEW k \in 0..(n - 1)
  PROVE  Again(s, i, ref, k, i - ref)
<1> DEFINE d == i - ref
           Wrong == {j \in 0..(n - 1) : s[i + j] # s[ref + (j % d)]}
<1> SUFFICES ASSUME Wrong # {} PROVE FALSE
  BY DEF Again
<1>1. PICK j \in Wrong : \A m \in Wrong : j <= m
  <2>1. Wrong \in SUBSET Nat
    OBVIOUS
  <2> HIDE DEF Wrong
  <2> QED BY <2>1, LeastNumber
<1>2. d \in Nat /\ d > 0 /\ j \in Nat /\ ref + d = i /\ j \in 0..(n - 1) /\ s[i + j] = s[ref + j]
  BY <1>1 DEF Same
<1>3. CASE j < d
  <2>1. j % d = j
    BY <1>2, <1>3
  <2> QED BY <1>1, <1>2, <2>1
<1>4. CASE j >= d
  <2>1. j - d \in 0..(n - 1) /\ ~(j <= j - d) /\ i + (j - d) = ref + j
    BY <1>2, <1>4
  <2>2. (j - d) % d = j % d
    BY <1>2, <1>4, SMTT(30)
  <2>3. s[i + (j - d)] = s[ref + ((j - d) % d)]
    BY <1>1, <2>1
  <2> QED BY <1>1, <1>2, <2>1, <2>2, <2>3
<1> QED BY <1>2, <1>3, <1>4

\* So the bytes of a reference are those of the string.
LEMMA RefIsNext ==
  ASSUME NEW s \in Seq(Byte), NEW i \in Nat, NEW ref \in Nat, 1 < ref, ref < i,
         NEW n \in Nat, i + n - 1 <= Len(s), Same(s, i, ref, n)
  PROVE  LET t == SubSeq(s, 1, i - 1)
         IN  t \o Copied(t, i - ref, n) = SubSeq(s, 1, i + n - 1)
<1> DEFINE t == SubSeq(s, 1, i - 1)
           u == SubSeq(s, 1, i + n - 1)
           more == Copied(t, i - ref, n)
           v == t \o more
<1>1. Len(s) \in Nat /\ s \in [1..Len(s) -> Byte] /\ i >= 1
  BY LenProperties
<1>2. t \in Seq(Byte) /\ Len(t) = i - 1 /\ \A j \in 1..(i - 1) : t[j] = s[j]
  <2>1. 1 \in Int /\ i - 1 \in Int /\ \A j \in 1..(i - 1) : s[j] \in Byte
    BY <1>1
  <2>2. /\ t \in Seq(Byte) /\ Len(t) = IF 1 <= i - 1 THEN (i - 1) - 1 + 1 ELSE 0
        /\ \A j \in 1..((i - 1) - 1 + 1) : t[j] = s[1 + j - 1]
    BY <2>1, SubSeqProperties
  <2> HIDE DEF t
  <2> QED BY <2>2, <1>1
<1>3. u \in Seq(Byte) /\ Len(u) = i + n - 1 /\ \A j \in 1..(i + n - 1) : u[j] = s[j]
  <2>1. 1 \in Int /\ i + n - 1 \in Int /\ \A j \in 1..(i + n - 1) : s[j] \in Byte
    BY <1>1
  <2>2. /\ u \in Seq(Byte) /\ Len(u) = IF 1 <= i + n - 1 THEN (i + n - 1) - 1 + 1 ELSE 0
        /\ \A j \in 1..((i + n - 1) - 1 + 1) : u[j] = s[1 + j - 1]
    BY <2>1, SubSeqProperties
  <2> HIDE DEF u
  <2> QED BY <2>2, <1>1
<1> HIDE DEF t, u
<1>4. /\ more \in Seq(Byte) /\ Len(more) = n
      /\ \A j \in 1..n : more[j] = t[Len(t) - (i - ref) + 1 + ((j - 1) % (i - ref))]
  <2>1. i - ref \in 1..Len(t)
    BY <1>1, <1>2
  <2> QED BY <1>2, <2>1, CopiedBytes
<1> HIDE DEF more
<1>5. /\ v \in Seq(Byte) /\ Len(v) = i - 1 + n
      /\ \A j \in 1..(i - 1 + n) : v[j] = IF j <= i - 1 THEN t[j] ELSE more[j - (i - 1)]
  <2>1. /\ v \in Seq(Byte) /\ Len(v) = Len(t) + Len(more)
        /\ \A j \in 1..(Len(t) + Len(more)) : v[j] = IF j <= Len(t) THEN t[j] ELSE more[j - Len(t)]
    BY <1>2, <1>4, ConcatProperties
  <2> HIDE DEF v
  <2> QED BY <1>2, <1>4, <2>1
<1> HIDE DEF v
<1>6. ASSUME NEW j \in 1..n PROVE more[j] = s[i - 1 + j]
  <2> DEFINE k == j - 1
             d == i - ref
             r == k % d
  <2>1. k \in 0..(n - 1) /\ d \in Nat /\ d > 0 /\ k \in Nat
    OBVIOUS
  <2>2. r \in 0..(d - 1)
    BY <2>1
  <2>3. s[i + k] = s[ref + r]
    <3> HIDE DEF k
    <3>1. Again(s, i, ref, k, d)
      BY <2>1, Repeats
    <3> QED BY <3>1 DEF Again
  <2>4. more[j] = t[Len(t) - d + 1 + r]
    BY <1>4
  <2> HIDE DEF r
  <2>5. Len(t) - d + 1 + r = ref + r /\ ref + r \in 1..(i - 1) /\ i - 1 + j = i + k
    BY <1>2, <2>2
  <2> QED BY <1>2, <2>3, <2>4, <2>5
<1>7. ASSUME NEW j \in 1..(i + n - 1) PROVE v[j] = u[j]
  <2>1. CASE j <= i - 1
    <3>1. j \in 1..(i - 1) /\ j \in 1..(i - 1 + n)
      BY <2>1, <1>1
    <3>2. v[j] = t[j]
      BY <1>5, <2>1, <3>1
    <3> QED BY <1>2, <1>3, <3>1, <3>2
  <2>2. CASE ~(j <= i - 1)
    <3>1. j - (i - 1) \in 1..n /\ j \in 1..(i - 1 + n) /\ i - 1 + (j - (i - 1)) = j
      BY <2>2, <1>1
    <3>2. v[j] = more[j - (i - 1)]
      BY <1>5, <2>2, <3>1
    <3> QED BY <3>1, <3>2, <1>3, <1>6
  <2> QED BY <2>1, <2>2
<1>8. v = u
  <2>1. Len(v) = Len(u) /\ Len(u) = i + n - 1
    BY <1>1, <1>3, <1>5
  <2> QED BY <1>3, <1>5, <1>7, <2>1, SeqEqual
<1> QED BY <1>8 DEF v, u, t, more
-----------------------------------------------------------------------------
\* Of the bytes of s before i, out stands for those before the literals in run.
Stands(s, i, out, run) ==
  /\ i \in 1..(Len(s) + 1) /\ out \in Seq(Byte) /\ run \in Seq(Byte) /\ Len(run) < MAX_LIT
  /\ \E t \in Seq(Byte) : Decodes(out, t) /\ t \o run = SubSeq(s, 1, i - 1)

\* The length in front of a run is a byte, and one more.
LEMMA ClosedBytes ==
  ASSUME NEW out \in Seq(Byte), NEW run \in Seq(Byte), Len(run) <= MAX_LIT
  PROVE  /\ Closed(out, run) \in Seq(Byte)
         /\ Len(Closed(out, run)) = Len(out) + Len(run) + IF run = <<>> THEN 0 ELSE 1
<1>1. CASE run = <<>>
  <2>1. Len(run) = 0 /\ Len(out) \in Nat
    BY <1>1
  <2> QED BY <1>1, <2>1 DEF Closed
<1>2. CASE run # <<>>
  <2>1. \A k \in Nat \ {0} : k <= 32 => k - 1 \in 0..255
    OBVIOUS
  <2>2. Len(run) \in Nat \ {0} /\ Len(run) <= 32
    BY <1>2, EmptySeq DEF MAX_LIT
  <2>3. Len(run) - 1 \in Byte
    BY <2>1, <2>2, Zenon DEF Byte
  <2>4. /\ <<Len(run) - 1>> \in Seq(Byte) /\ Len(<<Len(run) - 1>>) = 1
    BY <2>3
  <2>5. \A a \in Seq(Byte) : out \o a \in Seq(Byte) /\ Len(out \o a) = Len(out) + Len(a)
    BY ConcatProperties
  <2>6. \A m \in Seq(Byte) : m \o run \in Seq(Byte) /\ Len(m \o run) = Len(m) + Len(run)
    BY ConcatProperties
  <2>7. Len(out) \in Nat
    OBVIOUS
  <2>8. Closed(out, run) = (out \o <<Len(run) - 1>>) \o run
    BY <1>2 DEF Closed
  <2> QED BY <1>2, <2>2, <2>4, <2>5, <2>6, <2>7, <2>8
<1> QED BY <1>1, <1>2

\* After one literal more out2 and run2 stand for the bytes.
OneMore(s, i, out, run, full, out2, run2) ==
  /\ Literal([i |-> i, out |-> out, run |-> run, full |-> full], s[i])
       = [i |-> i + 1, out |-> out2, run |-> run2, full |-> full]
  /\ Stands(s, i + 1, out2, run2)
  /\ Len(Closed(out2, run2)) = Len(out) + Len(run) + 2

\* A byte that is not referred to joins the run, and a full run is closed.
LEMMA LiteralStands ==
  ASSUME NEW s \in Seq(Byte), NEW i \in 1..Len(s), NEW out, NEW run, NEW full,
         Stands(s, i, out, run)
  PROVE  \E out2, run2 : OneMore(s, i, out, run, full, out2, run2)
<1> DEFINE o == [i |-> i, out |-> out, run |-> run, full |-> full]
           more == Append(run, s[i])
<1>1. out \in Seq(Byte) /\ run \in Seq(Byte) /\ Len(run) \in Nat /\ Len(run) < MAX_LIT /\ Len(out) \in Nat
  BY DEF Stands
<1>2. PICK t \in Seq(Byte) : Decodes(out, t) /\ t \o run = SubSeq(s, 1, i - 1)
  BY DEF Stands
<1>3. i \in Nat /\ Len(s) \in Nat /\ s[i] \in Byte /\ i + 1 \in 1..(Len(s) + 1) /\ (i + 1) - 1 = i
  <2>1. Len(s) \in Nat /\ s \in [1..Len(s) -> Byte]
    BY LenProperties
  <2> QED BY <2>1
<1>4. MAX_LIT = 32
  BY DEF MAX_LIT
<1>5. /\ more \in Seq(Byte) /\ more # <<>> /\ Len(more) = Len(run) + 1
  BY <1>1, <1>3, AppendProperties
<1>6. t \o more = SubSeq(s, 1, i)
  <2> DEFINE b == <<s[i]>>
  <2>1. more = run \o b
    BY <1>1, <1>3, AppendIsConcat
  <2>2. b \in Seq(Byte)
    BY <1>3
  <2>3. SubSeq(s, 1, i) = SubSeq(s, 1, i - 1) \o b
    <3>1. 1 \in 1..Len(s) /\ i \in 1..Len(s)
      BY <1>3
    <3> QED BY <3>1, SubSeqRecursiveSecond
  <2> HIDE DEF b, more
  <2>4. t \o (run \o b) = (t \o run) \o b
    BY <1>1, <2>2, BytesAssociate
  <2> QED BY <1>2, <2>1, <2>3, <2>4
<1> HIDE DEF more
<1>7. Len(more) <= MAX_LIT
  BY <1>1, <1>4, <1>5
<1>8. Decodes(Closed(out, more), t \o more)
  BY <1>2, <1>5, <1>7, DecodesRun
<1>9. /\ Closed(out, more) \in Seq(Byte)
      /\ Len(Closed(out, more)) = Len(out) + Len(run) + 2
  <2>1. /\ Closed(out, more) \in Seq(Byte)
        /\ Len(Closed(out, more)) = Len(out) + Len(more) + IF more = <<>> THEN 0 ELSE 1
    BY <1>1, <1>5, <1>7, ClosedBytes
  <2> QED BY <1>1, <1>5, <2>1
<1>10. CASE Len(more) = MAX_LIT
  <2>1. Literal(o, s[i]) = [i |-> i + 1, out |-> Closed(out, more), run |-> <<>>, full |-> full]
    BY <1>10 DEF Literal, more
  <2>2. t \o more \in Seq(Byte)
    BY <1>5, ConcatProperties
  <2>3. (t \o more) \o <<>> = SubSeq(s, 1, (i + 1) - 1)
    BY <1>3, <1>6, <2>2, ConcatEmptySeq
  <2>4. <<>> \in Seq(Byte) /\ Len(<<>>) < MAX_LIT
    BY <1>4
  <2>5. Stands(s, i + 1, Closed(out, more), <<>>)
    BY <1>3, <1>8, <1>9, <2>2, <2>3, <2>4 DEF Stands
  <2>6. Closed(Closed(out, more), <<>>) = Closed(out, more)
    BY DEF Closed
  <2> QED BY <1>9, <2>1, <2>5, <2>6 DEF OneMore
<1>11. CASE Len(more) # MAX_LIT
  <2>1. Literal(o, s[i]) = [i |-> i + 1, out |-> out, run |-> more, full |-> full]
    BY <1>11 DEF Literal, more
  <2>2. Len(more) < MAX_LIT
    BY <1>1, <1>4, <1>5, <1>7, <1>11
  <2>3. t \o more = SubSeq(s, 1, (i + 1) - 1)
    BY <1>3, <1>6
  <2>4. Stands(s, i + 1, out, more)
    BY <1>1, <1>2, <1>3, <1>5, <2>2, <2>3 DEF Stands
  <2> QED BY <1>9, <2>1, <2>4 DEF OneMore
<1> QED BY <1>10, <1>11

\* A reference in place of the bytes it repeats.
LEMMA ReferenceStands ==
  ASSUME NEW s \in Seq(Byte), NEW i \in 1..Len(s), NEW out, NEW run, Stands(s, i, out, run),
         NEW ref \in Int, Refers(s, i, ref)
  PROVE  LET len == Match(s, i, ref)
         IN  /\ len \in Nat
             /\ Stands(s, i + len, Closed(out, run) \o BackRef(len, i - ref - 1), <<>>)
             /\ len > 0
<1> DEFINE len == Match(s, i, ref)
           off == i - ref - 1
           t == SubSeq(s, 1, i - 1)
           c == Closed(out, run)
<1>1. i \in Nat /\ i >= 1 /\ Len(s) \in Nat
  OBVIOUS
<1>2. len \in 3..MAX_REF /\ i + len - 1 <= Len(s) /\ Same(s, i, ref, len)
  BY <1>1, MatchIsOne
<1> HIDE DEF len
<1>3. 1 < ref /\ ref < i /\ off < MAX_OFF /\ ref \in Nat
  BY DEF Refers
<1>4. len \in Nat /\ len > 0 /\ RefSize(len, off) /\ off + 1 = i - ref
  <2>1. len \in Nat /\ len > 0
    BY <1>2 DEF MAX_REF
  <2>2. off \in 0..(MAX_OFF - 1)
    BY <1>1, <1>3 DEF MAX_OFF
  <2>3. off + 1 = i - ref
    BY <1>1, <1>3
  <2> HIDE DEF off
  <2> QED BY <1>2, <2>1, <2>2, <2>3 DEF RefSize
<1>5. Decodes(c, t) /\ t \in Seq(Byte) /\ Len(t) = i - 1
  <2>1. PICK u \in Seq(Byte) : Decodes(out, u) /\ u \o run = t
    BY DEF Stands
  <2>2. run \in Seq(Byte) /\ Len(run) <= MAX_LIT
    BY DEF Stands, MAX_LIT
  <2>3. Decodes(c, u \o run)
    BY <2>1, <2>2, DecodesRun
  <2>4. t \in Seq(Byte)
    BY <2>1, <2>2, ConcatProperties
  <2>5. Len(t) = i - 1
    <3>1. \A j \in 1..(i - 1) : s[j] \in Byte
      <4>1. s \in [1..Len(s) -> Byte]
        BY LenProperties
      <4> QED BY <4>1, <1>1
    <3>2. Len(t) = IF 1 <= i - 1 THEN (i - 1) - 1 + 1 ELSE 0
      <4>1. 1 \in Int /\ i - 1 \in Int
        BY <1>1
      <4> QED BY <3>1, <4>1, SubSeqProperties
    <3> HIDE DEF t
    <3> QED BY <1>1, <3>2
  <2> QED BY <2>1, <2>3, <2>4, <2>5
<1>6. Decodes(c \o BackRef(len, off), t \o Copied(t, off + 1, len))
  <2>1. off + 1 <= Len(t)
    BY <1>1, <1>3, <1>4, <1>5
  <2> HIDE DEF off, t, c
  <2> QED BY <1>4, <1>5, <2>1, DecodesRef
<1>7. t \o Copied(t, off + 1, len) = SubSeq(s, 1, i + len - 1)
  <2>1. t \o Copied(t, i - ref, len) = SubSeq(s, 1, i + len - 1)
    BY <1>1, <1>2, <1>3, <1>4, RefIsNext
  <2> QED BY <1>4, <2>1
<1> DEFINE c2 == c \o BackRef(len, off)
           t2 == t \o Copied(t, off + 1, len)
<1>8. Decodes(c2, t2)
  BY <1>6
<1>9. t2 = SubSeq(s, 1, (i + len) - 1)
  <2>1. i + len - 1 = (i + len) - 1
    BY <1>1, <1>4
  <2> QED BY <1>7, <2>1
<1> HIDE DEF c2, t2
<1>10. t2 \in Seq(Byte) /\ c2 \in Seq(Byte)
  BY <1>8 DEF Decodes
<1>11. t2 \o <<>> = t2
  BY <1>10, ConcatEmptySeq
<1>12. i + len \in 1..(Len(s) + 1)
  BY <1>1, <1>2, <1>4
<1>13. <<>> \in Seq(Byte) /\ Len(<<>>) < MAX_LIT
  BY DEF MAX_LIT
<1>14. Stands(s, i + len, c2, <<>>)
  BY <1>8, <1>9, <1>10, <1>11, <1>12, <1>13 DEF Stands
<1> QED BY <1>4, <1>14 DEF len, off, c, c2

\* One turn of the loop of lzf_compress; it gets on unless it stops.
State(s, o) ==
  \E i, out, run : \E full \in BOOLEAN :
    /\ o = [i |-> i, out |-> out, run |-> run, full |-> full]
    /\ Stands(s, i, out, run)

\* There is a place in it.
LEMMA PlaceInState ==
  ASSUME NEW s \in Seq(Byte), NEW o, State(s, o)
  PROVE  o.i \in Nat
<1>1. PICK i, out, run : \E full \in BOOLEAN :
        /\ o = [i |-> i, out |-> out, run |-> run, full |-> full]
        /\ Stands(s, i, out, run)
  BY DEF State
<1>2. i \in Nat
  BY <1>1 DEF Stands
<1> QED BY <1>1, <1>2

\* A turn of lzf_compress keeps the state, and takes bytes or stops.
LEMMA TurnStands ==
  ASSUME NEW s \in Seq(Byte), NEW out_len \in Nat, NEW htab, \A j \in 1..Len(s) : htab[j] \in Int,
         NEW o, State(s, o)
  PROVE  LET p == CompressTurn(s, out_len, htab, o)
         IN  State(s, p) /\ (p.full \/ p.i >= Len(s) - 1 \/ p.i > o.i)
<1> DEFINE p == CompressTurn(s, out_len, htab, o)
<1>1. PICK i, out, run : \E full \in BOOLEAN :
        /\ o = [i |-> i, out |-> out, run |-> run, full |-> full]
        /\ Stands(s, i, out, run)
  BY DEF State
<1>2. PICK full \in BOOLEAN :
        /\ o = [i |-> i, out |-> out, run |-> run, full |-> full]
        /\ Stands(s, i, out, run)
  BY <1>1
<1>3. Len(s) \in Nat /\ i \in 1..(Len(s) + 1) /\ o.i = i /\ o.out = out /\ o.run = run /\ o.full = full
  BY <1>2 DEF Stands
<1>4. CASE full \/ i >= Len(s) - 1
  <2>1. p = o
    BY <1>3, <1>4 DEF CompressTurn
  <2> HIDE DEF p
  <2> QED BY <1>3, <1>4, <2>1 DEF p
<1>5. CASE ~(full \/ i >= Len(s) - 1)
  <2>1. i \in 1..Len(s) /\ htab[i] \in Int /\ i \in Nat
    BY <1>3, <1>5
  <2> DEFINE stop == [i |-> i, out |-> out, run |-> run, full |-> TRUE]
  <2>2. State(s, stop) /\ stop.full
    BY <1>2 DEF State
  <2>3. CASE Refers(s, i, htab[i])
    <3> DEFINE len == Match(s, i, htab[i])
               q == [i |-> i + len, out |-> Closed(out, run) \o BackRef(len, i - htab[i] - 1),
                     run |-> <<>>, full |-> FALSE]
    <3>1. p = Reference(s, out_len, o, htab[i], len, Closed(out, run))
      BY <1>3, <1>5, <2>3 DEF CompressTurn
    <3>2. p = stop \/ p = q
      BY <1>2, <1>3, <3>1 DEF Reference
    <3>3. /\ len \in Nat /\ len > 0
          /\ Stands(s, i + len, Closed(out, run) \o BackRef(len, i - htab[i] - 1), <<>>)
      BY <1>2, <2>1, <2>3, ReferenceStands
    <3> HIDE DEF len
    <3>4. State(s, q)
      BY <3>3 DEF State
    <3>5. q.i > o.i
      BY <1>3, <2>1, <3>3
    <3> HIDE DEF p, q, stop
    <3> QED BY <2>2, <3>2, <3>4, <3>5 DEF p
  <2>4. CASE ~Refers(s, i, htab[i])
    <3>1. p = Shift(s, out_len, o)
      BY <1>3, <1>5, <2>4 DEF CompressTurn
    <3>2. PICK out2, run2 : OneMore(s, i, out, run, full, out2, run2)
      BY <1>2, <2>1, LiteralStands
    <3> DEFINE q == [i |-> i + 1, out |-> out2, run |-> run2, full |-> full]
    <3>3. p = stop \/ p = q
      <4>1. Literal(o, s[o.i]) = q
        BY <1>2, <1>3, <3>2 DEF OneMore
      <4> HIDE DEF q
      <4> QED BY <1>2, <3>1, <4>1 DEF Shift
    <3>4. State(s, q)
      BY <3>2 DEF State, OneMore
    <3>5. q.i > o.i
      BY <1>3, <2>1
    <3> HIDE DEF p, q, stop
    <3> QED BY <2>2, <3>3, <3>4, <3>5 DEF p
  <2> QED BY <2>3, <2>4
<1> QED BY <1>4, <1>5

\* When the loop has ended, what is left are at most two literals.
LEMMA FinishedStands ==
  ASSUME NEW s \in Seq(Byte), NEW out_len \in Nat, NEW o, State(s, o),
         o.full \/ o.i >= Len(s) - 1, Finished(s, out_len, o) # <<>>
  PROVE  Decodes(Finished(s, out_len, o), s) /\ Len(Finished(s, out_len, o)) <= out_len
<1>1. PICK i, out, run : \E full \in BOOLEAN :
        /\ o = [i |-> i, out |-> out, run |-> run, full |-> full]
        /\ Stands(s, i, out, run)
  BY DEF State
<1>2. PICK full \in BOOLEAN :
        /\ o = [i |-> i, out |-> out, run |-> run, full |-> full]
        /\ Stands(s, i, out, run)
  BY <1>1
<1>3. /\ Len(s) \in Nat /\ i \in 1..(Len(s) + 1) /\ o.i = i /\ o.out = out /\ o.run = run /\ o.full = full
      /\ out \in Seq(Byte) /\ run \in Seq(Byte) /\ Len(out) \in Nat /\ Len(run) \in Nat
  BY <1>2 DEF Stands
<1> DEFINE end == IF o.i = Len(s) - 1 THEN Literal(Literal(o, s[o.i]), s[o.i + 1])
                  ELSE IF o.i = Len(s) THEN Literal(o, s[o.i]) ELSE o
           c == Closed(end.out, end.run)
<1>4. ~full /\ Len(out) + 1 + Len(run) + 3 <= out_len /\ Finished(s, out_len, o) = c
  <2>1. Finished(s, out_len, o) = IF o.full \/ op(o) + 3 > out_len THEN <<>> ELSE c
    BY DEF Finished
  <2> HIDE DEF c
  <2>2. ~o.full /\ ~(op(o) + 3 > out_len) /\ Finished(s, out_len, o) = c
    BY <2>1
  <2> QED BY <1>3, <2>2 DEF op
<1>5. \E out2, run2 :
        /\ end.out = out2 /\ end.run = run2 /\ Stands(s, Len(s) + 1, out2, run2)
        /\ Len(Closed(out2, run2)) <= Len(out) + Len(run) + 4
  <2>1. CASE i = Len(s) + 1
    <3>1. end.out = out /\ end.run = run
      BY <1>3, <2>1
    <3>2. Len(run) <= MAX_LIT
      BY <1>2, <1>3 DEF Stands, MAX_LIT
    <3>3. Len(Closed(out, run)) = Len(out) + Len(run) + IF run = <<>> THEN 0 ELSE 1
      BY <1>3, <3>2, ClosedBytes
    <3>4. Len(Closed(out, run)) <= Len(out) + Len(run) + 4
      BY <1>3, <3>3
    <3> QED BY <1>2, <2>1, <3>1, <3>4
  <2>2. CASE i = Len(s)
    <3>1. i \in 1..Len(s)
      BY <1>3, <2>2
    <3>2. PICK out2, run2 : OneMore(s, i, out, run, full, out2, run2)
      BY <1>2, <3>1, LiteralStands
    <3>3. end = [i |-> i + 1, out |-> out2, run |-> run2, full |-> full]
      BY <1>2, <1>3, <2>2, <3>2 DEF OneMore
    <3>4. end.out = out2 /\ end.run = run2
      BY <3>3
    <3> HIDE DEF end
    <3>5. Stands(s, Len(s) + 1, out2, run2) /\ Len(Closed(out2, run2)) <= Len(out) + Len(run) + 4
      BY <1>3, <2>2, <3>2 DEF OneMore
    <3> QED BY <3>4, <3>5
  <2>3. CASE i = Len(s) - 1
    <3>1. i \in 1..Len(s) /\ i + 1 \in 1..Len(s) /\ i + 1 = Len(s) /\ i # Len(s)
      BY <1>3, <2>3
    <3>2. PICK out1, run1 : OneMore(s, i, out, run, full, out1, run1)
      BY <1>2, <3>1, LiteralStands
    <3>3. Stands(s, i + 1, out1, run1)
      BY <3>2 DEF OneMore
    <3>4. PICK out2, run2 : OneMore(s, i + 1, out1, run1, full, out2, run2)
      BY <3>1, <3>3, LiteralStands
    <3>5. end = [i |-> i + 1 + 1, out |-> out2, run |-> run2, full |-> full]
      <4>1. Literal(o, s[i]) = [i |-> i + 1, out |-> out1, run |-> run1, full |-> full]
        BY <1>2, <3>2 DEF OneMore
      <4>2. Literal([i |-> i + 1, out |-> out1, run |-> run1, full |-> full], s[i + 1])
              = [i |-> i + 1 + 1, out |-> out2, run |-> run2, full |-> full]
        BY <3>4 DEF OneMore
      <4>3. end = Literal(Literal(o, s[i]), s[i + 1])
        BY <1>3, <2>3, <3>1
      <4> HIDE DEF end
      <4> QED BY <4>1, <4>2, <4>3
    <3>6. end.out = out2 /\ end.run = run2
      <4> HIDE DEF end
      <4> QED BY <3>5
    <3> HIDE DEF end
    <3>7. Len(Closed(out2, run2)) <= Len(out) + Len(run) + 4
      <4>1. out1 \in Seq(Byte) /\ run1 \in Seq(Byte) /\ Len(run1) < MAX_LIT
        BY <3>3 DEF Stands
      <4>2. Len(run1) <= MAX_LIT
        BY <4>1 DEF MAX_LIT
      <4>3. Len(Closed(out1, run1)) = Len(out1) + Len(run1) + IF run1 = <<>> THEN 0 ELSE 1
        BY <4>1, <4>2, ClosedBytes
      <4>4. Len(Closed(out1, run1)) = Len(out) + Len(run) + 2
        BY <3>2 DEF OneMore
      <4>5. Len(Closed(out2, run2)) = Len(out1) + Len(run1) + 2
        BY <3>4 DEF OneMore
      <4>6. Len(out1) \in Nat /\ Len(run1) \in Nat
        BY <4>1
      <4> QED BY <1>3, <4>3, <4>4, <4>5, <4>6
    <3>8. Stands(s, Len(s) + 1, out2, run2)
      BY <1>3, <3>1, <3>4 DEF OneMore
    <3> QED BY <3>6, <3>7, <3>8
  <2> QED BY <1>3, <1>4, <2>1, <2>2, <2>3
<1> HIDE DEF end
<1>6. PICK out2, run2 :
        /\ end.out = out2 /\ end.run = run2 /\ Stands(s, Len(s) + 1, out2, run2)
        /\ Len(Closed(out2, run2)) <= Len(out) + Len(run) + 4
  BY <1>5
<1>7. PICK t \in Seq(Byte) : Decodes(out2, t) /\ t \o run2 = SubSeq(s, 1, (Len(s) + 1) - 1)
  BY <1>6 DEF Stands
<1>8. t \o run2 = s
  <2>1. SubSeq(s, 1, Len(s)) = s
    BY SubSeqFull
  <2>2. (Len(s) + 1) - 1 = Len(s)
    BY <1>3
  <2> QED BY <1>7, <2>1, <2>2
<1>9. run2 \in Seq(Byte) /\ Len(run2) <= MAX_LIT
  BY <1>6 DEF Stands, MAX_LIT
<1>10. Decodes(Closed(out2, run2), t \o run2)
  BY <1>7, <1>9, DecodesRun
<1>11. Closed(out2, run2) \in Seq(Byte)
  BY <1>10 DEF Decodes
<1>12. Len(Closed(out2, run2)) <= out_len
  <2> DEFINE n == Len(Closed(out2, run2))
  <2>1. n \in Nat
    BY <1>11
  <2>2. n <= Len(out) + Len(run) + 4
    BY <1>6
  <2> HIDE DEF n
  <2>3. n <= out_len
    BY <1>3, <1>4, <2>1, <2>2
  <2> QED BY <2>3 DEF n
<1>13. Finished(s, out_len, o) = Closed(out2, run2)
  BY <1>4, <1>6
<1> QED BY <1>8, <1>10, <1>12, <1>13

\* What stands decodes.
LEMMA CompressedDecodes ==
  ASSUME NEW s \in Seq(Byte), NEW out_len \in Nat, NEW htab, \A j \in 1..Len(s) : htab[j] \in Int,
         lzf_compress(s, out_len, htab) # <<>>
  PROVE  /\ Decodes(lzf_compress(s, out_len, htab), s)
         /\ Len(lzf_compress(s, out_len, htab)) <= out_len
<1>1. Len(s) \in Nat
  OBVIOUS
<1>2. PICK f : /\ Loop(TRUE, s, out_len, htab, Len(s), f)
               /\ lzf_compress(s, out_len, htab) = Finished(s, out_len, f[Len(s)])
  BY <1>1, CompressLoop
<1>3. ASSUME NEW n \in 0..Len(s)
      PROVE  f[n] = IF n = 0 THEN Start(TRUE) ELSE CompressTurn(s, out_len, htab, f[n - 1])
  BY <1>2 DEF Loop, Turn
<1> DEFINE Good(n) == State(s, f[n]) /\ (f[n].full \/ f[n].i >= Len(s) - 1 \/ f[n].i > n)
           Bad == {n \in 0..Len(s) : ~Good(n)}
<1>4. Good(0)
  <2>1. f[0] = [i |-> 1, out |-> <<>>, run |-> <<>>, full |-> FALSE]
    BY <1>1, <1>3 DEF Start
  <2>2. Stands(s, 1, <<>>, <<>>)
    <3>1. <<>> \in Seq(Byte) /\ Len(<<>>) = 0 /\ <<>> \o <<>> = <<>>
      BY EmptySeq, ConcatEmptySeq
    <3>2. SubSeq(s, 1, 1 - 1) = <<>>
      BY SubSeqEmpty
    <3>3. 1 \in 1..(Len(s) + 1) /\ Len(<<>>) < MAX_LIT
      BY <1>1, <3>1 DEF MAX_LIT
    <3> QED BY <3>1, <3>2, <3>3, DecodesNothing DEF Stands
  <2>3. State(s, f[0])
    BY <2>1, <2>2 DEF State
  <2>4. f[0].i > 0
    BY <2>1
  <2> QED BY <2>3, <2>4
<1>5. ASSUME NEW n \in 1..Len(s), Good(n - 1) PROVE Good(n)
  <2>1. f[n] = CompressTurn(s, out_len, htab, f[n - 1])
    <3>1. n \in 0..Len(s) /\ n # 0
      BY <1>1
    <3> HIDE DEF Good
    <3> QED BY <1>3, <3>1
  <2>2. State(s, f[n]) /\ (f[n].full \/ f[n].i >= Len(s) - 1 \/ f[n].i > f[n - 1].i)
    BY <1>5, <2>1, TurnStands
  <2>3. CASE f[n - 1].full \/ f[n - 1].i >= Len(s) - 1
    <3>1. f[n] = f[n - 1]
      BY <2>1, <2>3 DEF CompressTurn
    <3> QED BY <2>2, <2>3, <3>1
  <2>4. CASE f[n - 1].i > n - 1
    <3>1. f[n - 1].i \in Nat /\ f[n].i \in Nat
      <4>1. State(s, f[n - 1]) /\ State(s, f[n])
        BY <1>5, <2>2
      <4> HIDE DEF Good
      <4> QED BY <4>1, PlaceInState
    <3> QED BY <1>1, <2>2, <2>4, <3>1
  <2> QED BY <1>5, <2>3, <2>4
<1>6. Good(Len(s))
  <2>1. CASE Bad = {}
    <3>1. Len(s) \in 0..Len(s)
      BY <1>1
    <3> QED BY <2>1, <3>1
  <2>2. CASE Bad # {}
    <3>1. PICK n \in Bad : \A m \in Bad : n <= m
      <4>1. Bad \in SUBSET Nat
        BY <1>1
      <4> HIDE DEF Bad
      <4> QED BY <2>2, <4>1, LeastNumber
    <3> HIDE DEF Good
    <3>2. n # 0 /\ n \in 0..Len(s)
      BY <1>4, <3>1
    <3>3. n \in 1..Len(s) /\ n - 1 \in 0..Len(s) /\ ~(n <= n - 1)
      BY <1>1, <3>2
    <3>4. Good(n - 1)
      BY <3>1, <3>3
    <3> QED BY <1>5, <3>1, <3>3, <3>4
  <2> QED BY <2>1, <2>2
<1>7. f[Len(s)].full \/ f[Len(s)].i >= Len(s) - 1
  <2>1. f[Len(s)].i \in Nat
    <3>1. State(s, f[Len(s)])
      BY <1>6
    <3> HIDE DEF Good
    <3> QED BY <3>1, PlaceInState
  <2> QED BY <1>1, <1>6, <2>1
<1> QED BY <1>2, <1>6, <1>7, FinishedStands

\* What is compressed comes back (lzf_compress, lzf_decompress): every string,
\* whatever the slots of the hash table hold, and never in more than the space
\* that was given for it.
THEOREM CompressionSurvives ==
  ASSUME NEW s \in Seq(Byte), NEW out_len \in Nat, NEW htab, \A j \in 1..Len(s) : htab[j] \in Int,
         lzf_compress(s, out_len, htab) # <<>>
  PROVE  /\ lzf_decompress(lzf_compress(s, out_len, htab), Len(s)) = s
         /\ Len(lzf_compress(s, out_len, htab)) <= out_len
<1> DEFINE c == lzf_compress(s, out_len, htab)
<1>1. Decodes(c, s) /\ Len(c) <= out_len
  BY CompressedDecodes
<1> HIDE DEF c
<1>2. c \in Seq(Byte) /\ Len(c) \in Nat /\ Len(s) \in Nat
  BY <1>1 DEF Decodes
<1>3. PICK f : /\ Loop(FALSE, c, Len(s), <<>>, Len(c), f)
               /\ lzf_decompress(c, Len(s)) = IF f[Len(c)].bad THEN <<>> ELSE f[Len(c)].out
  BY <1>2, DecompressLoop
<1>4. PICK m \in 0..Len(c) : f[m] = Going(Len(c) + 1, s)
  <2>1. c \o <<>> = c /\ <<>> \in Seq(Byte)
    BY <1>2, ConcatEmptySeq, EmptySeq
  <2>2. Len(s) <= Len(s)
    BY <1>2
  <2>3. \A w \in Seq(Byte), l \in Nat : \A g :
          Len(s) <= l /\ Loop(FALSE, c \o w, l, <<>>, Len(c \o w), g)
            => \E m \in 0..Len(c) : g[m] = Going(Len(c) + 1, s)
    BY <1>1, Zenon DEF Decodes
  <2>4. Loop(FALSE, c \o <<>>, Len(s), <<>>, Len(c \o <<>>), f)
    BY <1>3, <2>1, Zenon
  <2> QED BY <1>2, <2>1, <2>2, <2>3, <2>4, Zenon
<1> DEFINE Bad == {n \in m..Len(c) : f[n] # Going(Len(c) + 1, s)}
<1>5. ASSUME NEW n \in (m + 1)..Len(c), f[n - 1] = Going(Len(c) + 1, s) PROVE f[n] = Going(Len(c) + 1, s)
  <2>1. n \in 0..Len(c) /\ n # 0
    BY <1>2
  <2>2. f[n] = DecompressTurn(c, Len(s), f[n - 1])
    BY <1>3, <2>1 DEF Loop, Turn
  <2>3. Len(c) + 1 > Len(c)
    BY <1>2
  <2> QED BY <1>5, <2>2, <2>3 DEF DecompressTurn, Going
<1>6. f[Len(c)] = Going(Len(c) + 1, s)
  <2>1. CASE Bad = {}
    <3>1. Len(c) \in m..Len(c)
      BY <1>2
    <3> QED BY <2>1, <3>1
  <2>2. CASE Bad # {}
    <3>1. PICK n \in Bad : \A k \in Bad : n <= k
      <4>1. Bad \in SUBSET Nat
        BY <1>2
      <4> HIDE DEF Bad
      <4> QED BY <2>2, <4>1, LeastNumber
    <3>2. n # m /\ n \in m..Len(c)
      BY <1>4, <3>1
    <3>3. n \in (m + 1)..Len(c) /\ n - 1 \in m..Len(c) /\ ~(n <= n - 1)
      BY <1>2, <3>2
    <3>4. f[n - 1] = Going(Len(c) + 1, s)
      BY <3>1, <3>3
    <3> QED BY <1>5, <3>1, <3>3, <3>4
  <2> QED BY <2>1, <2>2
<1>7. lzf_decompress(c, Len(s)) = s
  BY <1>3, <1>6 DEF Going
<1> QED BY <1>1, <1>7 DEF c

-----------------------------------------------------------------------------
(***************************************************************************)
(* Strings.                                                                *)
(***************************************************************************)

\* What the loop of strtoll has come to after i digits.
Upto(s, k, f) == f = [i \in 0..k |-> IF i = 0 THEN 0 ELSE 10 * f[i - 1] + s[i] - 48]

\* The loop has a value.
LEMMA UptoExists ==
  ASSUME NEW s, NEW n \in Nat
  PROVE  \E f : Upto(s, n, f)
<1> DEFINE Bad == {k \in Nat : ~\E f : Upto(s, k, f)}
<1>1. 0 \notin Bad
  <2> DEFINE f == [i \in 0..0 |-> 0]
  <2>1. f = [i \in 0..0 |-> IF i = 0 THEN 0 ELSE 10 * f[i - 1] + s[i] - 48]
    OBVIOUS
  <2> QED BY <2>1, Zenon DEF Upto
<1>2. ASSUME NEW k \in Nat, NEW f, Upto(s, k, f) PROVE \E g : Upto(s, k + 1, g)
  <2> DEFINE more == 10 * f[k] + s[k + 1] - 48
             g == [i \in 0..(k + 1) |-> IF i = k + 1 THEN more ELSE f[i]]
             h == [i \in 0..(k + 1) |-> IF i = 0 THEN 0 ELSE 10 * g[i - 1] + s[i] - 48]
  <2>1. ASSUME NEW i \in 0..(k + 1) PROVE g[i] = h[i]
    <3>1. CASE i = k + 1
      <4>1. g[k + 1] = more /\ g[k] = f[k] /\ k + 1 # 0 /\ k + 1 - 1 = k
        OBVIOUS
      <4> HIDE DEF g, more
      <4>2. h[k + 1] = 10 * g[k + 1 - 1] + s[k + 1] - 48
        BY <4>1
      <4> QED BY <3>1, <4>1, <4>2 DEF more
    <3>2. CASE i = 0
      <4>1. f[0] = 0
        BY <1>2 DEF Upto
      <4>2. g[0] = f[0] /\ h[0] = 0
        OBVIOUS
      <4> QED BY <3>2, <4>1, <4>2
    <3>3. CASE i # k + 1 /\ i # 0
      <4>1. i \in 0..k /\ i - 1 \in 0..k /\ i - 1 # k + 1 /\ i - 1 \in 0..(k + 1)
        BY <3>3
      <4>2. g[i] = f[i] /\ g[i - 1] = f[i - 1]
        BY <3>3, <4>1
      <4>3. h[i] = 10 * g[i - 1] + s[i] - 48
        BY <3>3
      <4>4. f[i] = 10 * f[i - 1] + s[i] - 48
        BY <1>2, <3>3, <4>1 DEF Upto
      <4> QED BY <4>2, <4>3, <4>4
    <3> QED BY <3>1, <3>2, <3>3
  <2>2. g = h
    BY <2>1
  <2> HIDE DEF g
  <2>3. Upto(s, k + 1, g)
    BY <2>2 DEF Upto
  <2> QED BY <2>3
<1>3. Bad = {}
  <2> SUFFICES ASSUME Bad # {} PROVE FALSE
    OBVIOUS
  <2>1. PICK k \in Bad : \A j \in Bad : k <= j
    <3>1. Bad \in SUBSET Nat
      OBVIOUS
    <3> HIDE DEF Bad
    <3> QED BY <3>1, LeastNumber
  <2>2. k \in Nat /\ k # 0
    BY <1>1, <2>1
  <2>3. k - 1 \in Nat /\ ~(k <= k - 1) /\ k - 1 + 1 = k
    BY <2>2
  <2>4. k - 1 \notin Bad
    BY <2>1, <2>3
  <2>5. PICK f : Upto(s, k - 1, f)
    BY <2>3, <2>4
  <2>6. \E g : Upto(s, k, g)
    BY <1>2, <2>3, <2>5
  <2> QED BY <2>1, <2>6
<1> QED BY <1>3

\* The number of a text of digits is one.
LEMMA NumberIsInt ==
  ASSUME NEW s \in Seq(Byte)
  PROVE  Number(s) \in Int
<1> DEFINE f == CHOOSE f : Upto(s, Len(s), f)
<1>1. Len(s) \in Nat
  OBVIOUS
<1>2. Upto(s, Len(s), f)
  BY <1>1, UptoExists
<1>3. Number(s) = f[Len(s)]
  BY DEF Number, Upto
<1> HIDE DEF f
<1> DEFINE Bad == {k \in 0..Len(s) : f[k] \notin Int}
<1>4. 0 \notin Bad
  BY <1>1, <1>2 DEF Upto
<1>5. Bad = {}
  <2> SUFFICES ASSUME Bad # {} PROVE FALSE
    OBVIOUS
  <2>1. PICK k \in Bad : \A j \in Bad : k <= j
    <3>1. Bad \in SUBSET Nat
      BY <1>1
    <3> HIDE DEF Bad
    <3> QED BY <3>1, LeastNumber
  <2>2. k \in 1..Len(s)
    BY <1>1, <1>4, <2>1
  <2>3. k - 1 \in 0..Len(s) /\ ~(k <= k - 1)
    BY <1>1, <2>2
  <2>4. f[k - 1] \in Int
    BY <2>1, <2>3
  <2>5. s[k] \in Int
    <3>1. s[k] \in Byte
      BY <2>2
    <3>2. \A b \in Byte : b \in Int
      BY DEF Byte
    <3> QED BY <3>1, <3>2, Zenon
  <2>6. f[k] = 10 * f[k - 1] + s[k] - 48
    <3>1. k \in 0..Len(s) /\ k # 0
      BY <1>1, <2>2
    <3> QED BY <1>2, <3>1 DEF Upto
  <2>7. f[k] \in Int
    <3>1. \A a, b \in Int : 10 * a + b - 48 \in Int
      OBVIOUS
    <3> QED BY <2>4, <2>5, <2>6, <3>1, Zenon
  <2> QED BY <2>1, <2>7
<1> QED BY <1>1, <1>3, <1>5

\* So is the number that a text with a sign or without stands for.
LEMMA ValueIsInt ==
  ASSUME NEW s \in Seq(Byte), Len(s) > 0
  PROVE  ValueOf(s) \in Int
<1>1. Tail(s) \in Seq(Byte)
  <2>1. s # <<>>
    OBVIOUS
  <2> QED BY <2>1
<1>2. Number(s) \in Int /\ Number(Tail(s)) \in Int
  BY <1>1, NumberIsInt
<1> QED BY <1>2 DEF ValueOf

-----------------------------------------------------------------------------
\* The i-th write is in the file from at[i] on.
Placed(f, at, i, w) == at[i] \in Nat /\ InFile(f, at[i], w) /\ at[i + 1] = at[i] + Len(w)

\* The writes ws are in the file one after the other.
InOrder(f, at, ws) == \A i \in 1..Len(ws) : Placed(f, at, i, ws[i])

\* RedisReadLen has a length for it.
Short(s) == Len(s) < 65536 * 65536 - 1

\* A string that has been read up to pos.
String(s, pos) == [ok |-> TRUE, val |-> s, pos |-> pos]

\* Read gives the bytes that are there.
LEMMA BytesSurvive ==
  ASSUME NEW f \in Seq(Byte), NEW pos \in Nat, NEW w \in Seq(Byte), InFile(f, pos, w)
  PROVE  Read(f, pos, Len(w)) = String(w, pos + Len(w))
<1>1. Len(w) \in Nat /\ Len(f) \in Nat /\ pos + Len(w) <= Len(f)
  BY DEF InFile
<1>2. \A i \in 1..Len(w) : f[pos + i] = w[i]
  BY DEF InFile
<1> DEFINE m == pos + 1
           n == pos + Len(w)
           r == SubSeq(f, m, n)
<1>3. r \in Seq(Byte) /\ Len(r) = Len(w) /\ \A i \in 1..Len(w) : r[i] = f[pos + i]
  <2>1. m \in Int /\ n \in Int /\ \A i \in m..n : f[i] \in Byte
    BY <1>1
  <2>2. n - m + 1 = Len(w) /\ (m <= n \/ Len(w) = 0)
    BY <1>1
  <2>3. \A i \in 1..Len(w) : m + i - 1 = pos + i
    BY <1>1
  <2> HIDE DEF m, n
  <2>4. /\ r \in Seq(Byte)
        /\ Len(r) = IF m <= n THEN n - m + 1 ELSE 0
        /\ \A i \in 1..(n - m + 1) : r[i] = f[m + i - 1]
    BY ONLY <2>1, SubSeqProperties
  <2> HIDE DEF r
  <2>5. Len(r) = Len(w)
    BY <1>1, <2>2, <2>4
  <2>6. \A i \in 1..Len(w) : r[i] = f[m + i - 1]
    BY <2>2, <2>4, Zenon
  <2> QED BY <2>3, <2>4, <2>5, <2>6, Zenon
<1>4. r = w
  <2> HIDE DEF r
  <2>1. Len(w) = Len(r) /\ \A i \in 1..Len(w) : r[i] = w[i]
    BY <1>2, <1>3
  <2> QED BY <1>3, <2>1, SeqEqual
<1>5. Enough(f, pos, Len(w))
  BY <1>1 DEF Enough
<1> QED BY <1>4, <1>5, Zenon DEF Read, String

\* So does the read of a write that was placed there.
LEMMA WriteSurvives ==
  ASSUME NEW f \in Seq(Byte), NEW at, NEW i, NEW w \in Seq(Byte), Placed(f, at, i, w)
  PROVE  Read(f, at[i], Len(w)) = String(w, at[i + 1])
<1>1. at[i] \in Nat /\ InFile(f, at[i], w) /\ at[i + 1] = at[i] + Len(w)
  BY DEF Placed
<1>2. Read(f, at[i], Len(w)) = String(w, at[i] + Len(w))
  BY <1>1, BytesSurvive
<1> QED BY <1>1, <1>2, Zenon

\* And the read of the length of a string t.
LEMMA LengthPlaced ==
  ASSUME NEW f \in Seq(Byte), NEW at, NEW i, NEW t \in Seq(Byte), Short(t),
         Placed(f, at, i, RedisWriteLen(Len(t)))
  PROVE  RedisReadLen(f, at[i]) = Length(Len(t), at[i + 1])
<1> DEFINE n == Len(t)
<1>1. n \in Nat /\ n < 65536 * 65536 - 1
  BY DEF Short
<1> HIDE DEF n
<1>2. at[i] \in Nat /\ InFile(f, at[i], RedisWriteLen(n)) /\ at[i + 1] = at[i] + Len(RedisWriteLen(n))
  BY DEF Placed, n
<1>3. RedisReadLen(f, at[i]) = Length(n, at[i] + Len(RedisWriteLen(n)))
  BY <1>1, <1>2, LengthsSurvive
<1> QED BY <1>2, <1>3 DEF n

\* A text that is stored as an integer is the text of that integer.
LEMMA TextSurvives ==
  ASSUME NEW f \in Seq(Byte), NEW at, NEW s \in Seq(Byte), Len(s) > 0,
         TryIntegerEncoding(s) # <<>>, Placed(f, at, 1, TryIntegerEncoding(s))
  PROVE  RedisReadString(f, at[1]) = String(s, at[2])
<1> DEFINE v == ValueOf(s)
           w == EncodeInteger(v)
<1>1. v \in Int
  BY ValueIsInt
<1>2. Decimal(v) = s /\ TryIntegerEncoding(s) = w /\ w # <<>>
  BY DEF TryIntegerEncoding
<1> HIDE DEF v
<1>3. Fits(v, 32768 * 65536)
  BY <1>1, <1>2 DEF EncodeInteger, Fits
<1>4. at[1] \in Nat /\ InFile(f, at[1], w) /\ at[2] = at[1] + Len(w)
  <2> HIDE DEF w
  <2> QED BY <1>2 DEF Placed
<1>5. PICK enctype \in 0..2 :
        /\ RedisReadLen(f, at[1]) = Kind(enctype, at[1])
        /\ RedisReadInteger(f, at[1] + 1, enctype)
             = [ok |-> TRUE, val |-> v, pos |-> at[1] + Len(EncodeInteger(v))]
  BY <1>1, <1>3, <1>4, IntegersSurvive
<1> DEFINE len == Kind(enctype, at[1])
<1>6. len.encoded = TRUE /\ len.val = enctype /\ len.pos = at[1] + 1
  BY DEF Kind
<1> HIDE DEF len, w
<1> DEFINE r == [ok |-> TRUE, val |-> v, pos |-> at[2]]
<1>7. RedisReadInteger(f, at[1] + 1, enctype) = r
  BY <1>4, <1>5 DEF w
<1>8. r.ok = TRUE /\ r.val = v /\ r.pos = at[2]
  OBVIOUS
<1> HIDE DEF r
<1>9. StringOf(f, len) = IntegerString(r)
  BY <1>6, <1>7, Zenon DEF StringOf
<1>10. IntegerString(r) = String(s, at[2])
  BY <1>2, <1>8, Zenon DEF IntegerString, String
<1> QED BY <1>5, <1>9, <1>10, Zenon DEF RedisReadString, len

\* A length makes RedisReadString read so many bytes.
LEMMA ReadPlain ==
  ASSUME NEW f, NEW pos, NEW n, NEW next, RedisReadLen(f, pos) = Length(n, next)
  PROVE  RedisReadString(f, pos) = Read(f, next, n)
<1> DEFINE len == Length(n, next)
<1>1. len.ok = TRUE /\ len.encoded = FALSE /\ len.val = n /\ len.pos = next
  BY DEF Length
<1> HIDE DEF len
<1>2. StringOf(f, len) = Read(f, next, n)
  BY <1>1 DEF StringOf
<1> QED BY <1>2 DEF RedisReadString, len

\* A 3 in its place makes it read two lengths, and decompress.
LEMMA ReadPacked ==
  ASSUME NEW f, NEW pos, NEW c, NEW s, NEW k, NEW n, NEW next2, NEW next3, NEW end,
         RedisReadLen(f, pos) = Kind(3, pos),
         RedisReadLen(f, pos + 1) = Length(k, next2), RedisReadLen(f, next2) = Length(n, next3),
         Read(f, next3, k) = String(c, end), lzf_decompress(c, n) = s, s # <<>>
  PROVE  RedisReadString(f, pos) = String(s, end)
<1> DEFINE len == Kind(3, pos)
           clen == Length(k, next2)
           slen == Length(n, next3)
           got == String(c, end)
<1>1. len.encoded = TRUE /\ len.val = 3 /\ len.pos = pos + 1
  BY DEF Kind
<1>2. clen.ok = TRUE /\ clen.val = k /\ clen.pos = next2
  BY DEF Length
<1>3. slen.ok = TRUE /\ slen.val = n /\ slen.pos = next3
  BY DEF Length
<1>4. got.ok = TRUE /\ got.val = c /\ got.pos = end
  BY DEF String
<1> HIDE DEF len, clen, slen, got
<1>5. RedisReadLen(f, pos + 1) = clen /\ RedisReadLen(f, next2) = slen /\ Read(f, next3, k) = got
  BY DEF clen, slen, got
<1>6. Decompressed(f, got, n) = String(s, end)
  <2>1. lzf_decompress(got.val, n) = s
    BY <1>4
  <2> QED BY <1>4, <2>1, Zenon DEF Decompressed, String
<1>7. LzfString(f, clen, slen) = String(s, end)
  BY <1>2, <1>3, <1>5, <1>6, Zenon DEF LzfString
<1>8. RedisReadLzfStringObject(f, clen) = String(s, end)
  BY <1>2, <1>5, <1>7, Zenon DEF RedisReadLzfStringObject
<1>9. ~(3 \in 0..2)
  OBVIOUS
<1>10. StringOf(f, len) = String(s, end)
  BY <1>1, <1>5, <1>8, <1>9, Zenon DEF StringOf
<1> QED BY <1>10, Zenon DEF RedisReadString, len

\* A string that is stored as it is: its length, and its bytes if it has any.
LEMMA VerbatimSurvives ==
  ASSUME NEW f \in Seq(Byte), NEW at, NEW s \in Seq(Byte), Short(s),
         InOrder(f, at, Verbatim(s))
  PROVE  RedisReadString(f, at[1]) = String(s, at[Len(Verbatim(s)) + 1])
<1> DEFINE n == RedisWriteLen(Len(s))
           ws == Verbatim(s)
<1>1. CASE s = <<>>
  <2>1. Len(ws) = 1 /\ ws[1] = n /\ Len(s) = 0
    BY <1>1 DEF Verbatim
  <2> HIDE DEF n, ws
  <2>2. Placed(f, at, 1, n)
    BY <2>1 DEF InOrder, ws
  <2>3. RedisReadLen(f, at[1]) = Length(Len(s), at[2])
    <3>1. RedisReadLen(f, at[1]) = Length(Len(s), at[1 + 1])
      BY <2>2, LengthPlaced DEF n
    <3> QED BY <3>1
  <2>4. at[2] \in Nat /\ InFile(f, at[2], s) /\ at[2] + Len(s) = at[2]
    <3>1. at[1] \in Nat /\ Len(n) \in Nat /\ at[1] + Len(n) <= Len(f) /\ at[2] = at[1] + Len(n)
      BY <2>2 DEF Placed, InFile
    <3>2. Len(s) \in Nat /\ at[2] + Len(s) <= Len(f) /\ 1..Len(s) = {}
      BY <2>1, <3>1
    <3> QED BY <2>1, <3>1, <3>2 DEF InFile
  <2>5. Read(f, at[2], Len(s)) = String(s, at[2])
    BY <2>4, BytesSurvive
  <2> QED BY <2>1, <2>3, <2>5, ReadPlain DEF ws
<1>2. CASE s # <<>>
  <2>1. Len(ws) = 2 /\ ws[1] = n /\ ws[2] = s
    BY <1>2 DEF Verbatim
  <2> HIDE DEF n, ws
  <2>2. Placed(f, at, 1, n) /\ Placed(f, at, 2, s)
    BY <2>1 DEF InOrder, ws
  <2>3. RedisReadLen(f, at[1]) = Length(Len(s), at[2])
    <3>1. RedisReadLen(f, at[1]) = Length(Len(s), at[1 + 1])
      BY <2>2, LengthPlaced DEF n
    <3> QED BY <3>1
  <2>4. Read(f, at[2], Len(s)) = String(s, at[3])
    <3>1. Read(f, at[2], Len(s)) = String(s, at[2 + 1])
      BY <2>2, WriteSurvives
    <3> QED BY <3>1
  <2> QED BY <2>1, <2>3, <2>4, ReadPlain DEF ws
<1> QED BY <1>1, <1>2

\* The byte in front of a compressed string.
LzfKind == <<195>>

\* A string that is compressed to c.
LEMMA PackedSurvives ==
  ASSUME NEW f \in Seq(Byte), NEW at, NEW s \in Seq(Byte), NEW c \in Seq(Byte),
         s # <<>>, Short(s), Short(c), lzf_decompress(c, Len(s)) = s,
         InOrder(f, at, <<LzfKind, RedisWriteLen(Len(c)), RedisWriteLen(Len(s)), c>>)
  PROVE  RedisReadString(f, at[1]) = String(s, at[5])
<1> DEFINE n == RedisWriteLen(Len(c))
           m == RedisWriteLen(Len(s))
           ws == <<LzfKind, n, m, c>>
<1>1. Len(ws) = 4 /\ ws[1] = LzfKind /\ ws[2] = n /\ ws[3] = m /\ ws[4] = c
  OBVIOUS
<1>2. InOrder(f, at, ws)
  OBVIOUS
<1> HIDE DEF n, m, ws
<1>3. Placed(f, at, 1, LzfKind) /\ Placed(f, at, 2, n) /\ Placed(f, at, 3, m) /\ Placed(f, at, 4, c)
  BY <1>1, <1>2 DEF InOrder
<1>4. RedisReadLen(f, at[1]) = Kind(3, at[1]) /\ at[1] + 1 = at[2]
  <2>1. at[1] \in Nat /\ at[1] + 1 <= Len(f) /\ f[at[1] + 1] = 195 /\ at[2] = at[1] + 1
    <3> DEFINE w == LzfKind
    <3>1. Len(w) = 1 /\ w[1] = 195 /\ 1 \in 1..1
      BY DEF LzfKind
    <3>2. Placed(f, at, 1, w)
      BY <1>3
    <3> HIDE DEF w
    <3>3. at[1] \in Nat /\ InFile(f, at[1], w) /\ at[2] = at[1] + 1
      BY <3>1, <3>2 DEF Placed
    <3>4. at[1] + 1 <= Len(f) /\ f[at[1] + 1] = w[1]
      BY <3>1, <3>3 DEF InFile
    <3> QED BY <3>1, <3>3, <3>4
  <2> QED BY <2>1 DEF RedisReadLen, Enough, Kind
<1>5. RedisReadLen(f, at[2]) = Length(Len(c), at[3])
  <2>1. RedisReadLen(f, at[2]) = Length(Len(c), at[2 + 1])
    BY <1>3, LengthPlaced DEF n
  <2> QED BY <2>1
<1>6. RedisReadLen(f, at[3]) = Length(Len(s), at[4])
  <2>1. RedisReadLen(f, at[3]) = Length(Len(s), at[3 + 1])
    BY <1>3, LengthPlaced DEF m
  <2> QED BY <2>1
<1>7. Read(f, at[4], Len(c)) = String(c, at[5])
  <2>1. Read(f, at[4], Len(c)) = String(c, at[4 + 1])
    BY <1>3, WriteSurvives
  <2> QED BY <2>1
<1> QED BY <1>4, <1>5, <1>6, <1>7, ReadPacked

\* A string of any bytes comes back (RedisWriteRawString, RedisReadString),
\* whichever of the three ways it was stored in, from any place of any file
\* that holds the writes in their order, and what follows is read next.
THEOREM StringsSurvive ==
  ASSUME NEW f \in Seq(Byte), NEW at, NEW s \in Seq(Byte), Short(s),
         \A j \in 1..Len(s) : Found(s)[j] \in Int,
         InOrder(f, at, RedisWriteRawString(s))
  PROVE  RedisReadString(f, at[1]) = String(s, at[Len(RedisWriteRawString(s)) + 1])
<1>1. Len(s) \in Nat
  OBVIOUS
<1>2. CASE Len(s) > 0 /\ Len(s) <= 11 /\ TryIntegerEncoding(s) # <<>>
  <2> DEFINE w == TryIntegerEncoding(s)
  <2>1. RedisWriteRawString(s) = <<w>>
    BY <1>2 DEF RedisWriteRawString
  <2>2. RedisReadString(f, at[1]) = String(s, at[2])
    <3>1. Len(<<w>>) = 1 /\ <<w>>[1] = w
      OBVIOUS
    <3>2. Placed(f, at, 1, w)
      BY <2>1, <3>1 DEF InOrder
    <3> QED BY <1>2, <3>2, TextSurvives
  <2> HIDE DEF w
  <2>3. Len(<<w>>) + 1 = 2
    OBVIOUS
  <2> QED BY <2>1, <2>2, <2>3
<1>3. CASE ~(Len(s) > 0 /\ Len(s) <= 11 /\ TryIntegerEncoding(s) # <<>>) /\ Len(s) > 20
  <2> DEFINE c == lzf_compress(s, Len(s) - 4, Found(s))
  <2>1. RedisWriteRawString(s) = RedisWriteLzfStringObject(s, c)
    BY <1>3 DEF RedisWriteRawString
  <2>2. CASE c = <<>>
    <3>1. RedisWriteRawString(s) = Verbatim(s)
      BY <2>1, <2>2 DEF RedisWriteLzfStringObject
    <3> QED BY <3>1, VerbatimSurvives
  <2>3. CASE c # <<>>
    <3>1. Len(s) - 4 \in Nat
      BY <1>1, <1>3
    <3>2. c \in Seq(Byte) /\ lzf_decompress(c, Len(s)) = s /\ Len(c) <= Len(s) - 4
      <4>1. Decodes(c, s)
        BY <2>3, <3>1, CompressedDecodes
      <4>2. lzf_decompress(c, Len(s)) = s /\ Len(c) <= Len(s) - 4
        BY <2>3, <3>1, CompressionSurvives
      <4> QED BY <4>1, <4>2 DEF Decodes
    <3> HIDE DEF c
    <3>3. RedisWriteRawString(s) = <<LzfKind, RedisWriteLen(Len(c)), RedisWriteLen(Len(s)), c>>
      BY <2>1, <2>3 DEF RedisWriteLzfStringObject, LzfKind
    <3>4. Short(c) /\ s # <<>>
      BY <1>1, <1>3, <3>2 DEF Short
    <3>5. RedisReadString(f, at[1]) = String(s, at[5])
      BY <3>2, <3>3, <3>4, PackedSurvives
    <3>6. Len(RedisWriteRawString(s)) + 1 = 5
      BY <3>3
    <3> QED BY <3>5, <3>6
  <2> QED BY <2>2, <2>3
<1>4. CASE ~(Len(s) > 0 /\ Len(s) <= 11 /\ TryIntegerEncoding(s) # <<>>) /\ ~(Len(s) > 20)
  <2>1. RedisWriteRawString(s) = Verbatim(s)
    BY <1>4 DEF RedisWriteRawString
  <2> QED BY <2>1, VerbatimSurvives
<1> QED BY <1>2, <1>3, <1>4
=============================================================================
