-------------------------------- MODULE Rdb ---------------------------------
(***************************************************************************)
(* The file of Redis that SAVE writes and IMPORT, or the slave of a Redis  *)
(* server, loads: Snapshot::RedisSave and RedisLoad (snapshot.cpp), byte   *)
(* by byte.  Keys and strings are sequences of bytes here; a length is one *)
(* call of Write.  The compact encodings, which only Redis writes, are     *)
(* left out.                                                               *)
(***************************************************************************)
EXTENDS Store, RdbCodec

Seqs == INSTANCE SequencesExt

-----------------------------------------------------------------------------
(***************************************************************************)
(* RedisSave.                                                              *)
(***************************************************************************)
\* REDIS_RDB_TYPE_*, in the order of the numbers 0 to 4.
RdbTypes == <<"string", "list", "set", "zset", "hash">>
RedisWriteKeyType(type) == <<(CHOOSE i \in 1..5 : RdbTypes[i] = type) - 1>>

RedisWriteMagicHeader == <<82, 69, 68, 73, 83, 48, 48, 48, 54>>
\* The eight bytes of a time in milliseconds: which time is not followed.
RedisWriteMillisecondTime == <<1, 2, 3, 4, 5, 6, 7, 8>>
\* The checksum: here a weighed sum, by halves.
RECURSIVE Weighed(_, _, _)
Weighed(bytes, i, j) ==
  LET mid == (i + j) \div 2
  IN  IF i > j THEN 0 ELSE IF i = j THEN i * (bytes[i] + 1)
      ELSE (Weighed(bytes, i, mid) + Weighed(bytes, mid + 1, j)) % 65521
crc64(bytes) ==
  LET n == Weighed(bytes, 1, Len(bytes)) IN <<n % 256, n \div 256, Len(bytes) % 256, 1, 1, 1, 1, 1>>

\* The keys as the iterator finds them.
Iterated(st) ==
  LET Of(d) == LET keys == Seqs!SetToSeq(DOMAIN st[d])
               IN  [i \in DOMAIN keys |-> [db |-> d, key |-> keys[i], val |-> st[d][keys[i]]]]
      dbs == Sorted(DOMAIN st)
  IN  Seqs!FlattenSeq([i \in DOMAIN dbs |-> Of(dbs[i])])

\* What one call of Write after the other writes for the value ...
ValueWrites(val) ==
  LET Counted(n, entries) == <<RedisWriteLen(n)>> \o Seqs!FlattenSeq(entries)
      elements == IF val.type = "list" THEN val.content ELSE Seqs!SetToSeq(val.content)
      fields == Seqs!SetToSeq(DOMAIN val.content)
  IN  CASE val.type = "string" -> RedisWriteRawString(val.content)
        [] val.type \in {"list", "set"} ->
             Counted(Len(elements),
                     [i \in DOMAIN elements |-> RedisWriteRawString(elements[i])])
        [] val.type = "zset" ->
             Counted(Len(fields),
                     [i \in DOMAIN fields |-> RedisWriteRawString(fields[i])
                                                \o <<RedisWriteDouble(val.content[fields[i]])>>])
        [] val.type = "hash" ->
             Counted(Len(fields),
                     [i \in DOMAIN fields |-> RedisWriteRawString(fields[i])
                                                \o RedisWriteRawString(val.content[fields[i]])])

\* ... and before it for the i-th key, which may be the first of its database.
KeyWrites(entries, i) ==
  LET e == entries[i]
  IN  (IF i = 1 \/ entries[i - 1].db # e.db THEN <<<<254>>, RedisWriteLen(e.db)>> ELSE <<>>)
        \o (IF e.val.ttl THEN <<<<252>>, RedisWriteMillisecondTime>> ELSE <<>>)
        \o <<RedisWriteKeyType(e.val.type)>> \o RedisWriteRawString(e.key)

\* All of them, each with the key it belongs to and its part.
Writes(st) ==
  LET entries == Iterated(st)
      Tagged(ws, i, part) == [j \in DOMAIN ws |-> [item |-> i, part |-> part, bytes |-> ws[j]]]
  IN  Seqs!FlattenSeq([i \in DOMAIN entries |->
                         Tagged(KeyWrites(entries, i), i, "key")
                           \o Tagged(ValueWrites(entries[i].val), i, "value")])

(***************************************************************************)
(* The dump when Write refuses some of the writes: the disk is full, or    *)
(* the routine says no slave waits any more.  The check breaks off the     *)
(* loop it stands in.  For what comes before a value that is the loop over *)
(* the keys, and the dump fails; for what belongs to a value it is only    *)
(* that value, and the next key begins, with err set anew.  Header, EOF    *)
(* and checksum are not checked.  A dump that fails replaces no file.      *)
(***************************************************************************)
Dump(ws, refused) ==
  LET skipped == {i \in DOMAIN ws : \E j \in refused \cap 1..(i - 1) :
                    ws[i].item = ws[j].item /\ ws[i].part = "value" /\ ws[j].part = "value"}
      tried == DOMAIN ws \ skipped
      err == \/ \E i \in refused \cap DOMAIN ws : ws[i].part = "key"
             \/ \E i \in refused \cap tried : \A j \in tried : j <= i
      Kept(i) == IF i \in refused \cup skipped THEN <<>> ELSE ws[i].bytes
      body == (IF 0 \in refused THEN <<>> ELSE RedisWriteMagicHeader)
                \o Seqs!FlattenSeq([i \in DOMAIN ws |-> Kept(i)])
                \o (IF Len(ws) + 1 \in refused THEN <<>> ELSE <<255>>)
  IN  IF err THEN [ret |-> -1, file |-> <<>>]
      ELSE [ret |-> 0, file |-> body \o IF Len(ws) + 2 \in refused THEN <<>> ELSE crc64(body)]

-----------------------------------------------------------------------------
(***************************************************************************)
(* RedisLoad.                                                              *)
(***************************************************************************)
\* The elements of a collection, up to the first that cannot be read.
\* Of a zset or a hash a score or a value belongs to each.
Added(acc, type, str, with) ==
  CASE type = "list" -> Append(acc, str)
    [] type = "set" -> acc \cup {str}
    [] type \in {"zset", "hash"} -> Put(acc, str, with)
With(file, type, str) ==
  CASE type = "zset" -> RedisReadDoubleValue(file, str.pos)
    [] type = "hash" -> RedisReadString(file, str.pos)
    [] type \in {"list", "set"} -> str
RECURSIVE RedisLoadElements(_, _, _, _, _)
ElementsFrom(file, type, n, acc, str, with) ==
  IF str.ok /\ with.ok
  THEN RedisLoadElements(file, with.pos, type, n - 1, Added(acc, type, str.val, with.val))
  ELSE [ok |-> FALSE, val |-> acc, pos |-> Len(file)]
ElementFrom(file, type, n, acc, str) == ElementsFrom(file, type, n, acc, str, With(file, type, str))
RedisLoadElements(file, pos, type, n, acc) ==
  IF n = 0 THEN [ok |-> TRUE, val |-> acc, pos |-> pos]
  ELSE ElementFrom(file, type, n, acc, RedisReadString(file, pos))

NoElements(type) == IF type = "list" THEN <<>> ELSE IF type = "set" THEN {} ELSE Empty
CollectionOf(file, type, len) ==
  IF len.ok THEN RedisLoadElements(file, len.pos, type, len.val, NoElements(type))
  ELSE [ok |-> FALSE, val |-> NoElements(type), pos |-> len.pos]
RedisLoadObject(file, pos, type) ==
  IF type = "string" THEN RedisReadString(file, pos)
  ELSE CollectionOf(file, type, RedisReadLen(file, pos))

\* What Set, RPush and so on have made of a key that was deleted before.
Loaded(kv, db, key, type, object, expires) ==
  IF \/ type = "string" /\ ~object.ok
     \/ type # "string" /\ object.val = NoElements(type)
  THEN Del(kv, db, {key})
  ELSE Overwrite(kv, db, key, [Value(type, object.val) EXCEPT !.ttl = object.ok /\ expires])

\* After EOF: versions from 5 have a checksum, where zero says there is none.
\* A wrong one ends the process.
Verify(file, pos, rdbver, kv) ==
  IF rdbver < 5 THEN [ret |-> 0, kv |-> kv]
  ELSE IF ~Enough(file, pos, 8) THEN [ret |-> -1, kv |-> kv]
  ELSE LET cksum == SubSeq(file, pos + 1, pos + 8)
           good == (\A i \in 1..8 : cksum[i] = 0) \/ cksum = crc64(SubSeq(file, 1, pos))
       IN  [ret |-> IF good THEN 0 ELSE 1, kv |-> kv]

\* The loop: a time or none, then EOF, a database, or a key and its value.
\* No file a dump has begun contains another type: abort().
RECURSIVE RedisLoadKeys(_, _, _, _, _)
eoferr(kv) == [ret |-> -1, kv |-> kv]
SelectDB(file, rdbver, kv, len) ==
  IF len.ok THEN RedisLoadKeys(file, len.pos, rdbver, len.val, kv) ELSE eoferr(kv)
AfterObject(file, rdbver, db, kv, object) ==
  IF object.ok THEN RedisLoadKeys(file, object.pos, rdbver, db, kv) ELSE eoferr(kv)
Object(file, rdbver, db, kv, key, type, expires, object) ==
  AfterObject(file, rdbver, db, Loaded(kv, db, key, type, object, expires), object)
Key(file, rdbver, db, kv, key, type, expires) ==
  IF key.ok
  THEN Object(file, rdbver, db, kv, key.val, type, expires, RedisLoadObject(file, key.pos, type))
  ELSE eoferr(kv)
Entry(file, at, rdbver, db, kv, expires) ==
  CASE ~Enough(file, at, 0) -> eoferr(kv)
    [] Enough(file, at, 0) /\ file[at] = 255 -> Verify(file, at, rdbver, kv)
    [] Enough(file, at, 0) /\ file[at] = 254 -> SelectDB(file, rdbver, kv, RedisReadLen(file, at))
    [] Enough(file, at, 0) /\ file[at] < 253 ->
         Key(file, rdbver, db, kv, RedisReadString(file, at), RdbTypes[file[at] + 1], expires)
RedisLoadKeys(file, pos, rdbver, db, kv) ==
  LET time == IF file[pos + 1] = 253 THEN 5 ELSE IF file[pos + 1] = 252 THEN 9 ELSE 0
  IN  IF Enough(file, pos, 1) THEN Entry(file, pos + time + 1, rdbver, db, kv, time > 0)
      ELSE eoferr(kv)

RedisLoad(file, kv) ==
  LET rdbver == Number(SubSeq(file, 6, 9))
  IN  IF ~Enough(file, 0, 9) \/ SubSeq(file, 1, 5) # SubSeq(RedisWriteMagicHeader, 1, 5)
        \/ rdbver < 1 \/ rdbver > 6
      THEN [ret |-> -1, kv |-> kv]
      ELSE RedisLoadKeys(file, 9, rdbver, 0, kv)

-----------------------------------------------------------------------------
(***************************************************************************)
(* What a dump is for.                                                     *)
(***************************************************************************)
\* A store with st over it.
Over(kv, st) ==
  [d \in DOMAIN kv |-> [k \in DOMAIN kv[d] \cup DOMAIN st[d] |->
                          IF k \in DOMAIN st[d] THEN st[d][k] ELSE kv[d][k]]]

\* A dump of st restores it, every type, database and deadline, and leaves no
\* trace of what a server had under the same keys (RedisSave, RedisLoad).
Restores(st, kv, dump) ==
  dump.ret = 0 /\ RedisLoad(dump.file, kv) = [ret |-> 0, kv |-> Over(kv, st)]

\* A file that was cut off, at whatever byte, does not pass for a dump: not
\* in the middle of an integer either, which RedisReadString takes for an
\* empty string.
CutRefused(file, kv) == \A n \in 0..(Len(file) - 1) : RedisLoad(SubSeq(file, 1, n), kv).ret # 0

\* Once writes are refused for good, the dump fails or its file is refused;
\* one refused write is noticed in front of a value, and in the last one.
\* Within another value it is not: the routine refuses when the last waiting
\* slave is gone, and the dump goes on for the next that comes.
Fails(dump, kv) == dump.ret = 0 => RedisLoad(dump.file, kv).ret # 0
Noticed(ws, kv) ==
  /\ \A n \in 0..(Len(ws) + 2) : Fails(Dump(ws, n..(Len(ws) + 2)), kv)
  /\ \A n \in DOMAIN ws :
       Dump(ws, {n}).ret = 0 => ws[n].part = "value" /\ ws[n].item < ws[Len(ws)].item

SoundDump(st, kv, ws, dump) == Restores(st, kv, dump) /\ CutRefused(dump.file, kv) /\ Noticed(ws, kv)
SoundWrites(st, kv, ws) == SoundDump(st, kv, ws, Dump(ws, {}))
Sound(st, kv) == SoundWrites(st, kv, Writes(st))
=============================================================================
