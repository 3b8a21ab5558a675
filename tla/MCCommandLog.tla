---------------------------- MODULE MCCommandLog ----------------------------
(* Every command that writes, on two keys in two databases, from a store    *)
(* for each type of value.                                                  *)
EXTENDS CommandLog, Rdb

CONSTANTS
  k1, k2, f1, f2,
  blank,         \* a list element: the empty string
  MaxDumped      \* bound: commands and events before a dump

SomeValues ==
  {Value("string", 1), Value("hash", Put(Empty, f1, 1)), Value("list", <<1, 2, blank>>),
   Value("set", {1, 2}), Value("zset", Put(Put(Empty, 1, 1), 2, 0))}

\* k1 holds a value, and in database 1 a string with a deadline; k2 is free.
OneOfEach ==
  {[d \in DBs |-> Put(Empty, k1, IF d = 0 THEN v ELSE [Value("string", 1) EXCEPT !.ttl = TRUE])] :
     v \in SomeValues}

OnlyStrings == {[d \in DBs |-> Put(Empty, k1, Value("string", 1))]}

OnOne(k) ==
  {<<"append", k, 1>>, <<"set", k, 2>>, <<"set", k, 1, "nx">>, <<"set", k, 1, "xx">>,
   <<"set", k, 1, "ex">>, <<"setnx", k, 2>>, <<"setex", k, 9, 1>>, <<"getset", k, 0>>,
   <<"setrange", k, 1, 1>>, <<"setbit", k, 1, 1>>, <<"incr", k>>, <<"decrby", k, 1>>,
   <<"incrbyfloat", k, 1>>, <<"pfadd", k, 2>>,
   <<"hdel", k, f1>>, <<"hset", k, f1, 2>>, <<"hmset", k, f2, 1>>, <<"hsetnx", k, f1, 0>>,
   <<"hincrby", k, f1, 1>>, <<"hincrbyfloat", k, f1, 1>>,
   <<"lpush", k, 0>>, <<"lpush", k, blank>>, <<"rpush", k, 1>>, <<"lpushx", k, 1>>, <<"rpushx", k, 2>>,
   <<"lpop", k>>, <<"rpop", k>>, <<"blpop", k, 0>>, <<"brpop", k, 0>>,
   <<"linsert", k, "before", 2, 0>>, <<"linsert", k, "after", 1, 0>>, <<"lrem", k, 0, 1>>,
   <<"lset", k, 1, 0>>, <<"ltrim", k, 1, 1>>,
   <<"sadd", k, 0>>, <<"srem", k, 1>>, <<"spop", k>>,
   <<"zadd", k, 2, 1>>, <<"zincrby", k, 1, 2>>, <<"zrem", k, 1>>, <<"zremrangebyscore", k, 1, 2>>,
   <<"zremrangebyrank", k, 0, 0>>, <<"zremrangebylex", k, 2, 2>>, <<"geoadd", k, "wgs84", 1, 1, 1>>,
   <<"del", k>>, <<"persist", k>>, <<"expire", k, 9>>, <<"move", k, 1>>,
   <<"hset", k, 1>>}

OnTwo ==
  {<<"mset", k1, 0, k2, 1>>, <<"msetnx", k1, 0, k2, 1>>, <<"pfmerge", k2, k1>>,
   <<"bitop", "not", k2, k1>>, <<"rpoplpush", k1, k2>>, <<"rpoplpush", k1, k1>>,
   <<"brpoplpush", k1, k2, 0>>, <<"smove", k1, k2, 1>>, <<"sdiffstore", k2, k1, k2>>,
   <<"sinterstore", k1, k1, k2>>, <<"sunionstore", k2, k1, k2>>,
   <<"zinterstore", k2, 2, k1, k1>>, <<"zunionstore", k2, 2, k1, k2>>,
   <<"rename", k1, k2>>, <<"rename", k1, k1>>, <<"renamenx", k1, k2>>, <<"sort", k1, k2>>,
   <<"del", k1, k2>>, <<"flushdb">>, <<"flushall">>, <<"select", 1>>}

OnFree ==
  {<<"append", k2, 1>>, <<"hset", k2, f2, 2>>, <<"lpush", k2, 0>>, <<"sadd", k2, 1>>, <<"zadd", k2, 2, 1>>}

AllCommands == OnOne(k1) \cup OnFree \cup OnTwo
Sets == {<<"set", k1, 0>>, <<"set", k1, 2>>}

-----------------------------------------------------------------------------
\* The names the keys and fields stand for: a number with zeros, one that can
\* be compressed, none at all, and one too long for a length of six bits.
Name ==
  [x \in {k1, k2, f1, f2} |->
     CASE x = k1 -> <<48, 48, 55>>
       [] x = k2 -> [i \in 1..25 |-> 97 + (i % 3)]
       [] x = f1 -> <<>>
       [] x = f2 -> [i \in 1..64 |-> 60 + i]]
\* A hash table without collisions, empty at first: the last place before i with
\* the same three bytes.
Latest(s) ==
  LET same(i) == {r \in 1..(i - 1) : i + 2 <= Len(s) /\ SubSeq(s, r, r + 2) = SubSeq(s, i, i + 2)}
  IN  [i \in DOMAIN s |-> IF same(i) = {} THEN 0 ELSE CHOOSE r \in same(i) : \A q \in same(i) : q <= r]
\* Numbers for each width an integer is stored in; as scores also fractions,
\* and what is no number.
Figures == <<0, -300, 70000, 7, -128>>
Text(x) ==
  IF x = blank THEN <<>> ELSE IF x \in {k1, k2, f1, f2} THEN Name[x] ELSE Decimal(Figures[x + 1])
NoText == {blank}
Scores == <<NegInf, <<-305, 2>>, PosInf, <<7, 0>>, <<5, 3>>>>

InBytes(val) ==
  LET Renamed(f, To(_)) == [t \in {Text(x) : x \in DOMAIN f} |->
                              To(f[CHOOSE x \in DOMAIN f : Text(x) = t])]
      rendered == CASE val.type = "string" -> Text(val.content)
                    [] val.type = "list" -> [i \in DOMAIN val.content |-> Text(val.content[i])]
                    [] val.type = "set" -> {Text(x) : x \in val.content}
                    [] val.type = "zset" -> Renamed(val.content, LAMBDA x : Scores[x + 1])
                    [] val.type = "hash" -> Renamed(val.content, Text)
  IN  [val EXCEPT !.content = rendered]
StoreInBytes(st) ==
  [d \in DBs |-> [t \in {Text(k) : k \in DOMAIN st[d]} |->
                    InBytes(st[d][CHOOSE k \in DOMAIN st[d] : Text(k) = t])]]

\* A dump of what commands have made of the store restores it on a server that
\* holds other data, here the slave while it lags; and neither a file that is
\* cut off nor the file of a disk that becomes full passes for a dump
\* (RedisSave and RedisLoad, snapshot.cpp).
SnapshotsSound ==
  cmds + events <= MaxDumped => Sound(StoreInBytes(store), StoreInBytes(replica))
=============================================================================
