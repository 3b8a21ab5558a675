------------------------------ MODULE Commands ------------------------------
(***************************************************************************)
(* The handlers of the commands that write (src/command/*.cpp).  A command *)
(* is a name and its arguments.  A handler has a set of outcomes, each     *)
(* with the store it leaves, the keys it passes to FireKeyChangedEvent     *)
(* (none: nothing is logged) and the command that is to be logged, its own *)
(* or the one RewriteClientCommand replaced it by.                         *)
(***************************************************************************)
EXTENDS Store

CONSTANT Blanks   \* elements of lists that are empty strings

Outcome(st, fired, c) == {[kv |-> st, fired |-> fired, cmd |-> c]}
\* An error reply, or a reply that nothing was changed.
Refused(st, c) == Outcome(st, {}, c)
\* The store changes and the keys K of database d are announced.
Changed(st, d, K, c) == Outcome(st, {<<d, k>> : k \in K}, c)

-----------------------------------------------------------------------------
(***************************************************************************)
(* Strings (t_string.cpp, hyperloglog.cpp).                                *)
(***************************************************************************)
\* Commands that change a string by what it holds: all of them announce the
\* key when the store accepts the type.
Edit(st, d, c, k, v) ==
  IF Fits(st, d, k, "string")
  THEN Changed(Update(st, d, k, "string", v), d, {k}, c)
  ELSE Refused(st, c)

Append_(st, d, c) == Edit(st, d, c, c[2], Mixed(Get(st, d, c[2], 0), c[3]))
SetBit(st, d, c) == Edit(st, d, c, c[2], Mixed(Get(st, d, c[2], 0), c[3] + c[4]))
PFAdd(st, d, c) == Edit(st, d, c, c[2], Mixed(Get(st, d, c[2], 0), c[3]))
IncrDecr(st, d, c, incr) == Edit(st, d, c, c[2], Plus(Get(st, d, c[2], 0), incr))

\* Announced only when bytes were written, so not for a key that does not exist.
SetRange(st, d, c) ==
  IF Has(st, d, c[2])
  THEN Edit(st, d, c, c[2], Mixed(Get(st, d, c[2], 0), c[3] + c[4]))
  ELSE Refused(st, c)

PFMerge(st, d, c) ==
  IF Fits(st, d, c[3], "string")
  THEN Edit(st, d, c, c[2], Mixed(Get(st, d, c[2], 0), Get(st, d, c[3], 0)))
  ELSE Refused(st, c)

\* The key that is announced is the name of the operation, args[0].
Bitop(st, d, c) ==
  IF Fits(st, d, c[4], "string")
  THEN Changed(Overwrite(st, d, c[3], Value("string", Mixed(0, Get(st, d, c[4], 0)))),
               d, {c[2]}, c)
  ELSE Refused(st, c)

\* The rewritten command takes the increment, args[1], for the key.
IncrbyFloat(st, d, c) ==
  IF Fits(st, d, c[2], "string")
  THEN LET val == Plus(Get(st, d, c[2], 0), c[3])
       IN  Changed(Update(st, d, c[2], "string", val), d, {c[2]}, <<"set", c[3], val>>)
  ELSE Refused(st, c)

GetSet(st, d, c) ==
  IF Fits(st, d, c[2], "string")
  THEN Changed(Overwrite(st, d, c[2], Value("string", c[3])), d, {c[2]}, c)
  ELSE Refused(st, c)

\* SET key value [nx | xx | ex].
Set(st, d, c) ==
  LET option == IF Len(c) > 3 THEN c[4] ELSE "none"
      val    == Timed("string", c[3], option = "ex")
  IN  IF \/ option = "nx" /\ Has(st, d, c[2])
         \/ option = "xx" /\ ~Has(st, d, c[2])
      THEN Refused(st, c)
      ELSE Changed(Overwrite(st, d, c[2], val), d, {c[2]}, c)

SetNX(st, d, c) ==
  IF Has(st, d, c[2])
  THEN Refused(st, c)
  ELSE Changed(Overwrite(st, d, c[2], Value("string", c[3])), d, {c[2]}, c)
SetEX(st, d, c) ==
  Changed(Overwrite(st, d, c[2], Timed("string", c[4], TRUE)), d, {c[2]}, c)

\* MSET and MSETNX of two pairs; MSETNX sets both or none.
MSet(st, d, c) ==
  IF c[1] = "msetnx" /\ (Has(st, d, c[2]) \/ Has(st, d, c[4]))
  THEN Refused(st, c)
  ELSE Changed(Overwrite(Overwrite(st, d, c[2], Value("string", c[3])),
                         d, c[4], Value("string", c[5])),
               d, {c[2], c[4]}, c)

-----------------------------------------------------------------------------
(***************************************************************************)
(* Hashes (t_hash.cpp).                                                    *)
(***************************************************************************)
HChange(st, d, c, h, cmd) == Changed(Update(st, d, c[2], "hash", h), d, {c[2]}, cmd)

HDel(st, d, c) ==
  LET h == Get(st, d, c[2], Empty)
  IN  IF Fits(st, d, c[2], "hash") /\ c[3] \in DOMAIN h
      THEN HChange(st, d, c, Without(h, {c[3]}), c)
      ELSE Refused(st, c)

\* HSET and HMSET of one field.
HSet(st, d, c) ==
  IF Fits(st, d, c[2], "hash")
  THEN HChange(st, d, c, Put(Get(st, d, c[2], Empty), c[3], c[4]), c)
  ELSE Refused(st, c)

HSetNX(st, d, c) ==
  IF Fits(st, d, c[2], "hash") /\ c[3] \in DOMAIN Get(st, d, c[2], Empty)
  THEN Refused(st, c)
  ELSE HSet(st, d, c)

HPlus(st, d, c) ==
  LET h == Get(st, d, c[2], Empty)
  IN  Plus(IF c[3] \in DOMAIN h THEN h[c[3]] ELSE 0, c[4])

HIncrby(st, d, c) ==
  IF Fits(st, d, c[2], "hash")
  THEN HChange(st, d, c, Put(Get(st, d, c[2], Empty), c[3], HPlus(st, d, c)), c)
  ELSE Refused(st, c)

\* The rewritten command has the key and the value, and not the field.
HIncrbyFloat(st, d, c) ==
  IF Fits(st, d, c[2], "hash")
  THEN HChange(st, d, c, Put(Get(st, d, c[2], Empty), c[3], HPlus(st, d, c)),
               <<"hset", c[2], HPlus(st, d, c)>>)
  ELSE Refused(st, c)

-----------------------------------------------------------------------------
(***************************************************************************)
(* Lists (t_list.cpp); the blocking part of BLPOP and its kind is in       *)
(* BlockList.                                                              *)
(***************************************************************************)
LChange(st, d, c, l) == Changed(Update(st, d, c[2], "list", l), d, {c[2]}, c)
IsList(st, d, k) == Has(st, d, k) /\ Fits(st, d, k, "list")

\* LPUSH, LPUSHX, RPUSH, RPUSHX: the x forms leave a free key alone.
LPush(st, d, c) ==
  IF Fits(st, d, c[2], "list")
  THEN LChange(st, d, c, <<c[3]>> \o Get(st, d, c[2], <<>>))
  ELSE Refused(st, c)
RPush(st, d, c) ==
  IF Fits(st, d, c[2], "list")
  THEN LChange(st, d, c, Append(Get(st, d, c[2], <<>>), c[3]))
  ELSE Refused(st, c)
LPushx(st, d, c) == IF Has(st, d, c[2]) THEN LPush(st, d, c) ELSE Refused(st, c)
RPushx(st, d, c) == IF Has(st, d, c[2]) THEN RPush(st, d, c) ELSE Refused(st, c)

LPop(st, d, c) ==
  IF IsList(st, d, c[2])
  THEN LChange(st, d, c, Tail(Get(st, d, c[2], <<>>)))
  ELSE Refused(st, c)
RPop(st, d, c) ==
  IF IsList(st, d, c[2])
  THEN LChange(st, d, c, Front(Get(st, d, c[2], <<>>)))
  ELSE Refused(st, c)

LInsert(st, d, c) ==
  LET l == Get(st, d, c[2], <<>>)
      at == {i \in DOMAIN l : l[i] = c[4]}
      first == CHOOSE i \in at : \A j \in at : i <= j
  IN  IF IsList(st, d, c[2]) /\ c[4] \in Elements(l)
      THEN LChange(st, d, c, InsertBefore(l, IF c[3] = "before" THEN first ELSE first + 1, c[5]))
      ELSE Refused(st, c)

LRem(st, d, c) ==
  LET l == Get(st, d, c[2], <<>>)
  IN  IF IsList(st, d, c[2]) /\ c[4] \in Elements(l)
      THEN LChange(st, d, c, Others(l, c[4]))
      ELSE Refused(st, c)

\* LSET key index value; an index outside the list is an error.
LSet(st, d, c) ==
  IF IsList(st, d, c[2]) /\ c[3] + 1 \in DOMAIN Get(st, d, c[2], <<>>)
  THEN LChange(st, d, c, [Get(st, d, c[2], <<>>) EXCEPT ![c[3] + 1] = c[4]])
  ELSE Refused(st, c)

LTrim(st, d, c) ==
  IF IsList(st, d, c[2])
  THEN LChange(st, d, c, Slice(Get(st, d, c[2], <<>>), c[3], c[4]))
  ELSE Refused(st, c)

\* The store with the last element of list src moved to the front of dst.
Moved(st, d, src, dst) ==
  LET l == Get(st, d, src, <<>>)
      popped == Update(st, d, src, "list", Front(l))
  IN  Update(popped, d, dst, "list", <<Last(l)>> \o Get(popped, d, dst, <<>>))

\* RPOPLPUSH, and BRPOPLPUSH when it need not block: SetCommand changes the
\* name of the command to be logged and leaves it its third argument.
RPopLPush(st, d, c) ==
  IF IsList(st, d, c[2]) /\ Fits(st, d, c[3], "list")
  THEN Changed(Moved(st, d, c[2], c[3]), d, {c[2], c[3]}, [c EXCEPT ![1] = "rpoplpush"])
  ELSE Refused(st, c)

\* The element that is popped is an empty string.
Swallows(st, d, c) ==
  /\ c[1] \in {"blpop", "brpop"} /\ IsList(st, d, c[2])
  /\ LET l == Get(st, d, c[2], <<>>)
     IN  (IF c[1] = "blpop" THEN Head(l) ELSE Last(l)) \in Blanks

\* BLPOP and BRPOP of one key: logged as lpop or rpop.  An empty string is
\* taken for no element: it is gone, unannounced, and the client waits.
BLPop(st, d, c) ==
  LET pop == IF c[1] = "blpop" THEN LPop(st, d, <<"lpop", c[2]>>)
                               ELSE RPop(st, d, <<"rpop", c[2]>>)
  IN  IF Swallows(st, d, c)
      THEN UNION {Outcome(o.kv, {}, c) : o \in pop}
      ELSE pop

-----------------------------------------------------------------------------
(***************************************************************************)
(* Sets (t_set.cpp).                                                       *)
(***************************************************************************)
SChange(st, d, c, S, cmd) == Changed(Update(st, d, c[2], "set", S), d, {c[2]}, cmd)

SAdd(st, d, c) ==
  LET S == Get(st, d, c[2], {})
  IN  IF Fits(st, d, c[2], "set") /\ c[3] \notin S
      THEN SChange(st, d, c, S \cup {c[3]}, c)
      ELSE Refused(st, c)

SRem(st, d, c) ==
  LET S == Get(st, d, c[2], {})
  IN  IF Fits(st, d, c[2], "set") /\ c[3] \in S
      THEN SChange(st, d, c, S \ {c[3]}, c)
      ELSE Refused(st, c)

\* (mutant of SPop: the command is logged as it came)
SPopUnchanged(st, d, c) ==
  LET S == Get(st, d, c[2], {})
  IN  IF Fits(st, d, c[2], "set") /\ S # {}
      THEN UNION {SChange(st, d, c, S \ {x}, c) : x \in S}
      ELSE Refused(st, c)

\* Any member; it is logged as the removal of that member.
SPop(st, d, c) ==
  LET S == Get(st, d, c[2], {})
  IN  IF Fits(st, d, c[2], "set") /\ S # {}
      THEN UNION {SChange(st, d, c, S \ {x}, <<"srem", c[2], x>>) : x \in S}
      ELSE Refused(st, c)

\* (mutant of SMove: the destination is not announced)
SMoveSilent(st, d, c) ==
  IF Fits(st, d, c[2], "set") /\ Fits(st, d, c[3], "set") /\ c[4] \in Get(st, d, c[2], {})
  THEN LET taken == Update(st, d, c[2], "set", Get(st, d, c[2], {}) \ {c[4]})
       IN  Changed(Update(taken, d, c[3], "set", Get(taken, d, c[3], {}) \cup {c[4]}),
                   d, {c[2]}, c)
  ELSE Refused(st, c)

SMove(st, d, c) ==
  IF Fits(st, d, c[2], "set") /\ Fits(st, d, c[3], "set") /\ c[4] \in Get(st, d, c[2], {})
  THEN LET taken == Update(st, d, c[2], "set", Get(st, d, c[2], {}) \ {c[4]})
       IN  Changed(Update(taken, d, c[3], "set", Get(taken, d, c[3], {}) \cup {c[4]}),
                   d, {c[2], c[3]}, c)
  ELSE Refused(st, c)

\* SDIFFSTORE, SINTERSTORE, SUNIONSTORE of two keys.  An empty result clears
\* the destination and is neither announced nor logged.
SStore(st, d, c, S) ==
  IF ~Fits(st, d, c[3], "set") \/ ~Fits(st, d, c[4], "set")
  THEN Refused(st, c)
  ELSE IF S = {}
       THEN Outcome(Del(st, d, {c[2]}), {}, c)
       ELSE Changed(Overwrite(st, d, c[2], Value("set", S)), d, {c[2]}, c)

SDiffStore(st, d, c) == SStore(st, d, c, Get(st, d, c[3], {}) \ Get(st, d, c[4], {}))
SInterStore(st, d, c) == SStore(st, d, c, Get(st, d, c[3], {}) \cap Get(st, d, c[4], {}))
SUnionStore(st, d, c) == SStore(st, d, c, Get(st, d, c[3], {}) \cup Get(st, d, c[4], {}))

-----------------------------------------------------------------------------
(***************************************************************************)
(* Sorted sets (t_zset.cpp) and points (geo.cpp).                          *)
(***************************************************************************)
ZChange(st, d, c, z) == Changed(Update(st, d, c[2], "zset", z), d, {c[2]}, c)

ZAdd(st, d, c) ==
  IF Fits(st, d, c[2], "zset")
  THEN ZChange(st, d, c, Put(Get(st, d, c[2], Empty), c[4], c[3]))
  ELSE Refused(st, c)

ZIncrby(st, d, c) ==
  LET z == Get(st, d, c[2], Empty)
  IN  IF Fits(st, d, c[2], "zset")
      THEN ZChange(st, d, c, Put(z, c[4], Plus(IF c[4] \in DOMAIN z THEN z[c[4]] ELSE 0, c[3])))
      ELSE Refused(st, c)

\* The members Z leave; nothing is announced when there are none.
ZRemove(st, d, c, Z) ==
  IF Fits(st, d, c[2], "zset") /\ Z # {}
  THEN ZChange(st, d, c, Without(Get(st, d, c[2], Empty), Z))
  ELSE Refused(st, c)

ZRem(st, d, c) == ZRemove(st, d, c, {c[3]} \cap DOMAIN Get(st, d, c[2], Empty))
ZRemRangeByScore(st, d, c) ==
  ZRemove(st, d, c, {x \in DOMAIN Get(st, d, c[2], Empty) :
                       Get(st, d, c[2], Empty)[x] \in c[3]..c[4]})
\* Ranks and names are taken as one order: that of the members.
ZRemRangeByLex(st, d, c) ==
  ZRemove(st, d, c, DOMAIN Get(st, d, c[2], Empty) \cap c[3]..c[4])
ZRemRangeByRank(st, d, c) ==
  LET Z == DOMAIN Get(st, d, c[2], Empty)
  IN  ZRemove(st, d, c, {x \in Z : Cardinality({y \in Z : y < x}) \in c[3]..c[4]})

\* ZINTERSTORE and ZUNIONSTORE of two keys, by sum: no key event at all.
ZInterStore(st, d, c) ==
  LET x == Get(st, d, c[4], Empty)
      y == Get(st, d, c[5], Empty)
      Z == IF c[1] = "zinterstore" THEN DOMAIN x \cap DOMAIN y ELSE DOMAIN x \cup DOMAIN y
      score(z, m) == IF m \in DOMAIN z THEN z[m] ELSE 0
  IN  IF Fits(st, d, c[4], "zset") /\ Fits(st, d, c[5], "zset")
      THEN Outcome(Update(st, d, c[2], "zset",
                          [m \in Z |-> Plus(score(x, m), score(y, m))]), {}, c)
      ELSE Refused(st, c)

\* The points that are read are never put into the array that is stored.
GeoAdd(st, d, c) == Refused(st, c)

-----------------------------------------------------------------------------
(***************************************************************************)
(* Keys (keys.cpp), SORT ... STORE (sort.cpp), FLUSHDB and FLUSHALL        *)
(* (server.cpp).                                                           *)
(***************************************************************************)
Del_(st, d, c) ==
  IF \E i \in 2..Len(c) : Has(st, d, c[i])
  THEN LET K == {c[i] : i \in 2..Len(c)} IN Changed(Del(st, d, K), d, K, c)
  ELSE Refused(st, c)

Rename(st, d, c) ==
  IF Has(st, d, c[2])
  THEN Changed(Del(Overwrite(st, d, c[3], st[d][c[2]]), d, {c[2]} \ {c[3]}),
               d, {c[2], c[3]}, c)
  ELSE Refused(st, c)

RenameNX(st, d, c) == IF Has(st, d, c[3]) THEN Refused(st, c) ELSE Rename(st, d, c)

\* MOVE key db: announced in both databases, logged for the source.
Move(st, d, c) ==
  IF Has(st, d, c[2]) /\ ~Has(st, c[3], c[2])
  THEN Outcome(Del(Overwrite(st, c[3], c[2], st[d][c[2]]), d, {c[2]}),
               {<<d, c[2]>>, <<c[3], c[2]>>}, c)
  ELSE Refused(st, c)

Persist(st, d, c) ==
  IF Has(st, d, c[2]) /\ st[d][c[2]].ttl
  THEN Changed(SetTTL(st, d, c[2], FALSE), d, {c[2]}, c)
  ELSE Refused(st, c)

\* EXPIRE, PEXPIRE, EXPIREAT, PEXPIREAT.
Expire(st, d, c) ==
  IF Has(st, d, c[2])
  THEN Changed(SetTTL(st, d, c[2], TRUE), d, {c[2]}, c)
  ELSE Refused(st, c)

\* SORT of a set into a list; an empty result is neither announced nor logged.
Sort(st, d, c) ==
  IF ~Has(st, d, c[2])
  THEN Outcome(Del(st, d, {c[3]}), {}, c)
  ELSE IF Fits(st, d, c[2], "set")
       THEN Changed(Overwrite(st, d, c[3], Value("list", Sorted(st[d][c[2]].content))), d, {c[3]}, c)
       ELSE Refused(st, c)

FlushDB(st, d, c) == Outcome([st EXCEPT ![d] = Empty], {}, c)
FlushAll(st, d, c) == Outcome([x \in DBs |-> Empty], {}, c)

-----------------------------------------------------------------------------
(***************************************************************************)
(* The table of handlers (comms.cpp): fewest and most arguments, -1 for no *)
(* limit, and the handler of each command that writes.                     *)
(***************************************************************************)
Any == -1
Arity ==
  [append |-> <<2, 2>>, set |-> <<2, 7>>, del |-> <<1, Any>>, expire |-> <<2, 2>>,
   persist |-> <<1, 1>>, bitop |-> <<3, Any>>, incr |-> <<1, 1>>, decrby |-> <<2, 2>>,
   incrbyfloat |-> <<2, 2>>, getset |-> <<2, 2>>, mset |-> <<2, Any>>, msetnx |-> <<2, Any>>,
   setex |-> <<3, 3>>, setbit |-> <<3, 3>>, setnx |-> <<2, 2>>, setrange |-> <<3, 3>>,
   hdel |-> <<2, Any>>, hincrby |-> <<3, 3>>, hincrbyfloat |-> <<3, 3>>, hset |-> <<3, 3>>,
   hsetnx |-> <<3, 3>>, hmset |-> <<3, Any>>, sadd |-> <<2, Any>>, sdiffstore |-> <<3, Any>>,
   sinterstore |-> <<3, Any>>, sunionstore |-> <<3, Any>>, smove |-> <<3, 3>>, spop |-> <<1, 1>>,
   srem |-> <<2, Any>>, zadd |-> <<3, Any>>, zincrby |-> <<3, 3>>, zrem |-> <<2, Any>>,
   zremrangebyrank |-> <<3, 3>>, zremrangebyscore |-> <<3, 3>>, zremrangebylex |-> <<3, 3>>,
   zinterstore |-> <<3, Any>>, zunionstore |-> <<3, Any>>, linsert |-> <<4, 4>>, lpop |-> <<1, 1>>,
   lpush |-> <<2, Any>>, lpushx |-> <<2, 2>>, lrem |-> <<3, 3>>, lset |-> <<3, 3>>, ltrim |-> <<3, 3>>,
   rpop |-> <<1, 1>>, rpush |-> <<2, Any>>, rpushx |-> <<2, 2>>, rpoplpush |-> <<2, 2>>,
   blpop |-> <<2, Any>>, brpop |-> <<2, Any>>, brpoplpush |-> <<3, 3>>, move |-> <<2, 2>>,
   rename |-> <<2, 2>>, renamenx |-> <<2, 2>>, sort |-> <<1, Any>>, geoadd |-> <<5, Any>>,
   pfadd |-> <<2, Any>>, pfmerge |-> <<2, Any>>, flushdb |-> <<0, 0>>, flushall |-> <<0, 0>>,
   select |-> <<1, 1>>]

ArityOK(c) ==
  LET n == Len(c) - 1
  IN  n >= Arity[c[1]][1] /\ (Arity[c[1]][2] # Any => n <= Arity[c[1]][2])

Handler(st, d, c) ==
  CASE c[1] = "append" -> Append_(st, d, c)
    [] c[1] = "set" -> Set(st, d, c)
    [] c[1] = "setnx" -> SetNX(st, d, c)
    [] c[1] = "setex" -> SetEX(st, d, c)
    [] c[1] = "getset" -> GetSet(st, d, c)
    [] c[1] = "setrange" -> SetRange(st, d, c)
    [] c[1] = "setbit" -> SetBit(st, d, c)
    [] c[1] = "bitop" -> Bitop(st, d, c)
    [] c[1] = "incr" -> IncrDecr(st, d, c, 1)
    [] c[1] = "decrby" -> IncrDecr(st, d, c, -c[3])
    [] c[1] = "incrbyfloat" -> IncrbyFloat(st, d, c)
    [] c[1] \in {"mset", "msetnx"} -> MSet(st, d, c)
    [] c[1] = "pfadd" -> PFAdd(st, d, c)
    [] c[1] = "pfmerge" -> PFMerge(st, d, c)
    [] c[1] = "hdel" -> HDel(st, d, c)
    [] c[1] \in {"hset", "hmset"} -> HSet(st, d, c)
    [] c[1] = "hsetnx" -> HSetNX(st, d, c)
    [] c[1] = "hincrby" -> HIncrby(st, d, c)
    [] c[1] = "hincrbyfloat" -> HIncrbyFloat(st, d, c)
    [] c[1] = "lpush" -> LPush(st, d, c)
    [] c[1] = "rpush" -> RPush(st, d, c)
    [] c[1] = "lpushx" -> LPushx(st, d, c)
    [] c[1] = "rpushx" -> RPushx(st, d, c)
    [] c[1] = "lpop" -> LPop(st, d, c)
    [] c[1] = "rpop" -> RPop(st, d, c)
    [] c[1] = "linsert" -> LInsert(st, d, c)
    [] c[1] = "lrem" -> LRem(st, d, c)
    [] c[1] = "lset" -> LSet(st, d, c)
    [] c[1] = "ltrim" -> LTrim(st, d, c)
    [] c[1] \in {"rpoplpush", "brpoplpush"} -> RPopLPush(st, d, c)
    [] c[1] \in {"blpop", "brpop"} -> BLPop(st, d, c)
    [] c[1] = "sadd" -> SAdd(st, d, c)
    [] c[1] = "srem" -> SRem(st, d, c)
    [] c[1] = "spop" -> SPop(st, d, c)
    [] c[1] = "smove" -> SMove(st, d, c)
    [] c[1] = "sdiffstore" -> SDiffStore(st, d, c)
    [] c[1] = "sinterstore" -> SInterStore(st, d, c)
    [] c[1] = "sunionstore" -> SUnionStore(st, d, c)
    [] c[1] = "zadd" -> ZAdd(st, d, c)
    [] c[1] = "zincrby" -> ZIncrby(st, d, c)
    [] c[1] = "zrem" -> ZRem(st, d, c)
    [] c[1] = "zremrangebyscore" -> ZRemRangeByScore(st, d, c)
    [] c[1] = "zremrangebyrank" -> ZRemRangeByRank(st, d, c)
    [] c[1] = "zremrangebylex" -> ZRemRangeByLex(st, d, c)
    [] c[1] \in {"zinterstore", "zunionstore"} -> ZInterStore(st, d, c)
    [] c[1] = "geoadd" -> GeoAdd(st, d, c)
    [] c[1] = "del" -> Del_(st, d, c)
    [] c[1] = "rename" -> Rename(st, d, c)
    [] c[1] = "renamenx" -> RenameNX(st, d, c)
    [] c[1] = "move" -> Move(st, d, c)
    [] c[1] = "persist" -> Persist(st, d, c)
    [] c[1] = "expire" -> Expire(st, d, c)
    [] c[1] = "sort" -> Sort(st, d, c)
    [] c[1] = "flushdb" -> FlushDB(st, d, c)
    [] c[1] = "flushall" -> FlushAll(st, d, c)
=============================================================================
