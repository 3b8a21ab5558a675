-------------------------- MODULE CommandLogProofs --------------------------
(***************************************************************************)
(* Proofs about the commands and how a slave repeats them.                 *)
(***************************************************************************)
EXTENDS CommandLog, SequenceTheorems, TLAPS

-----------------------------------------------------------------------------
(***************************************************************************)
(* Stores.                                                                 *)
(***************************************************************************)
\* Two stores hold the same under a key.
SameAt(x, y, d, k) == (Has(x, d, k) <=> Has(y, d, k)) /\ (Has(x, d, k) => x[d][k] = y[d][k])

\* The store y is x but for the keys K of database d.
Written(y, x, d, K) ==
  IsStore(y) /\ \A e \in DBs : \A j : ~(e = d /\ j \in K) => SameAt(y, x, e, j)

LEMMA SameKept ==
  ASSUME NEW x, NEW y, NEW d, NEW k, SameAt(x, y, d, k)
  PROVE  /\ Has(x, d, k) <=> Has(y, d, k)
         /\ \A t : Fits(x, d, k, t) <=> Fits(y, d, k, t)
         /\ \A f : Get(x, d, k, f) = Get(y, d, k, f)
         /\ Has(x, d, k) => x[d][k] = y[d][k]
  BY DEF SameAt, Fits, Get

LEMMA PutFacts ==
  \A f, k, v : /\ Put(f, k, v) = [j \in DOMAIN Put(f, k, v) |-> Put(f, k, v)[j]]
               /\ \A j : j \in DOMAIN Put(f, k, v) <=> j \in DOMAIN f \/ j = k
               /\ Put(f, k, v)[k] = v
               /\ \A j \in DOMAIN f : j # k => Put(f, k, v)[j] = f[j]
  BY DEF Put

LEMMA WithoutFacts ==
  \A f, K : /\ Without(f, K) = [j \in DOMAIN Without(f, K) |-> Without(f, K)[j]]
            /\ \A j : j \in DOMAIN Without(f, K) <=> j \in DOMAIN f /\ j \notin K
            /\ \A j \in DOMAIN Without(f, K) : Without(f, K)[j] = f[j]
  BY DEF Without

\* What a database is; one is replaced by another.
IsDb(f) == f = [k \in DOMAIN f |-> f[k]] /\ \A k \in DOMAIN f : IsValue(f[k])

LEMMA ReplaceFacts ==
  ASSUME NEW x, IsStore(x), NEW d \in DBs, NEW f, IsDb(f)
  PROVE  /\ IsStore([x EXCEPT ![d] = f])
         /\ [x EXCEPT ![d] = f][d] = f
         /\ \A e \in DBs : e # d => [x EXCEPT ![d] = f][e] = x[e]
<1> DEFINE y == [x EXCEPT ![d] = f]
<1>1. DOMAIN x = DBs
  BY DEF IsStore
<1>2. /\ DOMAIN y = DBs /\ y[d] = f /\ \A e \in DBs : e # d => y[e] = x[e]
      /\ y = [e \in DBs |-> y[e]]
  BY <1>1
<1>3. \A e \in DBs : y[e] = [k \in DOMAIN y[e] |-> y[e][k]]
  <2>1. \A e \in DBs : x[e] = [k \in DOMAIN x[e] |-> x[e][k]]
    BY DEF IsStore
  <2> QED BY <1>2, <2>1 DEF IsDb
<1>4. \A e \in DBs : \A k \in DOMAIN y[e] : IsValue(y[e][k])
  BY <1>2 DEF IsStore, IsDb
<1>5. y = [e \in DBs |-> [k \in DOMAIN y[e] |-> y[e][k]]]
  BY <1>2, <1>3
<1> QED BY <1>2, <1>4, <1>5 DEF IsStore

LEMMA OverwriteFacts ==
  ASSUME NEW x, IsStore(x), NEW d \in DBs, NEW k, NEW v, IsValue(v)
  PROVE  Written(Overwrite(x, d, k, v), x, d, {k})
<1> DEFINE f == Put(x[d], k, v)  y == Overwrite(x, d, k, v)
<1>1. DOMAIN x = DBs /\ y = [x EXCEPT ![d] = f]
  BY DEF IsStore, Overwrite
<1>2. IsDb(f)
  BY PutFacts DEF IsStore, IsDb
<1>3. IsStore(y) /\ y[d] = f /\ \A e \in DBs : e # d => y[e] = x[e]
  <2> HIDE DEF f, y
  <2> QED BY <1>1, <1>2, ReplaceFacts
<1>4. \A e \in DBs : \A j : ~(e = d /\ j \in {k}) => SameAt(y, x, e, j)
  BY <1>3, PutFacts DEF SameAt, Has
<1> QED BY <1>3, <1>4 DEF Written

LEMMA Overwritten ==
  ASSUME NEW x, IsStore(x), NEW d \in DBs, NEW k, NEW v
  PROVE  Has(Overwrite(x, d, k, v), d, k) /\ Overwrite(x, d, k, v)[d][k] = v
<1>1. DOMAIN x = DBs
  BY DEF IsStore
<1> QED BY <1>1, PutFacts DEF Overwrite, Has

LEMMA DelFacts ==
  ASSUME NEW x, IsStore(x), NEW d \in DBs, NEW K
  PROVE  Written(Del(x, d, K), x, d, K) /\ \A k \in K : ~Has(Del(x, d, K), d, k)
<1> DEFINE f == Without(x[d], K)  y == Del(x, d, K)
<1>1. DOMAIN x = DBs /\ y = [x EXCEPT ![d] = f]
  BY DEF IsStore, Del
<1>2. IsDb(f)
  BY WithoutFacts DEF IsStore, IsDb
<1>3. IsStore(y) /\ y[d] = f /\ \A e \in DBs : e # d => y[e] = x[e]
  <2> HIDE DEF f, y
  <2> QED BY <1>1, <1>2, ReplaceFacts
<1>4. \A e \in DBs : \A j : ~(e = d /\ j \in K) => SameAt(y, x, e, j)
  BY <1>3, WithoutFacts DEF SameAt, Has
<1>5. \A k \in K : k \notin DOMAIN f
  BY WithoutFacts
<1> QED BY <1>3, <1>4, <1>5 DEF Written, Has

\* What becomes of a key depends on what it held and not on the store.
LEMMA OverwriteSame ==
  ASSUME NEW x, NEW y, IsStore(x), IsStore(y), NEW d \in DBs, NEW k, NEW v
  PROVE  SameAt(Overwrite(x, d, k, v), Overwrite(y, d, k, v), d, k)
<1>1. Has(Overwrite(x, d, k, v), d, k) /\ Overwrite(x, d, k, v)[d][k] = v
  BY Overwritten
<1>2. Has(Overwrite(y, d, k, v), d, k) /\ Overwrite(y, d, k, v)[d][k] = v
  BY Overwritten
<1> QED BY <1>1, <1>2 DEF SameAt

LEMMA DelSame ==
  ASSUME NEW x, NEW y, IsStore(x), IsStore(y), NEW d \in DBs, NEW K, NEW k \in K
  PROVE  SameAt(Del(x, d, K), Del(y, d, K), d, k)
  BY DelFacts DEF SameAt

LEMMA UpdateFacts ==
  ASSUME NEW x, IsStore(x), NEW d \in DBs, NEW k, NEW t, NEW v
  PROVE  Written(Update(x, d, k, t, v), x, d, {k})
<1> DEFINE w == Timed(t, v, Has(x, d, k) /\ x[d][k].ttl)
<1>1. IsValue(w)
  BY DEF Timed, IsValue
<1>2. Update(x, d, k, t, v) \in {Del(x, d, {k}), Overwrite(x, d, k, w)}
  BY DEF Update
<1>3. Written(Del(x, d, {k}), x, d, {k})
  BY DelFacts
<1>4. Written(Overwrite(x, d, k, w), x, d, {k})
  BY <1>1, OverwriteFacts
<1> QED BY <1>2, <1>3, <1>4

LEMMA UpdateSame ==
  ASSUME NEW x, NEW y, IsStore(x), IsStore(y), NEW d \in DBs, NEW k, SameAt(x, y, d, k),
         NEW t, NEW v
  PROVE  SameAt(Update(x, d, k, t, v), Update(y, d, k, t, v), d, k)
<1> DEFINE w(st) == Timed(t, v, Has(st, d, k) /\ st[d][k].ttl)
<1>1. w(x) = w(y) /\ IsValue(w(x))
  BY DEF Timed, IsValue, SameAt
<1>2. SameAt(Overwrite(x, d, k, w(x)), Overwrite(y, d, k, w(x)), d, k)
  BY <1>1, OverwriteSame
<1>3. SameAt(Del(x, d, {k}), Del(y, d, {k}), d, k)
  BY DelSame
<1> QED BY <1>1, <1>2, <1>3 DEF Update

LEMMA SetTTLFacts ==
  ASSUME NEW x, IsStore(x), NEW d \in DBs, NEW k, NEW b
  PROVE  Written(SetTTL(x, d, k, b), x, d, {k})
<1>1. IsValue(Timed(x[d][k].type, x[d][k].content, b))
  BY DEF IsValue, Timed
<1> QED BY <1>1, OverwriteFacts DEF SetTTL

LEMMA SetTTLSame ==
  ASSUME NEW x, NEW y, IsStore(x), IsStore(y), NEW d \in DBs, NEW k, SameAt(x, y, d, k),
         Has(x, d, k), NEW b
  PROVE  SameAt(SetTTL(x, d, k, b), SetTTL(y, d, k, b), d, k)
<1>1. IsValue(Timed(x[d][k].type, x[d][k].content, b)) /\ x[d][k] = y[d][k]
  BY DEF IsValue, Timed, SameAt
<1> QED BY <1>1, OverwriteSame DEF SetTTL

-----------------------------------------------------------------------------
(***************************************************************************)
(* Outcomes.                                                               *)
(***************************************************************************)
Events(d, K) == {<<d, k>> : k \in K}

\* o leaves x, or changes the keys K of database d and announces them.
Made(o, x, d, K, c) ==
  /\ Written(o.kv, x, d, K) /\ o.cmd = c
  /\ o.fired = Events(d, K) \/ (o.fired = {} /\ o.kv = x)

\* The outcomes X of x and Y of y make the same of the keys K.
Repeats(X, Y, x, y, d, K, c) ==
  \A o \in X : \A p \in Y :
    /\ Made(o, x, d, K, c) /\ Made(p, y, d, K, c)
    /\ \A k \in K : SameAt(o.kv, p.kv, d, k)

Pre(x, y, d, k) == IsStore(x) /\ IsStore(y) /\ d \in DBs /\ SameAt(x, y, d, k)

LEMMA ChangedRepeats ==
  ASSUME NEW x, NEW y, NEW d, NEW K, NEW c, NEW a, NEW b,
         Written(a, x, d, K), Written(b, y, d, K), \A k \in K : SameAt(a, b, d, k)
  PROVE  Repeats(Changed(a, d, K, c), Changed(b, d, K, c), x, y, d, K, c)
<1>1. /\ Changed(a, d, K, c) = {[kv |-> a, fired |-> Events(d, K), cmd |-> c]}
      /\ Changed(b, d, K, c) = {[kv |-> b, fired |-> Events(d, K), cmd |-> c]}
  BY DEF Changed, Outcome, Events
<1>2. \A o \in Changed(a, d, K, c) : o.kv = a /\ o.fired = Events(d, K) /\ o.cmd = c
  BY <1>1
<1>3. \A p \in Changed(b, d, K, c) : p.kv = b /\ p.fired = Events(d, K) /\ p.cmd = c
  BY <1>1
<1>4. ASSUME NEW o \in Changed(a, d, K, c), NEW p \in Changed(b, d, K, c)
      PROVE  Made(o, x, d, K, c) /\ Made(p, y, d, K, c) /\ \A k \in K : SameAt(o.kv, p.kv, d, k)
  <2>1. /\ o.kv = a /\ o.fired = Events(d, K) /\ o.cmd = c
        /\ p.kv = b /\ p.fired = Events(d, K) /\ p.cmd = c
    BY <1>2, <1>3
  <2>2. Made(o, x, d, K, c)
    BY <2>1 DEF Made
  <2>3. Made(p, y, d, K, c)
    BY <2>1 DEF Made
  <2> QED BY <2>1, <2>2, <2>3
<1> QED BY <1>4 DEF Repeats

LEMMA RefusedRepeats ==
  ASSUME NEW x, NEW y, IsStore(x), IsStore(y), NEW d, NEW K, NEW c, \A k \in K : SameAt(x, y, d, k)
  PROVE  Repeats(Refused(x, c), Refused(y, c), x, y, d, K, c)
<1>1. /\ Refused(x, c) = {[kv |-> x, fired |-> {}, cmd |-> c]}
      /\ Refused(y, c) = {[kv |-> y, fired |-> {}, cmd |-> c]}
  BY DEF Refused, Outcome
<1>2. Written(x, x, d, K) /\ Written(y, y, d, K)
  BY DEF Written, SameAt
<1> QED BY <1>1, <1>2 DEF Repeats, Made

LEMMA Refuses ==
  ASSUME NEW x, NEW y, NEW d, NEW k, Pre(x, y, d, k), NEW c
  PROVE  Repeats(Refused(x, c), Refused(y, c), x, y, d, {k}, c)
<1>1. \A j \in {k} : SameAt(x, y, d, j)
  BY DEF Pre
<1> QED BY <1>1, RefusedRepeats DEF Pre

LEMMA Updates ==
  ASSUME NEW x, NEW y, NEW d, NEW k, Pre(x, y, d, k), NEW t, NEW v, NEW c
  PROVE  Repeats(Changed(Update(x, d, k, t, v), d, {k}, c), Changed(Update(y, d, k, t, v), d, {k}, c),
                 x, y, d, {k}, c)
<1>1. Written(Update(x, d, k, t, v), x, d, {k}) /\ Written(Update(y, d, k, t, v), y, d, {k})
  BY UpdateFacts DEF Pre
<1>2. \A j \in {k} : SameAt(Update(x, d, k, t, v), Update(y, d, k, t, v), d, j)
  BY UpdateSame DEF Pre
<1> QED BY <1>1, <1>2, ChangedRepeats

LEMMA Overwrites ==
  ASSUME NEW x, NEW y, NEW d, NEW k, Pre(x, y, d, k), NEW v, IsValue(v), NEW c
  PROVE  Repeats(Changed(Overwrite(x, d, k, v), d, {k}, c), Changed(Overwrite(y, d, k, v), d, {k}, c),
                 x, y, d, {k}, c)
<1>1. Written(Overwrite(x, d, k, v), x, d, {k}) /\ Written(Overwrite(y, d, k, v), y, d, {k})
  BY OverwriteFacts DEF Pre
<1>2. \A j \in {k} : SameAt(Overwrite(x, d, k, v), Overwrite(y, d, k, v), d, j)
  BY OverwriteSame DEF Pre
<1> QED BY <1>1, <1>2, ChangedRepeats

LEMMA NewValue == \A t, v, b : IsValue(Timed(t, v, b)) /\ IsValue(Value(t, v))
  BY DEF IsValue, Value, Timed

\* What the handlers see of a key.
LEMMA Seen ==
  ASSUME NEW x, NEW y, NEW d, NEW k, Pre(x, y, d, k)
  PROVE  /\ Has(x, d, k) <=> Has(y, d, k)
         /\ \A t : Fits(x, d, k, t) <=> Fits(y, d, k, t)
         /\ \A f : Get(x, d, k, f) = Get(y, d, k, f)
         /\ Has(x, d, k) => x[d][k] = y[d][k]
  BY SameKept DEF Pre

-----------------------------------------------------------------------------
(***************************************************************************)
(* Strings.                                                                *)
(***************************************************************************)
LEMMA Edits ==
  ASSUME NEW x, NEW y, NEW d, NEW c, NEW k, Pre(x, y, d, k), NEW v
  PROVE  Repeats(Edit(x, d, c, k, v), Edit(y, d, c, k, v), x, y, d, {k}, c)
<1>1. Fits(x, d, k, "string") <=> Fits(y, d, k, "string")
  BY Seen
<1> QED BY <1>1, Updates, Refuses DEF Edit

LEMMA EditsOfOld ==
  ASSUME NEW x, NEW y, NEW d, NEW c, Pre(x, y, d, c[2])
  PROVE  /\ Repeats(Append_(x, d, c), Append_(y, d, c), x, y, d, {c[2]}, c)
         /\ Repeats(SetBit(x, d, c), SetBit(y, d, c), x, y, d, {c[2]}, c)
         /\ Repeats(PFAdd(x, d, c), PFAdd(y, d, c), x, y, d, {c[2]}, c)
         /\ \A i : Repeats(IncrDecr(x, d, c, i), IncrDecr(y, d, c, i), x, y, d, {c[2]}, c)
         /\ Repeats(SetRange(x, d, c), SetRange(y, d, c), x, y, d, {c[2]}, c)
<1>1. Get(x, d, c[2], 0) = Get(y, d, c[2], 0) /\ (Has(x, d, c[2]) <=> Has(y, d, c[2]))
  BY Seen
<1>2. \A v : Repeats(Edit(x, d, c, c[2], v), Edit(y, d, c, c[2], v), x, y, d, {c[2]}, c)
  BY Edits
<1>3. Repeats(Refused(x, c), Refused(y, c), x, y, d, {c[2]}, c)
  BY Refuses
<1>4. Repeats(Append_(x, d, c), Append_(y, d, c), x, y, d, {c[2]}, c)
  BY <1>1, <1>2 DEF Append_
<1>5. Repeats(SetBit(x, d, c), SetBit(y, d, c), x, y, d, {c[2]}, c)
  BY <1>1, <1>2 DEF SetBit
<1>6. Repeats(PFAdd(x, d, c), PFAdd(y, d, c), x, y, d, {c[2]}, c)
  BY <1>1, <1>2 DEF PFAdd
<1>7. \A i : Repeats(IncrDecr(x, d, c, i), IncrDecr(y, d, c, i), x, y, d, {c[2]}, c)
  BY <1>1, <1>2 DEF IncrDecr
<1>8. Repeats(SetRange(x, d, c), SetRange(y, d, c), x, y, d, {c[2]}, c)
  BY <1>1, <1>2, <1>3 DEF SetRange
<1> QED BY <1>4, <1>5, <1>6, <1>7, <1>8

LEMMA PFMergeRepeats ==
  ASSUME NEW x, NEW y, NEW d, NEW c, Pre(x, y, d, c[2]), Pre(x, y, d, c[3])
  PROVE  Repeats(PFMerge(x, d, c), PFMerge(y, d, c), x, y, d, {c[2]}, c)
<1>1. Get(x, d, c[2], 0) = Get(y, d, c[2], 0) /\ Get(x, d, c[3], 0) = Get(y, d, c[3], 0)
  BY Seen
<1>2. Fits(x, d, c[3], "string") <=> Fits(y, d, c[3], "string")
  BY Seen
<1>3. \A v : Repeats(Edit(x, d, c, c[2], v), Edit(y, d, c, c[2], v), x, y, d, {c[2]}, c)
  BY Edits
<1>4. Repeats(Refused(x, c), Refused(y, c), x, y, d, {c[2]}, c)
  BY Refuses
<1> QED BY <1>1, <1>2, <1>3, <1>4 DEF PFMerge

LEMMA SetsOfOne ==
  ASSUME NEW x, NEW y, NEW d, NEW c, Pre(x, y, d, c[2])
  PROVE  /\ Repeats(GetSet(x, d, c), GetSet(y, d, c), x, y, d, {c[2]}, c)
         /\ Repeats(Set(x, d, c), Set(y, d, c), x, y, d, {c[2]}, c)
         /\ Repeats(SetNX(x, d, c), SetNX(y, d, c), x, y, d, {c[2]}, c)
         /\ Repeats(SetEX(x, d, c), SetEX(y, d, c), x, y, d, {c[2]}, c)
<1>1. \A t, v, b :
        Repeats(Changed(Overwrite(x, d, c[2], Timed(t, v, b)), d, {c[2]}, c),
                Changed(Overwrite(y, d, c[2], Timed(t, v, b)), d, {c[2]}, c), x, y, d, {c[2]}, c)
  BY Overwrites, NewValue
<1>2. Repeats(Refused(x, c), Refused(y, c), x, y, d, {c[2]}, c)
  BY Refuses
<1>3. /\ Has(x, d, c[2]) <=> Has(y, d, c[2])
      /\ Fits(x, d, c[2], "string") <=> Fits(y, d, c[2], "string")
  BY Seen
<1>4. Repeats(GetSet(x, d, c), GetSet(y, d, c), x, y, d, {c[2]}, c)
  BY <1>1, <1>2, <1>3 DEF GetSet, Value
<1>5. Repeats(Set(x, d, c), Set(y, d, c), x, y, d, {c[2]}, c)
  BY <1>1, <1>2, <1>3 DEF Set
<1>6. Repeats(SetNX(x, d, c), SetNX(y, d, c), x, y, d, {c[2]}, c)
  BY <1>1, <1>2, <1>3 DEF SetNX, Value
<1>7. Repeats(SetEX(x, d, c), SetEX(y, d, c), x, y, d, {c[2]}, c)
  BY <1>1 DEF SetEX
<1> QED BY <1>4, <1>5, <1>6, <1>7

\* Writing one key after another.
LEMMA WrittenTwice ==
  ASSUME NEW x, NEW a, NEW b, NEW d, NEW j, NEW k, Written(a, x, d, {j}), Written(b, a, d, {k})
  PROVE  Written(b, x, d, {j, k})
  BY DEF Written, SameAt

\* What the first writing left is kept by the second, or overwritten.
LEMMA SameTwice ==
  ASSUME NEW a, NEW b, NEW v, NEW w, NEW d \in DBs, NEW j, NEW k,
         SameAt(a, b, d, j), Written(v, a, d, {k}), Written(w, b, d, {k}), SameAt(v, w, d, k)
  PROVE  \A i \in {j, k} : SameAt(v, w, d, i)
  BY DEF Written, SameAt

LEMMA MSetRepeats ==
  ASSUME NEW x, NEW y, NEW d, NEW c, Pre(x, y, d, c[2]), Pre(x, y, d, c[4])
  PROVE  Repeats(MSet(x, d, c), MSet(y, d, c), x, y, d, {c[2], c[4]}, c)
<1> DEFINE one(st) == Overwrite(st, d, c[2], Value("string", c[3]))
           two(st) == Overwrite(one(st), d, c[4], Value("string", c[5]))
<1>0. d \in DBs /\ IsStore(x) /\ IsStore(y)
  BY DEF Pre
<1>1. Written(one(x), x, d, {c[2]}) /\ Written(one(y), y, d, {c[2]}) /\ SameAt(one(x), one(y), d, c[2])
  BY <1>0, OverwriteFacts, OverwriteSame, NewValue
<1>2. IsStore(one(x)) /\ IsStore(one(y))
  BY <1>1 DEF Written
<1>3. Written(two(x), one(x), d, {c[4]}) /\ Written(two(y), one(y), d, {c[4]})
  BY <1>0, <1>2, OverwriteFacts, NewValue
<1>4. SameAt(two(x), two(y), d, c[4])
  BY <1>0, <1>2, OverwriteSame
<1>5. Written(two(x), x, d, {c[2], c[4]}) /\ Written(two(y), y, d, {c[2], c[4]})
  BY <1>1, <1>3, WrittenTwice
<1>6. \A i \in {c[2], c[4]} : SameAt(two(x), two(y), d, i)
  BY <1>0, <1>1, <1>3, <1>4, SameTwice
<1>7. Repeats(Changed(two(x), d, {c[2], c[4]}, c), Changed(two(y), d, {c[2], c[4]}, c), x, y, d, {c[2], c[4]}, c)
  BY <1>5, <1>6, ChangedRepeats
<1>8. Repeats(Refused(x, c), Refused(y, c), x, y, d, {c[2], c[4]}, c)
  <2>1. \A i \in {c[2], c[4]} : SameAt(x, y, d, i)
    BY DEF Pre
  <2> QED BY <1>0, <2>1, RefusedRepeats
<1>9. (Has(x, d, c[2]) <=> Has(y, d, c[2])) /\ (Has(x, d, c[4]) <=> Has(y, d, c[4]))
  BY Seen
<1> QED BY <1>7, <1>8, <1>9 DEF MSet

-----------------------------------------------------------------------------
(***************************************************************************)
(* Hashes.                                                                 *)
(***************************************************************************)
LEMMA HashRepeats ==
  ASSUME NEW x, NEW y, NEW d, NEW c, Pre(x, y, d, c[2])
  PROVE  /\ Repeats(HDel(x, d, c), HDel(y, d, c), x, y, d, {c[2]}, c)
         /\ Repeats(HSet(x, d, c), HSet(y, d, c), x, y, d, {c[2]}, c)
         /\ Repeats(HSetNX(x, d, c), HSetNX(y, d, c), x, y, d, {c[2]}, c)
         /\ Repeats(HIncrby(x, d, c), HIncrby(y, d, c), x, y, d, {c[2]}, c)
<1>1. \A h : Repeats(HChange(x, d, c, h, c), HChange(y, d, c, h, c), x, y, d, {c[2]}, c)
  BY Updates DEF HChange
<1>2. Repeats(Refused(x, c), Refused(y, c), x, y, d, {c[2]}, c)
  BY Refuses
<1>3. /\ Get(x, d, c[2], Empty) = Get(y, d, c[2], Empty)
      /\ Fits(x, d, c[2], "hash") <=> Fits(y, d, c[2], "hash")
  BY Seen
<1>4. Repeats(HDel(x, d, c), HDel(y, d, c), x, y, d, {c[2]}, c)
  BY <1>1, <1>2, <1>3 DEF HDel
<1>5. Repeats(HSet(x, d, c), HSet(y, d, c), x, y, d, {c[2]}, c)
  BY <1>1, <1>2, <1>3 DEF HSet
<1>6. Repeats(HSetNX(x, d, c), HSetNX(y, d, c), x, y, d, {c[2]}, c)
  BY <1>2, <1>3, <1>5 DEF HSetNX
<1>7. HPlus(x, d, c) = HPlus(y, d, c)
  BY <1>3 DEF HPlus
<1>8. Repeats(HIncrby(x, d, c), HIncrby(y, d, c), x, y, d, {c[2]}, c)
  BY <1>1, <1>2, <1>3, <1>7 DEF HIncrby
<1> QED BY <1>4, <1>5, <1>6, <1>8

-----------------------------------------------------------------------------
(***************************************************************************)
(* Lists.                                                                  *)
(***************************************************************************)
LEMMA ListRepeats ==
  ASSUME NEW x, NEW y, NEW d, NEW c, Pre(x, y, d, c[2])
  PROVE  /\ Repeats(LPush(x, d, c), LPush(y, d, c), x, y, d, {c[2]}, c)
         /\ Repeats(RPush(x, d, c), RPush(y, d, c), x, y, d, {c[2]}, c)
         /\ Repeats(LPushx(x, d, c), LPushx(y, d, c), x, y, d, {c[2]}, c)
         /\ Repeats(RPushx(x, d, c), RPushx(y, d, c), x, y, d, {c[2]}, c)
         /\ Repeats(LPop(x, d, c), LPop(y, d, c), x, y, d, {c[2]}, c)
         /\ Repeats(RPop(x, d, c), RPop(y, d, c), x, y, d, {c[2]}, c)
         /\ Repeats(LInsert(x, d, c), LInsert(y, d, c), x, y, d, {c[2]}, c)
         /\ Repeats(LRem(x, d, c), LRem(y, d, c), x, y, d, {c[2]}, c)
         /\ Repeats(LSet(x, d, c), LSet(y, d, c), x, y, d, {c[2]}, c)
         /\ Repeats(LTrim(x, d, c), LTrim(y, d, c), x, y, d, {c[2]}, c)
<1>1. \A l : Repeats(LChange(x, d, c, l), LChange(y, d, c, l), x, y, d, {c[2]}, c)
  BY Updates DEF LChange
<1>2. Repeats(Refused(x, c), Refused(y, c), x, y, d, {c[2]}, c)
  BY Refuses
<1>3. /\ Get(x, d, c[2], <<>>) = Get(y, d, c[2], <<>>)
      /\ Fits(x, d, c[2], "list") <=> Fits(y, d, c[2], "list")
      /\ Has(x, d, c[2]) <=> Has(y, d, c[2])
      /\ IsList(x, d, c[2]) <=> IsList(y, d, c[2])
  BY Seen DEF IsList
<1>4. Repeats(LPush(x, d, c), LPush(y, d, c), x, y, d, {c[2]}, c)
  BY <1>1, <1>2, <1>3 DEF LPush
<1>5. Repeats(RPush(x, d, c), RPush(y, d, c), x, y, d, {c[2]}, c)
  BY <1>1, <1>2, <1>3 DEF RPush
<1>6. Repeats(LPushx(x, d, c), LPushx(y, d, c), x, y, d, {c[2]}, c)
  BY <1>2, <1>3, <1>4 DEF LPushx
<1>7. Repeats(RPushx(x, d, c), RPushx(y, d, c), x, y, d, {c[2]}, c)
  BY <1>2, <1>3, <1>5 DEF RPushx
<1>8. Repeats(LPop(x, d, c), LPop(y, d, c), x, y, d, {c[2]}, c)
  BY <1>1, <1>2, <1>3 DEF LPop
<1>9. Repeats(RPop(x, d, c), RPop(y, d, c), x, y, d, {c[2]}, c)
  BY <1>1, <1>2, <1>3 DEF RPop
<1>10. Repeats(LInsert(x, d, c), LInsert(y, d, c), x, y, d, {c[2]}, c)
  <2> DEFINE at(l) == {i \in DOMAIN l : l[i] = c[4]}
             first(l) == CHOOSE i \in at(l) : \A j \in at(l) : i <= j
             ins(l) == InsertBefore(l, IF c[3] = "before" THEN first(l) ELSE first(l) + 1, c[5])
  <2>1. \A st : LInsert(st, d, c) = IF IsList(st, d, c[2]) /\ c[4] \in Elements(Get(st, d, c[2], <<>>))
                                   THEN LChange(st, d, c, ins(Get(st, d, c[2], <<>>)))
                                   ELSE Refused(st, c)
    BY Zenon DEF LInsert
  <2> HIDE DEF ins
  <2>2. ins(Get(x, d, c[2], <<>>)) = ins(Get(y, d, c[2], <<>>))
    BY <1>3
  <2> QED BY <1>1, <1>2, <1>3, <2>1, <2>2
<1>11. Repeats(LRem(x, d, c), LRem(y, d, c), x, y, d, {c[2]}, c)
  BY <1>1, <1>2, <1>3 DEF LRem
<1>12. Repeats(LSet(x, d, c), LSet(y, d, c), x, y, d, {c[2]}, c)
  BY <1>1, <1>2, <1>3 DEF LSet
<1>13. Repeats(LTrim(x, d, c), LTrim(y, d, c), x, y, d, {c[2]}, c)
  BY <1>1, <1>2, <1>3 DEF LTrim
<1> QED BY <1>4, <1>5, <1>6, <1>7, <1>8, <1>9, <1>10, <1>11, <1>12, <1>13
LEMMA MovedFacts ==
  ASSUME NEW x, NEW y, NEW d, NEW j, NEW k, Pre(x, y, d, j), Pre(x, y, d, k)
  PROVE  /\ Written(Moved(x, d, j, k), x, d, {j, k}) /\ Written(Moved(y, d, j, k), y, d, {j, k})
         /\ \A i \in {j, k} : SameAt(Moved(x, d, j, k), Moved(y, d, j, k), d, i)
<1> DEFINE l(st) == Get(st, d, j, <<>>)
           one(st) == Update(st, d, j, "list", Front(l(st)))
           put(st) == <<Last(l(st))>> \o Get(one(st), d, k, <<>>)
           two(st) == Update(one(st), d, k, "list", put(st))
<1>0. d \in DBs /\ IsStore(x) /\ IsStore(y) /\ SameAt(x, y, d, j) /\ SameAt(x, y, d, k)
  BY DEF Pre
<1>1. l(x) = l(y)
  BY Seen
<1>2. Written(one(x), x, d, {j}) /\ Written(one(y), y, d, {j})
  BY <1>0, UpdateFacts
<1>3. SameAt(one(x), one(y), d, j)
  BY <1>0, <1>1, UpdateSame
<1>4. Pre(one(x), one(y), d, k)
  BY <1>0, <1>2, <1>3 DEF Written, SameAt, Pre
<1>5. put(x) = put(y)
  BY <1>1, <1>4, Seen
<1>6. Written(two(x), one(x), d, {k}) /\ Written(two(y), one(y), d, {k})
  BY <1>4, UpdateFacts DEF Pre
<1>7. SameAt(two(x), two(y), d, k)
  BY <1>4, <1>5, UpdateSame DEF Pre
<1>8. Written(two(x), x, d, {j, k}) /\ Written(two(y), y, d, {j, k})
  BY <1>2, <1>6, WrittenTwice
<1>9. \A i \in {j, k} : SameAt(two(x), two(y), d, i)
  BY <1>0, <1>3, <1>6, <1>7, SameTwice
<1> QED BY <1>8, <1>9 DEF Moved

\* A choice between writing two keys and nothing.
LEMMA Refuses2 ==
  ASSUME NEW x, NEW y, NEW d, NEW j, NEW k, Pre(x, y, d, j), Pre(x, y, d, k), NEW c
  PROVE  Repeats(Refused(x, c), Refused(y, c), x, y, d, {j, k}, c)
<1>1. \A i \in {j, k} : SameAt(x, y, d, i)
  BY DEF Pre
<1> QED BY <1>1, RefusedRepeats DEF Pre

LEMMA RPopLPushRepeats ==
  ASSUME NEW x, NEW y, NEW d, NEW c, c[1] = "rpoplpush", [c EXCEPT ![1] = "rpoplpush"] = c,
         Pre(x, y, d, c[2]), Pre(x, y, d, c[3])
  PROVE  Repeats(RPopLPush(x, d, c), RPopLPush(y, d, c), x, y, d, {c[2], c[3]}, c)
<1>1. Repeats(Changed(Moved(x, d, c[2], c[3]), d, {c[2], c[3]}, c),
              Changed(Moved(y, d, c[2], c[3]), d, {c[2], c[3]}, c), x, y, d, {c[2], c[3]}, c)
  BY MovedFacts, ChangedRepeats
<1>2. Repeats(Refused(x, c), Refused(y, c), x, y, d, {c[2], c[3]}, c)
  BY Refuses2
<1>3. /\ IsList(x, d, c[2]) <=> IsList(y, d, c[2])
      /\ Fits(x, d, c[3], "list") <=> Fits(y, d, c[3], "list")
  BY Seen DEF IsList
<1> QED BY <1>1, <1>2, <1>3 DEF RPopLPush

-----------------------------------------------------------------------------
(***************************************************************************)
(* Sets.                                                                   *)
(***************************************************************************)
LEMMA SetRepeats ==
  ASSUME NEW x, NEW y, NEW d, NEW c, Pre(x, y, d, c[2])
  PROVE  /\ Repeats(SAdd(x, d, c), SAdd(y, d, c), x, y, d, {c[2]}, c)
         /\ Repeats(SRem(x, d, c), SRem(y, d, c), x, y, d, {c[2]}, c)
<1>1. \A S : Repeats(SChange(x, d, c, S, c), SChange(y, d, c, S, c), x, y, d, {c[2]}, c)
  BY Updates DEF SChange
<1>2. Repeats(Refused(x, c), Refused(y, c), x, y, d, {c[2]}, c)
  BY Refuses
<1>3. /\ Get(x, d, c[2], {}) = Get(y, d, c[2], {})
      /\ Fits(x, d, c[2], "set") <=> Fits(y, d, c[2], "set")
  BY Seen
<1>4. Repeats(SAdd(x, d, c), SAdd(y, d, c), x, y, d, {c[2]}, c)
  BY <1>1, <1>2, <1>3 DEF SAdd
<1>5. Repeats(SRem(x, d, c), SRem(y, d, c), x, y, d, {c[2]}, c)
  BY <1>1, <1>2, <1>3 DEF SRem
<1> QED BY <1>4, <1>5

LEMMA SMoveRepeats ==
  ASSUME NEW x, NEW y, NEW d, NEW c, Pre(x, y, d, c[2]), Pre(x, y, d, c[3])
  PROVE  Repeats(SMove(x, d, c), SMove(y, d, c), x, y, d, {c[2], c[3]}, c)
<1> DEFINE j == c[2]
           k == c[3]
           one(st) == Update(st, d, j, "set", Get(st, d, j, {}) \ {c[4]})
           two(st) == Update(one(st), d, k, "set", Get(one(st), d, k, {}) \cup {c[4]})
<1>0. d \in DBs /\ IsStore(x) /\ IsStore(y) /\ SameAt(x, y, d, j) /\ SameAt(x, y, d, k)
  BY DEF Pre
<1>1. Get(x, d, j, {}) = Get(y, d, j, {})
  BY Seen
<1>2. Written(one(x), x, d, {j}) /\ Written(one(y), y, d, {j})
  BY <1>0, UpdateFacts
<1>3. SameAt(one(x), one(y), d, j)
  BY <1>0, <1>1, UpdateSame
<1>4. Pre(one(x), one(y), d, k)
  BY <1>0, <1>2, <1>3 DEF Written, SameAt, Pre
<1>5. Get(one(x), d, k, {}) = Get(one(y), d, k, {})
  BY <1>4, Seen
<1>6. Written(two(x), one(x), d, {k}) /\ Written(two(y), one(y), d, {k})
  BY <1>4, UpdateFacts DEF Pre
<1>7. SameAt(two(x), two(y), d, k)
  BY <1>4, <1>5, UpdateSame DEF Pre
<1>8. Written(two(x), x, d, {j, k}) /\ Written(two(y), y, d, {j, k})
  BY <1>2, <1>6, WrittenTwice
<1>9. \A i \in {j, k} : SameAt(two(x), two(y), d, i)
  BY <1>0, <1>3, <1>6, <1>7, SameTwice
<1>10. Repeats(Changed(two(x), d, {j, k}, c), Changed(two(y), d, {j, k}, c), x, y, d, {j, k}, c)
  BY <1>8, <1>9, ChangedRepeats
<1>11. Repeats(Refused(x, c), Refused(y, c), x, y, d, {j, k}, c)
  BY Refuses2
<1>12. /\ Fits(x, d, j, "set") <=> Fits(y, d, j, "set")
       /\ Fits(x, d, k, "set") <=> Fits(y, d, k, "set")
  BY Seen
<1> QED BY <1>1, <1>10, <1>11, <1>12 DEF SMove

-----------------------------------------------------------------------------
(***************************************************************************)
(* Sorted sets.                                                            *)
(***************************************************************************)
LEMMA SortedSetRepeats ==
  ASSUME NEW x, NEW y, NEW d, NEW c, Pre(x, y, d, c[2])
  PROVE  /\ Repeats(ZAdd(x, d, c), ZAdd(y, d, c), x, y, d, {c[2]}, c)
         /\ Repeats(ZIncrby(x, d, c), ZIncrby(y, d, c), x, y, d, {c[2]}, c)
         /\ Repeats(ZRem(x, d, c), ZRem(y, d, c), x, y, d, {c[2]}, c)
         /\ Repeats(ZRemRangeByScore(x, d, c), ZRemRangeByScore(y, d, c), x, y, d, {c[2]}, c)
         /\ Repeats(ZRemRangeByLex(x, d, c), ZRemRangeByLex(y, d, c), x, y, d, {c[2]}, c)
         /\ Repeats(ZRemRangeByRank(x, d, c), ZRemRangeByRank(y, d, c), x, y, d, {c[2]}, c)
         /\ Repeats(GeoAdd(x, d, c), GeoAdd(y, d, c), x, y, d, {c[2]}, c)
<1>1. \A z : Repeats(ZChange(x, d, c, z), ZChange(y, d, c, z), x, y, d, {c[2]}, c)
  BY Updates DEF ZChange
<1>2. Repeats(Refused(x, c), Refused(y, c), x, y, d, {c[2]}, c)
  BY Refuses
<1>3. /\ Get(x, d, c[2], Empty) = Get(y, d, c[2], Empty)
      /\ Fits(x, d, c[2], "zset") <=> Fits(y, d, c[2], "zset")
  BY Seen
<1>4. Repeats(ZAdd(x, d, c), ZAdd(y, d, c), x, y, d, {c[2]}, c)
  BY <1>1, <1>2, <1>3 DEF ZAdd
<1>5. Repeats(ZIncrby(x, d, c), ZIncrby(y, d, c), x, y, d, {c[2]}, c)
  BY <1>1, <1>2, <1>3 DEF ZIncrby
<1>6. \A Z : Repeats(ZRemove(x, d, c, Z), ZRemove(y, d, c, Z), x, y, d, {c[2]}, c)
  BY <1>1, <1>2, <1>3 DEF ZRemove
<1>7. Repeats(ZRem(x, d, c), ZRem(y, d, c), x, y, d, {c[2]}, c)
  BY <1>3, <1>6 DEF ZRem
<1>8. Repeats(ZRemRangeByScore(x, d, c), ZRemRangeByScore(y, d, c), x, y, d, {c[2]}, c)
  BY <1>3, <1>6, Zenon DEF ZRemRangeByScore
<1>9. Repeats(ZRemRangeByLex(x, d, c), ZRemRangeByLex(y, d, c), x, y, d, {c[2]}, c)
  BY <1>3, <1>6 DEF ZRemRangeByLex
<1>10. Repeats(ZRemRangeByRank(x, d, c), ZRemRangeByRank(y, d, c), x, y, d, {c[2]}, c)
  BY <1>3, <1>6, Zenon DEF ZRemRangeByRank
<1>11. Repeats(GeoAdd(x, d, c), GeoAdd(y, d, c), x, y, d, {c[2]}, c)
  BY <1>2 DEF GeoAdd
<1> QED BY <1>4, <1>5, <1>7, <1>8, <1>9, <1>10, <1>11
-----------------------------------------------------------------------------
(***************************************************************************)
(* Keys.                                                                   *)
(***************************************************************************)
LEMMA DelRepeats ==
  ASSUME NEW x, NEW y, IsStore(x), IsStore(y), NEW d \in DBs, NEW c,
         \A i \in 2..Len(c) : SameAt(x, y, d, c[i])
  PROVE  Repeats(Del_(x, d, c), Del_(y, d, c), x, y, d, {c[i] : i \in 2..Len(c)}, c)
<1> DEFINE K == {c[i] : i \in 2..Len(c)}
<1>1. Written(Del(x, d, K), x, d, K) /\ Written(Del(y, d, K), y, d, K)
  BY DelFacts
<1>2. \A k \in K : SameAt(Del(x, d, K), Del(y, d, K), d, k)
  BY DelSame
<1>3. \A k \in K : SameAt(x, y, d, k)
  OBVIOUS
<1>4. (\E i \in 2..Len(c) : Has(x, d, c[i])) <=> (\E i \in 2..Len(c) : Has(y, d, c[i]))
  BY SameKept
<1>5. \A st : Del_(st, d, c) = IF \E i \in 2..Len(c) : Has(st, d, c[i])
                             THEN Changed(Del(st, d, K), d, K, c) ELSE Refused(st, c)
  BY Zenon DEF Del_
<1> HIDE DEF K
<1>6. Repeats(Changed(Del(x, d, K), d, K, c), Changed(Del(y, d, K), d, K, c), x, y, d, K, c)
  BY <1>1, <1>2, ChangedRepeats
<1>7. Repeats(Refused(x, c), Refused(y, c), x, y, d, K, c)
  BY <1>3, RefusedRepeats
<1>8. Repeats(Del_(x, d, c), Del_(y, d, c), x, y, d, K, c)
  BY <1>4, <1>5, <1>6, <1>7
<1> QED BY <1>8 DEF K

LEMMA RenameRepeats ==
  ASSUME NEW x, NEW y, NEW d, NEW c, Pre(x, y, d, c[2]), Pre(x, y, d, c[3])
  PROVE  /\ Repeats(Rename(x, d, c), Rename(y, d, c), x, y, d, {c[2], c[3]}, c)
         /\ Repeats(RenameNX(x, d, c), RenameNX(y, d, c), x, y, d, {c[2], c[3]}, c)
<1> DEFINE j == c[2]
           k == c[3]
           one(st) == Overwrite(st, d, k, st[d][j])
           two(st) == Del(one(st), d, {j} \ {k})
<1>0. d \in DBs /\ IsStore(x) /\ IsStore(y)
  BY DEF Pre
<1>1. Repeats(Refused(x, c), Refused(y, c), x, y, d, {j, k}, c)
  BY Refuses2
<1>2. ASSUME Has(x, d, j)
      PROVE  Repeats(Changed(two(x), d, {j, k}, c), Changed(two(y), d, {j, k}, c), x, y, d, {j, k}, c)
  <2>1. x[d][j] = y[d][j] /\ IsValue(x[d][j])
    BY <1>0, <1>2, Seen DEF IsStore, Has
  <2>2. Written(one(x), x, d, {k}) /\ Written(one(y), y, d, {k}) /\ SameAt(one(x), one(y), d, k)
    BY <1>0, <2>1, OverwriteFacts, OverwriteSame
  <2>3. IsStore(one(x)) /\ IsStore(one(y))
    BY <2>2 DEF Written
  <2>4. Written(two(x), one(x), d, {j} \ {k}) /\ Written(two(y), one(y), d, {j} \ {k})
    BY <1>0, <2>3, DelFacts
  <2>5. Written(two(x), x, d, {j, k}) /\ Written(two(y), y, d, {j, k})
    <3> HIDE DEF one, two
    <3> QED BY <2>2, <2>4 DEF Written, SameAt
  <2>6. \A i \in {j} \ {k} : SameAt(two(x), two(y), d, i)
    BY <1>0, <2>3, DelSame
  <2>7. SameAt(two(x), two(y), d, k)
    <3>1. SameAt(two(x), one(x), d, k) /\ SameAt(two(y), one(y), d, k)
      BY <1>0, <2>4 DEF Written
    <3> HIDE DEF one, two
    <3> QED BY <2>2, <3>1 DEF SameAt
  <2>8. \A i \in {j, k} : SameAt(two(x), two(y), d, i)
    BY <2>6, <2>7
  <2> QED BY <2>5, <2>8, ChangedRepeats
<1>3. (Has(x, d, j) <=> Has(y, d, j)) /\ (Has(x, d, k) <=> Has(y, d, k))
  BY Seen
<1>4. Repeats(Rename(x, d, c), Rename(y, d, c), x, y, d, {j, k}, c)
  BY <1>1, <1>2, <1>3 DEF Rename
<1>5. Repeats(RenameNX(x, d, c), RenameNX(y, d, c), x, y, d, {j, k}, c)
  BY <1>1, <1>3, <1>4 DEF RenameNX
<1> QED BY <1>4, <1>5

LEMMA DeadlineRepeats ==
  ASSUME NEW x, NEW y, NEW d, NEW c, Pre(x, y, d, c[2])
  PROVE  /\ Repeats(Persist(x, d, c), Persist(y, d, c), x, y, d, {c[2]}, c)
         /\ Repeats(Expire(x, d, c), Expire(y, d, c), x, y, d, {c[2]}, c)
<1>0. d \in DBs /\ IsStore(x) /\ IsStore(y) /\ SameAt(x, y, d, c[2])
  BY DEF Pre
<1>1. Repeats(Refused(x, c), Refused(y, c), x, y, d, {c[2]}, c)
  BY Refuses
<1>2. ASSUME Has(x, d, c[2]), NEW b
      PROVE  Repeats(Changed(SetTTL(x, d, c[2], b), d, {c[2]}, c),
                     Changed(SetTTL(y, d, c[2], b), d, {c[2]}, c), x, y, d, {c[2]}, c)
  <2>1. Written(SetTTL(x, d, c[2], b), x, d, {c[2]}) /\ Written(SetTTL(y, d, c[2], b), y, d, {c[2]})
    BY <1>0, SetTTLFacts
  <2>2. SameAt(SetTTL(x, d, c[2], b), SetTTL(y, d, c[2], b), d, c[2])
    BY <1>0, <1>2, SetTTLSame
  <2> QED BY <2>1, <2>2, ChangedRepeats
<1>3. (Has(x, d, c[2]) <=> Has(y, d, c[2])) /\ (Has(x, d, c[2]) => x[d][c[2]] = y[d][c[2]])
  BY Seen
<1>4. Repeats(Persist(x, d, c), Persist(y, d, c), x, y, d, {c[2]}, c)
  BY <1>1, <1>2, <1>3 DEF Persist
<1>5. Repeats(Expire(x, d, c), Expire(y, d, c), x, y, d, {c[2]}, c)
  BY <1>1, <1>2, <1>3 DEF Expire
<1> QED BY <1>4, <1>5
-----------------------------------------------------------------------------
(***************************************************************************)
(* What a command may touch, and what of it depends on what.               *)
(***************************************************************************)
\* The store y is x but for the keys K; two stores hold the same under K.
Local(y, x, K) == IsStore(y) /\ \A e \in DBs : \A j : j \notin K => SameAt(y, x, e, j)
Equal(x, y, K) == \A e \in DBs : \A k \in K : SameAt(x, y, e, k)

Follows(X, Y, x, y, K, c) ==
  \A o \in X : \A p \in Y :
    Local(o.kv, x, K) /\ Local(p.kv, y, K) /\ o.cmd = c /\ p.cmd = c /\ Equal(o.kv, p.kv, K)

Announced(o, x) == \A e \in DBs : \A k : SameAt(o.kv, x, e, k) \/ <<e, k>> \in o.fired

LEMMA WrittenLocal ==
  ASSUME NEW a, NEW x, NEW d, NEW K, Written(a, x, d, K)
  PROVE  Local(a, x, K)
  BY DEF Written, Local

LEMMA LocalTwice ==
  ASSUME NEW a, NEW b, NEW x, NEW K, Local(a, x, K), Local(b, a, K)
  PROVE  Local(b, x, K)
  BY DEF Local, SameAt

LEMMA WrittenEqual ==
  ASSUME NEW a, NEW b, NEW x, NEW y, NEW d \in DBs, NEW K, Equal(x, y, K),
         Written(a, x, d, K), Written(b, y, d, K), \A k \in K : SameAt(a, b, d, k)
  PROVE  Equal(a, b, K)
<1>1. ASSUME NEW e \in DBs, NEW k \in K, e # d
      PROVE  SameAt(a, b, e, k)
  <2>1. SameAt(a, x, e, k) /\ SameAt(b, y, e, k) /\ SameAt(x, y, e, k)
    BY <1>1 DEF Written, Equal
  <2> QED BY <2>1 DEF SameAt
<1> QED BY <1>1 DEF Equal

LEMMA RepeatsFollows ==
  ASSUME NEW X, NEW Y, NEW x, NEW y, NEW d \in DBs, NEW K, NEW c,
         Repeats(X, Y, x, y, d, K, c), Equal(x, y, K)
  PROVE  Follows(X, Y, x, y, K, c)
<1>1. ASSUME NEW o \in X, NEW p \in Y
      PROVE  Local(o.kv, x, K) /\ Local(p.kv, y, K) /\ o.cmd = c /\ p.cmd = c /\ Equal(o.kv, p.kv, K)
  <2>1. Made(o, x, d, K, c) /\ Made(p, y, d, K, c) /\ \A k \in K : SameAt(o.kv, p.kv, d, k)
    BY DEF Repeats
  <2>2. Written(o.kv, x, d, K) /\ Written(p.kv, y, d, K) /\ o.cmd = c /\ p.cmd = c
    BY <2>1 DEF Made
  <2> QED BY <2>1, <2>2, WrittenLocal, WrittenEqual
<1> QED BY <1>1 DEF Follows

LEMMA OutcomeFollows ==
  ASSUME NEW a, NEW b, NEW x, NEW y, NEW K, NEW c, Local(a, x, K), Local(b, y, K), Equal(a, b, K),
         NEW F, NEW G
  PROVE  Follows(Outcome(a, F, c), Outcome(b, G, c), x, y, K, c)
<1>1. \A o \in Outcome(a, F, c) : o.kv = a /\ o.cmd = c
  BY DEF Outcome
<1>2. \A p \in Outcome(b, G, c) : p.kv = b /\ p.cmd = c
  BY DEF Outcome
<1> QED BY <1>1, <1>2 DEF Follows

LEMMA RefusedFollows ==
  ASSUME NEW x, NEW y, IsStore(x), IsStore(y), NEW K, Equal(x, y, K), NEW c
  PROVE  Follows(Refused(x, c), Refused(y, c), x, y, K, c)
<1>1. Local(x, x, K) /\ Local(y, y, K)
  BY DEF Local, SameAt
<1> QED BY <1>1, OutcomeFollows DEF Refused

\* An outcome that overwrites one key.
LEMMA OverwriteFollows ==
  ASSUME NEW x, NEW y, IsStore(x), IsStore(y), NEW d \in DBs, NEW k, Equal(x, y, {k}),
         NEW v, IsValue(v), NEW F, NEW c
  PROVE  Follows(Outcome(Overwrite(x, d, k, v), F, c), Outcome(Overwrite(y, d, k, v), F, c),
                 x, y, {k}, c)
<1>1. Written(Overwrite(x, d, k, v), x, d, {k}) /\ Written(Overwrite(y, d, k, v), y, d, {k})
  BY OverwriteFacts
<1>2. \A j \in {k} : SameAt(Overwrite(x, d, k, v), Overwrite(y, d, k, v), d, j)
  BY OverwriteSame
<1>3. /\ Local(Overwrite(x, d, k, v), x, {k}) /\ Local(Overwrite(y, d, k, v), y, {k})
      /\ Equal(Overwrite(x, d, k, v), Overwrite(y, d, k, v), {k})
  BY <1>1, <1>2, WrittenLocal, WrittenEqual
<1> QED BY <1>3, OutcomeFollows

LEMMA DelFollows ==
  ASSUME NEW x, NEW y, IsStore(x), IsStore(y), NEW d \in DBs, NEW k, Equal(x, y, {k}), NEW c
  PROVE  Follows(Outcome(Del(x, d, {k}), {}, c), Outcome(Del(y, d, {k}), {}, c), x, y, {k}, c)
<1>1. Written(Del(x, d, {k}), x, d, {k}) /\ Written(Del(y, d, {k}), y, d, {k})
  BY DelFacts
<1>2. \A j \in {k} : SameAt(Del(x, d, {k}), Del(y, d, {k}), d, j)
  BY DelSame
<1>3. /\ Local(Del(x, d, {k}), x, {k}) /\ Local(Del(y, d, {k}), y, {k})
      /\ Equal(Del(x, d, {k}), Del(y, d, {k}), {k})
  BY <1>1, <1>2, WrittenLocal, WrittenEqual
<1> QED BY <1>3, OutcomeFollows

LEMMA BitopFollows ==
  ASSUME NEW x, NEW y, IsStore(x), IsStore(y), NEW d \in DBs, NEW c,
         Equal(x, y, {c[3]}), Equal(x, y, {c[4]})
  PROVE  Follows(Bitop(x, d, c), Bitop(y, d, c), x, y, {c[3]}, c)
<1>1. Pre(x, y, d, c[4])
  BY DEF Equal, Pre
<1>2. /\ Fits(x, d, c[4], "string") <=> Fits(y, d, c[4], "string")
      /\ Get(x, d, c[4], 0) = Get(y, d, c[4], 0)
  BY <1>1, Seen
<1>3. \A F, v : Follows(Outcome(Overwrite(x, d, c[3], Value("string", v)), F, c),
                        Outcome(Overwrite(y, d, c[3], Value("string", v)), F, c), x, y, {c[3]}, c)
  BY OverwriteFollows, NewValue
<1>4. Follows(Refused(x, c), Refused(y, c), x, y, {c[3]}, c)
  BY RefusedFollows
<1> QED BY <1>2, <1>3, <1>4 DEF Bitop, Changed

LEMMA SStoreFollows ==
  ASSUME NEW x, NEW y, IsStore(x), IsStore(y), NEW d \in DBs, NEW c,
         Equal(x, y, {c[2]}), Equal(x, y, {c[3]}), Equal(x, y, {c[4]})
  PROVE  /\ Follows(SDiffStore(x, d, c), SDiffStore(y, d, c), x, y, {c[2]}, c)
         /\ Follows(SInterStore(x, d, c), SInterStore(y, d, c), x, y, {c[2]}, c)
         /\ Follows(SUnionStore(x, d, c), SUnionStore(y, d, c), x, y, {c[2]}, c)
<1>1. Pre(x, y, d, c[3]) /\ Pre(x, y, d, c[4])
  BY DEF Equal, Pre
<1>2. /\ Fits(x, d, c[3], "set") <=> Fits(y, d, c[3], "set")
      /\ Fits(x, d, c[4], "set") <=> Fits(y, d, c[4], "set")
      /\ Get(x, d, c[3], {}) = Get(y, d, c[3], {})
      /\ Get(x, d, c[4], {}) = Get(y, d, c[4], {})
  BY <1>1, Seen
<1>3. \A S : Follows(SStore(x, d, c, S), SStore(y, d, c, S), x, y, {c[2]}, c)
  <2>1. \A F, S : Follows(Outcome(Overwrite(x, d, c[2], Value("set", S)), F, c),
                          Outcome(Overwrite(y, d, c[2], Value("set", S)), F, c), x, y, {c[2]}, c)
    BY OverwriteFollows, NewValue
  <2>2. Follows(Refused(x, c), Refused(y, c), x, y, {c[2]}, c)
    BY RefusedFollows
  <2>3. Follows(Outcome(Del(x, d, {c[2]}), {}, c), Outcome(Del(y, d, {c[2]}), {}, c), x, y, {c[2]}, c)
    BY DelFollows
  <2> QED BY <1>2, <2>1, <2>2, <2>3 DEF SStore, Changed
<1>4. Follows(SDiffStore(x, d, c), SDiffStore(y, d, c), x, y, {c[2]}, c)
  BY <1>2, <1>3 DEF SDiffStore
<1>5. Follows(SInterStore(x, d, c), SInterStore(y, d, c), x, y, {c[2]}, c)
  BY <1>2, <1>3 DEF SInterStore
<1>6. Follows(SUnionStore(x, d, c), SUnionStore(y, d, c), x, y, {c[2]}, c)
  BY <1>2, <1>3 DEF SUnionStore
<1> QED BY <1>4, <1>5, <1>6

LEMMA SortFollows ==
  ASSUME NEW x, NEW y, IsStore(x), IsStore(y), NEW d \in DBs, NEW c,
         Equal(x, y, {c[2]}), Equal(x, y, {c[3]})
  PROVE  Follows(Sort(x, d, c), Sort(y, d, c), x, y, {c[3]}, c)
<1>1. Pre(x, y, d, c[2])
  BY DEF Equal, Pre
<1>2. /\ Fits(x, d, c[2], "set") <=> Fits(y, d, c[2], "set")
      /\ Has(x, d, c[2]) <=> Has(y, d, c[2])
      /\ Has(x, d, c[2]) => x[d][c[2]] = y[d][c[2]]
  BY <1>1, Seen
<1>3. \A F, s : Follows(Outcome(Overwrite(x, d, c[3], Value("list", s)), F, c),
                        Outcome(Overwrite(y, d, c[3], Value("list", s)), F, c), x, y, {c[3]}, c)
  BY OverwriteFollows, NewValue
<1>4. Follows(Refused(x, c), Refused(y, c), x, y, {c[3]}, c)
  BY RefusedFollows
<1>5. Follows(Outcome(Del(x, d, {c[3]}), {}, c), Outcome(Del(y, d, {c[3]}), {}, c), x, y, {c[3]}, c)
  BY DelFollows
<1> QED BY <1>2, <1>3, <1>4, <1>5 DEF Sort, Changed

LEMMA MoveFollows ==
  ASSUME NEW x, NEW y, IsStore(x), IsStore(y), NEW d \in DBs, NEW c, c[3] \in DBs,
         Equal(x, y, {c[2]})
  PROVE  /\ Follows(Move(x, d, c), Move(y, d, c), x, y, {c[2]}, c)
         /\ \A o \in Move(x, d, c) : Announced(o, x) /\ (o.fired = {} => o.kv = x)
<1> DEFINE e == c[3]
           k == c[2]
           one(st) == Overwrite(st, e, k, st[d][k])
           two(st) == Del(one(st), d, {k})
           F == {<<d, k>>, <<e, k>>}
<1>1. Pre(x, y, d, k) /\ Pre(x, y, e, k)
  BY DEF Equal, Pre
<1>2. /\ Has(x, d, k) <=> Has(y, d, k)
      /\ Has(x, e, k) <=> Has(y, e, k)
      /\ Has(x, d, k) => x[d][k] = y[d][k]
  BY <1>1, Seen
<1>3. ASSUME Has(x, d, k), ~Has(x, e, k)
      PROVE  /\ Follows(Outcome(two(x), F, c), Outcome(two(y), F, c), x, y, {k}, c)
             /\ \A f \in DBs : \A j : SameAt(two(x), x, f, j) \/ <<f, j>> \in F
  <2>1. x[d][k] = y[d][k] /\ IsValue(x[d][k])
    BY <1>2, <1>3 DEF IsStore, Has
  <2>2. Written(one(x), x, e, {k}) /\ Written(one(y), y, e, {k}) /\ SameAt(one(x), one(y), e, k)
    BY <2>1, OverwriteFacts, OverwriteSame
  <2>3. IsStore(one(x)) /\ IsStore(one(y))
    BY <2>2 DEF Written
  <2>4. Written(two(x), one(x), d, {k}) /\ Written(two(y), one(y), d, {k})
    BY <2>3, DelFacts
  <2>5. SameAt(two(x), two(y), d, k)
    BY <2>3, DelSame
  <2>6. /\ Local(one(x), x, {k}) /\ Local(one(y), y, {k})
        /\ Local(two(x), one(x), {k}) /\ Local(two(y), one(y), {k})
    BY <2>2, <2>4, WrittenLocal
  <2>7. Local(two(x), x, {k}) /\ Local(two(y), y, {k})
    BY <2>6, LocalTwice
  <2>8. Equal(one(x), one(y), {k})
    BY <2>2, WrittenEqual
  <2>9. Equal(two(x), two(y), {k})
    BY <2>4, <2>5, <2>8, WrittenEqual
  <2>10. ASSUME NEW f \in DBs, NEW j, <<f, j>> \notin F
         PROVE  SameAt(two(x), x, f, j)
    <3>1. ~(f = d /\ j \in {k}) /\ ~(f = e /\ j \in {k})
      BY <2>10
    <3>2. SameAt(two(x), one(x), f, j)
      BY <2>4, <3>1 DEF Written
    <3>3. SameAt(one(x), x, f, j)
      BY <2>2, <3>1 DEF Written
    <3> HIDE DEF two, one
    <3> QED BY <3>2, <3>3 DEF SameAt
  <2>11. Follows(Outcome(two(x), F, c), Outcome(two(y), F, c), x, y, {k}, c)
    BY <2>7, <2>9, OutcomeFollows
  <2> QED BY <2>10, <2>11
<1>4. Follows(Refused(x, c), Refused(y, c), x, y, {k}, c)
  BY RefusedFollows
<1>5. Follows(Move(x, d, c), Move(y, d, c), x, y, {k}, c)
  BY <1>2, <1>3, <1>4 DEF Move
<1>6. \A o \in Move(x, d, c) : Announced(o, x) /\ (o.fired = {} => o.kv = x)
  <2>1. CASE Has(x, d, k) /\ ~Has(x, e, k)
    <3>1. \A o \in Move(x, d, c) : o.kv = two(x) /\ o.fired = F
      BY <2>1 DEF Move, Outcome
    <3>2. F # {}
      OBVIOUS
    <3>3. \A f \in DBs : \A j : SameAt(two(x), x, f, j) \/ <<f, j>> \in F
      BY <1>3, <2>1
    <3> HIDE DEF two, F
    <3> QED BY <3>1, <3>2, <3>3 DEF Announced
  <2>2. CASE ~(Has(x, d, k) /\ ~Has(x, e, k))
    <3>1. \A o \in Move(x, d, c) : o.kv = x
      BY <2>2 DEF Move, Outcome, Refused
    <3> QED BY <3>1 DEF Announced, SameAt
  <2> QED BY <2>1, <2>2
<1> QED BY <1>5, <1>6
-----------------------------------------------------------------------------
(***************************************************************************)
(* Handlers of one key.                                                    *)
(***************************************************************************)
StringsOfOne ==
  {"append", "setbit", "pfadd", "incr", "decrby", "setrange", "getset", "set", "setnx", "setex"}
OthersOfOne ==
  {"hdel", "hset", "hmset", "hsetnx", "hincrby", "lpush", "rpush", "lpushx", "rpushx", "lpop",
   "rpop", "linsert", "lrem", "lset", "ltrim", "sadd", "srem", "zadd", "zincrby", "zrem",
   "zremrangebyscore", "zremrangebylex", "zremrangebyrank", "geoadd", "persist", "expire"}
OfOne == StringsOfOne \cup OthersOfOne

LEMMA StringHandlers ==
  ASSUME NEW x, NEW y, NEW d, NEW c, Pre(x, y, d, c[2]), c[1] \in StringsOfOne
  PROVE  Repeats(Handler(x, d, c), Handler(y, d, c), x, y, d, {c[2]}, c)
<1>1. CASE c[1] = "append"
  <2>1. \A st : Handler(st, d, c) = Append_(st, d, c)
    BY <1>1, Z3 DEF Handler
  <2> QED BY <2>1, EditsOfOld
<1>2. CASE c[1] = "setbit"
  <2>1. \A st : Handler(st, d, c) = SetBit(st, d, c)
    BY <1>2, Z3 DEF Handler
  <2> QED BY <2>1, EditsOfOld
<1>3. CASE c[1] = "pfadd"
  <2>1. \A st : Handler(st, d, c) = PFAdd(st, d, c)
    BY <1>3, Z3 DEF Handler
  <2> QED BY <2>1, EditsOfOld
<1>4. CASE c[1] = "incr"
  <2>1. \A st : Handler(st, d, c) = IncrDecr(st, d, c, 1)
    BY <1>4, Z3 DEF Handler
  <2> QED BY <2>1, EditsOfOld
<1>5. CASE c[1] = "decrby"
  <2>1. \A st : Handler(st, d, c) = IncrDecr(st, d, c, -c[3])
    BY <1>5, Z3 DEF Handler
  <2> QED BY <2>1, EditsOfOld
<1>6. CASE c[1] = "setrange"
  <2>1. \A st : Handler(st, d, c) = SetRange(st, d, c)
    BY <1>6, Z3 DEF Handler
  <2> QED BY <2>1, EditsOfOld
<1>7. CASE c[1] = "getset"
  <2>1. \A st : Handler(st, d, c) = GetSet(st, d, c)
    BY <1>7, Z3 DEF Handler
  <2> QED BY <2>1, SetsOfOne
<1>8. CASE c[1] = "set"
  <2>1. \A st : Handler(st, d, c) = Set(st, d, c)
    BY <1>8, Z3 DEF Handler
  <2> QED BY <2>1, SetsOfOne
<1>9. CASE c[1] = "setnx"
  <2>1. \A st : Handler(st, d, c) = SetNX(st, d, c)
    BY <1>9, Z3 DEF Handler
  <2> QED BY <2>1, SetsOfOne
<1>10. CASE c[1] = "setex"
  <2>1. \A st : Handler(st, d, c) = SetEX(st, d, c)
    BY <1>10, Z3 DEF Handler
  <2> QED BY <2>1, SetsOfOne
<1> QED BY <1>1, <1>2, <1>3, <1>4, <1>5, <1>6, <1>7, <1>8, <1>9, <1>10 DEF StringsOfOne
LEMMA HashHandlers ==
  ASSUME NEW x, NEW y, NEW d, NEW c, Pre(x, y, d, c[2]),
         c[1] \in {"hdel", "hset", "hmset", "hsetnx", "hincrby"}
  PROVE  Repeats(Handler(x, d, c), Handler(y, d, c), x, y, d, {c[2]}, c)
<1>1. CASE c[1] = "hdel"
  <2>1. \A st : Handler(st, d, c) = HDel(st, d, c)
    BY <1>1, Z3 DEF Handler
  <2> QED BY <2>1, HashRepeats
<1>2. CASE c[1] = "hset"
  <2>1. \A st : Handler(st, d, c) = HSet(st, d, c)
    BY <1>2, Z3 DEF Handler
  <2> QED BY <2>1, HashRepeats
<1>3. CASE c[1] = "hmset"
  <2>1. \A st : Handler(st, d, c) = HSet(st, d, c)
    BY <1>3, Z3 DEF Handler
  <2> QED BY <2>1, HashRepeats
<1>4. CASE c[1] = "hsetnx"
  <2>1. \A st : Handler(st, d, c) = HSetNX(st, d, c)
    BY <1>4, Z3 DEF Handler
  <2> QED BY <2>1, HashRepeats
<1>5. CASE c[1] = "hincrby"
  <2>1. \A st : Handler(st, d, c) = HIncrby(st, d, c)
    BY <1>5, Z3 DEF Handler
  <2> QED BY <2>1, HashRepeats
<1> QED BY <1>1, <1>2, <1>3, <1>4, <1>5

LEMMA ListHandlers ==
  ASSUME NEW x, NEW y, NEW d, NEW c, Pre(x, y, d, c[2]),
         c[1] \in {"lpush", "rpush", "lpushx", "rpushx", "lpop",
                 "rpop", "linsert", "lrem", "lset", "ltrim"}
  PROVE  Repeats(Handler(x, d, c), Handler(y, d, c), x, y, d, {c[2]}, c)
<1>1. CASE c[1] = "lpush"
  <2>1. \A st : Handler(st, d, c) = LPush(st, d, c)
    BY <1>1, Z3 DEF Handler
  <2> QED BY <2>1, ListRepeats
<1>2. CASE c[1] = "rpush"
  <2>1. \A st : Handler(st, d, c) = RPush(st, d, c)
    BY <1>2, Z3 DEF Handler
  <2> QED BY <2>1, ListRepeats
<1>3. CASE c[1] = "lpushx"
  <2>1. \A st : Handler(st, d, c) = LPushx(st, d, c)
    BY <1>3, Z3 DEF Handler
  <2> QED BY <2>1, ListRepeats
<1>4. CASE c[1] = "rpushx"
  <2>1. \A st : Handler(st, d, c) = RPushx(st, d, c)
    BY <1>4, Z3 DEF Handler
  <2> QED BY <2>1, ListRepeats
<1>5. CASE c[1] = "lpop"
  <2>1. \A st : Handler(st, d, c) = LPop(st, d, c)
    BY <1>5, Z3 DEF Handler
  <2> QED BY <2>1, ListRepeats
<1>6. CASE c[1] = "rpop"
  <2>1. \A st : Handler(st, d, c) = RPop(st, d, c)
    BY <1>6, Z3 DEF Handler
  <2> QED BY <2>1, ListRepeats
<1>7. CASE c[1] = "linsert"
  <2>1. \A st : Handler(st, d, c) = LInsert(st, d, c)
    BY <1>7, Z3 DEF Handler
  <2> QED BY <2>1, ListRepeats
<1>8. CASE c[1] = "lrem"
  <2>1. \A st : Handler(st, d, c) = LRem(st, d, c)
    BY <1>8, Z3 DEF Handler
  <2> QED BY <2>1, ListRepeats
<1>9. CASE c[1] = "lset"
  <2>1. \A st : Handler(st, d, c) = LSet(st, d, c)
    BY <1>9, Z3 DEF Handler
  <2> QED BY <2>1, ListRepeats
<1>10. CASE c[1] = "ltrim"
  <2>1. \A st : Handler(st, d, c) = LTrim(st, d, c)
    BY <1>10, Z3 DEF Handler
  <2> QED BY <2>1, ListRepeats
<1> QED BY <1>1, <1>2, <1>3, <1>4, <1>5, <1>6, <1>7, <1>8, <1>9, <1>10

LEMMA SetHandlers ==
  ASSUME NEW x, NEW y, NEW d, NEW c, Pre(x, y, d, c[2]),
         c[1] \in {"sadd", "srem"}
  PROVE  Repeats(Handler(x, d, c), Handler(y, d, c), x, y, d, {c[2]}, c)
<1>1. CASE c[1] = "sadd"
  <2>1. \A st : Handler(st, d, c) = SAdd(st, d, c)
    BY <1>1, Z3 DEF Handler
  <2> QED BY <2>1, SetRepeats
<1>2. CASE c[1] = "srem"
  <2>1. \A st : Handler(st, d, c) = SRem(st, d, c)
    BY <1>2, Z3 DEF Handler
  <2> QED BY <2>1, SetRepeats
<1> QED BY <1>1, <1>2

LEMMA SortedSetHandlers ==
  ASSUME NEW x, NEW y, NEW d, NEW c, Pre(x, y, d, c[2]),
         c[1] \in {"zadd", "zincrby", "zrem",
                 "zremrangebyscore", "zremrangebylex", "zremrangebyrank", "geoadd"}
  PROVE  Repeats(Handler(x, d, c), Handler(y, d, c), x, y, d, {c[2]}, c)
<1>1. CASE c[1] = "zadd"
  <2>1. \A st : Handler(st, d, c) = ZAdd(st, d, c)
    BY <1>1, Z3 DEF Handler
  <2> QED BY <2>1, SortedSetRepeats
<1>2. CASE c[1] = "zincrby"
  <2>1. \A st : Handler(st, d, c) = ZIncrby(st, d, c)
    BY <1>2, Z3 DEF Handler
  <2> QED BY <2>1, SortedSetRepeats
<1>3. CASE c[1] = "zrem"
  <2>1. \A st : Handler(st, d, c) = ZRem(st, d, c)
    BY <1>3, Z3 DEF Handler
  <2> QED BY <2>1, SortedSetRepeats
<1>4. CASE c[1] = "zremrangebyscore"
  <2>1. \A st : Handler(st, d, c) = ZRemRangeByScore(st, d, c)
    BY <1>4, Z3 DEF Handler
  <2> QED BY <2>1, SortedSetRepeats
<1>5. CASE c[1] = "zremrangebylex"
  <2>1. \A st : Handler(st, d, c) = ZRemRangeByLex(st, d, c)
    BY <1>5, Z3 DEF Handler
  <2> QED BY <2>1, SortedSetRepeats
<1>6. CASE c[1] = "zremrangebyrank"
  <2>1. \A st : Handler(st, d, c) = ZRemRangeByRank(st, d, c)
    BY <1>6, Z3 DEF Handler
  <2> QED BY <2>1, SortedSetRepeats
<1>7. CASE c[1] = "geoadd"
  <2>1. \A st : Handler(st, d, c) = GeoAdd(st, d, c)
    BY <1>7, Z3 DEF Handler
  <2> QED BY <2>1, SortedSetRepeats
<1> QED BY <1>1, <1>2, <1>3, <1>4, <1>5, <1>6, <1>7

LEMMA DeadlineHandlers ==
  ASSUME NEW x, NEW y, NEW d, NEW c, Pre(x, y, d, c[2]),
         c[1] \in {"persist", "expire"}
  PROVE  Repeats(Handler(x, d, c), Handler(y, d, c), x, y, d, {c[2]}, c)
<1>1. CASE c[1] = "persist"
  <2>1. \A st : Handler(st, d, c) = Persist(st, d, c)
    BY <1>1, Z3 DEF Handler
  <2> QED BY <2>1, DeadlineRepeats
<1>2. CASE c[1] = "expire"
  <2>1. \A st : Handler(st, d, c) = Expire(st, d, c)
    BY <1>2, Z3 DEF Handler
  <2> QED BY <2>1, DeadlineRepeats
<1> QED BY <1>1, <1>2

LEMMA OfOneRepeats ==
  ASSUME NEW x, NEW y, NEW d, NEW c, Pre(x, y, d, c[2]), c[1] \in OfOne
  PROVE  Repeats(Handler(x, d, c), Handler(y, d, c), x, y, d, {c[2]}, c)
  BY StringHandlers, HashHandlers, ListHandlers, SetHandlers, SortedSetHandlers, DeadlineHandlers
     DEF OfOne, OthersOfOne
-----------------------------------------------------------------------------
(***************************************************************************)
(* What each command does wherever it is executed.                         *)
(***************************************************************************)
Valid(c) == WellFormed(c) /\ ArityOK(c) /\ c[1] # "select"

\* Where its keys hold the same, a command does the same to them and nothing
\* to others, and is logged as it came.
Repeatable(c) ==
  \A x, y, d :
    IsStore(x) /\ IsStore(y) /\ d \in DBs /\ Equal(x, y, Touched(c))
    => Follows(Handler(x, d, c), Handler(y, d, c), x, y, Touched(c), c)

Announcing(c) ==
  \A x, d : IsStore(x) /\ d \in DBs =>
    \A o \in Handler(x, d, c) : Announced(o, x) /\ (o.fired = {} => Local(o.kv, x, {}))

LEMMA KeysTouched ==
  ASSUME NEW c, Valid(c), c[1] \notin {"flushdb", "flushall"}
  PROVE  /\ \A i \in KeyPlaces(c) : c[i] \in Touched(c)
         /\ Touched(c) = Keys \cap {c[i] : i \in 2..Len(c)}
  BY DEF Valid, WellFormed, Touched

LEMMA WiderLocal ==
  ASSUME NEW a, NEW x, NEW K, NEW T, K \subseteq T, Local(a, x, K)
  PROVE  Local(a, x, T)
  BY DEF Local

LEMMA WiderEqual ==
  ASSUME NEW a, NEW b, NEW x, NEW y, NEW K, NEW T, K \subseteq T,
         Local(a, x, K), Local(b, y, K), Equal(a, b, K), Equal(x, y, T)
  PROVE  Equal(a, b, T)
<1>1. ASSUME NEW e \in DBs, NEW k \in T, k \notin K
      PROVE  SameAt(a, b, e, k)
  <2>1. SameAt(a, x, e, k) /\ SameAt(b, y, e, k) /\ SameAt(x, y, e, k)
    BY <1>1 DEF Local, Equal
  <2> QED BY <2>1 DEF SameAt
<1> QED BY <1>1 DEF Equal

LEMMA WiderFollows ==
  ASSUME NEW X, NEW Y, NEW x, NEW y, NEW K, NEW T, NEW c, K \subseteq T,
         Follows(X, Y, x, y, K, c), Equal(x, y, T)
  PROVE  Follows(X, Y, x, y, T, c)
<1>1. ASSUME NEW o \in X, NEW p \in Y
      PROVE  Local(o.kv, x, T) /\ Local(p.kv, y, T) /\ o.cmd = c /\ p.cmd = c /\ Equal(o.kv, p.kv, T)
  <2>1. Local(o.kv, x, K) /\ Local(p.kv, y, K) /\ o.cmd = c /\ p.cmd = c /\ Equal(o.kv, p.kv, K)
    BY DEF Follows
  <2> QED BY <2>1, WiderLocal, WiderEqual
<1> QED BY <1>1 DEF Follows

LEMMA MadeAnnounced ==
  ASSUME NEW o, NEW x, NEW d, NEW K, NEW c, Made(o, x, d, K, c), IsStore(x)
  PROVE  Announced(o, x) /\ (o.fired = {} => Local(o.kv, x, {}))
<1>1. CASE o.fired = {} /\ o.kv = x
  BY <1>1 DEF Announced, Local, SameAt
<1>2. CASE o.fired = Events(d, K)
  <2>1. \A k \in K : <<d, k>> \in o.fired
    BY <1>2 DEF Events
  <2>2. ASSUME NEW e \in DBs, NEW k, ~SameAt(o.kv, x, e, k)
        PROVE  <<e, k>> \in o.fired
    BY <2>1, <2>2 DEF Made, Written
  <2>3. Announced(o, x)
    BY <2>2 DEF Announced
  <2>4. o.fired = {} => \A e \in DBs : \A k : SameAt(o.kv, x, e, k)
    BY <2>2
  <2>5. IsStore(o.kv)
    BY DEF Made, Written
  <2> QED BY <2>3, <2>4, <2>5 DEF Local
<1> QED BY <1>1, <1>2 DEF Made

RepeatsOn(c, K) ==
  \A x, y, d :
    IsStore(x) /\ IsStore(y) /\ d \in DBs /\ Equal(x, y, Touched(c))
    => Repeats(Handler(x, d, c), Handler(y, d, c), x, y, d, K, c)

LEMMA FromRepeats ==
  ASSUME NEW c, NEW K, K \subseteq Touched(c), RepeatsOn(c, K)
  PROVE  Repeatable(c) /\ Announcing(c)
<1>1. ASSUME NEW x, NEW y, NEW d, IsStore(x), IsStore(y), d \in DBs, Equal(x, y, Touched(c))
      PROVE  Follows(Handler(x, d, c), Handler(y, d, c), x, y, Touched(c), c)
  <2>1. Equal(x, y, K)
    BY <1>1 DEF Equal
  <2>2. Repeats(Handler(x, d, c), Handler(y, d, c), x, y, d, K, c)
    BY <1>1 DEF RepeatsOn
  <2> QED BY <1>1, <2>1, <2>2, RepeatsFollows, WiderFollows
<1>2. ASSUME NEW x, NEW d, IsStore(x), d \in DBs, NEW o \in Handler(x, d, c)
      PROVE  Announced(o, x) /\ (o.fired = {} => Local(o.kv, x, {}))
  <2>1. Equal(x, x, Touched(c))
    BY DEF Equal, SameAt
  <2>2. Repeats(Handler(x, d, c), Handler(x, d, c), x, x, d, K, c)
    BY <1>2, <2>1 DEF RepeatsOn
  <2>3. Made(o, x, d, K, c)
    BY <1>2, <2>2 DEF Repeats
  <2> QED BY <1>2, <2>3, MadeAnnounced
<1> QED BY <1>1, <1>2 DEF Repeatable, Announcing

LEMMA EqualPre ==
  ASSUME NEW x, NEW y, NEW d, IsStore(x), IsStore(y), d \in DBs, NEW T, Equal(x, y, T)
  PROVE  \A k \in T : Pre(x, y, d, k) /\ Equal(x, y, {k})
  BY DEF Equal, Pre

LEMMA OfOneCommand ==
  ASSUME NEW c, Valid(c), c[1] \in OfOne
  PROVE  Repeatable(c) /\ Announcing(c)
<1>1. c[2] \in Touched(c)
  <2>1. 2 \in KeyPlaces(c) /\ c[1] \notin {"flushdb", "flushall"}
    BY DEF KeyPlaces, OfOne, StringsOfOne, OthersOfOne
  <2> QED BY <2>1, KeysTouched
<1>2. ASSUME NEW x, NEW y, NEW d, IsStore(x), IsStore(y), d \in DBs, Equal(x, y, Touched(c))
      PROVE  Repeats(Handler(x, d, c), Handler(y, d, c), x, y, d, {c[2]}, c)
  <2>1. Pre(x, y, d, c[2])
    BY <1>1, <1>2, EqualPre
  <2> QED BY <2>1, OfOneRepeats
<1>3. RepeatsOn(c, {c[2]})
  BY <1>2 DEF RepeatsOn
<1> QED BY <1>1, <1>3, FromRepeats
OfTwo == {"mset", "msetnx", "pfmerge", "rpoplpush", "smove", "rename", "renamenx", "del"}

\* The handlers of commands that are treated together.
LEMMA Dispatch ==
  ASSUME NEW c
  PROVE  /\ c[1] = "mset" => \A st, d : Handler(st, d, c) = MSet(st, d, c)
         /\ c[1] = "msetnx" => \A st, d : Handler(st, d, c) = MSet(st, d, c)
         /\ c[1] = "sdiffstore" => \A st, d : Handler(st, d, c) = SDiffStore(st, d, c)
         /\ c[1] = "sinterstore" => \A st, d : Handler(st, d, c) = SInterStore(st, d, c)
         /\ c[1] = "sunionstore" => \A st, d : Handler(st, d, c) = SUnionStore(st, d, c)
         /\ c[1] = "lpop" => \A st, d : Handler(st, d, c) = LPop(st, d, c)
         /\ c[1] = "rpop" => \A st, d : Handler(st, d, c) = RPop(st, d, c)
<1>1. ASSUME c[1] = "mset" PROVE \A st, d : Handler(st, d, c) = MSet(st, d, c)
  BY <1>1, Z3 DEF Handler
<1>2. ASSUME c[1] = "msetnx" PROVE \A st, d : Handler(st, d, c) = MSet(st, d, c)
  BY <1>2, Z3 DEF Handler
<1>3. ASSUME c[1] = "sdiffstore" PROVE \A st, d : Handler(st, d, c) = SDiffStore(st, d, c)
  BY <1>3, Z3 DEF Handler
<1>4. ASSUME c[1] = "sinterstore" PROVE \A st, d : Handler(st, d, c) = SInterStore(st, d, c)
  BY <1>4, Z3 DEF Handler
<1>5. ASSUME c[1] = "sunionstore" PROVE \A st, d : Handler(st, d, c) = SUnionStore(st, d, c)
  BY <1>5, Z3 DEF Handler
<1>6. ASSUME c[1] = "lpop" PROVE \A st, d : Handler(st, d, c) = LPop(st, d, c)
  BY <1>6, Z3 DEF Handler
<1>7. ASSUME c[1] = "rpop" PROVE \A st, d : Handler(st, d, c) = RPop(st, d, c)
  BY <1>7, Z3 DEF Handler
<1> QED BY <1>1, <1>2, <1>3, <1>4, <1>5, <1>6, <1>7

LEMMA MSetCommand ==
  ASSUME NEW c, Valid(c), c[1] \in {"mset", "msetnx"}
  PROVE  Repeatable(c) /\ Announcing(c)
<1>1. c[2] \in Touched(c) /\ c[4] \in Touched(c)
  <2>1. 2 \in KeyPlaces(c) /\ 4 \in KeyPlaces(c) /\ c[1] \notin {"flushdb", "flushall"}
    BY DEF KeyPlaces
  <2> QED BY <2>1, KeysTouched
<1>2. \A st, d : Handler(st, d, c) = MSet(st, d, c)
  BY Dispatch
<1>4. ASSUME NEW x, NEW y, NEW d, IsStore(x), IsStore(y), d \in DBs, Equal(x, y, Touched(c))
      PROVE  Repeats(Handler(x, d, c), Handler(y, d, c), x, y, d, {c[2], c[4]}, c)
  <2>1. Pre(x, y, d, c[2]) /\ Pre(x, y, d, c[4])
    BY <1>1, <1>4, EqualPre
  <2> QED BY <1>2, <2>1, MSetRepeats
<1>5. RepeatsOn(c, {c[2], c[4]})
  BY <1>4 DEF RepeatsOn
<1> QED BY <1>1, <1>5, FromRepeats

LEMMA PFMergeCommand ==
  ASSUME NEW c, Valid(c), c[1] = "pfmerge"
  PROVE  Repeatable(c) /\ Announcing(c)
<1>1. c[2] \in Touched(c) /\ c[3] \in Touched(c)
  <2>1. 2 \in KeyPlaces(c) /\ 3 \in KeyPlaces(c) /\ c[1] \notin {"flushdb", "flushall"}
    BY DEF KeyPlaces
  <2> QED BY <2>1, KeysTouched
<1>2. \A st, d : Handler(st, d, c) = PFMerge(st, d, c)
  BY Z3 DEF Handler
<1>4. ASSUME NEW x, NEW y, NEW d, IsStore(x), IsStore(y), d \in DBs, Equal(x, y, Touched(c))
      PROVE  Repeats(Handler(x, d, c), Handler(y, d, c), x, y, d, {c[2]}, c)
  <2>1. Pre(x, y, d, c[2]) /\ Pre(x, y, d, c[3])
    BY <1>1, <1>4, EqualPre
  <2> QED BY <1>2, <2>1, PFMergeRepeats
<1>5. RepeatsOn(c, {c[2]})
  BY <1>4 DEF RepeatsOn
<1> QED BY <1>1, <1>5, FromRepeats

LEMMA RPopLPushCommand ==
  ASSUME NEW c, Valid(c), c[1] = "rpoplpush"
  PROVE  Repeatable(c) /\ Announcing(c)
<1>1. c[2] \in Touched(c) /\ c[3] \in Touched(c)
  <2>1. 2 \in KeyPlaces(c) /\ 3 \in KeyPlaces(c) /\ c[1] \notin {"flushdb", "flushall"}
    BY DEF KeyPlaces
  <2> QED BY <2>1, KeysTouched
<1>2. \A st, d : Handler(st, d, c) = RPopLPush(st, d, c)
  BY Z3 DEF Handler
<1>3. [c EXCEPT ![1] = "rpoplpush"] = c
  BY DEF Valid, WellFormed
<1>4. ASSUME NEW x, NEW y, NEW d, IsStore(x), IsStore(y), d \in DBs, Equal(x, y, Touched(c))
      PROVE  Repeats(Handler(x, d, c), Handler(y, d, c), x, y, d, {c[2], c[3]}, c)
  <2>1. Pre(x, y, d, c[2]) /\ Pre(x, y, d, c[3])
    BY <1>1, <1>4, EqualPre
  <2> QED BY <1>2, <1>3, <2>1, RPopLPushRepeats
<1>5. RepeatsOn(c, {c[2], c[3]})
  BY <1>4 DEF RepeatsOn
<1> QED BY <1>1, <1>5, FromRepeats

LEMMA SMoveCommand ==
  ASSUME NEW c, Valid(c), c[1] = "smove"
  PROVE  Repeatable(c) /\ Announcing(c)
<1>1. c[2] \in Touched(c) /\ c[3] \in Touched(c)
  <2>1. 2 \in KeyPlaces(c) /\ 3 \in KeyPlaces(c) /\ c[1] \notin {"flushdb", "flushall"}
    BY DEF KeyPlaces
  <2> QED BY <2>1, KeysTouched
<1>2. \A st, d : Handler(st, d, c) = SMove(st, d, c)
  BY Z3 DEF Handler
<1>4. ASSUME NEW x, NEW y, NEW d, IsStore(x), IsStore(y), d \in DBs, Equal(x, y, Touched(c))
      PROVE  Repeats(Handler(x, d, c), Handler(y, d, c), x, y, d, {c[2], c[3]}, c)
  <2>1. Pre(x, y, d, c[2]) /\ Pre(x, y, d, c[3])
    BY <1>1, <1>4, EqualPre
  <2> QED BY <1>2, <2>1, SMoveRepeats
<1>5. RepeatsOn(c, {c[2], c[3]})
  BY <1>4 DEF RepeatsOn
<1> QED BY <1>1, <1>5, FromRepeats

LEMMA RenameCommand ==
  ASSUME NEW c, Valid(c), c[1] = "rename"
  PROVE  Repeatable(c) /\ Announcing(c)
<1>1. c[2] \in Touched(c) /\ c[3] \in Touched(c)
  <2>1. 2 \in KeyPlaces(c) /\ 3 \in KeyPlaces(c) /\ c[1] \notin {"flushdb", "flushall"}
    BY DEF KeyPlaces
  <2> QED BY <2>1, KeysTouched
<1>2. \A st, d : Handler(st, d, c) = Rename(st, d, c)
  BY Z3 DEF Handler
<1>4. ASSUME NEW x, NEW y, NEW d, IsStore(x), IsStore(y), d \in DBs, Equal(x, y, Touched(c))
      PROVE  Repeats(Handler(x, d, c), Handler(y, d, c), x, y, d, {c[2], c[3]}, c)
  <2>1. Pre(x, y, d, c[2]) /\ Pre(x, y, d, c[3])
    BY <1>1, <1>4, EqualPre
  <2> QED BY <1>2, <2>1, RenameRepeats
<1>5. RepeatsOn(c, {c[2], c[3]})
  BY <1>4 DEF RepeatsOn
<1> QED BY <1>1, <1>5, FromRepeats

LEMMA RenameNXCommand ==
  ASSUME NEW c, Valid(c), c[1] = "renamenx"
  PROVE  Repeatable(c) /\ Announcing(c)
<1>1. c[2] \in Touched(c) /\ c[3] \in Touched(c)
  <2>1. 2 \in KeyPlaces(c) /\ 3 \in KeyPlaces(c) /\ c[1] \notin {"flushdb", "flushall"}
    BY DEF KeyPlaces
  <2> QED BY <2>1, KeysTouched
<1>2. \A st, d : Handler(st, d, c) = RenameNX(st, d, c)
  BY Z3 DEF Handler
<1>4. ASSUME NEW x, NEW y, NEW d, IsStore(x), IsStore(y), d \in DBs, Equal(x, y, Touched(c))
      PROVE  Repeats(Handler(x, d, c), Handler(y, d, c), x, y, d, {c[2], c[3]}, c)
  <2>1. Pre(x, y, d, c[2]) /\ Pre(x, y, d, c[3])
    BY <1>1, <1>4, EqualPre
  <2> QED BY <1>2, <2>1, RenameRepeats
<1>5. RepeatsOn(c, {c[2], c[3]})
  BY <1>4 DEF RepeatsOn
<1> QED BY <1>1, <1>5, FromRepeats

LEMMA DelCommand ==
  ASSUME NEW c, Valid(c), c[1] = "del"
  PROVE  Repeatable(c) /\ Announcing(c)
<1> DEFINE K == {c[i] : i \in 2..Len(c)}
<1>1. \A i \in 2..Len(c) : c[i] \in Touched(c)
  <2>1. KeyPlaces(c) = 2..Len(c) /\ c[1] \notin {"flushdb", "flushall"}
    BY DEF KeyPlaces
  <2> QED BY <2>1, KeysTouched
<1>2. \A st, d : Handler(st, d, c) = Del_(st, d, c)
  BY Z3 DEF Handler
<1>3. ASSUME NEW x, NEW y, NEW d, IsStore(x), IsStore(y), d \in DBs, Equal(x, y, Touched(c))
      PROVE  Repeats(Handler(x, d, c), Handler(y, d, c), x, y, d, K, c)
  <2>1. \A i \in 2..Len(c) : SameAt(x, y, d, c[i])
    BY <1>1, <1>3 DEF Equal
  <2> QED BY <1>2, <1>3, <2>1, DelRepeats
<1>4. K \subseteq Touched(c)
  BY <1>1
<1> HIDE DEF K
<1>5. RepeatsOn(c, K)
  BY <1>3 DEF RepeatsOn
<1> QED BY <1>4, <1>5, FromRepeats

LEMMA OfTwoCommand ==
  ASSUME NEW c, Valid(c), c[1] \in OfTwo
  PROVE  Repeatable(c) /\ Announcing(c)
  BY MSetCommand, PFMergeCommand, RPopLPushCommand, SMoveCommand, RenameCommand, RenameNXCommand,
     DelCommand DEF OfTwo
FollowsOn(c, K) ==
  \A x, y, d :
    IsStore(x) /\ IsStore(y) /\ d \in DBs /\ Equal(x, y, Touched(c))
    => Follows(Handler(x, d, c), Handler(y, d, c), x, y, K, c)

LEMMA FromFollows ==
  ASSUME NEW c, NEW K, K \subseteq Touched(c), FollowsOn(c, K)
  PROVE  Repeatable(c)
  BY WiderFollows DEF FollowsOn, Repeatable

LEMMA BitopCommand ==
  ASSUME NEW c, Valid(c), c[1] = "bitop"
  PROVE  /\ Repeatable(c)
         /\ \A x, d : IsStore(x) => \A o \in Handler(x, d, c) : o.fired = {} => o.kv = x
<1>1. c[3] \in Touched(c) /\ c[4] \in Touched(c)
  <2>1. 3 \in KeyPlaces(c) /\ 4 \in KeyPlaces(c) /\ c[1] \notin {"flushdb", "flushall"}
    BY DEF KeyPlaces
  <2> QED BY <2>1, KeysTouched
<1>2. \A st, d : Handler(st, d, c) = Bitop(st, d, c)
  BY Z3 DEF Handler
<1>4. ASSUME NEW x, NEW y, NEW d, IsStore(x), IsStore(y), d \in DBs, Equal(x, y, Touched(c))
      PROVE  Follows(Handler(x, d, c), Handler(y, d, c), x, y, {c[3]}, c)
  <2>1. Equal(x, y, {c[3]}) /\ Equal(x, y, {c[4]})
    BY <1>1, <1>4, EqualPre
  <2> QED BY <1>2, <1>4, <2>1, BitopFollows
<1>5. FollowsOn(c, {c[3]})
  BY <1>4 DEF FollowsOn
<1>6. Repeatable(c)
  BY <1>1, <1>5, FromFollows
<1>7. ASSUME NEW x, NEW d, NEW o \in Handler(x, d, c), o.fired = {}
      PROVE  o.kv = x
  <2>1. \A a : \A p \in Changed(a, d, {c[2]}, c) : p.fired # {}
    <3>1. <<d, c[2]>> \in {<<d, k>> : k \in {c[2]}}
      OBVIOUS
    <3>2. \A a : \A p \in Changed(a, d, {c[2]}, c) : p.fired = {<<d, k>> : k \in {c[2]}}
      BY DEF Changed, Outcome
    <3> QED BY <3>1, <3>2
  <2>2. \A p \in Refused(x, c) : p.kv = x
    BY DEF Refused, Outcome
  <2> QED BY <1>2, <1>7, <2>1, <2>2 DEF Bitop
<1> QED BY <1>6, <1>7

LEMMA SStoreCommand ==
  ASSUME NEW c, Valid(c), c[1] \in {"sdiffstore", "sinterstore", "sunionstore"}
  PROVE  Repeatable(c)
<1>1. c[2] \in Touched(c) /\ c[3] \in Touched(c) /\ c[4] \in Touched(c)
  <2>1. 2 \in KeyPlaces(c) /\ 3 \in KeyPlaces(c) /\ 4 \in KeyPlaces(c) /\ c[1] \notin {"flushdb", "flushall"}
    BY DEF KeyPlaces
  <2> QED BY <2>1, KeysTouched
<1>2. \A st, d : Handler(st, d, c) = CASE c[1] = "sdiffstore" -> SDiffStore(st, d, c)
                                       [] c[1] = "sinterstore" -> SInterStore(st, d, c)
                                       [] c[1] = "sunionstore" -> SUnionStore(st, d, c)
  BY Dispatch
<1>4. ASSUME NEW x, NEW y, NEW d, IsStore(x), IsStore(y), d \in DBs, Equal(x, y, Touched(c))
      PROVE  Follows(Handler(x, d, c), Handler(y, d, c), x, y, {c[2]}, c)
  <2>1. Equal(x, y, {c[2]}) /\ Equal(x, y, {c[3]}) /\ Equal(x, y, {c[4]})
    BY <1>1, <1>4, EqualPre
  <2> QED BY <1>2, <1>4, <2>1, SStoreFollows
<1>5. FollowsOn(c, {c[2]})
  BY <1>4 DEF FollowsOn
<1>6. Repeatable(c)
  BY <1>1, <1>5, FromFollows
<1> QED BY <1>6

LEMMA SortCommand ==
  ASSUME NEW c, Valid(c), c[1] = "sort"
  PROVE  Repeatable(c)
<1>1. c[2] \in Touched(c) /\ c[3] \in Touched(c)
  <2>1. 2 \in KeyPlaces(c) /\ 3 \in KeyPlaces(c) /\ c[1] \notin {"flushdb", "flushall"}
    BY DEF KeyPlaces
  <2> QED BY <2>1, KeysTouched
<1>2. \A st, d : Handler(st, d, c) = Sort(st, d, c)
  BY Z3 DEF Handler
<1>4. ASSUME NEW x, NEW y, NEW d, IsStore(x), IsStore(y), d \in DBs, Equal(x, y, Touched(c))
      PROVE  Follows(Handler(x, d, c), Handler(y, d, c), x, y, {c[3]}, c)
  <2>1. Equal(x, y, {c[2]}) /\ Equal(x, y, {c[3]})
    BY <1>1, <1>4, EqualPre
  <2> QED BY <1>2, <1>4, <2>1, SortFollows
<1>5. FollowsOn(c, {c[3]})
  BY <1>4 DEF FollowsOn
<1>6. Repeatable(c)
  BY <1>1, <1>5, FromFollows
<1> QED BY <1>6

LEMMA MoveCommand ==
  ASSUME NEW c, Valid(c), c[1] = "move"
  PROVE  Repeatable(c) /\ Announcing(c)
<1>1. c[2] \in Touched(c)
  <2>1. 2 \in KeyPlaces(c) /\ c[1] \notin {"flushdb", "flushall"}
    BY DEF KeyPlaces
  <2> QED BY <2>1, KeysTouched
<1>2. \A st, d : Handler(st, d, c) = Move(st, d, c)
  BY Z3 DEF Handler
<1>3. c[3] \in DBs
  BY DEF Valid, WellFormed
<1>4. ASSUME NEW x, NEW y, NEW d, IsStore(x), IsStore(y), d \in DBs, Equal(x, y, Touched(c))
      PROVE  Follows(Handler(x, d, c), Handler(y, d, c), x, y, {c[2]}, c)
  <2>1. Equal(x, y, {c[2]})
    BY <1>1, <1>4, EqualPre
  <2> QED BY <1>2, <1>3, <1>4, <2>1, MoveFollows
<1>5. FollowsOn(c, {c[2]})
  BY <1>4 DEF FollowsOn
<1>6. Repeatable(c)
  BY <1>1, <1>5, FromFollows
<1>7. ASSUME NEW x, NEW d, IsStore(x), d \in DBs, NEW o \in Handler(x, d, c)
      PROVE  Announced(o, x) /\ (o.fired = {} => Local(o.kv, x, {}))
  <2>1. Equal(x, x, {c[2]})
    BY DEF Equal, SameAt
  <2>3. \A p \in Move(x, d, c) : Announced(p, x) /\ (p.fired = {} => p.kv = x)
    BY <1>3, <1>7, <2>1, MoveFollows
  <2>4. o \in Move(x, d, c)
    BY <1>2, <1>7
  <2>2. Announced(o, x) /\ (o.fired = {} => o.kv = x)
    BY <2>3, <2>4
  <2> QED BY <1>7, <2>2 DEF Local, SameAt
<1> QED BY <1>6, <1>7 DEF Announcing
-----------------------------------------------------------------------------
(***************************************************************************)
(* What is logged for a command, and what it does on a slave.              *)
(***************************************************************************)
\* The store a is x but for what c touches.
Outside(a, x, c) ==
  IsStore(a) /\ \A e \in DBs : \A k \in Keys \ Touched(c) : SameAt(a, x, e, k)

\* The record r does nothing but to what c touches.
Within(r, c) ==
  /\ r[1] # "select"
  /\ ArityOK(r) => \A z, e : IsStore(z) /\ e \in DBs => \A p \in Handler(z, e, r) : Outside(p.kv, z, c)

\* The record of o does what c did.
Replays(o, x, d, c) ==
  /\ ArityOK(o.cmd)
  /\ \A y : IsStore(y) /\ Equal(x, y, Touched(c)) =>
       \A p \in Handler(y, d, o.cmd) : Equal(o.kv, p.kv, Touched(c))

Facts(o, x, d, c) ==
  /\ Outside(o.kv, x, c)
  /\ o.fired = {} => \/ c[1] \in Unlogged \cup LoggedUnlessEmpty
                     \/ Swallows(x, d, c) \/ Local(o.kv, x, {})
  /\ o.fired # {} => Within(o.cmd, c)
  /\ o.fired # {} /\ c[1] \notin Unlogged \cup LoggedWrong => Replays(o, x, d, c)
  /\ c[1] \notin Silent /\ ~Swallows(x, d, c) => Announced(o, x)

LEMMA LocalOutside ==
  ASSUME NEW a, NEW x, NEW K, NEW c, Local(a, x, K), K \cap Keys \subseteq Touched(c)
  PROVE  Outside(a, x, c)
  BY DEF Local, Outside

LEMMA SelfEqual ==
  ASSUME NEW x, NEW K
  PROVE  Equal(x, x, K)
  BY DEF Equal, SameAt

\* The command r does what c does, and is what is logged for it.
LEMMA LoggedAs ==
  ASSUME NEW c, NEW r, Valid(r), Repeatable(r), Touched(r) \subseteq Touched(c),
         NEW x, NEW d, IsStore(x), d \in DBs, NEW o \in Handler(x, d, r)
  PROVE  Outside(o.kv, x, c) /\ Within(o.cmd, c) /\ Replays(o, x, d, c)
<1>1. ASSUME NEW z, NEW e, IsStore(z), e \in DBs, NEW p \in Handler(z, e, r)
      PROVE  Local(p.kv, z, Touched(r)) /\ p.cmd = r
  <2>1. Follows(Handler(z, e, r), Handler(z, e, r), z, z, Touched(r), r)
    BY <1>1, SelfEqual DEF Repeatable
  <2> QED BY <1>1, <2>1 DEF Follows
<1>3. Local(o.kv, x, Touched(r)) /\ o.cmd = r
  BY <1>1
<1>4. \A z, e : IsStore(z) /\ e \in DBs => \A p \in Handler(z, e, r) : Outside(p.kv, z, c)
  BY <1>1, LocalOutside
<1>5. ArityOK(r) /\ r[1] # "select"
  BY DEF Valid
<1>6. ASSUME NEW y, IsStore(y), Equal(x, y, Touched(c)), NEW p \in Handler(y, d, r)
      PROVE  Equal(o.kv, p.kv, Touched(c))
  <2>1. Equal(x, y, Touched(r))
    BY <1>6 DEF Equal
  <2>2. Follows(Handler(x, d, r), Handler(y, d, r), x, y, Touched(r), r)
    BY <1>6, <2>1 DEF Repeatable
  <2>3. Follows(Handler(x, d, r), Handler(y, d, r), x, y, Touched(c), r)
    BY <1>6, <2>2, WiderFollows
  <2> QED BY <1>6, <2>3 DEF Follows
<1>7. Outside(o.kv, x, c)
  BY <1>3, LocalOutside
<1>8. Within(o.cmd, c)
  BY <1>3, <1>4, <1>5 DEF Within
<1>9. Replays(o, x, d, c)
  BY <1>3, <1>5, <1>6 DEF Replays
<1> QED BY <1>7, <1>8, <1>9

LEMMA AsItself ==
  ASSUME NEW c, Valid(c), Repeatable(c), Announcing(c),
         NEW x, NEW d, IsStore(x), d \in DBs, NEW o \in Handler(x, d, c)
  PROVE  Facts(o, x, d, c)
<1>1. Outside(o.kv, x, c) /\ Within(o.cmd, c) /\ Replays(o, x, d, c)
  BY LoggedAs
<1>2. Announced(o, x) /\ (o.fired = {} => Local(o.kv, x, {}))
  BY DEF Announcing
<1> QED BY <1>1, <1>2 DEF Facts

\* BLPOP and BRPOP are logged as LPOP and RPOP, unless they swallow what they
\* pop.
LEMMA BLPopFacts ==
  ASSUME NEW c, Valid(c), c[1] \in {"blpop", "brpop"},
         NEW x, NEW d, IsStore(x), d \in DBs, NEW o \in Handler(x, d, c)
  PROVE  Facts(o, x, d, c)
<1> DEFINE r == IF c[1] = "blpop" THEN <<"lpop", c[2]>> ELSE <<"rpop", c[2]>>
<1>1. r[1] \in {"lpop", "rpop"} /\ r[2] = c[2] /\ Len(r) = 2 /\ r = [i \in 1..Len(r) |-> r[i]]
  OBVIOUS
<1>2. c[2] \in Keys /\ c[2] \in Touched(c)
  <2>1. 2 \in KeyPlaces(c) /\ c[1] \notin {"flushdb", "flushall"}
    BY DEF KeyPlaces
  <2> QED BY <2>1, KeysTouched DEF Valid, WellFormed
<1>3. \A st, e : Handler(st, e, c) = BLPop(st, e, c)
  BY Z3 DEF Handler
<1>4. \A st, e : Handler(st, e, r) = IF r[1] = "lpop" THEN LPop(st, e, r) ELSE RPop(st, e, r)
  <2> HIDE DEF r
  <2> QED BY <1>1, Dispatch
<1>5. PICK p \in Handler(x, d, r) :
        IF Swallows(x, d, c) THEN o.kv = p.kv /\ o.fired = {} ELSE o = p
  BY <1>3, <1>4 DEF BLPop, Outcome
<1> HIDE DEF r
<1>6. Valid(r)
  <2>1. ArityOK(r) /\ r[1] \in DOMAIN Arity /\ r[1] # "select"
    BY <1>1 DEF ArityOK, Arity, Any
  <2>2. KeyPlaces(r) = {2} /\ r[1] # "move"
    BY <1>1 DEF KeyPlaces
  <2> QED BY <1>1, <1>2, <2>1, <2>2 DEF Valid, WellFormed
<1>7. Repeatable(r) /\ Announcing(r)
  BY <1>1, <1>6, OfOneCommand DEF OfOne, OthersOfOne
<1>8. Touched(r) \subseteq Touched(c)
  BY <1>1, <1>2 DEF Touched
<1>9. Outside(p.kv, x, c) /\ Within(p.cmd, c) /\ Replays(p, x, d, c)
  BY <1>6, <1>7, <1>8, LoggedAs
<1>10. Announced(p, x) /\ (p.fired = {} => Local(p.kv, x, {}))
  BY <1>7 DEF Announcing
<1>11. CASE Swallows(x, d, c)
  BY <1>5, <1>9, <1>11 DEF Facts
<1>12. CASE ~Swallows(x, d, c)
  BY <1>5, <1>9, <1>10, <1>12 DEF Facts
<1> QED BY <1>11, <1>12

LEMMA MadeOutside ==
  ASSUME NEW o, NEW x, NEW d, NEW K, NEW r, NEW c, Made(o, x, d, K, r), K \subseteq Touched(c)
  PROVE  Outside(o.kv, x, c)
<1>1. Local(o.kv, x, K)
  BY WrittenLocal DEF Made
<1> QED BY <1>1, LocalOutside

LEMMA MadeEqual ==
  ASSUME NEW o, NEW p, NEW x, NEW y, NEW d \in DBs, NEW K, NEW r, NEW T, K \subseteq T,
         Made(o, x, d, K, r), Made(p, y, d, K, r), \A k \in K : SameAt(o.kv, p.kv, d, k),
         Equal(x, y, T)
  PROVE  Equal(o.kv, p.kv, T)
<1>1. Written(o.kv, x, d, K) /\ Written(p.kv, y, d, K)
  BY DEF Made
<1>2. Equal(x, y, K)
  BY DEF Equal
<1>3. Equal(o.kv, p.kv, K)
  BY <1>1, <1>2, WrittenEqual
<1>4. Local(o.kv, x, K) /\ Local(p.kv, y, K)
  BY <1>1, WrittenLocal
<1> QED BY <1>3, <1>4, WiderEqual

\* An update of one key, announced.
LEMMA UpdateMade ==
  ASSUME NEW x, IsStore(x), NEW d \in DBs, NEW k, NEW t, NEW v, NEW r,
         NEW o \in Changed(Update(x, d, k, t, v), d, {k}, r)
  PROVE  Made(o, x, d, {k}, r) /\ o.fired # {}
<1>1. /\ o.kv = Update(x, d, k, t, v) /\ o.cmd = r /\ o.fired = Events(d, {k})
  BY DEF Changed, Outcome, Events
<1>2. <<d, k>> \in Events(d, {k})
  BY DEF Events
<1> QED BY <1>1, <1>2, UpdateFacts DEF Made

LEMMA RefusedMade ==
  ASSUME NEW x, IsStore(x), NEW d, NEW K, NEW r, NEW o \in Refused(x, r)
  PROVE  Made(o, x, d, K, r) /\ o.fired = {}
<1>1. o.kv = x /\ o.cmd = r /\ o.fired = {}
  BY DEF Refused, Outcome
<1> QED BY <1>1 DEF Made, Written, SameAt

\* SPOP is logged as the SREM of the member it took.
LEMMA SPopFacts ==
  ASSUME NEW c, Valid(c), c[1] = "spop",
         NEW x, NEW d, IsStore(x), d \in DBs, NEW o \in Handler(x, d, c)
  PROVE  Facts(o, x, d, c)
<1> DEFINE k == c[2]
           S == Get(x, d, k, {})
           r(m) == <<"srem", k, m>>
<1>1. k \in Touched(c)
  <2>1. 2 \in KeyPlaces(c) /\ c[1] \notin {"flushdb", "flushall"}
    BY DEF KeyPlaces
  <2> QED BY <2>1, KeysTouched
<1>2. o \in SPop(x, d, c)
  BY Z3 DEF Handler
<1>3. CASE ~(Fits(x, d, k, "set") /\ S # {})
  <2>1. o \in Refused(x, c)
    BY <1>2, <1>3 DEF SPop
  <2>2. Made(o, x, d, {k}, c) /\ o.fired = {}
    BY <2>1, RefusedMade
  <2> QED BY <1>1, <2>2, MadeOutside, MadeAnnounced DEF Facts
<1>4. CASE Fits(x, d, k, "set") /\ S # {}
  <2>1. PICK m \in S : o \in SChange(x, d, c, S \ {m}, r(m))
    BY <1>2, <1>4 DEF SPop
  <2>2. Made(o, x, d, {k}, r(m)) /\ o.fired # {}
    BY <2>1, UpdateMade DEF SChange
  <2>3. r(m)[1] = "srem" /\ r(m)[2] = k /\ r(m)[3] = m /\ Len(r(m)) = 3 /\ o.cmd = r(m)
    BY <2>2 DEF Made
  <2>4. \A st, e : Handler(st, e, o.cmd) = SRem(st, e, o.cmd)
    BY <2>3, Z3 DEF Handler
  <2>5. Within(o.cmd, c)
    <3>1. ASSUME NEW z, NEW e, IsStore(z), e \in DBs, NEW p \in Handler(z, e, o.cmd)
          PROVE  Outside(p.kv, z, c)
      <4>1. Pre(z, z, e, o.cmd[2])
        BY <3>1 DEF Pre, SameAt
      <4>2. Repeats(SRem(z, e, o.cmd), SRem(z, e, o.cmd), z, z, e, {o.cmd[2]}, o.cmd)
        BY <4>1, SetRepeats
      <4>3. Made(p, z, e, {k}, o.cmd)
        BY <2>3, <2>4, <3>1, <4>2 DEF Repeats
      <4> QED BY <1>1, <4>3, MadeOutside
    <3> QED BY <2>3, <3>1 DEF Within
  <2>6. Replays(o, x, d, c)
    <3>1. ArityOK(o.cmd)
      BY <2>3 DEF ArityOK, Arity, Any
    <3>2. ASSUME NEW y, IsStore(y), Equal(x, y, Touched(c)), NEW p \in Handler(y, d, o.cmd)
          PROVE  Equal(o.kv, p.kv, Touched(c))
      <4>1. Pre(x, y, d, k)
        BY <1>1, <3>2, EqualPre
      <4>2. Get(y, d, k, {}) = S /\ Fits(y, d, k, "set")
        BY <1>4, <4>1, Seen
      <4>3. p \in SChange(y, d, o.cmd, S \ {m}, o.cmd)
        BY <2>1, <2>3, <2>4, <3>2, <4>2 DEF SRem
      <4>4. Repeats(Changed(Update(x, d, k, "set", S \ {m}), d, {k}, r(m)),
                    Changed(Update(y, d, k, "set", S \ {m}), d, {k}, r(m)), x, y, d, {k}, r(m))
        BY <4>1, Updates
      <4>5. /\ o \in Changed(Update(x, d, k, "set", S \ {m}), d, {k}, r(m))
            /\ p \in Changed(Update(y, d, k, "set", S \ {m}), d, {k}, r(m))
        BY <2>1, <2>3, <4>3 DEF SChange
      <4>6. Made(p, y, d, {k}, r(m)) /\ \A j \in {k} : SameAt(o.kv, p.kv, d, j)
        BY <4>4, <4>5 DEF Repeats
      <4> QED BY <1>1, <2>2, <3>2, <4>6, MadeEqual
    <3> QED BY <3>1, <3>2 DEF Replays
  <2>7. Outside(o.kv, x, c) /\ Announced(o, x)
    BY <1>1, <2>2, MadeOutside, MadeAnnounced
  <2> QED BY <2>2, <2>5, <2>6, <2>7 DEF Facts
<1> QED BY <1>3, <1>4

\* The record of INCRBYFLOAT sets another key, one of its arguments at most;
\* those of HINCRBYFLOAT and BRPOPLPUSH have a wrong number of arguments.
LEMMA IncrbyFloatFacts ==
  ASSUME NEW c, Valid(c), c[1] = "incrbyfloat",
         NEW x, NEW d, IsStore(x), d \in DBs, NEW o \in Handler(x, d, c)
  PROVE  Facts(o, x, d, c)
<1> DEFINE k == c[2]
           val == Plus(Get(x, d, k, 0), c[3])
           r == <<"set", c[3], val>>
<1>1. k \in Touched(c) /\ {c[3]} \cap Keys \subseteq Touched(c)
  <2>1. 2 \in KeyPlaces(c) /\ c[1] \notin {"flushdb", "flushall"}
    BY DEF KeyPlaces
  <2>2. 3 \in 2..Len(c)
    BY DEF Valid, WellFormed, ArityOK, Arity, Any
  <2> QED BY <2>1, <2>2, KeysTouched
<1>2. o \in IncrbyFloat(x, d, c)
  BY Z3 DEF Handler
<1>3. CASE ~Fits(x, d, k, "string")
  <2>1. o \in Refused(x, c)
    BY <1>2, <1>3 DEF IncrbyFloat
  <2>2. Made(o, x, d, {k}, c) /\ o.fired = {}
    BY <2>1, RefusedMade
  <2> QED BY <1>1, <2>2, MadeOutside, MadeAnnounced DEF Facts
<1>4. CASE Fits(x, d, k, "string")
  <2>1. o \in Changed(Update(x, d, k, "string", val), d, {k}, r)
    BY <1>2, <1>4 DEF IncrbyFloat
  <2>2. Made(o, x, d, {k}, r) /\ o.fired # {}
    BY <2>1, UpdateMade
  <2>3. o.cmd[1] = "set" /\ o.cmd[2] = c[3]
    BY <2>2 DEF Made
  <2>4. \A st, e : Handler(st, e, o.cmd) = Set(st, e, o.cmd)
    BY <2>3, Z3 DEF Handler
  <2>5. ASSUME NEW z, NEW e, IsStore(z), e \in DBs, NEW p \in Handler(z, e, o.cmd)
        PROVE  Outside(p.kv, z, c)
    <3>1. Pre(z, z, e, o.cmd[2])
      BY <2>5 DEF Pre, SameAt
    <3>2. Repeats(Set(z, e, o.cmd), Set(z, e, o.cmd), z, z, e, {o.cmd[2]}, o.cmd)
      BY <3>1, SetsOfOne
    <3>3. Made(p, z, e, {c[3]}, o.cmd)
      BY <2>3, <2>4, <2>5, <3>2 DEF Repeats
    <3>4. Local(p.kv, z, {c[3]})
      BY <3>3, WrittenLocal DEF Made
    <3> QED BY <1>1, <3>4, LocalOutside
  <2>6. Within(o.cmd, c)
    BY <2>3, <2>5 DEF Within
  <2>7. Outside(o.kv, x, c) /\ Announced(o, x)
    BY <1>1, <2>2, MadeOutside, MadeAnnounced
  <2> QED BY <2>2, <2>6, <2>7 DEF Facts, LoggedWrong
<1> QED BY <1>3, <1>4

LEMMA HIncrbyFloatFacts ==
  ASSUME NEW c, Valid(c), c[1] = "hincrbyfloat",
         NEW x, NEW d, IsStore(x), d \in DBs, NEW o \in Handler(x, d, c)
  PROVE  Facts(o, x, d, c)
<1> DEFINE k == c[2]
           val == HPlus(x, d, c)
           r == <<"hset", k, val>>
           h == Put(Get(x, d, k, Empty), c[3], val)
<1>1. k \in Touched(c)
  <2>1. 2 \in KeyPlaces(c) /\ c[1] \notin {"flushdb", "flushall"}
    BY DEF KeyPlaces
  <2> QED BY <2>1, KeysTouched
<1>2. o \in HIncrbyFloat(x, d, c)
  BY Z3 DEF Handler
<1>3. CASE ~Fits(x, d, k, "hash")
  <2>1. o \in Refused(x, c)
    BY <1>2, <1>3 DEF HIncrbyFloat
  <2>2. Made(o, x, d, {k}, c) /\ o.fired = {}
    BY <2>1, RefusedMade
  <2> QED BY <1>1, <2>2, MadeOutside, MadeAnnounced DEF Facts
<1>4. CASE Fits(x, d, k, "hash")
  <2>1. o \in Changed(Update(x, d, k, "hash", h), d, {k}, r)
    BY <1>2, <1>4 DEF HIncrbyFloat, HChange
  <2>2. Made(o, x, d, {k}, r) /\ o.fired # {}
    BY <2>1, UpdateMade
  <2>3. o.cmd[1] = "hset" /\ Len(o.cmd) = 3
    BY <2>2 DEF Made
  <2>4. Within(o.cmd, c)
    BY <2>3 DEF Within, ArityOK, Arity, Any
  <2>5. Outside(o.kv, x, c) /\ Announced(o, x)
    BY <1>1, <2>2, MadeOutside, MadeAnnounced
  <2> QED BY <2>2, <2>4, <2>5 DEF Facts, LoggedWrong
<1> QED BY <1>3, <1>4

LEMMA BRPopLPushFacts ==
  ASSUME NEW c, Valid(c), c[1] = "brpoplpush",
         NEW x, NEW d, IsStore(x), d \in DBs, NEW o \in Handler(x, d, c)
  PROVE  Facts(o, x, d, c)
<1> DEFINE j == c[2]
           k == c[3]
           r == [c EXCEPT ![1] = "rpoplpush"]
<1>1. {j, k} \subseteq Touched(c)
  <2>1. 2 \in KeyPlaces(c) /\ 3 \in KeyPlaces(c) /\ c[1] \notin {"flushdb", "flushall"}
    BY DEF KeyPlaces
  <2> QED BY <2>1, KeysTouched
<1>2. o \in RPopLPush(x, d, c)
  BY Z3 DEF Handler
<1>3. CASE ~(IsList(x, d, j) /\ Fits(x, d, k, "list"))
  <2>1. o \in Refused(x, c)
    BY <1>2, <1>3 DEF RPopLPush
  <2>2. Made(o, x, d, {j, k}, c) /\ o.fired = {}
    BY <2>1, RefusedMade
  <2> QED BY <1>1, <2>2, MadeOutside, MadeAnnounced DEF Facts
<1>4. CASE IsList(x, d, j) /\ Fits(x, d, k, "list")
  <2>1. o \in Changed(Moved(x, d, j, k), d, {j, k}, r)
    BY <1>2, <1>4 DEF RPopLPush
  <2>2. Pre(x, x, d, j) /\ Pre(x, x, d, k)
    BY DEF Pre, SameAt
  <2>3. Repeats(Changed(Moved(x, d, j, k), d, {j, k}, r), Changed(Moved(x, d, j, k), d, {j, k}, r),
                x, x, d, {j, k}, r)
    BY <2>2, MovedFacts, ChangedRepeats
  <2>4. Made(o, x, d, {j, k}, r)
    BY <2>1, <2>3 DEF Repeats
  <2>5. r[1] = "rpoplpush" /\ Len(r) = 4
    <3>1. Len(c) = 4 /\ c = [i \in 1..Len(c) |-> c[i]]
      BY DEF Valid, WellFormed, ArityOK, Arity, Any
    <3>2. r = [i \in 1..4 |-> IF i = 1 THEN "rpoplpush" ELSE c[i]]
      BY <3>1
    <3> QED BY <3>2
  <2>6. Within(o.cmd, c)
    <3>1. o.cmd[1] = "rpoplpush" /\ Len(o.cmd) = 4
      BY <2>4, <2>5 DEF Made
    <3> HIDE DEF r
    <3> QED BY <3>1 DEF Within, ArityOK, Arity, Any
  <2>7. Outside(o.kv, x, c) /\ Announced(o, x) /\ (o.fired = {} => Local(o.kv, x, {}))
    BY <1>1, <2>4, MadeOutside, MadeAnnounced
  <2> QED BY <2>6, <2>7 DEF Facts, LoggedWrong
<1> QED BY <1>3, <1>4

LEMMA UnannouncedFacts ==
  ASSUME NEW c, Valid(c), c[1] \in LoggedUnlessEmpty \cup {"bitop"},
         NEW x, NEW d, IsStore(x), d \in DBs, NEW o \in Handler(x, d, c)
  PROVE  Facts(o, x, d, c)
<1>1. Repeatable(c)
  BY SStoreCommand, SortCommand, BitopCommand DEF LoggedUnlessEmpty
<1>2. Outside(o.kv, x, c) /\ Within(o.cmd, c) /\ Replays(o, x, d, c)
  BY <1>1, LoggedAs
<1>3. o.fired = {} => c[1] \in Unlogged \cup LoggedUnlessEmpty \/ Local(o.kv, x, {})
  <2>1. CASE c[1] = "bitop"
    <3>1. o.fired = {} => o.kv = x
      BY <2>1, BitopCommand
    <3> QED BY <3>1 DEF Local, SameAt
  <2> QED BY <2>1
<1> QED BY <1>2, <1>3 DEF Facts, Silent

LEMMA ZStoreFacts ==
  ASSUME NEW c, Valid(c), c[1] \in {"zinterstore", "zunionstore"},
         NEW x, NEW d, IsStore(x), d \in DBs, NEW o \in Handler(x, d, c)
  PROVE  Facts(o, x, d, c)
<1>1. c[2] \in Touched(c)
  <2>1. 2 \in KeyPlaces(c) /\ c[1] \notin {"flushdb", "flushall"}
    BY DEF KeyPlaces
  <2> QED BY <2>1, KeysTouched
<1>2. o \in ZInterStore(x, d, c)
  BY Z3 DEF Handler
<1>3. \/ o \in Refused(x, c)
      \/ \E v : o \in Outcome(Update(x, d, c[2], "zset", v), {}, c)
  BY <1>2, Zenon DEF ZInterStore
<1>4. o.fired = {} /\ Outside(o.kv, x, c)
  <2>1. CASE o \in Refused(x, c)
    BY <1>1, <2>1, RefusedMade, MadeOutside
  <2>2. CASE \E v : o \in Outcome(Update(x, d, c[2], "zset", v), {}, c)
    <3>1. PICK v : o \in Outcome(Update(x, d, c[2], "zset", v), {}, c)
      BY <2>2
    <3>2. o.kv = Update(x, d, c[2], "zset", v) /\ o.fired = {}
      BY <3>1 DEF Outcome
    <3>3. Local(o.kv, x, {c[2]})
      BY <3>2, UpdateFacts, WrittenLocal
    <3> QED BY <1>1, <3>2, <3>3, LocalOutside
  <2> QED BY <1>3, <2>1, <2>2
<1> QED BY <1>4 DEF Facts, Silent, Unlogged

LEMMA FlushFacts ==
  ASSUME NEW c, Valid(c), c[1] \in {"flushdb", "flushall"},
         NEW x, NEW d, IsStore(x), d \in DBs, NEW o \in Handler(x, d, c)
  PROVE  Facts(o, x, d, c)
<1>1. IsDb(Empty)
  BY DEF IsDb, Empty
<1>2. IsStore([x EXCEPT ![d] = Empty])
  BY <1>1, ReplaceFacts
<1>3. IsStore([e \in DBs |-> Empty])
  BY DEF IsStore, Empty
<1>4. o.fired = {} /\ IsStore(o.kv)
  <2>1. CASE c[1] = "flushdb"
    <3>1. o \in FlushDB(x, d, c)
      BY <2>1, Z3 DEF Handler
    <3>2. o.fired = {} /\ o.kv = [x EXCEPT ![d] = Empty]
      BY <3>1 DEF FlushDB, Outcome
    <3> QED BY <1>2, <3>2
  <2>2. CASE c[1] = "flushall"
    <3>1. o \in FlushAll(x, d, c)
      BY <2>2, Z3 DEF Handler
    <3>2. o.fired = {} /\ o.kv = [e \in DBs |-> Empty]
      BY <3>1 DEF FlushAll, Outcome
    <3> QED BY <1>3, <3>2
  <2> QED BY <2>1, <2>2
<1>5. Touched(c) = Keys
  BY DEF Touched
<1> QED BY <1>4, <1>5 DEF Facts, Outside, Silent, Unlogged

\* What holds of every command.
LEMMA CommandFacts ==
  ASSUME NEW c, Valid(c), NEW x, NEW d, IsStore(x), d \in DBs, NEW o \in Handler(x, d, c)
  PROVE  Facts(o, x, d, c)
<1>1. \/ c[1] \in OfOne \cup OfTwo \cup {"move"}
      \/ c[1] \in LoggedUnlessEmpty \cup {"bitop"}
      \/ c[1] \in {"blpop", "brpop"} \/ c[1] = "spop" \/ c[1] = "incrbyfloat"
      \/ c[1] = "hincrbyfloat" \/ c[1] = "brpoplpush"
      \/ c[1] \in {"zinterstore", "zunionstore"} \/ c[1] \in {"flushdb", "flushall"}
  BY DEF Valid, WellFormed, Arity, OfOne, StringsOfOne, OthersOfOne, OfTwo, LoggedUnlessEmpty
<1>2. CASE c[1] \in OfOne \cup OfTwo \cup {"move"}
  <2>1. Repeatable(c) /\ Announcing(c)
    BY <1>2, OfOneCommand, OfTwoCommand, MoveCommand
  <2> QED BY <2>1, AsItself
<1> QED BY <1>1, <1>2, UnannouncedFacts, BLPopFacts, SPopFacts, IncrbyFloatFacts, HIncrbyFloatFacts,
           BRPopLPushFacts, ZStoreFacts, FlushFacts
-----------------------------------------------------------------------------
(***************************************************************************)
(* Records the slave has yet to apply: P[1], ..., P[n], each a database    *)
(* and a command.  A chain R is a way the slave's store may go.            *)
(***************************************************************************)
Step(r, a, b) ==
  IF r.cmd[1] = "select" \/ ~ArityOK(r.cmd)
  THEN b = a
  ELSE \E o \in Handler(a, r.db, r.cmd) : b = o.kv

Chain(R, P, n, x) ==
  /\ R[1] = x
  /\ \A i \in 1..n+1 : IsStore(R[i])
  /\ \A i \in 1..n : Step(P[i], R[i], R[i+1])

\* Two stores agree on the keys of clients but for those of U.
Agree(a, st, U) == \A e \in DBs : \A k \in Keys \ U : SameAt(a, st, e, k)

\* However the slave goes, it ends where the master is.
Ends(P, n, x, st, U) == \A R : Chain(R, P, n, x) => Agree(R[n+1], st, U)

LEMMA EndsNow ==
  ASSUME NEW P, NEW x, NEW st, NEW U, IsStore(x), Ends(P, 0, x, st, U)
  PROVE  Agree(x, st, U)
<1> DEFINE R == [i \in 1..1 |-> x]
<1>1. R[1] = x /\ \A i \in 1..0+1 : IsStore(R[i])
  OBVIOUS
<1>2. \A i \in 1..0 : Step(P[i], R[i], R[i+1])
  OBVIOUS
<1> HIDE DEF R
<1>3. Chain(R, P, 0, x)
  BY <1>1, <1>2 DEF Chain
<1>4. Agree(R[0+1], st, U)
  BY <1>3 DEF Ends
<1> QED BY <1>1, <1>4

LEMMA EndsMoved ==
  ASSUME NEW P, NEW n \in Nat, NEW x, NEW st, NEW U, Ends(P, n, x, st, U), NEW s2, NEW U2,
         \A a : IsStore(a) /\ Agree(a, st, U) => Agree(a, s2, U2)
  PROVE  Ends(P, n, x, s2, U2)
<1>1. ASSUME NEW R, Chain(R, P, n, x)
      PROVE  Agree(R[n+1], s2, U2)
  <2>1. Agree(R[n+1], st, U)
    BY <1>1 DEF Ends
  <2>2. IsStore(R[n+1])
    BY <1>1 DEF Chain
  <2> QED BY <2>1, <2>2
<1> QED BY <1>1 DEF Ends

LEMMA EndsAppend ==
  ASSUME NEW P, NEW n \in Nat, NEW x, NEW st, NEW U, Ends(P, n, x, st, U), NEW s2, NEW U2, NEW Q,
         \A i \in 1..n : Q[i] = P[i],
         \A a, b : IsStore(a) /\ IsStore(b) /\ Agree(a, st, U) /\ Step(Q[n+1], a, b) => Agree(b, s2, U2)
  PROVE  Ends(Q, n + 1, x, s2, U2)
<1>1. ASSUME NEW R, Chain(R, Q, n + 1, x)
      PROVE  Agree(R[(n+1)+1], s2, U2)
  <2>1. Chain(R, P, n, x)
    <3>1. R[1] = x
      BY <1>1 DEF Chain
    <3>2. \A i \in 1..n+1 : IsStore(R[i])
      BY <1>1 DEF Chain
    <3>3. \A i \in 1..n : Step(P[i], R[i], R[i+1])
      BY <1>1 DEF Chain
    <3> QED BY <3>1, <3>2, <3>3 DEF Chain
  <2>2. Agree(R[n+1], st, U)
    BY <2>1 DEF Ends
  <2>3. IsStore(R[n+1]) /\ IsStore(R[(n+1)+1]) /\ Step(Q[n+1], R[n+1], R[(n+1)+1])
    BY <1>1 DEF Chain
  <2> QED BY <2>2, <2>3
<1> QED BY <1>1 DEF Ends

LEMMA EndsTail ==
  ASSUME NEW P, NEW n \in Nat, NEW x, NEW st, NEW U, Ends(P, n + 1, x, st, U), NEW y, NEW Q,
         IsStore(x), Step(P[1], x, y), \A i \in 1..n : Q[i] = P[i+1]
  PROVE  Ends(Q, n, y, st, U)
<1>1. ASSUME NEW R, Chain(R, Q, n, y)
      PROVE  Agree(R[n+1], st, U)
  <2> DEFINE T == [i \in 1..n+2 |-> IF i = 1 THEN x ELSE R[i-1]]
  <2>1. T[1] = x /\ \A i \in 1..n+1 : T[i+1] = R[i]
    OBVIOUS
  <2> HIDE DEF T
  <2>2. \A i \in 1..(n+1)+1 : IsStore(T[i])
    <3>1. ASSUME NEW i \in 1..(n+1)+1, i # 1
          PROVE  IsStore(T[i])
      <4>1. i - 1 \in 1..n+1 /\ (i - 1) + 1 = i
        BY <3>1
      <4> QED BY <1>1, <2>1, <4>1 DEF Chain
    <3> QED BY <2>1, <3>1
  <2>3. \A i \in 1..n+1 : Step(P[i], T[i], T[i+1])
    <3>1. Step(P[1], T[1], T[1+1])
      BY <1>1, <2>1 DEF Chain
    <3>2. ASSUME NEW i \in 1..n+1, i # 1
          PROVE  Step(P[i], T[i], T[i+1])
      <4>1. i - 1 \in 1..n /\ (i - 1) + 1 = i
        BY <3>2
      <4>2. Step(Q[i-1], R[i-1], R[i])
        BY <1>1, <4>1 DEF Chain
      <4>3. Q[i-1] = P[i] /\ T[i] = R[i-1] /\ T[i+1] = R[i]
        BY <2>1, <4>1
      <4> QED BY <4>2, <4>3
    <3> QED BY <3>1, <3>2
  <2>4. Chain(T, P, n + 1, x)
    BY <2>1, <2>2, <2>3 DEF Chain
  <2>5. Agree(T[(n+1)+1], st, U)
    BY <2>4 DEF Ends
  <2> QED BY <2>1, <2>5
<1> QED BY <1>1 DEF Ends

\* A select among the records: the slave's store waits a step.
LEMMA EndsInsert ==
  ASSUME NEW P, NEW n \in Nat, NEW x, NEW st, NEW U, Ends(P, n, x, st, U), NEW Q, NEW m \in 0..n,
         \A i \in 1..m : Q[i] = P[i], Q[m+1].cmd[1] = "select", \A i \in m+1..n : Q[i+1] = P[i]
  PROVE  Ends(Q, n + 1, x, st, U)
<1>1. ASSUME NEW R, Chain(R, Q, n + 1, x)
      PROVE  Agree(R[(n+1)+1], st, U)
  <2> DEFINE T == [i \in 1..n+1 |-> IF i <= m + 1 THEN R[i] ELSE R[i+1]]
  <2>1. \A i \in 1..n+1 : T[i] = IF i <= m + 1 THEN R[i] ELSE R[i+1]
    OBVIOUS
  <2> HIDE DEF T
  <2>2. T[1] = x
    BY <1>1, <2>1 DEF Chain
  <2>3. \A i \in 1..n+1 : IsStore(T[i])
    BY <1>1, <2>1 DEF Chain
  <2>4. R[m+1] = R[(m+1)+1]
    <3>1. Step(Q[m+1], R[m+1], R[(m+1)+1])
      BY <1>1 DEF Chain
    <3> QED BY <3>1 DEF Step
  <2>5. T[n+1] = R[(n+1)+1]
    BY <2>1, <2>4
  <2>6. ASSUME NEW i \in 1..n
        PROVE  Step(P[i], T[i], T[i+1])
    <3>1. CASE i <= m
      <4>1. Step(Q[i], R[i], R[i+1])
        BY <1>1 DEF Chain
      <4> QED BY <2>1, <3>1, <4>1
    <3>2. CASE i > m
      <4>1. Step(Q[i+1], R[i+1], R[(i+1)+1])
        BY <1>1 DEF Chain
      <4>2. T[i] = R[i+1] /\ T[i+1] = R[(i+1)+1]
        BY <2>1, <2>4, <3>2
      <4> QED BY <3>2, <4>1, <4>2
    <3> QED BY <3>1, <3>2
  <2>7. Chain(T, P, n, x)
    BY <2>2, <2>3, <2>6 DEF Chain
  <2> QED BY <2>5, <2>7 DEF Ends
<1> QED BY <1>1 DEF Ends

\* The master goes from x to o.kv, and a store that agreed with x takes the
\* record of o, if there is one.
LEMMA Advance ==
  ASSUME NEW c, NEW x, NEW d, IsStore(x), d \in DBs, NEW o, NEW U, NEW V,
         Outside(o.kv, x, c), Within(o.cmd, c), U \subseteq V, Touched(c) \subseteq Keys,
         Touched(c) \subseteq V \/ (Touched(c) \cap U = {} /\ Replays(o, x, d, c)),
         NEW r, r.db = d, r.cmd = o.cmd,
         NEW a, NEW b, IsStore(a), IsStore(b), Agree(a, x, U), Step(r, a, b)
  PROVE  Agree(b, o.kv, V)
<1>1. b = a \/ Outside(b, a, c)
  BY DEF Step, Within
<1>2. ASSUME NEW e \in DBs, NEW k \in Keys \ V, k \notin Touched(c)
      PROVE  SameAt(b, o.kv, e, k)
  <2>1. SameAt(a, x, e, k) /\ SameAt(o.kv, x, e, k)
    BY <1>2 DEF Agree, Outside
  <2>2. SameAt(b, a, e, k)
    BY <1>1, <1>2 DEF Outside, SameAt
  <2> QED BY <2>1, <2>2 DEF SameAt
<1>3. CASE Touched(c) \subseteq V
  BY <1>2, <1>3 DEF Agree
<1>4. CASE Touched(c) \cap U = {} /\ Replays(o, x, d, c)
  <2>1. Equal(x, a, Touched(c))
    BY <1>4 DEF Agree, Equal, SameAt
  <2>2. \E p \in Handler(a, d, o.cmd) : b = p.kv
    BY <1>4 DEF Step, Replays, Within
  <2>3. Equal(o.kv, b, Touched(c))
    BY <1>4, <2>1, <2>2 DEF Replays
  <2>4. ASSUME NEW e \in DBs, NEW k \in Touched(c)
        PROVE  SameAt(b, o.kv, e, k)
    BY <2>3 DEF Equal, SameAt
  <2> QED BY <1>2, <2>4 DEF Agree
<1> QED BY <1>3, <1>4

\* The same of a command that is not logged.
LEMMA Stay ==
  ASSUME NEW c, NEW x, IsStore(x), NEW o, NEW U, NEW V, Outside(o.kv, x, c), U \subseteq V,
         Touched(c) \subseteq V \/ Local(o.kv, x, {}), NEW a, Agree(a, x, U)
  PROVE  Agree(a, o.kv, V)
<1>1. ASSUME NEW e \in DBs, NEW k \in Keys \ V
      PROVE  SameAt(a, o.kv, e, k)
  <2>1. SameAt(a, x, e, k)
    BY DEF Agree
  <2>2. SameAt(o.kv, x, e, k)
    BY DEF Outside, Local
  <2> QED BY <2>1, <2>2 DEF SameAt
<1> QED BY <1>1 DEF Agree

-----------------------------------------------------------------------------
(***************************************************************************)
(* The types of the state.                                                 *)
(***************************************************************************)
\* A record that is not a select leaves a store a store.
Applicable(r) ==
  /\ r[1] # "select"
  /\ ArityOK(r) => \A z, e : IsStore(z) /\ e \in DBs => \A p \in Handler(z, e, r) : IsStore(p.kv)

LEMMA WithinApplicable ==
  ASSUME NEW r, NEW c, Within(r, c)
  PROVE  Applicable(r)
  BY DEF Within, Applicable, Outside

IsSeq(s) == Len(s) \in Nat /\ s = [i \in 1..Len(s) |-> s[i]]

Posted(r) == r.db \in DBs /\ Applicable(r.cmd)
Logged(r) == (r[1] = "select" /\ r[2] \in DBs) \/ Applicable(r)

StoresTyped ==
  /\ IsStore(store) /\ IsStore(replica)
  /\ currentDB \in [Workers -> DBs] /\ select_db \in DBs /\ slave_db \in DBs
RecordsTyped ==
  /\ cmds \in Nat
  /\ DOMAIN posting = Workers
  /\ \A w \in Workers :
       \/ posting[w] = <<>>
       \/ posting[w] = <<posting[w][1]>> /\ Posted(posting[w][1])
          /\ posting[w][1].at \in Nat /\ posting[w][1].at < cmds
  /\ IsSeq(queue) /\ \A i \in 1..Len(queue) : Posted(queue[i])
  /\ IsSeq(wal) /\ \A i \in 1..Len(wal) : Logged(wal[i])
TypesOK == StoresTyped /\ RecordsTyped

\* What the queues' operations do.
LEMMA SeqIsSeq ==
  ASSUME NEW S, NEW s \in Seq(S)
  PROVE  IsSeq(s)
  BY LenProperties DEF IsSeq

LEMMA IsSeqSeq ==
  ASSUME NEW s, IsSeq(s), NEW S, \A i \in 1..Len(s) : s[i] \in S
  PROVE  s \in Seq(S)
<1>1. s \in [1..Len(s) -> S]
  BY DEF IsSeq
<1> QED BY <1>1 DEF IsSeq

LEMMA AppendFacts ==
  ASSUME NEW s, IsSeq(s), NEW e
  PROVE  /\ IsSeq(Append(s, e)) /\ Len(Append(s, e)) = Len(s) + 1
         /\ \A i \in 1..Len(s) : Append(s, e)[i] = s[i]
         /\ Append(s, e)[Len(s) + 1] = e
<1> DEFINE S == {s[i] : i \in 1..Len(s)} \cup {e}
<1>1. \A i \in 1..Len(s) : s[i] \in S
  OBVIOUS
<1>2. e \in S
  OBVIOUS
<1> HIDE DEF S
<1>3. s \in Seq(S)
  BY <1>1, IsSeqSeq
<1>4. Append(s, e) \in Seq(S)
  BY <1>2, <1>3, AppendProperties
<1>5. IsSeq(Append(s, e))
  BY <1>4, SeqIsSeq
<1> QED BY <1>2, <1>3, <1>5, AppendProperties

LEMMA TailFacts ==
  ASSUME NEW s, IsSeq(s), s # <<>>
  PROVE  /\ IsSeq(Tail(s)) /\ Len(s) \in Nat \ {0} /\ Len(Tail(s)) = Len(s) - 1
         /\ \A i \in 1..Len(s) - 1 : Tail(s)[i] = s[i+1]
         /\ Head(s) = s[1]
<1> DEFINE S == {s[i] : i \in 1..Len(s)}
<1>1. \A i \in 1..Len(s) : s[i] \in S
  OBVIOUS
<1> HIDE DEF S
<1>2. s \in Seq(S)
  BY <1>1, IsSeqSeq
<1>3. Tail(s) \in Seq(S) /\ Len(Tail(s)) = Len(s) - 1 /\ Head(s) = s[1]
  BY <1>2, HeadTailProperties
<1>4. \A i \in 1..Len(s) - 1 : Tail(s)[i] = s[i+1]
  BY <1>2, <1>3, HeadTailProperties
<1>5. Len(s) # 0
  BY <1>2, EmptySeq
<1> QED BY <1>2, <1>3, <1>4, <1>5, SeqIsSeq DEF IsSeq

LEMMA ConcatFacts ==
  ASSUME NEW s, NEW t, IsSeq(s), IsSeq(t)
  PROVE  /\ IsSeq(s \o t) /\ Len(s \o t) = Len(s) + Len(t)
         /\ \A i \in 1..Len(s) : (s \o t)[i] = s[i]
         /\ \A i \in 1..Len(t) : (s \o t)[Len(s) + i] = t[i]
<1> DEFINE S == {s[i] : i \in 1..Len(s)} \cup {t[i] : i \in 1..Len(t)}
<1>1. (\A i \in 1..Len(s) : s[i] \in S) /\ (\A i \in 1..Len(t) : t[i] \in S)
  OBVIOUS
<1> HIDE DEF S
<1>2. s \in Seq(S) /\ t \in Seq(S)
  BY <1>1, IsSeqSeq
<1>3. s \o t \in Seq(S) /\ Len(s \o t) = Len(s) + Len(t)
  BY <1>2, ConcatProperties
<1>4. \A i \in 1..Len(s) + Len(t) : (s \o t)[i] = IF i <= Len(s) THEN s[i] ELSE t[i - Len(s)]
  BY <1>2, ConcatProperties
<1>5. Len(s) \in Nat /\ Len(t) \in Nat
  BY DEF IsSeq
<1>6. IsSeq(s \o t)
  BY <1>3, SeqIsSeq
<1>7. \A i \in 1..Len(s) : (s \o t)[i] = s[i]
  BY <1>4, <1>5
<1>8. ASSUME NEW i \in 1..Len(t)
      PROVE  (s \o t)[Len(s) + i] = t[i]
  <2>1. Len(s) + i \in 1..Len(s) + Len(t) /\ ~(Len(s) + i <= Len(s)) /\ (Len(s) + i) - Len(s) = i
    BY <1>5
  <2> QED BY <1>4, <2>1
<1> QED BY <1>3, <1>6, <1>7, <1>8

LEMMA ValidCmd ==
  ASSUME NEW c \in Cmds, ArityOK(c), c[1] # "select"
  PROVE  Valid(c)
  BY CommandLogAssumption DEF Valid

\* The del of a key that expires.
LEMMA ValidDel ==
  ASSUME NEW k \in Keys
  PROVE  Valid(<<"del", k>>) /\ Touched(<<"del", k>>) = {k}
<1> DEFINE c == <<"del", k>>
<1>1. c[1] = "del" /\ c[2] = k /\ Len(c) = 2 /\ c = [i \in 1..Len(c) |-> c[i]]
  OBVIOUS
<1> HIDE DEF c
<1>2. ArityOK(c) /\ c[1] \in DOMAIN Arity
  BY <1>1 DEF ArityOK, Arity, Any
<1>3. KeyPlaces(c) = 2..2
  BY <1>1 DEF KeyPlaces
<1>4. Valid(c)
  BY <1>1, <1>2, <1>3 DEF Valid, WellFormed
<1>5. {c[i] : i \in 2..Len(c)} = {k}
  BY <1>1
<1>6. Touched(c) = {k}
  BY <1>1, <1>5 DEF Touched
<1> QED BY <1>4, <1>6 DEF c

LEMMA DelOutcome ==
  ASSUME NEW st, NEW d, NEW k, Has(st, d, k)
  PROVE  \E o \in Handler(st, d, <<"del", k>>) :
           o.kv = Del(st, d, {k}) /\ o.fired # {} /\ o.cmd = <<"del", k>>
<1> DEFINE c == <<"del", k>>
<1>1. c[1] = "del" /\ c[2] = k /\ Len(c) = 2
  OBVIOUS
<1> HIDE DEF c
<1>2. {c[i] : i \in 2..Len(c)} = {k} /\ \E i \in 2..Len(c) : Has(st, d, c[i])
  BY <1>1
<1>3. Handler(st, d, c) = Changed(Del(st, d, {k}), d, {k}, c)
  <2>1. Handler(st, d, c) = Del_(st, d, c)
    BY <1>1, Z3 DEF Handler
  <2> QED BY <1>2, <2>1 DEF Del_
<1> DEFINE o == [kv |-> Del(st, d, {k}), fired |-> {<<d, j>> : j \in {k}}, cmd |-> c]
<1>4. o \in Handler(st, d, c)
  BY <1>3 DEF Changed, Outcome
<1>5. <<d, k>> \in o.fired
  OBVIOUS
<1> QED BY <1>4, <1>5 DEF c

LEMMA TypesInit ==
  Init => TypesOK
<1> SUFFICES ASSUME Init PROVE TypesOK
  OBVIOUS
<1>1. StoresTyped
  BY CommandLogAssumption DEF Init, StoresTyped
<1>2. IsSeq(<<>>) /\ Len(<<>>) = 0
  BY DEF IsSeq
<1>3. RecordsTyped
  BY <1>2 DEF Init, RecordsTyped
<1> QED BY <1>1, <1>3 DEF TypesOK

LEMMA TypesExecute ==
  ASSUME TypesOK, NEW w \in Workers, NEW c \in Cmds, Execute(w, c)
  PROVE  TypesOK'
<1>1. Valid(c) /\ IsStore(store) /\ currentDB[w] \in DBs /\ cmds \in Nat
  BY ValidCmd DEF TypesOK, StoresTyped, RecordsTyped, Execute
<1>2. PICK o \in Handler(store, currentDB[w], c) :
        /\ store' = o.kv
        /\ posting' = [posting EXCEPT ![w] =
                         IF o.fired = {} THEN <<>>
                         ELSE <<[db |-> currentDB[w], cmd |-> o.cmd, at |-> cmds]>>]
  BY DEF Execute
<1>3. Facts(o, store, currentDB[w], c)
  BY <1>1, CommandFacts
<1>4. StoresTyped'
  BY <1>2, <1>3 DEF TypesOK, StoresTyped, Execute, slave, Facts, Outside
<1>5. \A v \in Workers :
        \/ posting'[v] = <<>>
        \/ posting'[v] = <<posting'[v][1]>> /\ Posted(posting'[v][1])
           /\ posting'[v][1].at \in Nat /\ posting'[v][1].at < cmds + 1
  <2>1. ASSUME NEW v \in Workers, v # w
        PROVE  posting'[v] = posting[v]
    BY <1>2, <2>1 DEF TypesOK, RecordsTyped
  <2>2. CASE o.fired = {}
    BY <1>1, <1>2, <2>1, <2>2 DEF TypesOK, RecordsTyped
  <2>3. CASE o.fired # {}
    <3> DEFINE r == [db |-> currentDB[w], cmd |-> o.cmd, at |-> cmds]
    <3>1. posting'[w] = <<r>>
      BY <1>2, <2>3 DEF TypesOK, RecordsTyped
    <3>2. Applicable(o.cmd)
      BY <1>3, <2>3, WithinApplicable DEF Facts
    <3>3. Posted(r) /\ r.at \in Nat /\ r.at < cmds + 1
      BY <1>1, <3>2 DEF Posted
    <3> HIDE DEF r
    <3>4. posting'[w][1] = r
      BY <3>1
    <3> QED BY <1>1, <2>1, <3>1, <3>3, <3>4 DEF TypesOK, RecordsTyped
  <2> QED BY <2>2, <2>3
<1>6. RecordsTyped'
  BY <1>1, <1>2, <1>5 DEF TypesOK, RecordsTyped, Execute
<1> QED BY <1>4, <1>6 DEF TypesOK

LEMMA TypesWriteWAL ==
  ASSUME TypesOK, NEW w \in Workers, WriteWAL(w)
  PROVE  TypesOK'
<1> DEFINE r == [db |-> posting[w][1].db, cmd |-> posting[w][1].cmd]
<1>1. Posted(r)
  BY DEF TypesOK, RecordsTyped, WriteWAL, Posted
<1> HIDE DEF r
<1>2. queue' = Append(queue, r) /\ IsSeq(queue)
  BY DEF TypesOK, RecordsTyped, WriteWAL, r
<1>3. IsSeq(queue') /\ \A i \in 1..Len(queue') : Posted(queue'[i])
  <2>1. ASSUME NEW i \in 1..Len(queue')
        PROVE  Posted(queue'[i])
    <3>1. i \in 1..Len(queue) \/ i = Len(queue) + 1
      BY <1>2, AppendFacts DEF IsSeq
    <3>2. Posted(Append(queue, r)[i])
      BY <1>1, <1>2, <3>1, AppendFacts DEF TypesOK, RecordsTyped
    <3> QED BY <1>2, <3>2
  <2> QED BY <1>2, <2>1, AppendFacts
<1>4. StoresTyped'
  BY DEF TypesOK, StoresTyped, WriteWAL, slave
<1>5. RecordsTyped'
  BY <1>3 DEF TypesOK, RecordsTyped, WriteWAL
<1> QED BY <1>4, <1>5 DEF TypesOK

LEMMA RecordsFacts ==
  ASSUME NEW r, Posted(r), select_db \in DBs
  PROVE  /\ IsSeq(Records(r)) /\ \A i \in 1..Len(Records(r)) : Logged(Records(r)[i])
         /\ select_db = r.db => Len(Records(r)) = 1 /\ Records(r)[1] = r.cmd
         /\ select_db # r.db => /\ Len(Records(r)) = 2 /\ Records(r)[1] = <<"select", r.db>>
                                /\ Records(r)[2] = r.cmd
<1>1. Logged(r.cmd) /\ Logged(<<"select", r.db>>)
  BY DEF Posted, Logged
<1>2. CASE select_db = r.db
  BY <1>1, <1>2 DEF Records, IsSeq
<1>3. CASE select_db # r.db
  BY <1>1, <1>3 DEF Records, IsSeq
<1> QED BY <1>2, <1>3

LEMMA TypesWriteWALCallback ==
  ASSUME TypesOK, WriteWALCallback
  PROVE  TypesOK'
<1>1. Posted(Head(queue)) /\ IsSeq(Tail(queue)) /\ \A i \in 1..Len(Tail(queue)) : Posted(Tail(queue)[i])
  BY TailFacts DEF TypesOK, RecordsTyped, WriteWALCallback
<1>2. IsSeq(Records(Head(queue))) /\ \A i \in 1..Len(Records(Head(queue))) : Logged(Records(Head(queue))[i])
  BY <1>1, RecordsFacts DEF TypesOK, StoresTyped
<1>3. wal' = wal \o Records(Head(queue)) /\ IsSeq(wal)
  BY DEF TypesOK, RecordsTyped, WriteWALCallback
<1> DEFINE t == Records(Head(queue))
<1> HIDE DEF t
<1>4. IsSeq(wal') /\ \A i \in 1..Len(wal') : Logged(wal'[i])
  <2>1. IsSeq(wal \o t) /\ Len(wal \o t) = Len(wal) + Len(t)
    BY <1>2, <1>3, ConcatFacts DEF t
  <2>2. ASSUME NEW i \in 1..Len(wal) + Len(t)
        PROVE  Logged((wal \o t)[i])
    <3>1. CASE i \in 1..Len(wal)
      BY <1>2, <1>3, <3>1, ConcatFacts DEF t, TypesOK, RecordsTyped
    <3>2. CASE i \notin 1..Len(wal)
      <4>1. i - Len(wal) \in 1..Len(t) /\ Len(wal) + (i - Len(wal)) = i
        BY <1>2, <1>3, <3>2 DEF IsSeq, t
      <4>2. (wal \o t)[Len(wal) + (i - Len(wal))] = t[i - Len(wal)]
        BY <1>2, <1>3, <4>1, ConcatFacts DEF t
      <4> QED BY <1>2, <4>1, <4>2 DEF t
    <3> QED BY <3>1, <3>2
  <2> QED BY <1>3, <2>1, <2>2 DEF t
<1>5. StoresTyped'
  BY <1>1 DEF TypesOK, StoresTyped, WriteWALCallback, slave, Posted
<1>6. RecordsTyped'
  BY <1>1, <1>4 DEF TypesOK, RecordsTyped, WriteWALCallback
<1> QED BY <1>5, <1>6 DEF TypesOK

LEMMA TypesExpireCheck ==
  ASSUME TypesOK, NEW d \in DBs, NEW k \in Keys, ExpireCheck(d, k)
  PROVE  TypesOK'
<1> DEFINE c == <<"del", k>>
           r == [db |-> d, cmd |-> c]
<1>1. Valid(c) /\ IsStore(store)
  BY ValidDel DEF TypesOK, StoresTyped
<1>2. PICK o \in Handler(store, d, c) : o.kv = Del(store, d, {k}) /\ o.fired # {} /\ o.cmd = c
  BY DelOutcome DEF ExpireCheck
<1>3. Facts(o, store, d, c)
  BY <1>1, CommandFacts
<1>4. IsStore(store') /\ Posted(r)
  BY <1>2, <1>3, WithinApplicable DEF Facts, Outside, ExpireCheck, Posted
<1>5. queue' = Append(queue, r) /\ IsSeq(queue)
  BY DEF TypesOK, RecordsTyped, ExpireCheck
<1> HIDE DEF r
<1>6. IsSeq(queue') /\ \A i \in 1..Len(queue') : Posted(queue'[i])
  <2>1. ASSUME NEW i \in 1..Len(queue')
        PROVE  Posted(queue'[i])
    <3>1. i \in 1..Len(queue) \/ i = Len(queue) + 1
      BY <1>5, AppendFacts DEF IsSeq
    <3>2. Posted(Append(queue, r)[i])
      BY <1>4, <1>5, <3>1, AppendFacts DEF TypesOK, RecordsTyped
    <3> QED BY <1>5, <3>2
  <2> QED BY <1>5, <2>1, AppendFacts
<1>7. StoresTyped'
  BY <1>4 DEF TypesOK, StoresTyped, ExpireCheck, slave
<1>8. RecordsTyped'
  BY <1>6 DEF TypesOK, RecordsTyped, ExpireCheck
<1> QED BY <1>7, <1>8 DEF TypesOK

LEMMA TypesApplyRecord ==
  ASSUME TypesOK, ApplyRecord
  PROVE  TypesOK'
<1> DEFINE c == Head(wal)
<1>1. IsSeq(wal) /\ wal # <<>> /\ \A i \in 1..Len(wal) : Logged(wal[i])
  BY DEF TypesOK, RecordsTyped, ApplyRecord
<1>2. Len(wal) \in Nat \ {0} /\ Head(wal) = wal[1]
  BY <1>1, TailFacts
<1>3. Logged(c)
  BY <1>1, <1>2
<1>4. wal' = Tail(wal)
  BY DEF ApplyRecord
<1>5. IsSeq(wal') /\ \A i \in 1..Len(wal') : Logged(wal'[i])
  BY <1>1, <1>4, TailFacts
<1> HIDE DEF c
<1>6. IsStore(replica') /\ slave_db' \in DBs
  <2>1. CASE c[1] = "select" /\ slave_db' = c[2] /\ UNCHANGED replica
    BY <1>3, <2>1 DEF TypesOK, StoresTyped, Logged, Applicable
  <2>2. CASE /\ c[1] # "select" /\ ArityOK(c) /\ UNCHANGED slave_db
             /\ \E o \in Handler(replica, slave_db, c) : replica' = o.kv
    BY <1>3, <2>2 DEF TypesOK, StoresTyped, Logged, Applicable
  <2>3. CASE UNCHANGED slave
    BY <2>3 DEF TypesOK, StoresTyped, slave
  <2> QED BY <2>1, <2>2, <2>3 DEF ApplyRecord, c
<1>7. StoresTyped'
  BY <1>6 DEF TypesOK, StoresTyped, ApplyRecord, master
<1>8. RecordsTyped'
  BY <1>5 DEF TypesOK, RecordsTyped, ApplyRecord, master
<1> QED BY <1>7, <1>8 DEF TypesOK

LEMMA TypesNext ==
  TypesOK /\ [Next]_vars => TypesOK'
<1> SUFFICES ASSUME TypesOK, [Next]_vars PROVE TypesOK'
  OBVIOUS
<1>1. ASSUME NEW w \in Workers, NEW d \in DBs, Select(w, d)
      PROVE  TypesOK'
  <2>1. StoresTyped'
    BY <1>1 DEF TypesOK, StoresTyped, Select, slave
  <2>2. RecordsTyped'
    BY <1>1 DEF TypesOK, RecordsTyped, Select
  <2> QED BY <2>1, <2>2 DEF TypesOK
<1>2. CASE RestartMaster
  <2>1. StoresTyped'
    BY <1>2, CommandLogAssumption DEF TypesOK, StoresTyped, RestartMaster, slave
  <2>2. IsSeq(<<>>) /\ Len(<<>>) = 0
    BY DEF IsSeq
  <2>3. RecordsTyped'
    BY <1>2, <2>2 DEF TypesOK, RecordsTyped, RestartMaster
  <2> QED BY <2>1, <2>3 DEF TypesOK
<1>3. CASE RestartSlave
  <2>1. StoresTyped'
    BY <1>3, CommandLogAssumption DEF TypesOK, StoresTyped, RestartSlave, master
  <2>2. RecordsTyped'
    BY <1>3 DEF TypesOK, RecordsTyped, RestartSlave, master
  <2> QED BY <2>1, <2>2 DEF TypesOK
<1>4. CASE UNCHANGED vars
  <2>1. StoresTyped'
    BY <1>4 DEF TypesOK, StoresTyped, vars, master, slave
  <2>2. RecordsTyped'
    BY <1>4 DEF TypesOK, RecordsTyped, vars, master, slave
  <2> QED BY <2>1, <2>2 DEF TypesOK
<1> QED BY <1>1, <1>2, <1>3, <1>4, TypesExecute, TypesWriteWAL, TypesWriteWALCallback,
           TypesExpireCheck, TypesApplyRecord DEF Next

\* In every reachable state both servers have stores, and what is on its way
\* from one to the other are commands that leave a store a store.
THEOREM TypesTheorem == Spec => []TypesOK
  BY TypesInit, TypesNext, PTL DEF Spec

LEMMA AnnouncedNow ==
  ASSUME TypesOK
  PROVE  ChangesAnnounced
<1> SUFFICES ASSUME NEW w \in Workers, NEW c \in Cmds, c[1] \notin Silent \cup {"select"}, ArityOK(c),
                    ~Swallows(store, currentDB[w], c),
                    NEW o \in Handler(store, currentDB[w], c), NEW d \in DBs, NEW k \in Keys
             PROVE  Same(store, o.kv, d, k) \/ <<d, k>> \in o.fired
  BY DEF ChangesAnnounced
<1>1. Valid(c) /\ IsStore(store) /\ currentDB[w] \in DBs
  BY ValidCmd DEF TypesOK, StoresTyped
<1>2. Announced(o, store)
  BY <1>1, CommandFacts DEF Facts
<1>3. SameAt(o.kv, store, d, k) \/ <<d, k>> \in o.fired
  BY <1>2 DEF Announced
<1> QED BY <1>3 DEF SameAt, Same

\* Whatever store a command meets, it announces the keys it changes, but for
\* the commands that are named.
THEOREM AnnouncedTheorem == Spec => []ChangesAnnounced
  BY TypesTheorem, AnnouncedNow, PTL
-----------------------------------------------------------------------------
(***************************************************************************)
(* The slave follows the master.  The records it has yet to apply are      *)
(* those of the log, each for the database that is selected when it is     *)
(* reached, those in the queue of the replication thread and those of the  *)
(* workers ord[1], ..., ord[k], in the order they were executed.           *)
(***************************************************************************)
\* B[i] is the database that is selected when the i-th record is reached.
Selected(B, log, first, last) ==
  /\ B[1] = first /\ B[Len(log)+1] = last
  /\ \A i \in 1..Len(log) : B[i+1] = IF log[i][1] = "select" THEN log[i][2] ELSE B[i]

InOrder(ord, k, post) ==
  /\ k \in Nat
  /\ \A i \in 1..k : ord[i] \in Workers /\ post[ord[i]] # <<>>
  /\ \A w \in Workers : post[w] # <<>> => \E i \in 1..k : ord[i] = w
  /\ \A i, j \in 1..k : i < j => post[ord[i]][1].at < post[ord[j]][1].at

Record(r, db, cmd) == r.db = db /\ r.cmd = cmd
Pending(P, B, ord, k, log, tasks, post) ==
  /\ \A i \in 1..Len(log) : Record(P[i], B[i], log[i])
  /\ \A i \in 1..Len(tasks) : Record(P[Len(log)+i], tasks[i].db, tasks[i].cmd)
  /\ \A i \in 1..k : Record(P[(Len(log)+Len(tasks))+i], post[ord[i]][1].db, post[ord[i]][1].cmd)

Way(P, B, ord, k, log, tasks, post, first, last) ==
  Selected(B, log, first, last) /\ InOrder(ord, k, post) /\ Pending(P, B, ord, k, log, tasks, post)

Following ==
  \E P, B, ord, k :
    /\ Way(P, B, ord, k, wal, queue, posting, slave_db, select_db)
    /\ Ends(P, (Len(wal)+Len(queue))+k, replica, store, unsound)

SelectsOK == \A i \in 1..Len(wal) : wal[i][1] = "select" => ArityOK(wal[i])

FInv == TypesOK /\ SelectsOK /\ (gap \/ Following)

LEMMA FollowingInit ==
  Init => FInv
<1> SUFFICES ASSUME Init PROVE FInv
  OBVIOUS
<1> DEFINE B == [i \in 1..1 |-> 0]
<1>1. Len(wal) = 0 /\ Len(queue) = 0 /\ slave_db = 0 /\ select_db = 0 /\ unsound = {} /\ replica = store
  BY DEF Init
<1>2. B[1] = 0
  OBVIOUS
<1> HIDE DEF B
<1>3. Selected(B, wal, slave_db, select_db)
  BY <1>1, <1>2 DEF Selected
<1>4. InOrder(<<>>, 0, posting)
  BY DEF InOrder, Init
<1>5. Pending(<<>>, B, <<>>, 0, wal, queue, posting)
  BY <1>1 DEF Pending
<1>6. Ends(<<>>, 0, replica, store, unsound)
  BY <1>1 DEF Ends, Chain, Agree, SameAt
<1>7. Following
  <2>1. (Len(wal)+Len(queue))+0 = 0
    BY <1>1
  <2> QED BY <1>3, <1>4, <1>5, <1>6, <2>1 DEF Following, Way
<1>8. SelectsOK
  BY <1>1 DEF SelectsOK
<1> QED BY <1>7, <1>8, TypesInit DEF FInv

LEMMA Lens ==
  ASSUME TypesOK
  PROVE  Len(wal) \in Nat /\ Len(queue) \in Nat /\ IsStore(replica) /\ IsStore(store)
  BY DEF TypesOK, StoresTyped, RecordsTyped, IsSeq

\* A worker executes a command.
LEMMA FollowingExecute ==
  ASSUME FInv, NEW w \in Workers, NEW c \in Cmds, Execute(w, c), ~gap'
  PROVE  Following'
<1> DEFINE n == Len(wal) + Len(queue)
<1>1. PICK P, B, ord, k :
        /\ Way(P, B, ord, k, wal, queue, posting, slave_db, select_db)
        /\ Ends(P, n + k, replica, store, unsound)
  BY DEF FInv, Following, Execute
<1>2. TypesOK /\ Len(wal) \in Nat /\ Len(queue) \in Nat /\ IsStore(store) /\ k \in Nat /\ n \in Nat
  BY <1>1, Lens DEF FInv, Way, InOrder
<1>3. Valid(c) /\ currentDB[w] \in DBs /\ Touched(c) \subseteq Keys
  BY <1>2, ValidCmd DEF TypesOK, StoresTyped, Execute, Touched
<1>4. PICK o \in Handler(store, currentDB[w], c) :
        /\ store' = o.kv
        /\ posting' = [posting EXCEPT ![w] =
                         IF o.fired = {} THEN <<>>
                         ELSE <<[db |-> currentDB[w], cmd |-> o.cmd, at |-> cmds]>>]
        /\ unsound' = Spread(currentDB[w], c, o)
  BY DEF Execute
<1>5. Facts(o, store, currentDB[w], c)
  BY <1>2, <1>3, CommandFacts
<1>6. /\ unsound \subseteq unsound'
      /\ \/ Touched(c) \subseteq unsound'
         \/ /\ Touched(c) \cap unsound = {} /\ c[1] \notin Unlogged \cup LoggedWrong
            /\ ~(c[1] \in LoggedUnlessEmpty /\ o.fired = {}) /\ ~Swallows(store, currentDB[w], c)
  BY <1>4 DEF Spread
<1>7. UNCHANGED <<wal, queue, slave_db, select_db, replica>> /\ posting[w] = <<>>
  BY DEF Execute, slave
<1>8. DOMAIN posting = Workers
  BY <1>2 DEF TypesOK, RecordsTyped
<1>9. CASE o.fired = {}
  <2>1. \A v \in Workers : posting'[v] = posting[v]
    BY <1>4, <1>7, <1>8, <1>9
  <2>2. Way(P, B, ord, k, wal, queue, posting', slave_db, select_db)
    BY <1>1, <2>1 DEF Way, InOrder, Pending
  <2>3. \A a : IsStore(a) /\ Agree(a, store, unsound) => Agree(a, o.kv, unsound')
    BY <1>2, <1>5, <1>6, <1>9, Stay DEF Facts
  <2>4. Ends(P, n + k, replica, store', unsound')
    BY <1>1, <1>2, <1>4, <2>3, EndsMoved
  <2> QED BY <1>7, <2>2, <2>4 DEF Following
<1>10. CASE o.fired # {}
  <2> DEFINE r == [db |-> currentDB[w], cmd |-> o.cmd, at |-> cmds]
             Q == [i \in 1..(n+k)+1 |-> IF i = (n+k)+1 THEN r ELSE P[i]]
             last == [i \in 1..k+1 |-> IF i = k + 1 THEN w ELSE ord[i]]
  <2>1. posting'[w] = <<r>> /\ \A v \in Workers : v # w => posting'[v] = posting[v]
    BY <1>4, <1>8, <1>10
  <2>2. Q[(n+k)+1] = r /\ \A i \in 1..n+k : Q[i] = P[i]
    BY <1>2
  <2>3. last[k+1] = w /\ \A i \in 1..k : last[i] = ord[i]
    BY <1>2
  <2>4. r.db = currentDB[w] /\ r.cmd = o.cmd /\ r.at = cmds /\ posting'[w][1] = r
    BY <2>1
  <2> HIDE DEF Q, last, r
  <2>5. InOrder(last, k + 1, posting')
    <3>1. \A i \in 1..k : ord[i] \in Workers /\ posting[ord[i]] # <<>> /\ ord[i] # w
      BY <1>1, <1>7 DEF Way, InOrder
    <3>2. ASSUME NEW i \in 1..k+1 PROVE last[i] \in Workers /\ posting'[last[i]] # <<>>
      <4>1. CASE i = k + 1
        BY <2>1, <2>3, <4>1
      <4>2. CASE i \in 1..k
        BY <2>1, <2>3, <3>1, <4>2
      <4> QED BY <1>2, <4>1, <4>2
    <3>3. ASSUME NEW v \in Workers, posting'[v] # <<>>
          PROVE  \E i \in 1..k+1 : last[i] = v
      <4>1. CASE v = w
        BY <1>2, <2>3, <4>1
      <4>2. CASE v # w
        <5>1. PICK i \in 1..k : ord[i] = v
          BY <1>1, <2>1, <3>3, <4>2 DEF Way, InOrder
        <5> QED BY <1>2, <2>3, <5>1
      <4> QED BY <4>1, <4>2
    <3>4. ASSUME NEW i \in 1..k+1, NEW j \in 1..k+1, i < j
          PROVE  posting'[last[i]][1].at < posting'[last[j]][1].at
      <4>1. i \in 1..k /\ last[i] = ord[i] /\ posting'[ord[i]] = posting[ord[i]]
        BY <1>2, <2>1, <2>3, <3>1, <3>4
      <4>2. CASE j = k + 1
        <5>1. posting[ord[i]][1].at < cmds
          BY <1>2, <3>1, <4>1 DEF TypesOK, RecordsTyped
        <5> QED BY <2>3, <2>4, <4>1, <4>2, <5>1
      <4>3. CASE j # k + 1
        <5>1. j \in 1..k /\ last[j] = ord[j] /\ posting'[ord[j]] = posting[ord[j]]
          BY <1>2, <2>1, <2>3, <3>1, <4>3
        <5> QED BY <1>1, <3>4, <4>1, <5>1 DEF Way, InOrder
      <4> QED BY <4>2, <4>3
    <3>5. k + 1 \in Nat
      BY <1>2
    <3> QED BY ONLY <3>2, <3>3, <3>4, <3>5 DEF InOrder
  <2>6. Pending(Q, B, last, k + 1, wal, queue, posting')
    <3>1. \A i \in 1..Len(wal) : Record(Q[i], B[i], wal[i])
      BY <1>1, <1>2, <2>2 DEF Way, Pending
    <3>2. \A i \in 1..Len(queue) : Record(Q[Len(wal)+i], queue[i].db, queue[i].cmd)
      <4>1. \A i \in 1..Len(queue) : Q[Len(wal)+i] = P[Len(wal)+i]
        BY <1>2, <2>2
      <4> QED BY <1>1, <4>1 DEF Way, Pending
    <3>3. ASSUME NEW i \in 1..k+1
          PROVE  Record(Q[n+i], posting'[last[i]][1].db, posting'[last[i]][1].cmd)
      <4>1. CASE i = k + 1
        <5>1. n + i = (n + k) + 1
          BY <1>2, <4>1
        <5> QED BY <2>2, <2>3, <2>4, <4>1, <5>1 DEF Record
      <4>2. CASE i # k + 1
        <5>1. i \in 1..k /\ n + i \in 1..n+k
          BY <1>2, <4>2
        <5>2. ord[i] \in Workers /\ ord[i] # w
          BY <1>1, <1>7, <5>1 DEF Way, InOrder
        <5>3. Q[n+i] = P[n+i] /\ last[i] = ord[i] /\ posting'[ord[i]] = posting[ord[i]]
          BY <2>1, <2>2, <2>3, <5>1, <5>2
        <5> QED BY <1>1, <5>1, <5>3 DEF Way, Pending
      <4> QED BY <4>1, <4>2
    <3> QED BY <3>1, <3>2, <3>3 DEF Pending
  <2>7. ASSUME NEW a, NEW b, IsStore(a), IsStore(b), Agree(a, store, unsound), Step(r, a, b)
        PROVE  Agree(b, store', unsound')
    <3>1. Outside(o.kv, store, c) /\ Within(o.cmd, c)
      BY <1>5, <1>10 DEF Facts
    <3>2. Touched(c) \subseteq unsound' \/ (Touched(c) \cap unsound = {} /\ Replays(o, store, currentDB[w], c))
      BY <1>5, <1>6, <1>10 DEF Facts
    <3>3. store' = o.kv /\ unsound \subseteq unsound'
      BY <1>4, <1>6
    <3>4. IsStore(store) /\ currentDB[w] \in DBs /\ Touched(c) \subseteq Keys
      BY <1>2, <1>3
    <3>5. r.db = currentDB[w] /\ r.cmd = o.cmd
      BY <2>4
    <3>6. Agree(b, o.kv, unsound')
      BY ONLY <2>7, <3>1, <3>2, <3>3, <3>4, <3>5, Advance
    <3> QED BY <3>3, <3>6
  <2>8. Ends(Q, (n+k)+1, replica, store', unsound')
    <3>1. n + k \in Nat
      BY <1>2
    <3> QED BY <1>1, <2>2, <2>7, <3>1, EndsAppend
  <2>9. (n+k)+1 = n+(k+1)
    BY <1>2
  <2>10. Way(Q, B, last, k + 1, wal, queue, posting', slave_db, select_db)
    BY <1>1, <2>5, <2>6 DEF Way
  <2> QED BY <1>7, <2>8, <2>9, <2>10 DEF Following
<1> QED BY <1>9, <1>10

\* A worker posts its record: nobody has overtaken it, so it is the first.
LEMMA FollowingWriteWAL ==
  ASSUME FInv, NEW w \in Workers, WriteWAL(w), ~gap'
  PROVE  Following'
<1> DEFINE n == Len(wal) + Len(queue)
           m == Len(queue)
           r == [db |-> posting[w][1].db, cmd |-> posting[w][1].cmd]
<1>1. PICK P, B, ord, k :
        /\ Way(P, B, ord, k, wal, queue, posting, slave_db, select_db)
        /\ Ends(P, n + k, replica, store, unsound)
  BY DEF FInv, Following, WriteWAL
<1>2. TypesOK /\ Len(wal) \in Nat /\ m \in Nat /\ k \in Nat /\ IsSeq(queue) /\ DOMAIN posting = Workers
  BY <1>1, Lens DEF FInv, Way, InOrder, TypesOK, RecordsTyped
<1>3. /\ queue' = Append(queue, r) /\ posting' = [posting EXCEPT ![w] = <<>>] /\ posting[w] # <<>>
      /\ UNCHANGED <<wal, slave_db, select_db, replica, store, unsound>>
      /\ ~Overtakes(posting[w][1].at)
  BY DEF WriteWAL, slave
<1>4. r.db = posting[w][1].db /\ r.cmd = posting[w][1].cmd
  OBVIOUS
<1> HIDE DEF r
<1>5. Len(queue') = m + 1 /\ queue'[m+1] = r /\ \A i \in 1..m : queue'[i] = queue[i]
  BY <1>2, <1>3, AppendFacts
<1>6. k \in Nat \ {0} /\ ord[1] = w
  <2>1. PICK i \in 1..k : ord[i] = w
    BY <1>1, <1>3 DEF Way, InOrder
  <2>2. CASE i # 1
    <3>1. 1 \in 1..k /\ 1 < i
      BY <1>2, <2>2
    <3>2. ord[1] \in Workers /\ posting[ord[1]] # <<>> /\ posting[ord[1]][1].at < posting[w][1].at
      BY <1>1, <2>1, <3>1 DEF Way, InOrder
    <3> QED BY <1>3, <3>2 DEF Overtakes
  <2> QED BY <1>2, <2>1, <2>2
<1> DEFINE rest == [i \in 1..k-1 |-> ord[i+1]]
<1>7. \A i \in 1..k-1 : rest[i] = ord[i+1]
  OBVIOUS
<1> HIDE DEF rest
<1>8. \A i \in 1..k-1 : /\ i + 1 \in 1..k /\ ord[i+1] \in Workers /\ ord[i+1] # w
                        /\ posting'[ord[i+1]] = posting[ord[i+1]]
  <2>1. ASSUME NEW i \in 1..k-1
        PROVE  i + 1 \in 1..k /\ ord[i+1] \in Workers /\ ord[i+1] # w
    <3>1. i + 1 \in 1..k /\ 1 \in 1..k /\ 1 < i + 1
      BY <1>6
    <3>2. ord[i+1] \in Workers /\ posting[ord[1]][1].at < posting[ord[i+1]][1].at
      BY <1>1, <3>1 DEF Way, InOrder
    <3>3. posting[w][1].at \in Nat
      BY <1>2, <1>3 DEF TypesOK, RecordsTyped
    <3> QED BY <1>6, <3>1, <3>2, <3>3
  <2> QED BY <1>2, <1>3, <2>1
<1>9. InOrder(rest, k - 1, posting')
  <2>1. ASSUME NEW i \in 1..k-1 PROVE rest[i] \in Workers /\ posting'[rest[i]] # <<>>
    <3>1. i + 1 \in 1..k /\ rest[i] = ord[i+1]
      BY <1>7, <1>8
    <3>2. posting[ord[i+1]] # <<>>
      BY <1>1, <3>1 DEF Way, InOrder
    <3> QED BY <1>8, <3>1, <3>2
  <2>2. ASSUME NEW v \in Workers, posting'[v] # <<>>
        PROVE  \E i \in 1..k-1 : rest[i] = v
    <3>1. v # w /\ posting[v] # <<>>
      BY <1>2, <1>3, <2>2
    <3>2. PICK j \in 1..k : ord[j] = v
      BY <1>1, <3>1 DEF Way, InOrder
    <3>3. j - 1 \in 1..k-1 /\ (j - 1) + 1 = j
      BY <1>6, <3>1, <3>2
    <3> QED BY <1>7, <3>2, <3>3
  <2>3. \A i, j \in 1..k-1 : i < j => posting'[rest[i]][1].at < posting'[rest[j]][1].at
    <3>1. ASSUME NEW i \in 1..k-1, NEW j \in 1..k-1, i < j
          PROVE  posting'[rest[i]][1].at < posting'[rest[j]][1].at
      <4>1. i + 1 \in 1..k /\ j + 1 \in 1..k /\ i + 1 < j + 1
        BY <1>6, <3>1
      <4>2. posting[ord[i+1]][1].at < posting[ord[j+1]][1].at
        BY <1>1, <4>1 DEF Way, InOrder
      <4> QED BY <1>7, <1>8, <4>2
    <3> QED BY <3>1
  <2> QED BY <1>6, <2>1, <2>2, <2>3 DEF InOrder
<1>10. Pending(P, B, rest, k - 1, wal, queue', posting')
  <2>1. \A i \in 1..Len(wal) : Record(P[i], B[i], wal[i])
    BY <1>1 DEF Way, Pending
  <2>2. ASSUME NEW i \in 1..m+1
        PROVE  Record(P[Len(wal)+i], queue'[i].db, queue'[i].cmd)
    <3>1. CASE i \in 1..m
      BY <1>1, <1>5, <3>1 DEF Way, Pending
    <3>2. CASE i = m + 1
      <4>5. \A j \in 1..k : Record(P[n+j], posting[ord[j]][1].db, posting[ord[j]][1].cmd)
        BY <1>1 DEF Way, Pending
      <4>6. 1 \in 1..k
        BY <1>6
      <4>1. Record(P[n+1], posting[ord[1]][1].db, posting[ord[1]][1].cmd)
        BY <4>5, <4>6
      <4>2. n + 1 = Len(wal) + i
        BY <1>2, <3>2
      <4>3. queue'[i].db = posting[ord[1]][1].db /\ queue'[i].cmd = posting[ord[1]][1].cmd
        BY <1>4, <1>5, <1>6, <3>2
      <4>4. P[Len(wal)+i] = P[n+1]
        BY <4>2
      <4> HIDE DEF n
      <4> QED BY <4>1, <4>3, <4>4 DEF Record
    <3> QED BY <1>2, <3>1, <3>2
  <2>3. ASSUME NEW i \in 1..k-1
        PROVE  Record(P[(Len(wal)+(m+1))+i], posting'[rest[i]][1].db, posting'[rest[i]][1].cmd)
    <3>1. Record(P[n+(i+1)], posting[ord[i+1]][1].db, posting[ord[i+1]][1].cmd)
      BY <1>1, <1>8 DEF Way, Pending
    <3>2. n + (i + 1) = (Len(wal)+(m+1))+i
      BY <1>2
    <3> QED BY <1>7, <1>8, <3>1, <3>2
  <2> QED BY <1>5, <2>1, <2>2, <2>3 DEF Pending
<1>11. (Len(wal)+Len(queue'))+(k-1) = n + k
  BY <1>2, <1>5
<1>12. Way(P, B, rest, k - 1, wal, queue', posting', slave_db, select_db)
  BY <1>1, <1>9, <1>10 DEF Way
<1>13. Ends(P, (Len(wal)+Len(queue'))+(k-1), replica, store, unsound)
  BY <1>1, <1>11
<1> QED BY <1>3, <1>12, <1>13 DEF Following

\* A key expires: no worker has a record to post.
LEMMA FollowingExpireCheck ==
  ASSUME FInv, NEW d \in DBs, NEW key \in Keys, ExpireCheck(d, key), ~gap'
  PROVE  Following'
<1> DEFINE n == Len(wal) + Len(queue)
           m == Len(queue)
           c == <<"del", key>>
           r == [db |-> d, cmd |-> c]
<1>1. PICK P, B, ord, k :
        /\ Way(P, B, ord, k, wal, queue, posting, slave_db, select_db)
        /\ Ends(P, n + k, replica, store, unsound)
  BY DEF FInv, Following, ExpireCheck
<1>2. TypesOK /\ Len(wal) \in Nat /\ m \in Nat /\ k \in Nat /\ IsSeq(queue) /\ IsStore(store)
  BY <1>1, Lens DEF FInv, Way, InOrder, TypesOK, RecordsTyped
<1>3. /\ queue' = Append(queue, r) /\ store' = Del(store, d, {key})
      /\ UNCHANGED <<wal, slave_db, select_db, replica, unsound, posting>>
      /\ ~Overtakes(cmds) /\ Has(store, d, key)
  BY DEF ExpireCheck, slave
<1>4. k = 0
  <2>1. ASSUME k # 0
        PROVE  FALSE
    <3>1. 1 \in 1..k
      BY <1>2, <2>1
    <3>2. ord[1] \in Workers /\ posting[ord[1]] # <<>>
      BY <1>1, <3>1 DEF Way, InOrder
    <3>3. posting[ord[1]][1].at < cmds
      BY <1>2, <3>2 DEF TypesOK, RecordsTyped
    <3> QED BY <1>3, <3>2, <3>3 DEF Overtakes
  <2> QED BY <2>1
<1>5. r.db = d /\ r.cmd = c
  OBVIOUS
<1> HIDE DEF r
<1>6. Len(queue') = m + 1 /\ queue'[m+1] = r /\ \A i \in 1..m : queue'[i] = queue[i]
  BY <1>2, <1>3, AppendFacts
<1>7. PICK o \in Handler(store, d, c) : o.kv = Del(store, d, {key}) /\ o.fired # {} /\ o.cmd = c
  BY <1>3, DelOutcome
<1>8. Valid(c) /\ Touched(c) = {key} /\ Facts(o, store, d, c)
  BY <1>2, ValidDel, CommandFacts
<1>9. Outside(o.kv, store, c) /\ Within(o.cmd, c) /\ Replays(o, store, d, c)
  <2>1. c[1] \notin Unlogged \cup LoggedWrong
    BY DEF Unlogged, LoggedWrong
  <2> QED BY <1>7, <1>8, <2>1 DEF Facts
<1> HIDE DEF c
<1>10. ASSUME NEW a, NEW b, IsStore(a), IsStore(b), Agree(a, store, unsound), Step(r, a, b)
       PROVE  Agree(b, store', unsound)
  <2>1. Touched(c) \subseteq unsound \/ (Touched(c) \cap unsound = {} /\ Replays(o, store, d, c))
    BY <1>8, <1>9
  <2>2. Agree(b, o.kv, unsound)
    BY <1>2, <1>5, <1>7, <1>8, <1>9, <1>10, <2>1, Advance
  <2> QED BY <1>3, <1>7, <2>2
<1> DEFINE Q == [i \in 1..n+1 |-> IF i = n + 1 THEN r ELSE P[i]]
<1>11. n \in Nat /\ Q[n+1] = r /\ \A i \in 1..n : Q[i] = P[i]
  BY <1>2
<1> HIDE DEF Q
<1>12. Ends(Q, n + 1, replica, store', unsound)
  <2>1. Ends(P, n, replica, store, unsound)
    BY <1>1, <1>4, <1>11
  <2> QED BY <1>10, <1>11, <2>1, EndsAppend
<1>13. Pending(Q, B, ord, 0, wal, queue', posting)
  <2>1. \A i \in 1..Len(wal) : Record(Q[i], B[i], wal[i])
    BY <1>1, <1>2, <1>11 DEF Way, Pending
  <2>2. ASSUME NEW i \in 1..m+1
        PROVE  Record(Q[Len(wal)+i], queue'[i].db, queue'[i].cmd)
    <3>1. CASE i \in 1..m
      <4>1. Len(wal) + i \in 1..n
        BY <1>2, <3>1
      <4> QED BY <1>1, <1>6, <1>11, <3>1, <4>1 DEF Way, Pending
    <3>2. CASE i = m + 1
      <4>1. n + 1 = Len(wal) + i
        BY <1>2, <3>2
      <4> QED BY <1>6, <1>11, <3>2, <4>1 DEF Record
    <3> QED BY <1>2, <3>1, <3>2
  <2> QED BY <1>6, <2>1, <2>2 DEF Pending
<1>14. Way(Q, B, ord, 0, wal, queue', posting, slave_db, select_db)
  BY <1>1, <1>4, <1>13 DEF Way
<1>15. (Len(wal)+Len(queue'))+0 = n + 1
  BY <1>2, <1>6
<1>16. Ends(Q, (Len(wal)+Len(queue'))+0, replica, store', unsound)
  BY <1>12, <1>15
<1> QED BY <1>3, <1>14, <1>16 DEF Following

\* The servers end and start again, and nothing was on its way.
LEMMA FollowingRestart ==
  ASSUME FInv, RestartMaster \/ RestartSlave, ~gap'
  PROVE  Following'
<1>1. PICK P, B, ord, k :
        /\ Way(P, B, ord, k, wal, queue, posting, slave_db, select_db)
        /\ Ends(P, (Len(wal)+Len(queue))+k, replica, store, unsound)
  BY DEF FInv, Following, RestartMaster, RestartSlave
<1>2. /\ UNCHANGED <<wal, queue, slave_db, select_db, replica, store, unsound>>
      /\ \A w \in Workers : posting'[w] = posting[w]
  <2>1. CASE RestartMaster
    BY <2>1 DEF RestartMaster, slave
  <2>2. CASE RestartSlave
    BY <2>2 DEF RestartSlave, master
  <2> QED BY <2>1, <2>2
<1>3. Way(P, B, ord, k, wal, queue, posting', slave_db, select_db)
  BY <1>1, <1>2 DEF Way, InOrder, Pending
<1>4. Way(P, B, ord, k, wal', queue', posting', slave_db', select_db')
  BY <1>2, <1>3
<1>5. Ends(P, (Len(wal')+Len(queue'))+k, replica', store', unsound')
  BY <1>1, <1>2
<1> QED BY <1>4, <1>5 DEF Following

\* The slave applies the first record.
LEMMA FollowingApplyRecord ==
  ASSUME FInv, ApplyRecord, ~gap'
  PROVE  Following'
<1> DEFINE c == Head(wal)
           m == Len(wal)
           n == (Len(wal') + Len(queue))
<1>1. PICK P, B, ord, k :
        /\ Way(P, B, ord, k, wal, queue, posting, slave_db, select_db)
        /\ Ends(P, (Len(wal)+Len(queue))+k, replica, store, unsound)
  BY DEF FInv, Following, ApplyRecord
<1>2. TypesOK /\ m \in Nat /\ Len(queue) \in Nat /\ k \in Nat /\ IsSeq(wal) /\ IsStore(replica)
  BY <1>1, Lens DEF FInv, Way, InOrder, TypesOK, RecordsTyped
<1>3. /\ wal # <<>> /\ wal' = Tail(wal)
      /\ UNCHANGED <<queue, posting, select_db, store, unsound>>
  BY DEF ApplyRecord, master
<1>4. /\ m \in Nat \ {0} /\ Len(wal') = m - 1 /\ c = wal[1]
      /\ \A i \in 1..m-1 : wal'[i] = wal[i+1]
  BY <1>2, <1>3, TailFacts
<1>5. 1 \in 1..m /\ P[1].db = slave_db /\ P[1].cmd = c
  <2>1. 1 \in 1..m
    BY <1>4
  <2>2. Record(P[1], B[1], wal[1]) /\ B[1] = slave_db
    BY <1>1, <2>1 DEF Way, Pending, Selected
  <2> QED BY <1>4, <2>1, <2>2 DEF Record
<1>6. c[1] = "select" => ArityOK(c)
  BY <1>4, <1>5 DEF FInv, SelectsOK
<1> HIDE DEF c
<1>7. Step(P[1], replica, replica') /\ slave_db' = IF c[1] = "select" THEN c[2] ELSE slave_db
  <2>1. CASE c[1] = "select" /\ slave_db' = c[2] /\ UNCHANGED replica
    BY <1>5, <2>1 DEF Step
  <2>2. CASE /\ c[1] # "select" /\ ArityOK(c) /\ UNCHANGED slave_db
             /\ \E o \in Handler(replica, slave_db, c) : replica' = o.kv
    BY <1>5, <2>2 DEF Step
  <2>3. CASE ~ArityOK(c) /\ UNCHANGED slave
    BY <1>5, <1>6, <2>3 DEF Step, slave
  <2> QED BY <2>1, <2>2, <2>3 DEF ApplyRecord, c
<1> DEFINE N == ((Len(wal)+Len(queue))+k) - 1
           Q == [i \in 1..N |-> P[i+1]]
           D == [i \in 1..m |-> B[i+1]]
<1>8. N \in Nat /\ N + 1 = (Len(wal)+Len(queue))+k /\ N = (Len(wal')+Len(queue))+k
  BY <1>2, <1>4
<1>9. (\A i \in 1..N : Q[i] = P[i+1]) /\ (\A i \in 1..m : D[i] = B[i+1])
  OBVIOUS
<1> HIDE DEF Q, D
<1>10. Ends(Q, N, replica', store, unsound)
  <2>1. Ends(P, N + 1, replica, store, unsound)
    BY <1>1, <1>8
  <2> HIDE DEF N
  <2> QED BY <1>2, <1>7, <1>8, <1>9, <2>1, EndsTail
<1>11. Selected(D, wal', slave_db', select_db)
  <2>1. D[1] = slave_db'
    <3>1. B[2] = IF wal[1][1] = "select" THEN wal[1][2] ELSE B[1]
      BY <1>1, <1>5 DEF Way, Selected
    <3>2. D[1] = B[2] /\ B[1] = slave_db
      BY <1>1, <1>5, <1>9 DEF Way, Selected
    <3> QED BY <1>4, <1>7, <3>1, <3>2
  <2>2. D[Len(wal')+1] = select_db
    BY <1>1, <1>4, <1>9 DEF Way, Selected
  <2>3. ASSUME NEW i \in 1..m-1
        PROVE  D[i+1] = IF wal'[i][1] = "select" THEN wal'[i][2] ELSE D[i]
    <3>1. i + 1 \in 1..m /\ i \in 1..m
      BY <1>4
    <3>2. B[(i+1)+1] = IF wal[i+1][1] = "select" THEN wal[i+1][2] ELSE B[i+1]
      BY <1>1, <3>1 DEF Way, Selected
    <3> QED BY <1>4, <1>9, <3>1, <3>2
  <2> QED BY <1>4, <2>1, <2>2, <2>3 DEF Selected
<1>12. Pending(Q, D, ord, k, wal', queue, posting)
  <2>1. ASSUME NEW i \in 1..m-1
        PROVE  Record(Q[i], D[i], wal'[i])
    <3>1. i + 1 \in 1..m /\ i \in 1..m /\ i \in 1..N
      BY <1>2, <1>4
    <3>2. Record(P[i+1], B[i+1], wal[i+1])
      BY <1>1, <3>1 DEF Way, Pending
    <3> QED BY <1>4, <1>9, <3>1, <3>2
  <2>2. ASSUME NEW i \in 1..Len(queue)
        PROVE  Record(Q[(m-1)+i], queue[i].db, queue[i].cmd)
    <3>1. (m - 1) + i \in 1..N /\ ((m - 1) + i) + 1 = m + i
      BY <1>2, <1>4
    <3>2. Record(P[m+i], queue[i].db, queue[i].cmd)
      BY <1>1 DEF Way, Pending
    <3>3. Q[(m-1)+i] = P[m+i]
      BY <1>9, <3>1
    <3> QED BY <3>2, <3>3
  <2>3. ASSUME NEW i \in 1..k
        PROVE  Record(Q[((m-1)+Len(queue))+i], posting[ord[i]][1].db, posting[ord[i]][1].cmd)
    <3>1. ((m-1)+Len(queue))+i \in 1..N /\ (((m-1)+Len(queue))+i) + 1 = (m+Len(queue))+i
      BY <1>2, <1>4
    <3>2. Record(P[(m+Len(queue))+i], posting[ord[i]][1].db, posting[ord[i]][1].cmd)
      BY <1>1 DEF Way, Pending
    <3>3. Q[((m-1)+Len(queue))+i] = P[(m+Len(queue))+i]
      BY <1>9, <3>1
    <3> QED BY <3>2, <3>3
  <2> QED BY <1>4, <2>1, <2>2, <2>3 DEF Pending
<1>13. Way(Q, D, ord, k, wal', queue, posting, slave_db', select_db)
  BY <1>1, <1>11, <1>12 DEF Way
<1>14. Ends(Q, (Len(wal')+Len(queue))+k, replica', store, unsound)
  BY <1>8, <1>10
<1> QED BY <1>3, <1>13, <1>14 DEF Following

\* The replication thread writes a record, after a select if it needs one.
LEMMA FollowingWriteWALCallback ==
  ASSUME FInv, WriteWALCallback, ~gap'
  PROVE  Following'
<1> DEFINE r == Head(queue)
           t == Records(r)
           m == Len(wal)
           q == Len(queue)
<1>1. PICK P, B, ord, k :
        /\ Way(P, B, ord, k, wal, queue, posting, slave_db, select_db)
        /\ Ends(P, (Len(wal)+Len(queue))+k, replica, store, unsound)
  BY DEF FInv, Following, WriteWALCallback
<1>2. /\ TypesOK /\ m \in Nat /\ q \in Nat /\ k \in Nat /\ IsSeq(wal) /\ IsSeq(queue)
      /\ select_db \in DBs
  BY <1>1, Lens DEF FInv, Way, InOrder, TypesOK, RecordsTyped, StoresTyped
<1>3. /\ queue # <<>> /\ queue' = Tail(queue) /\ wal' = wal \o t /\ select_db' = r.db
      /\ UNCHANGED <<posting, slave_db, replica, store, unsound>>
  BY DEF WriteWALCallback, slave
<1>4. /\ q \in Nat \ {0} /\ Len(queue') = q - 1 /\ r = queue[1]
      /\ \A i \in 1..q-1 : queue'[i] = queue[i+1]
  BY <1>2, <1>3, TailFacts
<1>5. Posted(r) /\ r.cmd[1] # "select"
  <2>1. 1 \in 1..q
    BY <1>4
  <2> QED BY <1>2, <1>4, <2>1 DEF TypesOK, RecordsTyped, Posted, Applicable
<1>6. /\ IsSeq(t)
      /\ select_db = r.db => Len(t) = 1 /\ t[1] = r.cmd
      /\ select_db # r.db => Len(t) = 2 /\ t[1] = <<"select", r.db>> /\ t[2] = r.cmd
  BY <1>2, <1>5, RecordsFacts
<1>7. P[m+1].db = r.db /\ P[m+1].cmd = r.cmd
  <2>1. 1 \in 1..q
    BY <1>4
  <2> QED BY <1>1, <1>4, <2>1 DEF Way, Pending, Record
<1> HIDE DEF r, t
<1>8. /\ Len(wal') = m + Len(t) /\ \A i \in 1..m : wal'[i] = wal[i]
      /\ \A i \in 1..Len(t) : wal'[m+i] = t[i]
  BY <1>2, <1>3, <1>6, ConcatFacts
<1>9. CASE select_db = r.db
  <2>1. Len(wal') = m + 1 /\ wal'[m+1] = r.cmd
    <3>1. Len(t) = 1 /\ t[1] = r.cmd /\ 1 \in 1..1
      BY <1>6, <1>9
    <3> QED BY <1>8, <3>1
  <2> DEFINE D == [i \in 1..m+2 |-> IF i = m + 2 THEN r.db ELSE B[i]]
  <2>2. D[m+2] = r.db /\ \A i \in 1..m+1 : D[i] = B[i]
    BY <1>2
  <2> HIDE DEF D
  <2>3. B[1] = slave_db /\ B[m+1] = select_db
    BY <1>1 DEF Way, Selected
  <2>4. Selected(D, wal', slave_db, r.db)
    <3>1. D[1] = slave_db /\ D[(m+1)+1] = r.db
      BY <1>2, <2>2, <2>3
    <3>2. ASSUME NEW i \in 1..m+1
          PROVE  D[i+1] = IF wal'[i][1] = "select" THEN wal'[i][2] ELSE D[i]
      <4>1. CASE i = m + 1
        BY <1>2, <1>5, <1>9, <2>1, <2>2, <2>3, <4>1
      <4>2. CASE i # m + 1
        <5>1. i \in 1..m /\ i + 1 \in 1..m+1
          BY <1>2, <4>2
        <5>2. B[i+1] = IF wal[i][1] = "select" THEN wal[i][2] ELSE B[i]
          BY <1>1, <5>1 DEF Way, Selected
        <5> QED BY <1>8, <2>2, <5>1, <5>2
      <4> QED BY <4>1, <4>2
    <3> QED BY <2>1, <3>1, <3>2 DEF Selected
  <2>5. Pending(P, D, ord, k, wal', queue', posting)
    <3>1. ASSUME NEW i \in 1..m+1
          PROVE  Record(P[i], D[i], wal'[i])
      <4>1. CASE i = m + 1
        BY <1>7, <1>9, <2>1, <2>2, <2>3, <4>1 DEF Record
      <4>2. CASE i # m + 1
        <5>1. i \in 1..m
          BY <1>2, <4>2
        <5>2. Record(P[i], B[i], wal[i])
          BY <1>1, <5>1 DEF Way, Pending
        <5> QED BY <1>8, <2>2, <5>1, <5>2
      <4> QED BY <4>1, <4>2
    <3>2. ASSUME NEW i \in 1..q-1
          PROVE  Record(P[(m+1)+i], queue'[i].db, queue'[i].cmd)
      <4>1. i + 1 \in 1..q /\ m + (i + 1) = (m + 1) + i
        BY <1>2, <1>4
      <4>2. Record(P[m+(i+1)], queue[i+1].db, queue[i+1].cmd)
        BY <1>1, <4>1 DEF Way, Pending
      <4>3. P[(m+1)+i] = P[m+(i+1)] /\ queue'[i] = queue[i+1]
        BY <1>4, <4>1
      <4> QED BY <4>2, <4>3
    <3>3. ASSUME NEW i \in 1..k
          PROVE  Record(P[((m+1)+(q-1))+i], posting[ord[i]][1].db, posting[ord[i]][1].cmd)
      <4>1. ((m+1)+(q-1))+i = (m+q)+i
        BY <1>2
      <4>2. Record(P[(m+q)+i], posting[ord[i]][1].db, posting[ord[i]][1].cmd)
        BY <1>1 DEF Way, Pending
      <4>3. P[((m+1)+(q-1))+i] = P[(m+q)+i]
        BY <4>1
      <4> QED BY <4>2, <4>3
    <3> QED BY <1>4, <2>1, <3>1, <3>2, <3>3 DEF Pending
  <2>6. (Len(wal')+Len(queue'))+k = (m+q)+k
    BY <1>2, <1>4, <2>1
  <2>7. Way(P, D, ord, k, wal', queue', posting, slave_db, select_db')
    BY <1>1, <1>3, <2>4, <2>5 DEF Way
  <2>8. Ends(P, (Len(wal')+Len(queue'))+k, replica, store, unsound)
    BY <1>1, <2>6
  <2> QED BY <1>3, <2>7, <2>8 DEF Following
<1>10. CASE select_db # r.db
  <2>1. Len(wal') = m + 2 /\ wal'[m+1] = <<"select", r.db>> /\ wal'[m+2] = r.cmd
    BY <1>6, <1>8, <1>10
  <2> DEFINE N == (m+q)+k
             s == [db |-> select_db, cmd |-> <<"select", r.db>>]
             Q == [i \in 1..N+1 |-> IF i <= m THEN P[i] ELSE IF i = m + 1 THEN s ELSE P[i-1]]
             D == [i \in 1..m+3 |-> IF i <= m + 1 THEN B[i] ELSE r.db]
  <2>2. (\A i \in 1..m+1 : D[i] = B[i]) /\ D[m+2] = r.db /\ D[m+3] = r.db
    BY <1>2
  <2>3. /\ \A i \in 1..m : Q[i] = P[i]
        /\ Q[m+1] = s
        /\ \A i \in m+1..N : Q[i+1] = P[i]
    <3>1. \A i \in 1..N+1 : Q[i] = IF i <= m THEN P[i] ELSE IF i = m + 1 THEN s ELSE P[i-1]
      OBVIOUS
    <3>2. N \in Nat /\ m <= N
      BY <1>2
    <3>3. \A i \in 1..m : Q[i] = P[i]
      BY <1>2, <3>1, <3>2
    <3>4. Q[m+1] = s
      BY <1>2, <3>1, <3>2
    <3>5. ASSUME NEW i \in m+1..N
          PROVE  Q[i+1] = P[i]
      <4>1. i + 1 \in 1..N+1 /\ ~(i + 1 <= m) /\ i + 1 # m + 1 /\ (i + 1) - 1 = i
        BY <1>2, <3>2
      <4> QED BY <3>1, <4>1
    <3> QED BY <3>3, <3>4, <3>5
  <2>4. s.db = select_db /\ s.cmd = <<"select", r.db>> /\ s.cmd[1] = "select"
    OBVIOUS
  <2> HIDE DEF D, Q, s
  <2>5. N \in Nat /\ m \in 0..N
    BY <1>2
  <2>6. Ends(Q, N + 1, replica, store, unsound)
    <3>1. Ends(P, N, replica, store, unsound)
      BY <1>1
    <3>2. Q[m+1].cmd[1] = "select"
      BY <2>3, <2>4
    <3> HIDE DEF N, m
    <3> QED BY <2>3, <2>5, <3>1, <3>2, EndsInsert
  <2>7. B[1] = slave_db /\ B[m+1] = select_db
    BY <1>1 DEF Way, Selected
  <2>8. Selected(D, wal', slave_db, r.db)
    <3>1. D[1] = slave_db /\ D[(m+2)+1] = r.db
      BY <1>2, <2>2, <2>7
    <3>2. ASSUME NEW i \in 1..m+2
          PROVE  D[i+1] = IF wal'[i][1] = "select" THEN wal'[i][2] ELSE D[i]
      <4>1. CASE i = m + 2
        <5>1. i + 1 = m + 3
          BY <4>1
        <5> QED BY <1>5, <2>1, <2>2, <4>1, <5>1
      <4>2. CASE i = m + 1
        <5>1. i + 1 = m + 2
          BY <4>2
        <5> QED BY <2>1, <2>2, <4>2, <5>1
      <4>3. CASE i \in 1..m
        <5>1. i \in 1..m+1 /\ i + 1 \in 1..m+1
          BY <1>2, <4>3
        <5>2. B[i+1] = IF wal[i][1] = "select" THEN wal[i][2] ELSE B[i]
          BY <1>1, <4>3 DEF Way, Selected
        <5> QED BY <1>8, <2>2, <4>3, <5>1, <5>2
      <4> QED BY <1>2, <4>1, <4>2, <4>3
    <3> QED BY <2>1, <3>1, <3>2 DEF Selected
  <2>9. Pending(Q, D, ord, k, wal', queue', posting)
    <3>1. ASSUME NEW i \in 1..m+2
          PROVE  Record(Q[i], D[i], wal'[i])
      <4>1. CASE i = m + 2
        <5>1. m + 1 \in m+1..N /\ i = (m + 1) + 1
          BY <1>2, <1>4, <4>1
        <5>2. Q[i] = P[m+1]
          BY <2>3, <5>1
        <5> QED BY <1>7, <2>1, <2>2, <4>1, <5>2 DEF Record
      <4>2. CASE i = m + 1
        BY <2>1, <2>2, <2>3, <2>4, <2>7, <4>2 DEF Record
      <4>3. CASE i \in 1..m
        <5>1. Record(P[i], B[i], wal[i]) /\ i \in 1..m+1
          BY <1>1, <1>2, <4>3 DEF Way, Pending
        <5> QED BY <1>8, <2>2, <2>3, <4>3, <5>1
      <4> QED BY <1>2, <4>1, <4>2, <4>3
    <3>2. ASSUME NEW i \in 1..q-1
          PROVE  Record(Q[(m+2)+i], queue'[i].db, queue'[i].cmd)
      <4>1. i + 1 \in 1..q /\ m + (i + 1) \in m+1..N /\ (m + (i + 1)) + 1 = (m + 2) + i
        BY <1>2, <1>4
      <4>2. Record(P[m+(i+1)], queue[i+1].db, queue[i+1].cmd)
        BY <1>1, <4>1 DEF Way, Pending
      <4>3. Q[(m+2)+i] = P[m+(i+1)] /\ queue'[i] = queue[i+1]
        BY <1>4, <2>3, <4>1
      <4> QED BY <4>2, <4>3
    <3>3. ASSUME NEW i \in 1..k
          PROVE  Record(Q[((m+2)+(q-1))+i], posting[ord[i]][1].db, posting[ord[i]][1].cmd)
      <4>1. (m+q)+i \in m+1..N /\ ((m+q)+i)+1 = ((m+2)+(q-1))+i
        BY <1>2, <1>4
      <4>2. Record(P[(m+q)+i], posting[ord[i]][1].db, posting[ord[i]][1].cmd)
        BY <1>1 DEF Way, Pending
      <4>3. Q[((m+2)+(q-1))+i] = P[(m+q)+i]
        BY <2>3, <4>1
      <4> QED BY <4>2, <4>3
    <3> QED BY <1>4, <2>1, <3>1, <3>2, <3>3 DEF Pending
  <2>10. (Len(wal')+Len(queue'))+k = N + 1
    BY <1>2, <1>4, <2>1
  <2>11. Way(Q, D, ord, k, wal', queue', posting, slave_db, select_db')
    BY <1>1, <1>3, <2>8, <2>9 DEF Way
  <2>12. Ends(Q, (Len(wal')+Len(queue'))+k, replica, store, unsound)
    BY <2>6, <2>10
  <2> QED BY <1>3, <2>11, <2>12 DEF Following
<1> QED BY <1>9, <1>10

LEMMA SelectArity == \A d : ArityOK(<<"select", d>>)
<1> SUFFICES ASSUME NEW d PROVE ArityOK(<<"select", d>>)
  OBVIOUS
<1> DEFINE c == <<"select", d>>
<1>1. c[1] = "select" /\ Len(c) = 2
  OBVIOUS
<1> HIDE DEF c
<1>2. ArityOK(c)
  BY <1>1 DEF ArityOK, Arity, Any
<1> QED BY <1>2 DEF c

LEMMA SelectsNext ==
  ASSUME TypesOK, SelectsOK, [Next]_vars
  PROVE  SelectsOK'
<1>1. CASE UNCHANGED wal
  BY <1>1 DEF SelectsOK
<1>2. CASE ApplyRecord
  <2>1. IsSeq(wal) /\ wal # <<>> /\ wal' = Tail(wal)
    BY <1>2 DEF TypesOK, RecordsTyped, ApplyRecord
  <2>2. Len(wal) \in Nat \ {0} /\ Len(wal') = Len(wal) - 1 /\ \A i \in 1..Len(wal) - 1 : wal'[i] = wal[i+1]
    BY <2>1, TailFacts
  <2>3. \A i \in 1..Len(wal) - 1 : i + 1 \in 1..Len(wal)
    BY <2>2
  <2> QED BY <2>2, <2>3 DEF SelectsOK
<1>3. CASE WriteWALCallback
  <2> DEFINE r == Head(queue)
             t == Records(r)
  <2>1. Posted(r) /\ IsSeq(wal) /\ select_db \in DBs
    <3>1. IsSeq(queue) /\ queue # <<>>
      BY <1>3 DEF TypesOK, RecordsTyped, WriteWALCallback
    <3>2. Head(queue) = queue[1] /\ 1 \in 1..Len(queue)
      BY <3>1, TailFacts
    <3> QED BY <3>2 DEF TypesOK, RecordsTyped, StoresTyped
  <2>2. /\ IsSeq(t)
        /\ select_db = r.db => Len(t) = 1 /\ t[1] = r.cmd
        /\ select_db # r.db => Len(t) = 2 /\ t[1] = <<"select", r.db>> /\ t[2] = r.cmd
    BY <2>1, RecordsFacts
  <2>3. wal' = wal \o t /\ r.cmd[1] # "select"
    BY <1>3, <2>1 DEF WriteWALCallback, Posted, Applicable
  <2> HIDE DEF r, t
  <2>4. \A i \in 1..Len(t) : t[i][1] = "select" => ArityOK(t[i])
    <3>1. CASE select_db = r.db
      <4>1. Len(t) = 1 /\ t[1] = r.cmd /\ \A i \in 1..1 : i = 1
        BY <2>2, <3>1
      <4>2. ASSUME NEW i \in 1..Len(t)
            PROVE  t[i][1] # "select"
        <5>1. i = 1
          BY <4>1, <4>2
        <5> QED BY <2>3, <4>1, <5>1
      <4> QED BY <4>2
    <3>2. CASE select_db # r.db
      <4>1. \A i \in 1..Len(t) : t[i] = <<"select", r.db>> \/ t[i] = r.cmd
        BY <2>2, <3>2
      <4> QED BY <2>3, <4>1, SelectArity
    <3> QED BY <3>1, <3>2
  <2>5. /\ Len(wal') = Len(wal) + Len(t) /\ \A i \in 1..Len(wal) : wal'[i] = wal[i]
        /\ \A i \in 1..Len(t) : wal'[Len(wal)+i] = t[i]
    BY <2>1, <2>2, <2>3, ConcatFacts
  <2>6. ASSUME NEW i \in 1..Len(wal) + Len(t), wal'[i][1] = "select"
        PROVE  ArityOK(wal'[i])
    <3>1. CASE i \in 1..Len(wal)
      BY <2>5, <2>6, <3>1 DEF SelectsOK
    <3>2. CASE i \notin 1..Len(wal)
      <4>1. i - Len(wal) \in 1..Len(t) /\ Len(wal) + (i - Len(wal)) = i
        BY <2>1, <2>2, <3>2 DEF IsSeq
      <4>2. wal'[i] = t[i - Len(wal)]
        BY <2>5, <4>1
      <4> QED BY <2>4, <2>6, <4>1, <4>2
    <3> QED BY <3>1, <3>2
  <2> QED BY <2>5, <2>6 DEF SelectsOK
<1>4. ASSUME ~ApplyRecord, ~WriteWALCallback
      PROVE  UNCHANGED wal
  BY <1>4 DEF Next, vars, Execute, Select, WriteWAL, ExpireCheck, RestartMaster, RestartSlave
<1> QED BY <1>1, <1>2, <1>3, <1>4

LEMMA FollowingNext ==
  FInv /\ [Next]_vars => FInv'
<1> SUFFICES ASSUME FInv, [Next]_vars, ~gap' PROVE Following'
  <2>1. FInv /\ [Next]_vars => TypesOK' /\ SelectsOK'
    BY TypesNext, SelectsNext DEF FInv
  <2> QED BY <2>1 DEF FInv
<1>1. CASE UNCHANGED vars \/ \E w \in Workers, d \in DBs : Select(w, d)
  <2>1. UNCHANGED <<wal, queue, posting, slave_db, select_db, replica, store, unsound, gap>>
    BY <1>1 DEF vars, master, slave, Select
  <2>2. Following
    BY <2>1 DEF FInv
  <2> QED BY <2>1, <2>2 DEF Following
<1> QED BY <1>1, FollowingExecute, FollowingWriteWAL, FollowingWriteWALCallback, FollowingExpireCheck,
           FollowingApplyRecord, FollowingRestart DEF Next

LEMMA FollowingAgrees ==
  ASSUME FInv
  PROVE  ReplicaAgrees
<1> SUFFICES ASSUME Drained, ~gap, NEW d \in DBs, NEW k \in Keys \ unsound
             PROVE  Same(store, replica, d, k)
  BY DEF ReplicaAgrees
<1>1. PICK P, B, ord, j :
        /\ Way(P, B, ord, j, wal, queue, posting, slave_db, select_db)
        /\ Ends(P, (Len(wal)+Len(queue))+j, replica, store, unsound)
  BY DEF FInv, Following
<1>2. Len(wal) = 0 /\ Len(queue) = 0
  BY DEF Drained
<1>3. j = 0
  <2>1. j \in Nat /\ \A i \in 1..j : ord[i] \in Workers /\ posting[ord[i]] # <<>>
    BY <1>1 DEF Way, InOrder
  <2>2. ASSUME j # 0 PROVE FALSE
    <3>1. 1 \in 1..j
      BY <2>1, <2>2
    <3> QED BY <2>1, <3>1 DEF Drained
  <2> QED BY <2>2
<1>4. Ends(P, 0, replica, store, unsound)
  <2>1. (Len(wal)+Len(queue))+j = 0
    BY <1>2, <1>3
  <2> QED BY <1>1, <2>1
<1>5. Agree(replica, store, unsound)
  BY <1>4, EndsNow, Lens DEF FInv
<1> QED BY <1>5 DEF Agree, SameAt, Same

\* A slave that has applied all its master has executed holds what its master
\* holds: whatever the stores, the commands, the number of workers and the
\* order in which they post.
THEOREM AgreesTheorem == Spec => []ReplicaAgrees
<1>1. Spec => []FInv
  BY FollowingInit, FollowingNext, PTL DEF Spec
<1> QED BY <1>1, FollowingAgrees, PTL
=============================================================================
