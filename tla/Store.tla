------------------------------- MODULE Store --------------------------------
(***************************************************************************)
(* The key-value store (mmkv, a library): the databases, what they hold    *)
(* and the calls the command handlers make.  It is modelled from those     *)
(* calls and from what the handlers make of their results.                 *)
(*                                                                         *)
(* A database is a function on the keys that exist.  A value has a type;   *)
(* a string is a number below Strings, and operations on its bytes or bits *)
(* are Mixed: some function of the old and the given string.               *)
(***************************************************************************)
EXTENDS Integers, Sequences, FiniteSets

CONSTANTS
  DBs,       \* database numbers, 0 among them
  Strings    \* bound: strings are 0..Strings-1

Types == {"string", "hash", "list", "set", "zset"}

Timed(type, content, ttl) == [type |-> type, content |-> content, ttl |-> ttl]
Value(type, content) == Timed(type, content, FALSE)

Empty == [x \in {} |-> x]
Put(f, x, v) == [y \in DOMAIN f \cup {x} |-> IF y = x THEN v ELSE f[y]]
Without(f, S) == [y \in DOMAIN f \ S |-> f[y]]

\* A store has a value for each key that exists in a database.
IsValue(v) == v = Timed(v.type, v.content, v.ttl)
IsStore(st) ==
  /\ st = [d \in DBs |-> [k \in DOMAIN st[d] |-> st[d][k]]]
  /\ \A d \in DBs : \A k \in DOMAIN st[d] : IsValue(st[d][k])

Has(st, d, k) == k \in DOMAIN st[d]
\* No ERR_INVALID_TYPE: the key is free, or of the type asked for.
Fits(st, d, k, type) == Has(st, d, k) => st[d][k].type = type
\* What a key holds, given what a free key counts as.
Get(st, d, k, free) == IF Has(st, d, k) THEN st[d][k].content ELSE free

Del(st, d, K) == [st EXCEPT ![d] = Without(@, K)]
\* A new value; the deadline goes (SET and its kind).
Overwrite(st, d, k, val) == [st EXCEPT ![d] = Put(@, k, val)]
\* A changed value keeps its deadline, and a collection that becomes empty is gone.
Update(st, d, k, type, v) ==
  IF \/ type = "list" /\ v = <<>>
     \/ type = "set" /\ v = {}
     \/ type \in {"hash", "zset"} /\ DOMAIN v = {}
  THEN Del(st, d, {k})
  ELSE Overwrite(st, d, k, Timed(type, v, Has(st, d, k) /\ st[d][k].ttl))

SetTTL(st, d, k, ttl) ==
  Overwrite(st, d, k, Timed(st[d][k].type, st[d][k].content, ttl))

Mixed(v, x) == (2 * v + x + 1) % Strings
Plus(v, x) == (v + x) % Strings

Elements(s) == {s[i] : i \in DOMAIN s}
Front(s) == SubSeq(s, 1, Len(s) - 1)
Last(s) == s[Len(s)]
\* Removes all that equal x (LREM with count 0).
Others(s, x) == SelectSeq(s, LAMBDA y : y # x)
InsertBefore(s, i, x) == SubSeq(s, 1, i - 1) \o <<x>> \o SubSeq(s, i, Len(s))
\* The elements at start..end, counted from 0; beyond the list there are none.
Slice(s, start, end) == SubSeq(s, start + 1, IF end < Len(s) THEN end + 1 ELSE Len(s))
Sorted(S) == CHOOSE s \in [1..Cardinality(S) -> S] :
               /\ Elements(s) = S
               /\ \A i, j \in DOMAIN s : i < j => s[i] <= s[j]
=============================================================================
