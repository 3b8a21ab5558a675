-------------------------- MODULE BlockListProofs ---------------------------
(***************************************************************************)
(* Proofs about the clients that wait for list elements, for any number of *)
(* clients, workers, keys, elements and requests in a read.                *)
(*                                                                         *)
(* WInv says what a handler may still have to do and how the parts of a    *)
(* wait belong together.  On it rest EInv, where each element is, CInv,    *)
(* how many wake-ups a waiting client has coming, and OInv, who is to give *)
(* each reply.  Each is inductive together with WInv.                      *)
(***************************************************************************)
EXTENDS BlockList, SequenceTheorems, FiniteSetTheorems, TLAPS

-----------------------------------------------------------------------------
(***************************************************************************)
(* The invariant.                                                          *)
(***************************************************************************)
\* What the handler of w may still do: its steps are for one client, in an
\* order that no step comes back in, and a search ends with its block.
Asking == {"try", "block", "register"}
Handing == {"wake", "pushed", "popped", "push", "clear"}

StepRecords == [op : Asking \cup Handing \cup {"answer"}, c : Clients, k : Keys,
                e : Requests \cup Nat]

Leads(a, b) ==
  \/ a = "try" /\ b \in Asking
  \/ a \in {"block", "register"} /\ b = "register"
  \/ a = "wake" /\ b = "pushed"
  \/ a \in {"popped", "push", "answer"} /\ b = "clear"

Chained(q) ==
  /\ \A i \in 1..Len(q) : q[i].c = q[1].c
  /\ \A i, j \in 1..Len(q) : i < j => Leads(q[i].op, q[j].op)
  /\ q # <<>> /\ q[1].op = "try" => \E i \in 1..Len(q) : q[i].op = "block"

IsBlocked(c) == block[c] # NULL /\ block[c].keys # {}

\* What a step works on, and the connection of a client that asks.
Fits(s) ==
  /\ s.op \in Asking => /\ s.e \in Requests /\ s.e.cmd \in {"blpop", "brpop", "brpoplpush"}
                        /\ conn[s.c] = "open"
  /\ s.op \in Handing => s.e \in 1..MaxElements

Handles(w) ==
  /\ Chained(todo[w])
  /\ \A i \in 1..Len(todo[w]) : Fits(todo[w][i]) /\ Worker[todo[w][i].c] = w
  /\ At(w, "register") => IsBlocked(todo[w][1].c)
  /\ At(w, "push") => block[todo[w][1].c] # NULL /\ block[todo[w][1].c].push_key # NULL

\* What else waits for w's loop.
Serves(w) ==
  /\ \A i \in 1..Len(unread[w]) : Worker[unread[w][i][1]] = w /\ conn[unread[w][i][1]] = "open"
  /\ \A i \in 1..Len(inbox[w]) : Worker[inbox[w][i][1]] = w

Shape ==
  /\ lists \in [Keys -> Seq(1..MaxElements)] /\ table \in [Keys -> SUBSET Clients]
  /\ block \in [Clients -> Blocks \cup {NULL}] /\ attached \in [Clients -> BOOLEAN]
  /\ conn \in [Clients -> {"open", "closed", "freed"}]
  /\ timers \in SUBSET (Clients \X (Nat \ {0})) /\ IsFiniteSet(timers)
  /\ todo \in [Workers -> Seq(StepRecords)] /\ unread \in [Workers -> Seq(Clients \X Requests)]
  /\ inbox \in [Workers -> Seq(Clients \X Keys)]
  /\ wal \in [pushed : SUBSET Nat, popped : SUBSET Nat]
  /\ owed \in [Clients -> Int] /\ missed \in SUBSET (Clients \X Keys)
  /\ fate \in [1..MaxElements -> Clients \cup {NULL, "lost", "swallowed"}]
  /\ pushed \in 0..MaxElements

\* A client waits under the keys it remembers while it is connected, and one
\* that is not watched waits.
Waiting(c) ==
  /\ \A k \in Keys : c \in table[k] <=> block[c] # NULL /\ k \in block[c].keys
  /\ IsBlocked(c) => conn[c] = "open"
  /\ conn[c] = "open" /\ ~attached[c] => IsBlocked(c)

WInv == Shape /\ (\A w \in Workers : Handles(w) /\ Serves(w)) /\ (\A c \in Clients : Waiting(c))

\* Where an element is: in a list, in the hands of a handler, or gone; and
\* the record of its push, which some handler has yet to post.
Among(e, l) == \E i \in 1..Len(l) : l[i] = e
Once(l) == \A i, j \in 1..Len(l) : l[i] = l[j] => i = j
Lies(k, e) == Among(e, lists[k])
Holds(w, e) == (At(w, "popped") \/ At(w, "push")) /\ Head(todo[w]).e = e
Posting(w, e) == \E i \in 1..Len(todo[w]) : todo[w][i].op = "pushed" /\ todo[w][i].e = e

OnePlace(e) ==
  /\ \A j, k \in Keys : Lies(j, e) /\ Lies(k, e) => j = k
  /\ \A v, w \in Workers : Holds(v, e) /\ Holds(w, e) => v = w
  /\ \A k \in Keys, w \in Workers : ~(Lies(k, e) /\ Holds(w, e))
  /\ e <= pushed /\ fate[e] = NULL <=> \/ \E k \in Keys : Lies(k, e)
                                       \/ \E w \in Workers : Holds(w, e)
  /\ e > pushed => fate[e] = NULL
  /\ e \in wal.popped <=> fate[e] \notin {NULL, "swallowed"}
  /\ e <= pushed => e \in wal.pushed \/ \E w \in Workers : Posting(w, e)

EInv == (\A k \in Keys : Once(lists[k])) /\ (\A e \in 1..MaxElements : OnePlace(e))

\* A waiting client has a wake-up for every element it has not missed.
Clearing(c) ==
  LET q == todo[Worker[c]]
  IN  \E i \in 1..Len(q) : q[i].op = "clear" /\ q[i].c = c
Posted(c, k) == {i \in 1..Len(inbox[Worker[c]]) : inbox[Worker[c]][i] = <<c, k>>}
Waking(k) == {w \in Workers : At(w, "wake") /\ Head(todo[w]).k = k}

Covered(c, k) ==
  c \in table[k] /\ <<c, k>> \notin missed /\ ~Clearing(c)
    => Len(lists[k]) <= Cardinality(Posted(c, k)) + Cardinality(Waking(k))

CInv == \A c \in Clients, k \in Keys : Covered(c, k)

\* A client is owed a reply for every timer, for the wait that has none, and
\* for what its handler is at.
Ids(c) == {t[2] : t \in {u \in timers : u[1] = c}}
Owing(c) ==
  IF Clearing(c) THEN Ids(c) \ (IF block[c] = NULL THEN {} ELSE {block[c].timer})
  ELSE Ids(c) \cup (IF IsBlocked(c) THEN {block[c].timer} ELSE {})
\* The handler with the steps q has c's reply to give, or c's wait to end.
Gives(q, c) ==
  \E i \in 1..Len(q) : q[i].c = c /\ q[i].op \in {"block", "popped", "push", "answer"}
Ends(q, c) == \E i \in 1..Len(q) : q[i].op = "clear" /\ q[i].c = c

Owed(c) ==
  owed[c] >= Cardinality(Owing(c)) + (IF Gives(todo[Worker[c]], c) THEN 1 ELSE 0)

OInv == \A c \in Clients : Owed(c)
-----------------------------------------------------------------------------
(***************************************************************************)
(* Handlers, step by step.                                                 *)
(***************************************************************************)
LEMMA TailFacts ==
  ASSUME NEW S, NEW q \in Seq(S), q # <<>>
  PROVE  /\ Len(q) \in Nat \ {0} /\ Head(q) = q[1] /\ q[1] \in S
         /\ Tail(q) \in Seq(S) /\ Len(Tail(q)) = Len(q) - 1
         /\ \A i \in 1..(Len(q) - 1) : Tail(q)[i] = q[i + 1]
         /\ \A i \in 1..Len(q) : q[i] \in S
<1>1. Len(q) \in Nat /\ Len(q) # 0 /\ \A i \in 1..Len(q) : q[i] \in S
  BY EmptySeq, LenProperties
<1>2. Head(q) = q[1] /\ Tail(q) \in Seq(S) /\ Len(Tail(q)) = Len(q) - 1
      /\ \A i \in 1..Len(Tail(q)) : Tail(q)[i] = q[i + 1]
  BY HeadTailProperties
<1> QED BY <1>1, <1>2

\* The step a handler is at.
LEMMA AtFacts ==
  ASSUME WInv, NEW w \in Workers, todo[w] # <<>>
  PROVE  LET q == todo[w] IN
         /\ q \in Seq(StepRecords) /\ Len(q) \in Nat \ {0} /\ Head(q) = q[1]
         /\ q[1] \in StepRecords /\ q[1].c \in Clients /\ q[1].k \in Keys
         /\ q[1].op \in Asking \cup Handing \cup {"answer"}
         /\ q[1].e \in Requests \cup Nat /\ Worker[q[1].c] = w /\ Fits(q[1])
         /\ Tail(q) \in Seq(StepRecords) /\ Len(Tail(q)) = Len(q) - 1
         /\ \A i \in 1..(Len(q) - 1) : Tail(q)[i] = q[i + 1]
         /\ \A i \in 1..Len(q) : q[i] \in StepRecords
<1> DEFINE q == todo[w]
<1>1. q \in Seq(StepRecords) /\ Handles(w)
  BY DEF WInv, Shape
<1>2. /\ Len(q) \in Nat \ {0} /\ Head(q) = q[1] /\ q[1] \in StepRecords
      /\ Tail(q) \in Seq(StepRecords) /\ Len(Tail(q)) = Len(q) - 1
      /\ \A i \in 1..(Len(q) - 1) : Tail(q)[i] = q[i + 1]
      /\ \A i \in 1..Len(q) : q[i] \in StepRecords
  BY <1>1, TailFacts
<1>3. Fits(q[1]) /\ Worker[q[1].c] = w
  BY <1>1, <1>2 DEF Handles
<1>4. /\ q[1].c \in Clients /\ q[1].k \in Keys /\ q[1].e \in Requests \cup Nat
      /\ q[1].op \in Asking \cup Handing \cup {"answer"}
  BY <1>2 DEF StepRecords
<1> QED BY <1>1, <1>2, <1>3, <1>4

LEMMA ChainTail ==
  ASSUME NEW q \in Seq(StepRecords), NEW t \in Seq(StepRecords), Chained(q),
         Len(q) \in Nat \ {0}, Len(t) = Len(q) - 1, \A i \in 1..(Len(q) - 1) : t[i] = q[i + 1]
  PROVE  /\ Chained(t)
         /\ \A i \in 1..Len(t) : t[i].c = q[1].c /\ Leads(q[1].op, t[i].op)
         /\ \A i \in 1..Len(t) : i + 1 \in 1..Len(q) /\ t[i] = q[i + 1]
<1>2. /\ \A i \in 1..Len(q) : q[i].c = q[1].c
      /\ \A i, j \in 1..Len(q) : i < j => Leads(q[i].op, q[j].op)
      /\ q[1].op = "try" => \E i \in 1..Len(q) : q[i].op = "block"
  BY EmptySeq DEF Chained
<1>3. \A i \in 1..Len(t) : i + 1 \in 1..Len(q) /\ t[i] = q[i + 1]
  OBVIOUS
<1>4. \A i \in 1..Len(t) : t[i].c = q[1].c /\ Leads(q[1].op, t[i].op)
  BY <1>2, <1>3
<1>5. t # <<>> => 1 \in 1..Len(t)
  BY EmptySeq
<1>6. Chained(t)
  <2>1. \A i \in 1..Len(t) : t[i].c = t[1].c
    BY <1>4
  <2>2. ASSUME NEW i \in 1..Len(t), NEW j \in 1..Len(t), i < j PROVE Leads(t[i].op, t[j].op)
    <3>1. i + 1 \in 1..Len(q) /\ j + 1 \in 1..Len(q) /\ i + 1 < j + 1
      BY <1>3, <2>2
    <3> QED BY <1>2, <1>3, <2>2, <3>1
  <2>3. ASSUME t # <<>>, t[1].op = "try" PROVE \E i \in 1..Len(t) : t[i].op = "block"
    <3>1. q[1].op = "try"
      BY <1>4, <1>5, <2>3 DEF Leads, Asking
    <3>2. PICK i \in 1..Len(q) : q[i].op = "block"
      BY <1>2, <3>1
    <3>3. i - 1 \in 1..Len(t) /\ t[i - 1] = q[i]
      BY <3>1, <3>2
    <3> QED BY <3>2, <3>3
  <2> QED BY <2>1, <2>2, <2>3 DEF Chained
<1> QED BY <1>3, <1>4, <1>6

\* A handler that goes on to its next step.
Runs(w) ==
  /\ Chained(todo[w])
  /\ \A i \in 1..Len(todo[w]) : Fits(todo[w][i]) /\ Worker[todo[w][i].c] = w

LEMMA GoesOn ==
  ASSUME WInv, NEW w \in Workers, todo[w] # <<>>, todo'[w] = Tail(todo[w]),
         pushed' = pushed, conn' = conn
  PROVE  /\ Runs(w)'
         /\ ~At(w, "push")' /\ ~At(w, "wake")' /\ ~At(w, "popped")' /\ ~At(w, "answer")'
         /\ At(w, "register")' => /\ todo[w][1].op \in Asking
                                  /\ todo'[w][1].c = todo[w][1].c
         /\ At(w, "try")' \/ At(w, "block")' => todo[w][1].op = "try"
<1>1. PICK q, t : q = todo[w] /\ t = Tail(q)
  OBVIOUS
<1>2. /\ q \in Seq(StepRecords) /\ Len(q) \in Nat \ {0} /\ Head(q) = q[1]
      /\ t \in Seq(StepRecords) /\ Len(t) = Len(q) - 1
      /\ \A i \in 1..(Len(q) - 1) : t[i] = q[i + 1]
  BY <1>1, AtFacts
<1>3. Chained(q) /\ \A i \in 1..Len(q) : Fits(q[i]) /\ Worker[q[i].c] = w
  BY <1>1 DEF WInv, Handles
<1>4. /\ Chained(t)
      /\ \A i \in 1..Len(t) : t[i].c = q[1].c /\ Leads(q[1].op, t[i].op)
      /\ \A i \in 1..Len(t) : i + 1 \in 1..Len(q) /\ t[i] = q[i + 1]
  BY <1>2, <1>3, ChainTail
<1>5. todo'[w] = t
  BY <1>1
<1>6. \A x : Fits(x) => Fits(x)'
  BY DEF Fits
<1>7. Runs(w)'
  BY <1>3, <1>4, <1>5, <1>6 DEF Runs
<1>8. t # <<>> => 1 \in 1..Len(t) /\ Head(t) = t[1]
  BY <1>2, EmptySeq, TailFacts
<1>9. t # <<>> => Leads(q[1].op, t[1].op) /\ t[1].c = q[1].c
  BY <1>4, <1>8
<1> QED BY <1>1, <1>5, <1>7, <1>8, <1>9 DEF Leads, Asking, At

\* The handlers of the other workers.
LEMMA HandlerKept ==
  ASSUME WInv, NEW v \in Workers, todo'[v] = todo[v], pushed \in Nat, pushed' \in Nat,
         pushed <= pushed',
         \A c \in Clients : Worker[c] = v => block'[c] = block[c] /\ conn'[c] = conn[c]
  PROVE  Handles(v)'
<1>1. PICK q : q = todo[v]
  OBVIOUS
<1>2. todo'[v] = q /\ q \in Seq(StepRecords)
  BY <1>1 DEF WInv, Shape
<1>3. /\ Chained(q) /\ \A i \in 1..Len(q) : Fits(q[i]) /\ Worker[q[i].c] = v
      /\ \A i \in 1..Len(q) : q[i].c \in Clients
  <2>1. \A i \in 1..Len(q) : q[i] \in StepRecords
    BY <1>2, LenProperties
  <2>2. Chained(q) /\ \A i \in 1..Len(q) : Fits(q[i]) /\ Worker[q[i].c] = v
    BY <1>1 DEF WInv, Handles
  <2> QED BY <2>1, <2>2 DEF StepRecords
<1>4. \A x : Fits(x) /\ x.c \in Clients /\ Worker[x.c] = v => Fits(x)'
  BY DEF Fits
<1>5. Runs(v)'
  BY <1>2, <1>3, <1>4 DEF Runs
<1>6. q # <<>> => /\ Head(q) = q[1] /\ q[1].c \in Clients
                  /\ block'[q[1].c] = block[q[1].c] /\ conn'[q[1].c] = conn[q[1].c]
  BY <1>1, AtFacts
<1>7. At(v, "register")' => IsBlocked(q[1].c)'
  <2>1. SUFFICES ASSUME At(v, "register")' PROVE IsBlocked(q[1].c)'
    OBVIOUS
  <2>2. At(v, "register") /\ q # <<>>
    BY <1>1, <1>2, <2>1 DEF At
  <2>3. IsBlocked(q[1].c)
    BY <1>1, <2>2 DEF WInv, Handles
  <2> QED BY <1>1, <1>6, <2>2, <2>3 DEF IsBlocked
<1>8. At(v, "push")' => block'[q[1].c] # NULL /\ block'[q[1].c].push_key # NULL
  <2>1. SUFFICES ASSUME At(v, "push")' PROVE block'[q[1].c] # NULL /\ block'[q[1].c].push_key # NULL
    OBVIOUS
  <2>2. At(v, "push") /\ q # <<>>
    BY <1>1, <1>2, <2>1 DEF At
  <2>3. block[q[1].c] # NULL /\ block[q[1].c].push_key # NULL
    BY <1>1, <2>2 DEF WInv, Handles
  <2> QED BY <1>6, <2>2, <2>3
<1> QED BY <1>1, <1>2, <1>5, <1>7, <1>8 DEF Handles, Runs

LEMMA OthersHandle ==
  ASSUME WInv, NEW w \in Workers, NEW q, todo' = [todo EXCEPT ![w] = q], pushed' \in Nat,
         pushed <= pushed', conn' = conn,
         \A c \in Clients : Worker[c] # w => block'[c] = block[c]
  PROVE  \A v \in Workers \ {w} : Handles(v)' /\ todo'[v] = todo[v]
<1>1. pushed \in Nat /\ \A v \in Workers \ {w} : todo'[v] = todo[v]
  BY BlockListAssumption DEF WInv, Shape
<1> QED BY <1>1, HandlerKept

LEMMA ServesKept ==
  ASSUME WInv, NEW v \in Workers, unread'[v] \in {unread[v], Tail(unread[v])}, inbox'[v] = inbox[v],
         \A c \in Clients : Worker[c] = v => conn'[c] = conn[c], unread[v] = <<>> => unread'[v] = <<>>
  PROVE  Serves(v)'
<1>1. PICK u, u2 : u = unread[v] /\ u2 = unread'[v]
  OBVIOUS
<1>2. /\ u \in Seq(Clients \X Requests) /\ u2 \in {u, Tail(u)} /\ (u = <<>> => u2 = <<>>)
      /\ \A i \in 1..Len(u) : Worker[u[i][1]] = v /\ conn[u[i][1]] = "open"
      /\ \A i \in 1..Len(inbox[v]) : Worker[inbox[v][i][1]] = v
  BY <1>1 DEF WInv, Shape, Serves
<1>3. \A i \in 1..Len(u2) : \/ u2[i] = u[i] /\ i \in 1..Len(u)
                            \/ u2[i] = u[i + 1] /\ i + 1 \in 1..Len(u)
  <2>1. CASE u = <<>>
    BY <1>2, <2>1, EmptySeq
  <2>2. CASE u # <<>>
    <3>1. /\ Len(u) \in Nat \ {0} /\ Len(Tail(u)) = Len(u) - 1
          /\ \A i \in 1..(Len(u) - 1) : Tail(u)[i] = u[i + 1]
      <4> DEFINE S == Clients \X Requests
      <4>1. u \in Seq(S)
        BY <1>2
      <4> HIDE DEF S
      <4> QED BY <2>2, <4>1, TailFacts
    <3>2. CASE u2 = u
      BY <3>1, <3>2
    <3>3. CASE u2 = Tail(u)
      BY <3>1, <3>3
    <3> QED BY <1>2, <3>2, <3>3
  <2> QED BY <2>1, <2>2
<1>4. \A i \in 1..Len(u) : conn'[u[i][1]] = "open" /\ Worker[u[i][1]] = v
  <2>1. \A i \in 1..Len(u) : u[i][1] \in Clients
    BY <1>2
  <2> QED BY <1>2, <2>1
<1>5. \A i \in 1..Len(u2) : conn'[u2[i][1]] = "open" /\ Worker[u2[i][1]] = v
  BY <1>3, <1>4, SMTT(30)
<1> QED BY <1>1, <1>2, <1>5 DEF Serves

LEMMA WaitingKept ==
  ASSUME WInv, table' = table, block' = block, conn' = conn, attached' = attached
  PROVE  \A c \in Clients : Waiting(c)'
BY DEF WInv, Waiting, IsBlocked

LEMMA RequestFacts ==
  ASSUME NEW r \in Requests
  PROVE  /\ r.cmd \in {"lpush", "rpush", "blpop", "brpop", "brpoplpush"}
         /\ r.keys \in Seq(Keys) /\ Len(r.keys) \in Nat \ {0}
         /\ \A i \in 1..Len(r.keys) : r.keys[i] \in Keys
         /\ r.to \in Keys \cup {NULL, NotAList} /\ r.timed \in BOOLEAN
         /\ r.cmd = "brpoplpush" => r.to \in Keys \cup {NotAList}
<1>1. /\ r.cmd \in {"lpush", "rpush", "blpop", "brpop", "brpoplpush"}
      /\ r.keys \in Seq(Keys) /\ r.keys # <<>> /\ r.timed \in BOOLEAN
      /\ r.to \in Keys \cup {NULL, NotAList} /\ (r.cmd = "brpoplpush" => r.to # NULL)
  BY DEF Requests
<1> QED BY <1>1, TailFacts

LEMMA StepFacts ==
  ASSUME NEW op \in Asking \cup Handing \cup {"answer"}, NEW c \in Clients, NEW k \in Keys,
         NEW e \in Requests \cup Nat
  PROVE  /\ Step(op, c, k, e) \in StepRecords
         /\ Step(op, c, k, e).op = op /\ Step(op, c, k, e).c = c
         /\ Step(op, c, k, e).k = k /\ Step(op, c, k, e).e = e
BY DEF Step, StepRecords

\* What w's handler may do when it has done its step.
LEMMA Advances ==
  ASSUME WInv, NEW w \in Workers, todo[w] # <<>>, Continues(w), pushed' = pushed, conn' = conn,
         \A c \in Clients : Worker[c] # w => block'[c] = block[c],
         \A c \in Clients :
           c = todo[w][1].c /\ todo[w][1].op \in Asking /\ At(w, "register")' => IsBlocked(c)'
  PROVE  /\ todo' \in [Workers -> Seq(StepRecords)] /\ todo'[w] = Tail(todo[w])
         /\ \A v \in Workers : Handles(v)'
         /\ \A v \in Workers \ {w} : todo'[v] = todo[v]
<1>1. Tail(todo[w]) \in Seq(StepRecords)
  BY AtFacts
<1>2. /\ todo' = [todo EXCEPT ![w] = Tail(todo[w])] /\ todo' \in [Workers -> Seq(StepRecords)]
      /\ todo'[w] = Tail(todo[w]) /\ pushed \in Nat
  BY <1>1 DEF Continues, Does, WInv, Shape
<1>3. \A v \in Workers \ {w} : Handles(v)' /\ todo'[v] = todo[v]
  <2>1. pushed' \in Nat /\ pushed <= pushed'
    BY <1>2
  <2> QED BY <1>2, <2>1, OthersHandle
<1>4. Handles(w)'
  <2>1. /\ Runs(w)' /\ ~At(w, "push")'
        /\ At(w, "register")' => /\ todo[w][1].op \in Asking
                                 /\ todo'[w][1].c = todo[w][1].c
    BY <1>2, GoesOn
  <2>2. PICK c \in Clients : c = todo[w][1].c
    BY AtFacts
  <2>3. At(w, "register")' => IsBlocked(c)' /\ todo'[w][1].c = c
    BY <2>1, <2>2
  <2> QED BY <2>1, <2>3 DEF Handles, Runs, IsBlocked
<1> QED BY <1>2, <1>3, <1>4

\* A step that touches nothing of who waits.
LEMMA Elsewhere ==
  ASSUME WInv, UNCHANGED <<table, block, conn, attached, unread, inbox>>
  PROVE  (\A v \in Workers : Serves(v)') /\ (\A c \in Clients : Waiting(c)')
<1>1. \A v \in Workers : Serves(v)'
  BY DEF WInv, Serves
<1> QED BY <1>1, WaitingKept

LEMMA WriteWALWaits ==
  ASSUME WInv, NEW w \in Workers, WriteWAL(w)
  PROVE  WInv'
<1>1. /\ todo[w] # <<>> /\ Head(todo[w]).op = "pushed" /\ Continues(w)
      /\ wal' = [wal EXCEPT !.pushed = @ \cup {Head(todo[w]).e}]
      /\ UNCHANGED <<lists, table, block, attached, conn, timers, unread, inbox, owed, fate,
                     missed, pushed>>
  BY DEF WriteWAL, At, bounds
<1>2. Head(todo[w]) = todo[w][1] /\ Head(todo[w]).e \in 1..MaxElements
  BY <1>1, AtFacts DEF Fits, Handing
<1>3. todo' \in [Workers -> Seq(StepRecords)] /\ \A v \in Workers : Handles(v)'
  BY <1>1, <1>2, Advances DEF Asking
<1>4. Shape'
  <2>1. wal' \in [pushed : SUBSET Nat, popped : SUBSET Nat]
    <3> DEFINE e == Head(todo[w]).e
    <3>1. e \in Nat /\ wal \in [pushed : SUBSET Nat, popped : SUBSET Nat]
      BY <1>2 DEF WInv, Shape
    <3>2. wal' = [wal EXCEPT !.pushed = @ \cup {e}]
      BY <1>1
    <3> HIDE DEF e
    <3> QED BY <3>1, <3>2
  <2> QED BY <1>1, <1>3, <2>1 DEF WInv, Shape
<1> QED BY <1>1, <1>3, <1>4, Elsewhere DEF WInv

LEMMA DeliverWaits ==
  ASSUME WInv, NEW w \in Workers, Deliver(w)
  PROVE  WInv'
<1> DEFINE s == Head(todo[w])
<1>1. /\ todo[w] # <<>> /\ s.op \in {"popped", "unlogged"} /\ Continues(w)
      /\ wal' = IF s.op = "popped" THEN [wal EXCEPT !.popped = @ \cup {s.e}] ELSE wal
      /\ fate' = [fate EXCEPT ![s.e] = IF conn[s.c] = "open" THEN s.c ELSE "lost"]
      /\ owed' = [owed EXCEPT ![s.c] = IF conn[s.c] = "open" THEN @ - 1 ELSE @]
      /\ UNCHANGED <<lists, table, block, attached, conn, timers, unread, inbox, missed, pushed>>
  BY DEF Deliver, At, bounds, Replied
<1>2. s = todo[w][1] /\ s.op = "popped" /\ s.e \in 1..MaxElements /\ s.c \in Clients
  BY <1>1, AtFacts DEF Fits, Handing, Asking
<1>3. todo' \in [Workers -> Seq(StepRecords)] /\ \A v \in Workers : Handles(v)'
  BY <1>1, <1>2, Advances DEF Asking
<1> HIDE DEF s
<1>4. Shape'
  <2>1. wal' \in [pushed : SUBSET Nat, popped : SUBSET Nat]
    <3>1. s.e \in Nat /\ wal \in [pushed : SUBSET Nat, popped : SUBSET Nat]
      BY <1>2 DEF WInv, Shape
    <3> QED BY <1>1, <3>1
  <2>2. owed' \in [Clients -> Int]
    BY <1>1, <1>2 DEF WInv, Shape
  <2>3. fate' \in [1..MaxElements -> Clients \cup {NULL, "lost", "swallowed"}]
    BY <1>1, <1>2 DEF WInv, Shape
  <2> QED BY <1>1, <1>3, <2>1, <2>2, <2>3 DEF WInv, Shape
<1> QED BY <1>1, <1>3, <1>4, Elsewhere DEF WInv

LEMMA AnswerWaits ==
  ASSUME WInv, NEW w \in Workers, Answer(w)
  PROVE  WInv'
<1> DEFINE s == Head(todo[w])
<1>1. /\ todo[w] # <<>> /\ s.op = "answer" /\ Continues(w)
      /\ owed' = [owed EXCEPT ![s.c] = IF conn[s.c] = "open" THEN @ - 1 ELSE @]
      /\ UNCHANGED <<lists, table, block, attached, conn, timers, unread, inbox, wal, fate, missed,
                     pushed>>
  BY DEF Answer, At, bounds, Replied
<1>2. s = todo[w][1] /\ s.c \in Clients
  BY <1>1, AtFacts
<1>3. todo' \in [Workers -> Seq(StepRecords)] /\ \A v \in Workers : Handles(v)'
  BY <1>1, <1>2, Advances DEF Asking
<1> HIDE DEF s
<1>4. Shape'
  <2>1. owed' \in [Clients -> Int]
    BY <1>1, <1>2 DEF WInv, Shape
  <2> QED BY <1>1, <1>3, <2>1 DEF WInv, Shape
<1> QED BY <1>1, <1>3, <1>4, Elsewhere DEF WInv

\* The end of a wait.
LEMMA Cleared ==
  ASSUME WInv, NEW c \in Clients, ClearBlockKeys(c)
  PROVE  /\ table' \in [Keys -> SUBSET Clients] /\ block' \in [Clients -> Blocks \cup {NULL}]
         /\ missed' \in SUBSET (Clients \X Keys) /\ block'[c] = NULL
         /\ \A k \in Keys : table'[k] = table[k] \ {c}
         /\ \A d \in Clients \ {c} : block'[d] = block[d]
<1>1. /\ table \in [Keys -> SUBSET Clients] /\ block \in [Clients -> Blocks \cup {NULL}]
      /\ missed \in SUBSET (Clients \X Keys) /\ Waiting(c)
  BY DEF WInv, Shape
<1>2. /\ block' = [block EXCEPT ![c] = NULL] /\ missed' \subseteq missed
      /\ table' = [k \in Keys |->
                     IF block[c] # NULL /\ k \in block[c].keys THEN table[k] \ {c} ELSE table[k]]
  BY DEF ClearBlockKeys
<1>3. \A k \in Keys : table'[k] = table[k] \ {c}
  BY <1>1, <1>2 DEF Waiting
<1> QED BY <1>1, <1>2, <1>3

LEMMA WaitsEnd ==
  ASSUME WInv, NEW c \in Clients, ClearBlockKeys(c), conn'[c] # "open" \/ attached'[c],
         \A d \in Clients \ {c} : conn'[d] = conn[d] /\ attached'[d] = attached[d]
  PROVE  \A d \in Clients : Waiting(d)'
<1>1. /\ block'[c] = NULL /\ \A k \in Keys : table'[k] = table[k] \ {c}
      /\ \A d \in Clients \ {c} : block'[d] = block[d]
  BY Cleared
<1>2. Waiting(c)'
  BY <1>1 DEF Waiting, IsBlocked
<1>3. ASSUME NEW d \in Clients \ {c} PROVE Waiting(d)'
  <2>1. Waiting(d) /\ \A k \in Keys : d \in table'[k] <=> d \in table[k]
    BY <1>1 DEF WInv
  <2> QED BY <1>1, <2>1 DEF Waiting, IsBlocked
<1> QED BY <1>2, <1>3

LEMMA FewerTimers ==
  ASSUME WInv, NEW c, NEW T, timers' = Cancelled(c) \ T
  PROVE  timers' \in SUBSET (Clients \X (Nat \ {0})) /\ IsFiniteSet(timers')
<1>1. timers' \in SUBSET timers /\ IsFiniteSet(timers) /\ timers \in SUBSET (Clients \X (Nat \ {0}))
  BY DEF Cancelled, WInv, Shape
<1> QED BY <1>1, FS_Subset

LEMMA UnblockWaits ==
  ASSUME WInv, NEW w \in Workers, Unblock(w)
  PROVE  WInv'
<1> DEFINE c == Head(todo[w]).c
<1>1. /\ todo[w] # <<>> /\ Head(todo[w]).op = "clear" /\ Continues(w) /\ ClearBlockKeys(c)
      /\ attached' = [attached EXCEPT ![c] = TRUE] /\ timers' = Cancelled(c)
      /\ UNCHANGED <<lists, conn, unread, inbox, wal, owed, fate, pushed>>
  BY DEF Unblock, At, bounds
<1>2. Head(todo[w]) = todo[w][1] /\ c \in Clients /\ Worker[c] = w
  BY <1>1, AtFacts
<1>3. /\ table' \in [Keys -> SUBSET Clients] /\ block' \in [Clients -> Blocks \cup {NULL}]
      /\ missed' \in SUBSET (Clients \X Keys)
      /\ \A d \in Clients \ {c} : block'[d] = block[d]
  BY <1>1, <1>2, Cleared
<1>4. todo' \in [Workers -> Seq(StepRecords)] /\ \A v \in Workers : Handles(v)'
  BY <1>1, <1>2, <1>3, Advances DEF Asking
<1>5. timers' \in SUBSET (Clients \X (Nat \ {0})) /\ IsFiniteSet(timers')
  <2>1. timers' = Cancelled(c) \ {}
    BY <1>1
  <2> QED BY <2>1, FewerTimers
<1> HIDE DEF c
<1>6. Shape' /\ attached' \in [Clients -> BOOLEAN] /\ attached'[c]
  BY <1>1, <1>2, <1>3, <1>4, <1>5 DEF WInv, Shape
<1>7. \A v \in Workers : Serves(v)'
  BY <1>1 DEF WInv, Serves
<1>8. \A d \in Clients : Waiting(d)'
  <2>1. \A d \in Clients \ {c} : conn'[d] = conn[d] /\ attached'[d] = attached[d]
    BY <1>1 DEF WInv, Shape
  <2> QED BY <1>1, <1>2, <1>6, <2>1, WaitsEnd
<1> QED BY <1>4, <1>6, <1>7, <1>8 DEF WInv

LEMMA ContextFacts ==
  ASSUME WInv, NEW c \in Clients
  PROVE  /\ GetBlockContext(c) \in Blocks /\ GetBlockContext(c) # NULL
         /\ GetBlockContext(c).keys = IF block[c] = NULL THEN {} ELSE block[c].keys
<1>1. NewBlock \in Blocks /\ NewBlock.keys = {}
  BY DEF NewBlock, Blocks
<1>2. block[c] \in Blocks \cup {NULL} /\ NULL \notin Blocks
  BY BlockListAssumption DEF WInv, Shape
<1> QED BY <1>1, <1>2 DEF GetBlockContext

\* A registration.
LEMMA Registered ==
  ASSUME WInv, NEW s, s.c \in Clients, s.k \in Keys, NEW b \in Blocks, Registers(s, b),
         b.keys = GetBlockContext(s.c).keys, conn[s.c] = "open", conn' = conn,
         attached' = attached \/ attached' = [attached EXCEPT ![s.c] = FALSE]
  PROVE  /\ table' \in [Keys -> SUBSET Clients] /\ block' \in [Clients -> Blocks \cup {NULL}]
         /\ missed' \in SUBSET (Clients \X Keys)
         /\ block'[s.c] = [b EXCEPT !.keys = @ \cup {s.k}] /\ IsBlocked(s.c)'
         /\ \A k \in Keys : table'[k] = IF k = s.k THEN table[k] \cup {s.c} ELSE table[k]
         /\ \A d \in Clients \ {s.c} : block'[d] = block[d]
         /\ \A d \in Clients : Waiting(d)'
<1> DEFINE c == s.c
           k == s.k
           n == [b EXCEPT !.keys = @ \cup {k}]
<1>1. /\ table \in [Keys -> SUBSET Clients] /\ block \in [Clients -> Blocks \cup {NULL}]
      /\ missed \in SUBSET (Clients \X Keys) /\ attached \in [Clients -> BOOLEAN]
      /\ \A d \in Clients : Waiting(d)
  BY DEF WInv, Shape
<1>2. /\ block' = [block EXCEPT ![c] = n] /\ table' = [table EXCEPT ![k] = @ \cup {c}]
      /\ missed' \in {missed, missed \cup {<<c, k>>}}
  BY DEF Registers
<1>3. n \in Blocks /\ n.keys = b.keys \cup {k} /\ n # NULL
  BY BlockListAssumption DEF Blocks
<1> HIDE DEF n
<1>4. /\ block' \in [Clients -> Blocks \cup {NULL}] /\ block'[c] = n
      /\ \A d \in Clients \ {c} : block'[d] = block[d]
  BY <1>1, <1>2, <1>3
<1>5. /\ table' \in [Keys -> SUBSET Clients]
      /\ \A j \in Keys : table'[j] = IF j = k THEN table[j] \cup {c} ELSE table[j]
  BY <1>1, <1>2, ZenonT(40)
<1>6. IsBlocked(c)'
  BY <1>3, <1>4 DEF IsBlocked
<1>7. ASSUME NEW d \in Clients PROVE Waiting(d)'
  <2>1. CASE d = c
    <3>1. \A j \in Keys : j \in b.keys <=> c \in table[j]
      BY <1>1, ContextFacts DEF Waiting
    <3>2. \A j \in Keys : c \in table'[j] <=> j \in n.keys
      BY <1>3, <1>5, <3>1
    <3> QED BY <1>3, <1>4, <1>6, <2>1, <3>2 DEF Waiting
  <2>2. CASE d # c
    <3>1. /\ Waiting(d) /\ block'[d] = block[d] /\ attached'[d] = attached[d]
          /\ \A j \in Keys : d \in table'[j] <=> d \in table[j]
      BY <1>1, <1>4, <1>5, <2>2
    <3> QED BY <3>1 DEF Waiting, IsBlocked
  <2> QED BY <2>1, <2>2
<1>8. missed' \in SUBSET (Clients \X Keys)
  BY <1>1, <1>2
<1>9. block'[s.c] = [b EXCEPT !.keys = @ \cup {s.k}]
  BY <1>4 DEF n
<1>10. /\ block' \in [Clients -> Blocks \cup {NULL}] /\ IsBlocked(s.c)'
       /\ \A d \in Clients \ {s.c} : block'[d] = block[d]
  BY <1>4, <1>6
<1>11. \A j \in Keys : table'[j] = IF j = s.k THEN table[j] \cup {s.c} ELSE table[j]
  BY <1>5
<1>12. table' \in [Keys -> SUBSET Clients]
  BY <1>5
<1> HIDE DEF c, k
<1> QED BY <1>7, <1>8, <1>9, <1>10, <1>11, <1>12

LEMMA AddBlockKeyWaits ==
  ASSUME WInv, NEW w \in Workers, AddBlockKey(w)
  PROVE  WInv'
<1>0. PICK s, b : s = Head(todo[w]) /\ b = GetBlockContext(s.c)
  OBVIOUS
<1>1. /\ todo[w] # <<>> /\ s.op = "register" /\ Continues(w) /\ Registers(s, b)
      /\ UNCHANGED <<lists, attached, conn, timers, unread, inbox, wal, owed, fate, pushed>>
  BY <1>0 DEF AddBlockKey, At, bounds
<1>2. s = todo[w][1] /\ s.c \in Clients /\ s.k \in Keys /\ Worker[s.c] = w /\ conn[s.c] = "open"
  BY <1>0, <1>1, AtFacts DEF Fits, Asking
<1>3. /\ table' \in [Keys -> SUBSET Clients] /\ block' \in [Clients -> Blocks \cup {NULL}]
      /\ missed' \in SUBSET (Clients \X Keys) /\ IsBlocked(s.c)'
      /\ \A d \in Clients \ {s.c} : block'[d] = block[d]
      /\ \A d \in Clients : Waiting(d)'
  <2>1. b \in Blocks /\ b.keys = GetBlockContext(s.c).keys
    BY <1>0, <1>2, ContextFacts
  <2> QED BY <1>1, <1>2, <2>1, Registered
<1>4. todo' \in [Workers -> Seq(StepRecords)] /\ \A v \in Workers : Handles(v)'
  BY <1>1, <1>2, <1>3, Advances DEF Asking, IsBlocked
<1>5. Shape'
  BY <1>1, <1>3, <1>4 DEF WInv, Shape
<1>6. \A v \in Workers : Serves(v)'
  BY <1>1 DEF WInv, Serves
<1> QED BY <1>3, <1>4, <1>5, <1>6 DEF WInv

LEMMA IdsFinite ==
  ASSUME IsFiniteSet(timers), NEW c
  PROVE  IsFiniteSet(Ids(c))
<1> DEFINE T == {u \in timers : u[1] = c}
           f == [t \in T |-> t[2]]
<1>1. IsFiniteSet(T)
  BY FS_Subset
<1>2. f \in Surjection(T, Ids(c))
  BY DEF Surjection, Ids
<1> QED BY <1>1, <1>2, FS_Surjection

\* An identifier that no timer of the client has.
NewId(c) == CHOOSE i \in 1..(Cardinality(Ids(c)) + 1) : i \notin Ids(c)

LEMMA NewIdFacts ==
  ASSUME IsFiniteSet(timers), NEW c
  PROVE  NewId(c) \in Nat \ {0} /\ NewId(c) \notin Ids(c)
<1> DEFINE n == Cardinality(Ids(c))
<1>1. IsFiniteSet(Ids(c)) /\ n \in Nat
  BY IdsFinite, FS_CardinalityType
<1>2. ~(1..(n + 1) \subseteq Ids(c))
  <2> SUFFICES ASSUME 1..(n + 1) \subseteq Ids(c) PROVE FALSE
    OBVIOUS
  <2>1. Cardinality(1..(n + 1)) <= n
    BY <1>1, FS_Subset
  <2>2. Cardinality(1..(n + 1)) = n + 1
    <3> HIDE DEF n
    <3>1. 1 \in Int /\ n + 1 \in Int /\ ~(1 > n + 1) /\ (n + 1) - 1 + 1 = n + 1
      BY <1>1
    <3> QED BY <3>1, FS_Interval
  <2> HIDE DEF n
  <2> QED BY <1>1, <2>1, <2>2
<1> HIDE DEF n
<1>3. \E i \in 1..(n + 1) : i \notin Ids(c)
  BY <1>2
<1>4. NewId(c) \in 1..(n + 1) /\ NewId(c) \notin Ids(c)
  BY <1>3 DEF NewId, n
<1> QED BY <1>1, <1>4

LEMMA BlockWaits ==
  ASSUME WInv, NEW w \in Workers, Block(w)
  PROVE  WInv'
<1>0. PICK s, id, b :
        /\ s = Head(todo[w]) /\ id = NewId(s.c)
        /\ b = [GetBlockContext(s.c) EXCEPT !.lpop = (s.e.cmd = "blpop"),
                  !.push_key = IF s.e.cmd = "brpoplpush" THEN s.e.to ELSE @,
                  !.timer = IF s.e.timed THEN id ELSE @]
  OBVIOUS
<1>1. /\ todo[w] # <<>> /\ s.op = "block" /\ Continues(w) /\ Registers(s, b)
      /\ attached' = [attached EXCEPT ![s.c] = FALSE]
      /\ timers' = timers \cup (IF s.e.timed THEN {<<s.c, id>>} ELSE {})
      /\ UNCHANGED <<lists, conn, unread, inbox, wal, owed, fate, pushed>>
  <2>1. /\ At(w, "block") /\ Continues(w) /\ attached' = [attached EXCEPT ![s.c] = FALSE]
        /\ timers' = timers \cup (IF s.e.timed THEN {<<s.c, id>>} ELSE {})
        /\ UNCHANGED <<lists, conn, unread, inbox, wal, owed, fate, bounds>>
    BY <1>0, Zenon DEF Block, NewId, Ids
  <2>2. Registers(s, b)
    BY <1>0, Zenon DEF Block, NewId, Ids
  <2> QED BY <1>0, <2>1, <2>2 DEF At, bounds
<1>2. /\ s = todo[w][1] /\ s.c \in Clients /\ s.k \in Keys /\ Worker[s.c] = w /\ conn[s.c] = "open"
      /\ s.e \in Requests
  <2>1. s = Head(todo[w]) /\ todo[w] # <<>>
    BY <1>0, <1>1
  <2>2. s = todo[w][1] /\ s.c \in Clients /\ s.k \in Keys /\ Worker[s.c] = w /\ Fits(s)
    BY <2>1, AtFacts
  <2> QED BY <1>1, <2>2 DEF Fits, Asking
<1>3. id \in Nat \ {0}
  BY <1>0, NewIdFacts DEF WInv, Shape
<1>4. b \in Blocks /\ b.keys = GetBlockContext(s.c).keys
  <2>1. GetBlockContext(s.c) \in Blocks
    BY <1>2, ContextFacts
  <2>2. s.e.cmd = "brpoplpush" => s.e.to \in Keys \cup {NotAList}
    BY <1>2, RequestFacts
  <2> QED BY <1>0, <1>3, <2>1, <2>2 DEF Blocks
<1>5. /\ table' \in [Keys -> SUBSET Clients] /\ block' \in [Clients -> Blocks \cup {NULL}]
      /\ missed' \in SUBSET (Clients \X Keys) /\ IsBlocked(s.c)'
      /\ \A d \in Clients \ {s.c} : block'[d] = block[d]
      /\ \A d \in Clients : Waiting(d)'
  BY <1>1, <1>2, <1>4, Registered
<1>6. todo' \in [Workers -> Seq(StepRecords)] /\ \A v \in Workers : Handles(v)'
  BY <1>1, <1>2, <1>5, Advances DEF Asking, IsBlocked
<1>7. Shape'
  <2>1. timers' \in SUBSET (Clients \X (Nat \ {0})) /\ IsFiniteSet(timers')
    <3>1. timers \in SUBSET (Clients \X (Nat \ {0})) /\ IsFiniteSet(timers)
      BY DEF WInv, Shape
    <3>2. timers' = timers \/ timers' = timers \cup {<<s.c, id>>}
      BY <1>1
    <3>3. <<s.c, id>> \in Clients \X (Nat \ {0})
      BY <1>2, <1>3
    <3>4. IsFiniteSet(timers \cup {<<s.c, id>>})
      BY <3>1, FS_AddElement
    <3> QED BY <3>1, <3>2, <3>3, <3>4
  <2>2. attached' \in [Clients -> BOOLEAN]
    BY <1>1 DEF WInv, Shape
  <2> QED BY <1>1, <1>5, <1>6, <2>1, <2>2 DEF WInv, Shape
<1>8. \A v \in Workers : Serves(v)'
  BY <1>1 DEF WInv, Serves
<1> QED BY <1>5, <1>6, <1>7, <1>8 DEF WInv

\* What w's handler may do when it sets out to do q.
LEMMA SetsOut ==
  ASSUME WInv, NEW w \in Workers, NEW q \in Seq(StepRecords), Does(w, q), pushed' \in Nat,
         pushed <= pushed', conn' = conn, Chained(q),
         \A c \in Clients : Worker[c] # w => block'[c] = block[c],
         \A i \in 1..Len(q) : Fits(q[i])' /\ Worker[q[i].c] = w,
         q # <<>> => q[1].op # "register",
         \A c \in Clients :
           q # <<>> /\ q[1].op = "push" /\ c = q[1].c
             => block'[c] # NULL /\ block'[c].push_key # NULL
  PROVE  /\ todo' \in [Workers -> Seq(StepRecords)] /\ todo'[w] = q
         /\ \A v \in Workers : Handles(v)'
         /\ \A v \in Workers \ {w} : todo'[v] = todo[v]
<1>1. /\ todo' = [todo EXCEPT ![w] = q] /\ todo' \in [Workers -> Seq(StepRecords)]
      /\ todo'[w] = q
  BY DEF Does, WInv, Shape
<1>2. \A v \in Workers \ {w} : Handles(v)' /\ todo'[v] = todo[v]
  BY <1>1, OthersHandle
<1>3. q # <<>> => q[1] \in StepRecords /\ Head(q) = q[1]
  BY TailFacts
<1>4. Handles(w)'
  <2>1. Runs(w)'
    BY <1>1 DEF Runs
  <2>2. ~At(w, "register")'
    BY <1>1, <1>3 DEF At
  <2>3. At(w, "push")' => block'[q[1].c] # NULL /\ block'[q[1].c].push_key # NULL
    BY <1>1, <1>3 DEF At, StepRecords
  <2> QED BY <1>1, <2>1, <2>2, <2>3 DEF Handles, Runs
<1> QED BY <1>1, <1>2, <1>4

LEMMA OneStep ==
  ASSUME NEW a \in StepRecords, a.op # "try"
  PROVE  <<a>> \in Seq(StepRecords) /\ Len(<<a>>) = 1 /\ <<a>>[1] = a /\ Chained(<<a>>)
BY DEF Chained

LEMMA TwoSteps ==
  ASSUME NEW a \in StepRecords, NEW b \in StepRecords, a.c = b.c, Leads(a.op, b.op), a.op # "try"
  PROVE  /\ <<a, b>> \in Seq(StepRecords) /\ Len(<<a, b>>) = 2
         /\ <<a, b>>[1] = a /\ <<a, b>>[2] = b /\ Chained(<<a, b>>)
<1>1. \A i \in 1..2 : i = 1 \/ i = 2
  OBVIOUS
<1> QED BY <1>1 DEF Chained

\* The wake-ups of a push.
LEMMA SequenceOf ==
  ASSUME NEW S, IsFiniteSet(S)
  PROVE  /\ SetToSeq(S) \in Seq(S)
         /\ \A x \in S : \E i \in 1..Len(SetToSeq(S)) : SetToSeq(S)[i] = x
<1> DEFINE n == Cardinality(S)
           f == SetToSeq(S)
<1>1. n \in Nat /\ ExistsBijection(1..n, S)
  BY FS_CardinalityType
<1>2. PICK g \in Bijection(1..n, S) : TRUE
  BY <1>1 DEF ExistsBijection
<1>3. g \in [1..n -> S] /\ IsInjective(g)
  BY <1>2 DEF Bijection, Injection, IsInjective
<1>4. f \in [1..n -> S] /\ IsInjective(f)
  BY <1>3 DEF SetToSeq
<1> HIDE DEF f
<1>5. f \in Injection(1..n, S)
  BY <1>4 DEF Injection, IsInjective
<1>6. IsFiniteSet(1..n) /\ Cardinality(1..n) = n
  <2> HIDE DEF n
  <2>1. 1 \in Int /\ n \in Int /\ (1 > n <=> n = 0) /\ n - 1 + 1 = n
    BY <1>1
  <2> QED BY <2>1, FS_Interval
<1>7. f \in Surjection(1..n, S)
  BY <1>5, <1>6, FS_Injection
<1>8. f \in Seq(S) /\ Len(f) = n
  BY <1>1, <1>4
<1>9. \A x \in S : \E i \in 1..n : f[i] = x
  BY <1>7 DEF Surjection
<1> QED BY <1>8, <1>9 DEF f

LEMMA WokenFacts ==
  ASSUME WInv, NEW v \in Workers, NEW k \in Keys
  PROVE  /\ Woken(v, k) \in Seq(Clients)
         /\ \A i \in 1..Len(Woken(v, k)) : Worker[Woken(v, k)[i]] = v
         /\ \A c \in table[k] : Worker[c] = v => \E i \in 1..Len(Woken(v, k)) : Woken(v, k)[i] = c
<1> DEFINE S == {c \in table[k] : Worker[c] = v}
<1>1. S \in SUBSET Clients /\ table[k] \subseteq Clients
  BY DEF WInv, Shape
<1>2. IsFiniteSet(S)
  BY <1>1, BlockListAssumption, FS_Subset
<1>3. Woken(v, k) = SetToSeq(S)
  BY DEF Woken
<1>4. SetToSeq(S) \in Seq(S) /\ \A x \in S : \E i \in 1..Len(SetToSeq(S)) : SetToSeq(S)[i] = x
  BY <1>2, SequenceOf
<1>5. \A i \in 1..Len(SetToSeq(S)) : SetToSeq(S)[i] \in S
  <2> HIDE DEF S
  <2> QED BY <1>4, LenProperties
<1>6. SetToSeq(S) \in Seq(Clients)
  <2>1. \A q \in Seq(S) : q \in Seq(Clients)
    BY <1>1
  <2> HIDE DEF S
  <2> QED BY <1>4, <2>1
<1> QED BY <1>1, <1>3, <1>4, <1>5, <1>6

Posts(v, k) ==
  \E b \in Seq(Clients \X Keys) :
    /\ inbox'[v] = inbox[v] \o b
    /\ \A i \in 1..Len(b) : Worker[b[i][1]] = v
    /\ \A c \in table[k] : Worker[c] = v => \E i \in 1..Len(b) : b[i] = <<c, k>>

LEMMA PostsFacts ==
  ASSUME WInv, NEW w \in Workers, WakeBlockingListsByKey(w), NEW k, k = Head(todo[w]).k
  PROVE  /\ inbox' = [u \in Workers |-> inbox'[u]] /\ \A v \in Workers : Posts(v, k)
<1>1. todo[w] # <<>> /\ Head(todo[w]) = todo[w][1] /\ k \in Keys
  BY AtFacts DEF WakeBlockingListsByKey, At
<1>2. inbox' = [u \in Workers |-> inbox[u] \o [i \in DOMAIN Woken(u, k) |-> <<Woken(u, k)[i], k>>]]
  BY <1>1 DEF WakeBlockingListsByKey
<1> SUFFICES ASSUME NEW v \in Workers PROVE Posts(v, k)
  BY <1>2
<1>3. PICK q : q = Woken(v, k)
  OBVIOUS
<1>4. /\ q \in Seq(Clients) /\ \A i \in 1..Len(q) : Worker[q[i]] = v
      /\ \A c \in table[k] : Worker[c] = v => \E i \in 1..Len(q) : q[i] = c
  BY <1>1, <1>3, WokenFacts
<1>5. PICK b : b = [i \in 1..Len(q) |-> <<q[i], k>>]
  OBVIOUS
<1>6. Len(q) \in Nat /\ DOMAIN q = 1..Len(q) /\ \A i \in 1..Len(q) : q[i] \in Clients
  BY <1>4, LenProperties
<1>7. b \in Seq(Clients \X Keys) /\ Len(b) = Len(q) /\ \A i \in 1..Len(q) : b[i] = <<q[i], k>>
  BY <1>1, <1>5, <1>6
<1>8. inbox'[v] = inbox[v] \o b
  BY <1>2, <1>3, <1>5, <1>6
<1>9. \A i \in 1..Len(b) : Worker[b[i][1]] = v
  BY <1>4, <1>7
<1>10. \A c \in table[k] : Worker[c] = v => \E i \in 1..Len(b) : b[i] = <<c, k>>
  BY <1>4, <1>7, SMTT(30)
<1> QED BY <1>7, <1>8, <1>9, <1>10 DEF Posts

LEMMA WakeBlockingListsByKeyWaits ==
  ASSUME WInv, NEW w \in Workers, WakeBlockingListsByKey(w)
  PROVE  WInv'
<1>1. /\ todo[w] # <<>> /\ Head(todo[w]).op = "wake" /\ Continues(w)
      /\ UNCHANGED <<lists, table, block, attached, conn, timers, unread, wal, owed, fate, missed,
                     pushed>>
  BY DEF WakeBlockingListsByKey, At, bounds
<1>2. Head(todo[w]) = todo[w][1]
  BY <1>1, AtFacts
<1>3. todo' \in [Workers -> Seq(StepRecords)] /\ \A v \in Workers : Handles(v)'
  BY <1>1, <1>2, Advances DEF Asking
<1>4. ASSUME NEW v \in Workers
      PROVE  inbox'[v] \in Seq(Clients \X Keys) /\ Serves(v)'
  <2>1. PICK b \in Seq(Clients \X Keys) :
          inbox'[v] = inbox[v] \o b /\ \A i \in 1..Len(b) : Worker[b[i][1]] = v
    <3>1. PICK k : k = Head(todo[w]).k
      OBVIOUS
    <3>2. Posts(v, k)
      BY <3>1, PostsFacts
    <3> QED BY <3>2 DEF Posts
  <2>2. PICK a : a = inbox[v]
    OBVIOUS
  <2>3. a \in Seq(Clients \X Keys) /\ \A i \in 1..Len(a) : Worker[a[i][1]] = v
    BY <2>2 DEF WInv, Shape, Serves
  <2>4. /\ a \o b \in Seq(Clients \X Keys)
        /\ \A i \in 1..Len(a \o b) : \/ i \in 1..Len(a) /\ (a \o b)[i] = a[i]
                                     \/ i - Len(a) \in 1..Len(b) /\ (a \o b)[i] = b[i - Len(a)]
    <3> DEFINE S == Clients \X Keys
    <3>1. a \in Seq(S) /\ b \in Seq(S)
      BY <2>1, <2>3
    <3> HIDE DEF S
    <3>2. /\ a \o b \in Seq(S) /\ Len(a \o b) = Len(a) + Len(b) /\ Len(a) \in Nat /\ Len(b) \in Nat
          /\ \A i \in 1..(Len(a) + Len(b)) : (a \o b)[i] = IF i <= Len(a) THEN a[i] ELSE b[i - Len(a)]
      BY <3>1, ConcatProperties, LenProperties
    <3> QED BY <3>2 DEF S
  <2>5. \A i \in 1..Len(a \o b) : Worker[(a \o b)[i][1]] = v
    BY <2>1, <2>3, <2>4
  <2>6. \A i \in 1..Len(unread'[v]) : Worker[unread'[v][i][1]] = v /\ conn'[unread'[v][i][1]] = "open"
    BY <1>1 DEF WInv, Serves
  <2> QED BY <2>1, <2>2, <2>4, <2>5, <2>6 DEF Serves
<1>5. inbox' \in [Workers -> Seq(Clients \X Keys)]
  <2>1. inbox' = [u \in Workers |-> inbox'[u]]
    BY PostsFacts
  <2> QED BY <1>4, <2>1
<1>6. Shape'
  BY <1>1, <1>3, <1>5 DEF WInv, Shape
<1>7. \A c \in Clients : Waiting(c)'
  BY <1>1, WaitingKept
<1> QED BY <1>3, <1>4, <1>6, <1>7 DEF WInv

LEMMA RepushedFacts ==
  ASSUME WInv, NEW b \in Blocks, b.push_key # NULL, NEW k \in Keys, NEW v \in 1..MaxElements
  PROVE  LET j == IF b.push_key = NotAList THEN k ELSE b.push_key IN
         /\ j \in Keys /\ Repushed(b, k, v) \in [Keys -> Seq(1..MaxElements)]
         /\ Repushed(b, k, v)[j] \in {<<v>> \o lists[j], Append(lists[j], v)}
         /\ \A i \in Keys \ {j} : Repushed(b, k, v)[i] = lists[i]
<1> DEFINE j == IF b.push_key = NotAList THEN k ELSE b.push_key
<1>1. lists \in [Keys -> Seq(1..MaxElements)] /\ j \in Keys
  BY DEF WInv, Shape, Blocks
<1>2. <<v>> \o lists[j] \in Seq(1..MaxElements) /\ Append(lists[j], v) \in Seq(1..MaxElements)
  <2>1. <<v>> \in Seq(1..MaxElements) /\ lists[j] \in Seq(1..MaxElements)
    BY <1>1
  <2> HIDE DEF j
  <2> QED BY <2>1, ConcatProperties, AppendProperties
<1>3. \E x \in {<<v>> \o lists[j], Append(lists[j], v)} : Repushed(b, k, v) = [lists EXCEPT ![j] = x]
  BY DEF Repushed
<1> HIDE DEF j
<1>4. PICK x \in {<<v>> \o lists[j], Append(lists[j], v)} :
        Repushed(b, k, v) = [lists EXCEPT ![j] = x]
  BY <1>3
<1>5. /\ Repushed(b, k, v) \in [Keys -> Seq(1..MaxElements)] /\ Repushed(b, k, v)[j] = x
      /\ \A i \in Keys \ {j} : Repushed(b, k, v)[i] = lists[i]
  BY <1>1, <1>2, <1>4
<1> QED BY <1>1, <1>4, <1>5 DEF j

LEMMA Prepended ==
  ASSUME NEW a \in StepRecords, NEW t \in Seq(StepRecords), Chained(t), a.op # "try",
         \A i \in 1..Len(t) : t[i].c = a.c /\ Leads(a.op, t[i].op),
         NEW q, q = <<a>> \o t
  PROVE  /\ q \in Seq(StepRecords) /\ Len(q) = Len(t) + 1 /\ Len(t) \in Nat
         /\ q[1] = a /\ \A i \in 1..Len(t) : q[i + 1] = t[i]
         /\ Chained(q)
<1>2. /\ q \in Seq(StepRecords) /\ Len(q) = Len(t) + 1 /\ Len(t) \in Nat /\ q[1] = a
      /\ \A i \in 1..Len(q) : i = 1 \/ (i - 1 \in 1..Len(t) /\ q[i] = t[i - 1])
  <2>1. <<a>> \in Seq(StepRecords) /\ Len(<<a>>) = 1 /\ <<a>>[1] = a /\ Len(t) \in Nat
    BY LenProperties
  <2>2. /\ q \in Seq(StepRecords) /\ Len(q) = Len(<<a>>) + Len(t)
        /\ \A i \in 1..(Len(<<a>>) + Len(t)) :
             q[i] = IF i <= Len(<<a>>) THEN <<a>>[i] ELSE t[i - Len(<<a>>)]
    BY <2>1, ConcatProperties
  <2> QED BY <2>1, <2>2
<1>3. \A i \in 1..Len(t) : q[i + 1] = t[i]
  BY <1>2
<1>4. \A i \in 1..Len(q) : q[i].c = q[1].c
  BY <1>2
<1>5. ASSUME NEW i \in 1..Len(q), NEW j \in 1..Len(q), i < j PROVE Leads(q[i].op, q[j].op)
  <2>1. j - 1 \in 1..Len(t) /\ q[j] = t[j - 1]
    BY <1>2, <1>5
  <2>2. CASE i = 1
    BY <1>2, <2>1, <2>2
  <2>3. CASE i # 1
    <3>1. i - 1 \in 1..Len(t) /\ q[i] = t[i - 1] /\ i - 1 < j - 1
      BY <1>2, <1>5, <2>3
    <3> QED BY <2>1, <3>1 DEF Chained
  <2> QED BY <2>2, <2>3
<1>6. Chained(q)
  BY <1>2, <1>4, <1>5 DEF Chained
<1> QED BY <1>2, <1>3, <1>6

LEMMA PassesBy ==
  ASSUME WInv, NEW k, PassedBy(k)
  PROVE  missed' \in SUBSET (Clients \X Keys)
BY DEF PassedBy, WInv, Shape

LEMMA PushToWaits ==
  ASSUME WInv, NEW w \in Workers, PushTo(w)
  PROVE  WInv'
<1>0. PICK s, b : s = Head(todo[w]) /\ b = block[s.c]
  OBVIOUS
<1>1. /\ todo[w] # <<>> /\ s.op = "push" /\ lists' = Repushed(b, s.k, s.e)
      /\ Does(w, <<Step("answer", s.c, s.k, s.e)>> \o Tail(todo[w]))
      /\ UNCHANGED <<table, block, attached, conn, timers, unread, inbox, wal, owed, fate, pushed>>
      /\ missed' \in SUBSET (Clients \X Keys)
  BY <1>0, PassesBy DEF PushTo, At, bounds
<1>2. /\ s = todo[w][1] /\ s.c \in Clients /\ s.k \in Keys /\ Worker[s.c] = w /\ s.e \in 1..MaxElements
      /\ s \in StepRecords
  BY <1>0, <1>1, AtFacts DEF Fits, Asking, Handing
<1>3. b \in Blocks /\ b.push_key # NULL
  BY <1>0, <1>1, <1>2 DEF WInv, Shape, Handles, At
<1>4. PICK q, t, a : q = todo[w] /\ t = Tail(q) /\ a = Step("answer", s.c, s.k, s.e)
  OBVIOUS
<1>5. /\ q \in Seq(StepRecords) /\ Len(q) \in Nat \ {0} /\ t \in Seq(StepRecords)
      /\ Len(t) = Len(q) - 1 /\ \A i \in 1..(Len(q) - 1) : t[i] = q[i + 1]
  BY <1>1, <1>4, AtFacts
<1>6. Chained(q) /\ \A i \in 1..Len(q) : Fits(q[i]) /\ Worker[q[i].c] = w
  BY <1>4 DEF WInv, Handles
<1>7. /\ Chained(t)
      /\ \A i \in 1..Len(t) : t[i].c = q[1].c /\ Leads(q[1].op, t[i].op)
      /\ \A i \in 1..Len(t) : i + 1 \in 1..Len(q) /\ t[i] = q[i + 1]
  BY <1>5, <1>6, ChainTail
<1>8. /\ a \in StepRecords /\ a.op = "answer" /\ a.c = s.c
      /\ \A i \in 1..Len(t) : t[i].c = a.c /\ Leads(a.op, t[i].op)
  <2>1. s.e \in Nat
    BY <1>2 DEF WInv, Shape
  <2>2. a \in StepRecords /\ a.op = "answer" /\ a.c = s.c
    BY <1>2, <1>4, <2>1 DEF Step, StepRecords
  <2> QED BY <1>1, <1>2, <1>4, <1>7, <2>2 DEF Leads, Asking
<1>9. PICK p : p = <<a>> \o t
  OBVIOUS
<1>10. /\ p \in Seq(StepRecords) /\ Len(p) = Len(t) + 1 /\ Len(t) \in Nat /\ p[1] = a /\ Chained(p)
       /\ \A i \in 1..Len(t) : p[i + 1] = t[i]
  <2>1. a.op # "try" /\ t \in Seq(StepRecords)
    BY <1>5, <1>8
  <2>2. a \in StepRecords /\ Chained(t)
    BY <1>7, <1>8
  <2>3. \A i \in 1..Len(t) : t[i].c = a.c /\ Leads(a.op, t[i].op)
    BY <1>8
  <2>4. Chained(p)
    BY ONLY <2>1, <2>2, <2>3, <1>9, Prepended
  <2>5. p \in Seq(StepRecords) /\ Len(p) = Len(t) + 1 /\ Len(t) \in Nat /\ p[1] = a
    BY ONLY <2>1, <2>2, <2>3, <1>9, Prepended
  <2>6. \A i \in 1..Len(t) : p[i + 1] = t[i]
    BY ONLY <2>1, <2>2, <2>3, <1>9, Prepended
  <2> QED BY <2>4, <2>5, <2>6
<1>11. \A i \in 1..Len(p) : Fits(p[i]) /\ Worker[p[i].c] = w
  <2>1. Fits(a)
    BY <1>8 DEF Fits, Asking, Handing
  <2>2. \A i \in 1..Len(p) : i = 1 \/ (i - 1 \in 1..Len(t) /\ p[i] = t[i - 1])
    BY <1>10
  <2> QED BY <1>2, <1>6, <1>7, <1>8, <1>10, <2>1, <2>2, ZenonT(40)
<1>12. \A x : Fits(x) => Fits(x)'
  BY <1>1 DEF Fits
<1>13. todo' \in [Workers -> Seq(StepRecords)] /\ \A v \in Workers : Handles(v)'
  <2>1. Does(w, p) /\ pushed' \in Nat /\ pushed <= pushed'
    BY <1>1, <1>4, <1>9 DEF WInv, Shape
  <2>2. \A i \in 1..Len(p) : Fits(p[i])' /\ Worker[p[i].c] = w
    BY <1>11, <1>12
  <2> QED BY <1>1, <1>8, <1>10, <2>1, <2>2, SetsOut
<1>14. Shape'
  <2>1. s.e \in 1..MaxElements
    BY <1>2, BlockListAssumption DEF WInv, Shape
  <2>2. lists' \in [Keys -> Seq(1..MaxElements)]
    BY <1>1, <1>2, <1>3, <2>1, RepushedFacts
  <2> QED BY <1>1, <1>13, <2>2 DEF WInv, Shape
<1> QED BY <1>1, <1>13, <1>14, Elsewhere DEF WInv

\* The steps of a blocking command.
LEMMA Ordered ==
  ASSUME NEW q \in Seq(StepRecords), NEW n \in Nat \ {0}, NEW m \in Nat, Len(q) = n + 1 + m,
         NEW c, \A i \in 1..Len(q) : /\ q[i].c = c
                                     /\ q[i].op = IF i <= n THEN "try"
                                                  ELSE IF i = n + 1 THEN "block" ELSE "register"
  PROVE  Chained(q) /\ q[1].op = "try" /\ q # <<>>
<1>1. 1 \in 1..Len(q) /\ n + 1 \in 1..Len(q) /\ q # <<>> /\ 1 <= n
  BY EmptySeq
<1>2. \A i \in 1..Len(q) : q[i].c = q[1].c
  BY <1>1
<1>3. ASSUME NEW i \in 1..Len(q), NEW j \in 1..Len(q), i < j PROVE Leads(q[i].op, q[j].op)
  <2>1. CASE i <= n
    <3>1. q[i].op = "try" /\ q[j].op \in Asking
      BY <2>1 DEF Asking
    <3> QED BY <3>1 DEF Leads
  <2>2. CASE i > n
    <3>1. q[i].op \in {"block", "register"} /\ q[j].op = "register"
      BY <1>3, <2>2
    <3> QED BY <3>1 DEF Leads
  <2> QED BY <2>1, <2>2
<1>4. q[n + 1].op = "block" /\ q[1].op = "try"
  BY <1>1
<1> QED BY <1>1, <1>2, <1>3, <1>4 DEF Chained

LEMMA BlockingFacts ==
  ASSUME NEW c \in Clients, NEW r \in Requests, r.cmd \in {"blpop", "brpop", "brpoplpush"},
         NEW q, q = Blocking(c, r)
  PROVE  /\ q \in Seq(StepRecords) /\ Chained(q) /\ q # <<>> /\ q[1].op = "try"
         /\ \A i \in 1..Len(q) : q[i].c = c /\ q[i].e = r /\ q[i].op \in Asking
<1> DEFINE n == Len(r.keys)
<1>1. /\ r.keys \in Seq(Keys) /\ n \in Nat \ {0} /\ \A i \in 1..n : r.keys[i] \in Keys
      /\ r.keys # <<>>
  BY RequestFacts, EmptySeq
<1>2. ASSUME NEW op \in Asking, NEW k \in Keys
      PROVE  /\ Step(op, c, k, r) \in StepRecords /\ Step(op, c, k, r).op = op
             /\ Step(op, c, k, r).c = c /\ Step(op, c, k, r).e = r
  BY DEF Step, StepRecords
<1>3. r.keys[1] \in Keys
  BY <1>1
<1>4. CASE r.cmd = "brpoplpush"
  <2>1. PICK a, b : a = Step("try", c, r.keys[1], r) /\ b = Step("block", c, r.keys[1], r)
    OBVIOUS
  <2>2. /\ a \in StepRecords /\ a.op = "try" /\ a.c = c /\ a.e = r
        /\ b \in StepRecords /\ b.op = "block" /\ b.c = c /\ b.e = r
    BY <1>2, <1>3, <2>1 DEF Asking
  <2>3. q = <<a, b>>
    BY <1>4, <2>1 DEF Blocking
  <2>4. /\ q \in Seq(StepRecords) /\ Len(q) = 1 + 1 + 0 /\ q[1] = a /\ q[2] = b
        /\ \A i \in 1..Len(q) : i = 1 \/ i = 2
    BY <2>2, <2>3
  <2>5. Chained(q) /\ q[1].op = "try" /\ q # <<>>
    <3>1. PICK x \in Nat \ {0}, y \in Nat : x = 1 /\ y = 0
      OBVIOUS
    <3>2. \A i \in 1..Len(q) : /\ q[i].c = c
                               /\ q[i].op = IF i <= x THEN "try"
                                            ELSE IF i = x + 1 THEN "block" ELSE "register"
      BY <2>2, <2>4, <3>1
    <3>3. q \in Seq(StepRecords) /\ Len(q) = x + 1 + y
      BY <2>4, <3>1
    <3> QED BY ONLY <3>2, <3>3, x \in Nat \ {0}, y \in Nat, Ordered, ZenonT(40)
  <2> QED BY <2>2, <2>4, <2>5 DEF Asking
<1>5. CASE r.cmd # "brpoplpush"
  <2>1. PICK A, B, C, t : /\ A = [i \in 1..n |-> Step("try", c, r.keys[i], r)]
                          /\ B = Step("block", c, r.keys[1], r) /\ t = Tail(r.keys)
                          /\ C = [i \in 1..(n - 1) |-> Step("register", c, r.keys[i + 1], r)]
    OBVIOUS
  <2>2. /\ A \in Seq(StepRecords) /\ Len(A) = n
        /\ \A i \in 1..n : A[i].op = "try" /\ A[i].c = c /\ A[i].e = r
    <3>1. \A i \in 1..n : /\ Step("try", c, r.keys[i], r) \in StepRecords
                          /\ Step("try", c, r.keys[i], r).op = "try"
                          /\ Step("try", c, r.keys[i], r).c = c
                          /\ Step("try", c, r.keys[i], r).e = r
      BY <1>1, <1>2 DEF Asking
    <3> HIDE DEF n
    <3> QED BY <1>1, <2>1, <3>1
  <2>3. /\ C \in Seq(StepRecords) /\ Len(C) = n - 1
        /\ \A i \in 1..(n - 1) : C[i].op = "register" /\ C[i].c = c /\ C[i].e = r
    <3>1. \A i \in 1..(n - 1) : /\ Step("register", c, r.keys[i + 1], r) \in StepRecords
                                /\ Step("register", c, r.keys[i + 1], r).op = "register"
                                /\ Step("register", c, r.keys[i + 1], r).c = c
                                /\ Step("register", c, r.keys[i + 1], r).e = r
      BY <1>1, <1>2 DEF Asking
    <3>2. n - 1 \in Nat
      BY <1>1
    <3> HIDE DEF n
    <3> QED BY <2>1, <3>1, <3>2
  <2>4. B \in StepRecords /\ B.op = "block" /\ B.c = c /\ B.e = r
    BY <1>2, <1>3, <2>1 DEF Asking
  <2>5. q = A \o <<B>> \o C
    <3>1. DOMAIN r.keys = 1..n /\ DOMAIN t = 1..(n - 1)
      BY <1>1, <2>1, TailFacts
    <3> QED BY <1>5, <2>1, <3>1 DEF Blocking
  <2>6. PICK D : D = A \o <<B>>
    OBVIOUS
  <2>7. /\ D \in Seq(StepRecords) /\ Len(D) = n + 1
        /\ \A i \in 1..(n + 1) : D[i] = IF i <= n THEN A[i] ELSE B
    <3>1. <<B>> \in Seq(StepRecords) /\ Len(<<B>>) = 1 /\ <<B>>[1] = B
      BY <2>4
    <3>2. /\ D \in Seq(StepRecords) /\ Len(D) = Len(A) + Len(<<B>>)
          /\ \A i \in 1..(Len(A) + Len(<<B>>)) : D[i] = IF i <= Len(A) THEN A[i] ELSE <<B>>[i - Len(A)]
      BY <2>2, <2>6, <3>1, ConcatProperties
    <3> HIDE DEF n
    <3> QED BY <1>1, <2>2, <3>1, <3>2
  <2>8. /\ q \in Seq(StepRecords) /\ Len(q) = n + 1 + (n - 1)
        /\ \A i \in 1..Len(q) : q[i] = IF i <= n + 1 THEN D[i] ELSE C[i - (n + 1)]
    <3>1. /\ q \in Seq(StepRecords) /\ Len(q) = Len(D) + Len(C)
          /\ \A i \in 1..(Len(D) + Len(C)) : q[i] = IF i <= Len(D) THEN D[i] ELSE C[i - Len(D)]
      <4>1. q = D \o C
        BY <2>5, <2>6
      <4>2. D \in Seq(StepRecords) /\ C \in Seq(StepRecords)
        BY <2>3, <2>7
      <4>3. /\ D \o C \in Seq(StepRecords) /\ Len(D \o C) = Len(D) + Len(C)
            /\ \A i \in 1..(Len(D) + Len(C)) :
                 (D \o C)[i] = IF i <= Len(D) THEN D[i] ELSE C[i - Len(D)]
        BY ONLY <4>2, ConcatProperties
      <4> QED BY ONLY <4>1, <4>3
    <3> HIDE DEF n
    <3> QED BY <1>1, <2>3, <2>7, <3>1
  <2> HIDE DEF n
  <2>9. \A i \in 1..Len(q) : /\ q[i].c = c /\ q[i].e = r
                             /\ q[i].op = IF i <= n THEN "try"
                                          ELSE IF i = n + 1 THEN "block" ELSE "register"
    <3> SUFFICES ASSUME NEW i \in 1..Len(q)
                 PROVE  /\ q[i].c = c /\ q[i].e = r
                        /\ q[i].op = IF i <= n THEN "try"
                                     ELSE IF i = n + 1 THEN "block" ELSE "register"
      OBVIOUS
    <3>1. CASE i <= n
      BY <1>1, <2>2, <2>7, <2>8, <3>1
    <3>2. CASE i = n + 1
      BY <1>1, <2>4, <2>7, <2>8, <3>2
    <3>3. CASE i > n + 1
      <4>1. i - (n + 1) \in 1..(n - 1) /\ q[i] = C[i - (n + 1)]
        BY <1>1, <2>8, <3>3
      <4> QED BY <1>1, <2>3, <3>3, <4>1
    <3> QED BY <1>1, <3>1, <3>2, <3>3
  <2>10. Chained(q) /\ q[1].op = "try" /\ q # <<>>
    <3>1. PICK y \in Nat : y = n - 1
      BY <1>1
    <3>2. q \in Seq(StepRecords) /\ n \in Nat \ {0} /\ Len(q) = n + 1 + y
      BY <1>1, <2>8, <3>1
    <3>3. \A i \in 1..Len(q) : /\ q[i].c = c
                               /\ q[i].op = IF i <= n THEN "try"
                                            ELSE IF i = n + 1 THEN "block" ELSE "register"
      BY <2>9
    <3> QED BY ONLY <3>2, <3>3, y \in Nat, Ordered, ZenonT(40)
  <2>11. \A i \in 1..Len(q) : q[i].op \in Asking
    BY <2>9 DEF Asking
  <2> QED BY <2>8, <2>9, <2>10, <2>11
<1> QED BY <1>4, <1>5

\* The command that a read holds next.
LEMMA ReadFacts ==
  ASSUME WInv, NEW w \in Workers, unread[w] # <<>>
  PROVE  /\ Head(unread[w])[1] \in Clients /\ Head(unread[w])[2] \in Requests
         /\ Worker[Head(unread[w])[1]] = w /\ conn[Head(unread[w])[1]] = "open"
         /\ Tail(unread[w]) \in Seq(Clients \X Requests)
<1> DEFINE S == Clients \X Requests
<1>1. PICK u : u = unread[w]
  OBVIOUS
<1>2. u \in Seq(S) /\ u # <<>>
  BY <1>1 DEF WInv, Shape
<1> HIDE DEF S
<1>3. Len(u) \in Nat \ {0} /\ Head(u) = u[1] /\ u[1] \in S /\ Tail(u) \in Seq(S)
  BY <1>2, TailFacts
<1>4. Worker[u[1][1]] = w /\ conn[u[1][1]] = "open"
  BY <1>1, <1>3 DEF WInv, Serves
<1> QED BY <1>1, <1>3, <1>4 DEF S

LEMMA PushFacts ==
  ASSUME WInv, NEW w \in Workers, NEW c \in Clients, Worker[c] = w, NEW r \in Requests,
         Push(c, r), conn' = conn, block' = block
  PROVE  /\ lists' \in [Keys -> Seq(1..MaxElements)] /\ pushed' \in 0..MaxElements
         /\ pushed' = pushed + 1 /\ owed' = owed /\ pushed \in Nat
         /\ lists'[r.keys[1]] \in {<<pushed + 1>> \o lists[r.keys[1]],
                                    Append(lists[r.keys[1]], pushed + 1)}
         /\ \A k \in Keys \ {r.keys[1]} : lists'[k] = lists[k]
         /\ r.keys[1] \in Keys
         /\ todo' \in [Workers -> Seq(StepRecords)]
         /\ todo'[w] = <<Step("wake", c, r.keys[1], pushed + 1),
                         Step("pushed", c, r.keys[1], pushed + 1)>>
         /\ \A v \in Workers : Handles(v)'
         /\ \A v \in Workers \ {w} : todo'[v] = todo[v]
<1>1. PICK k, e : k = r.keys[1] /\ e = pushed + 1
  OBVIOUS
<1>2. /\ pushed < MaxElements /\ pushed' = e /\ owed' = owed
      /\ lists' = [lists EXCEPT ![k] = IF r.cmd = "lpush" THEN <<e>> \o @ ELSE Append(@, e)]
      /\ Does(w, <<Step("wake", c, k, e), Step("pushed", c, k, e)>>)
  BY <1>1 DEF Push
<1>3. k \in Keys
  BY <1>1, RequestFacts
<1>4. /\ pushed \in Nat /\ MaxElements \in Nat /\ e \in 1..MaxElements /\ e \in Nat
      /\ lists \in [Keys -> Seq(1..MaxElements)]
  BY <1>1, <1>2, BlockListAssumption DEF WInv, Shape
<1>5. <<e>> \o lists[k] \in Seq(1..MaxElements) /\ Append(lists[k], e) \in Seq(1..MaxElements)
  <2>1. <<e>> \in Seq(1..MaxElements) /\ lists[k] \in Seq(1..MaxElements)
    BY <1>3, <1>4
  <2> QED BY <1>4, <2>1, ConcatProperties, AppendProperties
<1>6. PICK x \in {<<e>> \o lists[k], Append(lists[k], e)} : lists' = [lists EXCEPT ![k] = x]
  BY <1>2
<1>7. /\ lists' \in [Keys -> Seq(1..MaxElements)] /\ lists'[k] = x
      /\ \A j \in Keys \ {k} : lists'[j] = lists[j]
  BY <1>3, <1>4, <1>5, <1>6
<1>8. PICK a, b : a = Step("wake", c, k, e) /\ b = Step("pushed", c, k, e)
  OBVIOUS
<1>9. /\ a \in StepRecords /\ a.op = "wake" /\ a.c = c /\ a.e = e
      /\ b \in StepRecords /\ b.op = "pushed" /\ b.c = c /\ b.e = e
  BY <1>3, <1>4, <1>8 DEF Step, StepRecords, Handing
<1>10. PICK q : q = <<a, b>>
  OBVIOUS
<1>11. /\ q \in Seq(StepRecords) /\ Len(q) = 2 /\ q[1] = a /\ q[2] = b /\ Chained(q)
  <2>1. a.c = b.c /\ Leads(a.op, b.op) /\ a.op # "try"
    BY <1>9 DEF Leads
  <2> QED BY <1>9, <1>10, <2>1, TwoSteps
<1>12. \A i \in 1..Len(q) : Fits(q[i])' /\ Worker[q[i].c] = w
  <2>1. \A i \in 1..Len(q) : i = 1 \/ i = 2
    BY <1>11
  <2>2. e \in 1..MaxElements
    BY <1>2, <1>4
  <2>3. Fits(a)' /\ Fits(b)'
    BY <1>9, <2>2 DEF Fits, Asking
  <2> QED BY <1>9, <1>11, <2>1, <2>3
<1>13. /\ todo' \in [Workers -> Seq(StepRecords)] /\ todo'[w] = q
       /\ \A v \in Workers : Handles(v)'
       /\ \A v \in Workers \ {w} : todo'[v] = todo[v]
  <2>1. Does(w, q) /\ pushed' \in Nat /\ pushed <= pushed'
    BY <1>1, <1>2, <1>4, <1>8, <1>10
  <2> QED BY <1>9, <1>11, <1>12, <2>1, SetsOut
<1>14. pushed' \in 0..MaxElements
  BY <1>2, <1>4
<1> QED BY <1>1, <1>2, <1>3, <1>4, <1>6, <1>7, <1>8, <1>10, <1>13, <1>14

LEMMA AskFacts ==
  ASSUME WInv, NEW w \in Workers, NEW c \in Clients, Worker[c] = w, conn[c] = "open",
         NEW r \in Requests, r.cmd \in {"blpop", "brpop", "brpoplpush"},
         Does(w, Blocking(c, r)), conn' = conn, block' = block, pushed' = pushed
  PROVE  /\ todo' \in [Workers -> Seq(StepRecords)] /\ todo'[w] = Blocking(c, r)
         /\ \A v \in Workers : Handles(v)'
         /\ \A v \in Workers \ {w} : todo'[v] = todo[v]
<1>1. PICK q : q = Blocking(c, r)
  OBVIOUS
<1>2. /\ q \in Seq(StepRecords) /\ Chained(q) /\ q # <<>> /\ q[1].op = "try"
      /\ \A i \in 1..Len(q) : q[i].c = c /\ q[i].e = r /\ q[i].op \in Asking
  BY <1>1, BlockingFacts
<1>3. \A i \in 1..Len(q) : Fits(q[i])' /\ Worker[q[i].c] = w
  BY <1>2 DEF Fits, Asking, Handing
<1>4. Does(w, q) /\ pushed' \in Nat /\ pushed <= pushed'
  BY <1>1 DEF WInv, Shape
<1>5. /\ todo' \in [Workers -> Seq(StepRecords)] /\ todo'[w] = q
      /\ \A v \in Workers : Handles(v)'
      /\ \A v \in Workers \ {w} : todo'[v] = todo[v]
  BY <1>2, <1>3, <1>4, SetsOut
<1> QED BY <1>1, <1>5

LEMMA CallWaits ==
  ASSUME WInv, NEW w \in Workers, Call(w)
  PROVE  WInv'
<1>0. PICK c, r : c = Head(unread[w])[1] /\ r = Head(unread[w])[2]
  OBVIOUS
<1>1. /\ todo[w] = <<>> /\ unread[w] # <<>> /\ unread' = [unread EXCEPT ![w] = Tail(@)]
      /\ UNCHANGED <<table, block, attached, conn, timers, inbox, wal, fate, missed>>
      /\ \/ Push(c, r)
         \/ UNCHANGED <<lists, todo, owed, pushed>>
         \/ /\ r.cmd \in {"blpop", "brpop", "brpoplpush"} /\ Does(w, Blocking(c, r))
            /\ owed' = [owed EXCEPT ![c] = @ + 1] /\ UNCHANGED <<lists, pushed>>
  BY <1>0 DEF Call
<1>2. /\ c \in Clients /\ r \in Requests /\ Worker[c] = w /\ conn[c] = "open"
      /\ Tail(unread[w]) \in Seq(Clients \X Requests)
  BY <1>0, <1>1, ReadFacts
<1>3. /\ lists' \in [Keys -> Seq(1..MaxElements)] /\ pushed' \in 0..MaxElements
      /\ owed' \in [Clients -> Int] /\ todo' \in [Workers -> Seq(StepRecords)]
      /\ \A v \in Workers : Handles(v)'
  <2>0. /\ lists \in [Keys -> Seq(1..MaxElements)] /\ pushed \in 0..MaxElements
        /\ owed \in [Clients -> Int] /\ todo \in [Workers -> Seq(StepRecords)] /\ pushed \in Nat
    BY BlockListAssumption DEF WInv, Shape
  <2>1. CASE Push(c, r)
    BY <1>1, <1>2, <2>0, <2>1, PushFacts
  <2>2. CASE UNCHANGED <<lists, todo, owed, pushed>>
    <3>1. \A v \in Workers : Handles(v)'
      BY <1>1, <2>0, <2>2, HandlerKept
    <3> QED BY <2>0, <2>2, <3>1
  <2>3. CASE /\ r.cmd \in {"blpop", "brpop", "brpoplpush"} /\ Does(w, Blocking(c, r))
             /\ owed' = [owed EXCEPT ![c] = @ + 1] /\ UNCHANGED <<lists, pushed>>
    <3>1. todo' \in [Workers -> Seq(StepRecords)] /\ \A v \in Workers : Handles(v)'
      BY <1>1, <1>2, <2>3, AskFacts
    <3> QED BY <1>2, <2>0, <2>3, <3>1
  <2> QED BY <1>1, <2>1, <2>2, <2>3
<1>4. Shape'
  <2>1. unread' \in [Workers -> Seq(Clients \X Requests)]
    BY <1>1, <1>2 DEF WInv, Shape
  <2> QED BY <1>1, <1>3, <2>1 DEF WInv, Shape
<1>5. \A v \in Workers : Serves(v)'
  <2> SUFFICES ASSUME NEW v \in Workers PROVE Serves(v)'
    OBVIOUS
  <2>1. unread \in [Workers -> Seq(Clients \X Requests)]
    BY DEF WInv, Shape
  <2>2. unread'[v] \in {unread[v], Tail(unread[v])} /\ (unread[v] = <<>> => unread'[v] = <<>>)
    BY <1>1, <2>1
  <2> QED BY <1>1, <2>2, ServesKept
<1>6. \A d \in Clients : Waiting(d)'
  BY <1>1, WaitingKept
<1> QED BY <1>3, <1>4, <1>5, <1>6 DEF WInv

\* The pops of a list.
LEMMA PopFacts ==
  ASSUME NEW S, NEW l \in Seq(S), l # <<>>, NEW b \in BOOLEAN
  PROVE  /\ Popped(l, b) \in S /\ Left(l, b) \in Seq(S)
         /\ Len(Left(l, b)) = Len(l) - 1 /\ Len(l) \in Nat \ {0}
         /\ Popped(l, b) = l[IF b THEN 1 ELSE Len(l)]
         /\ \A i \in 1..(Len(l) - 1) : Left(l, b)[i] = l[IF b THEN i + 1 ELSE i]
<1>1. /\ Len(l) \in Nat \ {0} /\ Head(l) = l[1] /\ l[1] \in S
      /\ Tail(l) \in Seq(S) /\ Len(Tail(l)) = Len(l) - 1
      /\ \A i \in 1..(Len(l) - 1) : Tail(l)[i] = l[i + 1]
      /\ \A i \in 1..Len(l) : l[i] \in S
  BY TailFacts
<1>2. Last(l) = l[Len(l)] /\ l[Len(l)] \in S
  BY <1>1 DEF Last
<1>3. /\ Front(l) \in Seq(S) /\ Len(Front(l)) = Len(l) - 1
      /\ \A i \in 1..(Len(l) - 1) : Front(l)[i] = l[i]
  <2>1. Front(l) = [i \in 1..(Len(l) - 1) |-> l[i]]
    BY <1>1 DEF Front
  <2>2. Len(l) - 1 \in Nat
    BY <1>1
  <2> QED BY <1>1, <2>1, <2>2
<1> QED BY <1>1, <1>2, <1>3 DEF Popped, Left

\* A search goes on to another key, or to the block.
LEMMA TryNext ==
  ASSUME WInv, NEW w \in Workers, todo[w] # <<>>, todo[w][1].op = "try",
         todo'[w] = Tail(todo[w])
  PROVE  ~At(w, "register")'
<1>1. PICK q, t : q = todo[w] /\ t = Tail(q)
  OBVIOUS
<1>2. /\ Len(q) \in Nat \ {0} /\ t \in Seq(StepRecords) /\ Len(t) = Len(q) - 1
      /\ \A i \in 1..(Len(q) - 1) : t[i] = q[i + 1]
  BY <1>1, AtFacts
<1>3. /\ \A i, j \in 1..Len(q) : i < j => Leads(q[i].op, q[j].op)
      /\ \E i \in 1..Len(q) : q[i].op = "block"
  BY <1>1 DEF WInv, Handles, Chained
<1>4. PICK i \in 1..Len(q) : q[i].op = "block"
  BY <1>3
<1>5. i # 1 /\ 1 \in 1..(Len(q) - 1) /\ t[1] = q[2] /\ 2 \in 1..Len(q)
  BY <1>1, <1>2, <1>4
<1>6. q[2].op # "register"
  <2>1. CASE i = 2
    BY <1>4, <2>1
  <2>2. CASE i # 2
    <3>1. Leads(q[2].op, "block")
      BY <1>3, <1>4, <1>5, <2>2
    <3> QED BY <3>1 DEF Leads, Asking
  <2> QED BY <2>1, <2>2
<1>7. t # <<>> /\ Head(t) = t[1]
  BY <1>2, <1>5, EmptySeq, TailFacts
<1> QED BY <1>1, <1>5, <1>6, <1>7 DEF At

LEMMA TryOn ==
  ASSUME WInv, NEW w \in Workers, todo[w] # <<>>, todo[w][1].op = "try", Continues(w),
         pushed' = pushed, conn' = conn, block' = block
  PROVE  todo' \in [Workers -> Seq(StepRecords)] /\ \A v \in Workers : Handles(v)'
<1>1. todo'[w] = Tail(todo[w])
  BY DEF Continues, Does, WInv, Shape
<1>2. ~At(w, "register")'
  BY <1>1, TryNext
<1> QED BY <1>2, Advances

\* A handler that finds an element has one step left.
LEMMA Found ==
  ASSUME WInv, NEW w \in Workers, NEW a \in StepRecords, a.op \in {"answer", "popped"},
         a.op = "popped" => a.e \in 1..MaxElements, Worker[a.c] = w, Does(w, <<a>>),
         pushed' = pushed, conn' = conn, block' = block
  PROVE  /\ todo' \in [Workers -> Seq(StepRecords)] /\ todo'[w] = <<a>>
         /\ \A v \in Workers : Handles(v)'
         /\ \A v \in Workers \ {w} : todo'[v] = todo[v]
<1>1. PICK q : q = <<a>>
  OBVIOUS
<1>2. q \in Seq(StepRecords) /\ Len(q) = 1 /\ q[1] = a /\ Chained(q) /\ Does(w, q)
  BY <1>1, OneStep
<1>3. Fits(a)'
  BY DEF Fits, Asking, Handing
<1>4. \A i \in 1..Len(q) : Fits(q[i])' /\ Worker[q[i].c] = w
  BY <1>2, <1>3
<1>5. pushed' \in Nat /\ pushed <= pushed'
  BY DEF WInv, Shape
<1> QED BY <1>1, <1>2, <1>4, <1>5, SetsOut

\* RPopLPush between two lists, which may be one.
LEMMA MovedFacts ==
  ASSUME WInv, NEW k \in Keys, lists[k] # <<>>, NEW j \in Keys,
         NEW l, l = [[lists EXCEPT ![k] = Left(@, FALSE)]
                        EXCEPT ![j] = <<Popped(lists[k], FALSE)>> \o @]
  PROVE  l \in [Keys -> Seq(1..MaxElements)]
<1>1. lists \in [Keys -> Seq(1..MaxElements)]
  BY DEF WInv, Shape
<1>2. Popped(lists[k], FALSE) \in 1..MaxElements /\ Left(lists[k], FALSE) \in Seq(1..MaxElements)
  BY <1>1, PopFacts
<1>3. PICK m : m = [lists EXCEPT ![k] = Left(@, FALSE)]
  OBVIOUS
<1>4. m \in [Keys -> Seq(1..MaxElements)]
  BY <1>1, <1>2, <1>3
<1>5. <<Popped(lists[k], FALSE)>> \o m[j] \in Seq(1..MaxElements)
  <2>1. PICK x \in 1..MaxElements : x = Popped(lists[k], FALSE)
    BY <1>2
  <2>2. <<x>> \in Seq(1..MaxElements) /\ m[j] \in Seq(1..MaxElements)
    BY <1>4
  <2>3. <<x>> \o m[j] \in Seq(1..MaxElements)
    BY ONLY <2>2, ConcatProperties
  <2> QED BY <2>1, <2>3
<1> QED BY <1>3, <1>4, <1>5

LEMMA TryWaits ==
  ASSUME WInv, NEW w \in Workers, Try(w)
  PROVE  WInv'
<1>0. PICK s : s = Head(todo[w])
  OBVIOUS
<1> DEFINE lpop == s.e.cmd = "blpop"
           v == Popped(lists[s.k], lpop)
           rest == [lists EXCEPT ![s.k] = Left(@, lpop)]
<1>1. /\ todo[w] # <<>> /\ s.op = "try"
      /\ UNCHANGED <<table, block, attached, conn, timers, unread, inbox, wal, owed, pushed>>
      /\ \/ Continues(w) /\ UNCHANGED <<lists, fate, missed>>
         \/ /\ lists[s.k] # <<>> /\ s.e.cmd = "brpoplpush"
            /\ lists' = IF s.e.to = NotAList THEN lists ELSE [rest EXCEPT ![s.e.to] = <<v>> \o @]
            /\ PassedBy(s.e.to) /\ Does(w, <<Step("answer", s.c, s.k, s.e)>>) /\ UNCHANGED fate
         \/ /\ lists[s.k] # <<>> /\ lists' = rest /\ fate' = [fate EXCEPT ![v] = "swallowed"]
            /\ Continues(w) /\ UNCHANGED missed
         \/ /\ lists[s.k] # <<>> /\ lists' = rest /\ Does(w, <<Step("popped", s.c, s.k, v)>>)
            /\ UNCHANGED <<fate, missed>>
  BY <1>0 DEF Try, At, bounds
<1>2. /\ s = todo[w][1] /\ s.c \in Clients /\ s.k \in Keys /\ Worker[s.c] = w /\ conn[s.c] = "open"
      /\ s.e \in Requests
  <2>1. s = todo[w][1] /\ s.c \in Clients /\ s.k \in Keys /\ Worker[s.c] = w /\ Fits(s)
    BY <1>0, <1>1, AtFacts, ZenonT(40)
  <2> QED BY <1>1, <2>1 DEF Fits, Asking
<1>3. /\ lists \in [Keys -> Seq(1..MaxElements)] /\ missed \in SUBSET (Clients \X Keys)
      /\ fate \in [1..MaxElements -> Clients \cup {NULL, "lost", "swallowed"}]
  BY DEF WInv, Shape
<1>4. lpop \in BOOLEAN /\ (s.e.cmd = "brpoplpush" => s.e.to \in Keys \cup {NotAList} /\ lpop = FALSE)
  BY <1>2, RequestFacts
<1>5. lists[s.k] # <<>> => v \in 1..MaxElements /\ rest \in [Keys -> Seq(1..MaxElements)]
  <2>1. SUFFICES ASSUME lists[s.k] # <<>>
                 PROVE  v \in 1..MaxElements /\ rest \in [Keys -> Seq(1..MaxElements)]
    OBVIOUS
  <2>2. v \in 1..MaxElements /\ Left(lists[s.k], lpop) \in Seq(1..MaxElements)
    BY <1>2, <1>3, <1>4, <2>1, PopFacts
  <2> QED BY <1>2, <1>3, <2>2
<1>6. /\ lists' \in [Keys -> Seq(1..MaxElements)] /\ missed' \in SUBSET (Clients \X Keys)
      /\ fate' \in [1..MaxElements -> Clients \cup {NULL, "lost", "swallowed"}]
      /\ todo' \in [Workers -> Seq(StepRecords)] /\ \A u \in Workers : Handles(u)'
  <2>1. CASE Continues(w) /\ UNCHANGED <<lists, fate, missed>>
    BY <1>1, <1>2, <1>3, <2>1, TryOn
  <2>2. CASE /\ lists[s.k] # <<>> /\ s.e.cmd = "brpoplpush"
             /\ lists' = IF s.e.to = NotAList THEN lists ELSE [rest EXCEPT ![s.e.to] = <<v>> \o @]
             /\ PassedBy(s.e.to) /\ Does(w, <<Step("answer", s.c, s.k, s.e)>>) /\ UNCHANGED fate
    <3>1. lists' \in [Keys -> Seq(1..MaxElements)]
      <4>1. CASE s.e.to = NotAList
        BY <1>3, <2>2, <4>1
      <4>2. CASE s.e.to # NotAList
        <5>1. s.e.to \in Keys /\ lpop = FALSE
          BY <1>4, <2>2, <4>2
        <5>2. lists' = [[lists EXCEPT ![s.k] = Left(@, FALSE)]
                           EXCEPT ![s.e.to] = <<Popped(lists[s.k], FALSE)>> \o @]
          BY <2>2, <4>2, <5>1
        <5> QED BY <1>2, <2>2, <5>1, <5>2, MovedFacts
      <4> QED BY <4>1, <4>2
    <3>2. missed' \in SUBSET (Clients \X Keys)
      BY <2>2, PassesBy
    <3>3. PICK a : a = Step("answer", s.c, s.k, s.e)
      OBVIOUS
    <3>4. a \in StepRecords /\ a.op = "answer" /\ a.c = s.c
      BY <1>2, <3>3 DEF Step, StepRecords
    <3>5. todo' \in [Workers -> Seq(StepRecords)] /\ \A u \in Workers : Handles(u)'
      BY <1>1, <1>2, <2>2, <3>3, <3>4, Found
    <3> QED BY <1>3, <2>2, <3>1, <3>2, <3>5
  <2>3. CASE /\ lists[s.k] # <<>> /\ lists' = rest /\ fate' = [fate EXCEPT ![v] = "swallowed"]
             /\ Continues(w) /\ UNCHANGED missed
    <3>1. todo' \in [Workers -> Seq(StepRecords)] /\ \A u \in Workers : Handles(u)'
      BY <1>1, <1>2, <2>3, TryOn
    <3>2. v \in 1..MaxElements /\ rest \in [Keys -> Seq(1..MaxElements)]
      BY <1>5, <2>3
    <3> HIDE DEF v, rest, lpop
    <3> QED BY <1>3, <2>3, <3>1, <3>2
  <2>4. CASE /\ lists[s.k] # <<>> /\ lists' = rest /\ Does(w, <<Step("popped", s.c, s.k, v)>>)
             /\ UNCHANGED <<fate, missed>>
    <3>1. v \in 1..MaxElements /\ rest \in [Keys -> Seq(1..MaxElements)]
      BY <1>5, <2>4
    <3>2. PICK a : a = Step("popped", s.c, s.k, v)
      OBVIOUS
    <3> HIDE DEF v, rest, lpop
    <3>3. a \in StepRecords /\ a.op = "popped" /\ a.c = s.c /\ a.e \in 1..MaxElements
      BY <1>2, <3>1, <3>2 DEF Step, StepRecords, Handing
    <3>4. todo' \in [Workers -> Seq(StepRecords)] /\ \A u \in Workers : Handles(u)'
      BY <1>1, <1>2, <2>4, <3>2, <3>3, Found
    <3> QED BY <1>3, <2>4, <3>1, <3>4
  <2> QED BY <1>1, <2>1, <2>2, <2>3, <2>4
<1>7. Shape'
  BY <1>1, <1>6 DEF WInv, Shape
<1> QED BY <1>1, <1>6, <1>7, Elsewhere DEF WInv

\* The task that is next on a loop.
LEMMA TaskFacts ==
  ASSUME WInv, NEW w \in Workers, inbox[w] # <<>>
  PROVE  /\ Head(inbox[w])[1] \in Clients /\ Head(inbox[w])[2] \in Keys
         /\ Head(inbox[w]) = <<Head(inbox[w])[1], Head(inbox[w])[2]>>
         /\ Worker[Head(inbox[w])[1]] = w /\ Tail(inbox[w]) \in Seq(Clients \X Keys)
         /\ Len(inbox[w]) \in Nat \ {0} /\ Len(Tail(inbox[w])) = Len(inbox[w]) - 1
         /\ Head(inbox[w]) = inbox[w][1]
         /\ \A i \in 1..(Len(inbox[w]) - 1) : Tail(inbox[w])[i] = inbox[w][i + 1]
<1> DEFINE S == Clients \X Keys
<1>1. PICK u : u = inbox[w]
  OBVIOUS
<1>2. u \in Seq(S) /\ u # <<>>
  BY <1>1 DEF WInv, Shape
<1> HIDE DEF S
<1>3. /\ Len(u) \in Nat \ {0} /\ Head(u) = u[1] /\ u[1] \in S /\ Tail(u) \in Seq(S)
      /\ Len(Tail(u)) = Len(u) - 1 /\ \A i \in 1..(Len(u) - 1) : Tail(u)[i] = u[i + 1]
  BY <1>2, TailFacts
<1>4. Worker[u[1][1]] = w
  BY <1>1, <1>3 DEF WInv, Serves
<1>5. u[1][1] \in Clients /\ u[1][2] \in Keys /\ u[1] = <<u[1][1], u[1][2]>>
  BY <1>3 DEF S
<1> QED BY <1>1, <1>3, <1>4, <1>5 DEF S

LEMMA ServeFacts ==
  ASSUME WInv, NEW w \in Workers, NEW c \in Clients, Worker[c] = w, NEW k \in Keys,
         NEW v \in 1..MaxElements, NEW b \in Blocks, Does(w, Serve(b, c, k, v)),
         pushed' = pushed, conn' = conn, block' = [block EXCEPT ![c] = b]
  PROVE  /\ todo' \in [Workers -> Seq(StepRecords)] /\ todo'[w] = Serve(b, c, k, v)
         /\ \A u \in Workers : Handles(u)'
         /\ \A u \in Workers \ {w} : todo'[u] = todo[u]
<1>1. PICK o : o = IF b.push_key = NULL THEN "popped" ELSE "push"
  OBVIOUS
<1>2. PICK x, y : x = Step(o, c, k, v) /\ y = Step("clear", c, k, v)
  OBVIOUS
<1>3. PICK q : q = <<x, y>>
  OBVIOUS
<1>4. q = Serve(b, c, k, v)
  BY <1>1, <1>2, <1>3 DEF Serve
<1>5. /\ x \in StepRecords /\ x.op = o /\ x.c = c /\ x.e = v
      /\ y \in StepRecords /\ y.op = "clear" /\ y.c = c /\ y.e = v
  BY <1>1, <1>2 DEF Step, StepRecords, Handing
<1>6. q \in Seq(StepRecords) /\ Len(q) = 2 /\ q[1] = x /\ q[2] = y /\ Chained(q)
  <2>1. x.c = y.c /\ Leads(x.op, y.op) /\ x.op # "try"
    BY <1>1, <1>5 DEF Leads
  <2> QED BY <1>3, <1>5, <2>1, TwoSteps
<1>7. \A i \in 1..Len(q) : Fits(q[i])' /\ Worker[q[i].c] = w
  <2>1. \A i \in 1..Len(q) : i = 1 \/ i = 2
    BY <1>6
  <2>2. Fits(x)' /\ Fits(y)'
    BY <1>1, <1>5 DEF Fits, Asking
  <2> QED BY <1>5, <1>6, <2>1, <2>2
<1>8. /\ \A d \in Clients : Worker[d] # w => block'[d] = block[d]
      /\ block'[c] = b /\ b # NULL
  BY BlockListAssumption DEF WInv, Shape
<1>9. pushed' \in Nat /\ pushed <= pushed' /\ Does(w, q)
  BY <1>4 DEF WInv, Shape
<1>10. q[1].op = "push" => b.push_key # NULL
  BY <1>1, <1>5, <1>6
<1>11. /\ todo' \in [Workers -> Seq(StepRecords)] /\ todo'[w] = q
       /\ \A u \in Workers : Handles(u)'
       /\ \A u \in Workers \ {w} : todo'[u] = todo[u]
  <2>1. q[1].op # "register" /\ q[1].c = c
    BY <1>1, <1>5, <1>6
  <2>2. \A d \in Clients :
          q # <<>> /\ q[1].op = "push" /\ d = q[1].c => block'[d] # NULL /\ block'[d].push_key # NULL
    BY <1>8, <1>10, <2>1
  <2> QED BY <1>6, <1>7, <1>8, <1>9, <2>1, <2>2, SetsOut
<1> QED BY <1>4, <1>11

\* A context that a wake-up finds, or makes.
LEMMA Visited ==
  ASSUME WInv, NEW c \in Clients, block' = [block EXCEPT ![c] = GetBlockContext(c)],
         UNCHANGED <<table, conn, attached>>
  PROVE  /\ block' \in [Clients -> Blocks \cup {NULL}]
         /\ \A d \in Clients : Waiting(d)' /\ (IsBlocked(d)' <=> IsBlocked(d))
         /\ \A d \in Clients \ {c} : block'[d] = block[d]
         /\ block[c] # NULL => block'[c] = block[c]
<1>1. /\ GetBlockContext(c) \in Blocks /\ GetBlockContext(c) # NULL
      /\ GetBlockContext(c).keys = IF block[c] = NULL THEN {} ELSE block[c].keys
  BY ContextFacts
<1>2. block \in [Clients -> Blocks \cup {NULL}]
  BY DEF WInv, Shape
<1>3. /\ block'[c] = GetBlockContext(c) /\ \A d \in Clients \ {c} : block'[d] = block[d]
      /\ block' \in [Clients -> Blocks \cup {NULL}]
  BY <1>1, <1>2
<1>4. block[c] # NULL => block'[c] = block[c]
  BY <1>3 DEF GetBlockContext
<1>5. ASSUME NEW d \in Clients
      PROVE  /\ IsBlocked(d)' <=> IsBlocked(d)
             /\ \A k \in Keys : block'[d] # NULL /\ k \in block'[d].keys
                                  <=> block[d] # NULL /\ k \in block[d].keys
  BY <1>1, <1>3 DEF IsBlocked
<1>6. \A d \in Clients : Waiting(d)'
  <2> SUFFICES ASSUME NEW d \in Clients PROVE Waiting(d)'
    OBVIOUS
  <2>1. Waiting(d)
    BY DEF WInv
  <2> QED BY <1>5, <2>1 DEF Waiting
<1> QED BY <1>3, <1>4, <1>5, <1>6

LEMMA IdleHandles ==
  ASSUME NEW w \in Workers, todo'[w] = <<>>
  PROVE  Handles(w)'
<1>1. PICK q : q = <<>>
  OBVIOUS
<1>2. ~At(w, "register")' /\ ~At(w, "push")'
  BY DEF At
<1>3. Chained(<<>>) /\ Len(<<>>) = 0
  BY EmptySeq DEF Chained
<1> QED BY <1>2, <1>3 DEF Handles

LEMMA WakeBlockedListWaits ==
  ASSUME WInv, NEW w \in Workers, WakeBlockedList(w)
  PROVE  WInv'
<1>0. PICK c, k, b : c = Head(inbox[w])[1] /\ k = Head(inbox[w])[2] /\ b = GetBlockContext(c)
  OBVIOUS
<1> DEFINE v == Popped(lists[k], b.lpop)
           rest == [lists EXCEPT ![k] = Left(@, b.lpop)]
<1>1. /\ ~Busy(w) /\ inbox[w] # <<>> /\ inbox' = [inbox EXCEPT ![w] = Tail(@)]
      /\ UNCHANGED <<table, attached, conn, timers, unread, wal, missed, pushed>>
      /\ \/ UNCHANGED <<lists, block, todo, owed, fate>>
         \/ block' = [block EXCEPT ![c] = b] /\ UNCHANGED <<lists, todo, owed, fate>>
         \/ /\ lists[k] # <<>> /\ lists' = rest /\ block' = [block EXCEPT ![c] = b]
            /\ fate' = [fate EXCEPT ![v] = "swallowed"] /\ UNCHANGED <<todo, owed>>
         \/ /\ lists[k] # <<>> /\ lists' = rest /\ block' = [block EXCEPT ![c] = b]
            /\ Does(w, Serve(b, c, k, v))
            /\ owed' = IF c \in table[k] THEN owed ELSE [owed EXCEPT ![c] = @ + 1]
            /\ UNCHANGED fate
  BY <1>0 DEF WakeBlockedList, bounds
<1>2. /\ c \in Clients /\ k \in Keys /\ Worker[c] = w /\ Tail(inbox[w]) \in Seq(Clients \X Keys)
  BY <1>0, <1>1, TaskFacts
<1>3. b \in Blocks /\ b.lpop \in BOOLEAN
  BY <1>0, <1>2, ContextFacts DEF Blocks
<1>4. /\ lists \in [Keys -> Seq(1..MaxElements)] /\ todo \in [Workers -> Seq(StepRecords)]
      /\ fate \in [1..MaxElements -> Clients \cup {NULL, "lost", "swallowed"}]
      /\ owed \in [Clients -> Int] /\ pushed \in Nat /\ todo[w] = <<>>
      /\ block \in [Clients -> Blocks \cup {NULL}]
  BY <1>1, SMTT(30) DEF WInv, Shape, Busy
<1>5. lists[k] # <<>> => v \in 1..MaxElements /\ rest \in [Keys -> Seq(1..MaxElements)]
  <2>1. SUFFICES ASSUME lists[k] # <<>>
                 PROVE  v \in 1..MaxElements /\ rest \in [Keys -> Seq(1..MaxElements)]
    OBVIOUS
  <2>2. v \in 1..MaxElements /\ Left(lists[k], b.lpop) \in Seq(1..MaxElements)
    BY <1>2, <1>3, <1>4, <2>1, PopFacts
  <2> QED BY <1>2, <1>4, <2>2
<1>6. /\ block' \in [Clients -> Blocks \cup {NULL}]
      /\ \A d \in Clients : Waiting(d)' /\ (d # c => block'[d] = block[d])
  <2>1. CASE block' = block
    BY <1>1, <1>4, <2>1, WaitingKept
  <2>2. CASE block' = [block EXCEPT ![c] = b]
    BY <1>0, <1>1, <1>2, <2>2, Visited
  <2> QED BY <1>1, <2>1, <2>2
<1>7. todo' = todo => \A u \in Workers : Handles(u)'
  <2> SUFFICES ASSUME todo' = todo, NEW u \in Workers PROVE Handles(u)'
    OBVIOUS
  <2>1. CASE u = w
    BY <1>4, <2>1, IdleHandles
  <2>2. CASE u # w
    BY <1>1, <1>2, <1>4, <1>6, <2>2, HandlerKept
  <2> QED BY <2>1, <2>2
<1>8. /\ lists' \in [Keys -> Seq(1..MaxElements)] /\ owed' \in [Clients -> Int]
      /\ fate' \in [1..MaxElements -> Clients \cup {NULL, "lost", "swallowed"}]
      /\ todo' \in [Workers -> Seq(StepRecords)] /\ \A u \in Workers : Handles(u)'
  <2>1. CASE UNCHANGED <<lists, todo, owed, fate>>
    BY <1>4, <1>7, <2>1
  <2>2. CASE /\ lists[k] # <<>> /\ lists' = rest /\ block' = [block EXCEPT ![c] = b]
             /\ fate' = [fate EXCEPT ![v] = "swallowed"] /\ UNCHANGED <<todo, owed>>
    <3>1. v \in 1..MaxElements /\ rest \in [Keys -> Seq(1..MaxElements)]
      BY <1>5, <2>2
    <3> HIDE DEF v, rest
    <3> QED BY <1>4, <1>7, <2>2, <3>1
  <2>3. CASE /\ lists[k] # <<>> /\ lists' = rest /\ block' = [block EXCEPT ![c] = b]
             /\ Does(w, Serve(b, c, k, v))
             /\ owed' = IF c \in table[k] THEN owed ELSE [owed EXCEPT ![c] = @ + 1]
             /\ UNCHANGED fate
    <3>1. v \in 1..MaxElements /\ rest \in [Keys -> Seq(1..MaxElements)]
      BY <1>5, <2>3
    <3> HIDE DEF v, rest
    <3>2. todo' \in [Workers -> Seq(StepRecords)] /\ \A u \in Workers : Handles(u)'
      BY <1>1, <1>2, <1>3, <2>3, <3>1, ServeFacts
    <3>3. owed' \in [Clients -> Int]
      BY <1>2, <1>4, <2>3, SMTT(30)
    <3> QED BY <1>4, <2>3, <3>1, <3>2, <3>3
  <2> QED BY <1>1, <2>1, <2>2, <2>3
<1>9. inbox' \in [Workers -> Seq(Clients \X Keys)]
  BY <1>1, <1>2 DEF WInv, Shape
<1>10. Shape'
  BY <1>1, <1>6, <1>8, <1>9 DEF WInv, Shape
<1>11. \A u \in Workers : Serves(u)'
  <2> SUFFICES ASSUME NEW u \in Workers PROVE Serves(u)'
    OBVIOUS
  <2>1. /\ \A i \in 1..Len(unread[u]) :
             Worker[unread[u][i][1]] = u /\ conn[unread[u][i][1]] = "open"
        /\ \A i \in 1..Len(inbox[u]) : Worker[inbox[u][i][1]] = u
    BY DEF WInv, Serves
  <2>2. \A i \in 1..Len(inbox'[u]) : Worker[inbox'[u][i][1]] = u
    <3>1. inbox \in [Workers -> Seq(Clients \X Keys)]
      BY DEF WInv, Shape
    <3>2. CASE u = w
      <4>1. PICK q, t : q = inbox[w] /\ t = Tail(inbox[w])
        OBVIOUS
      <4>2. /\ Len(q) \in Nat \ {0} /\ Len(t) = Len(q) - 1
            /\ \A i \in 1..(Len(q) - 1) : t[i] = q[i + 1]
        BY <1>1, <4>1, TaskFacts
      <4>3. \A i \in 1..Len(q) : Worker[q[i][1]] = w
        BY <2>1, <3>2, <4>1
      <4>4. inbox'[u] = t
        BY <1>1, <3>1, <3>2, <4>1
      <4>5. \A i \in 1..Len(t) : i + 1 \in 1..Len(q) /\ t[i] = q[i + 1]
        BY <4>2
      <4> QED BY <3>2, <4>3, <4>4, <4>5
    <3>3. CASE u # w
      BY <1>1, <2>1, <3>1, <3>3
    <3> QED BY <3>2, <3>3
  <2> QED BY <1>1, <2>1, <2>2 DEF Serves
<1> QED BY <1>6, <1>8, <1>10, <1>11 DEF WInv

LEMMA ReadWaits ==
  ASSUME WInv, NEW c \in Clients, NEW batch \in Sends[c], Read(c, batch)
  PROVE  WInv'
<1>1. PICK u, w : u = [i \in DOMAIN batch |-> <<c, batch[i]>>] /\ w = Worker[c]
  OBVIOUS
<1>2. /\ conn[c] = "open" /\ unread' = [unread EXCEPT ![w] = u]
      /\ UNCHANGED <<lists, table, block, attached, conn, timers, todo, inbox, wal, owed, fate,
                     missed, pushed>>
  BY <1>1 DEF Read
<1>3. w \in Workers
  BY <1>1 DEF Workers
<1>4. batch \in Seq(Requests)
  BY BlockListAssumption
<1>5. u \in Seq(Clients \X Requests) /\ \A i \in 1..Len(u) : u[i][1] = c
  <2>1. Len(batch) \in Nat /\ DOMAIN batch = 1..Len(batch) /\ \A i \in 1..Len(batch) : batch[i] \in Requests
    BY <1>4, LenProperties
  <2> QED BY <1>1, <2>1
<1>6. unread \in [Workers -> Seq(Clients \X Requests)] /\ pushed \in Nat
  BY DEF WInv, Shape
<1>7. Shape'
  BY <1>2, <1>5, <1>6 DEF WInv, Shape
<1>8. \A v \in Workers : Handles(v)'
  BY <1>2, <1>6, HandlerKept
<1>9. \A v \in Workers : Serves(v)'
  <2> SUFFICES ASSUME NEW v \in Workers PROVE Serves(v)'
    OBVIOUS
  <2>1. Serves(v)
    BY DEF WInv
  <2> QED BY <1>1, <1>2, <1>3, <1>5, <1>6, <2>1 DEF Serves
<1> QED BY <1>2, <1>7, <1>8, <1>9, WaitingKept DEF WInv

\* What a step of a client does to the handlers when its own worker is idle.
LEMMA IdleStep ==
  ASSUME WInv, NEW c \in Clients, ~Busy(Worker[c]), UNCHANGED <<todo, unread, inbox, pushed>>,
         \A d \in Clients \ {c} : block'[d] = block[d] /\ conn'[d] = conn[d]
  PROVE  \A v \in Workers : Handles(v)' /\ Serves(v)'
<1>1. PICK w \in Workers : w = Worker[c]
  BY DEF Workers
<1>2. todo[w] = <<>> /\ unread[w] = <<>>
  BY <1>1 DEF Busy
<1>3. Handles(w)'
  BY <1>2, IdleHandles
<1>4. Serves(w)'
  <2>1. Len(<<>>) = 0
    OBVIOUS
  <2>2. \A i \in 1..Len(inbox[w]) : Worker[inbox[w][i][1]] = w
    BY DEF WInv, Serves
  <2> QED BY <1>2, <2>1, <2>2 DEF Serves
<1>5. ASSUME NEW v \in Workers \ {w} PROVE Handles(v)' /\ Serves(v)'
  <2>1. \A d \in Clients : Worker[d] = v => block'[d] = block[d] /\ conn'[d] = conn[d]
    BY <1>1, <1>5
  <2>2. pushed \in Nat /\ pushed' = pushed /\ todo' = todo /\ unread' = unread /\ inbox' = inbox
    BY DEF WInv, Shape
  <2>3. Handles(v)'
    BY <2>1, <2>2, HandlerKept
  <2>4. Serves(v)'
    BY <2>1, <2>2, ServesKept
  <2> QED BY <2>3, <2>4
<1> QED BY <1>3, <1>4, <1>5

LEMMA BlockListTimeoutWaits ==
  ASSUME WInv, NEW c \in Clients, NEW id, BlockListTimeout(c, id)
  PROVE  WInv'
<1>1. /\ ~Busy(Worker[c])
      /\ UNCHANGED <<lists, conn, todo, unread, inbox, wal, fate, pushed>>
      /\ \/ timers' = timers \ {<<c, id>>} /\ UNCHANGED <<table, block, attached, owed, missed>>
         \/ /\ timers' = Cancelled(c) \ {<<c, id>>} /\ ClearBlockKeys(c)
            /\ owed' = [owed EXCEPT ![c] = IF conn[c] = "open" THEN @ - 1 ELSE @]
            /\ attached' = [attached EXCEPT ![c] = TRUE]
  BY DEF BlockListTimeout, Replied, sched, bounds
<1>2. CASE timers' = timers \ {<<c, id>>} /\ UNCHANGED <<table, block, attached, owed, missed>>
  <2>1. \A v \in Workers : Handles(v)' /\ Serves(v)'
    BY <1>1, <1>2, IdleStep
  <2>2. timers' \in SUBSET (Clients \X (Nat \ {0})) /\ IsFiniteSet(timers')
    <3>1. timers' \in SUBSET timers /\ IsFiniteSet(timers) /\ timers \in SUBSET (Clients \X (Nat \ {0}))
      BY <1>2 DEF WInv, Shape
    <3> QED BY <3>1, FS_Subset
  <2>3. Shape'
    BY <1>1, <1>2, <2>2 DEF WInv, Shape
  <2> QED BY <1>1, <1>2, <2>1, <2>3, WaitingKept DEF WInv
<1>3. CASE /\ timers' = Cancelled(c) \ {<<c, id>>} /\ ClearBlockKeys(c)
           /\ owed' = [owed EXCEPT ![c] = IF conn[c] = "open" THEN @ - 1 ELSE @]
           /\ attached' = [attached EXCEPT ![c] = TRUE]
  <2>1. /\ table' \in [Keys -> SUBSET Clients] /\ block' \in [Clients -> Blocks \cup {NULL}]
        /\ missed' \in SUBSET (Clients \X Keys)
        /\ \A d \in Clients \ {c} : block'[d] = block[d]
    BY <1>3, Cleared
  <2>2. \A v \in Workers : Handles(v)' /\ Serves(v)'
    BY <1>1, <2>1, IdleStep
  <2>3. timers' \in SUBSET (Clients \X (Nat \ {0})) /\ IsFiniteSet(timers')
    BY <1>3, FewerTimers
  <2>4. attached' \in [Clients -> BOOLEAN] /\ attached'[c] /\ owed' \in [Clients -> Int]
        /\ \A d \in Clients \ {c} : conn'[d] = conn[d] /\ attached'[d] = attached[d]
    BY <1>1, <1>3 DEF WInv, Shape
  <2>5. Shape'
    BY <1>1, <2>1, <2>3, <2>4 DEF WInv, Shape
  <2>6. \A d \in Clients : Waiting(d)'
    BY <1>3, <2>4, WaitsEnd
  <2> QED BY <2>2, <2>5, <2>6 DEF WInv
<1> QED BY <1>1, <1>2, <1>3

LEMMA FreeClientContextWaits ==
  ASSUME WInv, NEW c \in Clients, FreeClientContext(c)
  PROVE  WInv'
<1>1. /\ ~Busy(Worker[c]) /\ conn' = [conn EXCEPT ![c] = "closed"] /\ timers' = Cancelled(c)
      /\ ClearBlockKeys(c)
      /\ UNCHANGED <<lists, attached, todo, unread, inbox, wal, owed, fate, pushed>>
  BY DEF FreeClientContext, sched
<1>2. /\ table' \in [Keys -> SUBSET Clients] /\ block' \in [Clients -> Blocks \cup {NULL}]
      /\ missed' \in SUBSET (Clients \X Keys)
      /\ \A d \in Clients \ {c} : block'[d] = block[d]
  BY <1>1, Cleared
<1>3. /\ conn' \in [Clients -> {"open", "closed", "freed"}] /\ conn'[c] # "open"
      /\ \A d \in Clients \ {c} : conn'[d] = conn[d] /\ attached'[d] = attached[d]
  BY <1>1 DEF WInv, Shape
<1>4. \A v \in Workers : Handles(v)' /\ Serves(v)'
  BY <1>1, <1>2, <1>3, IdleStep
<1>5. timers' \in SUBSET (Clients \X (Nat \ {0})) /\ IsFiniteSet(timers')
  <2>1. timers' = Cancelled(c) \ {}
    BY <1>1
  <2> QED BY <2>1, FewerTimers
<1>6. Shape'
  BY <1>1, <1>2, <1>3, <1>5 DEF WInv, Shape
<1>7. \A d \in Clients : Waiting(d)'
  BY <1>1, <1>3, WaitsEnd
<1> QED BY <1>4, <1>6, <1>7 DEF WInv

LEMMA DeleteChannelWaits ==
  ASSUME WInv, NEW c \in Clients, DeleteChannel(c)
  PROVE  WInv'
<1>1. /\ ~Busy(Worker[c]) /\ conn[c] = "closed" /\ conn' = [conn EXCEPT ![c] = "freed"]
      /\ UNCHANGED <<lists, table, block, attached, timers, todo, unread, inbox, wal, owed, fate,
                     missed, pushed>>
  BY DEF DeleteChannel, sched, bounds
<1>2. /\ conn' \in [Clients -> {"open", "closed", "freed"}] /\ conn'[c] # "open"
      /\ \A d \in Clients \ {c} : conn'[d] = conn[d]
  BY <1>1 DEF WInv, Shape
<1>3. \A v \in Workers : Handles(v)' /\ Serves(v)'
  BY <1>1, <1>2, IdleStep
<1>4. Shape'
  BY <1>1, <1>2 DEF WInv, Shape
<1>5. ASSUME NEW d \in Clients PROVE Waiting(d)'
  <2>1. Waiting(d)
    BY DEF WInv
  <2> QED BY <1>1, <1>2, <2>1 DEF Waiting, IsBlocked
<1> QED BY <1>3, <1>4, <1>5 DEF WInv

LEMMA InitWaits ==
  ASSUME Init
  PROVE  WInv
<1>1. Shape
  <2>1. <<>> \in Seq(1..MaxElements) /\ <<>> \in Seq(StepRecords)
        /\ <<>> \in Seq(Clients \X Requests) /\ <<>> \in Seq(Clients \X Keys)
    OBVIOUS
  <2>2. IsFiniteSet(timers) /\ timers = {}
    BY FS_EmptySet DEF Init
  <2>3. pushed \in 0..MaxElements
    BY BlockListAssumption DEF Init
  <2>4. /\ lists \in [Keys -> Seq(1..MaxElements)] /\ table \in [Keys -> SUBSET Clients]
        /\ block \in [Clients -> Blocks \cup {NULL}] /\ attached \in [Clients -> BOOLEAN]
        /\ conn \in [Clients -> {"open", "closed", "freed"}]
    BY <2>1 DEF Init
  <2>5. /\ todo \in [Workers -> Seq(StepRecords)] /\ unread \in [Workers -> Seq(Clients \X Requests)]
        /\ inbox \in [Workers -> Seq(Clients \X Keys)]
    BY <2>1 DEF Init
  <2>6. /\ wal \in [pushed : SUBSET Nat, popped : SUBSET Nat]
        /\ owed \in [Clients -> Int] /\ missed \in SUBSET (Clients \X Keys)
        /\ fate \in [1..MaxElements -> Clients \cup {NULL, "lost", "swallowed"}]
    BY DEF Init
  <2> QED BY <2>2, <2>3, <2>4, <2>5, <2>6 DEF Shape
<1>2. \A w \in Workers : Handles(w) /\ Serves(w)
  <2> SUFFICES ASSUME NEW w \in Workers PROVE Handles(w) /\ Serves(w)
    OBVIOUS
  <2>1. todo[w] = <<>> /\ unread[w] = <<>> /\ inbox[w] = <<>> /\ Len(<<>>) = 0
    BY DEF Init
  <2> QED BY <2>1 DEF Handles, Serves, Chained, At
<1>3. \A c \in Clients : Waiting(c)
  BY DEF Init, Waiting, IsBlocked
<1> QED BY <1>1, <1>2, <1>3 DEF WInv

LEMMA NextWaits ==
  ASSUME WInv, [Next]_vars
  PROVE  WInv'
<1>1. CASE UNCHANGED vars
  <2>1. UNCHANGED <<lists, table, block, attached, conn, timers, todo, unread, inbox, wal, owed,
                    fate, missed, pushed>>
    BY <1>1 DEF vars, sched, bounds
  <2>2. \A w \in Workers : Handles(w)'
    BY <2>1, HandlerKept DEF WInv, Shape
  <2>3. Shape'
    BY <2>1 DEF WInv, Shape
  <2> QED BY <2>1, <2>2, <2>3, Elsewhere DEF WInv
<1>2. ASSUME NEW c \in Clients, NEW b \in Sends[c], Read(c, b) PROVE WInv'
  BY <1>2, ReadWaits
<1>3. ASSUME NEW w \in Workers, Handle(w) PROVE WInv'
  BY <1>3, CallWaits, TryWaits, BlockWaits, AddBlockKeyWaits, WakeBlockingListsByKeyWaits,
     PushToWaits, WriteWALWaits, DeliverWaits, AnswerWaits, UnblockWaits, WakeBlockedListWaits
     DEF Handle
<1>4. ASSUME NEW c \in Clients, Expire(c) \/ FreeClientContext(c) \/ DeleteChannel(c) PROVE WInv'
  BY <1>4, BlockListTimeoutWaits, FreeClientContextWaits, DeleteChannelWaits DEF Expire
<1> QED BY <1>1, <1>2, <1>3, <1>4 DEF Next

LEMMA WaitsConsistent ==
  ASSUME WInv
  PROVE  WaitersConsistent
<1>1. TypeOK
  <2>1. \A c \in Clients : block[c] # NULL =>
          /\ block[c].keys \subseteq Keys /\ block[c].lpop \in BOOLEAN
          /\ block[c].push_key \in Keys \cup {NULL, NotAList}
    BY DEF WInv, Shape, Blocks
  <2>2. \A t \in timers : t[1] \in Clients /\ t[2] \in Nat \ {0}
    BY DEF WInv, Shape
  <2>3. ASSUME NEW w \in Workers
        PROVE  /\ \A i \in DOMAIN todo[w] : todo[w][i].op \in Ops /\ Worker[todo[w][i].c] = w
               /\ \A i \in DOMAIN inbox[w] : Worker[inbox[w][i][1]] = w
    <3>1. PICK q : q = todo[w]
      OBVIOUS
    <3>2. /\ q \in Seq(StepRecords) /\ inbox[w] \in Seq(Clients \X Keys)
          /\ \A i \in 1..Len(q) : Worker[q[i].c] = w
          /\ \A i \in 1..Len(inbox[w]) : Worker[inbox[w][i][1]] = w
      BY <3>1 DEF WInv, Shape, Handles, Serves
    <3>3. DOMAIN q = 1..Len(q) /\ \A i \in 1..Len(q) : q[i] \in StepRecords
      BY <3>2, LenProperties
    <3>4. \A i \in 1..Len(q) : q[i].op \in Ops
      BY <3>3 DEF StepRecords, Asking, Handing, Ops
    <3>5. DOMAIN inbox[w] = 1..Len(inbox[w])
      BY <3>2, LenProperties
    <3> QED BY <3>1, <3>2, <3>3, <3>4, <3>5
  <2>4. /\ lists \in [Keys -> Seq(1..MaxElements)] /\ table \in [Keys -> SUBSET Clients]
        /\ attached \in [Clients -> BOOLEAN] /\ conn \in [Clients -> {"open", "closed", "freed"}]
        /\ owed \in [Clients -> Int] /\ missed \subseteq Clients \X Keys
    BY DEF WInv, Shape
  <2> QED BY <2>1, <2>2, <2>3, <2>4 DEF TypeOK
<1>2. TableAgrees
  BY DEF WInv, Waiting, IsBlocked, TableAgrees
<1>3. DetachedWaits
  <2> SUFFICES ASSUME NEW c \in Clients, conn[c] = "open", ~attached[c]
               PROVE  \E k \in Keys : c \in table[k]
    BY DEF DetachedWaits
  <2>1. Waiting(c) /\ block[c] \in Blocks \cup {NULL}
    BY DEF WInv, Shape
  <2> QED BY <2>1 DEF Waiting, IsBlocked, Blocks
<1> QED BY <1>1, <1>2, <1>3 DEF WaitersConsistent

\* The clients that wait, the entries of the table, the sockets the loops do
\* not watch and the handlers belong together in every state: what AddBlockKey
\* enters ClearBlockKeys takes out, on every way a wait can end, and a socket
\* detached by a blocking command is one whose client is registered.
THEOREM WaitersTheorem == Spec => []WaitersConsistent
<1>1. Init => WInv
  BY InitWaits
<1>2. WInv /\ [Next]_vars => WInv'
  BY NextWaits
<1>3. WInv => WaitersConsistent
  BY WaitsConsistent
<1> QED BY <1>1, <1>2, <1>3, PTL DEF Spec
-----------------------------------------------------------------------------
(***************************************************************************)
(* The elements.                                                           *)
(***************************************************************************)
LEMMA LeftFacts ==
  ASSUME NEW S, NEW l \in Seq(S), l # <<>>, Once(l), NEW b \in BOOLEAN
  PROVE  /\ Once(Left(l, b)) /\ Among(Popped(l, b), l)
         /\ \A e : Among(e, Left(l, b)) <=> Among(e, l) /\ e # Popped(l, b)
<1>1. PICK m, v : m = Left(l, b) /\ v = Popped(l, b)
  OBVIOUS
<1>2. /\ Len(m) = Len(l) - 1 /\ Len(l) \in Nat \ {0} /\ v = l[IF b THEN 1 ELSE Len(l)]
      /\ \A i \in 1..(Len(l) - 1) : m[i] = l[IF b THEN i + 1 ELSE i]
  BY <1>1, PopFacts
<1>3. \A i, j \in 1..Len(l) : l[i] = l[j] => i = j
  BY DEF Once
<1>4. Once(m)
  BY <1>2, <1>3 DEF Once
<1>5. Among(v, l)
  BY <1>2 DEF Among
<1>6. ASSUME NEW e PROVE Among(e, m) <=> Among(e, l) /\ e # v
  <2>1. ASSUME Among(e, m) PROVE Among(e, l) /\ e # v
    <3>1. PICK i \in 1..Len(m) : m[i] = e
      BY <2>1 DEF Among
    <3>2. PICK j \in 1..Len(l) : l[j] = e /\ j # IF b THEN 1 ELSE Len(l)
      BY <1>2, <3>1
    <3> QED BY <1>2, <1>3, <3>2 DEF Among
  <2>2. ASSUME Among(e, l), e # v PROVE Among(e, m)
    <3>1. PICK i \in 1..Len(l) : l[i] = e
      BY <2>2 DEF Among
    <3>2. i # IF b THEN 1 ELSE Len(l)
      BY <1>2, <2>2, <3>1
    <3>3. CASE b
      <4>1. i - 1 \in 1..Len(m) /\ m[i - 1] = e
        BY <1>2, <3>1, <3>2, <3>3
      <4> QED BY <4>1 DEF Among
    <3>4. CASE ~b
      <4>1. i \in 1..Len(m) /\ m[i] = e
        BY <1>2, <3>1, <3>2, <3>4
      <4> QED BY <4>1 DEF Among
    <3> QED BY <3>3, <3>4
  <2> QED BY <2>1, <2>2
<1> QED BY <1>1, <1>4, <1>5, <1>6

\* The list m is l with x.
Gains(m, l, x) == Once(m) /\ \A e : Among(e, m) <=> Among(e, l) \/ e = x

LEMMA AddedFacts ==
  ASSUME NEW S, NEW l \in Seq(S), NEW x \in S, Once(l), ~Among(x, l),
         NEW m \in {<<x>> \o l, Append(l, x)}
  PROVE  Gains(m, l, x)
<1>1. Len(l) \in Nat /\ Len(m) = Len(l) + 1
      /\ \/ m[1] = x /\ \A i \in 1..Len(m) : i # 1 => i - 1 \in 1..Len(l) /\ m[i] = l[i - 1]
         \/ m[Len(m)] = x /\ \A i \in 1..Len(m) : i # Len(m) => i \in 1..Len(l) /\ m[i] = l[i]
  <2>1. CASE m = <<x>> \o l
    <3>1. <<x>> \in Seq(S) /\ Len(<<x>>) = 1 /\ <<x>>[1] = x /\ Len(l) \in Nat
      BY LenProperties
    <3>2. /\ Len(m) = Len(<<x>>) + Len(l)
          /\ \A i \in 1..(Len(<<x>>) + Len(l)) : m[i] = IF i <= Len(<<x>>) THEN <<x>>[i] ELSE l[i - Len(<<x>>)]
      BY <2>1, <3>1, ConcatProperties
    <3> QED BY <3>1, <3>2
  <2>2. CASE m = Append(l, x)
    <3>1. /\ Len(l) \in Nat /\ Len(m) = Len(l) + 1 /\ m[Len(l) + 1] = x
          /\ \A i \in 1..Len(l) : m[i] = l[i]
      BY <2>2, AppendProperties, LenProperties
    <3> QED BY <3>1
  <2> QED BY <2>1, <2>2
<1>2. \A i, j \in 1..Len(l) : l[i] = l[j] => i = j
  BY DEF Once
<1>3. \A i \in 1..Len(l) : l[i] # x
  BY DEF Among
<1>4. CASE m[1] = x /\ \A i \in 1..Len(m) : i # 1 => i - 1 \in 1..Len(l) /\ m[i] = l[i - 1]
  <2>1. Once(m)
    <3> SUFFICES ASSUME NEW i \in 1..Len(m), NEW j \in 1..Len(m), m[i] = m[j] PROVE i = j
      BY DEF Once
    <3>1. i = 1 <=> j = 1
      BY <1>3, <1>4
    <3>2. CASE i # 1
      <4>1. i - 1 \in 1..Len(l) /\ j - 1 \in 1..Len(l) /\ l[i - 1] = l[j - 1]
        BY <1>4, <3>1, <3>2
      <4> QED BY <1>2, <4>1, SMTT(30)
    <3> QED BY <3>1, <3>2
  <2>2. \A i \in 1..Len(l) : i + 1 \in 1..Len(m) /\ m[i + 1] = l[i]
    BY <1>1, <1>4
  <2>3. 1 \in 1..Len(m)
    BY <1>1
  <2>4. ASSUME NEW e PROVE Among(e, m) <=> Among(e, l) \/ e = x
    <3>1. Among(e, l) \/ e = x => Among(e, m)
      <4>1. ASSUME NEW i \in 1..Len(l), l[i] = e PROVE Among(e, m)
        <5>1. i + 1 \in 1..Len(m) /\ m[i + 1] = e
          BY <2>2, <4>1
        <5> QED BY <5>1 DEF Among
      <4>2. e = x => Among(e, m)
        BY <1>4, <2>3 DEF Among
      <4> QED BY <4>1, <4>2 DEF Among
    <3>2. Among(e, m) => Among(e, l) \/ e = x
      BY <1>4 DEF Among
    <3> QED BY <3>1, <3>2
  <2> QED BY <2>1, <2>4 DEF Gains
<1>5. CASE m[Len(m)] = x /\ \A i \in 1..Len(m) : i # Len(m) => i \in 1..Len(l) /\ m[i] = l[i]
  <2>1. Once(m)
    BY <1>1, <1>2, <1>3, <1>5 DEF Once
  <2>2. \A i \in 1..Len(l) : i \in 1..Len(m) /\ m[i] = l[i]
    BY <1>1, <1>5
  <2>3. Len(m) \in 1..Len(m)
    BY <1>1
  <2>4. ASSUME NEW e PROVE Among(e, m) <=> Among(e, l) \/ e = x
    <3>1. Among(e, l) \/ e = x => Among(e, m)
      BY <1>5, <2>2, <2>3 DEF Among
    <3>2. Among(e, m) => Among(e, l) \/ e = x
      BY <1>5 DEF Among
    <3> QED BY <3>1, <3>2
  <2> QED BY <2>1, <2>4 DEF Gains
<1> QED BY <1>1, <1>4, <1>5

\* A step that leaves an element where it is.
LEMMA Untouched ==
  ASSUME NEW e \in 1..MaxElements, OnePlace(e),
         \A k \in Keys : Lies(k, e)' <=> Lies(k, e),
         \A w \in Workers : Holds(w, e)' <=> Holds(w, e),
         fate'[e] = fate[e], e \in wal'.popped <=> e \in wal.popped,
         e <= pushed' <=> e <= pushed, e > pushed' <=> e > pushed,
         e \in wal.pushed \/ (\E w \in Workers : Posting(w, e))
           => e \in wal'.pushed \/ (\E w \in Workers : Posting(w, e)')
  PROVE  OnePlace(e)'
<1>1. e <= pushed' /\ fate'[e] = NULL <=> \/ \E k \in Keys : Lies(k, e)'
                                          \/ \E w \in Workers : Holds(w, e)'
  BY DEF OnePlace
<1>2. \A j, k \in Keys : Lies(j, e)' /\ Lies(k, e)' => j = k
  BY DEF OnePlace
<1>3. \A v, w \in Workers : Holds(v, e)' /\ Holds(w, e)' => v = w
  BY DEF OnePlace
<1>4. \A k \in Keys, w \in Workers : ~(Lies(k, e)' /\ Holds(w, e)')
  BY DEF OnePlace
<1>5. /\ e > pushed' => fate'[e] = NULL
      /\ e \in wal'.popped <=> fate'[e] \notin {NULL, "swallowed"}
      /\ e <= pushed' => e \in wal'.pushed \/ \E w \in Workers : Posting(w, e)'
  BY DEF OnePlace
<1> QED BY <1>1, <1>2, <1>3, <1>4, <1>5 DEF OnePlace

LEMMA HoldsOn ==
  ASSUME WInv, NEW w \in Workers, todo[w] # <<>>, Continues(w), pushed' = pushed, conn' = conn,
         NEW e
  PROVE  /\ \A v \in Workers : Holds(v, e)' <=> v # w /\ Holds(v, e)
         /\ \A v \in Workers : \/ Posting(v, e) => Posting(v, e)'
                               \/ v = w /\ todo[w][1].op = "pushed" /\ todo[w][1].e = e
<1>1. todo'[w] = Tail(todo[w]) /\ \A v \in Workers \ {w} : todo'[v] = todo[v]
  BY DEF Continues, Does, WInv, Shape
<1>2. ~At(w, "push")' /\ ~At(w, "popped")'
  BY <1>1, GoesOn
<1>3. \A v \in Workers \ {w} : (Holds(v, e)' <=> Holds(v, e)) /\ (Posting(v, e)' <=> Posting(v, e))
  BY <1>1 DEF Holds, Posting, At
<1>4. ~Holds(w, e)'
  BY <1>2 DEF Holds
<1>5. Posting(w, e) => Posting(w, e)' \/ (todo[w][1].op = "pushed" /\ todo[w][1].e = e)
  <2>1. PICK q, t : q = todo[w] /\ t = Tail(q)
    OBVIOUS
  <2>2. /\ Len(q) \in Nat \ {0} /\ Len(t) = Len(q) - 1
        /\ \A i \in 1..(Len(q) - 1) : t[i] = q[i + 1]
    BY <2>1, AtFacts
  <2>3. ASSUME NEW i \in 1..Len(q), q[i].op = "pushed", q[i].e = e, i # 1 PROVE Posting(w, e)'
    <3>1. i - 1 \in 1..Len(t) /\ t[i - 1] = q[i]
      BY <2>2, <2>3
    <3> QED BY <1>1, <2>1, <2>3, <3>1 DEF Posting
  <2> QED BY <2>1, <2>3 DEF Posting
<1> QED BY <1>3, <1>4, <1>5

LEMMA StillElements ==
  ASSUME EInv, UNCHANGED <<lists, fate, wal, pushed, todo>>
  PROVE  EInv'
<1>1. ASSUME NEW e \in 1..MaxElements PROVE OnePlace(e)'
  <2>1. /\ OnePlace(e) /\ \A k \in Keys : Lies(k, e)' <=> Lies(k, e)
        /\ \A w \in Workers : (Holds(w, e)' <=> Holds(w, e)) /\ (Posting(w, e)' <=> Posting(w, e))
    BY DEF EInv, Lies, Holds, Posting, At
  <2> QED BY <2>1, Untouched
<1> QED BY <1>1 DEF EInv

LEMMA HoldsFacts ==
  ASSUME WInv, NEW w \in Workers, NEW e
  PROVE  /\ Holds(w, e) => /\ todo[w] # <<>> /\ todo[w][1].op \in {"popped", "push"}
                           /\ todo[w][1].e = e
         /\ todo[w] # <<>> /\ todo[w][1].op \in {"popped", "push"} /\ todo[w][1].e = e
              => Holds(w, e)
<1>1. todo[w] # <<>> => Head(todo[w]) = todo[w][1]
  BY AtFacts
<1> QED BY <1>1 DEF Holds, At

\* A handler that goes on with something else than an element.
LEMMA QuietElements ==
  ASSUME WInv, EInv, NEW w \in Workers, todo[w] # <<>>, Continues(w),
         todo[w][1].op \notin {"popped", "push", "pushed"},
         UNCHANGED <<lists, fate, wal, pushed, conn>>
  PROVE  EInv'
<1>1. ASSUME NEW e \in 1..MaxElements PROVE OnePlace(e)'
  <2>1. OnePlace(e) /\ \A k \in Keys : Lies(k, e)' <=> Lies(k, e)
    BY DEF EInv, Lies
  <2>2. /\ \A v \in Workers : Holds(v, e)' <=> v # w /\ Holds(v, e)
        /\ \A v \in Workers : Posting(v, e) => Posting(v, e)'
    BY HoldsOn
  <2>3. ~Holds(w, e)
    BY HoldsFacts
  <2>4. \A v \in Workers : Holds(v, e)' <=> Holds(v, e)
    BY <2>2, <2>3
  <2> QED BY <2>1, <2>2, <2>4, Untouched
<1> QED BY <1>1 DEF EInv

LEMMA WriteWALElements ==
  ASSUME WInv, EInv, NEW w \in Workers, WriteWAL(w)
  PROVE  EInv'
<1>1. /\ todo[w] # <<>> /\ Head(todo[w]).op = "pushed" /\ Continues(w)
      /\ wal' = [wal EXCEPT !.pushed = @ \cup {Head(todo[w]).e}]
      /\ UNCHANGED <<lists, conn, fate, pushed>>
  BY DEF WriteWAL, At, bounds
<1>2. PICK v : v = todo[w][1].e
  OBVIOUS
<1>3. Head(todo[w]) = todo[w][1] /\ wal \in [pushed : SUBSET Nat, popped : SUBSET Nat]
  BY <1>1, AtFacts DEF WInv, Shape
<1>4. wal'.pushed = wal.pushed \cup {v} /\ wal'.popped = wal.popped
  BY <1>1, <1>2, <1>3
<1>5. ASSUME NEW e \in 1..MaxElements PROVE OnePlace(e)'
  <2>1. OnePlace(e) /\ \A k \in Keys : Lies(k, e)' <=> Lies(k, e)
    BY <1>1 DEF EInv, Lies
  <2>2. /\ \A u \in Workers : Holds(u, e)' <=> u # w /\ Holds(u, e)
        /\ \A u \in Workers : (Posting(u, e) => Posting(u, e)') \/ e = v
    BY <1>1, <1>2, HoldsOn
  <2>3. ~Holds(w, e)
    BY <1>1, <1>3, HoldsFacts
  <2>4. \A u \in Workers : Holds(u, e)' <=> Holds(u, e)
    BY <2>2, <2>3
  <2>5. e \in wal.pushed \/ (\E u \in Workers : Posting(u, e))
          => e \in wal'.pushed \/ (\E u \in Workers : Posting(u, e)')
    BY <1>4, <2>2
  <2> QED BY <1>1, <1>4, <2>1, <2>4, <2>5, Untouched
<1> QED BY <1>1, <1>5 DEF EInv

LEMMA DeliverElements ==
  ASSUME WInv, EInv, NEW w \in Workers, Deliver(w)
  PROVE  EInv'
<1>1. /\ todo[w] # <<>> /\ Head(todo[w]).op \in {"popped", "unlogged"} /\ Continues(w)
      /\ wal' = IF Head(todo[w]).op = "popped" THEN [wal EXCEPT !.popped = @ \cup {Head(todo[w]).e}]
                ELSE wal
      /\ fate' = [fate EXCEPT ![Head(todo[w]).e] =
                    IF conn[Head(todo[w]).c] = "open" THEN Head(todo[w]).c ELSE "lost"]
      /\ UNCHANGED <<lists, conn, pushed>>
  BY DEF Deliver, At, bounds
<1>2. PICK v, c : v = todo[w][1].e /\ c = todo[w][1].c
  OBVIOUS
<1>3. /\ Head(todo[w]) = todo[w][1] /\ wal \in [pushed : SUBSET Nat, popped : SUBSET Nat]
      /\ v \in 1..MaxElements /\ c \in Clients /\ todo[w][1].op = "popped"
      /\ fate \in [1..MaxElements -> Clients \cup {NULL, "lost", "swallowed"}]
  BY <1>1, <1>2, AtFacts DEF WInv, Shape, Fits, Asking, Handing
<1>4. /\ wal'.pushed = wal.pushed /\ wal'.popped = wal.popped \cup {v}
      /\ fate'[v] \in Clients \cup {"lost"} /\ \A e \in 1..MaxElements \ {v} : fate'[e] = fate[e]
  BY <1>1, <1>2, <1>3
<1>5. fate'[v] \notin {NULL, "swallowed"}
  BY <1>4, BlockListAssumption
<1>6. ASSUME NEW e \in 1..MaxElements PROVE OnePlace(e)'
  <2>1. OnePlace(e) /\ \A k \in Keys : Lies(k, e)' <=> Lies(k, e)
    BY <1>1 DEF EInv, Lies
  <2>2. /\ \A u \in Workers : Holds(u, e)' <=> u # w /\ Holds(u, e)
        /\ \A u \in Workers : Posting(u, e) => Posting(u, e)'
    BY <1>1, <1>3, HoldsOn
  <2>3. Holds(w, e) <=> e = v
    BY <1>1, <1>2, <1>3, HoldsFacts
  <2>4. CASE e # v
    <3>1. \A u \in Workers : Holds(u, e)' <=> Holds(u, e)
      BY <2>2, <2>3, <2>4
    <3> QED BY <1>1, <1>4, <2>1, <2>2, <2>4, <3>1, Untouched
  <2>5. CASE e = v
    <3>1. e <= pushed /\ \A k \in Keys : ~Lies(k, e)'
      BY <2>1, <2>3, <2>5 DEF OnePlace
    <3>2. \A u \in Workers : ~Holds(u, e)'
      BY <2>1, <2>2, <2>3, <2>5 DEF OnePlace
    <3>3. e \in wal'.pushed \/ \E u \in Workers : Posting(u, e)'
      BY <1>4, <2>1, <2>2, <3>1 DEF OnePlace
    <3>4. pushed' = pushed /\ pushed \in Nat /\ e \in Nat
      BY <1>1 DEF WInv, Shape
    <3> QED BY <1>4, <1>5, <2>5, <3>1, <3>2, <3>3, <3>4 DEF OnePlace
  <2> QED BY <2>4, <2>5
<1> QED BY <1>1, <1>6 DEF EInv

\* The lists m are those of the store without v.
Without(m, v) ==
  /\ \A j \in Keys : Once(m[j])
  /\ \A e \in 1..MaxElements, j \in Keys : Among(e, m[j]) <=> Lies(j, e) /\ e # v

\* A list that gives up its first or last element.
LEMMA PoppedOff ==
  ASSUME WInv, EInv, NEW k \in Keys, lists[k] # <<>>, NEW b \in BOOLEAN,
         NEW m, m = [lists EXCEPT ![k] = Left(@, b)], NEW v, v = Popped(lists[k], b)
  PROVE  v \in 1..MaxElements /\ Lies(k, v) /\ Without(m, v)
<1>1. /\ lists \in [Keys -> Seq(1..MaxElements)] /\ \A j \in Keys : Once(lists[j])
      /\ \A e \in 1..MaxElements : OnePlace(e)
  BY DEF WInv, Shape, EInv
<1>2. PICK l : l = lists[k]
  OBVIOUS
<1>3. l \in Seq(1..MaxElements) /\ l # <<>> /\ Once(l)
  BY <1>1, <1>2
<1>4. /\ v \in 1..MaxElements /\ Once(Left(l, b)) /\ Among(v, l)
      /\ \A e : Among(e, Left(l, b)) <=> Among(e, l) /\ e # v
  <2>1. v \in 1..MaxElements
    BY <1>2, <1>3, PopFacts
  <2> QED BY <1>2, <1>3, <2>1, LeftFacts
<1>5. m[k] = Left(l, b) /\ \A j \in Keys \ {k} : m[j] = lists[j]
  BY <1>1, <1>2
<1>6. \A j \in Keys : Once(m[j])
  BY <1>1, <1>4, <1>5
<1>7. Lies(k, v)
  BY <1>2, <1>4 DEF Lies
<1>8. ASSUME NEW e \in 1..MaxElements, NEW j \in Keys
      PROVE  Among(e, m[j]) <=> Lies(j, e) /\ e # v
  <2>1. CASE j = k
    BY <1>2, <1>4, <1>5, <2>1 DEF Lies
  <2>2. CASE j # k
    <3>1. ~Lies(j, v)
      BY <1>1, <1>4, <1>7, <2>2 DEF OnePlace
    <3> QED BY <1>5, <2>2, <3>1 DEF Lies
  <2> QED BY <2>1, <2>2
<1> QED BY <1>4, <1>6, <1>7, <1>8 DEF Without

LEMMA PoppedElements ==
  ASSUME WInv, EInv, NEW k \in Keys, lists[k] # <<>>, NEW b \in BOOLEAN,
         lists' = [lists EXCEPT ![k] = Left(@, b)], NEW v, v = Popped(lists[k], b)
  PROVE  /\ v \in 1..MaxElements /\ Lies(k, v) /\ \A j \in Keys : Once(lists'[j])
         /\ \A e \in 1..MaxElements, j \in Keys : Lies(j, e)' <=> Lies(j, e) /\ e # v
<1>1. PICK m : m = lists'
  OBVIOUS
<1>2. m = [lists EXCEPT ![k] = Left(@, b)]
  BY <1>1
<1>3. v \in 1..MaxElements /\ Lies(k, v) /\ Without(m, v)
  BY <1>2, PoppedOff
<1> QED BY <1>1, <1>3 DEF Lies, Without

\* BLPop drops an empty string that it takes for none.
LEMMA SwallowedElements ==
  ASSUME WInv, EInv, NEW k \in Keys, lists[k] # <<>>, NEW b \in BOOLEAN,
         lists' = [lists EXCEPT ![k] = Left(@, b)], NEW v, v = Popped(lists[k], b),
         fate' = [fate EXCEPT ![v] = "swallowed"], UNCHANGED <<wal, pushed>>,
         \A e \in 1..MaxElements, u \in Workers : Holds(u, e)' <=> Holds(u, e),
         \A e \in 1..MaxElements, u \in Workers : Posting(u, e) => Posting(u, e)'
  PROVE  EInv'
<1>1. /\ v \in 1..MaxElements /\ Lies(k, v) /\ \A j \in Keys : Once(lists'[j])
      /\ \A e \in 1..MaxElements, j \in Keys : Lies(j, e)' <=> Lies(j, e) /\ e # v
  BY PoppedElements
<1>2. /\ fate \in [1..MaxElements -> Clients \cup {NULL, "lost", "swallowed"}]
      /\ "swallowed" # NULL
  BY BlockListAssumption DEF WInv, Shape
<1>3. fate'[v] = "swallowed" /\ \A e \in 1..MaxElements \ {v} : fate'[e] = fate[e]
  BY <1>1, <1>2
<1>4. ASSUME NEW e \in 1..MaxElements PROVE OnePlace(e)'
  <2>1. OnePlace(e)
    BY DEF EInv
  <2>2. CASE e # v
    <3>1. \A j \in Keys : Lies(j, e)' <=> Lies(j, e)
      BY <1>1, <2>2
    <3> QED BY <1>3, <2>1, <2>2, <3>1, Untouched
  <2>3. CASE e = v
    <3>1. e <= pushed /\ fate[e] = NULL /\ e \notin wal.popped /\ \A u \in Workers : ~Holds(u, e)'
      BY <1>1, <2>1, <2>3 DEF OnePlace
    <3>2. \A j \in Keys : ~Lies(j, e)'
      BY <1>1, <2>3
    <3>3. e \in wal'.pushed \/ \E u \in Workers : Posting(u, e)'
      BY <2>1, <3>1 DEF OnePlace
    <3>4. pushed' = pushed /\ pushed \in Nat /\ e \in Nat /\ wal' = wal
      BY DEF WInv, Shape
    <3> QED BY <1>2, <1>3, <2>3, <3>1, <3>2, <3>3, <3>4 DEF OnePlace
  <2> QED BY <2>2, <2>3
<1> QED BY <1>1, <1>4 DEF EInv

\* Of the elements, w's handler takes v into its hands.
Takes(w, v) ==
  /\ \A e \in 1..MaxElements, u \in Workers : Holds(u, e)' <=> Holds(u, e) \/ (u = w /\ e = v)
  /\ \A e \in 1..MaxElements, u \in Workers : Posting(u, e) => Posting(u, e)'

\* A handler takes an element from a list.
LEMMA TakenElements ==
  ASSUME WInv, EInv, NEW k \in Keys, lists[k] # <<>>, NEW b \in BOOLEAN,
         lists' = [lists EXCEPT ![k] = Left(@, b)], NEW v, v = Popped(lists[k], b),
         UNCHANGED <<fate, wal, pushed>>, NEW w \in Workers, Takes(w, v)
  PROVE  EInv'
<1>1. /\ v \in 1..MaxElements /\ Lies(k, v) /\ \A j \in Keys : Once(lists'[j])
      /\ \A e \in 1..MaxElements, j \in Keys : Lies(j, e)' <=> Lies(j, e) /\ e # v
  BY PoppedElements
<1>a. /\ \A e \in 1..MaxElements, u \in Workers : Holds(u, e)' <=> Holds(u, e) \/ (u = w /\ e = v)
      /\ \A e \in 1..MaxElements, u \in Workers : Posting(u, e) => Posting(u, e)'
  BY DEF Takes
<1>2. ASSUME NEW e \in 1..MaxElements PROVE OnePlace(e)'
  <2>1. OnePlace(e)
    BY DEF EInv
  <2>2. CASE e # v
    <3>1. \A j \in Keys : Lies(j, e)' <=> Lies(j, e)
      BY <1>1, <2>2
    <3>2. \A u \in Workers : Holds(u, e)' <=> Holds(u, e)
      BY <1>a, <2>2
    <3> QED BY <1>a, <2>1, <3>1, <3>2, Untouched
  <2>3. CASE e = v
    <3>1. e <= pushed /\ fate[e] = NULL /\ \A u \in Workers : ~Holds(u, e)
      BY <1>1, <2>1, <2>3 DEF OnePlace
    <3>2. /\ \A j \in Keys : ~Lies(j, e)'
          /\ \A u \in Workers : Holds(u, e)' <=> u = w
      BY <1>1, <1>a, <2>3, <3>1
    <3>3. e \in wal'.pushed \/ \E u \in Workers : Posting(u, e)'
      BY <1>a, <2>1, <3>1 DEF OnePlace
    <3>4. e > pushed' => fate'[e] = NULL
      BY <3>1
    <3>5. e \in wal'.popped <=> fate'[e] \notin {NULL, "swallowed"}
      BY <2>1 DEF OnePlace
    <3> QED BY <3>1, <3>2, <3>3, <3>4, <3>5 DEF OnePlace
  <2> QED BY <2>2, <2>3
<1> QED BY <1>1, <1>2 DEF EInv

\* An element that no list has comes to one.
Lands(j, v) ==
  /\ \A k \in Keys : Once(lists'[k])
  /\ \A e : \A k \in Keys : Lies(k, e)' <=> Lies(k, e) \/ (k = j /\ e = v)

LEMMA AddedElements ==
  ASSUME WInv, NEW j \in Keys, NEW v \in 1..MaxElements, \A k \in Keys : Once(lists[k]),
         \A k \in Keys : ~Lies(k, v), lists'[j] \in {<<v>> \o lists[j], Append(lists[j], v)},
         \A k \in Keys \ {j} : lists'[k] = lists[k]
  PROVE  Lands(j, v)
<1>1. lists[j] \in Seq(1..MaxElements)
  BY DEF WInv, Shape
<1>2. PICK l, m : l = lists[j] /\ m = lists'[j]
  OBVIOUS
<1>3. Once(m) /\ \A e : Among(e, m) <=> Among(e, l) \/ e = v
  <2>1. l \in Seq(1..MaxElements) /\ Once(l) /\ m \in {<<v>> \o l, Append(l, v)}
    BY <1>1, <1>2
  <2>2. ~Among(v, l)
    BY <1>2 DEF Lies
  <2>3. Gains(m, l, v)
    BY <2>1, <2>2, AddedFacts
  <2> QED BY <2>3 DEF Gains
<1>4. \A k \in Keys : Once(lists'[k])
  BY <1>2, <1>3
<1>5. ASSUME NEW e, NEW k \in Keys PROVE Lies(k, e)' <=> Lies(k, e) \/ (k = j /\ e = v)
  BY <1>2, <1>3 DEF Lies
<1> QED BY <1>4, <1>5 DEF Lands

\* RPopLPush takes the last element of a list to the front of one, which may
\* be the same.
LEMMA MovedElements ==
  ASSUME WInv, EInv, NEW k \in Keys, lists[k] # <<>>, NEW j \in Keys, NEW v,
         v = Popped(lists[k], FALSE),
         lists' = [[lists EXCEPT ![k] = Left(@, FALSE)] EXCEPT ![j] = <<v>> \o @],
         UNCHANGED <<fate, wal, pushed>>,
         \A e \in 1..MaxElements, u \in Workers : Holds(u, e)' <=> Holds(u, e),
         \A e \in 1..MaxElements, u \in Workers : Posting(u, e) => Posting(u, e)'
  PROVE  EInv'
<1>1. PICK m : m = [lists EXCEPT ![k] = Left(@, FALSE)]
  OBVIOUS
<1>2. /\ v \in 1..MaxElements /\ Lies(k, v) /\ \A i \in Keys : Once(m[i])
      /\ \A e \in 1..MaxElements, i \in Keys : Among(e, m[i]) <=> Lies(i, e) /\ e # v
  <2>1. PICK b \in BOOLEAN : b = FALSE
    OBVIOUS
  <2>2. m = [lists EXCEPT ![k] = Left(@, b)] /\ v = Popped(lists[k], b)
    BY <1>1, <2>1
  <2>3. v \in 1..MaxElements /\ Lies(k, v) /\ Without(m, v)
    BY <2>2, PoppedOff
  <2> QED BY <2>3 DEF Without
<1>3. m \in [Keys -> Seq(1..MaxElements)]
  <2>1. lists \in [Keys -> Seq(1..MaxElements)]
    BY DEF WInv, Shape
  <2>2. Left(lists[k], FALSE) \in Seq(1..MaxElements)
    BY <2>1, PopFacts
  <2> QED BY <1>1, <2>1, <2>2
<1>4. lists' = [m EXCEPT ![j] = <<v>> \o @]
  BY <1>1
<1>5. PICK l, n : l = m[j] /\ n = <<v>> \o l
  OBVIOUS
<1>6. Once(n) /\ \A e : Among(e, n) <=> Among(e, l) \/ e = v
  <2>1. l \in Seq(1..MaxElements) /\ Once(l) /\ ~Among(v, l) /\ n \in {<<v>> \o l, Append(l, v)}
    BY <1>2, <1>3, <1>5
  <2>2. v \in 1..MaxElements
    BY <1>2
  <2>3. Gains(n, l, v)
    BY <2>1, <2>2, AddedFacts
  <2> QED BY <2>3 DEF Gains
<1>7. lists'[j] = n /\ \A i \in Keys \ {j} : lists'[i] = m[i]
  BY <1>3, <1>4, <1>5
<1>8. \A i \in Keys : Once(lists'[i])
  BY <1>2, <1>6, <1>7
<1>9. \A e \in 1..MaxElements, i \in Keys :
        Lies(i, e)' <=> (Lies(i, e) /\ e # v) \/ (i = j /\ e = v)
  <2> SUFFICES ASSUME NEW e \in 1..MaxElements, NEW i \in Keys
               PROVE  Lies(i, e)' <=> (Lies(i, e) /\ e # v) \/ (i = j /\ e = v)
    OBVIOUS
  <2>1. CASE i = j
    BY <1>2, <1>5, <1>6, <1>7, <2>1 DEF Lies
  <2>2. CASE i # j
    BY <1>2, <1>7, <2>2 DEF Lies
  <2> QED BY <2>1, <2>2
<1>10. ASSUME NEW e \in 1..MaxElements PROVE OnePlace(e)'
  <2>1. OnePlace(e)
    BY DEF EInv
  <2>2. CASE e # v
    <3>1. \A i \in Keys : Lies(i, e)' <=> Lies(i, e)
      BY <1>9, <2>2
    <3> QED BY <2>1, <3>1, Untouched
  <2>3. CASE e = v
    <3>1. e <= pushed /\ fate[e] = NULL /\ \A u \in Workers : ~Holds(u, e)'
      BY <1>2, <2>1, <2>3 DEF OnePlace
    <3>2. \A i \in Keys : Lies(i, e)' <=> i = j
      BY <1>9, <2>3
    <3>3. e \in wal'.pushed \/ \E u \in Workers : Posting(u, e)'
      BY <2>1, <3>1 DEF OnePlace
    <3>4. e > pushed' => fate'[e] = NULL
      BY <3>1
    <3>5. e \in wal'.popped <=> fate'[e] \notin {NULL, "swallowed"}
      BY <2>1 DEF OnePlace
    <3> QED BY <3>1, <3>2, <3>3, <3>4, <3>5 DEF OnePlace
  <2> QED BY <2>2, <2>3
<1> QED BY <1>8, <1>10 DEF EInv

\* The handler that sets out has no element yet, and when it has one, it is
\* its first step that says so.
LEMMA HoldsFrom ==
  ASSUME WInv, NEW w \in Workers, NEW q \in Seq(StepRecords), Does(w, q), q # <<>>, NEW e
  PROVE  /\ \A v \in Workers \ {w} : (Holds(v, e)' <=> Holds(v, e)) /\ (Posting(v, e)' <=> Posting(v, e))
         /\ Holds(w, e)' <=> q[1].op \in {"popped", "push"} /\ q[1].e = e
<1>1. todo'[w] = q /\ \A v \in Workers \ {w} : todo'[v] = todo[v]
  BY DEF Does, WInv, Shape
<1>2. Head(q) = q[1]
  BY TailFacts
<1>3. \A v \in Workers \ {w} : (Holds(v, e)' <=> Holds(v, e)) /\ (Posting(v, e)' <=> Posting(v, e))
  BY <1>1 DEF Holds, Posting, At
<1>4. Holds(w, e)' <=> q[1].op \in {"popped", "push"} /\ q[1].e = e
  BY <1>1, <1>2 DEF Holds, At
<1> QED BY <1>3, <1>4

LEMMA Empty ==
  ASSUME WInv, NEW w \in Workers, todo[w] = <<>> \/ todo[w][1].op \in Asking, NEW e
  PROVE  ~Holds(w, e) /\ ~Posting(w, e)
<1>1. CASE todo[w] = <<>>
  <2>1. Len(<<>>) = 0
    OBVIOUS
  <2> QED BY <1>1, <2>1 DEF Holds, Posting, At
<1>2. CASE todo[w] # <<>> /\ todo[w][1].op \in Asking
  <2>1. ~Holds(w, e)
    BY <1>2, HoldsFacts DEF Asking
  <2>2. PICK q : q = todo[w]
    OBVIOUS
  <2>3. \A i \in 1..Len(q) : i = 1 \/ Leads(q[1].op, q[i].op)
    <3>1. \A i, j \in 1..Len(q) : i < j => Leads(q[i].op, q[j].op)
      BY <2>2 DEF WInv, Handles, Chained
    <3>2. Len(q) \in Nat \ {0}
      BY <1>2, <2>2, AtFacts
    <3> QED BY <3>1, <3>2
  <2>4. \A i \in 1..Len(q) : q[i].op # "pushed"
    BY <1>2, <2>2, <2>3 DEF Leads, Asking
  <2> QED BY <2>1, <2>2, <2>4 DEF Posting
<1> QED BY <1>1, <1>2

LEMMA TryElements ==
  ASSUME WInv, EInv, NEW w \in Workers, Try(w)
  PROVE  EInv'
<1>0. PICK s : s = Head(todo[w])
  OBVIOUS
<1>a. PICK lpop, v : lpop = (s.e.cmd = "blpop") /\ v = Popped(lists[s.k], lpop)
  OBVIOUS
<1>1. /\ todo[w] # <<>> /\ s.op = "try" /\ UNCHANGED <<conn, block, wal, pushed>>
      /\ \/ Continues(w) /\ UNCHANGED <<lists, fate, missed>>
         \/ /\ lists[s.k] # <<>> /\ s.e.cmd = "brpoplpush"
            /\ lists' = IF s.e.to = NotAList THEN lists
                        ELSE [[lists EXCEPT ![s.k] = Left(@, lpop)] EXCEPT ![s.e.to] = <<v>> \o @]
            /\ Does(w, <<Step("answer", s.c, s.k, s.e)>>) /\ UNCHANGED fate
         \/ /\ lists[s.k] # <<>> /\ lists' = [lists EXCEPT ![s.k] = Left(@, lpop)]
            /\ fate' = [fate EXCEPT ![v] = "swallowed"] /\ Continues(w)
         \/ /\ lists[s.k] # <<>> /\ lists' = [lists EXCEPT ![s.k] = Left(@, lpop)]
            /\ Does(w, <<Step("popped", s.c, s.k, v)>>) /\ UNCHANGED fate
  BY <1>0, <1>a DEF Try, At, bounds
<1>2. s = todo[w][1] /\ s.c \in Clients /\ s.k \in Keys /\ Worker[s.c] = w /\ s.e \in Requests
  <2>1. s = todo[w][1] /\ s.c \in Clients /\ s.k \in Keys /\ Worker[s.c] = w /\ Fits(s)
    BY <1>0, <1>1, AtFacts, ZenonT(40)
  <2> QED BY <1>1, <2>1 DEF Fits, Asking
<1>3. lpop \in BOOLEAN /\ (s.e.cmd = "brpoplpush" => s.e.to \in Keys \cup {NotAList} /\ lpop = FALSE)
  BY <1>a, <1>2, RequestFacts
<1>4. \A e : ~Holds(w, e) /\ ~Posting(w, e)
  BY <1>1, <1>2, Empty DEF Asking
<1>5. CASE Continues(w) /\ UNCHANGED <<lists, fate, missed>>
  BY <1>1, <1>2, <1>5, QuietElements
<1>6. CASE /\ lists[s.k] # <<>> /\ s.e.cmd = "brpoplpush"
           /\ lists' = IF s.e.to = NotAList THEN lists
                       ELSE [[lists EXCEPT ![s.k] = Left(@, lpop)] EXCEPT ![s.e.to] = <<v>> \o @]
           /\ Does(w, <<Step("answer", s.c, s.k, s.e)>>) /\ UNCHANGED fate
  <2>1. PICK a, q : a = Step("answer", s.c, s.k, s.e) /\ q = <<a>>
    OBVIOUS
  <2>2. a \in StepRecords /\ a.op = "answer"
    BY <1>2, <2>1 DEF Step, StepRecords
  <2>3. q \in Seq(StepRecords) /\ q # <<>> /\ q[1] = a /\ Does(w, q)
    BY <1>6, <2>1, <2>2
  <2>4. /\ \A e \in 1..MaxElements, u \in Workers : Holds(u, e)' <=> Holds(u, e)
        /\ \A e \in 1..MaxElements, u \in Workers : Posting(u, e) => Posting(u, e)'
    BY <1>4, <2>2, <2>3, HoldsFrom
  <2>5. CASE s.e.to = NotAList
    <3>1. lists' = lists
      BY <1>6, <2>5
    <3>2. ASSUME NEW e \in 1..MaxElements PROVE OnePlace(e)'
      <4>1. OnePlace(e) /\ \A k \in Keys : Lies(k, e)' <=> Lies(k, e)
        BY <3>1 DEF EInv, Lies
      <4> QED BY <1>1, <1>6, <2>4, <4>1, Untouched
    <3> QED BY <3>1, <3>2 DEF EInv
  <2>6. CASE s.e.to # NotAList
    <3>1. s.e.to \in Keys /\ lpop = FALSE
      BY <1>3, <1>6, <2>6
    <3>2. PICK k, j : k = s.k /\ j = s.e.to
      OBVIOUS
    <3>3. /\ k \in Keys /\ j \in Keys /\ lists[k] # <<>> /\ v = Popped(lists[k], FALSE)
          /\ lists' = [[lists EXCEPT ![k] = Left(@, FALSE)] EXCEPT ![j] = <<v>> \o @]
          /\ UNCHANGED <<fate, wal, pushed>>
      BY <1>a, <1>1, <1>2, <1>6, <2>6, <3>1, <3>2
    <3> QED BY <2>4, <3>3, MovedElements
  <2> QED BY <2>5, <2>6
<1>7. CASE /\ lists[s.k] # <<>> /\ lists' = [lists EXCEPT ![s.k] = Left(@, lpop)]
           /\ fate' = [fate EXCEPT ![v] = "swallowed"] /\ Continues(w)
  <2>1. /\ \A e \in 1..MaxElements, u \in Workers : Holds(u, e)' <=> Holds(u, e)
        /\ \A e \in 1..MaxElements, u \in Workers : Posting(u, e) => Posting(u, e)'
    BY <1>1, <1>2, <1>4, <1>7, HoldsOn
  <2>2. PICK k : k = s.k
    OBVIOUS
  <2>3. /\ k \in Keys /\ lists[k] # <<>> /\ v = Popped(lists[k], lpop)
        /\ lists' = [lists EXCEPT ![k] = Left(@, lpop)]
    BY <1>a, <1>2, <1>7, <2>2
  <2> QED BY <1>1, <1>3, <1>7, <2>1, <2>3, SwallowedElements
<1>8. CASE /\ lists[s.k] # <<>> /\ lists' = [lists EXCEPT ![s.k] = Left(@, lpop)]
           /\ Does(w, <<Step("popped", s.c, s.k, v)>>) /\ UNCHANGED fate
  <2>1. PICK k : k = s.k
    OBVIOUS
  <2>2. /\ k \in Keys /\ lists[k] # <<>> /\ v = Popped(lists[k], lpop)
        /\ lists' = [lists EXCEPT ![k] = Left(@, lpop)]
    BY <1>a, <1>2, <1>8, <2>1
  <2>3. v \in 1..MaxElements
    BY <1>3, <2>2, PoppedElements
  <2>4. PICK a, q : a = Step("popped", s.c, s.k, v) /\ q = <<a>>
    OBVIOUS
  <2>5. a \in StepRecords /\ a.op = "popped" /\ a.e = v
    BY <1>2, <2>3, <2>4 DEF Step, StepRecords, Handing
  <2>6. q \in Seq(StepRecords) /\ q # <<>> /\ q[1] = a /\ Does(w, q)
    BY <1>8, <2>4, <2>5
  <2>7. ASSUME NEW e \in 1..MaxElements, NEW u \in Workers
        PROVE  /\ Holds(u, e)' <=> Holds(u, e) \/ (u = w /\ e = v)
               /\ Posting(u, e) => Posting(u, e)'
    BY <1>4, <2>5, <2>6, HoldsFrom
  <2>8. Takes(w, v)
    BY <2>7 DEF Takes
  <2> QED BY <1>1, <1>3, <1>8, <2>2, <2>8, TakenElements
<1> QED BY <1>1, <1>5, <1>6, <1>7, <1>8

LEMMA WakeBlockedListElements ==
  ASSUME WInv, EInv, NEW w \in Workers, WakeBlockedList(w)
  PROVE  EInv'
<1>0. PICK c, k, b, v : /\ c = Head(inbox[w])[1] /\ k = Head(inbox[w])[2]
                        /\ b = GetBlockContext(c) /\ v = Popped(lists[k], b.lpop)
  OBVIOUS
<1>1. /\ ~Busy(w) /\ inbox[w] # <<>> /\ UNCHANGED <<conn, wal, pushed>>
      /\ \/ UNCHANGED <<lists, todo, fate>>
         \/ /\ lists[k] # <<>> /\ lists' = [lists EXCEPT ![k] = Left(@, b.lpop)]
            /\ fate' = [fate EXCEPT ![v] = "swallowed"] /\ UNCHANGED todo
         \/ /\ lists[k] # <<>> /\ lists' = [lists EXCEPT ![k] = Left(@, b.lpop)]
            /\ Does(w, Serve(b, c, k, v)) /\ UNCHANGED fate
  BY <1>0 DEF WakeBlockedList, bounds
<1>2. c \in Clients /\ k \in Keys
  BY <1>0, <1>1, TaskFacts
<1>3. PICK lpop : lpop = b.lpop
  OBVIOUS
<1>4. b \in Blocks /\ lpop \in BOOLEAN /\ v = Popped(lists[k], lpop)
  BY <1>0, <1>2, <1>3, ContextFacts DEF Blocks
<1>5. \A e : ~Holds(w, e) /\ ~Posting(w, e)
  BY <1>1, Empty DEF Busy
<1>6. CASE UNCHANGED <<lists, todo, fate>>
  BY <1>1, <1>6, StillElements
<1>7. CASE /\ lists[k] # <<>> /\ lists' = [lists EXCEPT ![k] = Left(@, b.lpop)]
           /\ fate' = [fate EXCEPT ![v] = "swallowed"] /\ UNCHANGED todo
  <2>1. /\ \A e \in 1..MaxElements, u \in Workers : Holds(u, e)' <=> Holds(u, e)
        /\ \A e \in 1..MaxElements, u \in Workers : Posting(u, e) => Posting(u, e)'
    BY <1>7 DEF Holds, Posting, At
  <2>2. lists' = [lists EXCEPT ![k] = Left(@, lpop)]
    BY <1>3, <1>7
  <2> QED BY <1>1, <1>2, <1>4, <1>7, <2>1, <2>2, SwallowedElements
<1>8. CASE /\ lists[k] # <<>> /\ lists' = [lists EXCEPT ![k] = Left(@, b.lpop)]
           /\ Does(w, Serve(b, c, k, v)) /\ UNCHANGED fate
  <2>1. lists' = [lists EXCEPT ![k] = Left(@, lpop)]
    BY <1>3, <1>8
  <2>2. v \in 1..MaxElements
    BY <1>2, <1>4, <1>8, <2>1, PoppedElements
  <2>3. PICK o, x, y, q : /\ o = (IF b.push_key = NULL THEN "popped" ELSE "push")
                          /\ x = Step(o, c, k, v) /\ y = Step("clear", c, k, v) /\ q = <<x, y>>
    OBVIOUS
  <2>4. x \in StepRecords /\ y \in StepRecords /\ x.op \in {"popped", "push"} /\ x.e = v
    BY <1>2, <2>2, <2>3 DEF Step, StepRecords, Handing
  <2>5. q \in Seq(StepRecords) /\ q # <<>> /\ q[1] = x
    BY <2>3, <2>4
  <2>6. Does(w, q)
    BY <1>8, <2>3 DEF Serve
  <2>7. ASSUME NEW e \in 1..MaxElements, NEW u \in Workers
        PROVE  /\ Holds(u, e)' <=> Holds(u, e) \/ (u = w /\ e = v)
               /\ Posting(u, e) => Posting(u, e)'
    BY <1>5, <2>4, <2>5, <2>6, HoldsFrom
  <2>8. Takes(w, v)
    BY <2>7 DEF Takes
  <2> QED BY <1>1, <1>2, <1>4, <1>8, <2>1, <2>8, TakenElements
<1> QED BY <1>1, <1>6, <1>7, <1>8

LEMMA PushToElements ==
  ASSUME WInv, EInv, NEW w \in Workers, PushTo(w)
  PROVE  EInv'
<1>0. PICK s, b : s = Head(todo[w]) /\ b = block[s.c]
  OBVIOUS
<1>1. /\ todo[w] # <<>> /\ s.op = "push" /\ lists' = Repushed(b, s.k, s.e)
      /\ Does(w, <<Step("answer", s.c, s.k, s.e)>> \o Tail(todo[w]))
      /\ UNCHANGED <<wal, fate, pushed>>
  BY <1>0 DEF PushTo, At, bounds
<1>2. /\ s = todo[w][1] /\ s.c \in Clients /\ s.k \in Keys /\ s.e \in 1..MaxElements
      /\ s \in StepRecords
  BY <1>0, <1>1, AtFacts DEF Fits, Asking, Handing
<1>3. b \in Blocks /\ b.push_key # NULL
  BY <1>0, <1>1, <1>2 DEF WInv, Shape, Handles, At
<1>4. PICK v, j : v = s.e /\ j = IF b.push_key = NotAList THEN s.k ELSE b.push_key
  OBVIOUS
<1>5. /\ v \in 1..MaxElements /\ j \in Keys
      /\ lists'[j] \in {<<v>> \o lists[j], Append(lists[j], v)}
      /\ \A i \in Keys \ {j} : lists'[i] = lists[i]
  <2>1. PICK k : k = s.k
    OBVIOUS
  <2>2. k \in Keys /\ v \in 1..MaxElements /\ lists' = Repushed(b, k, v)
        /\ j = IF b.push_key = NotAList THEN k ELSE b.push_key
    BY <1>1, <1>2, <1>4, <2>1
  <2>3. /\ j \in Keys /\ Repushed(b, k, v)[j] \in {<<v>> \o lists[j], Append(lists[j], v)}
        /\ \A i \in Keys \ {j} : Repushed(b, k, v)[i] = lists[i]
    BY <1>3, <2>2, RepushedFacts, ZenonT(40)
  <2> QED BY <2>2, <2>3
<1>6. Holds(w, v)
  BY <1>1, <1>2, <1>4, HoldsFacts
<1>7. OnePlace(v) /\ (\A k \in Keys : Once(lists[k])) /\ \A k \in Keys : ~Lies(k, v)
  BY <1>5, <1>6 DEF EInv, OnePlace
<1>8. /\ \A k \in Keys : Once(lists'[k])
      /\ \A e : \A k \in Keys : Lies(k, e)' <=> Lies(k, e) \/ (k = j /\ e = v)
  <2>1. Lands(j, v)
    BY <1>5, <1>7, AddedElements
  <2> QED BY <2>1 DEF Lands
<1>9. PICK a, t, q : a = Step("answer", s.c, s.k, s.e) /\ t = Tail(todo[w]) /\ q = <<a>> \o t
  OBVIOUS
<1>10. a \in StepRecords /\ a.op = "answer"
  <2>1. s.e \in Nat
    BY <1>2
  <2> QED BY <1>2, <1>9, <2>1 DEF Step, StepRecords
<1>11. q \in Seq(StepRecords) /\ q # <<>> /\ q[1] = a
  <2>1. t \in Seq(StepRecords) /\ <<a>> \in Seq(StepRecords) /\ Len(<<a>>) = 1 /\ <<a>>[1] = a
    BY <1>1, <1>9, <1>10, AtFacts
  <2>2. /\ q \in Seq(StepRecords) /\ Len(q) = Len(<<a>>) + Len(t) /\ Len(t) \in Nat
        /\ \A i \in 1..(Len(<<a>>) + Len(t)) : q[i] = IF i <= Len(<<a>>) THEN <<a>>[i] ELSE t[i - Len(<<a>>)]
    BY <1>9, <2>1, ConcatProperties, LenProperties
  <2> QED BY <2>1, <2>2, EmptySeq
<1>12. \A e : ~Posting(w, e)
  <2>1. PICK p : p = todo[w]
    OBVIOUS
  <2>2. \A i, n \in 1..Len(p) : i < n => Leads(p[i].op, p[n].op)
    BY <2>1 DEF WInv, Handles, Chained
  <2>3. Len(p) \in Nat \ {0}
    BY <1>1, <2>1, AtFacts
  <2>4. \A i \in 1..Len(p) : p[i].op # "pushed"
    BY <1>1, <1>2, <2>1, <2>2, <2>3 DEF Leads, Asking
  <2> QED BY <2>1, <2>4 DEF Posting
<1>13. Does(w, q)
  BY <1>1, <1>9
<1>14. ASSUME NEW e \in 1..MaxElements PROVE OnePlace(e)'
  <2>1. OnePlace(e)
    BY DEF EInv
  <2>2. /\ \A u \in Workers : Holds(u, e)' <=> Holds(u, e) /\ u # w
        /\ \A u \in Workers : Posting(u, e) => Posting(u, e)'
    <3>1. /\ \A u \in Workers \ {w} : Holds(u, e)' <=> Holds(u, e)
          /\ \A u \in Workers \ {w} : Posting(u, e)' <=> Posting(u, e)
          /\ ~Holds(w, e)'
      BY <1>10, <1>11, <1>13, HoldsFrom
    <3> QED BY <1>12, <3>1
  <2>3. CASE e # v
    <3>1. ~Holds(w, e)
      BY <1>2, <1>4, <2>3, HoldsFacts
    <3>2. \A k \in Keys : Lies(k, e)' <=> Lies(k, e)
      BY <1>8, <2>3
    <3>3. \A u \in Workers : Holds(u, e)' <=> Holds(u, e)
      BY <2>2, <3>1
    <3> QED BY <1>1, <2>1, <2>2, <3>2, <3>3, Untouched
  <2>4. CASE e = v
    <3>1. e <= pushed /\ fate[e] = NULL /\ \A u \in Workers : ~Holds(u, e)'
      BY <1>6, <2>1, <2>2, <2>4 DEF OnePlace
    <3>2. \A k \in Keys : Lies(k, e)' <=> k = j
      BY <1>7, <1>8, <2>4
    <3>3. e \in wal'.pushed \/ \E u \in Workers : Posting(u, e)'
      BY <1>1, <2>1, <2>2, <3>1 DEF OnePlace
    <3>4. /\ e > pushed' => fate'[e] = NULL
          /\ e \in wal'.popped <=> fate'[e] \notin {NULL, "swallowed"}
      BY <1>1, <2>1, <3>1 DEF OnePlace
    <3> QED BY <1>1, <1>5, <3>1, <3>2, <3>3, <3>4 DEF OnePlace
  <2> QED BY <2>3, <2>4
<1> QED BY <1>8, <1>14 DEF EInv

LEMMA PushElements ==
  ASSUME WInv, EInv, NEW w \in Workers, todo[w] = <<>>, NEW c \in Clients, Worker[c] = w,
         NEW r \in Requests, Push(c, r), UNCHANGED <<conn, block, fate, wal>>
  PROVE  EInv'
<1>1. PICK k, v : k = r.keys[1] /\ v = pushed + 1
  OBVIOUS
<1>2. /\ pushed' = pushed + 1 /\ pushed \in Nat /\ pushed' \in 0..MaxElements /\ k \in Keys
      /\ lists'[k] \in {<<v>> \o lists[k], Append(lists[k], v)}
      /\ \A j \in Keys \ {k} : lists'[j] = lists[j]
      /\ todo'[w] = <<Step("wake", c, k, v), Step("pushed", c, k, v)>>
      /\ \A u \in Workers \ {w} : todo'[u] = todo[u]
  BY <1>1, PushFacts, SMTT(30)
<1>3. v \in 1..MaxElements /\ MaxElements \in Nat
  BY <1>1, <1>2, BlockListAssumption
<1>4. OnePlace(v) /\ (\A j \in Keys : Once(lists[j]))
  BY <1>3 DEF EInv
<1>5. /\ \A j \in Keys : ~Lies(j, v)
      /\ \A u \in Workers : ~Holds(u, v)
      /\ fate[v] = NULL /\ v \notin wal.popped
  <2>1. ~(v <= pushed) /\ v > pushed
    BY <1>1, <1>2
  <2> QED BY <1>4, <2>1 DEF OnePlace
<1>6. /\ \A j \in Keys : Once(lists'[j])
      /\ \A e : \A j \in Keys : Lies(j, e)' <=> Lies(j, e) \/ (j = k /\ e = v)
  <2>1. Lands(k, v)
    BY <1>2, <1>3, <1>4, <1>5, AddedElements
  <2> QED BY <2>1 DEF Lands
<1>7. PICK a, b, q : a = Step("wake", c, k, v) /\ b = Step("pushed", c, k, v) /\ q = <<a, b>>
  OBVIOUS
<1>8. /\ a.op = "wake" /\ b.op = "pushed" /\ b.e = v /\ Len(q) = 2 /\ q[1] = a /\ q[2] = b
      /\ Head(q) = a /\ todo'[w] = q
  BY <1>2, <1>7 DEF Step
<1>9. \A e : ~Holds(w, e) /\ ~Posting(w, e)
  BY Empty
<1>10. ~At(w, "popped")' /\ ~At(w, "push")'
  BY <1>8 DEF At
<1>12. \A e : \A u \in Workers : Holds(u, e)' <=> Holds(u, e)
  <2> SUFFICES ASSUME NEW e, NEW u \in Workers PROVE Holds(u, e)' <=> Holds(u, e)
    OBVIOUS
  <2>1. CASE u = w
    BY <1>9, <1>10, <2>1 DEF Holds
  <2>2. CASE u # w
    BY <1>2, <2>2 DEF Holds, At
  <2> QED BY <2>1, <2>2
<1>13. \A e : \A u \in Workers : Posting(u, e) => Posting(u, e)'
  <2> SUFFICES ASSUME NEW e, NEW u \in Workers, Posting(u, e) PROVE Posting(u, e)'
    OBVIOUS
  <2>1. u # w
    BY <1>9
  <2> QED BY <1>2, <2>1 DEF Posting
<1>14. Posting(w, v)'
  <2>1. 2 \in 1..Len(q) /\ q[2].op = "pushed" /\ q[2].e = v
    BY <1>8
  <2> QED BY <1>8, <2>1 DEF Posting
<1>15. ASSUME NEW e \in 1..MaxElements PROVE OnePlace(e)'
  <2>1. OnePlace(e)
    BY DEF EInv
  <2>2. CASE e # v
    <3>1. (e <= pushed' <=> e <= pushed) /\ (e > pushed' <=> e > pushed)
      BY <1>1, <1>2, <1>3, <2>2
    <3>2. \A j \in Keys : Lies(j, e)' <=> Lies(j, e)
      BY <1>6, <2>2
    <3>3. \A u \in Workers : Holds(u, e)' <=> Holds(u, e)
      BY <1>12
    <3>4. e \in wal.pushed \/ (\E u \in Workers : Posting(u, e))
            => e \in wal'.pushed \/ (\E u \in Workers : Posting(u, e)')
      BY <1>13
    <3> QED BY <2>1, <3>1, <3>2, <3>3, <3>4, Untouched
  <2>3. CASE e = v
    <3>1. e <= pushed' /\ ~(e > pushed')
      BY <1>1, <1>2, <2>3
    <3>2. \A j \in Keys : Lies(j, e)' <=> j = k
      BY <1>5, <1>6, <2>3
    <3>3. \A u \in Workers : ~Holds(u, e)'
      BY <1>5, <1>12, <2>3
    <3>4. fate'[e] = NULL /\ e \notin wal'.popped
      BY <1>5, <2>3
    <3>5. \E u \in Workers : Posting(u, e)'
      BY <1>14, <2>3
    <3> QED BY <1>2, <3>1, <3>2, <3>3, <3>4, <3>5 DEF OnePlace
  <2> QED BY <2>2, <2>3
<1> QED BY <1>6, <1>15 DEF EInv

LEMMA CallElements ==
  ASSUME WInv, EInv, NEW w \in Workers, Call(w)
  PROVE  EInv'
<1>0. PICK c, r : c = Head(unread[w])[1] /\ r = Head(unread[w])[2]
  OBVIOUS
<1>1. /\ todo[w] = <<>> /\ unread[w] # <<>> /\ UNCHANGED <<block, conn, wal, fate>>
      /\ \/ Push(c, r)
         \/ UNCHANGED <<lists, todo, pushed>>
         \/ /\ r.cmd \in {"blpop", "brpop", "brpoplpush"} /\ Does(w, Blocking(c, r))
            /\ UNCHANGED <<lists, pushed>>
  BY <1>0 DEF Call
<1>2. c \in Clients /\ r \in Requests /\ Worker[c] = w
  BY <1>0, <1>1, ReadFacts
<1>3. CASE Push(c, r)
  BY <1>1, <1>2, <1>3, PushElements
<1>4. CASE UNCHANGED <<lists, todo, pushed>>
  BY <1>1, <1>4, StillElements
<1>5. CASE /\ r.cmd \in {"blpop", "brpop", "brpoplpush"} /\ Does(w, Blocking(c, r))
           /\ UNCHANGED <<lists, pushed>>
  <2>1. PICK q : q = Blocking(c, r)
    OBVIOUS
  <2>2. q \in Seq(StepRecords) /\ q # <<>> /\ q[1].op = "try" /\ Does(w, q)
    BY <1>2, <1>5, <2>1, BlockingFacts
  <2>3. ASSUME NEW e \in 1..MaxElements PROVE OnePlace(e)'
    <3>1. OnePlace(e) /\ \A k \in Keys : Lies(k, e)' <=> Lies(k, e)
      BY <1>5 DEF EInv, Lies
    <3>2. /\ \A u \in Workers \ {w} : Holds(u, e)' <=> Holds(u, e)
          /\ \A u \in Workers \ {w} : Posting(u, e)' <=> Posting(u, e)
          /\ ~Holds(w, e)'
      BY <2>2, HoldsFrom
    <3>3. ~Holds(w, e) /\ ~Posting(w, e)
      BY <1>1, Empty
    <3>4. /\ \A u \in Workers : Holds(u, e)' <=> Holds(u, e)
          /\ \A u \in Workers : Posting(u, e) => Posting(u, e)'
      BY <3>2, <3>3
    <3> QED BY <1>1, <1>5, <3>1, <3>4, Untouched
  <2> QED BY <1>5, <2>3 DEF EInv
<1> QED BY <1>1, <1>3, <1>4, <1>5

LEMMA ContinueElements ==
  ASSUME WInv, EInv, NEW w \in Workers,
         Block(w) \/ AddBlockKey(w) \/ WakeBlockingListsByKey(w) \/ Answer(w) \/ Unblock(w)
  PROVE  EInv'
<1>1. /\ todo[w] # <<>> /\ Head(todo[w]).op \in {"block", "register", "wake", "answer", "clear"}
      /\ Continues(w) /\ UNCHANGED <<lists, fate, wal, pushed, conn>>
  BY DEF Block, AddBlockKey, WakeBlockingListsByKey, Answer, Unblock, At, bounds
<1>2. Head(todo[w]) = todo[w][1]
  BY <1>1, AtFacts
<1> QED BY <1>1, <1>2, QuietElements

LEMMA NextElements ==
  ASSUME WInv, EInv, [Next]_vars
  PROVE  EInv'
<1>1. CASE UNCHANGED vars
  BY <1>1, StillElements DEF vars, sched, bounds
<1>2. ASSUME NEW c \in Clients, NEW b \in Sends[c], Read(c, b) PROVE EInv'
  BY <1>2, StillElements DEF Read
<1>3. ASSUME NEW w \in Workers, Handle(w) PROVE EInv'
  BY <1>3, CallElements, TryElements, PushToElements, WriteWALElements, DeliverElements,
     WakeBlockedListElements, ContinueElements DEF Handle
<1>4. ASSUME NEW c \in Clients, Expire(c) \/ FreeClientContext(c) \/ DeleteChannel(c) PROVE EInv'
  BY <1>4, StillElements DEF Expire, BlockListTimeout, FreeClientContext, DeleteChannel, sched, bounds
<1> QED BY <1>1, <1>2, <1>3, <1>4 DEF Next

LEMMA InitElements ==
  ASSUME Init
  PROVE  EInv
<1>1. Len(<<>>) = 0 /\ \A k \in Keys : lists[k] = <<>>
  BY DEF Init
<1>2. \A w \in Workers : todo[w] = <<>>
  BY DEF Init
<1>3. ASSUME NEW e \in 1..MaxElements PROVE OnePlace(e)
  <2>1. /\ \A k \in Keys : ~Lies(k, e) /\ \A w \in Workers : ~Holds(w, e)
        /\ ~(e <= pushed) /\ fate[e] = NULL /\ wal.popped = {}
    BY <1>1, <1>2 DEF Init, Lies, Among, Holds, At
  <2> QED BY <2>1, <1>2 DEF OnePlace, Holds, At
<1> QED BY <1>1, <1>3 DEF EInv, Once

LEMMA SpotsFacts ==
  ASSUME WInv, EInv, NEW e \in 1..MaxElements
  PROVE  /\ (\A k \in Keys : ~Lies(k, e)) => Spots(e) = {}
         /\ (\E k \in Keys : Lies(k, e)) => \E x : Spots(e) = {x}
<1>1. \A k \in Keys : DOMAIN lists[k] = 1..Len(lists[k])
  BY LenProperties DEF WInv, Shape
<1>2. Spots(e) = {x \in Spots(e) : \E k \in Keys : \E i \in 1..Len(lists[k]) :
                                     lists[k][i] = e /\ x = <<k, i>>}
  BY <1>1 DEF Spots
<1>3. (\A k \in Keys : ~Lies(k, e)) => Spots(e) = {}
  BY <1>2 DEF Lies, Among
<1>4. ASSUME NEW k \in Keys, Lies(k, e) PROVE \E x : Spots(e) = {x}
  <2>1. PICK i \in 1..Len(lists[k]) : lists[k][i] = e
    BY <1>4 DEF Lies, Among
  <2>2. <<k, i>> \in Spots(e)
    BY <1>1, <2>1 DEF Spots
  <2>3. ASSUME NEW x \in Spots(e) PROVE x = <<k, i>>
    <3>1. PICK j \in Keys : \E n \in 1..Len(lists[j]) : lists[j][n] = e /\ x = <<j, n>>
      BY <1>2
    <3>2. PICK n \in 1..Len(lists[j]) : lists[j][n] = e /\ x = <<j, n>>
      BY <3>1
    <3>3. j = k
      BY <1>4, <3>2 DEF EInv, OnePlace, Lies, Among
    <3>4. n = i
      BY <2>1, <3>2, <3>3 DEF EInv, Once
    <3> QED BY <3>2, <3>3, <3>4
  <2>4. Spots(e) = {<<k, i>>}
    BY <2>2, <2>3
  <2> QED BY <2>4
<1> QED BY <1>3, <1>4

LEMMA HeldFacts ==
  ASSUME WInv, EInv, NEW e \in 1..MaxElements
  PROVE  /\ (\A w \in Workers : ~Holds(w, e)) => Held(e) = {}
         /\ (\E w \in Workers : Holds(w, e)) => \E x : Held(e) = {x}
<1>1. ASSUME NEW w \in Workers PROVE w \in Held(e) <=> Holds(w, e)
  <2>1. PICK q : q = todo[w]
    OBVIOUS
  <2>2. /\ q \in Seq(StepRecords) /\ \A i \in 1..Len(q) : Fits(q[i])
        /\ \A i, j \in 1..Len(q) : i < j => Leads(q[i].op, q[j].op)
    BY <2>1 DEF WInv, Shape, Handles, Chained
  <2>3. DOMAIN q = 1..Len(q) /\ Len(q) \in Nat /\ \A i \in 1..Len(q) : q[i] \in StepRecords
    BY <2>2, LenProperties
  <2>4. w \in Held(e) <=> \E i \in 1..Len(q) : q[i].op \in {"push", "popped", "unlogged"} /\ q[i].e = e
    BY <2>1, <2>3 DEF Held
  <2>5. \A i \in 1..Len(q) : q[i].op \in {"push", "popped", "unlogged"} => i = 1 /\ q[i].op # "unlogged"
    <3> SUFFICES ASSUME NEW i \in 1..Len(q), q[i].op \in {"push", "popped", "unlogged"}
                 PROVE  i = 1 /\ q[i].op # "unlogged"
      OBVIOUS
    <3>1. ~Leads(q[1].op, q[i].op)
      BY DEF Leads, Asking
    <3>2. q[i].op # "unlogged"
      BY <2>3 DEF StepRecords, Asking, Handing
    <3> QED BY <2>2, <2>3, <3>1, <3>2
  <2>6. q # <<>> <=> 1 \in 1..Len(q)
    BY <2>2, EmptySeq, LenProperties
  <2> QED BY <2>1, <2>4, <2>5, <2>6, HoldsFacts
<1>2. Held(e) \subseteq Workers
  BY DEF Held
<1>3. (\A w \in Workers : ~Holds(w, e)) => Held(e) = {}
  BY <1>1, <1>2
<1>4. ASSUME NEW w \in Workers, Holds(w, e) PROVE Held(e) = {w}
  <2>1. \A v \in Workers : Holds(v, e) => v = w
    BY <1>4 DEF EInv, OnePlace
  <2> QED BY <1>1, <1>2, <1>4, <2>1
<1> QED BY <1>3, <1>4

LEMMA ElementsAccounted ==
  ASSUME WInv, EInv
  PROVE  Accounted
<1>1. pushed \in Nat /\ pushed <= MaxElements /\ MaxElements \in Nat
  BY BlockListAssumption DEF WInv, Shape
<1>2. ASSUME NEW e \in 1..pushed
      PROVE  Cardinality(Spots(e)) + Cardinality(Held(e)) + (IF fate[e] = NULL THEN 0 ELSE 1) = 1
  <2>1. e \in 1..MaxElements /\ e <= pushed
    BY <1>1
  <2>2. OnePlace(e)
    BY <2>1 DEF EInv
  <2>3. Cardinality({}) = 0 /\ \A x : Cardinality({x}) = 1
    BY FS_EmptySet, FS_Singleton
  <2>4. CASE \E k \in Keys : Lies(k, e)
    <3>1. fate[e] = NULL /\ \A w \in Workers : ~Holds(w, e)
      BY <2>1, <2>2, <2>4 DEF OnePlace
    <3>2. Cardinality(Spots(e)) = 1 /\ Cardinality(Held(e)) = 0
      BY <2>1, <2>3, <2>4, <3>1, SpotsFacts, HeldFacts
    <3> QED BY <3>1, <3>2
  <2>5. CASE (\A k \in Keys : ~Lies(k, e)) /\ \E w \in Workers : Holds(w, e)
    <3>1. fate[e] = NULL
      BY <2>1, <2>2, <2>5 DEF OnePlace
    <3>2. Cardinality(Spots(e)) = 0 /\ Cardinality(Held(e)) = 1
      BY <2>1, <2>3, <2>5, SpotsFacts, HeldFacts
    <3> QED BY <3>1, <3>2
  <2>6. CASE (\A k \in Keys : ~Lies(k, e)) /\ \A w \in Workers : ~Holds(w, e)
    <3>1. fate[e] # NULL
      BY <2>1, <2>2, <2>6 DEF OnePlace
    <3>2. Cardinality(Spots(e)) = 0 /\ Cardinality(Held(e)) = 0
      BY <2>1, <2>3, <2>6, SpotsFacts, HeldFacts
    <3> QED BY <3>1, <3>2
  <2> QED BY <2>4, <2>5, <2>6
<1>3. ASSUME \A w \in Workers : todo[w] = <<>>, NEW e \in 1..pushed
      PROVE  e \in wal.pushed /\ (e \in wal.popped <=> fate[e] # NULL /\ fate[e] # "swallowed")
  <2>1. e \in 1..MaxElements /\ e <= pushed
    BY <1>1
  <2>2. OnePlace(e)
    BY <2>1 DEF EInv
  <2>3. \A w \in Workers : ~Posting(w, e)
    BY <1>3, Empty
  <2> QED BY <2>1, <2>2, <2>3 DEF OnePlace
<1> QED BY <1>2, <1>3 DEF Accounted, Conserved, Logged

\* No element pushed is lost or held twice between the lists, the handlers of
\* all the workers and the clients: wherever a wake-up, a timeout or a closed
\* connection comes in between a pop and its reply, the element is in one
\* place, or dropped in one of the two ways the code drops it; and when the
\* handlers are done the log has its push, and its pop if it was taken.
THEOREM ElementsTheorem == Spec => []Accounted
<1>1. Init => WInv /\ EInv
  BY InitWaits, InitElements
<1>2. WInv /\ EInv /\ [Next]_vars => (WInv /\ EInv)'
  BY NextWaits, NextElements
<1>3. WInv /\ EInv => Accounted
  BY ElementsAccounted
<1> QED BY <1>1, <1>2, <1>3, PTL DEF Spec
-----------------------------------------------------------------------------
(***************************************************************************)
(* The wake-ups.                                                           *)
(***************************************************************************)
LEMMA WorkersFinite == IsFiniteSet(Workers)
<1> DEFINE f == [c \in Clients |-> Worker[c]]
<1>1. f \in Surjection(Clients, Workers)
  BY DEF Surjection, Workers
<1> QED BY <1>1, BlockListAssumption, FS_Surjection

LEMMA CountFacts ==
  ASSUME WInv, NEW c \in Clients, NEW k \in Keys
  PROVE  /\ IsFiniteSet(Posted(c, k)) /\ Cardinality(Posted(c, k)) \in Nat
         /\ IsFiniteSet(Waking(k)) /\ Cardinality(Waking(k)) \in Nat
         /\ Len(lists[k]) \in Nat
<1>1. PICK w \in Workers : w = Worker[c]
  BY DEF Workers
<1>2. Len(inbox[w]) \in Nat /\ Len(lists[k]) \in Nat
  BY LenProperties DEF WInv, Shape
<1>3. IsFiniteSet(1..Len(inbox[w]))
  BY <1>2, FS_Interval
<1>4. Posted(c, k) \subseteq 1..Len(inbox[w]) /\ Waking(k) \subseteq Workers
  BY <1>1 DEF Posted, Waking
<1>5. IsFiniteSet(Posted(c, k)) /\ IsFiniteSet(Waking(k))
  BY <1>3, <1>4, WorkersFinite, FS_Subset
<1> QED BY <1>2, <1>5, FS_CardinalityType

LEMMA CoveredKept ==
  ASSUME WInv, WInv', NEW c \in Clients, NEW k \in Keys, Covered(c, k),
         c \in table'[k] => c \in table[k],
         c \in table'[k] /\ <<c, k>> \in missed => <<c, k>> \in missed',
         Clearing(c) => Clearing(c)', Len(lists'[k]) <= Len(lists[k]),
         Posted(c, k)' = Posted(c, k), Waking(k)' = Waking(k)
  PROVE  Covered(c, k)'
<1>1. /\ Cardinality(Posted(c, k)) \in Nat /\ Cardinality(Waking(k)) \in Nat
      /\ Len(lists[k]) \in Nat /\ Len(lists'[k]) \in Nat
  <2>1. Len(lists'[k]) \in Nat
    BY LenProperties DEF WInv, Shape
  <2> QED BY <2>1, CountFacts
<1> QED BY <1>1 DEF Covered

\* The handlers of which a step is no wake-up and no end of a wait.
LEMMA ClearingFacts ==
  ASSUME WInv, NEW w \in Workers, todo[w] = <<>> \/ todo[w][1].op \in Asking,
         NEW c \in Clients, Worker[c] = w
  PROVE  ~Clearing(c)
<1>1. PICK q : q = todo[w]
  OBVIOUS
<1>2. \A i \in 1..Len(q) : q[i].op # "clear"
  <2>1. CASE q = <<>>
    <3>1. Len(<<>>) = 0
      OBVIOUS
    <3> QED BY <2>1, <3>1
  <2>2. CASE q # <<>>
    <3>1. \A i, j \in 1..Len(q) : i < j => Leads(q[i].op, q[j].op)
      BY <1>1 DEF WInv, Handles, Chained
    <3>2. Len(q) \in Nat \ {0}
      BY <1>1, <2>2, AtFacts
    <3>3. \A i \in 1..Len(q) : i = 1 \/ Leads(q[1].op, q[i].op)
      BY <3>1, <3>2
    <3> QED BY <1>1, <2>2, <3>3 DEF Leads, Asking
  <2> QED BY <2>1, <2>2
<1> QED BY <1>1, <1>2 DEF Clearing

LEMMA OnwardWakes ==
  ASSUME WInv, NEW w \in Workers, todo[w] # <<>>, Continues(w), pushed' = pushed, conn' = conn
  PROVE  /\ \A k \in Keys : Waking(k)' = Waking(k) \ {w}
         /\ todo[w][1].op # "wake" => w \notin UNION {Waking(k) : k \in Keys}
         /\ \A c \in Clients : \/ Clearing(c) => Clearing(c)'
                               \/ todo[w][1].op = "clear" /\ c = todo[w][1].c
<1>1. todo'[w] = Tail(todo[w]) /\ \A v \in Workers \ {w} : todo'[v] = todo[v]
  BY DEF Continues, Does, WInv, Shape
<1>2. ~At(w, "wake")'
  BY <1>1, GoesOn
<1>3. \A k \in Keys : Waking(k)' = Waking(k) \ {w}
  BY <1>1, <1>2 DEF Waking, At
<1>4. todo[w][1].op # "wake" => \A k \in Keys : w \notin Waking(k)
  <2>1. Head(todo[w]) = todo[w][1]
    BY AtFacts
  <2> QED BY <2>1 DEF Waking, At
<1>5. ASSUME NEW c \in Clients, Clearing(c)
      PROVE  Clearing(c)' \/ (todo[w][1].op = "clear" /\ c = todo[w][1].c)
  <2>1. CASE Worker[c] # w
    <3>1. todo'[Worker[c]] = todo[Worker[c]]
      BY <1>1, <2>1 DEF Workers
    <3> QED BY <1>5, <3>1 DEF Clearing
  <2>2. CASE Worker[c] = w
    <3>1. PICK q, t : q = todo[w] /\ t = Tail(q)
      OBVIOUS
    <3>2. PICK i \in 1..Len(q) : q[i].op = "clear" /\ q[i].c = c
      BY <1>5, <2>2, <3>1 DEF Clearing
    <3>3. CASE i = 1
      BY <3>1, <3>2, <3>3
    <3>4. CASE i # 1
      <4>1. /\ Len(q) \in Nat \ {0} /\ Len(t) = Len(q) - 1
            /\ \A n \in 1..(Len(q) - 1) : t[n] = q[n + 1]
        BY <3>1, AtFacts
      <4>2. i - 1 \in 1..Len(t) /\ t[i - 1] = q[i]
        BY <3>4, <4>1
      <4>3. \E n \in 1..Len(t) : t[n].op = "clear" /\ t[n].c = c
        BY <3>2, <4>2
      <4>4. todo'[Worker[c]] = t
        BY <1>1, <2>2, <3>1
      <4> QED BY <4>3, <4>4 DEF Clearing
    <3> QED BY <3>3, <3>4
  <2> QED BY <2>1, <2>2
<1> QED BY <1>3, <1>4, <1>5

LEMMA SetOutWakes ==
  ASSUME WInv, NEW w \in Workers, todo[w] = <<>> \/ todo[w][1].op \in Asking,
         NEW q \in Seq(StepRecords), q # <<>>, Does(w, q)
  PROVE  /\ \A k \in Keys : /\ w \notin Waking(k)
                            /\ Waking(k)' = Waking(k) \cup
                                 (IF q[1].op = "wake" /\ q[1].k = k THEN {w} ELSE {})
         /\ \A c \in Clients : Clearing(c) => Clearing(c)'
<1>1. todo'[w] = q /\ \A v \in Workers \ {w} : todo'[v] = todo[v]
  BY DEF Does, WInv, Shape
<1>2. Head(q) = q[1]
  BY TailFacts
<1>3. \A k \in Keys : w \notin Waking(k)
  <2>1. todo[w] # <<>> => Head(todo[w]) = todo[w][1]
    BY AtFacts
  <2> QED BY <2>1 DEF Waking, At, Asking
<1>4. ASSUME NEW k \in Keys
      PROVE  Waking(k)' = Waking(k) \cup (IF q[1].op = "wake" /\ q[1].k = k THEN {w} ELSE {})
  <2>1. Waking(k) \subseteq Workers /\ Waking(k)' \subseteq Workers
    BY DEF Waking
  <2>2. \A v \in Workers \ {w} : v \in Waking(k)' <=> v \in Waking(k)
    BY <1>1 DEF Waking, At
  <2>3. w \in Waking(k)' <=> q[1].op = "wake" /\ q[1].k = k
    BY <1>1, <1>2 DEF Waking, At
  <2> QED BY <1>3, <2>1, <2>2, <2>3
<1>5. ASSUME NEW c \in Clients, Clearing(c) PROVE Clearing(c)'
  <2>1. Worker[c] # w /\ Worker[c] \in Workers
    BY <1>5, ClearingFacts DEF Workers
  <2>2. todo'[Worker[c]] = todo[Worker[c]]
    BY <1>1, <2>1
  <2> QED BY <1>5, <2>2 DEF Clearing
<1> QED BY <1>3, <1>4, <1>5

\* A step that touches no list, no registration and no wake-up.
LEMMA StillWoken ==
  ASSUME WInv, WInv', CInv, UNCHANGED <<lists, inbox, todo>>,
         \A c \in Clients, k \in Keys :
           c \in table'[k] => c \in table[k] /\ (<<c, k>> \in missed => <<c, k>> \in missed')
  PROVE  CInv'
<1>1. ASSUME NEW c \in Clients, NEW k \in Keys PROVE Covered(c, k)'
  <2>1. /\ Covered(c, k)
        /\ Clearing(c) => Clearing(c)'
        /\ Posted(c, k)' = Posted(c, k) /\ Waking(k)' = Waking(k)
    BY DEF CInv, Clearing, Posted, Waking, At
  <2>2. Len(lists'[k]) <= Len(lists[k])
    BY CountFacts
  <2> QED BY <2>1, <2>2, CoveredKept
<1> QED BY <1>1 DEF CInv

\* A handler that goes on, and wakes nobody.
LEMMA QuietWakes ==
  ASSUME WInv, WInv', CInv, NEW w \in Workers, todo[w] # <<>>, Continues(w),
         UNCHANGED <<pushed, conn, inbox>>, todo[w][1].op \notin {"wake", "clear"},
         \A c \in Clients, k \in Keys :
           /\ c \in table'[k] => c \in table[k]
           /\ <<c, k>> \in missed => <<c, k>> \in missed'
           /\ Len(lists'[k]) <= Len(lists[k])
  PROVE  CInv'
<1>1. ASSUME NEW c \in Clients, NEW k \in Keys PROVE Covered(c, k)'
  <2>1. /\ Waking(k)' = Waking(k) \ {w} /\ w \notin Waking(k)
        /\ Clearing(c) => Clearing(c)'
    BY OnwardWakes
  <2>2. Covered(c, k) /\ Posted(c, k)' = Posted(c, k) /\ Waking(k)' = Waking(k)
    BY <2>1 DEF CInv, Posted
  <2> QED BY <2>1, <2>2, CoveredKept
<1> QED BY <1>1 DEF CInv

LEMMA ContinueWakes ==
  ASSUME WInv, WInv', CInv, NEW w \in Workers, WriteWAL(w) \/ Deliver(w) \/ Answer(w)
  PROVE  CInv'
<1>1. /\ todo[w] # <<>> /\ Head(todo[w]).op \in {"pushed", "popped", "unlogged", "answer"}
      /\ Continues(w) /\ UNCHANGED <<lists, table, missed, pushed, conn, inbox>>
  BY DEF WriteWAL, Deliver, Answer, At, bounds
<1>2. Head(todo[w]) = todo[w][1]
  BY <1>1, AtFacts
<1>3. \A k \in Keys : Len(lists'[k]) <= Len(lists[k])
  BY <1>1, LenProperties DEF WInv, Shape
<1> QED BY <1>1, <1>2, <1>3, QuietWakes

\* Where a client registers there is nothing to be woken for, or it has missed it.
LEMMA RegisterWakes ==
  ASSUME WInv, WInv', CInv, NEW w \in Workers, Block(w) \/ AddBlockKey(w)
  PROVE  CInv'
<1>0. PICK s : s = Head(todo[w])
  OBVIOUS
<1>1. /\ todo[w] # <<>> /\ s.op \in {"block", "register"} /\ Continues(w)
      /\ UNCHANGED <<lists, pushed, conn, inbox>>
      /\ table' = [table EXCEPT ![s.k] = @ \cup {s.c}]
      /\ missed' = IF lists[s.k] # <<>> THEN missed \cup {<<s.c, s.k>>} ELSE missed
  <2>1. \E b : Registers(s, b)
    BY <1>0, Zenon DEF Block, AddBlockKey
  <2>2. /\ table' = [table EXCEPT ![s.k] = @ \cup {s.c}]
        /\ missed' = IF lists[s.k] # <<>> THEN missed \cup {<<s.c, s.k>>} ELSE missed
    BY <2>1 DEF Registers
  <2> QED BY <1>0, <2>2 DEF Block, AddBlockKey, At, bounds
<1>2. s = todo[w][1] /\ s.c \in Clients /\ s.k \in Keys
  BY <1>0, <1>1, AtFacts
<1>3. ASSUME NEW c \in Clients, NEW k \in Keys PROVE Covered(c, k)'
  <2>1. /\ Waking(k)' = Waking(k) \ {w} /\ w \notin Waking(k)
        /\ Clearing(c) => Clearing(c)'
    BY <1>1, <1>2, OnwardWakes
  <2>2. Covered(c, k) /\ Posted(c, k)' = Posted(c, k) /\ Waking(k)' = Waking(k)
    BY <1>1, <2>1 DEF CInv, Posted
  <2>3. Len(lists'[k]) <= Len(lists[k]) /\ Len(lists[k]) \in Nat
    BY <1>1, CountFacts
  <2>4. CASE c = s.c /\ k = s.k
    <3>1. CASE lists[k] # <<>>
      BY <1>1, <2>4, <3>1 DEF Covered
    <3>2. CASE lists[k] = <<>>
      <4>1. Len(lists'[k]) = 0
        BY <1>1, <3>2
      <4>2. Cardinality(Posted(c, k)') \in Nat /\ Cardinality(Waking(k)') \in Nat
        BY <2>2, CountFacts
      <4> QED BY <4>1, <4>2 DEF Covered
    <3> QED BY <3>1, <3>2
  <2>5. CASE ~(c = s.c /\ k = s.k)
    <3>1. (c \in table'[k] => c \in table[k]) /\ (<<c, k>> \in missed => <<c, k>> \in missed')
      BY <1>1, <1>2, <2>5 DEF WInv, Shape
    <3> QED BY <2>1, <2>2, <2>3, <3>1, CoveredKept
  <2> QED BY <2>4, <2>5
<1> QED BY <1>3 DEF CInv

\* A push wakes those it finds registered.
LEMMA WakeBlockingListsByKeyWakes ==
  ASSUME WInv, WInv', CInv, NEW w \in Workers, WakeBlockingListsByKey(w)
  PROVE  CInv'
<1>0. PICK j : j = Head(todo[w]).k
  OBVIOUS
<1>1. /\ todo[w] # <<>> /\ Head(todo[w]).op = "wake" /\ Continues(w)
      /\ UNCHANGED <<lists, table, missed, pushed, conn>>
  BY DEF WakeBlockingListsByKey, At, bounds
<1>2. Head(todo[w]) = todo[w][1] /\ todo[w][1].op # "clear"
  BY <1>1, AtFacts
<1>3. ASSUME NEW c \in Clients, NEW k \in Keys PROVE Covered(c, k)'
  <2>1. PICK v \in Workers : v = Worker[c]
    BY DEF Workers
  <2>2. Posts(v, j)
    BY <1>0, PostsFacts
  <2>3. PICK b \in Seq(Clients \X Keys) :
          /\ inbox'[v] = inbox[v] \o b
          /\ c \in table[j] => \E i \in 1..Len(b) : b[i] = <<c, j>>
    BY <2>1, <2>2 DEF Posts
  <2>4. PICK a, p : a = inbox[v] /\ p = inbox'[v]
    OBVIOUS
  <2>5. /\ Len(a) \in Nat /\ Len(b) \in Nat /\ Len(p) = Len(a) + Len(b)
        /\ \A i \in 1..Len(p) : p[i] = IF i <= Len(a) THEN a[i] ELSE b[i - Len(a)]
    <3> DEFINE S == Clients \X Keys
    <3>1. a \in Seq(S) /\ b \in Seq(S) /\ p = a \o b
      BY <2>3, <2>4 DEF WInv, Shape
    <3> HIDE DEF S
    <3> QED BY <3>1, ConcatProperties, LenProperties
  <2>6. Posted(c, k) \subseteq Posted(c, k)'
    <3>1. \A i \in 1..Len(a) : i \in 1..Len(p) /\ p[i] = a[i]
      BY <2>5
    <3> QED BY <2>1, <2>4, <3>1 DEF Posted
  <2>7. /\ IsFiniteSet(Posted(c, k)) /\ Cardinality(Posted(c, k)) \in Nat
        /\ IsFiniteSet(Posted(c, k)') /\ Cardinality(Posted(c, k)') \in Nat
        /\ IsFiniteSet(Waking(k)) /\ Cardinality(Waking(k)) \in Nat
        /\ Len(lists[k]) \in Nat /\ Cardinality(Waking(k)') \in Nat
    <3>1. /\ IsFiniteSet(Posted(c, k)) /\ Cardinality(Posted(c, k)) \in Nat
          /\ IsFiniteSet(Waking(k)) /\ Cardinality(Waking(k)) \in Nat
          /\ Len(lists[k]) \in Nat
      BY CountFacts
    <3>2. Cardinality(Waking(k)') \in Nat
      <4>1. Waking(k)' = Waking(k) \ {w}
        BY <1>1, OnwardWakes
      <4>2. IsFiniteSet(Waking(k) \ {w})
        BY <3>1, FS_Subset
      <4> QED BY <4>1, <4>2, FS_CardinalityType
    <3>3. IsFiniteSet(Posted(c, k)')
      <4>1. Posted(c, k)' \subseteq 1..Len(p)
        BY <2>1, <2>4 DEF Posted
      <4>2. IsFiniteSet(1..Len(p))
        BY <2>5, FS_Interval
      <4> QED BY <4>1, <4>2, FS_Subset
    <3>4. Cardinality(Posted(c, k)') \in Nat
      BY <3>3, FS_CardinalityType
    <3> QED BY <3>1, <3>2, <3>3, <3>4
  <2>8. Clearing(c) => Clearing(c)'
    BY <1>1, <1>2, OnwardWakes
  <2>9. CASE k # j
    <3>1. Waking(k)' = Waking(k)
      <4>1. Waking(k)' = Waking(k) \ {w}
        BY <1>1, OnwardWakes
      <4>2. w \notin Waking(k)
        BY <1>0, <2>9 DEF Waking
      <4> QED BY <4>1, <4>2
    <3>2. Cardinality(Posted(c, k)) <= Cardinality(Posted(c, k)')
      BY <2>6, <2>7, FS_Subset
    <3> QED BY <1>1, <1>3, <2>7, <2>8, <3>1, <3>2 DEF CInv, Covered
  <2>10. CASE k = j
    <3>1. SUFFICES ASSUME c \in table[k], <<c, k>> \notin missed, ~Clearing(c)
                   PROVE  Len(lists[k]) <= Cardinality(Posted(c, k)') + Cardinality(Waking(k)')
      BY <1>1, <2>8 DEF Covered
    <3>2. Len(lists[k]) <= Cardinality(Posted(c, k)) + Cardinality(Waking(k))
      BY <3>1 DEF CInv, Covered
    <3>3. Cardinality(Waking(k)') + 1 >= Cardinality(Waking(k))
      <4>1. Waking(k)' = Waking(k) \ {w}
        BY <1>1, OnwardWakes
      <4>2. PICK X : X = Waking(k)
        OBVIOUS
      <4>3. Cardinality(X \ {w}) = IF w \in X THEN Cardinality(X) - 1 ELSE Cardinality(X)
        BY <2>7, <4>2, FS_RemoveElement
      <4> QED BY <2>7, <4>1, <4>2, <4>3
    <3>4. PICK i \in 1..Len(b) : b[i] = <<c, k>>
      BY <2>3, <2>10, <3>1
    <3>5. /\ Len(a) + i \in 1..Len(p) /\ p[Len(a) + i] = <<c, k>> /\ Len(a) + i > Len(a)
      BY <2>5, <3>4, SMTT(30)
    <3>6. Len(a) + i \in Posted(c, k)' /\ Len(a) + i \notin Posted(c, k)
      <4>1. PICK n : n = Len(a) + i
        OBVIOUS
      <4>2. n \in 1..Len(p) /\ p[n] = <<c, k>> /\ n \notin 1..Len(a)
        BY <2>5, <3>5, <4>1
      <4>3. n \in Posted(c, k)'
        BY <2>1, <2>4, <4>2 DEF Posted
      <4>4. n \notin Posted(c, k)
        BY <2>1, <2>4, <4>2 DEF Posted
      <4> QED BY <4>1, <4>3, <4>4
    <3>7. Posted(c, k) \cup {Len(a) + i} \subseteq Posted(c, k)'
      BY <2>6, <3>6
    <3>8. /\ Cardinality(Posted(c, k) \cup {Len(a) + i}) = Cardinality(Posted(c, k)) + 1
      BY <2>7, <3>6, FS_AddElement
    <3>9. Cardinality(Posted(c, k) \cup {Len(a) + i}) <= Cardinality(Posted(c, k)')
      BY <2>7, <3>7, FS_Subset
    <3> QED BY <2>7, <3>2, <3>3, <3>8, <3>9
  <2> QED BY <2>9, <2>10
<1> QED BY <1>3 DEF CInv

\* A handler that sets out, and not to wake: lists get shorter, or their
\* clients miss what came.
Shorter == \A c \in Clients, k \in Keys :
             c \in table[k] /\ <<c, k>> \notin missed' => Len(lists'[k]) <= Len(lists[k])

LEMMA SetOutCovered ==
  ASSUME WInv, WInv', CInv, NEW w \in Workers, todo[w] = <<>> \/ todo[w][1].op \in Asking,
         NEW q \in Seq(StepRecords), q # <<>>, Does(w, q), q[1].op # "wake",
         inbox' = inbox, table' = table, missed \subseteq missed', Shorter
  PROVE  CInv'
<1>1. ASSUME NEW c \in Clients, NEW k \in Keys PROVE Covered(c, k)'
  <2>1. Waking(k)' = Waking(k) /\ (Clearing(c) => Clearing(c)')
    <3>1. Waking(k)' = Waking(k) \cup (IF q[1].op = "wake" /\ q[1].k = k THEN {w} ELSE {})
      BY SetOutWakes
    <3>2. Clearing(c) => Clearing(c)'
      BY SetOutWakes
    <3> QED BY <3>1, <3>2
  <2>2. Covered(c, k) /\ Posted(c, k)' = Posted(c, k)
    BY DEF CInv, Posted
  <2>3. CASE c \in table[k] /\ <<c, k>> \notin missed'
    <3>1. Len(lists'[k]) <= Len(lists[k])
      BY <2>3 DEF Shorter
    <3> QED BY <2>1, <2>2, <3>1, CoveredKept
  <2>4. CASE ~(c \in table[k] /\ <<c, k>> \notin missed')
    BY <2>4 DEF Covered
  <2> QED BY <2>3, <2>4
<1> QED BY <1>1 DEF CInv

LEMMA ShorterFacts ==
  ASSUME WInv, NEW k \in Keys, lists[k] # <<>>, NEW b \in BOOLEAN,
         NEW m, m = [lists EXCEPT ![k] = Left(@, b)]
  PROVE  \A j \in Keys : Len(m[j]) <= Len(lists[j])
<1>1. lists \in [Keys -> Seq(1..MaxElements)] /\ \A j \in Keys : Len(lists[j]) \in Nat
  BY LenProperties DEF WInv, Shape
<1>2. Len(Left(lists[k], b)) = Len(lists[k]) - 1
  BY <1>1, PopFacts
<1> QED BY <1>1, <1>2

LEMMA TryWakes ==
  ASSUME WInv, WInv', CInv, NEW w \in Workers, Try(w)
  PROVE  CInv'
<1>0. PICK s : s = Head(todo[w])
  OBVIOUS
<1>a. PICK lpop, v : lpop = (s.e.cmd = "blpop") /\ v = Popped(lists[s.k], lpop)
  OBVIOUS
<1>1. /\ todo[w] # <<>> /\ s.op = "try" /\ UNCHANGED <<conn, table, inbox, pushed>>
      /\ \/ Continues(w) /\ UNCHANGED <<lists, missed>>
         \/ /\ lists[s.k] # <<>>
            /\ lists' = IF s.e.to = NotAList THEN lists
                        ELSE [[lists EXCEPT ![s.k] = Left(@, lpop)] EXCEPT ![s.e.to] = <<v>> \o @]
            /\ PassedBy(s.e.to) /\ Does(w, <<Step("answer", s.c, s.k, s.e)>>)
         \/ /\ lists[s.k] # <<>> /\ lists' = [lists EXCEPT ![s.k] = Left(@, lpop)]
            /\ Continues(w) /\ missed' = missed
         \/ /\ lists[s.k] # <<>> /\ lists' = [lists EXCEPT ![s.k] = Left(@, lpop)]
            /\ Does(w, <<Step("popped", s.c, s.k, v)>>) /\ missed' = missed
  BY <1>0, <1>a DEF Try, At, bounds
<1>2. s = todo[w][1] /\ s.c \in Clients /\ s.k \in Keys /\ s.e \in Requests
  <2>1. s = todo[w][1] /\ s.c \in Clients /\ s.k \in Keys /\ Fits(s)
    BY <1>0, <1>1, AtFacts, ZenonT(40)
  <2> QED BY <1>1, <2>1 DEF Fits, Asking
<1>3. lpop \in BOOLEAN
  BY <1>a
<1>4. PICK k, m : k = s.k /\ m = [lists EXCEPT ![k] = Left(@, lpop)]
  OBVIOUS
<1>5. lists[s.k] # <<>> => \A j \in Keys : Len(m[j]) <= Len(lists[j])
  BY <1>2, <1>3, <1>4, ShorterFacts
<1>6. todo[w][1].op \in Asking /\ todo[w][1].op \notin {"wake", "clear"}
  BY <1>1, <1>2 DEF Asking
<1>7. \A j \in Keys : Len(lists[j]) \in Nat
  BY CountFacts, LenProperties DEF WInv, Shape
<1>8. CASE Continues(w) /\ UNCHANGED <<lists, missed>>
  <2>1. \A j \in Keys : Len(lists'[j]) <= Len(lists[j])
    BY <1>7, <1>8
  <2> QED BY <1>1, <1>6, <1>8, <2>1, QuietWakes
<1>9. CASE /\ lists[s.k] # <<>>
           /\ lists' = IF s.e.to = NotAList THEN lists
                       ELSE [[lists EXCEPT ![s.k] = Left(@, lpop)] EXCEPT ![s.e.to] = <<v>> \o @]
           /\ PassedBy(s.e.to) /\ Does(w, <<Step("answer", s.c, s.k, s.e)>>)
  <2>1. PICK a, q : a = Step("answer", s.c, s.k, s.e) /\ q = <<a>>
    OBVIOUS
  <2>2. a \in StepRecords /\ a.op = "answer"
    BY <1>2, <2>1 DEF Step, StepRecords
  <2>3. q \in Seq(StepRecords) /\ q # <<>> /\ q[1].op # "wake" /\ Does(w, q)
    BY <1>9, <2>1, <2>2
  <2>4. missed \subseteq missed' /\ \A c, j : j \in Keys /\ j = s.e.to /\ c \in table[j] => <<c, j>> \in missed'
    BY <1>9 DEF PassedBy
  <2>5. \A j \in Keys : j # s.e.to => Len(lists'[j]) <= Len(lists[j])
    <3>1. CASE s.e.to = NotAList
      BY <1>7, <1>9, <3>1
    <3>2. CASE s.e.to # NotAList
      <4>1. lists' = [m EXCEPT ![s.e.to] = <<v>> \o @]
        BY <1>4, <1>9, <3>2
      <4>2. DOMAIN m = Keys
        BY <1>4 DEF WInv, Shape
      <4> QED BY <1>5, <1>9, <4>1, <4>2
    <3> QED BY <3>1, <3>2
  <2>6. Shorter
    BY <2>4, <2>5 DEF Shorter
  <2> QED BY <1>1, <1>6, <2>3, <2>4, <2>6, SetOutCovered
<1>10. CASE /\ lists[s.k] # <<>> /\ lists' = [lists EXCEPT ![s.k] = Left(@, lpop)]
            /\ Continues(w) /\ missed' = missed
  <2>1. \A j \in Keys : Len(lists'[j]) <= Len(lists[j])
    BY <1>4, <1>5, <1>10
  <2> QED BY <1>1, <1>6, <1>10, <2>1, QuietWakes
<1>11. CASE /\ lists[s.k] # <<>> /\ lists' = [lists EXCEPT ![s.k] = Left(@, lpop)]
            /\ Does(w, <<Step("popped", s.c, s.k, v)>>) /\ missed' = missed
  <2>1. v \in 1..MaxElements
    <3>1. lists[k] \in Seq(1..MaxElements) /\ lists[k] # <<>> /\ v = Popped(lists[k], lpop)
      BY <1>a, <1>2, <1>4, <1>11 DEF WInv, Shape
    <3> QED BY <1>3, <3>1, PopFacts
  <2>2. PICK a, q : a = Step("popped", s.c, s.k, v) /\ q = <<a>>
    OBVIOUS
  <2>3. a \in StepRecords /\ a.op = "popped"
    BY <1>2, <2>1, <2>2 DEF Step, StepRecords, Handing
  <2>4. q \in Seq(StepRecords) /\ q # <<>> /\ q[1].op # "wake" /\ Does(w, q)
    BY <1>11, <2>2, <2>3
  <2>5. Shorter
    BY <1>4, <1>5, <1>11 DEF Shorter
  <2> QED BY <1>1, <1>6, <1>11, <2>4, <2>5, SetOutCovered
<1> QED BY <1>1, <1>8, <1>9, <1>10, <1>11

\* A woken BRPOPLPUSH goes on to its answer.
LEMMA PushToSteps ==
  ASSUME WInv, NEW w \in Workers, PushTo(w)
  PROVE  /\ todo[w] # <<>> /\ todo[w][1].op = "push" /\ todo[w][1].c \in Clients
         /\ Worker[todo[w][1].c] = w
         /\ todo'[w] # <<>> /\ todo'[w][1].c = todo[w][1].c
         /\ \A v \in Workers \ {w} : todo'[v] = todo[v]
         /\ \A k \in Keys : Waking(k)' = Waking(k)
         /\ \A c \in Clients : Clearing(c) => Clearing(c)'
<1>0. PICK s : s = Head(todo[w])
  OBVIOUS
<1>1. /\ todo[w] # <<>> /\ s.op = "push"
      /\ Does(w, <<Step("answer", s.c, s.k, s.e)>> \o Tail(todo[w]))
  BY <1>0 DEF PushTo, At
<1>2. /\ s = todo[w][1] /\ s.c \in Clients /\ s.k \in Keys /\ s.e \in 1..MaxElements
      /\ Worker[s.c] = w
  BY <1>0, <1>1, AtFacts DEF Fits, Asking, Handing
<1>3. PICK a, p, t, q : /\ a = Step("answer", s.c, s.k, s.e) /\ p = todo[w]
                        /\ t = Tail(p) /\ q = <<a>> \o t
  OBVIOUS
<1>4. a \in StepRecords /\ a.op = "answer" /\ a.c = s.c
  <2>1. s.e \in Nat
    BY <1>2
  <2> QED BY <1>2, <1>3, <2>1 DEF Step, StepRecords
<1>5. /\ p \in Seq(StepRecords) /\ p # <<>> /\ t \in Seq(StepRecords)
      /\ Len(p) \in Nat \ {0} /\ Len(t) = Len(p) - 1
      /\ \A i \in 1..(Len(p) - 1) : t[i] = p[i + 1]
  BY <1>1, <1>3, AtFacts
<1>6. /\ q \in Seq(StepRecords) /\ Len(q) = Len(p) /\ q # <<>> /\ q[1] = a /\ Head(q) = a
      /\ \A i \in 1..Len(p) : i # 1 => q[i] = p[i]
  <2>1. <<a>> \in Seq(StepRecords) /\ Len(<<a>>) = 1 /\ <<a>>[1] = a
    BY <1>4
  <2>2. /\ q \in Seq(StepRecords) /\ Len(q) = Len(<<a>>) + Len(t)
        /\ \A i \in 1..(Len(<<a>>) + Len(t)) : q[i] = IF i <= Len(<<a>>) THEN <<a>>[i] ELSE t[i - Len(<<a>>)]
    BY <1>3, <1>5, <2>1, ConcatProperties
  <2>3. Len(q) = Len(p) /\ q[1] = a
    BY <1>5, <2>1, <2>2
  <2>4. q # <<>> /\ Head(q) = q[1]
    BY <1>5, <2>2, <2>3, EmptySeq, TailFacts
  <2>5. ASSUME NEW i \in 1..Len(p), i # 1 PROVE q[i] = p[i]
    <3>1. q[i] = t[i - 1] /\ i - 1 \in 1..(Len(p) - 1)
      BY <1>5, <2>1, <2>2, <2>5
    <3>2. t[i - 1] = p[(i - 1) + 1]
      BY <1>5, <3>1
    <3> QED BY <3>1, <3>2
  <2> QED BY <2>2, <2>3, <2>4, <2>5
<1>7. todo'[w] = q /\ \A u \in Workers \ {w} : todo'[u] = todo[u]
  BY <1>1, <1>3 DEF Does, WInv, Shape
<1>8. ASSUME NEW i \in Keys PROVE Waking(i)' = Waking(i)
  <2>1. w \notin Waking(i)
    BY <1>0, <1>1 DEF Waking, At
  <2>2. w \notin Waking(i)'
    BY <1>4, <1>6, <1>7 DEF Waking, At
  <2>3. \A u \in Workers \ {w} : u \in Waking(i)' <=> u \in Waking(i)
    BY <1>7 DEF Waking, At
  <2>4. Waking(i) \subseteq Workers /\ Waking(i)' \subseteq Workers
    BY DEF Waking
  <2> QED BY <2>1, <2>2, <2>3, <2>4
<1>9. ASSUME NEW c \in Clients, Clearing(c) PROVE Clearing(c)'
  <2>1. CASE Worker[c] = w
    <3>1. PICK n \in 1..Len(p) : p[n].op = "clear" /\ p[n].c = c
      BY <1>3, <1>9, <2>1 DEF Clearing
    <3>2. n # 1
      BY <1>1, <1>2, <1>3, <3>1
    <3>3. n \in 1..Len(q) /\ q[n] = p[n]
      BY <1>6, <3>2
    <3>4. todo'[Worker[c]] = q
      BY <1>7, <2>1
    <3>5. \E x \in 1..Len(q) : q[x].op = "clear" /\ q[x].c = c
      BY <3>1, <3>3
    <3> QED BY <3>4, <3>5 DEF Clearing
  <2>2. CASE Worker[c] # w
    <3>1. todo'[Worker[c]] = todo[Worker[c]]
      BY <1>7, <2>2 DEF Workers
    <3> QED BY <1>9, <3>1 DEF Clearing
  <2> QED BY <2>1, <2>2
<1> QED BY <1>1, <1>2, <1>4, <1>6, <1>7, <1>8, <1>9

\* It wakes nobody for the list it pushes to.
LEMMA PushToWakes ==
  ASSUME WInv, WInv', CInv, NEW w \in Workers, PushTo(w)
  PROVE  CInv'
<1>0. PICK s, b : s = Head(todo[w]) /\ b = block[s.c]
  OBVIOUS
<1>1. /\ todo[w] # <<>> /\ s.op = "push" /\ lists' = Repushed(b, s.k, s.e)
      /\ UNCHANGED <<table, inbox>>
      /\ PassedBy(IF b.push_key = NotAList THEN s.k ELSE b.push_key)
  BY <1>0 DEF PushTo, At
<1>2. s = todo[w][1] /\ s.c \in Clients /\ s.k \in Keys /\ s.e \in 1..MaxElements
  BY <1>0, <1>1, AtFacts DEF Fits, Asking, Handing
<1>3. b \in Blocks /\ b.push_key # NULL
  BY <1>0, <1>1, <1>2, SMTT(30) DEF WInv, Shape, Handles, At
<1>4. PICK k, v, j : k = s.k /\ v = s.e /\ j = IF b.push_key = NotAList THEN s.k ELSE b.push_key
  OBVIOUS
<1>5. /\ j \in Keys /\ \A i \in Keys \ {j} : lists'[i] = lists[i]
  <2>1. k \in Keys /\ v \in 1..MaxElements /\ lists' = Repushed(b, k, v)
        /\ j = IF b.push_key = NotAList THEN k ELSE b.push_key
    BY <1>1, <1>2, <1>4
  <2>2. j \in Keys /\ \A i \in Keys \ {j} : Repushed(b, k, v)[i] = lists[i]
    BY <1>3, <2>1, RepushedFacts, ZenonT(40)
  <2> QED BY <2>1, <2>2
<1>6. missed \subseteq missed' /\ \A c : c \in table[j] => <<c, j>> \in missed'
  BY <1>1, <1>4, <1>5 DEF PassedBy
<1>7. ASSUME NEW c \in Clients, NEW i \in Keys PROVE Covered(c, i)'
  <2>1. Waking(i)' = Waking(i) /\ (Clearing(c) => Clearing(c)')
    BY PushToSteps
  <2>2. Covered(c, i) /\ Posted(c, i)' = Posted(c, i)
    BY <1>1 DEF CInv, Posted
  <2>3. CASE i = j
    BY <1>1, <1>6, <2>3 DEF Covered
  <2>4. CASE i # j
    <3>1. Len(lists'[i]) <= Len(lists[i])
      BY <1>5, <2>4, CountFacts
    <3> QED BY <1>1, <1>6, <2>1, <2>2, <3>1, CoveredKept
  <2> QED BY <2>3, <2>4
<1> QED BY <1>7 DEF CInv

\* A push makes its list longer, and sets out to wake.
LEMMA PushWakes ==
  ASSUME WInv, WInv', CInv, NEW w \in Workers, todo[w] = <<>>, NEW c \in Clients, Worker[c] = w,
         NEW r \in Requests, Push(c, r), UNCHANGED <<conn, block, table, missed, inbox>>
  PROVE  CInv'
<1>1. PICK k, v : k = r.keys[1] /\ v = pushed + 1
  OBVIOUS
<1>2. /\ v \in 1..MaxElements /\ k \in Keys /\ Does(w, <<Step("wake", c, k, v), Step("pushed", c, k, v)>>)
      /\ lists'[k] \in {<<v>> \o lists[k], Append(lists[k], v)}
      /\ \A j \in Keys \ {k} : lists'[j] = lists[j]
  <2>1. /\ k \in Keys /\ lists'[k] \in {<<v>> \o lists[k], Append(lists[k], v)}
        /\ \A j \in Keys \ {k} : lists'[j] = lists[j]
        /\ pushed \in Nat /\ pushed' = pushed + 1 /\ pushed' \in 0..MaxElements
    BY <1>1, PushFacts
  <2>2. v \in 1..MaxElements
    BY <1>1, <2>1, BlockListAssumption
  <2>3. Does(w, <<Step("wake", c, k, v), Step("pushed", c, k, v)>>)
    BY <1>1 DEF Push
  <2> QED BY <2>1, <2>2, <2>3
<1>3. Len(lists'[k]) <= Len(lists[k]) + 1
  <2>1. PICK l : l = lists[k]
    OBVIOUS
  <2>2. l \in Seq(1..MaxElements) /\ <<v>> \in Seq(1..MaxElements) /\ Len(<<v>>) = 1 /\ Len(l) \in Nat
    BY <1>2, <2>1, LenProperties DEF WInv, Shape
  <2>3. Len(<<v>> \o l) = Len(l) + 1 /\ Len(Append(l, v)) = Len(l) + 1
    BY <1>2, <2>2, ConcatProperties, AppendProperties
  <2> QED BY <1>2, <2>1, <2>2, <2>3
<1>4. PICK a, b, q : a = Step("wake", c, k, v) /\ b = Step("pushed", c, k, v) /\ q = <<a, b>>
  OBVIOUS
<1>5. a \in StepRecords /\ b \in StepRecords /\ a.op = "wake" /\ a.k = k
  BY <1>2, <1>4 DEF Step, StepRecords, Handing
<1>6. q \in Seq(StepRecords) /\ q # <<>> /\ q[1] = a /\ Does(w, q)
  BY <1>2, <1>4, <1>5
<1>7. ASSUME NEW d \in Clients, NEW j \in Keys PROVE Covered(d, j)'
  <2>1. /\ w \notin Waking(j) /\ Waking(j)' = Waking(j) \cup (IF j = k THEN {w} ELSE {})
        /\ Clearing(d) => Clearing(d)'
    <3>1. Waking(j)' = Waking(j) \cup (IF q[1].op = "wake" /\ q[1].k = j THEN {w} ELSE {})
      BY <1>6, SetOutWakes
    <3>2. w \notin Waking(j) /\ (Clearing(d) => Clearing(d)')
      BY <1>6, SetOutWakes
    <3> QED BY <1>5, <1>6, <3>1, <3>2
  <2>2. Covered(d, j) /\ Posted(d, j)' = Posted(d, j)
    BY DEF CInv, Posted
  <2>3. CASE j # k
    <3>1. Waking(j)' = Waking(j) /\ Len(lists'[j]) <= Len(lists[j])
      BY <1>2, <2>1, <2>3, CountFacts
    <3> QED BY <2>1, <2>2, <3>1, CoveredKept
  <2>4. CASE j = k
    <3>1. /\ IsFiniteSet(Waking(j)) /\ Cardinality(Waking(j)) \in Nat
          /\ Cardinality(Posted(d, j)) \in Nat /\ Len(lists[j]) \in Nat
      BY CountFacts
    <3>2. PICK X : X = Waking(j)
      OBVIOUS
    <3>3. Cardinality(X \cup {w}) = Cardinality(X) + 1
      BY <2>1, <3>1, <3>2, FS_AddElement
    <3>4. Cardinality(Waking(j)') = Cardinality(Waking(j)) + 1
      BY <2>1, <2>4, <3>2, <3>3
    <3>5. Len(lists'[j]) \in Nat
      BY <2>4, <1>2, LenProperties DEF WInv, Shape
    <3> QED BY <1>3, <2>1, <2>2, <2>4, <3>1, <3>4, <3>5 DEF Covered
  <2> QED BY <2>3, <2>4
<1> QED BY <1>7 DEF CInv

LEMMA CallWakes ==
  ASSUME WInv, WInv', CInv, NEW w \in Workers, Call(w)
  PROVE  CInv'
<1>0. PICK c, r : c = Head(unread[w])[1] /\ r = Head(unread[w])[2]
  OBVIOUS
<1>1. /\ todo[w] = <<>> /\ unread[w] # <<>> /\ UNCHANGED <<block, conn, table, missed, inbox>>
      /\ \/ Push(c, r)
         \/ UNCHANGED <<lists, todo>>
         \/ /\ r.cmd \in {"blpop", "brpop", "brpoplpush"} /\ Does(w, Blocking(c, r))
            /\ UNCHANGED lists
  BY <1>0 DEF Call
<1>2. c \in Clients /\ r \in Requests /\ Worker[c] = w
  BY <1>0, <1>1, ReadFacts
<1>3. CASE Push(c, r)
  BY <1>1, <1>2, <1>3, PushWakes
<1>4. CASE UNCHANGED <<lists, todo>>
  BY <1>1, <1>4, StillWoken
<1>5. CASE /\ r.cmd \in {"blpop", "brpop", "brpoplpush"} /\ Does(w, Blocking(c, r))
           /\ UNCHANGED lists
  <2>1. PICK q : q = Blocking(c, r)
    OBVIOUS
  <2>2. q \in Seq(StepRecords) /\ q # <<>> /\ q[1].op # "wake" /\ Does(w, q)
    BY <1>2, <1>5, <2>1, BlockingFacts
  <2>3. Shorter
    BY <1>5, CountFacts DEF Shorter
  <2> QED BY <1>1, <2>2, <2>3, SetOutCovered
<1> QED BY <1>1, <1>3, <1>4, <1>5

\* The end of a wait: the client has no entry any more.
LEMMA UnblockWakes ==
  ASSUME WInv, WInv', CInv, NEW w \in Workers, Unblock(w)
  PROVE  CInv'
<1>0. PICK s : s = Head(todo[w])
  OBVIOUS
<1>1. /\ todo[w] # <<>> /\ s.op = "clear" /\ Continues(w) /\ ClearBlockKeys(s.c)
      /\ UNCHANGED <<lists, conn, inbox, pushed>>
  BY <1>0 DEF Unblock, At, bounds
<1>2. s = todo[w][1] /\ s.c \in Clients
  BY <1>0, <1>1, AtFacts
<1>3. \A k \in Keys : table'[k] = table[k] \ {s.c}
  BY <1>1, <1>2, Cleared
<1>4. ASSUME NEW c \in Clients, NEW k \in Keys PROVE Covered(c, k)'
  <2>1. CASE c = s.c
    BY <1>3, <2>1 DEF Covered
  <2>2. CASE c # s.c
    <3>1. Waking(k)' = Waking(k) /\ (Clearing(c) => Clearing(c)')
      <4>1. Waking(k)' = Waking(k) \ {w} /\ w \notin Waking(k)
        BY <1>1, <1>2, OnwardWakes
      <4>2. Clearing(c) => Clearing(c)'
        BY <1>1, <1>2, <2>2, OnwardWakes
      <4> QED BY <4>1, <4>2
    <3>2. Covered(c, k) /\ Posted(c, k)' = Posted(c, k) /\ Len(lists'[k]) <= Len(lists[k])
      BY <1>1, CountFacts DEF CInv, Posted
    <3>3. <<c, k>> \in missed => <<c, k>> \in missed'
      BY <1>1, <2>2 DEF ClearBlockKeys
    <3> QED BY <1>3, <3>1, <3>2, <3>3, CoveredKept
  <2> QED BY <2>1, <2>2
<1> QED BY <1>4 DEF CInv

\* A loop takes its first wake-up.
LEMMA PostedFacts ==
  ASSUME WInv, NEW w \in Workers, inbox[w] # <<>>, inbox' = [inbox EXCEPT ![w] = Tail(@)],
         NEW c \in Clients, NEW k \in Keys
  PROVE  Cardinality(Posted(c, k)') = IF Head(inbox[w]) = <<c, k>> THEN Cardinality(Posted(c, k)) - 1
                                      ELSE Cardinality(Posted(c, k))
<1>1. PICK q, t : q = inbox[w] /\ t = Tail(q)
  OBVIOUS
<1>2. /\ Len(q) \in Nat \ {0} /\ Len(t) = Len(q) - 1 /\ Head(q) = q[1]
      /\ \A i \in 1..(Len(q) - 1) : t[i] = q[i + 1]
  BY <1>1, TaskFacts
<1>3. inbox'[w] = t /\ \A v \in Workers \ {w} : inbox'[v] = inbox[v]
  BY <1>1 DEF WInv, Shape
<1>4. IsFiniteSet(Posted(c, k)) /\ Cardinality(Posted(c, k)) \in Nat
  BY CountFacts
<1>5. CASE Worker[c] # w
  <2>1. Posted(c, k)' = Posted(c, k)
    BY <1>3, <1>5 DEF Posted, Workers
  <2>2. Head(inbox[w]) # <<c, k>>
    BY <1>5, TaskFacts
  <2> QED BY <2>1, <2>2
<1>6. CASE Worker[c] = w
  <2>1. PICK P, R : /\ P = {i \in 1..Len(q) : q[i] = <<c, k>>}
                    /\ R = {i \in 1..Len(t) : t[i] = <<c, k>>}
    OBVIOUS
  <2>2. P = Posted(c, k) /\ R = Posted(c, k)'
    BY <1>1, <1>3, <1>6, <2>1 DEF Posted
  <2>3. PICK f : f = [i \in R |-> i + 1]
    OBVIOUS
  <2>4. \A i \in R : i \in Nat /\ i + 1 \in P \ {1}
    BY <1>2, <2>1
  <2>5. \A n \in P \ {1} : n - 1 \in R /\ (n - 1) + 1 = n
    <3> SUFFICES ASSUME NEW n \in P \ {1} PROVE n - 1 \in R /\ (n - 1) + 1 = n
      OBVIOUS
    <3>1. PICK i : i = n - 1
      OBVIOUS
    <3>2. i \in 1..Len(t) /\ i \in 1..(Len(q) - 1) /\ i + 1 = n /\ q[n] = <<c, k>>
      BY <1>2, <2>1, <3>1
    <3>3. t[i] = q[n]
      BY <1>2, <3>2
    <3> QED BY <2>1, <3>1, <3>2, <3>3
  <2>6. Cardinality(P \ {1}) = Cardinality(R)
    <3>1. IsFiniteSet(R)
      <4>1. IsFiniteSet(1..Len(t))
        BY <1>2, FS_Interval
      <4> QED BY <2>1, <4>1, FS_Subset
    <3>2. f \in [R -> P \ {1}] /\ \A i \in R : f[i] = i + 1
      BY <2>3, <2>4
    <3>3. f \in Injection(R, P \ {1})
      BY <2>4, <3>2 DEF Injection, IsInjective
    <3>4. \A n \in P \ {1} : \E i \in R : f[i] = n
      BY <2>5, <3>2
    <3>5. f \in Surjection(R, P \ {1})
      BY <3>2, <3>4 DEF Surjection
    <3> QED BY <3>1, <3>3, <3>5, FS_Surjection
  <2>7. Cardinality(P \ {1}) = IF 1 \in P THEN Cardinality(P) - 1 ELSE Cardinality(P)
    BY <1>4, <2>2, FS_RemoveElement
  <2>8. 1 \in P <=> Head(inbox[w]) = <<c, k>>
    BY <1>1, <1>2, <2>1
  <2> QED BY <2>2, <2>6, <2>7, <2>8
<1> QED BY <1>5, <1>6

LEMMA WakeBlockedListWakes ==
  ASSUME WInv, WInv', CInv, NEW w \in Workers, WakeBlockedList(w)
  PROVE  CInv'
<1>0. PICK c, k, b, v : /\ c = Head(inbox[w])[1] /\ k = Head(inbox[w])[2]
                        /\ b = GetBlockContext(c) /\ v = Popped(lists[k], b.lpop)
  OBVIOUS
<1>1. /\ ~Busy(w) /\ inbox[w] # <<>> /\ UNCHANGED <<table, conn, missed>>
      /\ inbox' = [inbox EXCEPT ![w] = Tail(@)]
      /\ \/ conn[c] = "freed" /\ UNCHANGED <<lists, todo>>
         \/ lists[k] = <<>> /\ UNCHANGED <<lists, todo>>
         \/ /\ lists[k] # <<>> /\ lists' = [lists EXCEPT ![k] = Left(@, b.lpop)]
            /\ UNCHANGED todo
         \/ /\ lists[k] # <<>> /\ lists' = [lists EXCEPT ![k] = Left(@, b.lpop)]
            /\ Does(w, Serve(b, c, k, v))
  BY <1>0 DEF WakeBlockedList, bounds
<1>2. /\ c \in Clients /\ k \in Keys /\ Head(inbox[w]) = <<c, k>> /\ Worker[c] = w
      /\ todo[w] = <<>>
  BY <1>0, <1>1, TaskFacts DEF Busy
<1>3. PICK lpop : lpop = b.lpop
  OBVIOUS
<1>4. b \in Blocks /\ lpop \in BOOLEAN
  BY <1>0, <1>2, <1>3, ContextFacts DEF Blocks
<1>5. ASSUME NEW j \in Keys
      PROVE  /\ Len(lists'[j]) <= Len(lists[j]) /\ Len(lists'[j]) \in Nat /\ Len(lists[j]) \in Nat
             /\ j = k => Len(lists'[j]) = 0 \/ Len(lists'[j]) + 1 = Len(lists[j]) \/ conn[c] = "freed"
  <2>1. lists \in [Keys -> Seq(1..MaxElements)] /\ lists' \in [Keys -> Seq(1..MaxElements)]
    BY DEF WInv, Shape
  <2>2. Len(lists'[j]) \in Nat /\ Len(lists[j]) \in Nat
    BY <2>1, LenProperties
  <2>3. CASE lists' = lists /\ conn[c] = "freed"
    BY <2>2, <2>3
  <2>4. CASE lists' = lists /\ lists[k] = <<>>
    <3>1. Len(<<>>) = 0
      OBVIOUS
    <3> QED BY <2>2, <2>4, <3>1
  <2>5. CASE lists[k] # <<>> /\ lists' = [lists EXCEPT ![k] = Left(@, b.lpop)]
    <3>1. Len(Left(lists[k], lpop)) = Len(lists[k]) - 1
      BY <1>2, <1>4, <2>1, <2>5, PopFacts
    <3>2. lists'[j] = IF j = k THEN Left(lists[k], lpop) ELSE lists[j]
      BY <1>3, <2>1, <2>5
    <3> QED BY <2>2, <3>1, <3>2
  <2> QED BY <1>1, <2>3, <2>4, <2>5
<1>6. /\ \A j \in Keys : Waking(j)' = Waking(j)
      /\ \A d \in Clients : Clearing(d) => Clearing(d)'
      /\ todo' = todo \/ Clearing(c)'
  <2>1. CASE todo' = todo
    BY <2>1 DEF Waking, Clearing, At
  <2>2. CASE lists[k] # <<>> /\ Does(w, Serve(b, c, k, v))
    <3>1. v \in 1..MaxElements
      <4>1. lists[k] \in Seq(1..MaxElements) /\ v = Popped(lists[k], lpop)
        BY <1>0, <1>2, <1>3 DEF WInv, Shape
      <4> QED BY <1>4, <2>2, <4>1, PopFacts
    <3>2. PICK o, x, y, q : /\ o = (IF b.push_key = NULL THEN "popped" ELSE "push")
                            /\ x = Step(o, c, k, v) /\ y = Step("clear", c, k, v) /\ q = <<x, y>>
      OBVIOUS
    <3>3. /\ x \in StepRecords /\ y \in StepRecords /\ x.op \in {"popped", "push"}
          /\ y.op = "clear" /\ y.c = c
      BY <1>2, <3>1, <3>2 DEF Step, StepRecords, Handing
    <3>4. q \in Seq(StepRecords) /\ q # <<>> /\ q[1] = x /\ q[2] = y /\ Len(q) = 2
      BY <3>2, <3>3
    <3>5. Does(w, q)
      BY <2>2, <3>2 DEF Serve
    <3>6. \A d \in Clients : Clearing(d) => Clearing(d)'
      BY <1>2, <3>4, <3>5, SetOutWakes
    <3>7. \A j \in Keys : Waking(j)' = Waking(j)
      <4> SUFFICES ASSUME NEW j \in Keys PROVE Waking(j)' = Waking(j)
        OBVIOUS
      <4>1. Waking(j)' = Waking(j) \cup (IF q[1].op = "wake" /\ q[1].k = j THEN {w} ELSE {})
        BY <1>2, <3>4, <3>5, SetOutWakes
      <4> QED BY <3>3, <3>4, <4>1
    <3>8. todo'[Worker[c]] = q /\ 2 \in 1..Len(q)
      BY <1>2, <3>4, <3>5 DEF Does, WInv, Shape
    <3>9. Clearing(c)'
      BY <3>3, <3>4, <3>8 DEF Clearing
    <3> QED BY <3>6, <3>7, <3>9
  <2> QED BY <1>1, <2>1, <2>2
<1>7. ASSUME NEW d \in Clients, NEW j \in Keys PROVE Covered(d, j)'
  <2>1. Covered(d, j) /\ Waking(j)' = Waking(j) /\ (Clearing(d) => Clearing(d)')
    BY <1>6 DEF CInv
  <2>2. /\ Cardinality(Posted(d, j)) \in Nat /\ Cardinality(Waking(j)) \in Nat
        /\ Cardinality(Posted(d, j)') \in Nat
    <3>1. Cardinality(Posted(d, j)) \in Nat /\ Cardinality(Waking(j)) \in Nat
      BY CountFacts
    <3>2. Cardinality(Posted(d, j)') \in Nat
      <4>1. IsFiniteSet(Posted(d, j)')
        <5>1. PICK t : t = inbox'[Worker[d]]
          OBVIOUS
        <5>2. t \in Seq(Clients \X Keys)
          BY <5>1 DEF WInv, Shape, Workers
        <5>3. IsFiniteSet(1..Len(t))
          BY <5>2, LenProperties, FS_Interval
        <5>4. Posted(d, j)' \subseteq 1..Len(t)
          BY <5>1 DEF Posted
        <5> QED BY <5>3, <5>4, FS_Subset
      <4> QED BY <4>1, FS_CardinalityType
    <3> QED BY <3>1, <3>2
  <2>3. Cardinality(Posted(d, j)') = IF d = c /\ j = k THEN Cardinality(Posted(d, j)) - 1
                                     ELSE Cardinality(Posted(d, j))
    <3>1. Cardinality(Posted(d, j)') = IF Head(inbox[w]) = <<d, j>> THEN Cardinality(Posted(d, j)) - 1
                                       ELSE Cardinality(Posted(d, j))
      BY <1>1, PostedFacts
    <3> QED BY <1>2, <3>1
  <2>4. CASE d # c \/ j # k
    BY <1>1, <1>5, <2>1, <2>2, <2>3, <2>4 DEF Covered
  <2>5. CASE d = c /\ j = k
    <3>1. conn[c] = "freed" => c \notin table[k]
      BY <1>2 DEF WInv, Waiting, IsBlocked
    <3> QED BY <1>1, <1>5, <2>1, <2>2, <2>3, <2>5, <3>1 DEF Covered
  <2> QED BY <2>4, <2>5
<1> QED BY <1>7 DEF CInv

\* What a client's wait, or its connection, ends with.
LEMMA ClearsWakes ==
  ASSUME WInv, WInv', CInv, NEW c \in Clients, ClearBlockKeys(c), UNCHANGED <<lists, inbox, todo>>
  PROVE  CInv'
<1>1. \A k \in Keys : table'[k] = table[k] \ {c}
  BY Cleared
<1>2. \A d, k : d # c /\ <<d, k>> \in missed => <<d, k>> \in missed'
  BY DEF ClearBlockKeys
<1>3. \A d \in Clients, k \in Keys :
        d \in table'[k] => d \in table[k] /\ (<<d, k>> \in missed => <<d, k>> \in missed')
  BY <1>1, <1>2
<1> QED BY <1>3, StillWoken

LEMMA InitWakes ==
  ASSUME Init
  PROVE  CInv
BY DEF Init, CInv, Covered

LEMMA NextWakes ==
  ASSUME WInv, CInv, [Next]_vars
  PROVE  CInv'
<1>0. WInv'
  BY NextWaits
<1>1. CASE UNCHANGED vars
  BY <1>0, <1>1, StillWoken DEF vars, sched, bounds
<1>2. ASSUME NEW c \in Clients, NEW b \in Sends[c], Read(c, b) PROVE CInv'
  BY <1>0, <1>2, StillWoken DEF Read
<1>3. ASSUME NEW w \in Workers, Handle(w) PROVE CInv'
  BY <1>0, <1>3, CallWakes, TryWakes, RegisterWakes, WakeBlockingListsByKeyWakes, PushToWakes,
     ContinueWakes, UnblockWakes, WakeBlockedListWakes DEF Handle
<1>4. ASSUME NEW c \in Clients, NEW id, BlockListTimeout(c, id) PROVE CInv'
  <2>1. UNCHANGED <<lists, inbox, todo>> /\ (UNCHANGED <<table, missed>> \/ ClearBlockKeys(c))
    BY <1>4 DEF BlockListTimeout, sched
  <2>2. CASE UNCHANGED <<table, missed>>
    BY <1>0, <2>1, <2>2, StillWoken
  <2> QED BY <1>0, <2>1, <2>2, ClearsWakes
<1>5. ASSUME NEW c \in Clients, FreeClientContext(c) PROVE CInv'
  BY <1>0, <1>5, ClearsWakes DEF FreeClientContext, sched
<1>6. ASSUME NEW c \in Clients, DeleteChannel(c) PROVE CInv'
  BY <1>0, <1>6, StillWoken DEF DeleteChannel, sched
<1> QED BY <1>1, <1>2, <1>3, <1>4, <1>5, <1>6 DEF Next, Expire

LEMMA WakersCome ==
  ASSUME WInv, CInv
  PROVE  WaitersWoken
<1> SUFFICES ASSUME NEW c \in Clients, NEW k \in Keys,
                    c \in table[k], lists[k] # <<>>, <<c, k>> \notin missed
             PROVE  Coming(c, k)
  BY DEF WaitersWoken
<1>1. PICK w \in Workers : w = Worker[c]
  BY DEF Workers
<1>2. CASE Clearing(c)
  <2>1. PICK q : q = todo[w]
    OBVIOUS
  <2>2. PICK i \in 1..Len(q) : q[i].op = "clear" /\ q[i].c = c
    BY <1>1, <1>2, <2>1 DEF Clearing
  <2>3. i \in DOMAIN q
    BY <2>1, <2>2, LenProperties DEF WInv, Shape
  <2> QED BY <1>1, <2>1, <2>2, <2>3 DEF Coming
<1>3. CASE ~Clearing(c)
  <2>1. /\ Len(lists[k]) <= Cardinality(Posted(c, k)) + Cardinality(Waking(k))
        /\ Len(lists[k]) \in Nat
    BY <1>3, CountFacts DEF CInv, Covered
  <2>2. Len(lists[k]) # 0
    BY EmptySeq DEF WInv, Shape
  <2>3. Cardinality(Posted(c, k)) # 0 \/ Cardinality(Waking(k)) # 0
    BY <2>1, <2>2
  <2>4. Posted(c, k) # {} \/ Waking(k) # {}
    BY <2>3, FS_EmptySet
  <2>5. CASE Posted(c, k) # {}
    <3>1. PICK i \in 1..Len(inbox[w]) : inbox[w][i] = <<c, k>>
      BY <1>1, <2>5 DEF Posted
    <3>2. i \in DOMAIN inbox[w]
      BY <3>1, LenProperties DEF WInv, Shape
    <3> QED BY <1>1, <3>1, <3>2 DEF Coming
  <2>6. CASE Waking(k) # {}
    <3>1. PICK v \in Workers : At(v, "wake") /\ Head(todo[v]).k = k
      BY <2>6 DEF Waking
    <3>2. PICK q : q = todo[v]
      OBVIOUS
    <3>3. q \in Seq(StepRecords) /\ q # <<>> /\ Head(q) = q[1] /\ Len(q) \in Nat \ {0}
      BY <3>1, <3>2, AtFacts DEF At
    <3>4. 1 \in DOMAIN q /\ q[1].op = "wake" /\ q[1].k = k
      BY <3>1, <3>2, <3>3, LenProperties DEF At
    <3> QED BY <3>2, <3>4 DEF Coming
  <2> QED BY <2>4, <2>5, <2>6
<1> QED BY <1>2, <1>3

\* No client sleeps beside an element: when it is registered for a key whose
\* list has one that came after it registered, a wake-up for it is in its
\* loop, or a push has yet to post one, or its wait is being ended; however
\* the pops, the pushes and the wake-ups of the workers interleave
\* (WakeBlockingListsByKey, WakeBlockedList).
THEOREM WakesTheorem == Spec => []WaitersWoken
<1>1. Init => WInv /\ CInv
  BY InitWaits, InitWakes
<1>2. WInv /\ CInv /\ [Next]_vars => (WInv /\ CInv)'
  BY NextWaits, NextWakes
<1>3. WInv /\ CInv => WaitersWoken
  BY WakersCome
<1> QED BY <1>1, <1>2, <1>3, PTL DEF Spec

-----------------------------------------------------------------------------
(***************************************************************************)
(* The replies.                                                            *)
(***************************************************************************)
LEMMA OwingFacts ==
  ASSUME WInv, NEW c \in Clients
  PROVE  /\ IsFiniteSet(Owing(c)) /\ Cardinality(Owing(c)) \in Nat
         /\ IsFiniteSet(Ids(c)) /\ owed[c] \in Int
         /\ Clearing(c) <=> Ends(todo[Worker[c]], c)
<1>1. IsFiniteSet(Ids(c)) /\ owed[c] \in Int
  BY IdsFinite DEF WInv, Shape
<1>2. IsFiniteSet(Ids(c) \cup {block[c].timer})
  BY <1>1, FS_AddElement
<1>3. Owing(c) \subseteq Ids(c) \cup {block[c].timer}
  BY DEF Owing
<1>4. IsFiniteSet(Owing(c))
  BY <1>2, <1>3, FS_Subset
<1>5. Clearing(c) <=> Ends(todo[Worker[c]], c)
  BY DEF Clearing, Ends
<1> QED BY <1>1, <1>4, <1>5, FS_CardinalityType

LEMMA OwedKept ==
  ASSUME WInv, NEW c \in Clients, Owed(c), owed'[c] = owed[c],
         Owing(c)' \subseteq Owing(c), Gives(todo'[Worker[c]], c) => Gives(todo[Worker[c]], c)
  PROVE  Owed(c)'
<1>1. IsFiniteSet(Owing(c)) /\ Cardinality(Owing(c)) \in Nat /\ owed[c] \in Int
  BY OwingFacts
<1>2. Cardinality(Owing(c)') \in Nat /\ Cardinality(Owing(c)') <= Cardinality(Owing(c))
  <2>1. IsFiniteSet(Owing(c)')
    BY <1>1, FS_Subset
  <2> QED BY <1>1, <2>1, FS_Subset, FS_CardinalityType
<1>3. PICK m, n : m = Cardinality(Owing(c)) /\ n = Cardinality(Owing(c)')
  OBVIOUS
<1>4. PICK x \in {0, 1} : x = IF Gives(todo[Worker[c]], c) THEN 1 ELSE 0
  OBVIOUS
<1>5. PICK y \in {0, 1} : y = IF Gives(todo'[Worker[c]], c) THEN 1 ELSE 0
  OBVIOUS
<1>6. y <= x
  BY <1>4, <1>5
<1>7. owed[c] >= m + x
  BY <1>3, <1>4 DEF Owed
<1>8. owed'[c] >= n + y
  BY <1>1, <1>2, <1>3, <1>6, <1>7
<1> QED BY <1>3, <1>5, <1>8 DEF Owed

\* What a handler has to do for other clients than the one it serves: nothing.
LEMMA OneClient ==
  ASSUME NEW q, Chained(q), NEW c, q = <<>> \/ q[1].c # c
  PROVE  ~Gives(q, c) /\ ~Ends(q, c)
<1>1. CASE q = <<>>
  <2>1. Len(<<>>) = 0
    OBVIOUS
  <2> QED BY <1>1, <2>1 DEF Gives, Ends
<1>2. CASE q[1].c # c
  BY <1>2 DEF Chained, Gives, Ends
<1> QED BY <1>1, <1>2

LEMMA TailGives ==
  ASSUME NEW q \in Seq(StepRecords), q # <<>>, Chained(q), NEW c, NEW t, t = Tail(q)
  PROVE  /\ Ends(q, c) => Ends(t, c) \/ (q[1].op = "clear" /\ q[1].c = c)
         /\ Ends(t, c) => Ends(q, c)
         /\ Gives(t, c) => Gives(q, c) /\ q[1].op = "try"
         /\ q[1].op = "clear" => ~Ends(t, c)
<1>1. /\ Len(q) \in Nat \ {0} /\ t \in Seq(StepRecords) /\ Len(t) = Len(q) - 1
      /\ \A i \in 1..(Len(q) - 1) : t[i] = q[i + 1]
  BY TailFacts
<1>2. /\ \A i \in 1..Len(t) : t[i].c = q[1].c /\ Leads(q[1].op, t[i].op)
      /\ \A i \in 1..Len(t) : i + 1 \in 1..Len(q) /\ t[i] = q[i + 1]
  BY <1>1, ChainTail
<1>3. \A i \in 1..Len(q) : i = 1 \/ \E j \in 1..Len(t) : t[j] = q[i]
  <2> SUFFICES ASSUME NEW i \in 1..Len(q), i # 1 PROVE \E j \in 1..Len(t) : t[j] = q[i]
    OBVIOUS
  <2>1. i - 1 \in 1..Len(t) /\ t[i - 1] = q[i]
    BY <1>1
  <2> QED BY <2>1
<1>4. Ends(q, c) => Ends(t, c) \/ (q[1].op = "clear" /\ q[1].c = c)
  BY <1>3 DEF Ends
<1>5. Ends(t, c) => Ends(q, c)
  BY <1>2 DEF Ends
<1>6. Gives(t, c) => Gives(q, c) /\ q[1].op = "try"
  BY <1>2 DEF Gives, Leads, Asking
<1>7. q[1].op = "clear" => ~Ends(t, c)
  BY <1>2 DEF Ends, Leads, Asking
<1> QED BY <1>4, <1>5, <1>6, <1>7

\* A step for the client c: nobody else is owed more or less.
LEMMA OthersOwed ==
  ASSUME WInv, WInv', OInv, NEW w \in Workers, NEW c \in Clients, Worker[c] = w,
         todo[w] = <<>> \/ todo[w][1].c = c, todo'[w] = <<>> \/ todo'[w][1].c = c,
         \A v \in Workers \ {w} : todo'[v] = todo[v],
         \A d \in Clients \ {c} : block'[d] = block[d] /\ owed'[d] = owed[d],
         \A d \in Clients \ {c} : Ids(d)' = Ids(d), Owed(c)'
  PROVE  OInv'
<1>1. ASSUME NEW d \in Clients \ {c} PROVE Owed(d)'
  <2>1. /\ Gives(todo'[Worker[d]], d) => Gives(todo[Worker[d]], d)
        /\ Ends(todo'[Worker[d]], d) <=> Ends(todo[Worker[d]], d)
    <3>1. CASE Worker[d] # w
      <4>1. todo'[Worker[d]] = todo[Worker[d]]
        BY <3>1 DEF Workers
      <4> QED BY <4>1
    <3>2. CASE Worker[d] = w
      <4>1. Chained(todo[w]) /\ Chained(todo'[w])
        BY DEF WInv, Handles
      <4>2. ~Gives(todo'[w], d) /\ ~Ends(todo'[w], d)
        BY <4>1, OneClient
      <4>3. ~Gives(todo[w], d) /\ ~Ends(todo[w], d)
        BY <4>1, OneClient
      <4> QED BY <3>2, <4>2, <4>3
    <3> QED BY <3>1, <3>2
  <2>2. Clearing(d)' <=> Clearing(d)
    BY <2>1 DEF Clearing, Ends
  <2>3. Owing(d)' = Owing(d)
    BY <2>2 DEF Owing, IsBlocked
  <2>4. Owed(d)
    BY DEF OInv
  <2> QED BY <2>1, <2>3, <2>4, OwedKept
<1> QED BY <1>1 DEF OInv

\* A step of a handler that neither blocks, nor replies, nor ends a wait.
LEMMA QuietOwed ==
  ASSUME WInv, WInv', OInv, NEW w \in Workers, todo[w] # <<>>, Continues(w),
         UNCHANGED <<timers, owed>>, todo[w][1].op # "clear",
         \A d \in Clients : /\ IsBlocked(d)' => IsBlocked(d)
                            /\ block[d] # NULL => block'[d] # NULL /\ block'[d].timer = block[d].timer
  PROVE  OInv'
<1>1. todo'[w] = Tail(todo[w]) /\ \A v \in Workers \ {w} : todo'[v] = todo[v]
  BY DEF Continues, Does, WInv, Shape
<1>2. ASSUME NEW d \in Clients PROVE Owed(d)'
  <2>1. /\ Gives(todo'[Worker[d]], d) => Gives(todo[Worker[d]], d)
        /\ Ends(todo'[Worker[d]], d) <=> Ends(todo[Worker[d]], d)
    <3>1. CASE Worker[d] # w
      <4>1. todo'[Worker[d]] = todo[Worker[d]]
        BY <1>1, <3>1 DEF Workers
      <4> QED BY <4>1
    <3>2. CASE Worker[d] = w
      <4>1. PICK q, t : q = todo[w] /\ t = Tail(q)
        OBVIOUS
      <4>2. q \in Seq(StepRecords) /\ Chained(q) /\ q # <<>> /\ q[1].op # "clear"
        BY <4>1 DEF WInv, Shape, Handles
      <4>3. (Gives(t, d) => Gives(q, d)) /\ (Ends(t, d) <=> Ends(q, d))
        BY <4>1, <4>2, TailGives
      <4> QED BY <1>1, <3>2, <4>1, <4>3
    <3> QED BY <3>1, <3>2
  <2>2. Clearing(d)' <=> Clearing(d)
    BY <2>1 DEF Clearing, Ends
  <2>3. Ids(d)' = Ids(d)
    BY DEF Ids
  <2>4. Owing(d)' \subseteq Owing(d)
    <3>1. CASE Clearing(d)
      BY <2>2, <2>3, <3>1 DEF Owing
    <3>2. CASE ~Clearing(d)
      BY <2>2, <2>3, <3>2 DEF Owing, IsBlocked
    <3> QED BY <3>1, <3>2
  <2>5. Owed(d) /\ owed'[d] = owed[d]
    BY DEF OInv
  <2> QED BY <2>1, <2>4, <2>5, OwedKept
<1> QED BY <1>2 DEF OInv

LEMMA ContinueOwed ==
  ASSUME WInv, WInv', OInv, NEW w \in Workers, WriteWAL(w) \/ WakeBlockingListsByKey(w)
  PROVE  OInv'
<1>1. /\ todo[w] # <<>> /\ Head(todo[w]).op \in {"pushed", "wake"} /\ Continues(w)
      /\ UNCHANGED <<block, timers, owed>>
  BY DEF WriteWAL, WakeBlockingListsByKey, At
<1>2. Head(todo[w]) = todo[w][1]
  BY <1>1, AtFacts
<1> QED BY <1>1, <1>2, QuietOwed DEF IsBlocked

LEMMA AddBlockKeyOwed ==
  ASSUME WInv, WInv', OInv, NEW w \in Workers, AddBlockKey(w)
  PROVE  OInv'
<1>0. PICK s, b : s = Head(todo[w]) /\ b = GetBlockContext(s.c)
  OBVIOUS
<1>1. /\ todo[w] # <<>> /\ s.op = "register" /\ Continues(w) /\ Registers(s, b)
      /\ UNCHANGED <<timers, owed>>
  BY <1>0 DEF AddBlockKey, At
<1>2. s = todo[w][1] /\ s.c \in Clients
  BY <1>0, <1>1, AtFacts
<1>3. IsBlocked(s.c)
  BY <1>0, <1>1, <1>2 DEF WInv, Handles, At
<1>4. b = block[s.c]
  BY <1>0, <1>3 DEF GetBlockContext, IsBlocked
<1>5. /\ block' = [block EXCEPT ![s.c] = [b EXCEPT !.keys = @ \cup {s.k}]]
      /\ block \in [Clients -> Blocks \cup {NULL}] /\ b \in Blocks
  BY <1>1, <1>2, <1>3, <1>4 DEF Registers, WInv, Shape, IsBlocked
<1>6. PICK n : n = [b EXCEPT !.keys = @ \cup {s.k}]
  OBVIOUS
<1>7. n.timer = b.timer /\ n # NULL
  <2>1. s.k \in Keys
    BY <1>1, <1>2, AtFacts
  <2>2. n \in Blocks
    BY <1>5, <1>6, <2>1 DEF Blocks
  <2>3. n.timer = b.timer
    BY <1>5, <1>6 DEF Blocks
  <2> QED BY <2>2, <2>3, BlockListAssumption
<1>8. \A d \in Clients : /\ IsBlocked(d)' => IsBlocked(d)
                         /\ block[d] # NULL => block'[d] # NULL /\ block'[d].timer = block[d].timer
  <2> SUFFICES ASSUME NEW d \in Clients
               PROVE  /\ IsBlocked(d)' => IsBlocked(d)
                      /\ block[d] # NULL => block'[d] # NULL /\ block'[d].timer = block[d].timer
    OBVIOUS
  <2>1. CASE d = s.c
    <3>1. block'[d] = n
      BY <1>5, <1>6, <2>1
    <3> QED BY <1>3, <1>4, <1>7, <2>1, <3>1
  <2>2. CASE d # s.c
    BY <1>5, <2>2 DEF IsBlocked
  <2> QED BY <2>1, <2>2
<1> QED BY <1>1, <1>2, <1>8, QuietOwed

\* A reply.
LEMMA ReplyOwed ==
  ASSUME WInv, WInv', OInv, NEW w \in Workers, Answer(w) \/ Deliver(w)
  PROVE  OInv'
<1>0. PICK s : s = Head(todo[w])
  OBVIOUS
<1>1. /\ todo[w] # <<>> /\ s.op \in {"answer", "popped", "unlogged"} /\ Continues(w)
      /\ UNCHANGED <<block, timers, conn>>
      /\ owed' = [owed EXCEPT ![s.c] = IF conn[s.c] = "open" THEN @ - 1 ELSE @]
  BY <1>0 DEF Answer, Deliver, Replied, At
<1>2. PICK q, t, c : q = todo[w] /\ t = Tail(q) /\ c = s.c
  OBVIOUS
<1>3. /\ s = q[1] /\ c \in Clients /\ Worker[c] = w /\ q \in Seq(StepRecords) /\ q # <<>>
      /\ q[1].op \in {"answer", "popped"} /\ Chained(q) /\ Len(q) \in Nat \ {0}
  <2>1. /\ s = q[1] /\ c \in Clients /\ Worker[c] = w /\ q \in Seq(StepRecords) /\ q # <<>>
        /\ q[1].op \in Asking \cup Handing \cup {"answer"} /\ Len(q) \in Nat \ {0}
    BY <1>0, <1>1, <1>2, AtFacts
  <2>2. Chained(q)
    BY <1>2 DEF WInv, Handles
  <2> QED BY <1>1, <2>1, <2>2 DEF Asking, Handing
<1>4. todo'[w] = t /\ \A v \in Workers \ {w} : todo'[v] = todo[v]
  BY <1>1, <1>2 DEF Continues, Does, WInv, Shape
<1>5. Gives(q, c) /\ ~Gives(t, c) /\ (Ends(t, c) <=> Ends(q, c))
  <2>1. Gives(q, c)
    BY <1>2, <1>3 DEF Gives
  <2>2. /\ Ends(q, c) => Ends(t, c) \/ (q[1].op = "clear" /\ q[1].c = c)
        /\ Ends(t, c) => Ends(q, c)
        /\ Gives(t, c) => Gives(q, c) /\ q[1].op = "try"
    BY <1>2, <1>3, TailGives
  <2> QED BY <1>3, <2>1, <2>2
<1>6. Owed(c)'
  <2>1. /\ owed[c] \in Int /\ owed[c] >= Cardinality(Owing(c)) + 1
        /\ Cardinality(Owing(c)) \in Nat
    <3>1. Owed(c) /\ Gives(todo[Worker[c]], c)
      BY <1>2, <1>3, <1>5 DEF OInv
    <3>2. owed[c] \in Int /\ Cardinality(Owing(c)) \in Nat
      BY <1>3, OwingFacts
    <3> QED BY <3>1, <3>2 DEF Owed
  <2>2. owed'[c] >= owed[c] - 1
    <3>1. owed'[c] \in {owed[c], owed[c] - 1}
      BY <1>1, <1>2, <1>3 DEF WInv, Shape
    <3> QED BY <2>1, <3>1
  <2>3. Owing(c)' = Owing(c)
    <3>1. Clearing(c)' <=> Clearing(c)
      <4>1. Clearing(c) <=> Ends(todo[Worker[c]], c)
        BY DEF Clearing, Ends
      <4>2. Clearing(c)' <=> Ends(todo'[Worker[c]], c)
        BY DEF Clearing, Ends
      <4> QED BY <1>2, <1>3, <1>4, <1>5, <4>1, <4>2
    <3>2. Ids(c)' = Ids(c)
      BY <1>1 DEF Ids
    <3> QED BY <1>1, <3>1, <3>2 DEF Owing, IsBlocked
  <2>4. owed'[c] \in Int
    BY <1>3 DEF WInv, Shape
  <2>5. ~Gives(todo'[Worker[c]], c)
    BY <1>3, <1>4, <1>5
  <2>6. owed'[c] >= Cardinality(Owing(c)) + 0
    BY <2>1, <2>2, <2>4
  <2> QED BY <2>3, <2>5, <2>6 DEF Owed
<1>7. todo'[w] = <<>> \/ todo'[w][1].c = c
  <2>1. t # <<>> => t[1].c = c
    <3>1. /\ t \in Seq(StepRecords) /\ Len(t) = Len(q) - 1
          /\ \A i \in 1..(Len(q) - 1) : t[i] = q[i + 1]
      BY <1>2, <1>3, TailFacts
    <3>2. \A i \in 1..Len(t) : t[i].c = q[1].c
      BY <1>3, <3>1, ChainTail
    <3>3. t # <<>> => 1 \in 1..Len(t)
      BY <3>1, TailFacts
    <3> QED BY <1>2, <1>3, <3>2, <3>3
  <2> QED BY <1>4, <2>1
<1>8. \A d \in Clients \ {c} : /\ block'[d] = block[d] /\ owed'[d] = owed[d]
                               /\ Ids(d)' = Ids(d)
  BY <1>1, <1>2, <1>3 DEF WInv, Shape, Ids
<1>9. todo[w] = <<>> \/ todo[w][1].c = c
  BY <1>2, <1>3
<1> QED BY <1>3, <1>4, <1>6, <1>7, <1>8, <1>9, OthersOwed

\* A request that has to wait is owed one reply, which its search will give
\* or its block leave to the wait.
LEMMA CallOwed ==
  ASSUME WInv, WInv', OInv, NEW w \in Workers, Call(w)
  PROVE  OInv'
<1>0. PICK c, r : c = Head(unread[w])[1] /\ r = Head(unread[w])[2]
  OBVIOUS
<1>1. /\ todo[w] = <<>> /\ unread[w] # <<>> /\ UNCHANGED <<block, conn, timers>>
      /\ \/ Push(c, r)
         \/ UNCHANGED <<todo, owed>>
         \/ /\ r.cmd \in {"blpop", "brpop", "brpoplpush"} /\ Does(w, Blocking(c, r))
            /\ owed' = [owed EXCEPT ![c] = @ + 1]
  BY <1>0 DEF Call
<1>2. c \in Clients /\ r \in Requests /\ Worker[c] = w
  BY <1>0, <1>1, ReadFacts
<1>3. /\ \A d \in Clients : Ids(d)' = Ids(d)
      /\ ~Gives(todo[w], c) /\ ~Ends(todo[w], c)
  <2>1. Chained(todo[w])
    BY DEF WInv, Handles
  <2>2. \A d \in Clients : Ids(d)' = Ids(d)
    BY <1>1 DEF Ids
  <2> QED BY <1>1, <2>1, <2>2, OneClient
<1>4. CASE UNCHANGED <<todo, owed>>
  <2>1. ASSUME NEW d \in Clients PROVE Owed(d)'
    <3>1. Owed(d) /\ Owing(d)' = Owing(d)
      BY <1>1, <1>3, <1>4 DEF OInv, Owing, Clearing, IsBlocked
    <3> QED BY <1>4, <3>1, OwedKept
  <2> QED BY <2>1 DEF OInv
<1>5. ASSUME NEW q \in Seq(StepRecords), Does(w, q), q # <<>>, q[1].c = c, ~Ends(q, c)
      PROVE  /\ todo'[w] = q /\ \A v \in Workers \ {w} : todo'[v] = todo[v]
             /\ Owing(c)' = Owing(c)
  <2>1. todo'[w] = q /\ \A v \in Workers \ {w} : todo'[v] = todo[v]
    BY <1>5 DEF Does, WInv, Shape
  <2>2. ~Clearing(c) /\ ~Clearing(c)'
    BY <1>2, <1>3, <1>5, <2>1 DEF Clearing, Ends
  <2> QED BY <1>1, <1>2, <1>3, <2>1, <2>2 DEF Owing, IsBlocked
<1>6. CASE Push(c, r)
  <2>1. PICK k, e, a, b, q : /\ k = r.keys[1] /\ e = pushed + 1
                             /\ a = Step("wake", c, k, e) /\ b = Step("pushed", c, k, e) /\ q = <<a, b>>
    OBVIOUS
  <2>2. a \in StepRecords /\ b \in StepRecords /\ a.op = "wake" /\ b.op = "pushed" /\ a.c = c
    <3>1. k \in Keys /\ e \in Nat
      BY <1>2, <2>1, RequestFacts, BlockListAssumption DEF WInv, Shape
    <3> QED BY <1>2, <2>1, <3>1 DEF Step, StepRecords, Handing
  <2>3. q \in Seq(StepRecords) /\ q # <<>> /\ Len(q) = 2 /\ q[1] = a /\ q[2] = b
    BY <2>1, <2>2
  <2>4. Does(w, q) /\ owed' = owed
    BY <1>2, <1>6, <2>1 DEF Push
  <2>5. ~Ends(q, c) /\ ~Gives(q, c)
    <3>1. \A i \in 1..Len(q) : i = 1 \/ i = 2
      BY <2>3
    <3> QED BY <2>2, <2>3, <3>1 DEF Ends, Gives
  <2>6. /\ todo'[w] = q /\ \A v \in Workers \ {w} : todo'[v] = todo[v]
        /\ Owing(c)' = Owing(c)
    BY <1>5, <2>2, <2>3, <2>4, <2>5
  <2>7. Owed(c)'
    BY <1>2, <2>4, <2>5, <2>6, OwedKept DEF OInv
  <2> QED BY <1>1, <1>2, <1>3, <2>2, <2>3, <2>4, <2>6, <2>7, OthersOwed
<1>7. CASE /\ r.cmd \in {"blpop", "brpop", "brpoplpush"} /\ Does(w, Blocking(c, r))
           /\ owed' = [owed EXCEPT ![c] = @ + 1]
  <2>1. PICK q : q = Blocking(c, r)
    OBVIOUS
  <2>2. /\ q \in Seq(StepRecords) /\ q # <<>> /\ Does(w, q)
        /\ \A i \in 1..Len(q) : q[i].c = c /\ q[i].op \in Asking
    BY <1>2, <1>7, <2>1, BlockingFacts
  <2>3. q[1].c = c /\ ~Ends(q, c)
    <3>1. 1 \in 1..Len(q)
      BY <2>2, TailFacts
    <3> QED BY <2>2, <3>1 DEF Ends, Asking
  <2>4. /\ todo'[w] = q /\ \A v \in Workers \ {w} : todo'[v] = todo[v]
        /\ Owing(c)' = Owing(c)
    BY <1>5, <2>2, <2>3
  <2>5. Owed(c)'
    <3>1. owed'[c] = owed[c] + 1 /\ owed[c] \in Int /\ Cardinality(Owing(c)) \in Nat
      BY <1>2, <1>7, OwingFacts DEF WInv, Shape
    <3>2. owed[c] >= Cardinality(Owing(c)) + 0
      BY <1>2, <1>3 DEF OInv, Owed
    <3>3. PICK x \in {0, 1} : x = IF Gives(todo'[Worker[c]], c) THEN 1 ELSE 0
      OBVIOUS
    <3>4. owed'[c] >= Cardinality(Owing(c)) + x
      BY <3>1, <3>2
    <3> QED BY <2>4, <3>3, <3>4 DEF Owed
  <2>6. \A d \in Clients \ {c} : owed'[d] = owed[d]
    BY <1>2, <1>7 DEF WInv, Shape
  <2> QED BY <1>1, <1>2, <1>3, <2>2, <2>3, <2>4, <2>5, <2>6, OthersOwed
<1> QED BY <1>1, <1>4, <1>6, <1>7

\* A search has its block, or the reply, before it.
LEMMA TryOwed ==
  ASSUME WInv, WInv', OInv, NEW w \in Workers, Try(w)
  PROVE  OInv'
<1>0. PICK s, v : s = Head(todo[w]) /\ v = Popped(lists[s.k], s.e.cmd = "blpop")
  OBVIOUS
<1>1. /\ todo[w] # <<>> /\ s.op = "try" /\ UNCHANGED <<block, timers, owed>>
      /\ \/ Continues(w)
         \/ Does(w, <<Step("answer", s.c, s.k, s.e)>>)
         \/ Does(w, <<Step("popped", s.c, s.k, v)>>)
  BY <1>0 DEF Try, At
<1>2. PICK q, c : q = todo[w] /\ c = s.c
  OBVIOUS
<1>3. /\ s = q[1] /\ c \in Clients /\ Worker[c] = w /\ q # <<>> /\ q[1].op = "try"
      /\ q \in Seq(StepRecords)
  BY <1>0, <1>1, <1>2, AtFacts
<1>4. CASE Continues(w)
  BY <1>1, <1>2, <1>3, <1>4, QuietOwed DEF IsBlocked
<1>5. CASE \E e : \E op \in {"answer", "popped"} : Does(w, <<Step(op, s.c, s.k, e)>>)
  <2>0. PICK e : \E op \in {"answer", "popped"} : Does(w, <<Step(op, s.c, s.k, e)>>)
    BY <1>5
  <2>1. PICK op \in {"answer", "popped"} : Does(w, <<Step(op, s.c, s.k, e)>>)
    BY <2>0
  <2>2. PICK a, p : a = Step(op, s.c, s.k, e) /\ p = <<a>>
    OBVIOUS
  <2>3. a.op # "clear" /\ a.c = c /\ p # <<>> /\ Len(p) = 1 /\ p[1] = a
    BY <1>2, <2>2 DEF Step
  <2>4. todo'[w] = p /\ \A u \in Workers \ {w} : todo'[u] = todo[u]
    BY <2>1, <2>2 DEF Does, WInv, Shape
  <2>5. Gives(q, c) /\ ~Clearing(c)
    <3>1. Chained(q)
      BY <1>2 DEF WInv, Handles
    <3>2. \E i \in 1..Len(q) : q[i].op = "block" /\ q[i].c = c
      BY <1>2, <1>3, <3>1 DEF Chained
    <3>3. ~Clearing(c)
      BY <1>2, <1>3, ClearingFacts DEF Asking
    <3> QED BY <3>2, <3>3 DEF Gives
  <2>6. ~Clearing(c)'
    <3>1. \A i \in 1..Len(p) : p[i] = a
      BY <2>3
    <3> QED BY <1>3, <2>3, <2>4, <3>1, ZenonT(40) DEF Clearing
  <2>7. Owing(c)' = Owing(c)
    BY <1>1, <2>5, <2>6 DEF Owing, Ids, IsBlocked
  <2>8. Owed(c)'
    BY <1>1, <1>2, <1>3, <2>5, <2>7, OwedKept DEF OInv
  <2>9. \A d \in Clients \ {c} : block'[d] = block[d] /\ owed'[d] = owed[d] /\ Ids(d)' = Ids(d)
    BY <1>1 DEF Ids
  <2> QED BY <1>2, <1>3, <2>3, <2>4, <2>8, <2>9, OthersOwed
<1> QED BY <1>1, <1>4, <1>5

LEMMA PushToOwed ==
  ASSUME WInv, WInv', OInv, NEW w \in Workers, PushTo(w)
  PROVE  OInv'
<1>1. PICK q, c : q = todo[w] /\ c = todo[w][1].c
  OBVIOUS
<1>2. /\ UNCHANGED <<block, timers, owed>> /\ q # <<>> /\ q[1].op = "push" /\ c \in Clients
      /\ todo'[w] # <<>> /\ todo'[w][1].c = c /\ Worker[c] = w
      /\ \A v \in Workers \ {w} : todo'[v] = todo[v]
      /\ Clearing(c) => Clearing(c)'
  <2>1. UNCHANGED <<block, timers, owed>>
    BY DEF PushTo
  <2> QED BY <1>1, <2>1, PushToSteps
<1>3. Gives(q, c)
  <2>1. 1 \in 1..Len(q)
    BY <1>1, <1>2, AtFacts
  <2> QED BY <1>1, <1>2, <2>1 DEF Gives
<1>4. Owing(c)' \subseteq Owing(c)
  <2>1. Ids(c)' = Ids(c)
    BY <1>2 DEF Ids
  <2> QED BY <1>2, <2>1 DEF Owing, IsBlocked
<1>5. Owed(c)'
  BY <1>1, <1>2, <1>3, <1>4, OwedKept DEF OInv
<1>6. \A d \in Clients \ {c} : block'[d] = block[d] /\ owed'[d] = owed[d] /\ Ids(d)' = Ids(d)
  BY <1>2 DEF Ids
<1> QED BY <1>1, <1>2, <1>5, <1>6, OthersOwed

\* The steps of a handler that goes on, for the client it serves.
LEMMA GoesOnFor ==
  ASSUME WInv, NEW w \in Workers, todo[w] # <<>>, Continues(w), NEW c, c = todo[w][1].c
  PROVE  /\ c \in Clients /\ Worker[c] = w
         /\ todo'[w] = <<>> \/ todo'[w][1].c = c
         /\ \A v \in Workers \ {w} : todo'[v] = todo[v]
         /\ todo[w][1].op # "try" => ~Gives(todo'[w], c)
         /\ Clearing(c)' => Clearing(c) /\ todo[w][1].op # "clear"
<1>1. PICK q, t : q = todo[w] /\ t = Tail(q)
  OBVIOUS
<1>2. todo'[w] = t /\ \A v \in Workers \ {w} : todo'[v] = todo[v]
  BY <1>1 DEF Continues, Does, WInv, Shape
<1>3. /\ q \in Seq(StepRecords) /\ q # <<>> /\ Chained(q) /\ Len(q) \in Nat \ {0}
      /\ c \in Clients /\ Worker[c] = w /\ c = q[1].c
      /\ t \in Seq(StepRecords) /\ Len(t) = Len(q) - 1
      /\ \A i \in 1..(Len(q) - 1) : t[i] = q[i + 1]
  <2>1. Chained(q)
    BY <1>1 DEF WInv, Handles
  <2> QED BY <1>1, <2>1, AtFacts
<1>4. t = <<>> \/ t[1].c = c
  <2>1. \A i \in 1..Len(t) : t[i].c = q[1].c
    BY <1>3, ChainTail, SMTT(30)
  <2>2. t # <<>> => 1 \in 1..Len(t)
    BY <1>3, TailFacts
  <2> QED BY <1>3, <2>1, <2>2
<1>5. /\ Gives(t, c) => q[1].op = "try"
      /\ Ends(t, c) => Ends(q, c) /\ q[1].op # "clear"
  BY <1>1, <1>3, TailGives
<1>6. Clearing(c) <=> Ends(q, c)
  BY <1>1, <1>3 DEF Clearing, Ends
<1>7. Clearing(c)' <=> Ends(t, c)
  BY <1>2, <1>3 DEF Clearing, Ends
<1> QED BY <1>1, <1>2, <1>3, <1>4, <1>5, <1>6, <1>7

\* What a client waits with a reply for, when it blocks: its timer, or the
\* wait that has none.
LEMMA BlockOwed ==
  ASSUME WInv, WInv', OInv, NEW w \in Workers, Block(w)
  PROVE  OInv'
<1>0. PICK s, id, b :
        /\ s = Head(todo[w]) /\ id = NewId(s.c)
        /\ b = [GetBlockContext(s.c) EXCEPT !.lpop = (s.e.cmd = "blpop"),
                  !.push_key = IF s.e.cmd = "brpoplpush" THEN s.e.to ELSE @,
                  !.timer = IF s.e.timed THEN id ELSE @]
  OBVIOUS
<1>1. /\ todo[w] # <<>> /\ s.op = "block" /\ Continues(w) /\ Registers(s, b)
      /\ timers' = timers \cup (IF s.e.timed THEN {<<s.c, id>>} ELSE {})
      /\ owed' = owed
  <2>1. /\ At(w, "block") /\ Continues(w) /\ owed' = owed
        /\ timers' = timers \cup (IF s.e.timed THEN {<<s.c, id>>} ELSE {})
    BY <1>0, Zenon DEF Block, NewId, Ids
  <2>2. Registers(s, b)
    BY <1>0, Zenon DEF Block, NewId, Ids
  <2> QED BY <1>0, <2>1, <2>2 DEF At
<1>2. PICK c : c = s.c
  OBVIOUS
<1>3. s = todo[w][1] /\ c \in Clients /\ Worker[c] = w /\ Len(todo[w]) \in Nat \ {0}
  BY <1>0, <1>1, <1>2, AtFacts
<1>4. /\ block'[c].timer = (IF s.e.timed THEN id ELSE GetBlockContext(c).timer)
      /\ \A d \in Clients \ {c} : block'[d] = block[d]
  <2>1. GetBlockContext(c) \in Blocks
    BY <1>3, ContextFacts
  <2>2. b.timer = IF s.e.timed THEN id ELSE GetBlockContext(c).timer
    BY <1>0, <1>2, <2>1 DEF Blocks
  <2>3. block' = [block EXCEPT ![c] = [b EXCEPT !.keys = @ \cup {s.k}]]
    BY <1>1, <1>2 DEF Registers
  <2>4. [b EXCEPT !.keys = @ \cup {s.k}].timer = b.timer
    BY <1>0, <2>1 DEF Blocks
  <2> QED BY <1>3, <2>2, <2>3, <2>4 DEF WInv, Shape
<1>5. /\ Ids(c)' \subseteq Ids(c) \cup (IF s.e.timed THEN {id} ELSE {})
      /\ \A d \in Clients \ {c} : Ids(d)' = Ids(d)
  BY <1>1, <1>2 DEF Ids
<1>6. PICK x : x = IF s.e.timed THEN id ELSE GetBlockContext(c).timer
  OBVIOUS
<1>7. Owing(c)' \subseteq Ids(c) \cup {x}
  <2>1. Owing(c)' \subseteq Ids(c)' \cup {block'[c].timer}
    BY DEF Owing
  <2>2. block'[c].timer = x /\ Ids(c)' \subseteq Ids(c) \cup {x}
    BY <1>4, <1>5, <1>6
  <2> QED BY <2>1, <2>2
<1>8. Gives(todo[w], c) /\ ~Clearing(c)
  <2>1. Gives(todo[w], c)
    BY <1>1, <1>2, <1>3 DEF Gives
  <2>2. ~Clearing(c)
    BY <1>1, <1>3, ClearingFacts DEF Asking
  <2> QED BY <2>1, <2>2
<1>9. Ids(c) \subseteq Owing(c)
  BY <1>8 DEF Owing
<1>10. Cardinality(Owing(c)') \in Nat /\ Cardinality(Owing(c)') <= Cardinality(Owing(c)) + 1
  <2>1. IsFiniteSet(Owing(c)) /\ Cardinality(Owing(c)) \in Nat
    BY <1>3, OwingFacts
  <2>2. PICK X : X = Owing(c)
    OBVIOUS
  <2>3. /\ IsFiniteSet(X \cup {x}) /\ Cardinality(X \cup {x}) <= Cardinality(X) + 1
        /\ Cardinality(X \cup {x}) \in Nat
    <3>1. IsFiniteSet(X) /\ Cardinality(X) \in Nat
      BY <2>1, <2>2
    <3>2. /\ IsFiniteSet(X \cup {x})
          /\ Cardinality(X \cup {x}) = IF x \in X THEN Cardinality(X) ELSE Cardinality(X) + 1
      BY <3>1, FS_AddElement
    <3> QED BY <3>1, <3>2
  <2>4. PICK Y : Y = Owing(c)'
    OBVIOUS
  <2>5. Y \subseteq X \cup {x}
    BY <1>7, <1>9, <2>2, <2>4
  <2>6. IsFiniteSet(Y) /\ Cardinality(Y) <= Cardinality(X \cup {x})
    BY <2>3, <2>5, FS_Subset
  <2>7. Cardinality(Y) \in Nat
    BY <2>6, FS_CardinalityType
  <2> QED BY <2>1, <2>2, <2>3, <2>4, <2>6, <2>7
<1>11. /\ todo'[w] = <<>> \/ todo'[w][1].c = c
       /\ \A v \in Workers \ {w} : todo'[v] = todo[v]
       /\ ~Gives(todo'[w], c)
  BY <1>1, <1>2, <1>3, GoesOnFor
<1>12. Owed(c)'
  <2>1. Owed(c) /\ owed[c] \in Int /\ Cardinality(Owing(c)) \in Nat
    BY <1>3, OwingFacts DEF OInv
  <2>2. owed[c] >= Cardinality(Owing(c)) + 1
    BY <1>3, <1>8, <2>1 DEF Owed
  <2>3. owed'[c] >= Cardinality(Owing(c)') + 0
    BY <1>1, <1>10, <2>1, <2>2
  <2> QED BY <1>3, <1>11, <2>3 DEF Owed
<1> QED BY <1>1, <1>2, <1>3, <1>4, <1>5, <1>11, <1>12, OthersOwed

\* The timers of a client, when some are cancelled.
LEMMA FewerIds ==
  ASSUME WInv, NEW c \in Clients, NEW N, timers' = timers \ {<<c, n>> : n \in N}
  PROVE  Ids(c)' = Ids(c) \ N /\ \A d \in Clients \ {c} : Ids(d)' = Ids(d)
<1>1. timers \in SUBSET (Clients \X (Nat \ {0}))
  BY DEF WInv, Shape
<1>2. \A t \in timers : t = <<t[1], t[2]>>
  BY <1>1
<1>3. ASSUME NEW d, NEW n PROVE n \in Ids(d) <=> <<d, n>> \in timers
  <2>1. n \in Ids(d) <=> \E t \in timers : t[1] = d /\ t[2] = n
    BY DEF Ids
  <2> QED BY <1>2, <2>1
<1>4. ASSUME NEW d, NEW n PROVE n \in Ids(d)' <=> <<d, n>> \in timers'
  <2>1. n \in Ids(d)' <=> \E t \in timers' : t[1] = d /\ t[2] = n
    BY DEF Ids
  <2>2. timers' \subseteq timers
    OBVIOUS
  <2> QED BY <1>2, <2>1, <2>2
<1>5. \A d, n : <<d, n>> \in timers' <=> <<d, n>> \in timers /\ ~(d = c /\ n \in N)
  OBVIOUS
<1>6. \A d, n : n \in Ids(d)' <=> n \in Ids(d) /\ ~(d = c /\ n \in N)
  BY <1>3, <1>4, <1>5
<1>7. Ids(c)' = Ids(c) \ N
  BY <1>6
<1>8. ASSUME NEW d \in Clients \ {c} PROVE Ids(d)' = Ids(d)
  BY <1>6
<1> QED BY <1>7, <1>8

\* The timer of a client's block context.
Timer(c) == IF block[c] = NULL THEN {} ELSE {block[c].timer}

LEMMA CancelledFacts ==
  ASSUME WInv, NEW c \in Clients, NEW id
  PROVE  /\ Cancelled(c) = timers \ {<<c, n>> : n \in Timer(c)}
         /\ Cancelled(c) \ {<<c, id>>} = timers \ {<<c, n>> : n \in Timer(c) \cup {id}}
BY DEF Cancelled, Timer

\* The end of a wait by an answer, which was the handler's to give.
LEMMA UnblockOwed ==
  ASSUME WInv, WInv', OInv, NEW w \in Workers, Unblock(w)
  PROVE  OInv'
<1>1. PICK q, c : q = todo[w] /\ c = Head(todo[w]).c
  OBVIOUS
<1>2. /\ q # <<>> /\ Head(q).op = "clear" /\ Continues(w) /\ ClearBlockKeys(c)
      /\ timers' = Cancelled(c) /\ owed' = owed
  BY <1>1 DEF Unblock, At
<1>3. /\ Head(q) = q[1] /\ c = q[1].c /\ q[1].op = "clear" /\ c \in Clients /\ Worker[c] = w
      /\ Len(q) \in Nat \ {0}
  BY <1>1, <1>2, AtFacts
<1>4. block'[c] = NULL /\ \A d \in Clients \ {c} : block'[d] = block[d]
  BY <1>2, <1>3, Cleared
<1>5. Ids(c)' = Ids(c) \ Timer(c) /\ \A d \in Clients \ {c} : Ids(d)' = Ids(d)
  <2>1. timers' = timers \ {<<c, n>> : n \in Timer(c)}
    BY <1>2, <1>3, CancelledFacts
  <2> QED BY <1>3, <2>1, FewerIds
<1>6. /\ todo'[w] = <<>> \/ todo'[w][1].c = c
      /\ \A v \in Workers \ {w} : todo'[v] = todo[v]
      /\ ~Gives(todo'[w], c) /\ ~Clearing(c)'
  BY <1>1, <1>2, <1>3, GoesOnFor
<1>7. Clearing(c)
  BY <1>1, <1>3 DEF Clearing
<1>8. Owing(c)' \subseteq Owing(c)
  <2>1. Owing(c)' = Ids(c)'
    BY <1>4, <1>6 DEF Owing, IsBlocked
  <2>2. Owing(c) = Ids(c) \ Timer(c)
    BY <1>7 DEF Owing, Timer
  <2> QED BY <1>5, <2>1, <2>2
<1>9. Owed(c)'
  BY <1>2, <1>3, <1>6, <1>8, OwedKept DEF OInv
<1> QED BY <1>1, <1>2, <1>3, <1>4, <1>5, <1>6, <1>9, OthersOwed

\* A client whose worker is idle, between two tasks of its loop.
LEMMA IdleOwed ==
  ASSUME WInv, NEW c \in Clients, todo[Worker[c]] = <<>>
  PROVE  /\ ~Gives(todo[Worker[c]], c) /\ ~Clearing(c)
         /\ Owing(c) = Ids(c) \cup (IF IsBlocked(c) THEN Timer(c) ELSE {})
<1>1. Chained(todo[Worker[c]])
  BY DEF WInv, Handles, Workers
<1>2. ~Gives(todo[Worker[c]], c) /\ ~Ends(todo[Worker[c]], c)
  BY <1>1, OneClient
<1>3. ~Clearing(c)
  BY <1>2, OwingFacts
<1> QED BY <1>2, <1>3 DEF Owing, Timer, IsBlocked

\* A wake-up that serves its client answers for its wait, or, where that has
\* ended, for nothing.
LEMMA WakeBlockedListOwed ==
  ASSUME WInv, WInv', OInv, NEW w \in Workers, WakeBlockedList(w)
  PROVE  OInv'
<1>0. PICK c, k, b, v : /\ c = Head(inbox[w])[1] /\ k = Head(inbox[w])[2]
                        /\ b = GetBlockContext(c) /\ v = Popped(lists[k], b.lpop)
  OBVIOUS
<1>1. /\ ~Busy(w) /\ inbox[w] # <<>> /\ timers' = timers
      /\ \/ UNCHANGED <<block, todo, owed>>
         \/ block' = [block EXCEPT ![c] = b] /\ UNCHANGED <<todo, owed>>
         \/ /\ block' = [block EXCEPT ![c] = b] /\ Does(w, Serve(b, c, k, v))
            /\ owed' = IF c \in table[k] THEN owed ELSE [owed EXCEPT ![c] = @ + 1]
  BY <1>0 DEF WakeBlockedList
<1>2. c \in Clients /\ k \in Keys /\ Worker[c] = w /\ todo[w] = <<>>
  BY <1>0, <1>1, TaskFacts DEF Busy
<1>3. b \in Blocks /\ b # NULL /\ b.keys = IF block[c] = NULL THEN {} ELSE block[c].keys
  BY <1>0, <1>2, ContextFacts
<1>4. /\ ~Gives(todo[w], c) /\ ~Clearing(c)
      /\ Owing(c) = Ids(c) \cup (IF IsBlocked(c) THEN Timer(c) ELSE {})
  BY <1>2, IdleOwed
<1>5. \A d \in Clients : Ids(d)' = Ids(d)
  BY <1>1 DEF Ids
<1>6. /\ \A d \in Clients \ {c} : block'[d] = block[d] /\ owed'[d] = owed[d]
      /\ block' = [block EXCEPT ![c] = b] => block'[c] = b
  <2>1. block \in [Clients -> Blocks \cup {NULL}] /\ owed \in [Clients -> Int]
    BY DEF WInv, Shape
  <2>2. \A d \in Clients \ {c} : block'[d] = block[d]
    BY <1>1, <2>1
  <2>3. \A d \in Clients \ {c} : owed'[d] = owed[d]
    BY <1>1, <2>1
  <2> QED BY <1>2, <2>1, <2>2, <2>3
<1>7. block[c] # NULL => b = block[c]
  BY <1>0 DEF GetBlockContext
<1>8. CASE UNCHANGED <<todo, owed>> /\ (block' = block \/ block' = [block EXCEPT ![c] = b])
  <2>1. IsBlocked(c)' => IsBlocked(c) /\ block'[c] = block[c]
    BY <1>3, <1>6, <1>7, <1>8 DEF IsBlocked
  <2>2. ~Clearing(c)'
    BY <1>4, <1>8 DEF Clearing
  <2>3. Owing(c)' \subseteq Owing(c)
    <3>1. Owing(c)' = Ids(c)' \cup (IF IsBlocked(c)' THEN {block'[c].timer} ELSE {})
      BY <2>2 DEF Owing
    <3>2. IsBlocked(c)' => Timer(c) = {block'[c].timer}
      BY <2>1 DEF Timer, IsBlocked
    <3> QED BY <1>2, <1>4, <1>5, <2>1, <3>1, <3>2
  <2>4. Owed(c)'
    BY <1>2, <1>8, <2>3, OwedKept DEF OInv
  <2> QED BY <1>2, <1>5, <1>6, <1>8, <2>4, OthersOwed
<1>9. CASE /\ block' = [block EXCEPT ![c] = b] /\ Does(w, Serve(b, c, k, v))
           /\ owed' = IF c \in table[k] THEN owed ELSE [owed EXCEPT ![c] = @ + 1]
  <2>1. PICK o, x, y, q : /\ o = (IF b.push_key = NULL THEN "popped" ELSE "push")
                          /\ x = Step(o, c, k, v) /\ y = Step("clear", c, k, v) /\ q = <<x, y>>
    OBVIOUS
  <2>2. /\ q # <<>> /\ Len(q) = 2 /\ q[1] = x /\ q[2] = y /\ x.c = c /\ y.c = c /\ y.op = "clear"
    BY <2>1 DEF Step
  <2>3. Does(w, q)
    BY <1>9, <2>1 DEF Serve
  <2>4. todo'[w] = q /\ \A u \in Workers \ {w} : todo'[u] = todo[u]
    BY <2>3 DEF Does, WInv, Shape
  <2>5. Clearing(c)'
    <3>1. 2 \in 1..Len(q)
      BY <2>2
    <3> QED BY <1>2, <2>2, <2>4, <3>1 DEF Clearing
  <2>6. Owing(c)' = Ids(c) \ {b.timer}
    <3>1. block'[c] = b
      BY <1>6, <1>9
    <3>2. Ids(c)' = Ids(c)
      BY <1>2, <1>5
    <3>3. Owing(c)' = Ids(c)' \ (IF block'[c] = NULL THEN {} ELSE {block'[c].timer})
      BY <2>5 DEF Owing
    <3> QED BY <1>3, <3>1, <3>2, <3>3
  <2>7. /\ IsFiniteSet(Ids(c)) /\ IsFiniteSet(Owing(c)) /\ Cardinality(Owing(c)) \in Nat
        /\ owed[c] \in Int /\ Owed(c)
    BY <1>2, OwingFacts DEF OInv
  <2>8. owed[c] >= Cardinality(Owing(c)) + 0
    BY <1>2, <1>4, <2>7 DEF Owed
  <2>9. Cardinality(Owing(c)') \in Nat /\ owed'[c] >= Cardinality(Owing(c)') + 1
    <3>1. CASE c \in table[k]
      <4>1. IsBlocked(c)
        BY <1>2, <3>1 DEF WInv, Waiting, IsBlocked
      <4>2. Owing(c) = Ids(c) \cup {b.timer}
        BY <1>4, <1>7, <4>1 DEF IsBlocked, Timer
      <4>3. PICK X, n : X = Owing(c) /\ n = b.timer
        OBVIOUS
      <4>4. Cardinality(X \ {n}) = Cardinality(X) - 1
        BY <2>7, <4>2, <4>3, FS_RemoveElement
      <4>5. Owing(c)' = X \ {n}
        BY <2>6, <4>2, <4>3
      <4>6. IsFiniteSet(X \ {n})
        BY <2>7, <4>3, FS_Subset
      <4>7. Cardinality(X \ {n}) \in Nat
        BY <4>6, FS_CardinalityType
      <4>8. owed'[c] = owed[c]
        BY <1>9, <3>1
      <4> QED BY <2>7, <2>8, <4>3, <4>4, <4>5, <4>7, <4>8
    <3>2. CASE c \notin table[k]
      <4>1. owed'[c] = owed[c] + 1
        BY <1>2, <1>9, <3>2 DEF WInv, Shape
      <4>2. PICK X, Y : X = Owing(c) /\ Y = Owing(c)'
        OBVIOUS
      <4>3. Y \subseteq X
        BY <1>4, <2>6, <4>2
      <4>4. IsFiniteSet(Y) /\ Cardinality(Y) <= Cardinality(X)
        BY <2>7, <4>2, <4>3, FS_Subset
      <4>5. Cardinality(Y) \in Nat
        BY <4>4, FS_CardinalityType
      <4> QED BY <2>7, <2>8, <4>1, <4>2, <4>4, <4>5
    <3> QED BY <3>1, <3>2
  <2>10. Owed(c)'
    <3>1. PICK z \in {0, 1} : z = IF Gives(todo'[Worker[c]], c) THEN 1 ELSE 0
      OBVIOUS
    <3>2. owed'[c] \in Int
      BY <1>2 DEF WInv, Shape
    <3>3. owed'[c] >= Cardinality(Owing(c)') + z
      BY <2>9, <3>1, <3>2
    <3> QED BY <3>1, <3>3 DEF Owed
  <2> QED BY <1>2, <1>5, <1>6, <2>2, <2>4, <2>10, OthersOwed
<1> QED BY <1>1, <1>8, <1>9

\* A timeout answers for its timer.
LEMMA TimeoutOwed ==
  ASSUME WInv, WInv', OInv, NEW c \in Clients, NEW id, <<c, id>> \in timers, BlockListTimeout(c, id)
  PROVE  OInv'
<1>1. /\ todo[Worker[c]] = <<>> /\ UNCHANGED <<todo, conn>>
      /\ \/ timers' = timers \ {<<c, n>> : n \in {id}} /\ UNCHANGED <<block, owed>>
         \/ /\ timers' = Cancelled(c) \ {<<c, id>>} /\ ClearBlockKeys(c)
            /\ owed' = [owed EXCEPT ![c] = IF conn[c] = "open" THEN @ - 1 ELSE @]
  BY DEF BlockListTimeout, Busy, Replied, sched
<1>2. PICK w \in Workers : w = Worker[c]
  BY DEF Workers
<1>3. /\ ~Gives(todo[w], c) /\ ~Clearing(c)
      /\ Owing(c) = Ids(c) \cup (IF IsBlocked(c) THEN Timer(c) ELSE {})
  BY <1>1, <1>2, IdleOwed
<1>4. ~Clearing(c)'
  BY <1>1, <1>3 DEF Clearing
<1>5. id \in Ids(c)
  <2>1. \E u \in timers : u[1] = c /\ u[2] = id
    OBVIOUS
  <2> QED BY <2>1 DEF Ids
<1>6. CASE timers' = timers \ {<<c, n>> : n \in {id}} /\ UNCHANGED <<block, owed>>
  <2>1. Ids(c)' = Ids(c) \ {id} /\ \A d \in Clients \ {c} : Ids(d)' = Ids(d)
    BY <1>6, FewerIds
  <2>2. Owing(c)' \subseteq Owing(c)
    BY <1>3, <1>4, <1>6, <2>1 DEF Owing, IsBlocked, Timer
  <2>3. Owed(c)'
    BY <1>1, <1>6, <2>2, OwedKept DEF OInv
  <2> QED BY <1>1, <1>2, <1>6, <2>1, <2>3, OthersOwed
<1>7. CASE /\ timers' = Cancelled(c) \ {<<c, id>>} /\ ClearBlockKeys(c)
           /\ owed' = [owed EXCEPT ![c] = IF conn[c] = "open" THEN @ - 1 ELSE @]
  <2>1. block'[c] = NULL /\ \A d \in Clients \ {c} : block'[d] = block[d]
    BY <1>7, Cleared
  <2>2. Ids(c)' = Ids(c) \ (Timer(c) \cup {id}) /\ \A d \in Clients \ {c} : Ids(d)' = Ids(d)
    <3>1. timers' = timers \ {<<c, n>> : n \in Timer(c) \cup {id}}
      BY <1>7, CancelledFacts
    <3> QED BY <3>1, FewerIds
  <2>3. PICK X, Y : X = Owing(c) /\ Y = Owing(c)'
    OBVIOUS
  <2>4. Y \subseteq X \ {id} /\ id \in X
    <3>1. Owing(c)' = Ids(c)'
      BY <1>4, <2>1 DEF Owing, IsBlocked
    <3> QED BY <1>3, <1>5, <2>2, <2>3, <3>1
  <2>5. /\ IsFiniteSet(X) /\ Cardinality(X) \in Nat /\ owed[c] \in Int /\ Owed(c)
    BY <2>3, OwingFacts DEF OInv
  <2>6. owed[c] >= Cardinality(X) + 0
    BY <1>2, <1>3, <2>3, <2>5 DEF Owed
  <2>7. Cardinality(X \ {id}) = Cardinality(X) - 1 /\ IsFiniteSet(X \ {id})
    <3>1. Cardinality(X \ {id}) = Cardinality(X) - 1
      BY <2>4, <2>5, FS_RemoveElement
    <3> QED BY <2>5, <3>1, FS_Subset
  <2>8. IsFiniteSet(Y) /\ Cardinality(Y) <= Cardinality(X \ {id})
    BY <2>4, <2>7, FS_Subset
  <2>9. Cardinality(Y) \in Nat
    BY <2>8, FS_CardinalityType
  <2>10. owed'[c] \in {owed[c], owed[c] - 1} /\ \A d \in Clients \ {c} : owed'[d] = owed[d]
    BY <1>7 DEF WInv, Shape
  <2>11. Owed(c)'
    <3>1. owed'[c] >= Cardinality(Y) + 0
      BY <2>5, <2>6, <2>7, <2>8, <2>9, <2>10
    <3>2. ~Gives(todo'[Worker[c]], c)
      BY <1>1, <1>2, <1>3
    <3> QED BY <2>3, <3>1, <3>2 DEF Owed
  <2> QED BY <1>1, <1>2, <2>1, <2>2, <2>10, <2>11, OthersOwed
<1> QED BY <1>1, <1>6, <1>7

\* A connection that closes is owed no more than it was.
LEMMA FreeClientContextOwed ==
  ASSUME WInv, WInv', OInv, NEW c \in Clients, FreeClientContext(c)
  PROVE  OInv'
<1>1. /\ todo[Worker[c]] = <<>> /\ UNCHANGED <<todo, owed>> /\ timers' = Cancelled(c)
      /\ ClearBlockKeys(c)
  BY DEF FreeClientContext, Busy, sched
<1>2. PICK w \in Workers : w = Worker[c]
  BY DEF Workers
<1>3. /\ ~Gives(todo[w], c) /\ ~Clearing(c) /\ Ids(c) \subseteq Owing(c)
  BY <1>1, <1>2, IdleOwed
<1>4. block'[c] = NULL /\ \A d \in Clients \ {c} : block'[d] = block[d]
  BY <1>1, Cleared
<1>5. Ids(c)' = Ids(c) \ Timer(c) /\ \A d \in Clients \ {c} : Ids(d)' = Ids(d)
  <2>1. timers' = timers \ {<<c, n>> : n \in Timer(c)}
    BY <1>1, CancelledFacts
  <2> QED BY <2>1, FewerIds
<1>6. Owing(c)' \subseteq Owing(c)
  <2>1. ~Clearing(c)'
    BY <1>1, <1>3 DEF Clearing
  <2>2. Owing(c)' = Ids(c)'
    BY <1>4, <2>1 DEF Owing, IsBlocked
  <2> QED BY <1>3, <1>5, <2>2
<1>7. Owed(c)'
  BY <1>1, <1>6, OwedKept DEF OInv
<1> QED BY <1>1, <1>2, <1>4, <1>5, <1>7, OthersOwed

LEMMA StillOwed ==
  ASSUME WInv, OInv, UNCHANGED <<block, timers, todo, owed>>
  PROVE  OInv'
BY DEF OInv, Owed, Owing, Clearing, Ids, IsBlocked, Gives

LEMMA InitOwed ==
  ASSUME Init
  PROVE  OInv
<1> SUFFICES ASSUME NEW c \in Clients PROVE Owed(c)
  BY DEF OInv
<1>1. /\ timers = {} /\ block[c] = NULL /\ owed[c] = 0 /\ todo[Worker[c]] = <<>>
      /\ Len(<<>>) = 0
  BY DEF Init, Workers
<1>2. ~Clearing(c) /\ ~Gives(todo[Worker[c]], c)
  BY <1>1 DEF Clearing, Gives
<1>3. Owing(c) = {}
  BY <1>1, <1>2 DEF Owing, Ids, IsBlocked
<1> QED BY <1>1, <1>2, <1>3, FS_EmptySet DEF Owed

LEMMA NextOwed ==
  ASSUME WInv, OInv, [Next]_vars
  PROVE  OInv'
<1>0. WInv'
  BY NextWaits
<1>1. CASE UNCHANGED vars
  BY <1>1, StillOwed DEF vars, sched
<1>2. ASSUME NEW c \in Clients, NEW b \in Sends[c], Read(c, b) PROVE OInv'
  BY <1>2, StillOwed DEF Read
<1>3. ASSUME NEW w \in Workers, Handle(w) PROVE OInv'
  BY <1>0, <1>3, CallOwed, TryOwed, BlockOwed, AddBlockKeyOwed, PushToOwed, ContinueOwed,
     ReplyOwed, UnblockOwed, WakeBlockedListOwed DEF Handle
<1>4. ASSUME NEW c \in Clients, Expire(c) PROVE OInv'
  <2>1. PICK u \in timers : u[1] = c /\ BlockListTimeout(c, u[2])
    BY <1>4 DEF Expire
  <2>2. <<c, u[2]>> \in timers
    <3>1. u \in Clients \X (Nat \ {0})
      BY DEF WInv, Shape
    <3>2. u = <<u[1], u[2]>>
      BY <3>1
    <3> QED BY <2>1, <3>2
  <2> QED BY <1>0, <2>1, <2>2, TimeoutOwed
<1>5. ASSUME NEW c \in Clients, FreeClientContext(c) PROVE OInv'
  BY <1>0, <1>5, FreeClientContextOwed
<1>6. ASSUME NEW c \in Clients, DeleteChannel(c) PROVE OInv'
  BY <1>6, StillOwed DEF DeleteChannel, sched
<1> QED BY <1>1, <1>2, <1>3, <1>4, <1>5, <1>6 DEF Next

\* A client gets no reply but for one of its blocking requests, or for a wake-up
\* that comes when it no longer waits: its handler, a wake-up and a timeout
\* never answer the same request twice (WakeBlockedList, BlockListTimeout::Run).
THEOREM RepliesTheorem == Spec => []RepliesOwed
<1>1. Init => WInv /\ OInv
  BY InitWaits, InitOwed
<1>2. WInv /\ OInv /\ [Next]_vars => (WInv /\ OInv)'
  BY NextWaits, NextOwed
<1>3. WInv /\ OInv => RepliesOwed
  <2> SUFFICES ASSUME WInv, OInv, NEW c \in Clients PROVE owed[c] >= 0
    BY DEF RepliesOwed
  <2>1. Owed(c) /\ owed[c] \in Int /\ Cardinality(Owing(c)) \in Nat
    BY OwingFacts DEF OInv
  <2>2. PICK x \in {0, 1} : x = IF Gives(todo[Worker[c]], c) THEN 1 ELSE 0
    OBVIOUS
  <2>3. owed[c] >= Cardinality(Owing(c)) + x
    BY <2>1, <2>2 DEF Owed
  <2> QED BY <2>1, <2>3
<1> QED BY <1>1, <1>2, <1>3, PTL DEF Spec
=============================================================================
