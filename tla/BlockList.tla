------------------------------ MODULE BlockList -----------------------------
(***************************************************************************)
(* Clients that wait for a list element (t_list.cpp): BLPOP, BRPOP and     *)
(* BRPOPLPUSH register the client's context under its keys, a push posts a *)
(* wake-up to the loop of each registered context, and the wake-up pops,   *)
(* answers and clears the registration; a timer answers the ones that wait *)
(* too long.                                                               *)
(*                                                                         *)
(* A client belongs to one worker.  A worker runs one handler at a time:   *)
(* todo holds the steps left of it, one per access to what others share    *)
(* (the store, the table under its lock, the queues of the loops), and     *)
(* unread the commands that came in the same read.                         *)
(***************************************************************************)
EXTENDS Integers, Sequences, FiniteSets, SequencesExt

CONSTANTS
  Clients,
  Worker,       \* Worker[c]: the thread that serves c
  Keys,         \* keys of lists
  NotAList,     \* a destination that holds another type
  NULL,
  Sends,        \* Sends[c]: what c may send in one read, sequences of requests
  Blanks,       \* elements that are empty strings
  MaxReads,     \* bound: reads from clients
  MaxElements,  \* bound: elements pushed
  MaxCloses     \* bound: connections closed

\* The table of commands gives each at least one key, BRPOPLPUSH a destination.
Requests ==
  {r \in [cmd : {"lpush", "rpush", "blpop", "brpop", "brpoplpush"}, keys : Seq(Keys),
          to : Keys \cup {NULL, NotAList}, timed : BOOLEAN] :
     r.keys # <<>> /\ (r.cmd = "brpoplpush" => r.to # NULL)}

\* ListBlockContext.
Blocks == [keys : SUBSET Keys, lpop : BOOLEAN, push_key : Keys \cup {NULL, NotAList}, timer : Nat]

ASSUME BlockListAssumption ==
  /\ IsFiniteSet(Clients) /\ Clients \cap {NULL, "lost", "swallowed"} = {}
  /\ NULL \notin Keys \cup {NotAList, "lost", "swallowed"} /\ NULL \notin Blocks
  /\ NotAList \notin Keys
  /\ \A c \in Clients : Sends[c] \subseteq Seq(Requests)
  /\ MaxElements \in Nat

VARIABLES
  lists,        \* m_kv_store
  table,        \* m_block_context_table
  block,        \* Context::block
  attached,     \* the loop watches the client's socket
  conn,         \* "open", "closed" (handler alive), "freed"
  timers,       \* scheduled BlockListTimeout tasks: <<c, id>>
  todo, unread, \* what is left of the handler and of the read of a worker
  inbox,        \* WakeBlockedListCallback tasks of a worker's loop: <<c, key>>
  wal,          \* records posted to the replication thread: the elements
                \* with a push record, and with a pop record
  owed,         \* blocking requests of c, and wake-ups that came for c when it
                \* no longer waited, minus replies (history)
  fate,         \* what became of elements no list holds (history)
  missed,       \* registrations that a new element passed by (history)
  server,       \* "up", or "crashed": a freed context was used
  reads, pushed, closes

sched == <<todo, unread, inbox>>
bounds == <<reads, pushed, closes>>
vars == <<lists, table, block, attached, conn, timers, sched, wal, owed, fate,
          missed, server, bounds>>

Workers == {Worker[c] : c \in Clients}
Busy(w) == todo[w] # <<>> \/ unread[w] # <<>>

\* GetBlockContext: the context's, or a new one with the defaults.
NewBlock == [keys |-> {}, lpop |-> FALSE, push_key |-> NULL, timer |-> 0]
GetBlockContext(c) == IF block[c] = NULL THEN NewBlock ELSE block[c]

Init ==
  /\ lists = [k \in Keys |-> <<>>]
  /\ table = [k \in Keys |-> {}]
  /\ block = [c \in Clients |-> NULL]
  /\ attached = [c \in Clients |-> TRUE]
  /\ conn = [c \in Clients |-> "open"]
  /\ timers = {}
  /\ todo = [w \in Workers |-> <<>>]
  /\ unread = [w \in Workers |-> <<>>]
  /\ inbox = [w \in Workers |-> <<>>]
  /\ wal = [pushed |-> {}, popped |-> {}]
  /\ owed = [c \in Clients |-> 0]
  /\ fate = [e \in 1..MaxElements |-> NULL]
  /\ missed = {}
  /\ server = "up"
  /\ reads = 0 /\ pushed = 0 /\ closes = 0

-----------------------------------------------------------------------------
(***************************************************************************)
(* Requests.                                                               *)
(***************************************************************************)
Step(op, c, k, e) == [op |-> op, c |-> c, k |-> k, e |-> e]

Does(w, steps) == todo' = [todo EXCEPT ![w] = steps]
Continues(w) == Does(w, Tail(todo[w]))

\* The loop reads from an attached client: one or more commands.
Read(c, batch) ==
  /\ ~Busy(Worker[c]) /\ conn[c] = "open" /\ attached[c]
  /\ reads < MaxReads
  /\ reads' = reads + 1
  /\ unread' = [unread EXCEPT ![Worker[c]] = [i \in DOMAIN batch |-> <<c, batch[i]>>]]
  /\ UNCHANGED <<lists, table, block, attached, conn, timers, todo, inbox, wal,
                 owed, fate, missed, server, pushed, closes>>

\* The steps of a blocking command as long as it finds no element.
Blocking(c, r) ==
  IF r.cmd = "brpoplpush"
  THEN <<Step("try", c, r.keys[1], r), Step("block", c, r.keys[1], r)>>
  ELSE [i \in DOMAIN r.keys |-> Step("try", c, r.keys[i], r)]
         \o <<Step("block", c, r.keys[1], r)>>
         \o [i \in DOMAIN Tail(r.keys) |-> Step("register", c, r.keys[i + 1], r)]

\* LPush, RPush: the element, then WakeBlockingListsByKey, then Call's record.
Push(c, r) ==
  LET k == r.keys[1]
      e == pushed + 1
  IN  /\ pushed < MaxElements
      /\ pushed' = e
      /\ lists' = [lists EXCEPT ![k] = IF r.cmd = "lpush" THEN <<e>> \o @ ELSE Append(@, e)]
      /\ Does(Worker[c], <<Step("wake", c, k, e), Step("pushed", c, k, e)>>)
      /\ UNCHANGED owed

Call(w) ==
  /\ todo[w] = <<>> /\ unread[w] # <<>>
  /\ unread' = [unread EXCEPT ![w] = Tail(@)]
  /\ LET c == Head(unread[w])[1]
         r == Head(unread[w])[2]
     IN  \/ r.cmd \in {"lpush", "rpush"} /\ Push(c, r)
         \/ /\ r.cmd \in {"lpush", "rpush"} /\ pushed = MaxElements
            /\ UNCHANGED <<lists, todo, owed, pushed>>
         \/ /\ r.cmd \in {"blpop", "brpop", "brpoplpush"}
            /\ Does(w, Blocking(c, r))
            /\ owed' = [owed EXCEPT ![c] = @ + 1]
            /\ UNCHANGED <<lists, pushed>>
  /\ UNCHANGED <<table, block, attached, conn, timers, inbox, wal, fate,
                 missed, server, reads, closes>>

\* The next step of w's handler, when it is an op.
At(w, op) == todo[w] # <<>> /\ Head(todo[w]).op = op

\* LPop and RPop of the store.
Popped(s, lpop) == IF lpop THEN Head(s) ELSE Last(s)
Left(s, lpop) == IF lpop THEN Tail(s) ELSE Front(s)

\* An element comes to key k and nobody is woken.
PassedBy(k) == missed' = missed \cup (IF k \in Keys THEN table[k] \X {k} ELSE {})

\* The store's pops in BLPop, and its RPopLPush.  BLPop takes an empty string
\* for a list without elements.
Try(w) ==
  /\ At(w, "try")
  /\ LET s == Head(todo[w])
         lpop == s.e.cmd = "blpop"
         v == Popped(lists[s.k], lpop)
         rest == [lists EXCEPT ![s.k] = Left(@, lpop)]
     IN  \/ /\ lists[s.k] = <<>>
            /\ Continues(w)
            /\ UNCHANGED <<lists, fate, missed>>
         \/ /\ lists[s.k] # <<>> /\ s.e.cmd = "brpoplpush"
            /\ lists' = IF s.e.to = NotAList THEN lists
                        ELSE [rest EXCEPT ![s.e.to] = <<v>> \o @]
            /\ PassedBy(s.e.to)
            /\ Does(w, <<Step("answer", s.c, s.k, s.e)>>)
            /\ UNCHANGED fate
         \/ /\ lists[s.k] # <<>> /\ s.e.cmd # "brpoplpush" /\ v \in Blanks
            /\ lists' = rest
            /\ fate' = [fate EXCEPT ![v] = "swallowed"]
            /\ Continues(w)
            /\ UNCHANGED missed
         \/ /\ lists[s.k] # <<>> /\ s.e.cmd # "brpoplpush" /\ v \notin Blanks
            /\ lists' = rest
            /\ Does(w, <<Step("popped", s.c, s.k, v)>>)
            /\ UNCHANGED <<fate, missed>>
  /\ UNCHANGED <<table, block, attached, conn, timers, unread, inbox, wal, owed,
                 server, bounds>>

Registers(s, b) ==
  /\ table' = [table EXCEPT ![s.k] = @ \cup {s.c}]
  /\ block' = [block EXCEPT ![s.c] = [b EXCEPT !.keys = @ \cup {s.k}]]
  /\ missed' = IF lists[s.k] # <<>> THEN missed \cup {<<s.c, s.k>>} ELSE missed

\* DetachFD, the rest of the block context, the timer if there is one, which
\* only this worker sees, and the first AddBlockKey.
Block(w) ==
  /\ At(w, "block")
  /\ LET s == Head(todo[w])
         ids == {t[2] : t \in {u \in timers : u[1] = s.c}}
         id == CHOOSE i \in 1..(Cardinality(ids) + 1) : i \notin ids
     IN  /\ attached' = [attached EXCEPT ![s.c] = FALSE]
         /\ timers' = timers \cup (IF s.e.timed THEN {<<s.c, id>>} ELSE {})
         /\ Registers(s, [GetBlockContext(s.c) EXCEPT !.lpop = (s.e.cmd = "blpop"),
                            !.push_key = IF s.e.cmd = "brpoplpush" THEN s.e.to ELSE @,
                            !.timer = IF s.e.timed THEN id ELSE @])
  /\ Continues(w)
  /\ UNCHANGED <<lists, conn, unread, inbox, wal, owed, fate, server, bounds>>

AddBlockKey(w) ==
  /\ At(w, "register")
  /\ LET s == Head(todo[w]) IN Registers(s, GetBlockContext(s.c))
  /\ Continues(w)
  /\ UNCHANGED <<lists, attached, conn, timers, unread, inbox, wal, owed, fate,
                 server, bounds>>

-----------------------------------------------------------------------------
(***************************************************************************)
(* Wake-ups.                                                               *)
(***************************************************************************)
\* The contexts registered for k that w's loop serves.
Woken(w, k) == SetToSeq({c \in table[k] : Worker[c] = w})

\* (mutant of WakeBlockingListsByKey: only one waiting client is woken)
WakeOne(w) ==
  /\ At(w, "wake")
  /\ LET k == Head(todo[w]).k
     IN  IF table[k] = {} THEN UNCHANGED inbox
         ELSE LET c == CHOOSE d \in table[k] : TRUE
              IN  inbox' = [inbox EXCEPT ![Worker[c]] = Append(@, <<c, k>>)]
  /\ Continues(w)
  /\ UNCHANGED <<lists, table, block, attached, conn, timers, unread, wal, owed,
                 fate, missed, server, bounds>>

\* Under the read lock, a task for every context registered for the key.
WakeBlockingListsByKey(w) ==
  /\ At(w, "wake")
  /\ LET k == Head(todo[w]).k
     IN  inbox' = [v \in Workers |->
                     inbox[v] \o [i \in DOMAIN Woken(v, k) |-> <<Woken(v, k)[i], k>>]]
  /\ Continues(w)
  /\ UNCHANGED <<lists, table, block, attached, conn, timers, unread, wal, owed,
                 fate, missed, server, bounds>>

\* What WakeBlockedList does with the element it has popped.
Serve(b, c, k, v) ==
  IF b.push_key = NULL
  THEN <<Step("popped", c, k, v), Step("clear", c, k, v)>>
  ELSE <<Step("push", c, k, v), Step("clear", c, k, v)>>

\* The task on the loop of the context, which may no longer wait, or exist.
WakeBlockedList(w) ==
  /\ ~Busy(w) /\ inbox[w] # <<>>
  /\ inbox' = [inbox EXCEPT ![w] = Tail(@)]
  /\ LET c == Head(inbox[w])[1]
         k == Head(inbox[w])[2]
         b == GetBlockContext(c)
         v == Popped(lists[k], b.lpop)
         rest == [lists EXCEPT ![k] = Left(@, b.lpop)]
     IN  \/ /\ conn[c] = "freed"
            /\ server' = "crashed"
            /\ UNCHANGED <<lists, block, todo, owed, fate>>
         \/ /\ conn[c] # "freed" /\ lists[k] = <<>>
            /\ block' = [block EXCEPT ![c] = b]
            /\ UNCHANGED <<lists, todo, owed, fate, server>>
         \/ /\ conn[c] # "freed" /\ lists[k] # <<>> /\ v \in Blanks
            /\ lists' = rest
            /\ block' = [block EXCEPT ![c] = b]
            /\ fate' = [fate EXCEPT ![v] = "swallowed"]
            /\ UNCHANGED <<todo, owed, server>>
         \/ /\ conn[c] # "freed" /\ lists[k] # <<>> /\ v \notin Blanks
            /\ lists' = rest
            /\ block' = [block EXCEPT ![c] = b]
            /\ Does(w, Serve(b, c, k, v))
            /\ owed' = IF c \in table[k] THEN owed ELSE [owed EXCEPT ![c] = @ + 1]
            /\ UNCHANGED <<fate, server>>
  /\ UNCHANGED <<table, attached, conn, timers, unread, wal, missed, bounds>>

\* (mutant of Repushed: the element is pushed back in any case)
RepushedTwice(b, k, v) ==
  LET back == [lists EXCEPT ![k] = IF b.lpop THEN <<v>> \o @ ELSE Append(@, v)]
  IN  IF b.push_key = NotAList THEN back
      ELSE [back EXCEPT ![b.push_key] = Append(@, v)]

\* The lists with v at the end of the destination, or, if that is no list,
\* back where it was.
Repushed(b, k, v) ==
  IF b.push_key = NotAList
  THEN [lists EXCEPT ![k] = IF b.lpop THEN <<v>> \o @ ELSE Append(@, v)]
  ELSE [lists EXCEPT ![b.push_key] = Append(@, v)]

\* A woken BRPOPLPUSH pushes with RPush.
PushTo(w) ==
  /\ At(w, "push")
  /\ LET s == Head(todo[w])
         b == block[s.c]
     IN  /\ lists' = Repushed(b, s.k, s.e)
         /\ PassedBy(IF b.push_key = NotAList THEN s.k ELSE b.push_key)
         /\ Does(w, <<Step("answer", s.c, s.k, s.e)>> \o Tail(todo[w]))
  /\ UNCHANGED <<table, block, attached, conn, timers, unread, inbox, wal, owed,
                 fate, server, bounds>>

Replied(c) == owed' = [owed EXCEPT ![c] = IF conn[c] = "open" THEN @ - 1 ELSE @]

\* Call's record of a push.
WriteWAL(w) ==
  /\ At(w, "pushed")
  /\ wal' = [wal EXCEPT !.pushed = @ \cup {Head(todo[w]).e}]
  /\ Continues(w)
  /\ UNCHANGED <<lists, table, block, attached, conn, timers, unread, inbox,
                 owed, fate, missed, server, bounds>>

\* The record of a pop (by Call or WakeBlockedList), and the reply, which
\* takes the element to the client if the connection is still there.
Deliver(w) ==
  /\ At(w, "popped") \/ At(w, "unlogged")
  /\ LET s == Head(todo[w])
     IN  /\ wal' = IF s.op = "popped" THEN [wal EXCEPT !.popped = @ \cup {s.e}] ELSE wal
         /\ fate' = [fate EXCEPT ![s.e] = IF conn[s.c] = "open" THEN s.c ELSE "lost"]
         /\ Replied(s.c)
  /\ Continues(w)
  /\ UNCHANGED <<lists, table, block, attached, conn, timers, unread, inbox,
                 missed, server, bounds>>

\* The record and the reply of a BRPOPLPUSH, whose element is in a list: Call
\* posts an rpoplpush that still has the timeout, WakeBlockedList one without
\* a destination; slaves refuse both for their number of arguments.
Answer(w) ==
  /\ At(w, "answer")
  /\ Replied(Head(todo[w]).c)
  /\ Continues(w)
  /\ UNCHANGED <<lists, table, block, attached, conn, timers, unread, inbox, wal,
                 fate, missed, server, bounds>>

-----------------------------------------------------------------------------
(***************************************************************************)
(* The end of a wait.                                                      *)
(***************************************************************************)
\* (mutant of ClearBlockKeys: an emptied entry is erased, others kept)
ClearBlockKeysLast(c) ==
  /\ block' = [block EXCEPT ![c] = NULL]
  /\ table' = [k \in Keys |-> IF table[k] = {c} THEN {} ELSE table[k]]
  /\ missed' = {m \in missed : m[1] # c}

\* (mutant of Cancelled: the timer goes on)
CancelledNot(c) == timers

\* Cancel of the block context's timer.
Cancelled(c) ==
  IF block[c] = NULL THEN timers ELSE timers \ {<<c, block[c].timer>>}

ClearBlockKeys(c) ==
  /\ block' = [block EXCEPT ![c] = NULL]
  /\ table' = [k \in Keys |->
                 IF block[c] # NULL /\ k \in block[c].keys THEN table[k] \ {c} ELSE table[k]]
  /\ missed' = {m \in missed : m[1] # c}

\* The end of WakeBlockedList: AttachFD, ClearBlockKeys.
Unblock(w) ==
  /\ At(w, "clear")
  /\ LET c == Head(todo[w]).c
     IN  /\ attached' = [attached EXCEPT ![c] = TRUE]
         /\ timers' = Cancelled(c)
         /\ ClearBlockKeys(c)
  /\ Continues(w)
  /\ UNCHANGED <<lists, conn, unread, inbox, wal, owed, fate, server, bounds>>

\* (mutant of BlockListTimeout: the reply leaves the client blocked)
TimeoutReplies(c, id) ==
  /\ ~Busy(Worker[c]) /\ <<c, id>> \in timers
  /\ timers' = timers \ {<<c, id>>}
  /\ Replied(c)
  /\ UNCHANGED <<lists, table, block, attached, conn, sched, wal, fate, missed,
                 server, bounds>>

\* BlockListTimeout::Run, with the context it was made for.
BlockListTimeout(c, id) ==
  /\ ~Busy(Worker[c]) /\ <<c, id>> \in timers
  /\ \/ /\ conn[c] = "freed"
        /\ server' = "crashed"
        /\ timers' = timers \ {<<c, id>>}
        /\ UNCHANGED <<table, block, attached, owed, missed>>
     \/ /\ conn[c] # "freed"
        /\ timers' = Cancelled(c) \ {<<c, id>>}
        /\ ClearBlockKeys(c)
        /\ Replied(c)
        /\ attached' = [attached EXCEPT ![c] = TRUE]
        /\ UNCHANGED server
  /\ UNCHANGED <<lists, conn, sched, wal, fate, bounds>>

\* The peer closes, CLIENT KILL, or the idle timeout, which does not spare
\* clients that wait.
FreeClientContext(c) ==
  /\ ~Busy(Worker[c]) /\ conn[c] = "open"
  /\ closes < MaxCloses
  /\ closes' = closes + 1
  /\ conn' = [conn EXCEPT ![c] = "closed"]
  /\ timers' = Cancelled(c)
  /\ ClearBlockKeys(c)
  /\ UNCHANGED <<lists, attached, sched, wal, owed, fate, server, reads, pushed>>

\* The loop deletes the channel, and with it the handler and its context.
DeleteChannel(c) ==
  /\ ~Busy(Worker[c]) /\ conn[c] = "closed"
  /\ conn' = [conn EXCEPT ![c] = "freed"]
  /\ UNCHANGED <<lists, table, block, attached, timers, sched, wal, owed, fate,
                 missed, server, bounds>>

-----------------------------------------------------------------------------
Handle(w) ==
  \/ Call(w) \/ Try(w) \/ Block(w) \/ AddBlockKey(w)
  \/ WakeBlockingListsByKey(w) \/ PushTo(w) \/ WriteWAL(w) \/ Deliver(w)
  \/ Answer(w) \/ Unblock(w) \/ WakeBlockedList(w)

Expire(c) == \E t \in timers : t[1] = c /\ BlockListTimeout(c, t[2])

Next ==
  /\ server = "up"
  /\ \/ \E c \in Clients : \E b \in Sends[c] : Read(c, b)
     \/ \E w \in Workers : Handle(w)
     \/ \E c \in Clients : Expire(c) \/ FreeClientContext(c) \/ DeleteChannel(c)

\* The loops run: a worker continues its handler and runs its tasks, and a
\* timer that is due is found by the next turn of its loop.
Fairness ==
  /\ \A w \in Workers : WF_vars(server = "up" /\ Handle(w))
  /\ \A c \in Clients : WF_vars(server = "up" /\ Expire(c))

Spec == Init /\ [][Next]_vars /\ Fairness
-----------------------------------------------------------------------------
(***************************************************************************)
(* Properties.                                                             *)
(***************************************************************************)
Ops == {"try", "block", "register", "wake", "pushed", "popped", "unlogged",
        "push", "answer", "clear"}

TypeOK ==
  /\ lists \in [Keys -> Seq(1..MaxElements)]
  /\ table \in [Keys -> SUBSET Clients]
  /\ \A c \in Clients :
       block[c] # NULL => /\ block[c].keys \subseteq Keys
                          /\ block[c].lpop \in BOOLEAN
                          /\ block[c].push_key \in Keys \cup {NULL, NotAList}
  /\ attached \in [Clients -> BOOLEAN]
  /\ conn \in [Clients -> {"open", "closed", "freed"}]
  /\ \A t \in timers : t[1] \in Clients /\ t[2] \in Nat \ {0}
  /\ \A w \in Workers :
       /\ \A i \in DOMAIN todo[w] : todo[w][i].op \in Ops /\ Worker[todo[w][i].c] = w
       /\ \A i \in DOMAIN inbox[w] : Worker[inbox[w][i][1]] = w
  /\ owed \in [Clients -> Int]
  /\ missed \subseteq Clients \X Keys

\* A context is in the table under exactly the keys it remembers, so that the
\* end of its wait takes it out, and a closed connection's is in no entry: a
\* push never finds a context that is gone.
TableAgrees ==
  \A c \in Clients, k \in Keys :
    c \in table[k] <=> block[c] # NULL /\ k \in block[c].keys /\ conn[c] = "open"

\* A socket the loop does not watch belongs to a client that something will
\* attach again: it is registered, or the handler that blocks or answers it
\* is still running.
DetachedWaits ==
  \A c \in Clients :
    conn[c] = "open" /\ ~attached[c]
      => \/ \E k \in Keys : c \in table[k]
         \/ \E i \in DOMAIN todo[Worker[c]] : todo[Worker[c]][i].c = c

\* While a client waits for a key with an element it could have, its wake-up
\* is posted, or the push that will post it is under way, or the client is
\* being let go; unless the element was there when the client registered, or
\* came by BRPOPLPUSH, which wakes nobody.
Coming(c, k) ==
  \/ \E i \in DOMAIN inbox[Worker[c]] : inbox[Worker[c]][i] = <<c, k>>
  \/ \E w \in Workers : \E i \in DOMAIN todo[w] :
       \/ todo[w][i].op = "wake" /\ todo[w][i].k = k
       \/ todo[w][i].op = "clear" /\ todo[w][i].c = c
WaitersWoken ==
  \A c \in Clients, k \in Keys :
    c \in table[k] /\ lists[k] # <<>> /\ <<c, k>> \notin missed => Coming(c, k)

\* Every element pushed is in one place: in one list, in the hands of one
\* handler, with one client, or dropped as one of the ways to lose it.
Held(e) == {w \in Workers : \E i \in DOMAIN todo[w] : todo[w][i].op \in {"push", "popped", "unlogged"} /\ todo[w][i].e = e}
Spots(e) == UNION {{<<k, i>> : i \in {j \in DOMAIN lists[k] : lists[k][j] = e}} : k \in Keys}
Conserved ==
  \A e \in 1..pushed :
    Cardinality(Spots(e)) + Cardinality(Held(e)) + (IF fate[e] = NULL THEN 0 ELSE 1) = 1

\* What a client takes is taken from the slaves too: an element that was
\* delivered has a record of its push and of its pop, once no handler has one
\* to post.
Logged ==
  (\A w \in Workers : todo[w] = <<>>)
    => \A e \in 1..pushed :
         /\ e \in wal.pushed
         /\ e \in wal.popped <=> fate[e] # NULL /\ fate[e] # "swallowed"

\* A client that waits with a timeout does not wait for ever: it is answered
\* and attached again, unless it is closed.
Answered ==
  \A c \in Clients :
    (\E t \in timers : t[1] = c)
      ~> (attached[c] \/ conn[c] # "open" \/ server = "crashed")

\* The wake-up, the timeout and the handler of a request do not answer it
\* twice: a client gets a reply for a request, or for a wake-up that was still
\* posted when its wait ended, and never for anything else.
RepliesOwed == \A c \in Clients : owed[c] >= 0

\* The waiting clients, the table, the sockets and the timers belong together:
\* a table entry for every key of every waiting client and no other, and no
\* socket detached that nobody will attach (AddBlockKey, ClearBlockKeys).
WaitersConsistent == TypeOK /\ TableAgrees /\ DetachedWaits

\* No element is lost or duplicated between the lists, the handlers and the
\* clients but in the ways named, and the log agrees (WakeBlockedList).
Accounted == Conserved /\ Logged
=============================================================================
