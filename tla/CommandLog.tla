----------------------------- MODULE CommandLog -----------------------------
(***************************************************************************)
(* From a command on the master to its effect on a slave: Comms::Call      *)
(* executes it, the worker posts the record of a change to the replication *)
(* thread, which writes it to the log with the `select' it needs, and the  *)
(* slave calls it again (comms.cpp, repl.cpp, slave.cpp, cron.cpp).        *)
(*                                                                         *)
(* How the log travels, and what a full resync does, is Replication's      *)
(* subject: here wal holds the records the slave has yet to apply.         *)
(***************************************************************************)
EXTENDS Commands

CONSTANTS
  Workers,      \* worker threads; each serves one client
  Keys,         \* keys clients use
  Cmds,         \* commands clients send
  Stores,       \* stores the master may start with
  MaxCmds,      \* bound: commands executed
  MaxEvents     \* bound: keys that expire and restarts of either server

\* Where the handlers find the keys of a command: DEL has any number of them.
KeyPlaces(c) ==
  CASE c[1] = "del" -> 2..Len(c)
    [] c[1] \in {"mset", "msetnx"} -> {2, 4}
    [] c[1] = "bitop" -> {3, 4}
    [] c[1] \in {"pfmerge", "rpoplpush", "brpoplpush", "smove", "rename", "renamenx", "sort"} -> {2, 3}
    [] c[1] \in {"sdiffstore", "sinterstore", "sunionstore"} -> {2, 3, 4}
    [] c[1] \in {"zinterstore", "zunionstore"} -> {2, 4, 5}
    [] c[1] \in {"flushdb", "flushall"} -> {}
    [] OTHER -> {2}

\* A command of the table that has a key wherever its handler reads one.
WellFormed(c) ==
  /\ c[1] \in DOMAIN Arity
  /\ ArityOK(c) /\ c[1] # "select" =>
       /\ Len(c) \in Nat /\ c = [i \in 1..Len(c) |-> c[i]]
       /\ \A i \in KeyPlaces(c) : i \in 2..Len(c) /\ c[i] \in Keys
       /\ c[1] = "move" => c[3] \in DBs

ASSUME CommandLogAssumption ==
  /\ 0 \in DBs
  /\ \A st \in Stores : IsStore(st)
  /\ \A c \in Cmds : WellFormed(c)

VARIABLES
  store,        \* the master's store
  currentDB,    \* currentDB[w]: Context::currentDB of the client of w
  posting,      \* posting[w]: records of an executed command, not yet posted
  queue,        \* WriteWALCallback tasks of the replication thread
  select_db,    \* ReplMeta: database of the last record of the log
  wal,          \* records of the log the slave has yet to apply
  replica,      \* the slave's store
  slave_db,     \* currentDB of the slave's m_slave_ctx
  unsound,      \* keys a command with a known gap has touched (history)
  gap,          \* a record was lost or overtaken, or the slave's database
                \* forgotten (history)
  cmds, events  \* counters of the bounds

master == <<store, currentDB, posting, queue, select_db>>
slave == <<replica, slave_db>>
vars == <<master, wal, slave, unsound, gap, cmds, events>>

Init ==
  /\ store \in Stores
  /\ currentDB = [w \in Workers |-> 0]
  /\ posting = [w \in Workers |-> <<>>]
  /\ queue = <<>> /\ wal = <<>>
  /\ select_db = 0 /\ slave_db = 0
  /\ replica = store
  /\ unsound = {} /\ gap = FALSE
  /\ cmds = 0 /\ events = 0

(***************************************************************************)
(* Commands whose effect does not reach the slave: no key event; an event  *)
(* that depends on a non-empty result, or on an element that is not empty; *)
(* a record the slave refuses or reads otherwise.  What they touch, and    *)
(* what is computed from it, is unsound.                                   *)
(***************************************************************************)
Unlogged == {"zinterstore", "zunionstore", "flushdb", "flushall"}
LoggedUnlessEmpty == {"sdiffstore", "sinterstore", "sunionstore", "sort"}
LoggedWrong == {"incrbyfloat", "hincrbyfloat", "brpoplpush"}

Touched(c) ==
  IF c[1] \in {"flushdb", "flushall"} THEN Keys ELSE Keys \cap {c[i] : i \in 2..Len(c)}

Spread(d, c, o) ==
  IF \/ c[1] \in Unlogged \cup LoggedWrong
     \/ c[1] \in LoggedUnlessEmpty /\ o.fired = {}
     \/ Swallows(store, d, c)
     \/ Touched(c) \cap unsound # {}
  THEN unsound \cup Touched(c)
  ELSE unsound

-----------------------------------------------------------------------------
(***************************************************************************)
(* Master.                                                                 *)
(***************************************************************************)
\* Call up to WriteWAL: the handler has run, and has fired key events or not.
Execute(w, c) ==
  /\ cmds < MaxCmds /\ posting[w] = <<>>
  /\ c[1] # "select" /\ ArityOK(c)
  /\ cmds' = cmds + 1
  /\ \E o \in Handler(store, currentDB[w], c) :
       /\ store' = o.kv
       /\ posting' = [posting EXCEPT ![w] =
                        IF o.fired = {} THEN <<>>
                        ELSE <<[db |-> currentDB[w], cmd |-> o.cmd, at |-> cmds]>>]
       /\ unsound' = Spread(currentDB[w], c, o)
  /\ UNCHANGED <<currentDB, queue, select_db, wal, slave, gap, events>>

Select(w, d) ==
  /\ posting[w] = <<>> /\ d # currentDB[w]
  /\ <<"select", d>> \in Cmds
  /\ currentDB' = [currentDB EXCEPT ![w] = d]
  /\ UNCHANGED <<store, posting, queue, select_db, wal, slave, unsound, gap,
                 cmds, events>>

\* Another worker has executed a command before `at' and not yet posted it.
Overtakes(at) == \E v \in Workers : posting[v] # <<>> /\ posting[v][1].at < at

\* WriteWAL(db, cmd): the record is encoded and posted.
WriteWAL(w) ==
  /\ posting[w] # <<>>
  /\ queue' = Append(queue, [db |-> posting[w][1].db, cmd |-> posting[w][1].cmd])
  /\ posting' = [posting EXCEPT ![w] = <<>>]
  /\ gap' = (gap \/ Overtakes(posting[w][1].at))
  /\ UNCHANGED <<store, currentDB, select_db, wal, slave, unsound, cmds, events>>

\* WriteWAL(db, buffer): a record for another database is preceded by a select.
Records(r) ==
  IF select_db # r.db THEN <<<<"select", r.db>>, r.cmd>> ELSE <<r.cmd>>

WriteWALCallback ==
  /\ queue # <<>>
  /\ wal' = wal \o Records(Head(queue))
  /\ select_db' = Head(queue).db
  /\ queue' = Tail(queue)
  /\ UNCHANGED <<store, currentDB, posting, slave, unsound, gap, cmds, events>>

\* The cron thread removes a key whose time has come, and its callback posts
\* a del for it.  Slaves do not expire keys.
ExpireCheck(d, k) ==
  /\ events < MaxEvents
  /\ Has(store, d, k) /\ store[d][k].ttl
  /\ events' = events + 1
  /\ store' = Del(store, d, {k})
  /\ queue' = Append(queue, [db |-> d, cmd |-> <<"del", k>>])
  /\ gap' = (gap \/ Overtakes(cmds))
  /\ UNCHANGED <<currentDB, posting, select_db, wal, slave, unsound, cmds>>

\* The master ends and starts again: the store and the log are files, the
\* tasks of its threads are not.
RestartMaster ==
  /\ events < MaxEvents
  /\ events' = events + 1
  /\ gap' = (gap \/ queue # <<>> \/ \E w \in Workers : posting[w] # <<>>)
  /\ queue' = <<>>
  /\ posting' = [w \in Workers |-> <<>>]
  /\ currentDB' = [w \in Workers |-> 0]
  /\ UNCHANGED <<store, select_db, wal, slave, unsound, cmds>>

-----------------------------------------------------------------------------
(***************************************************************************)
(* Slave.                                                                  *)
(***************************************************************************)
\* ReplayWAL and HandleRedisCommand call the next record with no_wal.
ApplyRecord ==
  /\ wal # <<>>
  /\ LET c == Head(wal)
     IN  \/ /\ c[1] = "select"
            /\ slave_db' = c[2]
            /\ UNCHANGED replica
         \/ /\ c[1] # "select" /\ ArityOK(c)
            /\ \E o \in Handler(replica, slave_db, c) : replica' = o.kv
            /\ UNCHANGED slave_db
         \/ /\ ~ArityOK(c)
            /\ UNCHANGED slave
  /\ wal' = Tail(wal)
  /\ UNCHANGED <<master, unsound, gap, cmds, events>>

\* The slave ends and starts again, and continues where its store and log
\* are: its context is new, and starts in database 0.
RestartSlave ==
  /\ events < MaxEvents
  /\ events' = events + 1
  /\ gap' = (gap \/ slave_db # 0)
  /\ slave_db' = 0
  /\ UNCHANGED <<master, wal, replica, unsound, cmds>>

-----------------------------------------------------------------------------
Next ==
  \/ \E w \in Workers, c \in Cmds : Execute(w, c)
  \/ \E w \in Workers, d \in DBs : Select(w, d)
  \/ \E w \in Workers : WriteWAL(w)
  \/ WriteWALCallback
  \/ \E d \in DBs, k \in Keys : ExpireCheck(d, k)
  \/ ApplyRecord
  \/ RestartMaster
  \/ RestartSlave

Spec == Init /\ [][Next]_vars
-----------------------------------------------------------------------------
(***************************************************************************)
(* Properties.                                                             *)
(***************************************************************************)

\* The same key in two stores.
Same(st1, st2, d, k) ==
  /\ Has(st1, d, k) <=> Has(st2, d, k)
  /\ Has(st1, d, k) => /\ st1[d][k].type = st2[d][k].type
                       /\ st1[d][k].ttl = st2[d][k].ttl
                       /\ st1[d][k].content = st2[d][k].content

Drained == wal = <<>> /\ queue = <<>> /\ \A w \in Workers : posting[w] = <<>>

\* Once the slave has applied all that was executed, it holds what the master
\* holds, in every database: each record, rewritten or not, does to the slave
\* what the command did to the master, in the right database, expiry included.
\* The commands with a known gap, and the executions whose records are lost or
\* posted in another order, are left out.
ReplicaAgrees ==
  Drained /\ ~gap => \A d \in DBs, k \in Keys \ unsound : Same(store, replica, d, k)

\* The same of all commands and executions: a slave is a copy of its master.
ReplicaIsCopy == Drained => \A d \in DBs, k \in Keys : Same(store, replica, d, k)

\* A command that changes a key announces it (FireKeyChangedEvent): WATCH and
\* the log depend on it.  The commands that do not are named, and so is the
\* blocking pop of an empty string.
Silent == Unlogged \cup LoggedUnlessEmpty \cup {"bitop"}
ChangesAnnounced ==
  \A w \in Workers, c \in Cmds :
    /\ cmds < MaxCmds /\ posting[w] = <<>>
    /\ c[1] \notin Silent \cup {"select"} /\ ArityOK(c)
    /\ ~Swallows(store, currentDB[w], c)
    => \A o \in Handler(store, currentDB[w], c), d \in DBs, k \in Keys :
         Same(store, o.kv, d, k) \/ <<d, k>> \in o.fired
=============================================================================
